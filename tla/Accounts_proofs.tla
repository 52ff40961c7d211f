--------------------------- MODULE Accounts_proofs ---------------------------
(***************************************************************************)
(* What a login keeps and what a change revokes, whatever the order of the *)
(* statements of the requests.  The invariant says for each request what   *)
(* is left of its handler, and what that will still do: trim the sessions  *)
(* it exceeds, record a failure, generate a token, revoke the sessions or  *)
(* the codes.  So a step is seen as the move of one request from one of    *)
(* these programs to the next, and each part of the invariant is shown to  *)
(* be kept by every such move.                                             *)
(***************************************************************************)
EXTENDS Accounts, FiniteSetTheorems, SequenceTheorems, TLAPS

(* What a request may still have to do: the statements of one handler.      *)
Programs ==
  {<<"create", "insert", "count">>, <<"insert", "count">>, <<"count">>, <<"trim">>,
   <<"decide">>, <<"code">>, <<"consume">>,
   <<"password", "others">>, <<"others">>,
   <<"password", "tokens", "clear2fa", "codes">>, <<"tokens", "clear2fa", "codes">>,
   <<"clear2fa", "codes">>, <<"codes">>,
   <<"confirm", "enable", "codes", "newcodes">>, <<"enable", "codes", "newcodes">>,
   <<"codes", "newcodes">>, <<"newcodes">>,
   <<"secret">>, <<"disable", "tokens">>, <<"tokens">>, <<"delete">>}

Todo(w, programs) == task[w] # Idle /\ task[w].todo \in programs

Programmed == \A w \in Worker : task[w] # Idle => task[w].todo \in Programs
TrimsSome == \A w \in Worker : Runs(w, "trim") => task[w].key >= 1

\* Whoever will generate a token has room for it.
RoomKept == issued + Cardinality(Generators) <= MaxIssued

\* No id of a ticket is used twice, and what stems from a ticket is no session's yet.
FromTickets ==
  /\ \A t \in tickets : t.id \in 1..issued /\ \A v \in tickets : t.id = v.id => t = v
  /\ \A w \in Worker : task[w] # Idle =>
       /\ task[w].from <= issued
       /\ \A u \in User : \A i \in DOMAIN sessions[u] :
            task[w].from # 0 => sessions[u][i].from # task[w].from
  /\ \A u \in User : \A i \in DOMAIN sessions[u] : sessions[u][i].from <= issued

\* A login that has read the account may still add a failure.
Deciders(u) == {w \in Worker : Runs(w, "decide") /\ task[w].user = u}
FailuresToCome ==
  \A u \in DOMAIN failures :
    failures[u] + Cardinality(Deciders(u)) < MaxFailures + Cardinality(Worker)

\* An account that is not there has nothing.
GoneIsEmpty ==
  \A u \in User : ~Live(u) =>
    /\ sessions[u] = <<>> /\ u \notin codes
    /\ ~account[u].twofa /\ ~account[u].secret

\* Requests on 2FA act on an account that was there; unless they have overlapped,
\* there is one of them, and each of its statements finds what those before it left.
TwoFactorSteps ==
  /\ \A w \in Worker : About2FA(task[w]) => account[task[w].user].status # "none"
  /\ \A u \in User \ mixed :
       /\ \A v, w \in Worker : (/\ About2FA(task[v]) /\ task[v].user = u
                                /\ About2FA(task[w]) /\ task[w].user = u) => v = w
       /\ account[u].twofa => account[u].secret
       /\ (~account[u].twofa /\ u \in codes) =>
            \E w \in Worker : Todo(w, {<<"codes">>}) /\ task[w].user = u
       /\ \A w \in Worker : (task[w] # Idle /\ task[w].user = u /\ Live(u)) =>
            /\ Todo(w, {<<"confirm", "enable", "codes", "newcodes">>,
                        <<"enable", "codes", "newcodes">>}) => account[u].secret
            /\ Todo(w, {<<"codes", "newcodes">>, <<"newcodes">>}) => account[u].twofa

\* What every state keeps.
IInv ==
  /\ TypeOK /\ Programmed /\ TrimsSome /\ RoomKept /\ SessionLimit
  /\ TicketOnce /\ FromTickets /\ FailuresToCome
  /\ OldSessionsEnd /\ GoneIsEmpty /\ TwoFactorSteps

-----------------------------------------------------------------------------
(* Programs.                                                                *)
Generating == {<<"create", "insert", "count">>, <<"consume">>}
Revoking ==
  {<<"password", "others">>, <<"others">>,
   <<"password", "tokens", "clear2fa", "codes">>, <<"tokens", "clear2fa", "codes">>,
   <<"disable", "tokens">>, <<"tokens">>}
Verifying == {<<"confirm", "enable", "codes", "newcodes">>, <<"enable", "codes", "newcodes">>}
Renewing == {<<"codes", "newcodes">>, <<"newcodes">>}
On2FAPrograms ==
  Verifying \cup Renewing \cup
  {<<"password", "tokens", "clear2fa", "codes">>, <<"tokens", "clear2fa", "codes">>,
   <<"clear2fa", "codes">>, <<"codes">>, <<"secret">>}

LEMMA ProgramTypes ==
  \A p \in Programs : p \in Seq(Statement) /\ p # <<>> /\ Len(p) \in 1..4
<1>1. \A p \in Programs : p # <<>> /\ Len(p) \in 1..4
  BY DEF Programs
<1>2. <<"create", "insert", "count">> \in Seq(Statement)
  BY DEF Statement
<1>3. <<"insert", "count">> \in Seq(Statement)
  BY DEF Statement
<1>4. <<"count">> \in Seq(Statement)
  BY DEF Statement
<1>5. <<"trim">> \in Seq(Statement)
  BY DEF Statement
<1>6. <<"decide">> \in Seq(Statement)
  BY DEF Statement
<1>7. <<"code">> \in Seq(Statement)
  BY DEF Statement
<1>8. <<"consume">> \in Seq(Statement)
  BY DEF Statement
<1>9. <<"password", "others">> \in Seq(Statement)
  BY DEF Statement
<1>10. <<"others">> \in Seq(Statement)
  BY DEF Statement
<1>11. <<"password", "tokens", "clear2fa", "codes">> \in Seq(Statement)
  BY DEF Statement
<1>12. <<"tokens", "clear2fa", "codes">> \in Seq(Statement)
  BY DEF Statement
<1>13. <<"clear2fa", "codes">> \in Seq(Statement)
  BY DEF Statement
<1>14. <<"codes">> \in Seq(Statement)
  BY DEF Statement
<1>15. <<"confirm", "enable", "codes", "newcodes">> \in Seq(Statement)
  BY DEF Statement
<1>16. <<"enable", "codes", "newcodes">> \in Seq(Statement)
  BY DEF Statement
<1>17. <<"codes", "newcodes">> \in Seq(Statement)
  BY DEF Statement
<1>18. <<"newcodes">> \in Seq(Statement)
  BY DEF Statement
<1>19. <<"secret">> \in Seq(Statement)
  BY DEF Statement
<1>20. <<"disable", "tokens">> \in Seq(Statement)
  BY DEF Statement
<1>21. <<"tokens">> \in Seq(Statement)
  BY DEF Statement
<1>22. <<"delete">> \in Seq(Statement)
  BY DEF Statement
<1> QED
  BY <1>1, <1>2, <1>3, <1>4, <1>5, <1>6, <1>7, <1>8, <1>9, <1>10, <1>11, <1>12, <1>13, <1>14,
     <1>15, <1>16, <1>17, <1>18, <1>19, <1>20, <1>21, <1>22 DEF Programs

Mentions(p, names) == \E i \in DOMAIN p : p[i] \in names

\* What a program will still do.
LEMMA Contents ==
  \A p \in Programs :
    /\ Mentions(p, {"create", "consume"}) <=> p \in Generating
    /\ Mentions(p, {"others", "tokens"}) <=> p \in Revoking
    /\ Mentions(p, On2FA) <=> p \in On2FAPrograms
<1> SUFFICES ASSUME NEW p \in Programs
             PROVE  /\ Mentions(p, {"create", "consume"}) <=> p \in Generating
                    /\ Mentions(p, {"others", "tokens"}) <=> p \in Revoking
                    /\ Mentions(p, On2FA) <=> p \in On2FAPrograms
  OBVIOUS
<1>1. Mentions(p, {"create", "consume"}) <=> p \in Generating
  BY DEF Programs, Mentions, Generating
<1>2. Mentions(p, {"others", "tokens"}) <=> p \in Revoking
  BY DEF Programs, Mentions, Revoking
<1>3. Mentions(p, On2FA) <=> p \in On2FAPrograms
  BY DEF Programs, Mentions, On2FAPrograms, On2FA, Verifying, Renewing
<1> QED
  BY <1>1, <1>2, <1>3

\* The programs that begin with a statement.
Starting ==
  [create |-> {<<"create", "insert", "count">>}, insert |-> {SignIn}, count |-> {<<"count">>},
   trim |-> {<<"trim">>}, decide |-> {<<"decide">>}, code |-> {<<"code">>},
   consume |-> {<<"consume">>},
   password |-> {<<"password", "others">>, <<"password", "tokens", "clear2fa", "codes">>},
   others |-> {<<"others">>}, tokens |-> {<<"tokens", "clear2fa", "codes">>, <<"tokens">>},
   clear2fa |-> {<<"clear2fa", "codes">>}, codes |-> {<<"codes">>, <<"codes", "newcodes">>},
   newcodes |-> {<<"newcodes">>}, secret |-> {<<"secret">>},
   confirm |-> {<<"confirm", "enable", "codes", "newcodes">>},
   enable |-> {<<"enable", "codes", "newcodes">>}, disable |-> {<<"disable", "tokens">>},
   delete |-> {<<"delete">>}]

LEMMA Heads ==
  \A p \in Programs : Head(p) \in Statement /\ p \in Starting[Head(p)]
BY DEF Programs, Starting, Statement, SignIn

\* What comes after its first statement.
LEMMA Tails ==
  /\ Len(<<"create", "insert", "count">>) # 1
        /\ Tail(<<"create", "insert", "count">>) = <<"insert", "count">>
  /\ Len(<<"insert", "count">>) # 1 /\ Tail(<<"insert", "count">>) = <<"count">>
  /\ Len(<<"password", "others">>) # 1 /\ Tail(<<"password", "others">>) = <<"others">>
  /\ Len(<<"password", "tokens", "clear2fa", "codes">>) # 1
        /\ Tail(<<"password", "tokens", "clear2fa", "codes">>) = <<"tokens", "clear2fa", "codes">>
  /\ Len(<<"tokens", "clear2fa", "codes">>) # 1
        /\ Tail(<<"tokens", "clear2fa", "codes">>) = <<"clear2fa", "codes">>
  /\ Len(<<"clear2fa", "codes">>) # 1 /\ Tail(<<"clear2fa", "codes">>) = <<"codes">>
  /\ Len(<<"confirm", "enable", "codes", "newcodes">>) # 1
        /\ Tail(<<"confirm", "enable", "codes", "newcodes">>) = <<"enable", "codes", "newcodes">>
  /\ Len(<<"enable", "codes", "newcodes">>) # 1
        /\ Tail(<<"enable", "codes", "newcodes">>) = <<"codes", "newcodes">>
  /\ Len(<<"codes", "newcodes">>) # 1 /\ Tail(<<"codes", "newcodes">>) = <<"newcodes">>
  /\ Len(<<"disable", "tokens">>) # 1 /\ Tail(<<"disable", "tokens">>) = <<"tokens">>
OBVIOUS

LEMMA Singles ==
  /\ Len(<<"count">>) = 1
  /\ Len(<<"trim">>) = 1
  /\ Len(<<"decide">>) = 1
  /\ Len(<<"code">>) = 1
  /\ Len(<<"consume">>) = 1
  /\ Len(<<"others">>) = 1
  /\ Len(<<"codes">>) = 1
  /\ Len(<<"newcodes">>) = 1
  /\ Len(<<"secret">>) = 1
  /\ Len(<<"tokens">>) = 1
  /\ Len(<<"delete">>) = 1
OBVIOUS

-----------------------------------------------------------------------------
(* Requests.                                                                *)
TaskTypes == task \in [Worker -> Request \cup {Idle}]

LEMMA RowTypes ==
  /\ NewAccount \in Account
  /\ \A pw \in Nat : Verified(pw) \in Account /\ Verified(pw).pw = pw
BY DEF NewAccount, Verified, Account

LEMMA AskType ==
  ASSUME NEW u \in User, NEW todo \in Programs, NEW row \in Account, NEW key \in Nat,
         NEW from \in Nat
  PROVE  LET r == Asks(u, todo, row, key, from) IN
         /\ r \in Request /\ r # Idle
         /\ r.todo = todo /\ r.user = u /\ r.row = row /\ r.key = key /\ r.from = from
<1>1. todo \in Seq(Statement)
  BY ProgramTypes
<1>2. Asks(u, todo, row, key, from) \in Request
  BY <1>1 DEF Asks, Request
<1> QED
  BY <1>2, SentinelAssumption DEF Asks

LEMMA TaskOf ==
  ASSUME TypeOK, NEW w \in Worker, task[w] # Idle
  PROVE  /\ task[w] \in Request /\ task[w].user \in User /\ task[w].row \in Account
         /\ task[w].key \in Nat /\ task[w].from \in Nat /\ task[w].row.pw \in Nat
         /\ Verified(task[w].row.pw) \in Account
<1>1. task[w] \in Request
  BY DEF TypeOK
<1>2. task[w].user \in User /\ task[w].row \in Account /\ task[w].key \in Nat
      /\ task[w].from \in Nat
  BY <1>1 DEF Request
<1>3. task[w].row.pw \in Nat
  BY <1>2 DEF Account
<1> QED
  BY <1>1, <1>2, <1>3, RowTypes

\* Only the request w goes on.
Turns(w) == TaskTypes' /\ \A v \in Worker : v # w => task'[v] = task[v]

LEMMA Put ==
  ASSUME TypeOK, NEW w \in Worker, NEW x \in Request \cup {Idle},
         task' = [task EXCEPT ![w] = x]
  PROVE  Turns(w) /\ task'[w] = x
BY DEF TypeOK, Turns, TaskTypes

\* What it will do then, and what it knows.
Then(w, u, todo, row, key, from) ==
  /\ task'[w] # Idle
  /\ task'[w].user = u /\ task'[w].todo = todo /\ task'[w].row = row
  /\ task'[w].key = key /\ task'[w].from = from

LEMMA Ask ==
  ASSUME TypeOK, NEW w \in Worker, NEW u \in User, NEW todo \in Programs,
         NEW row \in Account, NEW key \in Nat, NEW from \in Nat,
         task' = [task EXCEPT ![w] = Asks(u, todo, row, key, from)]
  PROVE  Turns(w) /\ Then(w, u, todo, row, key, from)
<1> DEFINE r == Asks(u, todo, row, key, from)
<1>1. /\ r \in Request /\ r # Idle
      /\ r.todo = todo /\ r.user = u /\ r.row = row /\ r.key = key /\ r.from = from
  BY AskType
<1> HIDE DEF r
<1>2. task' = [task EXCEPT ![w] = r]
  BY DEF r
<1> QED
  BY <1>1, <1>2, Put DEF Then

LEMMA End ==
  ASSUME TypeOK, NEW w \in Worker, Finish(w)
  PROVE  Turns(w) /\ task'[w] = Idle
BY Put DEF Finish

LEMMA GoingOn ==
  ASSUME TypeOK, NEW w \in Worker, task[w] # Idle, NEW todo \in Programs, NEW key \in Nat,
         NEW from \in Nat, GoOn(w, todo, key, from)
  PROVE  Turns(w) /\ Then(w, task[w].user, todo, Verified(task[w].row.pw), key, from)
<1>1. task[w].user \in User /\ Verified(task[w].row.pw) \in Account
  BY TaskOf
<1>2. task' = [task EXCEPT ![w] = Asks(task[w].user, todo, Verified(task[w].row.pw), key, from)]
  BY DEF GoOn
<1> QED
  BY <1>1, <1>2, Ask

LEMMA Running ==
  ASSUME Programmed, NEW w \in Worker, NEW name, Runs(w, name)
  PROVE  task[w] # Idle /\ task[w].todo \in Programs /\ task[w].todo \in Starting[name]
         /\ name \in Statement
BY Heads DEF Runs, Programmed

\* A request that advances: done after its only statement, else at the next.
Advanced(w, todo) == Then(w, task[w].user, todo, task[w].row, task[w].key, task[w].from)

LEMMA Advancing ==
  ASSUME TypeOK, NEW w \in Worker, task[w] # Idle, Advance(w)
  PROVE  /\ Len(task[w].todo) = 1 => Turns(w) /\ task'[w] = Idle
         /\ (Len(task[w].todo) # 1 /\ Tail(task[w].todo) \in Programs) =>
              Turns(w) /\ Advanced(w, Tail(task[w].todo))
<1> DEFINE t == Tail(task[w].todo)
<1>1. ASSUME Len(task[w].todo) = 1
      PROVE  Turns(w) /\ task'[w] = Idle
  <2>1. task' = [task EXCEPT ![w] = Idle]
    BY <1>1 DEF Advance
  <2> QED
    BY <2>1, Put
<1>2. ASSUME Len(task[w].todo) # 1, t \in Programs
      PROVE  Turns(w) /\ Advanced(w, t)
  <2>1. task' = [task EXCEPT ![w] = Asks(task[w].user, t, task[w].row, task[w].key, task[w].from)]
    BY <1>2 DEF Advance
  <2>2. /\ task[w].user \in User /\ task[w].row \in Account
        /\ task[w].key \in Nat /\ task[w].from \in Nat
    BY TaskOf
  <2> HIDE DEF t
  <2> QED
    BY <1>2, <2>1, <2>2, Ask DEF Advanced
<1> QED
  BY <1>1, <1>2

LEMMA Closed ==
  \A p \in Programs : Len(p) = 1 \/ (Len(p) # 1 /\ Tail(p) \in Programs)
BY Singles, Tails DEF Programs, SignIn

\* What is left of a program.
Left(w) == Tail(task[w].todo)
AdvanceTurn(w) ==
  /\ Turns(w)
  /\ \/ Len(task[w].todo) = 1 /\ task'[w] = Idle
     \/ Len(task[w].todo) # 1 /\ Left(w) \in Programs /\ Advanced(w, Left(w))

LEMMA AdvanceTurns ==
  ASSUME TypeOK, Programmed, NEW w \in Worker, task[w] # Idle, Advance(w)
  PROVE  AdvanceTurn(w)
<1>1. task[w].todo \in Programs
  BY DEF Programmed
<1>2. Len(task[w].todo) = 1 \/ (Len(task[w].todo) # 1 /\ Left(w) \in Programs)
  BY <1>1, Closed DEF Left
<1> QED
  BY <1>2, Advancing DEF AdvanceTurn, Left

LEMMA StatementPrograms ==
  /\ SignIn = <<"insert", "count">>
  /\ ChangeStatements = <<"password", "others">>
  /\ ResetStatements = <<"password", "tokens", "clear2fa", "codes">>
  /\ VerifyStatements = <<"confirm", "enable", "codes", "newcodes">>
  /\ Disable2FAStatements = <<"clear2fa", "codes">>
BY DEF SignIn, ChangeStatements, ResetStatements, VerifyStatements, Disable2FAStatements

\* The handlers that verify a caller, and then run their statements.
HandlerPrograms ==
  {<<"password", "others">>, <<"password", "tokens", "clear2fa", "codes">>,
   <<"confirm", "enable", "codes", "newcodes">>, <<"clear2fa", "codes">>,
   <<"codes", "newcodes">>, <<"secret">>, <<"delete">>, <<"disable", "tokens">>}
Handles(w, u, todo, key) ==
  /\ Begin(w, u, todo, key) /\ Live(u)
  /\ todo = <<"confirm", "enable", "codes", "newcodes">> => account[u].secret
  /\ todo = <<"codes", "newcodes">> => account[u].twofa
  /\ failures' = failures /\ attempts' \in {attempts, Reserved(attempts, u)}

LEMMA SessionOf ==
  ASSUME TypeOK, NEW u \in User
  PROVE  /\ sessions[u] \in Seq(Session) /\ Len(sessions[u]) \in Nat
         /\ DOMAIN sessions[u] = 1..Len(sessions[u])
         /\ \A i \in DOMAIN sessions[u] :
              /\ sessions[u][i] \in Session
              /\ sessions[u][i].id \in Nat /\ sessions[u][i].pw \in Nat
              /\ sessions[u][i].from \in Nat /\ sessions[u][i].kept \in BOOLEAN
<1>1. sessions[u] \in Seq(Session)
  BY DEF TypeOK
<1>2. Len(sessions[u]) \in Nat /\ DOMAIN sessions[u] = 1..Len(sessions[u])
  BY <1>1, LenProperties
<1>3. \A i \in DOMAIN sessions[u] : sessions[u][i] \in Session
  BY <1>1, <1>2, ElementOfSeq
<1> QED
  BY <1>1, <1>2, <1>3 DEF Session

LEMMA SessionIdTypes ==
  ASSUME TypeOK, NEW u \in User, NEW s \in SessionIds(u)
  PROVE  s \in Nat
BY SessionOf DEF SessionIds

LEMMA RequestsHandle ==
  ASSUME TypeOK, NEW w \in Worker, NEW u \in User,
         \/ \E s \in SessionIds(u) : OwnAccount(w, u, s)
         \/ DisableUser(w, u) \/ DeleteUser(w, u) \/ ResetUserPassword(w, u)
  PROVE  \E todo \in HandlerPrograms, key \in Nat : Handles(w, u, todo, key)
<1>1. CASE \E s \in SessionIds(u) : OwnAccount(w, u, s)
  <2>1. PICK s \in SessionIds(u) : OwnAccount(w, u, s)
    BY <1>1
  <2>2. s \in Nat
    BY SessionIdTypes
  <2> USE StatementPrograms DEF HandlerPrograms, Handles, Untracked, Authenticated
  <2>3. CASE ChangePassword(w, u, s)
    BY <2>2, <2>3 DEF ChangePassword
  <2>4. CASE Enable2FA(w, u, s)
    BY <2>4 DEF Enable2FA
  <2>5. CASE Verify2FA(w, u, s)
    BY <2>5 DEF Verify2FA
  <2>6. CASE Disable2FA(w, u, s)
    BY <2>6 DEF Disable2FA
  <2>7. CASE RegenerateBackupCodes(w, u, s)
    BY <2>7 DEF RegenerateBackupCodes
  <2>8. CASE DeleteCurrentUser(w, u, s)
    BY <2>8 DEF DeleteCurrentUser
  <2> QED
    BY <2>1, <2>3, <2>4, <2>5, <2>6, <2>7, <2>8 DEF OwnAccount
<1>2. CASE DisableUser(w, u) \/ DeleteUser(w, u) \/ ResetUserPassword(w, u)
  <2> USE StatementPrograms DEF HandlerPrograms, Handles, Untracked
  <2>1. CASE DisableUser(w, u)
    BY <2>1 DEF DisableUser
  <2>2. CASE DeleteUser(w, u)
    BY <2>2 DEF DeleteUser
  <2>3. CASE ResetUserPassword(w, u)
    BY <2>3 DEF ResetUserPassword
  <2> QED
    BY <1>2, <2>1, <2>2, <2>3
<1> QED
  BY <1>1, <1>2

\* The sessions that are left are some of those that were there.
Thinner(u) ==
  /\ sessions' \in [User -> Seq(Session)]
  /\ \A v \in User : v # u => sessions'[v] = sessions[v]
  /\ Len(sessions'[u]) <= Len(sessions[u])
  /\ \E f \in [DOMAIN sessions'[u] -> DOMAIN sessions[u]] :
       /\ \A i, j \in DOMAIN sessions'[u] : f[i] = f[j] => i = j
       /\ \A i \in DOMAIN sessions'[u] :
            /\ sessions'[u][i].pw = sessions[u][f[i]].pw
            /\ sessions'[u][i].from = sessions[u][f[i]].from
            /\ sessions[u][f[i]].kept => sessions'[u][i].kept

LEMMA EmptyIsThinner ==
  ASSUME TypeOK, NEW u \in User, sessions' = [sessions EXCEPT ![u] = <<>>]
  PROVE  Thinner(u) /\ sessions'[u] = <<>>
<1>1. sessions \in [User -> Seq(Session)] /\ <<>> \in Seq(Session)
  BY DEF TypeOK
<1>2. sessions' \in [User -> Seq(Session)] /\ sessions'[u] = <<>>
      /\ \A v \in User : v # u => sessions'[v] = sessions[v]
  BY <1>1
<1>3. Len(sessions'[u]) <= Len(sessions[u]) /\ DOMAIN sessions'[u] = {}
  BY <1>1, <1>2
<1>4. <<>> \in [DOMAIN sessions'[u] -> DOMAIN sessions[u]]
  BY <1>3
<1> QED
  BY <1>2, <1>3, <1>4 DEF Thinner

LEMMA Removing ==
  ASSUME NEW S, NEW s \in Seq(S), NEW i \in 1..Len(s)
  PROVE  /\ RemoveAt(s, i) \in Seq(S) /\ Len(RemoveAt(s, i)) = Len(s) - 1
         /\ \A j \in 1..(Len(s) - 1) : RemoveAt(s, i)[j] = IF j < i THEN s[j] ELSE s[j + 1]
<1> DEFINE a == SubSeq(s, 1, i - 1)
           b == SubSeq(s, i + 1, Len(s))
<1>1. /\ a \in Seq(S) /\ Len(a) = i - 1 /\ \A j \in 1..(i - 1) : a[j] = s[j]
  BY SubSeqProperties
<1>2. /\ b \in Seq(S) /\ Len(b) = Len(s) - i /\ \A j \in 1..(Len(s) - i) : b[j] = s[i + j]
  BY SubSeqProperties
<1>3. RemoveAt(s, i) = a \o b
  BY DEF RemoveAt
<1> HIDE DEF a, b
<1>4. Len(s) \in Nat /\ i \in Nat /\ i >= 1 /\ i <= Len(s)
  BY LenProperties
<1>5. /\ a \o b \in Seq(S) /\ Len(a \o b) = Len(a) + Len(b)
      /\ \A j \in 1..(Len(a) + Len(b)) :
           (a \o b)[j] = IF j <= Len(a) THEN a[j] ELSE b[j - Len(a)]
  BY <1>1, <1>2, ConcatProperties
<1>6. ASSUME NEW j \in 1..(Len(s) - 1)
      PROVE  (a \o b)[j] = IF j < i THEN s[j] ELSE s[j + 1]
  <2>1. CASE j < i
    BY <1>1, <1>2, <1>4, <1>5, <2>1
  <2>2. CASE ~(j < i)
    <3>1. j - Len(a) \in 1..(Len(s) - i) /\ i + (j - Len(a)) = j + 1
      BY <1>1, <1>4, <2>2
    <3>2. (a \o b)[j] = b[j - Len(a)]
      BY <1>1, <1>2, <1>4, <1>5, <2>2
    <3> QED
      BY <1>2, <2>2, <3>1, <3>2
  <2> QED
    BY <2>1, <2>2
<1> QED
  BY <1>1, <1>2, <1>3, <1>4, <1>5, <1>6

LEMMA DeleteIsThinner ==
  ASSUME TypeOK, NEW u \in User, NEW s, Delete(u, s)
  PROVE  Thinner(u)
<1>1. PICK i \in DOMAIN sessions[u] : sessions' = [sessions EXCEPT ![u] = RemoveAt(sessions[u], i)]
  BY DEF Delete
<1>2. sessions[u] \in Seq(Session) /\ i \in 1..Len(sessions[u]) /\ Len(sessions[u]) \in Nat
      /\ DOMAIN sessions[u] = 1..Len(sessions[u])
  BY <1>1, SessionOf
<1> DEFINE r == RemoveAt(sessions[u], i)
<1>7. /\ r \in Seq(Session) /\ Len(r) = Len(sessions[u]) - 1
      /\ \A j \in 1..(Len(sessions[u]) - 1) :
           r[j] = IF j < i THEN sessions[u][j] ELSE sessions[u][j + 1]
  BY <1>2, Removing
<1>8. sessions' = [sessions EXCEPT ![u] = r] /\ sessions \in [User -> Seq(Session)]
  BY <1>1 DEF TypeOK
<1> HIDE DEF r
<1>9. sessions' \in [User -> Seq(Session)] /\ sessions'[u] = r
      /\ \A v \in User : v # u => sessions'[v] = sessions[v]
  BY <1>7, <1>8
<1>10. DOMAIN r = 1..(Len(sessions[u]) - 1)
  BY <1>7, LenProperties
<1>3. /\ sessions' \in [User -> Seq(Session)]
      /\ \A v \in User : v # u => sessions'[v] = sessions[v]
      /\ Len(sessions'[u]) = Len(sessions[u]) - 1 /\ DOMAIN sessions'[u] = 1..(Len(sessions[u]) - 1)
      /\ \A j \in 1..(Len(sessions[u]) - 1) :
           sessions'[u][j] = IF j < i THEN sessions[u][j] ELSE sessions[u][j + 1]
  BY <1>7, <1>9, <1>10
<1> DEFINE f == [j \in DOMAIN sessions'[u] |-> IF j < i THEN j ELSE j + 1]
<1>4. f \in [DOMAIN sessions'[u] -> DOMAIN sessions[u]]
  BY <1>2, <1>3
<1>5. \A j, k \in DOMAIN sessions'[u] : f[j] = f[k] => j = k
  BY <1>2, <1>3
<1>6. \A j \in DOMAIN sessions'[u] : sessions'[u][j] = sessions[u][f[j]]
  BY <1>2, <1>3
<1> HIDE DEF f
<1>11. Len(sessions'[u]) <= Len(sessions[u])
  BY <1>2, <1>3
<1>12. \A j \in DOMAIN sessions'[u] :
          /\ sessions'[u][j].pw = sessions[u][f[j]].pw
          /\ sessions'[u][j].from = sessions[u][f[j]].from
          /\ sessions[u][f[j]].kept => sessions'[u][j].kept
  BY <1>6
<1> QED
  BY <1>3, <1>4, <1>5, <1>11, <1>12 DEF Thinner

-----------------------------------------------------------------------------
(* Moves: what a step does to the request that takes it.                    *)
None == <<>>
Prog(w) == IF task[w] = Idle THEN None ELSE task[w].todo
At(w, u) == task[w] # Idle /\ task[w].user = u

\* The request w, of the user u, goes from one program to another.
Move(w, u, p, q) ==
  /\ Turns(w) /\ u \in User
  /\ Prog(w) = p /\ (p # None => At(w, u))
  /\ Prog(w)' = q /\ q \in Programs \cup {None}
  /\ IF q = None THEN task'[w] = Idle ELSE At(w, u)'

LEMMA NoneIsNoProgram == None \notin Programs
BY ProgramTypes DEF None

LEMMA ProgTypes ==
  ASSUME Programmed, NEW w \in Worker
  PROVE  /\ Prog(w) \in Programs \cup {None}
         /\ Prog(w) = None <=> task[w] = Idle
         /\ task[w] # Idle => Prog(w) = task[w].todo
BY NoneIsNoProgram DEF Prog, Programmed

LEMMA StartsMove ==
  ASSUME TypeOK, NEW w \in Worker, task[w] = Idle, NEW u \in User, NEW todo \in Programs,
         NEW row \in Account, NEW key \in Nat, NEW from \in Nat,
         task' = [task EXCEPT ![w] = Asks(u, todo, row, key, from)]
  PROVE  Move(w, u, None, todo) /\ Then(w, u, todo, row, key, from)
<1>1. Turns(w) /\ Then(w, u, todo, row, key, from)
  BY Ask
<1> QED
  BY <1>1, NoneIsNoProgram DEF Move, Then, Prog, At

LEMMA EndMoves ==
  ASSUME TypeOK, Programmed, NEW w \in Worker, task[w] # Idle, Finish(w)
  PROVE  Move(w, task[w].user, task[w].todo, None) /\ task'[w] = Idle
BY End, TaskOf, NoneIsNoProgram DEF Move, Prog, At

LEMMA GoMoves ==
  ASSUME TypeOK, Programmed, NEW w \in Worker, task[w] # Idle, NEW todo \in Programs,
         NEW key \in Nat, NEW from \in Nat, GoOn(w, todo, key, from)
  PROVE  /\ Move(w, task[w].user, task[w].todo, todo)
         /\ Then(w, task[w].user, todo, Verified(task[w].row.pw), key, from)
<1>1. Turns(w) /\ Then(w, task[w].user, todo, Verified(task[w].row.pw), key, from)
  BY GoingOn
<1> QED
  BY <1>1, TaskOf, NoneIsNoProgram DEF Move, Then, Prog, At

LEMMA AskMoves ==
  ASSUME TypeOK, Programmed, NEW w \in Worker, task[w] # Idle, NEW todo \in Programs,
         NEW row \in Account, NEW key \in Nat, NEW from \in Nat,
         task' = [task EXCEPT ![w] = Asks(task[w].user, todo, row, key, from)]
  PROVE  /\ Move(w, task[w].user, task[w].todo, todo)
         /\ Then(w, task[w].user, todo, row, key, from)
<1>1. Turns(w) /\ Then(w, task[w].user, todo, row, key, from)
  BY Ask, TaskOf
<1> QED
  BY <1>1, TaskOf, NoneIsNoProgram DEF Move, Then, Prog, At

LEMMA LastIsNone ==
  \A p \in Programs : Len(p) = 1 => Tail(p) = None
<1>1. \A x \in Statement : Tail(<<x>>) = None
  BY DEF None
<1>2. \A p \in Programs : Len(p) = 1 => \E x \in Statement : p = <<x>>
  BY DEF Programs, Statement
<1> QED
  BY <1>1, <1>2

LEMMA AdvanceMoves ==
  ASSUME TypeOK, Programmed, NEW w \in Worker, task[w] # Idle, Advance(w)
  PROVE  /\ Move(w, task[w].user, task[w].todo, Left(w))
         /\ task'[w] # Idle => task'[w].from = task[w].from /\ task'[w].key = task[w].key
                               /\ task'[w].row = task[w].row
<1>1. AdvanceTurn(w)
  BY AdvanceTurns
<1>2. task[w].todo \in Programs
  BY DEF Programmed
<1> QED
  BY <1>1, <1>2, LastIsNone, TaskOf, NoneIsNoProgram
  DEF Move, Then, Prog, At, Left, AdvanceTurn, Advanced

\* How the properties speak of the programs.
LEMMA ProgramsSay ==
  ASSUME Programmed, NEW w \in Worker
  PROVE  /\ About2FA(task[w]) <=> Prog(w) \in On2FAPrograms
         /\ Holds(task[w], {"create", "consume"}) <=> Prog(w) \in Generating
         /\ (task[w] # Idle /\ \E k \in DOMAIN task[w].todo :
               task[w].todo[k] \in {"others", "tokens"})
              <=> Prog(w) \in Revoking
         /\ (Runs(w, "count") \/ Runs(w, "trim")) <=> Prog(w) \in {<<"count">>, <<"trim">>}
         /\ Runs(w, "trim") <=> Prog(w) = <<"trim">>
         /\ Runs(w, "decide") <=> Prog(w) = <<"decide">>
         /\ \A programs \in SUBSET Programs : Todo(w, programs) <=> Prog(w) \in programs
<1>1. CASE task[w] = Idle
  <2>1. None \notin On2FAPrograms /\ None \notin Generating /\ None \notin Revoking
        /\ None \notin {<<"count">>, <<"trim">>} /\ None # <<"decide">>
    BY DEF None, On2FAPrograms, Verifying, Renewing, Generating, Revoking
  <2> QED
    BY <1>1, <2>1, NoneIsNoProgram DEF Prog, About2FA, Holds, Runs, Todo
<1>2. CASE task[w] # Idle
  <2>1. Prog(w) = task[w].todo /\ task[w].todo \in Programs
    BY <1>2 DEF Prog, Programmed
  <2>2. Head(task[w].todo) = "count" <=> task[w].todo = <<"count">>
    BY <2>1, Heads DEF Starting
  <2>3. Head(task[w].todo) = "trim" <=> task[w].todo = <<"trim">>
    BY <2>1, Heads DEF Starting
  <2>4. Head(task[w].todo) = "decide" <=> task[w].todo = <<"decide">>
    BY <2>1, Heads DEF Starting
  <2> QED
    BY <1>2, <2>1, <2>2, <2>3, <2>4, Contents DEF About2FA, Holds, Runs, Todo, Mentions
<1> QED
  BY <1>1, <1>2

\* One move per action; what a handler decides is left to its definition.
PCreate == <<"create", "insert", "count">>

LEMMA RunsMove ==
  ASSUME Programmed, NEW w \in Worker, NEW name, Runs(w, name)
  PROVE  task[w] # Idle /\ Prog(w) = task[w].todo /\ Prog(w) \in Starting[name]
BY Running, ProgTypes

LEMMA RegisterMoves ==
  ASSUME TypeOK, NEW w \in Worker, NEW u \in User, Register(w, u)
  PROVE  Move(w, u, None, PCreate) /\ task'[w].from = 0
<1>1. PCreate \in Programs
  BY DEF PCreate, Programs
<1>2. task[w] = Idle /\ task' = [task EXCEPT ![w] = Asks(u, PCreate, NewAccount, 0, 0)]
  BY DEF Register, Begin, Handler, PCreate
<1>3. Move(w, u, None, PCreate) /\ Then(w, u, PCreate, NewAccount, 0, 0)
  BY <1>1, <1>2, RowTypes, StartsMove
<1> QED
  BY <1>3 DEF Then

LEMMA CreateMoves ==
  ASSUME TypeOK, Programmed, NEW w \in Worker, Create(w)
  PROVE  /\ task[w] # Idle
         /\ \/ /\ Move(w, task[w].user, PCreate, None)
               /\ account' = account /\ issued' = issued
            \/ /\ Move(w, task[w].user, PCreate, SignIn) /\ task'[w].from = 0
               /\ account[task[w].user].status = "none"
               /\ issued' = issued + 1
               /\ account' = [account EXCEPT ![task[w].user] =
                                [NewAccount EXCEPT !.status = "live", !.pw = 1]]
<1>1. task[w] # Idle /\ task[w].todo = PCreate
  BY RunsMove DEF Create, Starting, PCreate
<1>2. CASE account[task[w].user].status # "none"
  BY <1>1, <1>2, EndMoves DEF Create
<1>3. CASE account[task[w].user].status = "none"
  <2>1. Tail(task[w].todo) = SignIn /\ SignIn \in Programs
    BY <1>1, Tails DEF PCreate, SignIn, Programs
  <2>2. issued' = issued + 1 /\ issued' \in Nat
    BY <1>3 DEF Create, TypeOK
  <2>3. task' = [task EXCEPT ![w] = Asks(task[w].user, SignIn, Verified(1), issued', 0)]
    BY <1>3, <2>1 DEF Create
  <2>5. Move(w, task[w].user, task[w].todo, SignIn)
         /\ Then(w, task[w].user, SignIn, Verified(1), issued', 0)
    BY <1>1, <2>1, <2>2, <2>3, RowTypes, AskMoves
  <2>4. Move(w, task[w].user, task[w].todo, SignIn) /\ task'[w].from = 0
    BY <2>5 DEF Then
  <2> QED
    BY <1>1, <1>3, <2>2, <2>4 DEF Create
<1> QED
  BY <1>2, <1>3, <1>1

LEMMA LoginMoves ==
  ASSUME TypeOK, NEW w \in Worker, NEW u \in User, Login(w, u)
  PROVE  Move(w, u, None, <<"decide">>) /\ task'[w].from = 0
<1>1. <<"decide">> \in Programs
  BY DEF Programs
<1>2. account[u] \in Account
  BY DEF TypeOK
<1>3. task[w] = Idle /\ task' = [task EXCEPT ![w] = Asks(u, <<"decide">>, account[u], 0, 0)]
  BY DEF Login
<1>4. Move(w, u, None, <<"decide">>) /\ Then(w, u, <<"decide">>, account[u], 0, 0)
  BY <1>1, <1>2, <1>3, StartsMove
<1> QED
  BY <1>4 DEF Then

LEMMA LoginFailsMoves ==
  ASSUME TypeOK, Programmed, NEW w \in Worker, LoginFails(w)
  PROVE  task[w] # Idle /\ Move(w, task[w].user, <<"decide">>, None)
<1>1. task[w] # Idle /\ task[w].todo = <<"decide">>
  BY RunsMove DEF LoginFails, Starting
<1> QED
  BY <1>1, EndMoves DEF LoginFails

LEMMA IssueTokenMoves ==
  ASSUME TypeOK, Programmed, NEW w \in Worker, IssueToken(w)
  PROVE  task[w] # Idle /\ Move(w, task[w].user, <<"decide">>, SignIn) /\ task'[w].from = 0
<1>1. task[w] # Idle /\ task[w].todo = <<"decide">>
  BY RunsMove DEF IssueToken, PasswordRight, Starting
<1>2. SignIn \in Programs
  BY DEF SignIn, Programs
<1>3. issued' \in Nat
  BY DEF IssueToken, PasswordRight, TypeOK
<1> QED
  BY <1>1, <1>2, <1>3, GoMoves DEF IssueToken, Then

LEMMA IssueTicketMoves ==
  ASSUME TypeOK, Programmed, NEW w \in Worker, IssueTicket(w)
  PROVE  task[w] # Idle /\ Move(w, task[w].user, <<"decide">>, None)
<1>1. task[w] # Idle /\ task[w].todo = <<"decide">>
  BY RunsMove DEF IssueTicket, PasswordRight, Starting
<1> QED
  BY <1>1, EndMoves DEF IssueTicket

LEMMA RedeemMoves ==
  ASSUME TypeOK, NEW w \in Worker, NEW t \in tickets, RedeemTicket(w, t)
  PROVE  task' = task \/ (Move(w, t.user, None, <<"code">>) /\ task'[w].from = t.id)
<1>1. t.user \in User /\ t.pw \in Nat /\ t.id \in Nat
  BY DEF TypeOK, Ticket
<1>2. <<"code">> \in Programs
  BY DEF Programs
<1>3. CASE task' = [task EXCEPT ![w] = Asks(t.user, <<"code">>, Verified(t.pw), 0, t.id)]
  <2>1. Verified(t.pw) \in Account /\ task[w] = Idle
    BY <1>1, RowTypes DEF RedeemTicket
  <2>2. Move(w, t.user, None, <<"code">>) /\ Then(w, t.user, <<"code">>, Verified(t.pw), 0, t.id)
    BY <1>1, <1>2, <1>3, <2>1, StartsMove
  <2> QED
    BY <2>2 DEF Then
<1> QED
  BY <1>3 DEF RedeemTicket

LEMMA CodeWrongMoves ==
  ASSUME TypeOK, Programmed, NEW w \in Worker, CodeWrong(w)
  PROVE  task[w] # Idle /\ Move(w, task[w].user, <<"code">>, None)
<1>1. task[w] # Idle /\ task[w].todo = <<"code">>
  BY RunsMove DEF CodeWrong, Starting
<1> QED
  BY <1>1, EndMoves DEF CodeWrong

LEMMA TotpRightMoves ==
  ASSUME TypeOK, Programmed, NEW w \in Worker, TotpRight(w)
  PROVE  task[w] # Idle /\ Move(w, task[w].user, <<"code">>, SignIn)
         /\ task'[w].from = task[w].from
<1>1. task[w] # Idle /\ task[w].todo = <<"code">>
  BY RunsMove DEF TotpRight, Starting
<1>2. SignIn \in Programs
  BY DEF SignIn, Programs
<1>3. issued' \in Nat
  BY DEF TotpRight, TypeOK
<1> QED
  BY <1>1, <1>2, <1>3, GoMoves, TaskOf DEF TotpRight, Then

LEMMA BackupCodeMoves ==
  ASSUME TypeOK, Programmed, NEW w \in Worker, BackupCodeFound(w)
  PROVE  task[w] # Idle /\ Move(w, task[w].user, <<"code">>, <<"consume">>)
         /\ task'[w].from = task[w].from
<1>1. task[w] # Idle /\ task[w].todo = <<"code">>
  BY RunsMove DEF BackupCodeFound, Starting
<1>2. <<"consume">> \in Programs
  BY DEF Programs
<1> QED
  BY <1>1, <1>2, GoMoves, TaskOf DEF BackupCodeFound, Then

LEMMA ConsumeMoves ==
  ASSUME TypeOK, Programmed, NEW w \in Worker, ConsumeCode(w)
  PROVE  task[w] # Idle /\ Move(w, task[w].user, <<"consume">>, SignIn)
         /\ task'[w].from = task[w].from
<1>1. task[w] # Idle /\ task[w].todo = <<"consume">>
  BY RunsMove DEF ConsumeCode, Starting
<1>2. SignIn \in Programs
  BY DEF SignIn, Programs
<1>3. issued' \in Nat
  BY DEF ConsumeCode, TypeOK
<1> QED
  BY <1>1, <1>2, <1>3, GoMoves, TaskOf DEF ConsumeCode, Then

LEMMA InsertMoves ==
  ASSUME TypeOK, Programmed, NEW w \in Worker, InsertToken(w)
  PROVE  /\ task[w] # Idle
         /\ \/ /\ Move(w, task[w].user, SignIn, None)
               /\ ~Live(task[w].user) /\ sessions' = sessions
            \/ /\ Move(w, task[w].user, SignIn, <<"count">>) /\ task'[w].from = 0
               /\ Live(task[w].user)
               /\ sessions' = [sessions EXCEPT ![task[w].user] = Append(@,
                    [id |-> task[w].key, pw |-> task[w].row.pw, from |-> task[w].from,
                     kept |-> task[w].row.pw # account[task[w].user].pw])]
<1>1. task[w] # Idle /\ task[w].todo = SignIn
  BY RunsMove DEF InsertToken, Starting
<1>2. <<"count">> \in Programs
  BY DEF Programs
<1>3. CASE ~Live(task[w].user)
  BY <1>1, <1>3, EndMoves DEF InsertToken
<1>4. CASE Live(task[w].user)
  <2>1. task' = [task EXCEPT ![w] = Asks(task[w].user, <<"count">>, NewAccount, 0, 0)]
    BY <1>4 DEF InsertToken, Handler
  <2>2. Move(w, task[w].user, SignIn, <<"count">>) /\ task'[w].from = 0
    <3>1. Move(w, task[w].user, task[w].todo, <<"count">>)
          /\ Then(w, task[w].user, <<"count">>, NewAccount, 0, 0)
      BY <1>1, <1>2, <2>1, RowTypes, AskMoves
    <3> QED
      BY <1>1, <3>1 DEF Then
  <2> QED
    BY <1>1, <1>4, <2>2 DEF InsertToken
<1> QED
  BY <1>3, <1>4, <1>1

LEMMA CountMoves ==
  ASSUME TypeOK, Programmed, NEW w \in Worker, CountSessions(w)
  PROVE  /\ task[w] # Idle
         /\ \/ /\ Move(w, task[w].user, <<"count">>, None)
               /\ Len(sessions[task[w].user]) <= MaxSessions
            \/ /\ Move(w, task[w].user, <<"count">>, <<"trim">>) /\ task'[w].from = 0
               /\ task'[w].key >= 1
<1>1. task[w] # Idle /\ task[w].todo = <<"count">>
  BY RunsMove DEF CountSessions, Starting
<1>2. <<"trim">> \in Programs
  BY DEF Programs
<1>3. Len(sessions[task[w].user]) \in Nat /\ MaxSessions \in Nat
  BY <1>1, TaskOf, SessionOf, BoundsAssumption
<1>4. CASE Excess(task[w].user) > 0
  <2>1. Excess(task[w].user) \in Nat
    BY <1>3, <1>4 DEF Excess
  <2> QED
    BY <1>1, <1>2, <1>4, <2>1, GoMoves DEF CountSessions, Then
<1>5. CASE ~(Excess(task[w].user) > 0)
  <2>1. Len(sessions[task[w].user]) <= MaxSessions
    BY <1>3, <1>5 DEF Excess
  <2> QED
    BY <1>1, <1>5, <2>1, EndMoves DEF CountSessions
<1> QED
  BY <1>4, <1>5

LEMMA TrimMoves ==
  ASSUME TypeOK, Programmed, NEW w \in Worker, TrimSessions(w)
  PROVE  task[w] # Idle /\ Move(w, task[w].user, <<"trim">>, None)
<1>1. task[w] # Idle /\ task[w].todo = <<"trim">>
  BY RunsMove DEF TrimSessions, Starting
<1> QED
  BY <1>1, EndMoves DEF TrimSessions

\* The origin of a request that goes on is kept.
SameFrom(w) == task'[w] # Idle => task[w] # Idle /\ task'[w].from = task[w].from

LEMMA StatementMoves ==
  ASSUME TypeOK, Programmed, NEW w \in Worker, NEW name, Runs(w, name), Advance(w)
  PROVE  /\ task[w] # Idle /\ Prog(w) \in Starting[name]
         /\ Move(w, task[w].user, Prog(w), Tail(Prog(w))) /\ SameFrom(w)
BY RunsMove, AdvanceMoves DEF Left, SameFrom

LEMMA DeleteMoves ==
  ASSUME TypeOK, Programmed, NEW w \in Worker, DeleteAccount(w)
  PROVE  task[w] # Idle /\ Move(w, task[w].user, <<"delete">>, None)
<1>1. task[w] # Idle /\ task[w].todo = <<"delete">>
  BY RunsMove DEF DeleteAccount, Starting
<1> QED
  BY <1>1, EndMoves DEF DeleteAccount

LEMMA HandleMoves ==
  ASSUME TypeOK, NEW w \in Worker, NEW u \in User, NEW todo \in HandlerPrograms,
         NEW key \in Nat, Handles(w, u, todo, key)
  PROVE  Move(w, u, None, todo) /\ task'[w].from = 0
<1>1. todo \in Programs
  BY DEF HandlerPrograms, Programs
<1>2. task[w] = Idle /\ task' = [task EXCEPT ![w] = Asks(u, todo, NewAccount, key, 0)]
  BY DEF Handles, Begin, Handler
<1>3. Move(w, u, None, todo) /\ Then(w, u, todo, NewAccount, key, 0)
  BY <1>1, <1>2, RowTypes, StartsMove
<1> QED
  BY <1>3 DEF Then

-----------------------------------------------------------------------------
(* Steps, by what they do.                                                  *)
Thins(u) ==
  /\ Thinner(u) /\ u \in User
  /\ UNCHANGED <<account, codes, tickets, failures, attempts, task, issued, mixed>>

LEMMA NextKinds ==
  ASSUME TypeOK, Next
  PROVE  \/ \E w \in Worker : Execute(w)
         \/ \E w \in Worker, u \in User :
              \/ Register(w, u) \/ Login(w, u)
              \/ \E todo \in HandlerPrograms, key \in Nat : Handles(w, u, todo, key)
         \/ \E w \in Worker, t \in tickets : RedeemTicket(w, t)
         \/ \E u \in User : EnableUser(u) \/ WindowEnds(u) \/ Thins(u)
         \/ \E t \in tickets : TicketExpires(t)
<1>1. ASSUME NEW w \in Worker, NEW u \in User,
             AnyAccount(w, u) \/ \E s \in SessionIds(u) : OwnAccount(w, u, s)
      PROVE  \/ Register(w, u) \/ Login(w, u)
             \/ \E todo \in HandlerPrograms, key \in Nat : Handles(w, u, todo, key)
  BY <1>1, RequestsHandle DEF AnyAccount
<1>2. ASSUME NEW u \in User, NEW s \in SessionIds(u),
             Logout(u, s) \/ RevokeAllSessions(u, s) \/ SessionExpires(u, s)
      PROVE  Thins(u)
  BY <1>2, DeleteIsThinner, EmptyIsThinner
  DEF Thins, Logout, RevokeAllSessions, SessionExpires, Untracked
<1> QED
  BY <1>1, <1>2 DEF Next

\* A program of a request's own handler.
Moved(w) == \E u, p, q : Move(w, u, p, q)

LEMMA ExecuteMoves ==
  ASSUME TypeOK, Programmed, NEW w \in Worker, Execute(w)
  PROVE  Moved(w)
<1> USE DEF Moved
<1>1. CASE Create(w)
  BY <1>1, CreateMoves
<1>2. CASE LoginFails(w)
  BY <1>2, LoginFailsMoves
<1>3. CASE IssueToken(w)
  BY <1>3, IssueTokenMoves
<1>4. CASE IssueTicket(w)
  BY <1>4, IssueTicketMoves
<1>5. CASE CodeWrong(w)
  BY <1>5, CodeWrongMoves
<1>6. CASE TotpRight(w)
  BY <1>6, TotpRightMoves
<1>7. CASE ConsumeCode(w)
  BY <1>7, ConsumeMoves
<1>8. CASE InsertToken(w)
  BY <1>8, InsertMoves
<1>9. CASE CountSessions(w)
  BY <1>9, CountMoves
<1>10. CASE TrimSessions(w)
  BY <1>10, TrimMoves
<1>11. CASE UpdateRow(w)
  BY <1>11, StatementMoves DEF UpdateRow, UpdateUser
<1>12. CASE DeleteTokens(w)
  BY <1>12, StatementMoves DEF DeleteTokens
<1>13. CASE DeleteCodes(w)
  BY <1>13, StatementMoves DEF DeleteCodes
<1>14. CASE InsertCodes(w)
  BY <1>14, StatementMoves DEF InsertCodes
<1>15. CASE DeleteAccount(w)
  BY <1>15, DeleteMoves
<1>16. CASE BackupCodeFound(w)
  BY <1>16, BackupCodeMoves
<1>17. CASE \E right \in BOOLEAN : Confirm(w, right)
  <2>1. task[w] # Idle /\ (Finish(w) \/ Advance(w)) /\ Runs(w, "confirm")
    BY <1>17 DEF Confirm, Runs
  <2> QED
    BY <2>1, StatementMoves, EndMoves
<1> QED
  BY <1>1, <1>2, <1>3, <1>4, <1>5, <1>6, <1>7, <1>8, <1>9, <1>10, <1>11, <1>12, <1>13,
     <1>14, <1>15, <1>16, <1>17 DEF Execute

LEMMA NextMoves ==
  ASSUME TypeOK, Programmed, Next
  PROVE  task' = task \/ \E w \in Worker : Moved(w)
<1>1. CASE \E w \in Worker : Execute(w)
  BY <1>1, ExecuteMoves
<1>2. CASE \E w \in Worker, u \in User :
              \/ Register(w, u) \/ Login(w, u)
              \/ \E todo \in HandlerPrograms, key \in Nat : Handles(w, u, todo, key)
  BY <1>2, RegisterMoves, LoginMoves, HandleMoves DEF Moved
<1>3. CASE \E w \in Worker, t \in tickets : RedeemTicket(w, t)
  BY <1>3, RedeemMoves DEF Moved
<1>4. CASE \E u \in User : EnableUser(u) \/ WindowEnds(u) \/ Thins(u)
  BY <1>4 DEF EnableUser, WindowEnds, Thins
<1>5. CASE \E t \in tickets : TicketExpires(t)
  BY <1>5 DEF TicketExpires
<1> QED
  BY <1>1, <1>2, <1>3, <1>4, <1>5, NextKinds

LEMMA MovedIsProgrammed ==
  ASSUME TypeOK, Programmed, NEW w \in Worker, Moved(w)
  PROVE  TaskTypes' /\ Programmed'
<1>1. PICK u, p, q : Move(w, u, p, q)
  BY DEF Moved
<1>2. ASSUME NEW v \in Worker, task'[v] # Idle
      PROVE  task'[v].todo \in Programs
  BY <1>1, <1>2 DEF Move, Turns, Programmed, Prog, At
<1> QED
  BY <1>1, <1>2 DEF Move, Turns, Programmed

LEMMA ProgrammedStep ==
  ASSUME TypeOK, Programmed, Next
  PROVE  TaskTypes' /\ Programmed'
<1>1. CASE task' = task
  BY <1>1 DEF Programmed, TaskTypes, TypeOK
<1> QED
  BY <1>1, NextMoves, MovedIsProgrammed

\* The requests of some users that run some programs.
Group(programs, users) ==
  {w \in Worker : task[w] # Idle /\ Prog(w) \in programs /\ task[w].user \in users}

LEMMA GroupTurns ==
  ASSUME NEW w \in Worker, NEW u, NEW p, NEW q, Move(w, u, p, q),
         NEW programs, None \notin programs, NEW users
  PROVE  LET g == Group(programs, users)
             h == Group(programs, users)'
         IN
         /\ IsFiniteSet(g) /\ Cardinality(g) \in Nat /\ Cardinality(h) \in Nat
         /\ Cardinality(Worker) \in Nat /\ Cardinality(h) <= Cardinality(Worker)
         /\ (u \notin users \/ (p \in programs <=> q \in programs)) => h = g
         /\ (u \in users /\ p \notin programs /\ q \in programs) =>
              Cardinality(h) = Cardinality(g) + 1
         /\ (u \in users /\ p \in programs /\ q \notin programs) =>
              Cardinality(h) = Cardinality(g) - 1
<1> DEFINE g == Group(programs, users)
           h == Group(programs, users)'
<1>1. g \in SUBSET Worker /\ h \in SUBSET Worker
  BY DEF Group
<1>2. IsFiniteSet(Worker)
  BY BoundsAssumption
<1>3. /\ IsFiniteSet(g) /\ Cardinality(g) \in Nat /\ Cardinality(h) \in Nat
      /\ Cardinality(Worker) \in Nat /\ Cardinality(h) <= Cardinality(Worker)
  <2>1. IsFiniteSet(g) /\ IsFiniteSet(h) /\ Cardinality(h) <= Cardinality(Worker)
    BY <1>1, <1>2, FS_Subset
  <2> QED
    BY <1>2, <2>1, FS_CardinalityType
<1>4. \A v \in Worker : v # w => (v \in h <=> v \in g)
  BY DEF Group, Move, Turns, Prog
<1>5. w \in g <=> (u \in users /\ p \in programs)
  BY DEF Group, Move, Prog, At
<1>6. w \in h <=> (u \in users /\ q \in programs)
  BY DEF Group, Move, Prog, At
<1> HIDE DEF g, h
<1>7. ASSUME u \notin users \/ (p \in programs <=> q \in programs)
      PROVE  h = g
  BY <1>1, <1>4, <1>5, <1>6, <1>7
<1>8. ASSUME u \in users, p \notin programs, q \in programs
      PROVE  Cardinality(h) = Cardinality(g) + 1
  <2>1. h = g \cup {w} /\ w \notin g
    BY <1>1, <1>4, <1>5, <1>6, <1>8
  <2> QED
    BY <1>3, <2>1, FS_AddElement
<1>9. ASSUME u \in users, p \in programs, q \notin programs
      PROVE  Cardinality(h) = Cardinality(g) - 1
  <2>1. h = g \ {w} /\ w \in g
    BY <1>1, <1>4, <1>5, <1>6, <1>9
  <2> QED
    BY <1>3, <2>1, FS_RemoveElement
<1> QED
  BY <1>3, <1>7, <1>8, <1>9 DEF g, h

-----------------------------------------------------------------------------
(* The steps that sign nobody in.                                           *)
SignInPrograms ==
  {PCreate, SignIn, <<"count">>, <<"trim">>, <<"decide">>, <<"code">>, <<"consume">>}

LEMMA OtherPrograms ==
  /\ \A p \in Programs : p \notin SignInPrograms => Tail(p) \notin SignInPrograms
  /\ \A p \in HandlerPrograms : p \notin SignInPrograms
  /\ None \notin SignInPrograms
<1>1. \A p \in Programs : Len(p) = 1 \/ Tail(p) \in Programs
  BY Closed
<1>2. None \notin SignInPrograms
  BY DEF None, SignInPrograms, PCreate, SignIn
<1>3. \A p \in Programs : (p \notin SignInPrograms /\ Len(p) # 1) => Tail(p) \notin SignInPrograms
  <2> DEFINE long == {<<"password", "others">>, <<"password", "tokens", "clear2fa", "codes">>,
                      <<"tokens", "clear2fa", "codes">>, <<"clear2fa", "codes">>,
                      <<"confirm", "enable", "codes", "newcodes">>,
                      <<"enable", "codes", "newcodes">>, <<"codes", "newcodes">>,
                      <<"disable", "tokens">>}
             rest == {<<"others">>, <<"tokens", "clear2fa", "codes">>,
                      <<"clear2fa", "codes">>, <<"codes">>, <<"enable", "codes", "newcodes">>,
                      <<"codes", "newcodes">>, <<"newcodes">>, <<"tokens">>}
  <2>1. \A p \in Programs : (p \notin SignInPrograms /\ Len(p) # 1) => p \in long
    BY Singles DEF Programs, SignInPrograms, PCreate, SignIn
  <2>2. \A p \in long : Tail(p) \in rest
    BY Tails
  <2>3. \A p \in rest : p \notin SignInPrograms
    BY DEF SignInPrograms, PCreate, SignIn
  <2> HIDE DEF long, rest
  <2> QED
    BY <2>1, <2>2, <2>3
<1>4. \A p \in HandlerPrograms : p \notin SignInPrograms
  BY DEF HandlerPrograms, SignInPrograms, PCreate, SignIn
<1> QED
  BY <1>2, <1>3, <1>4, LastIsNone

LEMMA OtherStatements ==
  \A name \in {"password", "others", "tokens", "clear2fa", "codes", "newcodes", "secret",
               "confirm", "enable", "disable", "delete"} :
    \A p \in Starting[name] : p \in Programs /\ p \notin SignInPrograms
<1> DEFINE N == {"password", "others", "tokens", "clear2fa", "codes", "newcodes", "secret",
                 "confirm", "enable", "disable", "delete"}
<1>1. \A name \in N : \A p \in Starting[name] : p \in Programs
  BY DEF Starting, Programs
<1>2. \A name \in N : \A p \in Starting[name] : p \notin SignInPrograms
  BY DEF Starting, SignInPrograms, PCreate, SignIn
<1> QED
  BY <1>1, <1>2

Elsewhere(w) ==
  /\ \E u, p, q : Move(w, u, p, q) /\ p \notin SignInPrograms /\ q \notin SignInPrograms
  /\ task'[w] # Idle => task'[w].from = 0 \/ (task[w] # Idle /\ task'[w].from = task[w].from)

LEMMA StatementElsewhere ==
  ASSUME TypeOK, Programmed, NEW w \in Worker,
         NEW name \in {"password", "others", "tokens", "clear2fa", "codes", "newcodes",
                       "secret", "confirm", "enable", "disable", "delete"},
         Runs(w, name), Advance(w) \/ Finish(w)
  PROVE  Elsewhere(w) /\ task[w] # Idle /\ task[w].user \in User /\ Prog(w) \in Starting[name]
<1>1. task[w] # Idle /\ Prog(w) \in Starting[name] /\ Prog(w) = task[w].todo
      /\ task[w].user \in User
  BY RunsMove, TaskOf
<1>2. Prog(w) \in Programs /\ Prog(w) \notin SignInPrograms
      /\ Tail(Prog(w)) \notin SignInPrograms /\ None \notin SignInPrograms
  BY <1>1, OtherPrograms, OtherStatements
<1>3. CASE Advance(w)
  BY <1>1, <1>2, <1>3, StatementMoves DEF Elsewhere, SameFrom
<1>4. CASE Finish(w)
  BY <1>1, <1>2, <1>4, EndMoves DEF Elsewhere
<1> QED
  BY <1>1, <1>3, <1>4

\* A step aside of all sign-ins, as they see it.
Aside ==
  /\ task' = task \/ \E w \in Worker : Elsewhere(w)
  /\ issued' = issued /\ tickets' \subseteq tickets
  /\ sessions' = sessions \/ \E u \in User : Thinner(u)
  /\ failures' = failures \/ \E u \in User : failures' = Without(failures, u)

LEMMA OneIsThinner ==
  ASSUME TypeOK, NEW u \in User, NEW i \in DOMAIN sessions[u],
         sessions' = [sessions EXCEPT ![u] = <<[sessions[u][i] EXCEPT !.kept = TRUE]>>]
  PROVE  Thinner(u) /\ Len(sessions'[u]) = 1 /\ DOMAIN sessions'[u] = 1..1
         /\ sessions'[u][1].kept
<1> DEFINE r == [sessions[u][i] EXCEPT !.kept = TRUE]
<1>1. sessions[u][i] \in Session /\ i \in 1..Len(sessions[u]) /\ Len(sessions[u]) \in Nat
      /\ DOMAIN sessions[u] = 1..Len(sessions[u])
  BY SessionOf
<1>2. r \in Session /\ r.pw = sessions[u][i].pw /\ r.from = sessions[u][i].from /\ r.kept
  BY <1>1 DEF Session
<1> HIDE DEF r
<1>3. <<r>> \in Seq(Session) /\ Len(<<r>>) = 1 /\ <<r>>[1] = r /\ DOMAIN <<r>> = 1..1
  BY <1>2
<1>4. sessions' = [sessions EXCEPT ![u] = <<r>>]
  BY DEF r
<1>5. sessions' \in [User -> Seq(Session)] /\ sessions'[u] = <<r>>
      /\ \A v \in User : v # u => sessions'[v] = sessions[v]
  BY <1>3, <1>4 DEF TypeOK
<1> DEFINE f == [j \in DOMAIN sessions'[u] |-> i]
<1>6. f \in [DOMAIN sessions'[u] -> DOMAIN sessions[u]]
      /\ \A j \in DOMAIN sessions'[u] : f[j] = i /\ j = 1
  BY <1>3, <1>5
<1> HIDE DEF f
<1>7. Len(sessions'[u]) <= Len(sessions[u])
  BY <1>1, <1>3, <1>5
<1> QED
  BY <1>2, <1>3, <1>5, <1>6, <1>7 DEF Thinner

LEMMA TokensThin ==
  ASSUME TypeOK, Programmed, NEW w \in Worker, DeleteTokens(w)
  PROVE  /\ task[w] # Idle /\ task[w].user \in User /\ Thinner(task[w].user)
         /\ \/ sessions'[task[w].user] = <<>>
            \/ \A i \in DOMAIN sessions'[task[w].user] : sessions'[task[w].user][i].kept
<1>1. task[w] # Idle /\ task[w].user \in User
  BY TaskOf DEF DeleteTokens, Runs
<1>2. CASE sessions' = [sessions EXCEPT ![task[w].user] = <<>>]
  BY <1>1, <1>2, EmptyIsThinner
<1>3. CASE \E i \in DOMAIN sessions[task[w].user] :
             sessions' = [sessions EXCEPT ![task[w].user] =
                            <<[sessions[task[w].user][i] EXCEPT !.kept = TRUE]>>]
  <2>1. PICK i \in DOMAIN sessions[task[w].user] :
          sessions' = [sessions EXCEPT ![task[w].user] =
                         <<[sessions[task[w].user][i] EXCEPT !.kept = TRUE]>>]
    BY <1>3
  <2>2. Thinner(task[w].user) /\ DOMAIN sessions'[task[w].user] = 1..1
        /\ sessions'[task[w].user][1].kept
    BY <1>1, <2>1, OneIsThinner
  <2> QED
    BY <1>1, <2>2
<1> QED
  BY <1>1, <1>2, <1>3 DEF DeleteTokens

LEMMA OthersAside ==
  ASSUME TypeOK, Programmed, NEW w \in Worker,
         \/ UpdateRow(w) \/ DeleteTokens(w) \/ DeleteCodes(w) \/ InsertCodes(w)
         \/ DeleteAccount(w) \/ \E right \in BOOLEAN : Confirm(w, right)
  PROVE  Aside
<1>1. CASE UpdateRow(w)
  BY <1>1, StatementElsewhere DEF UpdateRow, UpdateUser, Aside, Untracked
<1>2. CASE DeleteTokens(w)
  <2>1. Elsewhere(w)
    BY <1>2, StatementElsewhere DEF DeleteTokens
  <2>2. Thinner(task[w].user) /\ task[w].user \in User
    BY <1>2, TokensThin
  <2> QED
    BY <1>2, <2>1, <2>2 DEF DeleteTokens, Aside, Untracked
<1>3. CASE DeleteCodes(w)
  BY <1>3, StatementElsewhere DEF DeleteCodes, Aside, Untracked
<1>4. CASE InsertCodes(w)
  BY <1>4, StatementElsewhere DEF InsertCodes, Aside, Untracked
<1>5. CASE DeleteAccount(w)
  <2>1. Elsewhere(w) /\ task[w].user \in User
    BY <1>5, StatementElsewhere DEF DeleteAccount
  <2>2. Thinner(task[w].user)
    BY <1>5, <2>1, EmptyIsThinner DEF DeleteAccount
  <2> QED
    BY <1>5, <2>1, <2>2 DEF DeleteAccount, Aside, Untracked
<1>6. CASE \E right \in BOOLEAN : Confirm(w, right)
  <2>1. Elsewhere(w)
    BY <1>6, StatementElsewhere DEF Confirm
  <2> QED
    BY <1>6, <2>1 DEF Confirm, Aside
<1> QED
  BY <1>1, <1>2, <1>3, <1>4, <1>5, <1>6

LEMMA HandlesAside ==
  ASSUME TypeOK, NEW w \in Worker, NEW u \in User, NEW todo \in HandlerPrograms,
         NEW key \in Nat, Handles(w, u, todo, key)
  PROVE  Aside
<1>1. Elsewhere(w)
  BY HandleMoves, OtherPrograms DEF Elsewhere
<1> QED
  BY <1>1 DEF Handles, Begin, Aside

\* A step of a sign-in, of the user u.
SignsIn(w, u) ==
  \/ Register(w, u) \/ Create(w) \/ Login(w, u) \/ LoginFails(w) \/ IssueToken(w)
  \/ IssueTicket(w) \/ CodeWrong(w) \/ TotpRight(w) \/ BackupCodeFound(w)
  \/ ConsumeCode(w) \/ InsertToken(w) \/ CountSessions(w) \/ TrimSessions(w)
  \/ \E t \in tickets : t.user = u /\ RedeemTicket(w, t)

LEMMA SignInOrAside ==
  ASSUME TypeOK, Programmed, Next
  PROVE  Aside \/ \E w \in Worker, u \in User : SignsIn(w, u)
<1>1. ASSUME NEW w \in Worker, Execute(w)
      PROVE  Aside \/ \E u \in User : SignsIn(w, u)
  <2>1. PICK u \in User : TRUE
    BY <1>1, TaskOf DEF Execute, Create, LoginFails, IssueToken, IssueTicket, PasswordRight,
       CodeWrong, TotpRight, ConsumeCode, InsertToken, CountSessions, TrimSessions, UpdateRow,
       DeleteTokens, DeleteCodes, InsertCodes, DeleteAccount, BackupCodeFound, Confirm, Runs
  <2> QED
    BY <1>1, <2>1, OthersAside DEF Execute, SignsIn
<1>2. ASSUME NEW w \in Worker, NEW t \in tickets, RedeemTicket(w, t)
      PROVE  \E u \in User : SignsIn(w, u)
  BY <1>2 DEF TypeOK, Ticket, SignsIn
<1>3. ASSUME NEW u \in User, EnableUser(u) \/ WindowEnds(u) \/ Thins(u)
      PROVE  Aside
  BY <1>3 DEF EnableUser, WindowEnds, Thins, Aside, Untracked
<1>4. ASSUME NEW t \in tickets, TicketExpires(t)
      PROVE  Aside
  BY <1>4 DEF TicketExpires, Aside, Untracked
<1>5. ASSUME NEW w \in Worker, NEW u \in User,
             \/ Register(w, u) \/ Login(w, u)
             \/ \E todo \in HandlerPrograms, key \in Nat : Handles(w, u, todo, key)
      PROVE  Aside \/ \E v \in User : SignsIn(w, v)
  BY <1>5, HandlesAside DEF SignsIn
<1> QED
  BY <1>1, <1>2, <1>3, <1>4, <1>5, NextKinds

-----------------------------------------------------------------------------
(* Counts: the ids to come, the sessions to trim, the failures to come.     *)
Limiting == {<<"count">>, <<"trim">>}
Deciding == {<<"decide">>}

LEMMA SignInClasses ==
  /\ None \notin Generating /\ None \notin Limiting /\ None \notin Deciding
  /\ PCreate \in Generating /\ PCreate \notin Limiting /\ PCreate \notin Deciding
  /\ SignIn \notin Generating /\ SignIn \notin Limiting /\ SignIn \notin Deciding
  /\ <<"count">> \notin Generating /\ <<"count">> \in Limiting /\ <<"count">> \notin Deciding
  /\ <<"trim">> \notin Generating /\ <<"trim">> \in Limiting /\ <<"trim">> \notin Deciding
  /\ <<"decide">> \notin Generating /\ <<"decide">> \notin Limiting /\ <<"decide">> \in Deciding
  /\ <<"code">> \notin Generating /\ <<"code">> \notin Limiting /\ <<"code">> \notin Deciding
  /\ <<"consume">> \in Generating /\ <<"consume">> \notin Limiting
  /\ <<"consume">> \notin Deciding
  /\ \A p : p \notin SignInPrograms =>
       p \notin Generating /\ p \notin Limiting /\ p \notin Deciding
<1>1. None \notin Generating /\ None \notin Limiting /\ None \notin Deciding
  BY DEF None, Generating, Limiting, Deciding
<1>2. PCreate \in Generating /\ PCreate \notin Limiting /\ PCreate \notin Deciding
  BY DEF PCreate, Generating, Limiting, Deciding
<1>3. SignIn \notin Generating /\ SignIn \notin Limiting /\ SignIn \notin Deciding
  BY DEF SignIn, Generating, Limiting, Deciding
<1>4. /\ <<"count">> \notin Generating /\ <<"count">> \in Limiting /\ <<"count">> \notin Deciding
      /\ <<"trim">> \notin Generating /\ <<"trim">> \in Limiting /\ <<"trim">> \notin Deciding
  BY DEF Generating, Limiting, Deciding
<1>5. /\ <<"decide">> \notin Generating /\ <<"decide">> \notin Limiting /\ <<"decide">> \in Deciding
      /\ <<"code">> \notin Generating /\ <<"code">> \notin Limiting /\ <<"code">> \notin Deciding
  BY DEF Generating, Limiting, Deciding
<1>6. <<"consume">> \in Generating /\ <<"consume">> \notin Limiting /\ <<"consume">> \notin Deciding
  BY DEF Generating, Limiting, Deciding
<1>7. \A p : p \notin SignInPrograms =>
       p \notin Generating /\ p \notin Limiting /\ p \notin Deciding
  BY DEF SignInPrograms, Generating, Limiting, Deciding, PCreate
<1> QED
  BY <1>1, <1>2, <1>3, <1>4, <1>5, <1>6, <1>7

LEMMA RoomIs ==
  (TaskTypes /\ Programmed) => Generators = Group(Generating, User)
<1> SUFFICES ASSUME TaskTypes, Programmed
             PROVE  Generators = Group(Generating, User)
  OBVIOUS
<1>1. \A w \in Worker : task[w] # Idle => task[w].user \in User
  BY DEF TaskTypes, Request
<1>2. \A w \in Worker : Holds(task[w], {"create", "consume"}) <=> Prog(w) \in Generating
  BY ProgramsSay
<1>3. \A w \in Worker : Holds(task[w], {"create", "consume"}) => task[w] # Idle
  BY DEF Holds
<1> QED
  BY <1>1, <1>2, <1>3 DEF Generators, Group

LEMMA AsideGroups ==
  ASSUME Aside, NEW programs, programs \subseteq SignInPrograms, NEW users
  PROVE  Group(programs, users)' = Group(programs, users)
<1>1. CASE task' = task
  BY <1>1 DEF Group, Prog
<1>2. CASE \E w \in Worker : Elsewhere(w)
  <2>1. PICK w \in Worker : Elsewhere(w)
    BY <1>2
  <2>2. PICK u, p, q : Move(w, u, p, q) /\ p \notin SignInPrograms /\ q \notin SignInPrograms
    BY <2>1 DEF Elsewhere
  <2>3. None \notin programs
    BY OtherPrograms
  <2> QED
    BY <2>1, <2>2, <2>3, GroupTurns
<1> QED
  BY <1>1, <1>2 DEF Aside

\* The ids generated, and those still to generate.
LEMMA RoomStep ==
  ASSUME TypeOK, Programmed, RoomKept, Next
  PROVE  RoomKept' /\ issued' \in 0..MaxIssued
<1> DEFINE m == Cardinality(Group(Generating, User))
           n == Cardinality(Group(Generating, User)')
<1>1. Generators = Group(Generating, User)
  BY RoomIs DEF TypeOK, TaskTypes
<1>2. (TaskTypes /\ Programmed => Generators = Group(Generating, User))'
  BY RoomIs, PTL
<1>3. Generators' = Group(Generating, User)'
  BY <1>2, ProgrammedStep
<1>4. issued + m <= MaxIssued /\ issued \in Nat /\ MaxIssued \in Nat
  BY <1>1, BoundsAssumption DEF RoomKept, TypeOK
<1>5. Room => issued + m < MaxIssued
  BY <1>1 DEF Room
<1> SUFFICES issued' + n <= MaxIssued /\ issued' \in Nat /\ n \in Nat
  BY <1>3, BoundsAssumption DEF RoomKept
<1>6. IsFiniteSet(Group(Generating, User)) /\ m \in Nat
  <2>1. Group(Generating, User) \in SUBSET Worker
    BY DEF Group
  <2> QED
    BY <2>1, BoundsAssumption, FS_Subset, FS_CardinalityType
<1>7. CASE Aside
  <2>1. n = m
    BY <1>7, AsideGroups DEF Generating, SignInPrograms, PCreate
  <2> QED
    BY <1>4, <1>6, <1>7, <2>1 DEF Aside
<1>8. ASSUME NEW w \in Worker, NEW u \in User, SignsIn(w, u)
      PROVE  issued' + n <= MaxIssued /\ issued' \in Nat /\ n \in Nat
  <2> DEFINE Goes(p, q) == \E v \in User : Move(w, v, p, q)
  <2>1. ASSUME NEW p, NEW q, Goes(p, q)
        PROVE  /\ n \in Nat
               /\ p \in Generating <=> q \in Generating => n = m
               /\ p \notin Generating /\ q \in Generating => n = m + 1
               /\ p \in Generating /\ q \notin Generating => n = m - 1
    BY <2>1, GroupTurns, SignInClasses
  <2>16. \A v, p, q : Move(w, v, p, q) => Goes(p, q)
    BY DEF Move
  <2> HIDE DEF m, n, Goes
  <2>2. CASE Register(w, u)
    <3>1. Goes(None, PCreate) /\ Room /\ issued' = issued
      BY <2>2, <2>16, RegisterMoves DEF Register, Begin
    <3> QED
      BY <1>4, <1>5, <1>6, <2>1, <3>1, SignInClasses
  <2>3. CASE Create(w)
    <3>1. \/ Goes(PCreate, None) /\ issued' = issued
          \/ Goes(PCreate, SignIn) /\ issued' = issued + 1
      BY <2>3, <2>16, CreateMoves
    <3> QED
      BY <1>4, <1>5, <1>6, <2>1, <3>1, SignInClasses
  <2>4. CASE Login(w, u)
    <3>1. Goes(None, <<"decide">>) /\ issued' = issued
      BY <2>4, <2>16, LoginMoves DEF Login
    <3> QED
      BY <1>4, <1>5, <1>6, <2>1, <3>1, SignInClasses
  <2>5. CASE LoginFails(w)
    <3>1. Goes(<<"decide">>, None) /\ issued' = issued
      BY <2>5, <2>16, LoginFailsMoves DEF LoginFails
    <3> QED
      BY <1>4, <1>5, <1>6, <2>1, <3>1, SignInClasses
  <2>6. CASE IssueToken(w)
    <3>1. Goes(<<"decide">>, SignIn) /\ issued' = issued + 1 /\ Room
      BY <2>6, <2>16, IssueTokenMoves DEF IssueToken, PasswordRight
    <3> QED
      BY <1>4, <1>5, <1>6, <2>1, <3>1, SignInClasses
  <2>7. CASE IssueTicket(w)
    <3>1. Goes(<<"decide">>, None) /\ issued' = issued + 1 /\ Room
      BY <2>7, <2>16, IssueTicketMoves DEF IssueTicket, PasswordRight
    <3> QED
      BY <1>4, <1>5, <1>6, <2>1, <3>1, SignInClasses
  <2>8. CASE CodeWrong(w)
    <3>1. Goes(<<"code">>, None) /\ issued' = issued
      BY <2>8, <2>16, CodeWrongMoves DEF CodeWrong
    <3> QED
      BY <1>4, <1>5, <1>6, <2>1, <3>1, SignInClasses
  <2>9. CASE TotpRight(w)
    <3>1. Goes(<<"code">>, SignIn) /\ issued' = issued + 1 /\ Room
      BY <2>9, <2>16, TotpRightMoves DEF TotpRight
    <3> QED
      BY <1>4, <1>5, <1>6, <2>1, <3>1, SignInClasses
  <2>10. CASE BackupCodeFound(w)
    <3>1. Goes(<<"code">>, <<"consume">>) /\ issued' = issued /\ Room
      BY <2>10, <2>16, BackupCodeMoves DEF BackupCodeFound
    <3> QED
      BY <1>4, <1>5, <1>6, <2>1, <3>1, SignInClasses
  <2>11. CASE ConsumeCode(w)
    <3>1. Goes(<<"consume">>, SignIn) /\ issued' = issued + 1
      BY <2>11, <2>16, ConsumeMoves DEF ConsumeCode
    <3> QED
      BY <1>4, <1>5, <1>6, <2>1, <3>1, SignInClasses
  <2>12. CASE InsertToken(w)
    <3>1. (Goes(SignIn, None) \/ Goes(SignIn, <<"count">>)) /\ issued' = issued
      BY <2>12, <2>16, InsertMoves DEF InsertToken
    <3> QED
      BY <1>4, <1>5, <1>6, <2>1, <3>1, SignInClasses
  <2>13. CASE CountSessions(w)
    <3>1. (Goes(<<"count">>, None) \/ Goes(<<"count">>, <<"trim">>)) /\ issued' = issued
      BY <2>13, <2>16, CountMoves DEF CountSessions
    <3> QED
      BY <1>4, <1>5, <1>6, <2>1, <3>1, SignInClasses
  <2>14. CASE TrimSessions(w)
    <3>1. Goes(<<"trim">>, None) /\ issued' = issued
      BY <2>14, <2>16, TrimMoves DEF TrimSessions
    <3> QED
      BY <1>4, <1>5, <1>6, <2>1, <3>1, SignInClasses
  <2>15. CASE \E t \in tickets : t.user = u /\ RedeemTicket(w, t)
    <3>1. (task' = task \/ Goes(None, <<"code">>)) /\ issued' = issued
      BY <2>15, <2>16, RedeemMoves DEF RedeemTicket
    <3>2. task' = task => n = m
      BY DEF m, n, Group, Prog
    <3> QED
      BY <1>4, <1>5, <1>6, <2>1, <3>1, <3>2, SignInClasses
  <2> QED
    BY <1>8, <2>2, <2>3, <2>4, <2>5, <2>6, <2>7, <2>8, <2>9, <2>10, <2>11, <2>12, <2>13,
       <2>14, <2>15 DEF SignsIn
<1> QED
  BY <1>7, <1>8, SignInOrAside

\* The programs that begin with some statements are alone to do so.
LEMMA Alone ==
  \A p \in Programs :
    /\ Head(p) = "count" <=> p = <<"count">>
    /\ Head(p) = "trim" <=> p = <<"trim">>
    /\ Head(p) = "decide" <=> p = <<"decide">>
BY Heads DEF Starting

LEMMA LimitIs ==
  Programmed =>
    \A u \in User :
      {w \in Worker : (Runs(w, "count") \/ Runs(w, "trim")) /\ task[w].user = u}
        = Group(Limiting, {u})
<1> SUFFICES ASSUME Programmed, NEW u \in User
             PROVE  {w \in Worker : (Runs(w, "count") \/ Runs(w, "trim")) /\ task[w].user = u}
                      = Group(Limiting, {u})
  OBVIOUS
<1>1. \A w \in Worker : (Runs(w, "count") \/ Runs(w, "trim")) <=> Prog(w) \in Limiting
  BY ProgramsSay DEF Limiting
<1>2. \A w \in Worker : Prog(w) \in Limiting => task[w] # Idle
  BY SignInClasses DEF Prog
<1> QED
  BY <1>1, <1>2 DEF Group

LEMMA DecidersAre ==
  Programmed => \A u \in User : Deciders(u) = Group(Deciding, {u})
<1> SUFFICES ASSUME Programmed, NEW u \in User
             PROVE  Deciders(u) = Group(Deciding, {u})
  OBVIOUS
<1>1. \A w \in Worker : Runs(w, "decide") <=> Prog(w) \in Deciding
  BY ProgramsSay DEF Deciding
<1>2. \A w \in Worker : Prog(w) \in Deciding => task[w] # Idle
  BY SignInClasses DEF Prog
<1> QED
  BY <1>1, <1>2 DEF Deciders, Group

LEMMA GroupFinite ==
  ASSUME NEW programs, NEW users
  PROVE  /\ Cardinality(Group(programs, users)) \in Nat
         /\ Cardinality(Group(programs, users)) <= Cardinality(Worker)
         /\ Cardinality(Worker) \in Nat
<1>1. Group(programs, users) \in SUBSET Worker
  BY DEF Group
<1> QED
  BY <1>1, BoundsAssumption, FS_Subset, FS_CardinalityType

LEMMA StillLimited ==
  ASSUME TypeOK, Programmed, SessionLimit,
         sessions' = sessions \/ \E v \in User : Thinner(v),
         \A u \in User : Group(Limiting, {u})' = Group(Limiting, {u})
  PROVE  \A u \in User : Len(sessions'[u]) <= MaxSessions + Cardinality(Group(Limiting, {u})')
<1> SUFFICES ASSUME NEW u \in User
             PROVE  Len(sessions'[u]) <= MaxSessions + Cardinality(Group(Limiting, {u}))
  OBVIOUS
<1>1. Len(sessions[u]) <= MaxSessions + Cardinality(Group(Limiting, {u}))
  BY LimitIs DEF SessionLimit
<1>2. Cardinality(Group(Limiting, {u})) \in Nat /\ MaxSessions \in Nat
  BY GroupFinite, BoundsAssumption
<1>3. Len(sessions[u]) \in Nat
  BY SessionOf
<1>4. CASE sessions' = sessions
  BY <1>1, <1>4
<1>5. ASSUME NEW v \in User, Thinner(v)
      PROVE  Len(sessions'[u]) <= MaxSessions + Cardinality(Group(Limiting, {u}))
  <2>1. Len(sessions'[u]) <= Len(sessions[u])
    BY <1>3, <1>5 DEF Thinner
  <2>2. Len(sessions'[u]) \in Nat
    BY <1>5, LenProperties DEF Thinner
  <2> QED
    BY <1>1, <1>2, <1>3, <2>1, <2>2
<1> QED
  BY <1>4, <1>5

\* A step between programs that neither count nor trim.
LEMMA UnlimitedMoves ==
  ASSUME NEW w \in Worker, NEW v, NEW p, NEW q, Move(w, v, p, q),
         p \notin Limiting, q \notin Limiting
  PROVE  \A u \in User : Group(Limiting, {u})' = Group(Limiting, {u})
BY GroupTurns, SignInClasses

\* The sessions, and the requests that are to limit them.
LEMMA LimitStep ==
  ASSUME TypeOK, Programmed, TrimsSome, SessionLimit, Next
  PROVE  SessionLimit'
<1> DEFINE Limited == \A u \in User :
             Len(sessions'[u]) <= MaxSessions + Cardinality(Group(Limiting, {u})')
           Same == \A u \in User : Group(Limiting, {u})' = Group(Limiting, {u})
<1>1. (Programmed =>
        \A u \in User :
          {w \in Worker : (Runs(w, "count") \/ Runs(w, "trim")) /\ task[w].user = u}
            = Group(Limiting, {u}))'
  BY LimitIs, PTL
<1> SUFFICES Limited
  BY <1>1, ProgrammedStep DEF SessionLimit
<1> HIDE DEF Limited
<1>2. (sessions' = sessions /\ Same) => Limited
  BY StillLimited DEF Limited
<1>3. CASE Aside
  <2>1. Same
    BY <1>3, AsideGroups DEF Limiting, SignInPrograms
  <2> QED
    BY <1>3, <2>1, StillLimited DEF Aside, Limited
<1>4. ASSUME NEW w \in Worker, NEW u \in User, SignsIn(w, u)
      PROVE  Limited
  <2>1. \A v, p, q : (Move(w, v, p, q) /\ p \notin Limiting /\ q \notin Limiting) => Same
    BY UnlimitedMoves
  <2> HIDE DEF Same
  <2>2. CASE Register(w, u)
    <3>1. Same
      BY <2>1, <2>2, RegisterMoves, SignInClasses
    <3> QED
      BY <1>2, <2>2, <3>1 DEF Register, Begin, Untracked
  <2>3. CASE Create(w)
    <3>1. Same
      BY <2>1, <2>3, CreateMoves, SignInClasses
    <3> QED
      BY <1>2, <2>3, <3>1 DEF Create, Untracked
  <2>4. CASE Login(w, u)
    <3>1. Same
      BY <2>1, <2>4, LoginMoves, SignInClasses
    <3> QED
      BY <1>2, <2>4, <3>1 DEF Login
  <2>5. CASE LoginFails(w)
    <3>1. Same
      BY <2>1, <2>5, LoginFailsMoves, SignInClasses
    <3> QED
      BY <1>2, <2>5, <3>1 DEF LoginFails
  <2>6. CASE IssueToken(w)
    <3>1. Same
      BY <2>1, <2>6, IssueTokenMoves, SignInClasses
    <3> QED
      BY <1>2, <2>6, <3>1 DEF IssueToken, PasswordRight
  <2>7. CASE IssueTicket(w)
    <3>1. Same
      BY <2>1, <2>7, IssueTicketMoves, SignInClasses
    <3> QED
      BY <1>2, <2>7, <3>1 DEF IssueTicket, PasswordRight
  <2>8. CASE CodeWrong(w)
    <3>1. Same
      BY <2>1, <2>8, CodeWrongMoves, SignInClasses
    <3> QED
      BY <1>2, <2>8, <3>1 DEF CodeWrong
  <2>9. CASE TotpRight(w)
    <3>1. Same
      BY <2>1, <2>9, TotpRightMoves, SignInClasses
    <3> QED
      BY <1>2, <2>9, <3>1 DEF TotpRight
  <2>10. CASE BackupCodeFound(w)
    <3>1. Same
      BY <2>1, <2>10, BackupCodeMoves, SignInClasses
    <3> QED
      BY <1>2, <2>10, <3>1 DEF BackupCodeFound
  <2>11. CASE ConsumeCode(w)
    <3>1. Same
      BY <2>1, <2>11, ConsumeMoves, SignInClasses
    <3> QED
      BY <1>2, <2>11, <3>1 DEF ConsumeCode
  <2>12. CASE \E t \in tickets : t.user = u /\ RedeemTicket(w, t)
    <3>1. PICK t \in tickets : RedeemTicket(w, t)
      BY <2>12
    <3>2. task' = task => Same
      BY DEF Same, Group, Prog
    <3>3. Same
      BY <2>1, <3>1, <3>2, RedeemMoves, SignInClasses
    <3> QED
      BY <1>2, <3>1, <3>3 DEF RedeemTicket
  <2>19. PICK x \in User : task[w] # Idle => x = task[w].user
    BY TaskOf
  <2> DEFINE m == Cardinality(Group(Limiting, {x}))
             n == Cardinality(Group(Limiting, {x})')
  <2>20. ASSUME task[w] # Idle, Turns(w), \A v \in User : v # x => sessions'[v] = sessions[v],
                \A v \in User : v # x => Group(Limiting, {v})' = Group(Limiting, {v}),
                Len(sessions'[x]) <= MaxSessions + n
         PROVE  Limited
    <3>1. \A v \in User : Len(sessions[v]) <= MaxSessions + Cardinality(Group(Limiting, {v}))
      BY LimitIs DEF SessionLimit
    <3>2. ASSUME NEW v \in User
          PROVE  Len(sessions'[v]) <= MaxSessions + Cardinality(Group(Limiting, {v})')
      <4>1. CASE v = x
        BY <2>20, <4>1
      <4>2. CASE v # x
        BY <2>20, <3>1, <4>2
      <4> QED
        BY <4>1, <4>2
    <3> QED
      BY <3>2 DEF Limited
  <2>21. ASSUME task[w] # Idle
         PROVE  /\ x \in User /\ m \in Nat /\ MaxSessions \in Nat /\ Len(sessions[x]) \in Nat
                /\ Len(sessions[x]) <= MaxSessions + m /\ sessions[x] \in Seq(Session)
                /\ task[w].key \in Nat
    <3>1. x \in User /\ task[w].key \in Nat
      BY <2>19, <2>21, TaskOf
    <3>2. m \in Nat /\ MaxSessions \in Nat
      BY GroupFinite, BoundsAssumption
    <3>3. Len(sessions[x]) \in Nat /\ sessions[x] \in Seq(Session)
      BY <3>1, SessionOf
    <3>4. Len(sessions[x]) <= MaxSessions + m
      BY <3>1, LimitIs DEF SessionLimit
    <3> QED
      BY <3>1, <3>2, <3>3, <3>4
  <2>22. ASSUME NEW p, NEW q, Move(w, x, p, q)
         PROVE  /\ \A v \in User : v # x => Group(Limiting, {v})' = Group(Limiting, {v})
                /\ n \in Nat /\ Turns(w)
                /\ (p \in Limiting <=> q \in Limiting) => n = m
                /\ (p \notin Limiting /\ q \in Limiting) => n = m + 1
                /\ (p \in Limiting /\ q \notin Limiting) => n = m - 1
    <3>1. \A v \in User : v # x => Group(Limiting, {v})' = Group(Limiting, {v})
      BY <2>22, GroupTurns, SignInClasses
    <3>2. Turns(w)
      BY <2>22 DEF Move
    <3>3. x \in {x} /\ None \notin Limiting
      BY SignInClasses
    <3> QED
      BY <2>22, <3>1, <3>2, <3>3, GroupTurns
  <2> HIDE DEF m, n
  <2>13. CASE InsertToken(w)
    <3>1. task[w] # Idle
      BY <2>13, InsertMoves
    <3>2. CASE Move(w, x, SignIn, None) /\ sessions' = sessions
      <4>1. n = m
        BY <2>22, <3>2, SignInClasses
      <4> QED
        BY <2>20, <2>21, <2>22, <3>1, <3>2, <4>1
    <3>3. CASE /\ Move(w, x, SignIn, <<"count">>)
               /\ sessions' = [sessions EXCEPT ![x] = Append(@,
                    [id |-> task[w].key, pw |-> task[w].row.pw, from |-> task[w].from,
                     kept |-> task[w].row.pw # account[x].pw])]
      <4>1. n = m + 1
        BY <2>22, <3>3, SignInClasses
      <4>2. Len(sessions'[x]) = Len(sessions[x]) + 1
            /\ \A v \in User : v # x => sessions'[v] = sessions[v]
        BY <2>21, <3>1, <3>3 DEF TypeOK
      <4> QED
        BY <2>20, <2>21, <2>22, <3>1, <3>3, <4>1, <4>2
    <3> QED
      BY <2>13, <3>2, <3>3, <2>19, <3>1, InsertMoves
  <2>14. CASE CountSessions(w)
    <3>1. task[w] # Idle /\ sessions' = sessions
      BY <2>14, CountMoves DEF CountSessions
    <3>2. CASE Move(w, x, <<"count">>, None) /\ Len(sessions[x]) <= MaxSessions
      <4>1. n \in Nat
        BY <2>22, <3>2
      <4> QED
        BY <2>20, <2>21, <2>22, <3>1, <3>2, <4>1
    <3>3. CASE Move(w, x, <<"count">>, <<"trim">>)
      <4>1. n = m
        BY <2>22, <3>3, SignInClasses
      <4> QED
        BY <2>20, <2>21, <2>22, <3>1, <3>3, <4>1
    <3> QED
      BY <2>14, <3>2, <3>3, <2>19, <3>1, CountMoves
  <2>15. CASE TrimSessions(w)
    <3>1. task[w] # Idle /\ Move(w, x, <<"trim">>, None) /\ task[w].key >= 1
      BY <2>15, <2>19, TrimMoves DEF TrimSessions, TrimsSome
    <3>2. sessions' = [sessions EXCEPT ![x] = SubSeq(@, task[w].key + 1, Len(@))]
      BY <2>15, <2>19, <3>1 DEF TrimSessions
    <3>3. n = m - 1 /\ n \in Nat
      BY <2>22, <3>1, SignInClasses
    <3>4. /\ sessions'[x] = SubSeq(sessions[x], task[w].key + 1, Len(sessions[x]))
          /\ \A v \in User : v # x => sessions'[v] = sessions[v]
      BY <2>21, <3>1, <3>2 DEF TypeOK
    <3> DEFINE s == sessions[x]
               k == task[w].key
               l == Len(sessions[x])
    <3>6. s \in Seq(Session) /\ l = Len(s) /\ l \in Nat /\ k \in Nat /\ k >= 1
          /\ l <= MaxSessions + m /\ m \in Nat /\ MaxSessions \in Nat
          /\ sessions'[x] = SubSeq(s, k + 1, l)
      BY <2>21, <3>1, <3>4
    <3> HIDE DEF s, k, l
    <3>7. \A i \in (k + 1)..l : s[i] \in Session
      BY <3>6, ElementOfSeq
    <3>8. Len(SubSeq(s, k + 1, l)) = IF k + 1 <= l THEN l - (k + 1) + 1 ELSE 0
      BY <3>6, <3>7, SubSeqProperties
    <3>5. Len(sessions'[x]) <= MaxSessions + n
      BY <3>3, <3>6, <3>8
    <3> QED
      BY <2>20, <2>22, <3>1, <3>4, <3>5
  <2> QED
    BY <1>4, <2>2, <2>3, <2>4, <2>5, <2>6, <2>7, <2>8, <2>9, <2>10, <2>11, <2>12, <2>13, <2>14,
       <2>15 DEF SignsIn
<1> QED
  BY <1>3, <1>4, SignInOrAside

\* A trim deletes at least one session.
LEMMA TrimsStep ==
  ASSUME TypeOK, Programmed, TrimsSome, Next
  PROVE  TrimsSome'
<1>1. ASSUME task' = task
      PROVE  TrimsSome'
  BY <1>1 DEF TrimsSome, Runs
<1>2. ASSUME NEW w \in Worker, NEW u, NEW p, NEW q, Move(w, u, p, q),
             q # <<"trim">> \/ task'[w].key >= 1
      PROVE  TrimsSome'
  <2> SUFFICES ASSUME NEW v \in Worker, Runs(v, "trim")'
               PROVE  task'[v].key >= 1
    BY DEF TrimsSome
  <2>1. CASE v # w
    BY <1>2, <2>1 DEF Move, Turns, TrimsSome, Runs
  <2>2. CASE v = w
    <3>1. task'[w] # Idle /\ Head(task'[w].todo) = "trim" /\ q = task'[w].todo /\ q \in Programs
      BY <1>2, <2>2 DEF Runs, Move, Prog, At
    <3>2. q = <<"trim">>
      BY <3>1, Alone
    <3> QED
      BY <1>2, <2>2, <3>2
  <2> QED
    BY <2>1, <2>2
<1>3. <<"trim">> \in SignInPrograms /\ None # <<"trim">> /\ SignIn # <<"trim">>
      /\ PCreate # <<"trim">>
      /\ <<"decide">> # <<"trim">> /\ <<"code">> # <<"trim">> /\ <<"consume">> # <<"trim">>
      /\ <<"count">> # <<"trim">>
  BY DEF SignInPrograms, None, SignIn, PCreate
<1>4. CASE Aside
  BY <1>1, <1>2, <1>3, <1>4 DEF Aside, Elsewhere
<1>5. ASSUME NEW w \in Worker, NEW u \in User, SignsIn(w, u)
      PROVE  TrimsSome'
  <2>1. \A v, p, q : (Move(w, v, p, q) /\ (q # <<"trim">> \/ task'[w].key >= 1)) => TrimsSome'
    BY <1>2
  <2>2. CASE Register(w, u)
    BY <1>3, <2>1, <2>2, RegisterMoves
  <2>3. CASE Create(w)
    BY <1>3, <2>1, <2>3, CreateMoves
  <2>4. CASE Login(w, u)
    BY <1>3, <2>1, <2>4, LoginMoves
  <2>5. CASE LoginFails(w)
    BY <1>3, <2>1, <2>5, LoginFailsMoves
  <2>6. CASE IssueToken(w)
    BY <1>3, <2>1, <2>6, IssueTokenMoves
  <2>7. CASE IssueTicket(w)
    BY <1>3, <2>1, <2>7, IssueTicketMoves
  <2>8. CASE CodeWrong(w)
    BY <1>3, <2>1, <2>8, CodeWrongMoves
  <2>9. CASE TotpRight(w)
    BY <1>3, <2>1, <2>9, TotpRightMoves
  <2>10. CASE BackupCodeFound(w)
    BY <1>3, <2>1, <2>10, BackupCodeMoves
  <2>11. CASE ConsumeCode(w)
    BY <1>3, <2>1, <2>11, ConsumeMoves
  <2>12. CASE InsertToken(w)
    BY <1>3, <2>1, <2>12, InsertMoves
  <2>13. CASE CountSessions(w)
    BY <1>3, <2>1, <2>13, CountMoves
  <2>14. CASE TrimSessions(w)
    BY <1>3, <2>1, <2>14, TrimMoves
  <2>15. CASE \E t \in tickets : t.user = u /\ RedeemTicket(w, t)
    BY <1>1, <1>3, <2>1, <2>15, RedeemMoves
  <2> QED
    BY <1>5, <2>2, <2>3, <2>4, <2>5, <2>6, <2>7, <2>8, <2>9, <2>10, <2>11, <2>12, <2>13, <2>14,
       <2>15 DEF SignsIn
<1> QED
  BY <1>4, <1>5, SignInOrAside

-----------------------------------------------------------------------------
\* Maps of failures.
Counted(map) == DOMAIN map \subseteq User /\ \A u \in DOMAIN map : map[u] \in Nat

LEMMA MapsCount ==
  ASSUME NEW map, Counted(map), NEW u \in User
  PROVE  /\ Counted(Without(map, u)) /\ Counted(Reserved(map, u)) /\ Counted(Recorded(map, u))
         /\ DOMAIN Without(map, u) = DOMAIN map \ {u}
         /\ DOMAIN Reserved(map, u) = DOMAIN map \cup {u}
         /\ DOMAIN Recorded(map, u) = DOMAIN map
         /\ \A v \in DOMAIN map \ {u} : Without(map, u)[v] = map[v]
         /\ \A v \in DOMAIN map : Reserved(map, u)[v] = map[v]
         /\ \A v \in DOMAIN map : Recorded(map, u)[v] = IF v = u THEN map[v] + 1 ELSE map[v]
<1> USE DEF Counted
<1>1. /\ Counted(Without(map, u)) /\ DOMAIN Without(map, u) = DOMAIN map \ {u}
      /\ \A v \in DOMAIN map \ {u} : Without(map, u)[v] = map[v]
  BY DEF Without
<1>2. /\ Counted(Reserved(map, u)) /\ DOMAIN Reserved(map, u) = DOMAIN map \cup {u}
      /\ \A v \in DOMAIN map : Reserved(map, u)[v] = map[v]
  BY DEF Reserved
<1>3. /\ Counted(Recorded(map, u)) /\ DOMAIN Recorded(map, u) = DOMAIN map
      /\ \A v \in DOMAIN map : Recorded(map, u)[v] = IF v = u THEN map[v] + 1 ELSE map[v]
  BY DEF Recorded
<1> QED
  BY <1>1, <1>2, <1>3

ToCome == \A u \in DOMAIN failures :
  failures[u] + Cardinality(Group(Deciding, {u})) < MaxFailures + Cardinality(Worker)

LEMMA ToComeIs ==
  (Programmed /\ DOMAIN failures \subseteq User) => (FailuresToCome <=> ToCome)
BY DecidersAre DEF FailuresToCome, ToCome

\* Failures that were there, and no more requests that may add to them.
LEMMA StillToCome ==
  ASSUME TypeOK, ToCome, DOMAIN failures' \subseteq DOMAIN failures,
         \A u \in DOMAIN failures' : failures'[u] = failures[u],
         \A u \in User : Cardinality(Group(Deciding, {u})') <= Cardinality(Group(Deciding, {u}))
                         /\ Cardinality(Group(Deciding, {u})') \in Nat
  PROVE  ToCome'
<1> SUFFICES ASSUME NEW u \in DOMAIN failures'
             PROVE  failures'[u] + Cardinality(Group(Deciding, {u})')
                      < MaxFailures + Cardinality(Worker)
  BY DEF ToCome
<1>1. /\ u \in User /\ failures[u] \in Nat /\ failures'[u] = failures[u]
      /\ failures[u] + Cardinality(Group(Deciding, {u})) < MaxFailures + Cardinality(Worker)
  BY DEF TypeOK, ToCome
<1>2. Cardinality(Group(Deciding, {u})) \in Nat /\ Cardinality(Worker) \in Nat
      /\ MaxFailures \in Nat
  BY GroupFinite, BoundsAssumption
<1> QED
  BY <1>1, <1>2

\* The failures of the users, and the requests that may add to them.
LEMMA FailuresStep ==
  ASSUME TypeOK, Programmed, FailuresToCome, Next, DOMAIN failures' \subseteq User
  PROVE  FailuresToCome'
<1> DEFINE Fewer == \A u \in User :
             Cardinality(Group(Deciding, {u})') <= Cardinality(Group(Deciding, {u}))
             /\ Cardinality(Group(Deciding, {u})') \in Nat
<1>1. ((Programmed /\ DOMAIN failures \subseteq User) => (FailuresToCome <=> ToCome))'
  BY ToComeIs, PTL
<1> SUFFICES ToCome'
  BY <1>1, ProgrammedStep
<1>2. ToCome
  BY ToComeIs DEF TypeOK
<1>3. Counted(failures)
  BY DEF Counted, TypeOK
<1>4. (failures' = failures /\ Fewer) => ToCome'
  BY <1>2, StillToCome
<1>5. ASSUME NEW u \in User, failures' = Without(failures, u), Fewer
      PROVE  ToCome'
  <2>1. /\ DOMAIN failures' \subseteq DOMAIN failures
        /\ \A v \in DOMAIN failures' : failures'[v] = failures[v]
    <3> HIDE DEF Fewer
    <3>1. /\ DOMAIN Without(failures, u) = DOMAIN failures \ {u}
          /\ \A v \in DOMAIN failures \ {u} : Without(failures, u)[v] = failures[v]
      BY <1>3, MapsCount
    <3> QED
      BY <1>5, <3>1
  <2> QED
    BY <1>2, <1>5, <2>1, StillToCome
<1>6. CASE Aside
  <2>1. \A u \in User : Group(Deciding, {u})' = Group(Deciding, {u})
    BY <1>6, AsideGroups DEF Deciding, SignInPrograms
  <2>2. \A u \in User : Cardinality(Group(Deciding, {u})) \in Nat
    BY GroupFinite
  <2>3. Fewer
    <3> SUFFICES ASSUME NEW x \in User
                 PROVE  Cardinality(Group(Deciding, {x})') <= Cardinality(Group(Deciding, {x}))
                        /\ Cardinality(Group(Deciding, {x})') \in Nat
      OBVIOUS
    <3>1. Group(Deciding, {x})' = Group(Deciding, {x}) /\ Cardinality(Group(Deciding, {x})) \in Nat
      BY <2>1, <2>2
    <3> QED
      BY <3>1
  <2> HIDE DEF Fewer
  <2> QED
    BY <1>4, <1>5, <1>6, <2>3 DEF Aside
<1>7. ASSUME NEW w \in Worker, NEW u \in User, SignsIn(w, u)
      PROVE  ToCome'
  <2>1. ASSUME NEW v, NEW p, NEW q, Move(w, v, p, q), q \notin Deciding
        PROVE  Fewer
    <3> SUFFICES ASSUME NEW x \in User
                 PROVE  Cardinality(Group(Deciding, {x})') <= Cardinality(Group(Deciding, {x}))
                        /\ Cardinality(Group(Deciding, {x})') \in Nat
      OBVIOUS
    <3>1. None \notin Deciding
      BY SignInClasses
    <3>2. Cardinality(Group(Deciding, {x})) \in Nat
      BY GroupFinite
    <3>3. CASE v \notin {x} \/ p \notin Deciding
      BY <2>1, <3>1, <3>2, <3>3, GroupTurns
    <3>4. CASE v \in {x} /\ p \in Deciding
      BY <2>1, <3>1, <3>2, <3>4, GroupTurns
    <3> QED
      BY <3>3, <3>4
  <2> HIDE DEF Fewer
  <2>2. CASE Register(w, u)
    <3>1. Fewer
      BY <2>1, <2>2, RegisterMoves, SignInClasses
    <3> QED
      BY <1>4, <2>2, <3>1 DEF Register, Begin, Untracked
  <2>3. CASE Create(w)
    <3>1. Fewer
      BY <2>1, <2>3, CreateMoves, SignInClasses
    <3> QED
      BY <1>4, <2>3, <3>1 DEF Create, Untracked
  <2>4. CASE CodeWrong(w)
    <3>1. Fewer
      BY <2>1, <2>4, CodeWrongMoves, SignInClasses
    <3> QED
      BY <1>4, <2>4, <3>1 DEF CodeWrong
  <2>5. CASE TotpRight(w)
    <3>1. Fewer
      BY <2>1, <2>5, TotpRightMoves, SignInClasses
    <3> QED
      BY <1>4, <2>5, <3>1 DEF TotpRight
  <2>6. CASE BackupCodeFound(w)
    <3>1. Fewer
      BY <2>1, <2>6, BackupCodeMoves, SignInClasses
    <3> QED
      BY <1>4, <2>6, <3>1 DEF BackupCodeFound
  <2>7. CASE ConsumeCode(w)
    <3>1. Fewer
      BY <2>1, <2>7, ConsumeMoves, SignInClasses
    <3> QED
      BY <1>4, <2>7, <3>1 DEF ConsumeCode
  <2>8. CASE InsertToken(w)
    <3>1. Fewer
      BY <2>1, <2>8, InsertMoves, SignInClasses
    <3> QED
      BY <1>4, <2>8, <3>1 DEF InsertToken, Untracked
  <2>9. CASE CountSessions(w)
    <3>1. Fewer
      BY <2>1, <2>9, CountMoves, SignInClasses
    <3> QED
      BY <1>4, <2>9, <3>1 DEF CountSessions, Untracked
  <2>10. CASE TrimSessions(w)
    <3>1. Fewer
      BY <2>1, <2>10, TrimMoves, SignInClasses
    <3> QED
      BY <1>4, <2>10, <3>1 DEF TrimSessions, Untracked
  <2>11. CASE IssueToken(w)
    <3>1. Fewer /\ task[w].user \in User
      BY <2>1, <2>11, IssueTokenMoves, SignInClasses, TaskOf
    <3> QED
      BY <1>5, <2>11, <3>1 DEF IssueToken, PasswordRight
  <2>12. CASE IssueTicket(w)
    <3>1. Fewer /\ task[w].user \in User
      BY <2>1, <2>12, IssueTicketMoves, SignInClasses, TaskOf
    <3> QED
      BY <1>5, <2>12, <3>1 DEF IssueTicket, PasswordRight
  <2>13. CASE \E t \in tickets : t.user = u /\ RedeemTicket(w, t)
    <3>1. PICK t \in tickets : RedeemTicket(w, t)
      BY <2>13
    <3>2. CASE task' = task
      <4>1. \A x \in User : Group(Deciding, {x})' = Group(Deciding, {x})
        BY <3>2 DEF Group, Prog
      <4>2. \A x \in User : Cardinality(Group(Deciding, {x})) \in Nat
        BY GroupFinite
      <4>3. Fewer
        <5> SUFFICES ASSUME NEW x \in User
                     PROVE  Cardinality(Group(Deciding, {x})') <= Cardinality(Group(Deciding, {x}))
                            /\ Cardinality(Group(Deciding, {x})') \in Nat
          BY DEF Fewer
        <5>1. /\ Group(Deciding, {x})' = Group(Deciding, {x})
              /\ Cardinality(Group(Deciding, {x})) \in Nat
          BY <4>1, <4>2
        <5> QED
          BY <5>1
      <4> QED
        BY <1>4, <3>1, <4>3 DEF RedeemTicket
    <3>3. CASE task' # task
      <4>1. Fewer
        BY <2>1, <3>1, <3>3, RedeemMoves, SignInClasses
      <4> QED
        BY <1>4, <3>1, <4>1 DEF RedeemTicket
    <3> QED
      BY <3>2, <3>3
  <2>14. CASE Login(w, u)
    <3>1. failures' = Reserved(failures, u) /\ Reserved(failures, u)[u] < MaxFailures
      BY <2>14 DEF Login, Admitted
    <3>2. Move(w, u, None, <<"decide">>) /\ None \notin Deciding
      BY <2>14, LoginMoves, SignInClasses
    <3> SUFFICES ASSUME NEW x \in DOMAIN failures'
                 PROVE  failures'[x] + Cardinality(Group(Deciding, {x})')
                          < MaxFailures + Cardinality(Worker)
      BY DEF ToCome
    <3>3. /\ DOMAIN failures' = DOMAIN failures \cup {u} /\ Counted(failures')
          /\ \A v \in DOMAIN failures : failures'[v] = failures[v]
      BY <1>3, <3>1, MapsCount
    <3>4. /\ Cardinality(Group(Deciding, {x})') \in Nat
          /\ Cardinality(Group(Deciding, {x})') <= Cardinality(Worker)
          /\ Cardinality(Worker) \in Nat /\ MaxFailures \in Nat
          /\ u \notin {x} => Group(Deciding, {x})' = Group(Deciding, {x})
      BY <3>2, GroupTurns, BoundsAssumption
    <3>5. failures'[x] \in Nat
      BY <3>3 DEF Counted
    <3>6. CASE x = u
      BY <3>1, <3>4, <3>5, <3>6
    <3>7. CASE x # u
      BY <1>2, <3>3, <3>4, <3>7 DEF ToCome
    <3> QED
      BY <3>6, <3>7
  <2>15. CASE LoginFails(w)
    <3>1. PICK y \in User : y = task[w].user
      BY <2>15, LoginFailsMoves, TaskOf
    <3>2. Move(w, y, <<"decide">>, None) /\ None \notin Deciding /\ <<"decide">> \in Deciding
      BY <2>15, <3>1, LoginFailsMoves, SignInClasses
    <3>3. CASE failures' = failures
      BY <1>4, <2>1, <3>2, <3>3
    <3>4. CASE failures' = Recorded(failures, y)
      <4> SUFFICES ASSUME NEW x \in DOMAIN failures'
                   PROVE  failures'[x] + Cardinality(Group(Deciding, {x})')
                            < MaxFailures + Cardinality(Worker)
        BY DEF ToCome
      <4>1. /\ DOMAIN failures' = DOMAIN failures
            /\ failures'[x] = IF x = y THEN failures[x] + 1 ELSE failures[x]
        <5>1. /\ DOMAIN Recorded(failures, y) = DOMAIN failures
              /\ \A v \in DOMAIN failures :
                   Recorded(failures, y)[v] = IF v = y THEN failures[v] + 1 ELSE failures[v]
          BY <1>3, MapsCount
        <5> QED
          BY <3>4, <5>1
      <4>2. /\ failures[x] \in Nat
            /\ failures[x] + Cardinality(Group(Deciding, {x})) < MaxFailures + Cardinality(Worker)
        BY <1>2, <1>3, <4>1 DEF Counted, ToCome
      <4>3. /\ Cardinality(Group(Deciding, {x})) \in Nat
            /\ Cardinality(Worker) \in Nat /\ MaxFailures \in Nat
        BY GroupFinite, BoundsAssumption
      <4>4. /\ y \notin {x} => Group(Deciding, {x})' = Group(Deciding, {x})
            /\ y \in {x} => Cardinality(Group(Deciding, {x})')
                  = Cardinality(Group(Deciding, {x})) - 1
        BY <3>2, GroupTurns
      <4> QED
        BY <4>1, <4>2, <4>3, <4>4
    <3> QED
      BY <2>15, <3>1, <3>3, <3>4 DEF LoginFails
  <2> QED
    BY <1>7, <2>2, <2>3, <2>4, <2>5, <2>6, <2>7, <2>8, <2>9, <2>10, <2>11, <2>12, <2>13, <2>14,
       <2>15 DEF SignsIn
<1> QED
  BY <1>6, <1>7, SignInOrAside

-----------------------------------------------------------------------------
(* Tickets: what stems from one.                                            *)
Busy(w) == task[w] # Idle
TicketsApart ==
  \A t \in tickets : /\ t.id \in 1..issued
                     /\ \A v \in tickets : t.id = v.id \/ t.user = v.user => t = v
RequestsTook ==
  \A w \in Worker : Busy(w) => task[w].from <= issued /\ \A t \in tickets : task[w].from # t.id
RequestsApart ==
  \A v, w \in Worker : (Busy(v) /\ Busy(w) /\ v # w /\ task[v].from # 0) =>
                         task[v].from # task[w].from
SessionsTook ==
  \A u \in User : \A i \in DOMAIN sessions[u] :
    /\ sessions[u][i].from <= issued
    /\ sessions[u][i].from # 0 =>
         /\ \A t \in tickets : t.id # sessions[u][i].from
         /\ \A j \in DOMAIN sessions[u] : sessions[u][j].from = sessions[u][i].from => i = j
RequestsAndSessions ==
  \A w \in Worker : (Busy(w) /\ task[w].from # 0) =>
    \A u \in User : \A i \in DOMAIN sessions[u] : sessions[u][i].from # task[w].from
Once == TicketsApart /\ RequestsTook /\ RequestsApart /\ SessionsTook /\ RequestsAndSessions

LEMMA OnceIs == (TicketOnce /\ FromTickets) <=> Once
<1> DEFINE D == {v \in Worker : task[v] # Idle}
<1>1. DOMAIN Origins = D /\ \A w \in D : Origins[w] = task[w].from
  BY DEF Origins
<1>2. \A w : w \in D <=> (w \in Worker /\ Busy(w))
  BY DEF Busy
<1> HIDE DEF D
<1>3. TicketOnce <=>
        /\ \A t \in tickets : /\ \A v \in tickets : t.user = v.user => t = v
                              /\ \A w \in Worker : Busy(w) => task[w].from # t.id
        /\ RequestsApart
        /\ \A u \in User : \A i \in DOMAIN sessions[u] :
             sessions[u][i].from # 0 =>
               /\ \A t \in tickets : t.id # sessions[u][i].from
               /\ \A j \in DOMAIN sessions[u] :
                    sessions[u][j].from = sessions[u][i].from => i = j
  BY <1>1, <1>2 DEF TicketOnce, RequestsApart
<1>4. FromTickets <=>
        /\ \A t \in tickets : t.id \in 1..issued /\ \A v \in tickets : t.id = v.id => t = v
        /\ \A w \in Worker : Busy(w) => task[w].from <= issued
        /\ RequestsAndSessions
        /\ \A u \in User : \A i \in DOMAIN sessions[u] : sessions[u][i].from <= issued
  BY DEF FromTickets, RequestsAndSessions, Busy
<1>5. ASSUME TicketOnce, FromTickets
      PROVE  Once
  BY <1>3, <1>4, <1>5 DEF Once, TicketsApart, RequestsTook, SessionsTook
<1>6. ASSUME Once
      PROVE  TicketOnce /\ FromTickets
  BY <1>3, <1>4, <1>6 DEF Once, TicketsApart, RequestsTook, SessionsTook
<1> QED
  BY <1>5, <1>6

FromKept(w) ==
  task'[w] # Idle => task'[w].from = 0 \/ (task[w] # Idle /\ task'[w].from = task[w].from)

\* Every session that is left was there, and stems from what it stemmed from.
SessionsKept ==
  \A u \in User : \E f :
    \A i \in DOMAIN sessions'[u] :
      /\ f[i] \in DOMAIN sessions[u] /\ sessions'[u][i].from = sessions[u][f[i]].from
      /\ \A j \in DOMAIN sessions'[u] : f[i] = f[j] => i = j

LEMMA KeptSessions ==
  ASSUME TypeOK, sessions' = sessions \/ \E u \in User : Thinner(u)
  PROVE  SessionsKept
<1> SUFFICES ASSUME NEW u \in User
             PROVE  \E f : \A i \in DOMAIN sessions'[u] :
                      /\ f[i] \in DOMAIN sessions[u]
                            /\ sessions'[u][i].from = sessions[u][f[i]].from
                      /\ \A j \in DOMAIN sessions'[u] : f[i] = f[j] => i = j
  BY DEF SessionsKept
<1>1. CASE sessions'[u] = sessions[u]
  <2> DEFINE f == [i \in DOMAIN sessions[u] |-> i]
  <2>1. \A i \in DOMAIN sessions[u] : f[i] = i
    OBVIOUS
  <2> HIDE DEF f
  <2> QED
    BY <1>1, <2>1
<1>2. CASE Thinner(u)
  <2>1. PICK f \in [DOMAIN sessions'[u] -> DOMAIN sessions[u]] :
          /\ \A i, j \in DOMAIN sessions'[u] : f[i] = f[j] => i = j
          /\ \A i \in DOMAIN sessions'[u] : sessions'[u][i].from = sessions[u][f[i]].from
    BY <1>2 DEF Thinner
  <2>2. \A i \in DOMAIN sessions'[u] : f[i] \in DOMAIN sessions[u]
    BY <2>1
  <2> QED
    BY <2>1, <2>2
<1>3. ASSUME NEW v \in User, Thinner(v)
      PROVE  sessions'[u] = sessions[u] \/ Thinner(u)
  <2>1. CASE v = u
    BY <1>3, <2>1
  <2>2. CASE v # u
    BY <1>3, <2>2 DEF Thinner
  <2> QED
    BY <2>1, <2>2
<1> QED
  BY <1>1, <1>2, <1>3

\* A step that hands out no ticket, and uses none.
LEMMA OnceKept ==
  ASSUME TypeOK, Once, tickets' \subseteq tickets, issued' \in Nat, issued' >= issued,
         SessionsKept, \A w \in Worker : FromKept(w)
  PROVE  Once'
<1>1. issued \in Nat /\ \A t \in tickets : t.id \in Nat
  BY DEF TypeOK, Ticket
<1>2. \A w \in Worker : Busy(w) => task[w].from \in Nat
  BY TaskOf DEF Busy
<1>3. \A u \in User : \A i \in DOMAIN sessions[u] : sessions[u][i].from \in Nat
  BY SessionOf
<1>4. TicketsApart'
  BY <1>1 DEF Once, TicketsApart
<1>5. RequestsTook'
  BY <1>1, <1>2 DEF Once, RequestsTook, TicketsApart, FromKept, Busy
<1>6. RequestsApart'
  BY <1>2 DEF Once, RequestsApart, FromKept, Busy
<1>7. SessionsTook'
  <2> SUFFICES ASSUME NEW u \in User, NEW i \in DOMAIN sessions'[u]
               PROVE  /\ sessions'[u][i].from <= issued'
                      /\ sessions'[u][i].from # 0 =>
                           /\ \A t \in tickets' : t.id # sessions'[u][i].from
                           /\ \A j \in DOMAIN sessions'[u] :
                                sessions'[u][j].from = sessions'[u][i].from => i = j
    BY DEF SessionsTook
  <2>1. PICK f : \A k \in DOMAIN sessions'[u] :
          /\ f[k] \in DOMAIN sessions[u] /\ sessions'[u][k].from = sessions[u][f[k]].from
          /\ \A j \in DOMAIN sessions'[u] : f[k] = f[j] => k = j
    BY DEF SessionsKept
  <2>2. /\ sessions[u][f[i]].from <= issued /\ sessions[u][f[i]].from \in Nat
        /\ sessions[u][f[i]].from # 0 =>
             /\ \A t \in tickets : t.id # sessions[u][f[i]].from
             /\ \A j \in DOMAIN sessions[u] :
                  sessions[u][j].from = sessions[u][f[i]].from => f[i] = j
    BY <1>3, <2>1 DEF Once, SessionsTook
  <2>3. sessions'[u][i].from = sessions[u][f[i]].from
    BY <2>1
  <2>4. sessions'[u][i].from <= issued'
    BY <1>1, <2>2, <2>3
  <2>5. ASSUME sessions'[u][i].from # 0, NEW j \in DOMAIN sessions'[u],
               sessions'[u][j].from = sessions'[u][i].from
        PROVE  i = j
    BY <2>1, <2>2, <2>3, <2>5
  <2> QED
    BY <2>2, <2>3, <2>4, <2>5
<1>8. RequestsAndSessions'
  <2> SUFFICES ASSUME NEW w \in Worker, Busy(w)', task'[w].from # 0,
                      NEW u \in User, NEW i \in DOMAIN sessions'[u]
               PROVE  sessions'[u][i].from # task'[w].from
    BY DEF RequestsAndSessions
  <2>1. Busy(w) /\ task'[w].from = task[w].from
    BY DEF FromKept, Busy
  <2>2. \E k \in DOMAIN sessions[u] : sessions'[u][i].from = sessions[u][k].from
    BY DEF SessionsKept
  <2> QED
    BY <2>1, <2>2 DEF Once, RequestsAndSessions
<1> QED
  BY <1>4, <1>5, <1>6, <1>7, <1>8 DEF Once

LEMMA MoveKeeps ==
  ASSUME NEW w \in Worker, NEW u, NEW p, NEW q, Move(w, u, p, q),
         q = None \/ task'[w].from = 0 \/ (p # None /\ task'[w].from = task[w].from)
  PROVE  \A v \in Worker : FromKept(v)
BY DEF Move, Turns, FromKept, At

LEMMA AsideKeeps ==
  ASSUME Aside
  PROVE  \A w \in Worker : FromKept(w)
<1>1. CASE task' = task
  BY <1>1 DEF FromKept
<1>2. CASE \E w \in Worker : Elsewhere(w)
  <2>1. PICK w \in Worker : Elsewhere(w)
    BY <1>2
  <2>2. Turns(w)
    BY <2>1 DEF Elsewhere, Move
  <2> QED
    BY <2>1, <2>2 DEF Elsewhere, Turns, FromKept
<1> QED
  BY <1>1, <1>2 DEF Aside

\* A ticket is handed out, in the place of the user's earlier one.
LEMMA OnceIssued ==
  ASSUME TypeOK, Once, NEW w \in Worker, IssueTicket(w), \A v \in Worker : FromKept(v)
  PROVE  Once'
<1>1. PICK x \in User : x = task[w].user
  BY TaskOf DEF IssueTicket, PasswordRight, Runs
<1> DEFINE others == {t \in tickets : t.user # x}
           new == [id |-> issued', user |-> x, pw |-> task[w].row.pw]
<1>2. issued' = issued + 1 /\ issued \in Nat /\ sessions' = sessions
      /\ \A t \in tickets : t.id \in Nat
  BY DEF IssueTicket, PasswordRight, TypeOK, Ticket
<1>3. tickets' = others \/ tickets' = others \cup {new}
  BY <1>1 DEF IssueTicket
<1>4. CASE tickets' = others
  <2>1. SessionsKept
    BY <1>2, KeptSessions
  <2> QED
    BY <1>2, <1>4, <2>1, OnceKept
<1>5. CASE tickets' = others \cup {new}
  <2>1. new.id = issued + 1 /\ new.user = x
    BY <1>2
  <2>2. \A t \in others : t \in tickets /\ t.user # x
    OBVIOUS
  <2> HIDE DEF new, others
  <2>3. \A t \in tickets' : t = new \/ (t \in tickets /\ t.user # x)
    BY <1>5, <2>2
  <2>4. \A v \in Worker : Busy(v) => task[v].from \in Nat
    BY TaskOf DEF Busy
  <2>5. \A u \in User : \A i \in DOMAIN sessions[u] : sessions[u][i].from \in Nat
    BY SessionOf
  <2>6. TicketsApart'
    <3> SUFFICES ASSUME NEW t \in tickets', NEW v \in tickets'
                 PROVE  t.id \in 1..issued' /\ (t.id = v.id \/ t.user = v.user => t = v)
      BY DEF TicketsApart
    <3>1. \A s \in tickets : s.id \in 1..issued
      BY DEF Once, TicketsApart
    <3>2. CASE t = new /\ v = new
      BY <1>2, <2>1, <3>2
    <3>3. CASE t = new /\ v # new
      BY <1>2, <2>1, <2>3, <3>1, <3>3
    <3>4. CASE t # new /\ v = new
      BY <1>2, <2>1, <2>3, <3>1, <3>4
    <3>5. CASE t # new /\ v # new
      BY <1>2, <2>3, <3>1, <3>5 DEF Once, TicketsApart
    <3> QED
      BY <3>2, <3>3, <3>4, <3>5
  <2>7. RequestsTook'
    <3> SUFFICES ASSUME NEW v \in Worker, Busy(v)'
                 PROVE  task'[v].from <= issued' /\ \A t \in tickets' : task'[v].from # t.id
      BY DEF RequestsTook
    <3>1. CASE task'[v].from = 0
      BY <1>2, <2>1, <2>3, <3>1 DEF Once, TicketsApart
    <3>2. CASE Busy(v) /\ task'[v].from = task[v].from
      BY <1>2, <2>1, <2>3, <2>4, <3>2 DEF Once, RequestsTook
    <3> QED
      BY <3>1, <3>2 DEF FromKept, Busy
  <2>8. RequestsApart'
    BY <2>4 DEF Once, RequestsApart, FromKept, Busy
  <2>9. SessionsTook'
    <3> SUFFICES ASSUME NEW u \in User, NEW i \in DOMAIN sessions[u]
                 PROVE  /\ sessions[u][i].from <= issued'
                        /\ sessions[u][i].from # 0 =>
                             /\ \A t \in tickets' : t.id # sessions[u][i].from
                             /\ \A j \in DOMAIN sessions[u] :
                                  sessions[u][j].from = sessions[u][i].from => i = j
      BY <1>2 DEF SessionsTook
    <3>1. sessions[u][i].from \in Nat /\ sessions[u][i].from <= issued
      BY <2>5 DEF Once, SessionsTook
    <3>2. ASSUME sessions[u][i].from # 0, NEW t \in tickets'
          PROVE  t.id # sessions[u][i].from
      BY <1>2, <2>1, <2>3, <3>1, <3>2 DEF Once, SessionsTook
    <3> QED
      BY <1>2, <3>1, <3>2 DEF Once, SessionsTook
  <2>10. RequestsAndSessions'
    BY <1>2 DEF Once, RequestsAndSessions, FromKept, Busy
  <2> QED
    BY <2>6, <2>7, <2>8, <2>9, <2>10 DEF Once
<1> QED
  BY <1>3, <1>4, <1>5

\* A request takes a ticket out of the map.
LEMMA OnceTaken ==
  ASSUME TypeOK, Once, NEW w \in Worker, NEW t \in tickets, NEW u,
         Move(w, u, None, <<"code">>), task'[w].from = t.id,
         tickets' = tickets \ {t}, issued' = issued, sessions' = sessions
  PROVE  Once'
<1>1. issued \in Nat /\ \A s \in tickets : s.id \in 1..issued
  BY DEF TypeOK, Once, TicketsApart
<1>2. \A v \in Worker : v # w => (Busy(v)' <=> Busy(v)) /\ task'[v] = task[v]
  BY DEF Move, Turns, Busy
<1>3. \A s \in tickets' : s \in tickets /\ s.id # t.id
  BY DEF Once, TicketsApart
<1>4. TicketsApart'
  BY <1>1 DEF Once, TicketsApart
<1>5. RequestsTook'
  BY <1>1, <1>2, <1>3 DEF Once, RequestsTook
<1>6. RequestsApart'
  BY <1>1, <1>2 DEF Once, RequestsApart, RequestsTook
<1>7. SessionsTook'
  BY <1>3 DEF Once, SessionsTook
<1>8. RequestsAndSessions'
  BY <1>1, <1>2 DEF Once, RequestsAndSessions, SessionsTook
<1> QED
  BY <1>4, <1>5, <1>6, <1>7, <1>8 DEF Once

\* What stems from a ticket passes from the request to its session.
LEMMA OnceSpent ==
  ASSUME TypeOK, Once, NEW w \in Worker, task[w] # Idle, NEW x \in User, x = task[w].user,
         Move(w, x, SignIn, <<"count">>), task'[w].from = 0,
         NEW r \in Session, r.from = task[w].from,
         sessions' = [sessions EXCEPT ![x] = Append(@, r)],
         tickets' = tickets, issued' = issued
  PROVE  Once'
<1>1. issued \in Nat /\ \A s \in tickets : s.id \in 1..issued
  BY DEF TypeOK, Once, TicketsApart
<1>2. \A v \in Worker : v # w => (Busy(v)' <=> Busy(v)) /\ task'[v] = task[v]
  BY DEF Move, Turns, Busy
<1>3. Busy(w)
  BY DEF Busy
<1> DEFINE n == Len(sessions[x])
<1>4. /\ sessions[x] \in Seq(Session) /\ n \in Nat /\ DOMAIN sessions[x] = 1..n
      /\ sessions \in [User -> Seq(Session)]
  BY SessionOf DEF TypeOK
<1>5. /\ sessions'[x] = Append(sessions[x], r)
      /\ \A u \in User : u # x => sessions'[u] = sessions[u]
  BY <1>4
<1>6. /\ DOMAIN sessions'[x] = 1..(n + 1) /\ sessions'[x][n + 1] = r
      /\ \A i \in 1..n : sessions'[x][i] = sessions[x][i]
  BY <1>4, <1>5
<1> HIDE DEF n
<1>7. \A i \in DOMAIN sessions'[x] : i = n + 1 \/ (i # n + 1 /\ i \in DOMAIN sessions[x])
  BY <1>4, <1>6
<1>8. TicketsApart'
  BY DEF Once, TicketsApart
<1>9. RequestsTook'
  BY <1>1, <1>2 DEF Once, RequestsTook
<1>10. RequestsApart'
  BY <1>2 DEF Once, RequestsApart
<1>11. r.from <= issued /\ \A t \in tickets : r.from # t.id
  BY <1>3 DEF Once, RequestsTook
<1>12. r.from # 0 => \A u \in User : \A i \in DOMAIN sessions[u] : sessions[u][i].from # r.from
  BY <1>3 DEF Once, RequestsAndSessions
<1>13. SessionsTook'
  <2> SUFFICES ASSUME NEW u \in User, NEW i \in DOMAIN sessions'[u]
               PROVE  /\ sessions'[u][i].from <= issued
                      /\ sessions'[u][i].from # 0 =>
                           /\ \A t \in tickets : t.id # sessions'[u][i].from
                           /\ \A j \in DOMAIN sessions'[u] :
                                sessions'[u][j].from = sessions'[u][i].from => i = j
    BY DEF SessionsTook
  <2>1. CASE u # x
    BY <1>5, <2>1 DEF Once, SessionsTook
  <2>2. CASE u = x /\ i = n + 1
    BY <1>4, <1>6, <1>7, <1>11, <1>12, <2>2
  <2>3. CASE u = x /\ i # n + 1
    <3>1. i \in DOMAIN sessions[x] /\ sessions'[x][i] = sessions[x][i]
      BY <1>4, <1>6, <1>7, <2>3
    <3>2. /\ sessions[x][i].from <= issued
          /\ sessions[x][i].from # 0 =>
               /\ \A t \in tickets : t.id # sessions[x][i].from
               /\ \A j \in DOMAIN sessions[x] :
                    sessions[x][j].from = sessions[x][i].from => i = j
      BY <3>1 DEF Once, SessionsTook
    <3>3. ASSUME sessions'[u][i].from # 0, NEW j \in DOMAIN sessions'[u],
                 sessions'[u][j].from = sessions'[u][i].from
          PROVE  i = j
      <4>1. j # n + 1
        BY <1>6, <1>12, <2>3, <3>1, <3>3
      <4>2. j \in DOMAIN sessions[x] /\ sessions'[x][j] = sessions[x][j]
        BY <1>4, <1>6, <1>7, <2>3, <3>3, <4>1
      <4> QED
        BY <2>3, <3>1, <3>2, <3>3, <4>2
    <3> QED
      BY <2>3, <3>1, <3>2, <3>3
  <2> QED
    BY <2>1, <2>2, <2>3
<1>14. RequestsAndSessions'
  <2> SUFFICES ASSUME NEW v \in Worker, Busy(v)', task'[v].from # 0,
                      NEW u \in User, NEW i \in DOMAIN sessions'[u]
               PROVE  sessions'[u][i].from # task'[v].from
    BY DEF RequestsAndSessions
  <2>1. v # w /\ Busy(v) /\ task'[v] = task[v]
    BY <1>2
  <2>2. CASE u = x /\ i = n + 1
    BY <1>3, <1>6, <2>1, <2>2 DEF Once, RequestsApart
  <2>3. CASE u = x /\ i # n + 1
    BY <1>4, <1>6, <1>7, <2>1, <2>3 DEF Once, RequestsAndSessions
  <2>4. CASE u # x
    BY <1>5, <2>1, <2>4 DEF Once, RequestsAndSessions
  <2> QED
    BY <2>2, <2>3, <2>4
<1> QED
  BY <1>8, <1>9, <1>10, <1>13, <1>14 DEF Once

LEMMA Trimming ==
  ASSUME NEW S, NEW s \in Seq(S), NEW k \in Nat, NEW n, n = Len(s),
         NEW r, r = SubSeq(s, k + 1, n)
  PROVE  /\ r \in Seq(S) /\ Len(r) <= Len(s)
         /\ \A i \in DOMAIN r : k + i \in DOMAIN s /\ r[i] = s[k + i]
<1>1. n \in Nat /\ DOMAIN s = 1..n
  BY LenProperties
<1>2. \A i \in (k + 1)..n : s[i] \in S
  BY <1>1, ElementOfSeq
<1>3. /\ r \in Seq(S) /\ Len(r) = IF k + 1 <= n THEN n - (k + 1) + 1 ELSE 0
      /\ \A i \in 1..(n - (k + 1) + 1) : r[i] = s[(k + 1) + i - 1]
  BY <1>1, <1>2, SubSeqProperties
<1>4. DOMAIN r = 1..Len(r) /\ Len(r) \in Nat
  BY <1>3, LenProperties
<1>5. CASE k + 1 <= n
  <2>1. Len(r) = n - k
    BY <1>1, <1>3, <1>5
  <2>2. ASSUME NEW i \in DOMAIN r
        PROVE  k + i \in DOMAIN s /\ r[i] = s[k + i]
    <3>1. i \in Nat /\ 1 <= i /\ i <= n - k
      BY <1>1, <1>4, <2>1
    <3>2. i \in 1..(n - (k + 1) + 1)
      BY <1>1, <3>1
    <3>3. (k + 1) + i - 1 = k + i /\ k + i \in 1..n
      BY <1>1, <3>1
    <3> QED
      BY <1>1, <1>3, <3>2, <3>3
  <2>3. Len(r) <= n
    BY <1>1, <2>1
  <2> QED
    BY <1>3, <2>2, <2>3
<1>6. CASE ~(k + 1 <= n)
  <2>1. Len(r) = 0
    BY <1>3, <1>6
  <2>2. Len(r) <= n /\ DOMAIN r = {}
    BY <1>1, <1>4, <2>1
  <2> QED
    BY <1>3, <2>2
<1> QED
  BY <1>5, <1>6

LEMMA TrimIsThinner ==
  ASSUME TypeOK, NEW u \in User, NEW k \in Nat,
         sessions' = [sessions EXCEPT ![u] = SubSeq(@, k + 1, Len(@))]
  PROVE  Thinner(u)
<1> DEFINE r == SubSeq(sessions[u], k + 1, Len(sessions[u]))
<1>1. sessions[u] \in Seq(Session) /\ sessions \in [User -> Seq(Session)]
      /\ sessions' = [sessions EXCEPT ![u] = r]
  BY DEF TypeOK
<1>2. /\ r \in Seq(Session) /\ Len(r) <= Len(sessions[u])
      /\ \A i \in DOMAIN r : k + i \in DOMAIN sessions[u] /\ r[i] = sessions[u][k + i]
  BY <1>1, Trimming
<1>3. DOMAIN r \subseteq Nat
  BY <1>2, LenProperties
<1> HIDE DEF r
<1>4. sessions' \in [User -> Seq(Session)] /\ sessions'[u] = r
      /\ \A v \in User : v # u => sessions'[v] = sessions[v]
  BY <1>1, <1>2
<1> DEFINE f == [i \in DOMAIN r |-> k + i]
<1>5. f \in [DOMAIN r -> DOMAIN sessions[u]] /\ \A i \in DOMAIN r : f[i] = k + i
  BY <1>2
<1>6. \A i, j \in DOMAIN r : f[i] = f[j] => i = j
  BY <1>3, <1>5
<1> HIDE DEF f
<1>7. \A i \in DOMAIN r : r[i] = sessions[u][f[i]]
  BY <1>2, <1>5
<1>8. /\ f \in [DOMAIN sessions'[u] -> DOMAIN sessions[u]]
      /\ Len(sessions'[u]) <= Len(sessions[u])
      /\ \A i, j \in DOMAIN sessions'[u] : f[i] = f[j] => i = j
      /\ \A i \in DOMAIN sessions'[u] : sessions'[u][i] = sessions[u][f[i]]
  BY <1>2, <1>4, <1>5, <1>6, <1>7
<1>9. \A i \in DOMAIN sessions'[u] :
        /\ sessions'[u][i].pw = sessions[u][f[i]].pw
        /\ sessions'[u][i].from = sessions[u][f[i]].from
        /\ sessions[u][f[i]].kept => sessions'[u][i].kept
  BY <1>8
<1> QED
  BY <1>4, <1>8, <1>9 DEF Thinner

LEMMA OnceStep ==
  ASSUME TypeOK, Programmed, Once, Next, issued' \in Nat
  PROVE  Once'
<1>1. CASE Aside
  <2>1. SessionsKept
    BY <1>1, KeptSessions DEF Aside
  <2>2. issued' >= issued
    BY <1>1 DEF Aside, TypeOK
  <2> QED
    BY <1>1, <2>1, <2>2, AsideKeeps, OnceKept DEF Aside
<1>2. issued \in Nat
  BY DEF TypeOK
<1>3. ASSUME sessions' = sessions, tickets' = tickets, issued' \in {issued, issued + 1},
             \A v \in Worker : FromKept(v)
      PROVE  Once'
  <2>1. SessionsKept
    BY <1>3, KeptSessions
  <2>2. issued' >= issued
    BY <1>2, <1>3
  <2> QED
    BY <1>3, <2>1, <2>2, OnceKept
<1>4. ASSUME NEW w \in Worker, NEW u \in User, SignsIn(w, u)
      PROVE  Once'
  <2> DEFINE Kept == \A v \in Worker : FromKept(v)
  <2>1. \A v, p, q :
          (Move(w, v, p, q) /\ (q = None \/ task'[w].from = 0
                                \/ (p # None /\ task'[w].from = task[w].from))) => Kept
    BY MoveKeeps
  <2> HIDE DEF Kept
  <2>2. None \notin {<<"code">>, <<"consume">>}
    BY DEF None
  <2>3. CASE Register(w, u)
    <3>1. Kept
      BY <2>1, <2>2, <2>3, RegisterMoves
    <3> QED
      BY <1>3, <2>3, <3>1 DEF Register, Begin, Untracked, Kept
  <2>4. CASE Create(w)
    <3>1. Kept
      BY <2>1, <2>2, <2>4, CreateMoves
    <3> QED
      BY <1>3, <2>4, <3>1 DEF Create, Untracked, Kept
  <2>5. CASE Login(w, u)
    <3>1. Kept
      BY <2>1, <2>2, <2>5, LoginMoves
    <3> QED
      BY <1>3, <2>5, <3>1 DEF Login, Kept
  <2>6. CASE LoginFails(w)
    <3>1. Kept
      BY <2>1, <2>2, <2>6, LoginFailsMoves
    <3> QED
      BY <1>3, <2>6, <3>1 DEF LoginFails, Kept
  <2>7. CASE IssueToken(w)
    <3>1. Kept
      BY <2>1, <2>2, <2>7, IssueTokenMoves
    <3> QED
      BY <1>3, <2>7, <3>1 DEF IssueToken, PasswordRight, Kept
  <2>8. CASE CodeWrong(w)
    <3>1. Kept
      BY <2>1, <2>2, <2>8, CodeWrongMoves
    <3> QED
      BY <1>3, <2>8, <3>1 DEF CodeWrong, Kept
  <2>9. CASE TotpRight(w)
    <3>1. Kept
      BY <2>1, <2>2, <2>9, TotpRightMoves
    <3> QED
      BY <1>3, <2>9, <3>1 DEF TotpRight, Kept
  <2>10. CASE BackupCodeFound(w)
    <3>1. Kept
      BY <2>1, <2>2, <2>10, BackupCodeMoves
    <3> QED
      BY <1>3, <2>10, <3>1 DEF BackupCodeFound, Kept
  <2>11. CASE ConsumeCode(w)
    <3>1. Kept
      BY <2>1, <2>2, <2>11, ConsumeMoves
    <3> QED
      BY <1>3, <2>11, <3>1 DEF ConsumeCode, Kept
  <2>12. CASE CountSessions(w)
    <3>1. Kept
      BY <2>1, <2>2, <2>12, CountMoves
    <3> QED
      BY <1>3, <2>12, <3>1 DEF CountSessions, Untracked, Kept
  <2>13. CASE IssueTicket(w)
    <3>1. Kept
      BY <2>1, <2>13, IssueTicketMoves
    <3> QED
      BY <2>13, <3>1, OnceIssued DEF Kept
  <2>14. CASE InsertToken(w)
    <3>1. PICK x \in User : x = task[w].user
      BY <2>14, InsertMoves, TaskOf
    <3> DEFINE r == [id |-> task[w].key, pw |-> task[w].row.pw, from |-> task[w].from,
                     kept |-> task[w].row.pw # account[x].pw]
    <3>2. r \in Session /\ r.from = task[w].from
      BY <2>14, InsertMoves, TaskOf DEF Session
    <3>3. tickets' = tickets /\ issued' = issued /\ task[w] # Idle
      BY <2>14, InsertMoves DEF InsertToken
    <3>4. CASE Move(w, x, SignIn, None) /\ sessions' = sessions
      <4>1. Kept
        BY <2>1, <3>4
      <4> QED
        BY <1>3, <3>3, <3>4, <4>1 DEF Kept
    <3>5. CASE /\ Move(w, x, SignIn, <<"count">>) /\ task'[w].from = 0
               /\ sessions' = [sessions EXCEPT ![x] = Append(@, r)]
      <4> HIDE DEF r
      <4> QED
        BY <3>1, <3>2, <3>3, <3>5, OnceSpent
    <3> QED
      BY <2>14, <3>1, <3>4, <3>5, InsertMoves
  <2>15. CASE TrimSessions(w)
    <3>1. PICK x \in User : x = task[w].user /\ task[w].key \in Nat
      BY <2>15, TrimMoves, TaskOf
    <3>2. Kept
      BY <2>1, <2>15, TrimMoves
    <3>3. Thinner(x)
      BY <2>15, <3>1, TrimIsThinner DEF TrimSessions
    <3>4. SessionsKept
      BY <3>3, KeptSessions
    <3>5. tickets' = tickets /\ issued' = issued /\ issued' >= issued
      BY <1>2, <2>15 DEF TrimSessions
    <3> QED
      BY <3>2, <3>4, <3>5, OnceKept DEF Kept
  <2>16. CASE \E t \in tickets : t.user = u /\ RedeemTicket(w, t)
    <3>1. PICK t \in tickets : RedeemTicket(w, t)
      BY <2>16
    <3>2. tickets' = tickets \ {t} /\ issued' = issued /\ sessions' = sessions
      BY <3>1 DEF RedeemTicket, TicketsAfter
    <3>3. CASE task' = task
      <4>1. \A v \in Worker : FromKept(v)
        BY <3>3 DEF FromKept
      <4>2. SessionsKept /\ issued' >= issued
        BY <1>2, <3>2, KeptSessions
      <4> QED
        BY <1>2, <3>2, <4>1, <4>2, OnceKept
    <3>4. CASE Move(w, t.user, None, <<"code">>) /\ task'[w].from = t.id
      BY <3>2, <3>4, OnceTaken
    <3> QED
      BY <3>1, <3>3, <3>4, RedeemMoves
  <2> QED
    BY <1>4, <2>3, <2>4, <2>5, <2>6, <2>7, <2>8, <2>9, <2>10, <2>11, <2>12, <2>13, <2>14, <2>15,
       <2>16 DEF SignsIn
<1> QED
  BY <1>1, <1>4, SignInOrAside

-----------------------------------------------------------------------------
(* Types.                                                                   *)
Types ==
  /\ account \in [User -> Account] /\ codes \subseteq User
  /\ sessions \in [User -> Seq(Session)] /\ tickets \subseteq Ticket
  /\ Counted(failures) /\ Counted(attempts) /\ mixed \subseteq User

\* One account changes.
Changes(u, row) == account' = [account EXCEPT ![u] = row]

LEMMA ChangesTypes ==
  ASSUME TypeOK, NEW u \in User, NEW row \in Account, Changes(u, row)
  PROVE  /\ account' \in [User -> Account] /\ account'[u] = row
         /\ \A v \in User : v # u => account'[v] = account[v]
BY DEF TypeOK, Changes

LEMMA Rows ==
  ASSUME TypeOK, NEW u \in User
  PROVE  LET row == account[u] IN
         /\ row \in Account /\ row.pw \in Nat
         /\ [row EXCEPT !.pw = @ + 1] \in Account /\ [row EXCEPT !.secret = TRUE] \in Account
         /\ [row EXCEPT !.twofa = TRUE] \in Account
         /\ [row EXCEPT !.twofa = FALSE, !.secret = FALSE] \in Account
         /\ [row EXCEPT !.disabled = TRUE] \in Account
         /\ [row EXCEPT !.disabled = FALSE] \in Account
         /\ [NewAccount EXCEPT !.status = "live", !.pw = 1] \in Account
         /\ [NewAccount EXCEPT !.status = "gone"] \in Account
<1>1. account[u] \in Account
  BY DEF TypeOK
<1> DEFINE row == account[u]
<1>2. row \in Account
  BY <1>1
<1> HIDE DEF row
<1>3. row.pw \in Nat /\ [row EXCEPT !.pw = @ + 1] \in Account
  BY <1>2 DEF Account
<1>4. [row EXCEPT !.secret = TRUE] \in Account /\ [row EXCEPT !.twofa = TRUE] \in Account
      /\ [row EXCEPT !.disabled = TRUE] \in Account /\ [row EXCEPT !.disabled = FALSE] \in Account
  BY <1>2 DEF Account
<1>5. [row EXCEPT !.twofa = FALSE, !.secret = FALSE] \in Account
  BY <1>2 DEF Account
<1>6. [NewAccount EXCEPT !.status = "live", !.pw = 1] \in Account
  BY DEF Account, NewAccount
<1>7. [NewAccount EXCEPT !.status = "gone"] \in Account
  BY DEF Account, NewAccount
<1> QED
  BY <1>2, <1>3, <1>4, <1>5, <1>6, <1>7 DEF row

LEMMA TypesStep ==
  ASSUME TypeOK, Programmed, Next, issued' \in Nat
  PROVE  Types'
<1>1. Types
  BY DEF TypeOK, Types, Counted
<1>2. ASSUME NEW u \in User, NEW row \in Account, Changes(u, row)
      PROVE  account' \in [User -> Account]
  BY <1>2, ChangesTypes
<1>3. \A map, u : (Counted(map) /\ u \in User) =>
        Counted(Without(map, u)) /\ Counted(Reserved(map, u)) /\ Counted(Recorded(map, u))
  BY MapsCount
<1>4. ASSUME NEW w \in Worker, Execute(w)
      PROVE  Types'
  <2>1. task[w] # Idle
    BY <1>4 DEF Execute, Create, LoginFails, IssueToken, IssueTicket, PasswordRight,
       CodeWrong, TotpRight, ConsumeCode, InsertToken, CountSessions, TrimSessions, UpdateRow,
       DeleteTokens, DeleteCodes, InsertCodes, DeleteAccount, BackupCodeFound, Confirm, Runs
  <2>2. PICK x \in User : x = task[w].user
    BY <2>1, TaskOf
  <2>3. CASE Create(w)
    <3>1. account' = account \/ Changes(x, [NewAccount EXCEPT !.status = "live", !.pw = 1])
      BY <2>2, <2>3, CreateMoves DEF Changes
    <3>2. account' \in [User -> Account]
      BY <1>1, <1>2, <3>1, Rows DEF Types
    <3> QED
      BY <1>1, <2>3, <3>2 DEF Create, Types, Untracked
  <2>4. CASE LoginFails(w)
    BY <1>1, <1>3, <2>2, <2>4 DEF LoginFails, Types
  <2>5. CASE IssueToken(w)
    BY <1>1, <1>3, <2>2, <2>5 DEF IssueToken, PasswordRight, Types
  <2>6. CASE IssueTicket(w)
    <3> DEFINE new == [id |-> issued', user |-> task[w].user, pw |-> task[w].row.pw]
    <3>1. new \in Ticket
      BY <2>1, TaskOf DEF Ticket
    <3> HIDE DEF new
    <3>2. tickets' \subseteq tickets \cup {new}
      BY <2>6 DEF IssueTicket, new
    <3>3. tickets' \subseteq Ticket /\ Counted(failures')
      BY <1>1, <1>3, <2>2, <2>6, <3>1, <3>2 DEF IssueTicket, PasswordRight, Types
    <3> QED
      BY <1>1, <2>6, <3>3 DEF IssueTicket, PasswordRight, Types
  <2>7. CASE CodeWrong(w)
    BY <1>1, <1>3, <2>2, <2>7 DEF CodeWrong, Types
  <2>8. CASE TotpRight(w)
    BY <1>1, <1>3, <2>2, <2>8 DEF TotpRight, Types
  <2>9. CASE ConsumeCode(w)
    BY <1>1, <1>3, <2>2, <2>9 DEF ConsumeCode, Types
  <2>10. CASE InsertToken(w)
    <3> DEFINE r == [id |-> task[w].key, pw |-> task[w].row.pw, from |-> task[w].from,
                     kept |-> task[w].row.pw # account[x].pw]
    <3>1. r \in Session
      BY <2>1, TaskOf DEF Session
    <3> HIDE DEF r
    <3>2. sessions' = sessions \/ sessions' = [sessions EXCEPT ![x] = Append(@, r)]
      BY <2>2, <2>10, InsertMoves DEF r
    <3>3. sessions[x] \in Seq(Session)
      BY SessionOf
    <3>4. Append(sessions[x], r) \in Seq(Session)
      BY <3>1, <3>3
    <3>5. sessions' \in [User -> Seq(Session)]
      BY <1>1, <3>2, <3>4 DEF Types
    <3> QED
      BY <1>1, <2>10, <3>5 DEF InsertToken, Types, Untracked
  <2>11. CASE CountSessions(w)
    BY <1>1, <2>11 DEF CountSessions, Types, Untracked
  <2>12. CASE TrimSessions(w)
    <3>1. Thinner(x)
      BY <2>1, <2>2, <2>12, TrimIsThinner, TaskOf DEF TrimSessions
    <3> QED
      BY <1>1, <2>12, <3>1 DEF TrimSessions, Types, Untracked, Thinner
  <2>13. CASE UpdateRow(w)
    <3>1. account' \in [User -> Account]
      <4>1. ASSUME NEW name, NEW row \in Account, UpdateUser(w, name, row)
            PROVE  account' \in [User -> Account]
        BY <1>1, <1>2, <2>2, <4>1 DEF UpdateUser, Changes, Types
      <4> QED
        BY <2>2, <2>13, <4>1, Rows DEF UpdateRow
    <3> QED
      BY <1>1, <2>13, <3>1 DEF UpdateRow, UpdateUser, Types, Untracked
  <2>14. CASE DeleteTokens(w)
    BY <1>1, <2>14, TokensThin DEF DeleteTokens, Types, Untracked, Thinner
  <2>15. CASE DeleteCodes(w)
    BY <1>1, <2>15 DEF DeleteCodes, Types, Untracked
  <2>16. CASE InsertCodes(w)
    BY <1>1, <2>2, <2>16 DEF InsertCodes, Types, Untracked
  <2>17. CASE DeleteAccount(w)
    <3>1. Changes(x, [NewAccount EXCEPT !.status = "gone"])
          /\ sessions' = [sessions EXCEPT ![x] = <<>>]
      BY <2>2, <2>17 DEF DeleteAccount, Changes
    <3>2. account' \in [User -> Account] /\ sessions' \in [User -> Seq(Session)]
      BY <1>2, <3>1, Rows, EmptyIsThinner DEF Thinner
    <3> QED
      BY <1>1, <2>17, <3>2 DEF DeleteAccount, Types, Untracked
  <2>18. CASE BackupCodeFound(w)
    BY <1>1, <2>18 DEF BackupCodeFound, Types
  <2>19. CASE \E right \in BOOLEAN : Confirm(w, right)
    BY <1>1, <1>3, <2>2, <2>19 DEF Confirm, Types
  <2> QED
    BY <1>4, <2>3, <2>4, <2>5, <2>6, <2>7, <2>8, <2>9, <2>10, <2>11, <2>12, <2>13, <2>14,
       <2>15, <2>16, <2>17, <2>18, <2>19 DEF Execute
<1>5. ASSUME NEW w \in Worker, NEW u \in User, NEW todo, Note2FA(u, todo)
      PROVE  mixed' \subseteq User
  BY <1>1, <1>5 DEF Note2FA, Types
<1>6. ASSUME NEW w \in Worker, NEW u \in User, Register(w, u)
      PROVE  Types'
  BY <1>1, <1>5, <1>6 DEF Register, Begin, Types, Untracked
<1>7. ASSUME NEW w \in Worker, NEW u \in User, Login(w, u)
      PROVE  Types'
  BY <1>1, <1>3, <1>7 DEF Login, Types
<1>8. ASSUME NEW w \in Worker, NEW u \in User, NEW todo, NEW key, Handles(w, u, todo, key)
      PROVE  Types'
  <2>1. mixed' \subseteq User
    BY <1>5, <1>8 DEF Handles, Begin
  <2> QED
    BY <1>1, <1>3, <1>8, <2>1 DEF Handles, Begin, Types
<1>9. ASSUME NEW w \in Worker, NEW t \in tickets, RedeemTicket(w, t)
      PROVE  Types'
  <2>1. t.user \in User
    BY <1>1 DEF Types, Ticket
  <2>2. Counted(attempts')
    BY <1>1, <1>3, <1>9, <2>1 DEF RedeemTicket, Types
  <2> QED
    BY <1>1, <1>9, <2>2 DEF RedeemTicket, Types, TicketsAfter
<1>10. ASSUME NEW u \in User, EnableUser(u)
       PROVE  Types'
  <2>1. Changes(u, [account[u] EXCEPT !.disabled = FALSE])
    BY <1>10 DEF EnableUser, Changes
  <2>2. account' \in [User -> Account]
    BY <1>2, <2>1, Rows
  <2> QED
    BY <1>1, <1>10, <2>2 DEF EnableUser, Types, Untracked
<1>11. ASSUME NEW u \in User, WindowEnds(u)
       PROVE  Types'
  BY <1>1, <1>3, <1>11 DEF WindowEnds, Types
<1>12. ASSUME NEW u \in User, Thins(u)
       PROVE  Types'
  BY <1>1, <1>12 DEF Thins, Thinner, Types
<1>13. ASSUME NEW t \in tickets, TicketExpires(t)
       PROVE  Types'
  BY <1>1, <1>13 DEF TicketExpires, Types, Untracked
<1> QED
  BY <1>4, <1>6, <1>7, <1>8, <1>9, <1>10, <1>11, <1>12, <1>13, NextKinds

LEMMA TypeStep ==
  ASSUME TypeOK, Programmed, RoomKept, Next
  PROVE  TypeOK'
<1>1. issued' \in 0..MaxIssued
  BY RoomStep
<1>2. issued' \in Nat
  BY <1>1, BoundsAssumption
<1>3. Types'
  BY <1>2, TypesStep
<1>4. TaskTypes' /\ Programmed'
  BY ProgrammedStep
<1>5. \A w \in Worker : task'[w] # Idle => task'[w].todo # <<>>
  BY <1>4, ProgramTypes DEF Programmed
<1> QED
  BY <1>1, <1>3, <1>4, <1>5 DEF TypeOK, Types, TaskTypes, Counted

-----------------------------------------------------------------------------
(* Passwords: the sessions of the earlier ones.                             *)
Revokes(u) == \E w \in Worker : At(w, u) /\ Prog(w) \in Revoking
Sound(u, i) == sessions[u][i].pw = account[u].pw \/ sessions[u][i].kept \/ Revokes(u)
Revoked == \A u \in User : \A i \in DOMAIN sessions[u] : Sound(u, i)

LEMMA RevokedIs == Programmed => (OldSessionsEnd <=> Revoked)
<1> SUFFICES ASSUME Programmed
             PROVE  OldSessionsEnd <=> Revoked
  OBVIOUS
<1>1. \A w \in Worker :
        (task[w] # Idle /\ \E k \in DOMAIN task[w].todo : task[w].todo[k] \in {"others", "tokens"})
          <=> Prog(w) \in Revoking
  BY ProgramsSay
<1>2. \A u \in User :
        Revokes(u) <=>
          \E w \in Worker : task[w] # Idle /\ task[w].user = u
            /\ \E k \in DOMAIN task[w].todo : task[w].todo[k] \in {"others", "tokens"}
  BY <1>1 DEF Revokes, At
<1> QED
  BY <1>2 DEF OldSessionsEnd, Revoked, Sound

LEMMA RevokingPrograms ==
  /\ \A p \in Programs : (p \in Revoking /\ Head(p) \notin {"others", "tokens"}) =>
                           Tail(p) \in Revoking
  /\ \A p \in Starting["password"] : Tail(p) \in Revoking
  /\ \A p \in SignInPrograms : p \notin Revoking
  /\ None \notin Revoking /\ <<"delete">> \notin Revoking
<1>1. \A p \in Programs : (p \in Revoking /\ Head(p) \notin {"others", "tokens"}) =>
        p \in {<<"password", "others">>, <<"password", "tokens", "clear2fa", "codes">>,
               <<"disable", "tokens">>}
  BY DEF Revoking
<1>2. \A p \in {<<"password", "others">>, <<"password", "tokens", "clear2fa", "codes">>,
                <<"disable", "tokens">>} : Tail(p) \in Revoking
  BY Tails DEF Revoking
<1>3. \A p \in Starting["password"] : Tail(p) \in Revoking
  BY Tails DEF Starting, Revoking
<1>4. \A p \in SignInPrograms : p \notin Revoking
  BY DEF SignInPrograms, Revoking, PCreate, SignIn
<1>5. None \notin Revoking /\ <<"delete">> \notin Revoking
  BY DEF None, Revoking
<1> QED
  BY <1>1, <1>2, <1>3, <1>4, <1>5

LEMMA RevokesKept ==
  ASSUME NEW w \in Worker, NEW x, NEW p, NEW q, Move(w, x, p, q)
  PROVE  /\ \A u \in User : u # x => (Revokes(u) => Revokes(u)')
         /\ (p \in Revoking => q \in Revoking) => (Revokes(x) => Revokes(x)')
         /\ q \in Revoking => Revokes(x)'
<1>1. None \notin Revoking
  BY RevokingPrograms
<1>2. \A v \in Worker : v # w => \A u : (At(v, u)' <=> At(v, u)) /\ Prog(v)' = Prog(v)
  BY DEF Move, Turns, At, Prog
<1>3. Prog(w) = p /\ Prog(w)' = q /\ (q # None => At(w, x)') /\ (At(w, x)' => task'[w].user = x)
      /\ \A u : At(w, u) /\ p # None => u = x
  BY DEF Move, At
<1>4. ASSUME NEW u \in User, u # x, Revokes(u)
      PROVE  Revokes(u)'
  <2>1. PICK v \in Worker : At(v, u) /\ Prog(v) \in Revoking
    BY <1>4 DEF Revokes
  <2>2. v # w
    BY <1>1, <1>3, <1>4, <2>1
  <2> QED
    BY <1>2, <2>1, <2>2 DEF Revokes
<1>5. ASSUME p \in Revoking => q \in Revoking, Revokes(x)
      PROVE  Revokes(x)'
  <2>1. PICK v \in Worker : At(v, x) /\ Prog(v) \in Revoking
    BY <1>5 DEF Revokes
  <2>2. CASE v = w
    BY <1>1, <1>3, <1>5, <2>1, <2>2 DEF Revokes
  <2>3. CASE v # w
    BY <1>2, <2>1, <2>3 DEF Revokes
  <2> QED
    BY <2>2, <2>3
<1>6. q \in Revoking => Revokes(x)'
  BY <1>1, <1>3 DEF Revokes
<1> QED
  BY <1>4, <1>5, <1>6

\* The sessions of a user u: thinner or as they were.
SessionsThin(u) == sessions'[u] = sessions[u] \/ Thinner(u)

LEMMA ThinStaysSound ==
  ASSUME TypeOK, Revoked, NEW u \in User, SessionsThin(u),
         account'[u].pw = account[u].pw \/ Revokes(u)', Revokes(u) => Revokes(u)'
  PROVE  \A i \in DOMAIN sessions'[u] : Sound(u, i)'
<1> SUFFICES ASSUME NEW i \in DOMAIN sessions'[u], ~Revokes(u)'
             PROVE  sessions'[u][i].pw = account'[u].pw \/ sessions'[u][i].kept
  BY DEF Sound
<1>1. \A j \in DOMAIN sessions[u] : sessions[u][j].pw = account[u].pw \/ sessions[u][j].kept
  BY DEF Revoked, Sound
<1>2. CASE sessions'[u] = sessions[u]
  BY <1>1, <1>2
<1>3. CASE Thinner(u)
  <2>1. PICK f \in [DOMAIN sessions'[u] -> DOMAIN sessions[u]] :
          \A j \in DOMAIN sessions'[u] :
            /\ sessions'[u][j].pw = sessions[u][f[j]].pw
            /\ sessions[u][f[j]].kept => sessions'[u][j].kept
    BY <1>3 DEF Thinner
  <2>2. f[i] \in DOMAIN sessions[u]
    BY <2>1
  <2> QED
    BY <1>1, <2>1, <2>2
<1> QED
  BY <1>2, <1>3 DEF SessionsThin

LEMMA AllThin ==
  ASSUME TypeOK, sessions' = sessions \/ \E v \in User : Thinner(v)
  PROVE  \A u \in User : SessionsThin(u)
<1> SUFFICES ASSUME NEW u \in User
             PROVE  SessionsThin(u)
  OBVIOUS
<1>1. ASSUME NEW v \in User, Thinner(v)
      PROVE  SessionsThin(u)
  <2>1. CASE v = u
    BY <1>1, <2>1 DEF SessionsThin
  <2>2. CASE v # u
    BY <1>1, <2>2 DEF SessionsThin, Thinner
  <2> QED
    BY <2>1, <2>2
<1> QED
  BY <1>1 DEF SessionsThin

Bare(u) == sessions[u] = <<>> /\ u \notin codes /\ ~account[u].twofa /\ ~account[u].secret

LEMMA ThinStaysBare ==
  ASSUME TypeOK, NEW u \in User, SessionsThin(u), sessions[u] = <<>>
  PROVE  sessions'[u] = <<>>
<1>1. CASE sessions'[u] = sessions[u]
  BY <1>1
<1>2. CASE Thinner(u)
  <2>1. sessions'[u] \in Seq(Session) /\ Len(sessions'[u]) <= Len(sessions[u])
        /\ Len(sessions[u]) = 0
    BY <1>2 DEF Thinner
  <2>2. Len(sessions'[u]) = 0
    BY <2>1, LenProperties
  <2> QED
    BY <2>1, <2>2, EmptySeq
<1> QED
  BY <1>1, <1>2 DEF SessionsThin

\* A step that changes no account, and signs nobody in.
LEMMA AccountsKept ==
  ASSUME TypeOK, Revoked, GoneIsEmpty, account' = account, codes' \subseteq codes,
         sessions' = sessions \/ \E v \in User : Thinner(v),
         \A u \in User : Revokes(u) => Revokes(u)'
  PROVE  Revoked' /\ GoneIsEmpty'
<1>1. \A u \in User : SessionsThin(u)
  BY AllThin
<1>2. Revoked'
  BY <1>1, ThinStaysSound DEF Revoked
<1>3. GoneIsEmpty'
  BY <1>1, ThinStaysBare DEF GoneIsEmpty, Live
<1> QED
  BY <1>2, <1>3

\* A step that changes one account.
LEMMA AccountChanged ==
  ASSUME TypeOK, Revoked, GoneIsEmpty, NEW x \in User, NEW row \in Account, Changes(x, row),
         codes' \subseteq codes \cup {x}, sessions' = sessions \/ Thinner(x),
         \A u \in User : u # x => (Revokes(u) => Revokes(u)'),
         \/ sessions'[x] = <<>>
         \/ (row.pw = account[x].pw \/ Revokes(x)') /\ (Revokes(x) => Revokes(x)'),
         \/ row.status = "live"
         \/ sessions'[x] = <<>> /\ x \notin codes' /\ ~row.twofa /\ ~row.secret
  PROVE  Revoked' /\ GoneIsEmpty'
<1>1. account'[x] = row /\ \A u \in User : u # x => account'[u] = account[u]
  BY ChangesTypes
<1>2. \A u \in User : SessionsThin(u)
  BY AllThin
<1>3. ASSUME NEW u \in User
      PROVE  \A i \in DOMAIN sessions'[u] : Sound(u, i)'
  <2>1. CASE u # x
    BY <1>1, <1>2, <2>1, ThinStaysSound
  <2>2. CASE u = x /\ sessions'[x] # <<>>
    BY <1>1, <1>2, <2>2, ThinStaysSound
  <2>3. CASE u = x /\ sessions'[x] = <<>>
    <3>1. DOMAIN sessions'[u] = {}
      BY <2>3, EmptySeq
    <3> QED
      BY <3>1
  <2> QED
    BY <2>1, <2>2, <2>3
<1>4. ASSUME NEW u \in User, ~Live(u)'
      PROVE  Bare(u)'
  <2>1. CASE u # x
    <3>1. ~Live(u)
      BY <1>1, <1>4, <2>1 DEF Live
    <3>2. sessions'[u] = <<>>
      BY <1>2, <3>1, ThinStaysBare DEF GoneIsEmpty
    <3> QED
      BY <1>1, <2>1, <3>1, <3>2 DEF GoneIsEmpty, Bare
  <2>2. CASE u = x
    BY <1>1, <1>4, <2>2 DEF Live, Bare
  <2> QED
    BY <2>1, <2>2
<1> QED
  BY <1>3, <1>4 DEF Revoked, GoneIsEmpty, Bare

\* A session is inserted: its password is the account's, or the change overlaps.
LEMMA InsertedIsSound ==
  ASSUME TypeOK, Revoked, GoneIsEmpty, NEW x \in User, Live(x), account' = account,
         codes' = codes, NEW r \in Session, r.pw = account[x].pw \/ r.kept,
         sessions' = [sessions EXCEPT ![x] = Append(@, r)],
         \A u \in User : Revokes(u) => Revokes(u)'
  PROVE  Revoked' /\ GoneIsEmpty'
<1> DEFINE n == Len(sessions[x])
<1>1. /\ sessions[x] \in Seq(Session) /\ n \in Nat /\ DOMAIN sessions[x] = 1..n
      /\ sessions \in [User -> Seq(Session)]
  BY SessionOf DEF TypeOK
<1>2. /\ sessions'[x] = Append(sessions[x], r)
      /\ \A u \in User : u # x => sessions'[u] = sessions[u]
  BY <1>1
<1>3. /\ DOMAIN sessions'[x] = 1..(n + 1) /\ sessions'[x][n + 1] = r
      /\ \A i \in 1..n : sessions'[x][i] = sessions[x][i]
  BY <1>1, <1>2
<1> HIDE DEF n
<1>4. ASSUME NEW u \in User, NEW i \in DOMAIN sessions'[u]
      PROVE  Sound(u, i)'
  <2>1. CASE u # x
    BY <1>2, <2>1 DEF Revoked, Sound
  <2>2. CASE u = x /\ i = n + 1
    BY <1>3, <2>2 DEF Sound
  <2>3. CASE u = x /\ i # n + 1
    <3>1. i \in DOMAIN sessions[x] /\ sessions'[x][i] = sessions[x][i]
      BY <1>1, <1>3, <2>3
    <3> QED
      BY <2>3, <3>1 DEF Revoked, Sound
  <2> QED
    BY <2>1, <2>2, <2>3
<1>5. GoneIsEmpty'
  BY <1>2 DEF GoneIsEmpty, Live
<1> QED
  BY <1>4, <1>5 DEF Revoked

LEMMA StatementRevokes ==
  ASSUME TypeOK, Programmed, NEW w \in Worker, NEW name, Runs(w, name), Advance(w),
         NEW x, x = task[w].user
  PROVE  /\ \A u \in User : u # x => (Revokes(u) => Revokes(u)')
         /\ name \notin {"others", "tokens"} => (Revokes(x) => Revokes(x)')
         /\ name = "password" => Revokes(x)'
<1>1. /\ Prog(w) \in Programs /\ Prog(w) \in Starting[name] /\ Head(Prog(w)) = name
      /\ Move(w, x, Prog(w), Tail(Prog(w)))
  BY RunsMove, StatementMoves DEF Runs, Programmed
<1>2. PICK p : p = Prog(w)
  OBVIOUS
<1>3. Move(w, x, p, Tail(p)) /\ p \in Programs /\ p \in Starting[name] /\ Head(p) = name
  BY <1>1, <1>2
<1>4. name \notin {"others", "tokens"} => (p \in Revoking => Tail(p) \in Revoking)
  BY <1>3, RevokingPrograms
<1>5. name = "password" => Tail(p) \in Revoking
  BY <1>3, RevokingPrograms
<1> QED
  BY <1>3, <1>4, <1>5, RevokesKept

\* A row of the account x changes where its handler left it: its status stays.
LEMMA UpdateRevokes ==
  ASSUME TypeOK, Programmed, Revoked, GoneIsEmpty, NEW w \in Worker, NEW name,
         NEW row \in Account, name \notin {"others", "tokens"}, UpdateUser(w, name, row),
         row.status = account[task[w].user].status,
         row.pw = account[task[w].user].pw \/ name = "password"
  PROVE  Revoked' /\ GoneIsEmpty'
<1>1. PICK x \in User : x = task[w].user
  BY RunsMove, TaskOf DEF UpdateUser
<1>2. /\ \A u \in User : Revokes(u) => Revokes(u)'
      /\ name = "password" => Revokes(x)'
  BY <1>1, StatementRevokes DEF UpdateUser
<1>3. CASE Live(x)
  <2>1. Changes(x, row) /\ row.status = "live" /\ codes' = codes /\ sessions' = sessions
    BY <1>1, <1>3 DEF UpdateUser, Changes, Live
  <2>2. row.pw = account[x].pw \/ Revokes(x)'
    BY <1>1, <1>2
  <2> QED
    BY <1>2, <2>1, <2>2, AccountChanged
<1>4. CASE ~Live(x)
  BY <1>1, <1>2, <1>4, AccountsKept DEF UpdateUser
<1> QED
  BY <1>3, <1>4

\* Passwords and the sessions they opened; what an account leaves behind.
LEMMA RevokeStep ==
  ASSUME TypeOK, Programmed, Revoked, GoneIsEmpty, Next
  PROVE  Revoked' /\ GoneIsEmpty'
<1> DEFINE Goal == Revoked' /\ GoneIsEmpty'
           Kept == \A u \in User : Revokes(u) => Revokes(u)'
           Quiet == account' = account /\ codes' \subseteq codes
                    /\ (sessions' = sessions \/ \E v \in User : Thinner(v))
<1>1. Kept /\ Quiet => Goal
  BY AccountsKept
<1>2. task' = task => Kept
  BY DEF Revokes, At, Prog
<1>3. ASSUME NEW w \in Worker, NEW x, NEW p, NEW q, Move(w, x, p, q), p \notin Revoking
      PROVE  Kept
  BY <1>3, RevokesKept
<1>4. \A p \in SignInPrograms \cup {None} : p \notin Revoking
  BY RevokingPrograms
<1>5. /\ SignIn \in SignInPrograms /\ PCreate \in SignInPrograms /\ <<"decide">> \in SignInPrograms
      /\ <<"code">> \in SignInPrograms /\ <<"consume">> \in SignInPrograms
      /\ <<"count">> \in SignInPrograms /\ <<"trim">> \in SignInPrograms
  BY DEF SignInPrograms
<1> HIDE DEF Goal, Kept
<1>6. ASSUME NEW w \in Worker, NEW u \in User, SignsIn(w, u)
      PROVE  Goal
  <2>1. \A x, p, q : (Move(w, x, p, q) /\ p \notin Revoking) => Kept
    BY <1>3
  <2>2. CASE Register(w, u)
    <3>1. Kept
      BY <1>4, <1>5, <2>1, <2>2, RegisterMoves
    <3> QED
      BY <1>1, <2>2, <3>1 DEF Register, Begin, Untracked
  <2>3. CASE Login(w, u)
    <3>1. Kept
      BY <1>4, <1>5, <2>1, <2>3, LoginMoves
    <3> QED
      BY <1>1, <2>3, <3>1 DEF Login
  <2>4. CASE LoginFails(w)
    <3>1. Kept
      BY <1>4, <1>5, <2>1, <2>4, LoginFailsMoves
    <3> QED
      BY <1>1, <2>4, <3>1 DEF LoginFails
  <2>5. CASE IssueToken(w)
    <3>1. Kept
      BY <1>4, <1>5, <2>1, <2>5, IssueTokenMoves
    <3> QED
      BY <1>1, <2>5, <3>1 DEF IssueToken, PasswordRight
  <2>6. CASE IssueTicket(w)
    <3>1. Kept
      BY <1>4, <1>5, <2>1, <2>6, IssueTicketMoves
    <3> QED
      BY <1>1, <2>6, <3>1 DEF IssueTicket, PasswordRight
  <2>7. CASE CodeWrong(w)
    <3>1. Kept
      BY <1>4, <1>5, <2>1, <2>7, CodeWrongMoves
    <3> QED
      BY <1>1, <2>7, <3>1 DEF CodeWrong
  <2>8. CASE TotpRight(w)
    <3>1. Kept
      BY <1>4, <1>5, <2>1, <2>8, TotpRightMoves
    <3> QED
      BY <1>1, <2>8, <3>1 DEF TotpRight
  <2>9. CASE BackupCodeFound(w)
    <3>1. Kept
      BY <1>4, <1>5, <2>1, <2>9, BackupCodeMoves
    <3> QED
      BY <1>1, <2>9, <3>1 DEF BackupCodeFound
  <2>10. CASE ConsumeCode(w)
    <3>1. Kept
      BY <1>4, <1>5, <2>1, <2>10, ConsumeMoves
    <3> QED
      BY <1>1, <2>10, <3>1 DEF ConsumeCode
  <2>11. CASE CountSessions(w)
    <3>1. Kept
      BY <1>4, <1>5, <2>1, <2>11, CountMoves
    <3> QED
      BY <1>1, <2>11, <3>1 DEF CountSessions, Untracked
  <2>12. CASE TrimSessions(w)
    <3>1. Kept
      BY <1>4, <1>5, <2>1, <2>12, TrimMoves
    <3>2. task[w].user \in User /\ Thinner(task[w].user)
      BY <2>12, TrimMoves, TrimIsThinner, TaskOf DEF TrimSessions
    <3> QED
      BY <1>1, <2>12, <3>1, <3>2 DEF TrimSessions
  <2>13. CASE \E t \in tickets : t.user = u /\ RedeemTicket(w, t)
    <3>1. Kept
      BY <1>2, <1>4, <2>1, <2>13, RedeemMoves
    <3> QED
      BY <1>1, <2>13, <3>1 DEF RedeemTicket
  <2>14. CASE Create(w)
    <3>1. PICK x \in User : x = task[w].user
      BY <2>14, CreateMoves, TaskOf
    <3>2. Kept
      BY <1>4, <1>5, <2>1, <2>14, CreateMoves
    <3>3. CASE account' = account
      BY <1>1, <2>14, <3>2, <3>3 DEF Create
    <3>4. CASE /\ account[x].status = "none"
               /\ Changes(x, [NewAccount EXCEPT !.status = "live", !.pw = 1])
      <4> DEFINE row == [NewAccount EXCEPT !.status = "live", !.pw = 1]
      <4>1. row \in Account /\ row.status = "live"
        BY Rows DEF NewAccount
      <4>2. sessions[x] = <<>>
        BY <3>4 DEF GoneIsEmpty, Live
      <4>3. sessions' = sessions /\ codes' = codes
        BY <2>14 DEF Create
      <4> HIDE DEF row
      <4>4. Changes(x, row)
        BY <3>4 DEF row
      <4> QED
        BY <3>2, <4>1, <4>2, <4>3, <4>4, AccountChanged DEF Goal, Kept
    <3> QED
      BY <2>14, <3>1, <3>3, <3>4, CreateMoves DEF Changes
  <2>15. CASE InsertToken(w)
    <3>1. PICK x \in User : x = task[w].user
      BY <2>15, InsertMoves, TaskOf
    <3>2. Kept
      BY <1>4, <1>5, <2>1, <2>15, InsertMoves
    <3>3. account' = account /\ codes' = codes
      BY <2>15 DEF InsertToken
    <3> DEFINE r == [id |-> task[w].key, pw |-> task[w].row.pw, from |-> task[w].from,
                     kept |-> task[w].row.pw # account[x].pw]
    <3>4. r \in Session /\ (r.pw = account[x].pw \/ r.kept)
      BY <2>15, InsertMoves, TaskOf DEF Session
    <3> HIDE DEF r
    <3>5. CASE sessions' = sessions
      BY <1>1, <3>2, <3>3, <3>5
    <3>6. CASE Live(x) /\ sessions' = [sessions EXCEPT ![x] = Append(@, r)]
      BY <3>2, <3>3, <3>4, <3>6, InsertedIsSound DEF Goal, Kept
    <3> QED
      BY <2>15, <3>1, <3>5, <3>6, InsertMoves DEF r
  <2> QED
    BY <1>6, <2>2, <2>3, <2>4, <2>5, <2>6, <2>7, <2>8, <2>9, <2>10, <2>11, <2>12, <2>13, <2>14,
       <2>15 DEF SignsIn
<1>7. ASSUME NEW w \in Worker, UpdateRow(w)
      PROVE  Goal
  <2>1. PICK x \in User : x = task[w].user
    BY <1>7, TaskOf DEF UpdateRow
  <2>2. PICK row : row = account[x]
    OBVIOUS
  <2>3. /\ row \in Account /\ [row EXCEPT !.pw = @ + 1] \in Account
        /\ [row EXCEPT !.secret = TRUE] \in Account /\ [row EXCEPT !.twofa = TRUE] \in Account
        /\ [row EXCEPT !.twofa = FALSE, !.secret = FALSE] \in Account
        /\ [row EXCEPT !.disabled = TRUE] \in Account
    BY <2>2, Rows
  <2>4. \A name : \A r \in Account :
          (/\ name \notin {"others", "tokens"} /\ UpdateUser(w, name, r)
           /\ r.status = row.status /\ (r.pw = row.pw \/ name = "password")) => Goal
    BY <2>1, <2>2, UpdateRevokes DEF Goal
  <2>5. \/ UpdateUser(w, "password", [row EXCEPT !.pw = @ + 1])
        \/ UpdateUser(w, "secret", [row EXCEPT !.secret = TRUE])
        \/ UpdateUser(w, "enable", [row EXCEPT !.twofa = TRUE])
        \/ UpdateUser(w, "clear2fa", [row EXCEPT !.twofa = FALSE, !.secret = FALSE])
        \/ UpdateUser(w, "disable", [row EXCEPT !.disabled = TRUE])
    BY <1>7, <2>1, <2>2 DEF UpdateRow
  <2>6. /\ [row EXCEPT !.pw = @ + 1].status = row.status
        /\ [row EXCEPT !.secret = TRUE].status = row.status
        /\ [row EXCEPT !.secret = TRUE].pw = row.pw
        /\ [row EXCEPT !.twofa = TRUE].status = row.status
        /\ [row EXCEPT !.twofa = TRUE].pw = row.pw
        /\ [row EXCEPT !.twofa = FALSE, !.secret = FALSE].status = row.status
        /\ [row EXCEPT !.twofa = FALSE, !.secret = FALSE].pw = row.pw
        /\ [row EXCEPT !.disabled = TRUE].status = row.status
        /\ [row EXCEPT !.disabled = TRUE].pw = row.pw
    BY <2>3 DEF Account
  <2>7. CASE UpdateUser(w, "password", [row EXCEPT !.pw = @ + 1])
    <3> DEFINE r == [row EXCEPT !.pw = @ + 1]
    <3>1. r \in Account /\ r.status = row.status /\ (r.pw = row.pw \/ "password" = "password")
      BY <2>3, <2>6
    <3>2. UpdateUser(w, "password", r)
      BY <2>7
    <3> HIDE DEF r
    <3> QED
      BY <2>4, <3>1, <3>2
  <2>8. CASE UpdateUser(w, "secret", [row EXCEPT !.secret = TRUE])
    <3> DEFINE r == [row EXCEPT !.secret = TRUE]
    <3>1. r \in Account /\ r.status = row.status /\ (r.pw = row.pw \/ "secret" = "password")
      BY <2>3, <2>6
    <3>2. UpdateUser(w, "secret", r)
      BY <2>8
    <3> HIDE DEF r
    <3> QED
      BY <2>4, <3>1, <3>2
  <2>9. CASE UpdateUser(w, "enable", [row EXCEPT !.twofa = TRUE])
    <3> DEFINE r == [row EXCEPT !.twofa = TRUE]
    <3>1. r \in Account /\ r.status = row.status /\ (r.pw = row.pw \/ "enable" = "password")
      BY <2>3, <2>6
    <3>2. UpdateUser(w, "enable", r)
      BY <2>9
    <3> HIDE DEF r
    <3> QED
      BY <2>4, <3>1, <3>2
  <2>10. CASE UpdateUser(w, "clear2fa", [row EXCEPT !.twofa = FALSE, !.secret = FALSE])
    <3> DEFINE r == [row EXCEPT !.twofa = FALSE, !.secret = FALSE]
    <3>1. r \in Account /\ r.status = row.status /\ (r.pw = row.pw \/ "clear2fa" = "password")
      BY <2>3, <2>6
    <3>2. UpdateUser(w, "clear2fa", r)
      BY <2>10
    <3> HIDE DEF r
    <3> QED
      BY <2>4, <3>1, <3>2
  <2>11. CASE UpdateUser(w, "disable", [row EXCEPT !.disabled = TRUE])
    <3> DEFINE r == [row EXCEPT !.disabled = TRUE]
    <3>1. r \in Account /\ r.status = row.status /\ (r.pw = row.pw \/ "disable" = "password")
      BY <2>3, <2>6
    <3>2. UpdateUser(w, "disable", r)
      BY <2>11
    <3> HIDE DEF r
    <3> QED
      BY <2>4, <3>1, <3>2
  <2> QED
    BY <2>5, <2>7, <2>8, <2>9, <2>10, <2>11
<1>8. ASSUME NEW w \in Worker, DeleteTokens(w)
      PROVE  Goal
  <2>1. PICK x \in User : x = task[w].user /\ Thinner(x)
          /\ (sessions'[x] = <<>> \/ \A i \in DOMAIN sessions'[x] : sessions'[x][i].kept)
    BY <1>8, TokensThin
  <2>2. account' = account /\ codes' = codes
    BY <1>8 DEF DeleteTokens
  <2>3. \A u \in User : u # x => (Revokes(u) => Revokes(u)')
    BY <1>8, <2>1, StatementRevokes DEF DeleteTokens
  <2>4. \A u \in User : SessionsThin(u)
    BY <2>1, AllThin
  <2>5. ASSUME NEW u \in User
        PROVE  \A i \in DOMAIN sessions'[u] : Sound(u, i)'
    <3>1. CASE u # x
      BY <2>2, <2>3, <2>4, <3>1, ThinStaysSound
    <3>2. CASE u = x /\ sessions'[x] = <<>>
      <4>1. DOMAIN sessions'[u] = {}
        BY <3>2, EmptySeq
      <4> QED
        BY <4>1
    <3>3. CASE u = x /\ \A i \in DOMAIN sessions'[x] : sessions'[x][i].kept
      BY <3>3 DEF Sound
    <3> QED
      BY <2>1, <3>1, <3>2, <3>3
  <2>6. GoneIsEmpty'
    BY <2>2, <2>4, ThinStaysBare DEF GoneIsEmpty, Live
  <2> QED
    BY <2>5, <2>6 DEF Goal, Revoked
<1>9. ASSUME NEW w \in Worker, DeleteCodes(w)
      PROVE  Goal
  <2>1. Kept
    BY <1>9, StatementRevokes DEF DeleteCodes, Kept
  <2> QED
    BY <1>1, <1>9, <2>1 DEF DeleteCodes
<1>10. ASSUME NEW w \in Worker, InsertCodes(w)
       PROVE  Goal
  <2>1. PICK x \in User : x = task[w].user
    BY <1>10, RunsMove, TaskOf DEF InsertCodes
  <2>2. Kept
    BY <1>10, StatementRevokes DEF InsertCodes, Kept
  <2>3. CASE ~Live(x)
    BY <1>1, <1>10, <2>1, <2>2, <2>3 DEF InsertCodes
  <2>4. CASE Live(x)
    <3>1. account' = account /\ sessions' = sessions /\ codes' = codes \cup {x}
      BY <1>10, <2>1, <2>4 DEF InsertCodes
    <3>2. \A u \in User : SessionsThin(u)
      BY <3>1, AllThin
    <3>3. Revoked'
      BY <2>2, <3>1, <3>2, ThinStaysSound DEF Revoked, Kept
    <3>4. GoneIsEmpty'
      BY <2>4, <3>1 DEF GoneIsEmpty, Live
    <3> QED
      BY <3>3, <3>4 DEF Goal
  <2> QED
    BY <2>3, <2>4
<1>11. ASSUME NEW w \in Worker, DeleteAccount(w)
       PROVE  Goal
  <2>1. PICK x \in User : x = task[w].user
    BY <1>11, DeleteMoves, TaskOf
  <2>2. Kept
    BY <1>3, <1>11, DeleteMoves, RevokingPrograms
  <2> DEFINE row == [NewAccount EXCEPT !.status = "gone"]
  <2>3. row \in Account /\ ~row.twofa /\ ~row.secret
    BY Rows DEF NewAccount
  <2>4. Changes(x, row) /\ codes' = codes \ {x}
    BY <1>11, <2>1 DEF DeleteAccount, Changes
  <2>5. Thinner(x) /\ sessions'[x] = <<>>
    BY <1>11, <2>1, EmptyIsThinner DEF DeleteAccount
  <2> HIDE DEF row
  <2> QED
    BY <2>2, <2>3, <2>4, <2>5, AccountChanged DEF Goal, Kept
<1>12. ASSUME NEW w \in Worker, NEW right \in BOOLEAN, Confirm(w, right)
       PROVE  Goal
  <2>1. CASE Advance(w)
    <3>1. Kept
      BY <1>12, <2>1, StatementRevokes DEF Confirm, Kept
    <3> QED
      BY <1>1, <1>12, <3>1 DEF Confirm
  <2>2. CASE Finish(w)
    <3>1. task[w] # Idle /\ Prog(w) = task[w].todo /\ Prog(w) \in Starting["confirm"]
      BY <1>12, RunsMove DEF Confirm
    <3>2. Prog(w) \notin Revoking
      BY <3>1 DEF Starting, Revoking
    <3>3. Kept
      BY <1>3, <2>2, <3>1, <3>2, EndMoves
    <3> QED
      BY <1>1, <1>12, <3>3 DEF Confirm
  <2> QED
    BY <1>12, <2>1, <2>2 DEF Confirm
<1>13. ASSUME NEW w \in Worker, NEW u \in User, NEW todo \in HandlerPrograms, NEW key \in Nat,
              Handles(w, u, todo, key)
       PROVE  Goal
  <2>1. Kept
    BY <1>3, <1>13, HandleMoves, RevokingPrograms
  <2> QED
    BY <1>1, <1>13, <2>1 DEF Handles, Begin
<1>14. ASSUME NEW u \in User, EnableUser(u)
       PROVE  Goal
  <2> DEFINE row == [account[u] EXCEPT !.disabled = FALSE]
  <2>1. account[u] \in Account
    BY DEF TypeOK
  <2>2. row \in Account /\ row.pw = account[u].pw /\ row.status = "live"
    BY <1>14, <2>1 DEF Account, EnableUser, Live
  <2>3. Changes(u, row) /\ codes' = codes /\ sessions' = sessions /\ task' = task
    BY <1>14 DEF EnableUser, Changes
  <2>4. Kept
    BY <1>2, <2>3
  <2> HIDE DEF row
  <2> QED
    BY <2>2, <2>3, <2>4, AccountChanged DEF Goal, Kept
<1>15. ASSUME NEW u \in User, WindowEnds(u) \/ Thins(u)
       PROVE  Goal
  BY <1>1, <1>2, <1>15 DEF WindowEnds, Thins
<1>16. ASSUME NEW t \in tickets, TicketExpires(t)
       PROVE  Goal
  BY <1>1, <1>2, <1>16 DEF TicketExpires
<1>17. ASSUME NEW w \in Worker, Execute(w)
       PROVE  Goal
  <2>1. task[w] # Idle
    BY <1>17 DEF Execute, Create, LoginFails, IssueToken, IssueTicket, PasswordRight,
       CodeWrong, TotpRight, ConsumeCode, InsertToken, CountSessions, TrimSessions, UpdateRow,
       DeleteTokens, DeleteCodes, InsertCodes, DeleteAccount, BackupCodeFound, Confirm, Runs
  <2>2. PICK x \in User : x = task[w].user
    BY <2>1, TaskOf
  <2> QED
    BY <1>6, <1>7, <1>8, <1>9, <1>10, <1>11, <1>12, <1>17, <2>2 DEF Execute, SignsIn
<1>18. ASSUME NEW w \in Worker, NEW u \in User,
              \/ Register(w, u) \/ Login(w, u)
              \/ \E todo \in HandlerPrograms, key \in Nat : Handles(w, u, todo, key)
       PROVE  Goal
  BY <1>6, <1>13, <1>18 DEF SignsIn
<1>19. ASSUME NEW w \in Worker, NEW t \in tickets, RedeemTicket(w, t)
       PROVE  Goal
  BY <1>6, <1>19 DEF SignsIn, TypeOK, Ticket
<1> QED
  BY <1>14, <1>15, <1>16, <1>17, <1>18, <1>19, NextKinds DEF Goal

-----------------------------------------------------------------------------
(* The second factor: the requests on it.                                   *)
About(w, u) == At(w, u) /\ Prog(w) \in On2FAPrograms
\* For a user whose requests on 2FA have not overlapped.
Orderly(u) ==
  /\ \A v, w \in Worker : About(v, u) /\ About(w, u) => v = w
  /\ account[u].twofa => account[u].secret
  /\ (~account[u].twofa /\ u \in codes) => \E w \in Worker : At(w, u) /\ Prog(w) = <<"codes">>
  /\ Live(u) => \A w \in Worker : At(w, u) =>
       (Prog(w) \in Verifying => account[u].secret) /\ (Prog(w) \in Renewing => account[u].twofa)
Grounded == \A w \in Worker : Prog(w) \in On2FAPrograms => account[task[w].user].status # "none"
Ordered == Grounded /\ \A u \in User \ mixed : Orderly(u)

LEMMA TwoFactorPrograms ==
  /\ None \notin On2FAPrograms /\ None \notin Verifying /\ None \notin Renewing
        /\ None # <<"codes">>
  /\ \A p \in Verifying \cup Renewing \cup {<<"codes">>} : p \in On2FAPrograms
  /\ Verifying \cup Renewing \cup {<<"codes">>} \subseteq Programs
  /\ \A p \in SignInPrograms : p \notin On2FAPrograms
  /\ \A p \in Verifying : p \notin Renewing /\ p # <<"codes">>
  /\ <<"codes">> \notin Renewing
<1>1. None \notin On2FAPrograms /\ None \notin Verifying /\ None \notin Renewing
      /\ None # <<"codes">>
  BY DEF None, On2FAPrograms, Verifying, Renewing
<1>2. \A p \in Verifying \cup Renewing \cup {<<"codes">>} : p \in On2FAPrograms
  BY DEF On2FAPrograms
<1>3. Verifying \cup Renewing \cup {<<"codes">>} \subseteq Programs
  BY DEF Verifying, Renewing, Programs
<1>4. \A p \in SignInPrograms : p \notin On2FAPrograms
  BY DEF SignInPrograms, On2FAPrograms, Verifying, Renewing, PCreate, SignIn
<1>5. \A p \in Verifying : p \notin Renewing /\ p # <<"codes">>
  BY DEF Verifying, Renewing
<1>6. <<"codes">> \notin Renewing
  BY DEF Renewing
<1> QED
  BY <1>1, <1>2, <1>3, <1>4, <1>5, <1>6

LEMMA OrderedIs == Programmed => (TwoFactorSteps <=> Ordered)
<1> SUFFICES ASSUME Programmed
             PROVE  TwoFactorSteps <=> Ordered
  OBVIOUS
<1>1. \A w \in Worker : About2FA(task[w]) <=> Prog(w) \in On2FAPrograms
  BY ProgramsSay
<1>2. \A w \in Worker : \A programs \in SUBSET Programs : Todo(w, programs) <=> Prog(w) \in programs
  BY ProgramsSay
<1>3. \A w \in Worker :
        /\ Todo(w, {<<"codes">>}) <=> Prog(w) = <<"codes">>
        /\ Todo(w, {<<"confirm", "enable", "codes", "newcodes">>,
                    <<"enable", "codes", "newcodes">>}) <=> Prog(w) \in Verifying
        /\ Todo(w, {<<"codes", "newcodes">>, <<"newcodes">>}) <=> Prog(w) \in Renewing
  <2>1. {<<"codes">>} \in SUBSET Programs /\ Verifying \in SUBSET Programs
        /\ Renewing \in SUBSET Programs
    BY TwoFactorPrograms
  <2>2. \A w \in Worker : /\ Todo(w, {<<"codes">>}) <=> Prog(w) \in {<<"codes">>}
                          /\ Todo(w, Verifying) <=> Prog(w) \in Verifying
                          /\ Todo(w, Renewing) <=> Prog(w) \in Renewing
    BY <1>2, <2>1
  <2>3. Verifying = {<<"confirm", "enable", "codes", "newcodes">>,
                     <<"enable", "codes", "newcodes">>}
        /\ Renewing = {<<"codes", "newcodes">>, <<"newcodes">>}
    BY DEF Verifying, Renewing
  <2> QED
    BY <2>2, <2>3
<1>4. \A w \in Worker, u \in User : (Prog(w) \in On2FAPrograms /\ task[w].user = u) <=> About(w, u)
  <2>1. \A w \in Worker : Prog(w) \in On2FAPrograms => task[w] # Idle
    BY TwoFactorPrograms DEF Prog
  <2> QED
    BY <2>1 DEF About, At
<1>5. \A w \in Worker : Prog(w) = <<"codes">> => task[w] # Idle
  BY TwoFactorPrograms DEF Prog
<1>6. \A u \in User :
        Orderly(u) <=>
          /\ \A v, w \in Worker : (/\ About2FA(task[v]) /\ task[v].user = u
                                   /\ About2FA(task[w]) /\ task[w].user = u) => v = w
          /\ account[u].twofa => account[u].secret
          /\ (~account[u].twofa /\ u \in codes) =>
               \E w \in Worker : Todo(w, {<<"codes">>}) /\ task[w].user = u
          /\ \A w \in Worker : (task[w] # Idle /\ task[w].user = u /\ Live(u)) =>
               /\ Todo(w, {<<"confirm", "enable", "codes", "newcodes">>,
                           <<"enable", "codes", "newcodes">>}) => account[u].secret
               /\ Todo(w, {<<"codes", "newcodes">>, <<"newcodes">>}) => account[u].twofa
  <2> SUFFICES ASSUME NEW u \in User
               PROVE  Orderly(u) <=>
          /\ \A v, w \in Worker : (/\ About2FA(task[v]) /\ task[v].user = u
                                   /\ About2FA(task[w]) /\ task[w].user = u) => v = w
          /\ account[u].twofa => account[u].secret
          /\ (~account[u].twofa /\ u \in codes) =>
               \E w \in Worker : Todo(w, {<<"codes">>}) /\ task[w].user = u
          /\ \A w \in Worker : (task[w] # Idle /\ task[w].user = u /\ Live(u)) =>
               /\ Todo(w, {<<"confirm", "enable", "codes", "newcodes">>,
                           <<"enable", "codes", "newcodes">>}) => account[u].secret
               /\ Todo(w, {<<"codes", "newcodes">>, <<"newcodes">>}) => account[u].twofa
    OBVIOUS
  <2>1. \A w \in Worker : About(w, u) <=> (About2FA(task[w]) /\ task[w].user = u)
    BY <1>1, <1>4
  <2>2. \A w \in Worker : (At(w, u) /\ Prog(w) = <<"codes">>)
                            <=> (Todo(w, {<<"codes">>}) /\ task[w].user = u)
    BY <1>3, <1>5 DEF At
  <2>3. \A w \in Worker : At(w, u) <=> (task[w] # Idle /\ task[w].user = u)
    BY DEF At
  <2> QED
    BY <1>3, <2>1, <2>2, <2>3 DEF Orderly
<1> QED
  BY <1>1, <1>6 DEF TwoFactorSteps, Ordered, Grounded

\* The other users' requests and accounts are as they were.
LEMMA OthersOrderly ==
  ASSUME NEW w \in Worker, NEW x, NEW p, NEW q, Move(w, x, p, q), NEW u \in User, u # x,
         account'[u] = account[u], u \in codes' <=> u \in codes, Orderly(u)
  PROVE  Orderly(u)'
<1>1. \A v \in Worker : v # w => (At(v, u)' <=> At(v, u)) /\ Prog(v)' = Prog(v)
  BY DEF Move, Turns, At, Prog
<1>2. (At(w, u) => p = None) /\ (At(w, u)' => q = None) /\ Prog(w) = p /\ Prog(w)' = q
  BY DEF Move, At
<1>3. \A v \in Worker : (About(v, u)' <=> About(v, u)) /\ (About(v, u) => v # w)
  BY <1>1, <1>2, TwoFactorPrograms DEF About
<1>4. \A v \in Worker : (At(v, u) /\ Prog(v) = <<"codes">>) => (At(v, u) /\ Prog(v) = <<"codes">>)'
  BY <1>1, <1>2, TwoFactorPrograms
<1>5. ASSUME Live(u)', NEW v \in Worker, At(v, u)'
      PROVE  /\ Prog(v)' \in Verifying => account'[u].secret
             /\ Prog(v)' \in Renewing => account'[u].twofa
  <2>1. CASE v = w
    BY <1>2, <1>5, <2>1, TwoFactorPrograms
  <2>2. CASE v # w
    BY <1>1, <1>5, <2>2 DEF Orderly, Live
  <2> QED
    BY <2>1, <2>2
<1> QED
  BY <1>3, <1>4, <1>5 DEF Orderly

\* One user's request goes on; what is said of its account is to be shown.
LEMMA StaysOrderly ==
  ASSUME NEW w \in Worker, NEW x \in User, NEW p, NEW q, Move(w, x, p, q),
         \A v, y \in Worker : About(v, x) /\ About(y, x) => v = y,
         q \in On2FAPrograms => p \in On2FAPrograms \/ \A v \in Worker : ~About(v, x),
         account'[x].twofa => account'[x].secret,
         (~account'[x].twofa /\ x \in codes') =>
           \/ q = <<"codes">>
           \/ \E v \in Worker : At(v, x) /\ Prog(v) = <<"codes">> /\ v # w,
         Live(x)' =>
           /\ q \in Verifying => account'[x].secret
           /\ q \in Renewing => account'[x].twofa
           /\ \A v \in Worker : (v # w /\ At(v, x)) =>
                /\ Prog(v) \in Verifying => account'[x].secret
                /\ Prog(v) \in Renewing => account'[x].twofa
  PROVE  Orderly(x)'
<1>1. \A v \in Worker : v # w => (At(v, x)' <=> At(v, x)) /\ Prog(v)' = Prog(v)
  BY DEF Move, Turns, At, Prog
<1>2. (p # None => At(w, x)) /\ (q # None => At(w, x)') /\ Prog(w) = p /\ Prog(w)' = q
  BY DEF Move
<1>3. \A v, y \in Worker : About(v, x)' /\ About(y, x)' => v = y
  <2> SUFFICES ASSUME NEW v \in Worker, NEW y \in Worker, About(v, x)', About(y, x)'
               PROVE  v = y
    OBVIOUS
  <2>1. CASE v # w /\ y # w
    BY <1>1, <2>1 DEF About
  <2>2. CASE v = w /\ y # w
    <3>1. q \in On2FAPrograms /\ About(y, x)
      BY <1>1, <1>2, <2>2 DEF About
    <3>2. p \in On2FAPrograms
      BY <3>1
    <3>3. About(w, x)
      BY <1>2, <3>2, TwoFactorPrograms DEF About
    <3> QED
      BY <2>2, <3>1, <3>3
  <2>3. CASE v # w /\ y = w
    <3>1. q \in On2FAPrograms /\ About(v, x)
      BY <1>1, <1>2, <2>3 DEF About
    <3>2. p \in On2FAPrograms
      BY <3>1
    <3>3. About(w, x)
      BY <1>2, <3>2, TwoFactorPrograms DEF About
    <3> QED
      BY <2>3, <3>1, <3>3
  <2> QED
    BY <2>1, <2>2, <2>3
<1>4. ASSUME ~account'[x].twofa, x \in codes'
      PROVE  \E v \in Worker : At(v, x)' /\ Prog(v)' = <<"codes">>
  <2>1. CASE q = <<"codes">>
    BY <1>2, <2>1, TwoFactorPrograms
  <2>2. CASE \E v \in Worker : At(v, x) /\ Prog(v) = <<"codes">> /\ v # w
    BY <1>1, <2>2
  <2> QED
    BY <1>4, <2>1, <2>2
<1>5. ASSUME Live(x)', NEW v \in Worker, At(v, x)'
      PROVE  /\ Prog(v)' \in Verifying => account'[x].secret
             /\ Prog(v)' \in Renewing => account'[x].twofa
  <2>1. CASE v = w
    BY <1>2, <1>5, <2>1
  <2>2. CASE v # w
    BY <1>1, <1>5, <2>2
  <2> QED
    BY <2>1, <2>2
<1> QED
  BY <1>3, <1>4, <1>5 DEF Orderly

\* A request on 2FA stays one, and goes from verifying to renewing by enabling.
Descends(p) ==
  /\ Tail(p) \in On2FAPrograms => p \in On2FAPrograms
  /\ Tail(p) \in Verifying => p \in Verifying
  /\ Tail(p) \in Renewing => p \in Renewing \/ Head(p) = "enable"
  /\ p = <<"codes">> => Head(p) = "codes"

LEMMA FactorTails == \A p \in Programs : Descends(p)
<1>1. ASSUME NEW p \in Programs, Len(p) = 1
      PROVE  Descends(p)
  <2>1. Tail(p) = None
    BY <1>1, LastIsNone
  <2>2. p = <<"codes">> => Head(p) = "codes"
    OBVIOUS
  <2> QED
    BY <2>1, <2>2, TwoFactorPrograms DEF Descends
<1>2. Descends(<<"create", "insert", "count">>)
  <2>1. Tail(<<"create", "insert", "count">>) = <<"insert", "count">>
    BY Tails
  <2> QED
    BY <2>1 DEF Descends, On2FAPrograms, Verifying, Renewing
<1>3. Descends(<<"insert", "count">>)
  <2>1. Tail(<<"insert", "count">>) = <<"count">>
    BY Tails
  <2> QED
    BY <2>1 DEF Descends, On2FAPrograms, Verifying, Renewing
<1>4. Descends(<<"password", "others">>)
  <2>1. Tail(<<"password", "others">>) = <<"others">>
    BY Tails
  <2> QED
    BY <2>1 DEF Descends, On2FAPrograms, Verifying, Renewing
<1>5. Descends(<<"password", "tokens", "clear2fa", "codes">>)
  <2>1. Tail(<<"password", "tokens", "clear2fa", "codes">>) = <<"tokens", "clear2fa", "codes">>
    BY Tails
  <2> QED
    BY <2>1 DEF Descends, On2FAPrograms, Verifying, Renewing
<1>6. Descends(<<"tokens", "clear2fa", "codes">>)
  <2>1. Tail(<<"tokens", "clear2fa", "codes">>) = <<"clear2fa", "codes">>
    BY Tails
  <2> QED
    BY <2>1 DEF Descends, On2FAPrograms, Verifying, Renewing
<1>7. Descends(<<"clear2fa", "codes">>)
  <2>1. Tail(<<"clear2fa", "codes">>) = <<"codes">>
    BY Tails
  <2> QED
    BY <2>1 DEF Descends, On2FAPrograms, Verifying, Renewing
<1>8. Descends(<<"confirm", "enable", "codes", "newcodes">>)
  <2>1. Tail(<<"confirm", "enable", "codes", "newcodes">>) = <<"enable", "codes", "newcodes">>
    BY Tails
  <2> QED
    BY <2>1 DEF Descends, On2FAPrograms, Verifying, Renewing
<1>9. Descends(<<"enable", "codes", "newcodes">>)
  <2>1. Tail(<<"enable", "codes", "newcodes">>) = <<"codes", "newcodes">>
    BY Tails
  <2> QED
    BY <2>1 DEF Descends, On2FAPrograms, Verifying, Renewing
<1>10. Descends(<<"codes", "newcodes">>)
  <2>1. Tail(<<"codes", "newcodes">>) = <<"newcodes">>
    BY Tails
  <2> QED
    BY <2>1 DEF Descends, On2FAPrograms, Verifying, Renewing
<1>11. Descends(<<"disable", "tokens">>)
  <2>1. Tail(<<"disable", "tokens">>) = <<"tokens">>
    BY Tails
  <2> QED
    BY <2>1 DEF Descends, On2FAPrograms, Verifying, Renewing
<1>12. \A p \in Programs : Len(p) = 1 \/ p \in {<<"create", "insert", "count">>,
      <<"insert", "count">>, <<"password", "others">>,
      <<"password", "tokens", "clear2fa", "codes">>, <<"tokens", "clear2fa", "codes">>,
      <<"clear2fa", "codes">>, <<"confirm", "enable", "codes", "newcodes">>,
      <<"enable", "codes", "newcodes">>, <<"codes", "newcodes">>,
         <<"disable", "tokens">>}
  BY Singles DEF Programs
<1> QED
  BY <1>1, <1>2, <1>3, <1>4, <1>5, <1>6, <1>7, <1>8, <1>9, <1>10, <1>11, <1>12

\* The account of the user x may change, and its row of backup codes.
OnlyOf(x) ==
  \A u \in User : u # x => account'[u] = account[u] /\ (u \in codes' <=> u \in codes)

LEMMA OrderedBy ==
  ASSUME TypeOK, Ordered, NEW w \in Worker, NEW x \in User, NEW p, NEW q, Move(w, x, p, q),
        OnlyOf(x),
         mixed \subseteq mixed',
         account[x].status # "none" => account'[x].status # "none",
         q \in On2FAPrograms => account'[x].status # "none",
         x \notin mixed' => Orderly(x)'
  PROVE  Ordered'
<1>1. \A v \in Worker : v # w => task'[v] = task[v] /\ Prog(v)' = Prog(v)
  BY DEF Move, Turns, Prog
<1>2. Prog(w)' = q /\ (q # None => task'[w].user = x)
  BY DEF Move, At
<1>3. \A u : account[u].status # "none" /\ u \in User => account'[u].status # "none"
  BY DEF OnlyOf
<1>4. \A v \in Worker : Prog(v) \in On2FAPrograms => account[task[v].user].status # "none"
  BY DEF Ordered, Grounded
<1>5. ASSUME NEW v \in Worker, Prog(v)' \in On2FAPrograms
      PROVE  account'[task'[v].user].status # "none"
  <2>1. CASE v = w
    BY <1>2, <1>5, <2>1, TwoFactorPrograms
  <2>2. CASE v # w
    <3>1. task[v] # Idle
      BY <1>1, <1>5, <2>2, TwoFactorPrograms DEF Prog
    <3>2. task[v].user \in User
      BY <3>1, TaskOf
    <3> QED
      BY <1>1, <1>3, <1>4, <1>5, <2>2, <3>2
  <2> QED
    BY <2>1, <2>2
<1>6. ASSUME NEW u \in User, u \notin mixed'
      PROVE  Orderly(u)'
  <2>1. CASE u = x
    BY <1>6, <2>1
  <2>2. CASE u # x
    BY <1>6, <2>2, OthersOrderly DEF Ordered, OnlyOf
  <2> QED
    BY <2>1, <2>2
<1> QED
  BY <1>5, <1>6 DEF Ordered, Grounded

\* What a program may become while 2FA is as it was.
Quietly(p, q) ==
  /\ q \in On2FAPrograms => p \in On2FAPrograms
  /\ q \in Verifying => p \in Verifying
  /\ q \in Renewing => p \in Renewing

SameFactor(u) ==
  /\ account'[u].twofa = account[u].twofa /\ account'[u].secret = account[u].secret
  /\ account'[u].status = account[u].status

LEMMA QuietOrdered ==
  ASSUME TypeOK, Ordered, NEW w \in Worker, NEW x \in User, NEW p, NEW q, Move(w, x, p, q),
         OnlyOf(x), mixed' = mixed, SameFactor(x), Quietly(p, q),
         x \in codes' => x \in codes,
         p = <<"codes">> => q = <<"codes">> \/ x \notin codes'
  PROVE  Ordered'
<1>1. Prog(w) = p /\ (p # None => At(w, x))
  BY DEF Move
<1>2. ASSUME q \in On2FAPrograms
      PROVE  account'[x].status # "none"
  <2>1. p \in On2FAPrograms /\ p # None
    BY <1>2, TwoFactorPrograms DEF Quietly
  <2> QED
    BY <1>1, <2>1 DEF Ordered, Grounded, SameFactor, At
<1>3. ASSUME x \notin mixed'
      PROVE  Orderly(x)'
  <2>1. Orderly(x)
    BY <1>3 DEF Ordered
  <2>2. \A v, y \in Worker : About(v, x) /\ About(y, x) => v = y
    BY <2>1 DEF Orderly
  <2>3. account'[x].twofa => account'[x].secret
    BY <2>1 DEF Orderly, SameFactor
  <2>4. ASSUME ~account'[x].twofa, x \in codes'
        PROVE  \/ q = <<"codes">>
               \/ \E v \in Worker : At(v, x) /\ Prog(v) = <<"codes">> /\ v # w
    <3>1. PICK v \in Worker : At(v, x) /\ Prog(v) = <<"codes">>
      BY <2>1, <2>4 DEF Orderly, SameFactor
    <3>2. CASE v = w
      BY <1>1, <2>4, <3>1, <3>2
    <3> QED
      BY <3>1, <3>2
  <2>5. ASSUME Live(x)'
        PROVE  /\ q \in Verifying => account'[x].secret
               /\ q \in Renewing => account'[x].twofa
               /\ \A v \in Worker : (v # w /\ At(v, x)) =>
                    /\ Prog(v) \in Verifying => account'[x].secret
                    /\ Prog(v) \in Renewing => account'[x].twofa
    <3>1. Live(x)
      BY <2>5 DEF Live, SameFactor
    <3>2. \A v \in Worker : At(v, x) =>
            /\ Prog(v) \in Verifying => account'[x].secret
            /\ Prog(v) \in Renewing => account'[x].twofa
      BY <2>1, <3>1 DEF Orderly, SameFactor
    <3>3. q \in Verifying \cup Renewing => At(w, x)
      BY <1>1, TwoFactorPrograms DEF Quietly
    <3> QED
      BY <1>1, <3>2, <3>3 DEF Quietly
  <2>6. q \in On2FAPrograms => p \in On2FAPrograms
    BY DEF Quietly
  <2> QED
    BY <2>2, <2>3, <2>4, <2>5, <2>6, StaysOrderly
<1>4. account[x].status # "none" => account'[x].status # "none"
  BY DEF SameFactor
<1> QED
  BY <1>2, <1>3, <1>4, OrderedBy

LEMMA NoMoveOrdered ==
  ASSUME TypeOK, Ordered, task' = task, codes' = codes, mixed' = mixed,
         \A u \in User : SameFactor(u)
  PROVE  Ordered'
<1>1. \A w \in Worker : Prog(w)' = Prog(w) /\ \A u : At(w, u)' <=> At(w, u)
  BY DEF Prog, At
<1>2. Grounded'
  <2> SUFFICES ASSUME NEW w \in Worker, Prog(w) \in On2FAPrograms
               PROVE  account'[task[w].user].status # "none"
    BY <1>1 DEF Grounded
  <2>1. task[w].user \in User
    BY TaskOf, TwoFactorPrograms DEF Prog
  <2> QED
    BY <2>1 DEF Ordered, Grounded, SameFactor
<1>3. ASSUME NEW u \in User, Orderly(u)
      PROVE  Orderly(u)'
  BY <1>1, <1>3 DEF Orderly, About, Live, SameFactor
<1> QED
  BY <1>2, <1>3 DEF Ordered

\* A statement that leaves 2FA as it is.
LEMMA QuietStatement ==
  ASSUME TypeOK, Programmed, Ordered, NEW w \in Worker, NEW name, Runs(w, name), Advance(w),
         NEW x \in User, x = task[w].user, name # "enable", OnlyOf(x), mixed' = mixed,
         SameFactor(x), x \in codes' => x \in codes, name = "codes" => x \notin codes'
  PROVE  Ordered'
<1>1. PICK p : p = Prog(w)
  OBVIOUS
<1>2. /\ Move(w, x, p, Tail(p)) /\ p \in Programs /\ Head(p) = name
  BY <1>1, RunsMove, StatementMoves DEF Runs, Programmed
<1>3. Descends(p)
  BY <1>2, FactorTails
<1>4. Quietly(p, Tail(p)) /\ (p = <<"codes">> => x \notin codes')
  BY <1>2, <1>3 DEF Descends, Quietly
<1> QED
  BY <1>2, <1>4, QuietOrdered

\* What a statement of x's only request on 2FA finds.
LEMMA AloneOn2FA ==
  ASSUME TypeOK, Programmed, Ordered, NEW w \in Worker, NEW x \in User, x \notin mixed,
         task[w] # Idle, x = task[w].user, Prog(w) \in On2FAPrograms
  PROVE  /\ \A v \in Worker : (v # w /\ At(v, x)) =>
              Prog(v) \notin Verifying /\ Prog(v) \notin Renewing /\ Prog(v) # <<"codes">>
         /\ \A v, y \in Worker : About(v, x) /\ About(y, x) => v = y
<1>1. Orderly(x) /\ About(w, x)
  BY DEF Ordered, About, At
<1>2. \A v \in Worker : (v # w /\ At(v, x)) => Prog(v) \notin On2FAPrograms
  BY <1>1 DEF Orderly, About
<1> QED
  BY <1>1, <1>2, TwoFactorPrograms DEF Orderly

\* The statements that change 2FA.
LEMMA FactorChanges ==
  ASSUME TypeOK, Programmed, Ordered, NEW w \in Worker,
        NEW name \in {"secret", "enable", "clear2fa"},
         Runs(w, name), Advance(w), NEW x \in User, x = task[w].user, Live(x), OnlyOf(x),
         mixed' = mixed, codes' = codes, account'[x].status = account[x].status,
         name = "secret" => account'[x].twofa = account[x].twofa /\ account'[x].secret,
         name = "enable" => account'[x].twofa /\ account'[x].secret = account[x].secret,
         name = "clear2fa" => ~account'[x].twofa /\ ~account'[x].secret
  PROVE  Ordered'
<1>1. PICK p : p = Prog(w)
  OBVIOUS
<1>2. /\ Move(w, x, p, Tail(p)) /\ p \in Starting[name] /\ task[w] # Idle /\ p \in Programs
  BY <1>1, RunsMove, StatementMoves DEF Programmed
<1>3. p \in On2FAPrograms
  BY <1>2 DEF Starting, On2FAPrograms, Verifying
<1>4. account[x].status # "none" /\ account'[x].status # "none"
  BY DEF Live
<1>5. ASSUME x \notin mixed'
      PROVE  Orderly(x)'
  <2>1. Orderly(x)
    BY <1>5 DEF Ordered
  <2>2. /\ \A v \in Worker : (v # w /\ At(v, x)) =>
             Prog(v) \notin Verifying /\ Prog(v) \notin Renewing /\ Prog(v) # <<"codes">>
        /\ \A v, y \in Worker : About(v, x) /\ About(y, x) => v = y
    BY <1>1, <1>2, <1>3, <1>5, AloneOn2FA
  <2>3. CASE name = "secret"
    <3>1. p = <<"secret">>
      BY <1>2, <2>3 DEF Starting
    <3>2. Tail(p) = None /\ p # <<"codes">>
      BY <1>2, <3>1, LastIsNone, Singles
    <3>3. ASSUME ~account'[x].twofa, x \in codes'
          PROVE  \E v \in Worker : At(v, x) /\ Prog(v) = <<"codes">> /\ v # w
      BY <1>1, <2>1, <2>3, <3>2, <3>3 DEF Orderly
    <3> QED
      BY <1>2, <1>3, <2>2, <2>3, <3>2, <3>3, StaysOrderly, TwoFactorPrograms
  <2>4. CASE name = "enable"
    <3>1. p = <<"enable", "codes", "newcodes">>
      BY <1>2, <2>4 DEF Starting
    <3>2. Tail(p) = <<"codes", "newcodes">>
      BY <3>1, Tails
    <3>3. p \in Verifying /\ Tail(p) \in Renewing /\ Tail(p) \notin Verifying
      BY <3>1, <3>2 DEF Verifying, Renewing
    <3>4. At(w, x) /\ Prog(w) \in Verifying
      BY <1>1, <1>2, <3>3 DEF At
    <3>5. account[x].secret
      BY <2>1, <3>4 DEF Orderly
    <3> QED
      BY <1>2, <1>3, <2>2, <2>4, <3>3, <3>5, StaysOrderly
  <2>5. CASE name = "clear2fa"
    <3>1. p = <<"clear2fa", "codes">>
      BY <1>2, <2>5 DEF Starting
    <3>2. Tail(p) = <<"codes">>
      BY <3>1, Tails
    <3>3. Tail(p) \notin Verifying /\ Tail(p) \notin Renewing
      BY <3>2, TwoFactorPrograms
    <3> QED
      BY <1>2, <1>3, <2>2, <2>5, <3>2, <3>3, StaysOrderly
  <2> QED
    BY <2>3, <2>4, <2>5
<1> QED
  BY <1>2, <1>4, <1>5, OrderedBy

\* The backup codes of a user whose 2FA is on.
LEMMA CodesInserted ==
  ASSUME TypeOK, Programmed, Ordered, NEW w \in Worker, InsertCodes(w), NEW x \in User,
         x = task[w].user, Live(x)
  PROVE  Ordered'
<1>1. PICK p : p = Prog(w)
  OBVIOUS
<1>2. /\ Move(w, x, p, Tail(p)) /\ p \in Starting["newcodes"] /\ task[w] # Idle
  BY <1>1, RunsMove, StatementMoves DEF InsertCodes
<1>3. p = <<"newcodes">>
  BY <1>2 DEF Starting
<1>4. Tail(p) = None /\ p \in Renewing
  BY <1>3, LastIsNone, Singles DEF Renewing, Programs
<1>5. account' = account /\ mixed' = mixed /\ OnlyOf(x)
  BY DEF InsertCodes, OnlyOf
<1>6. ASSUME x \notin mixed'
      PROVE  Orderly(x)'
  <2>1. Orderly(x) /\ p \in On2FAPrograms
    BY <1>4, <1>5, <1>6, TwoFactorPrograms DEF Ordered
  <2>2. At(w, x) /\ Prog(w) \in Renewing
    BY <1>1, <1>2, <1>4 DEF At
  <2>3. account[x].twofa
    BY <2>1, <2>2 DEF Orderly
  <2>4. /\ \A v, y \in Worker : About(v, x) /\ About(y, x) => v = y
        /\ account[x].twofa => account[x].secret
        /\ \A v \in Worker : At(v, x) =>
             /\ Prog(v) \in Verifying => account[x].secret
             /\ Prog(v) \in Renewing => account[x].twofa
    BY <2>1 DEF Orderly
  <2> QED
    BY <1>2, <1>4, <1>5, <2>1, <2>3, <2>4, StaysOrderly, TwoFactorPrograms
<1>7. account[x].status # "none" => account'[x].status # "none"
  BY <1>5
<1> QED
  BY <1>2, <1>4, <1>5, <1>6, <1>7, OrderedBy, TwoFactorPrograms

\* An account comes or goes, with no request on its 2FA or without 2FA.
LEMMA AccountBare ==
  ASSUME TypeOK, Ordered, NEW w \in Worker, NEW x \in User, NEW p, NEW q, Move(w, x, p, q),
         q \notin On2FAPrograms, OnlyOf(x), mixed' = mixed,
         ~account'[x].twofa, ~account'[x].secret, x \notin codes', account'[x].status # "none",
         Live(x)' => \A v \in Worker : ~About(v, x)
  PROVE  Ordered'
<1>1. ASSUME x \notin mixed'
      PROVE  Orderly(x)'
  <2>1. \A v, y \in Worker : About(v, x) /\ About(y, x) => v = y
    BY <1>1 DEF Ordered, Orderly
  <2>2. q \notin Verifying /\ q \notin Renewing
    BY TwoFactorPrograms
  <2>3. Live(x)' => \A v \in Worker : At(v, x) => Prog(v) \notin Verifying
        /\ Prog(v) \notin Renewing
    BY TwoFactorPrograms DEF About
  <2> QED
    BY <2>1, <2>2, <2>3, StaysOrderly
<1> QED
  BY <1>1, OrderedBy

\* A handler begins: alone on its user's 2FA, unless that is noted.
LEMMA HandleOrdered ==
  ASSUME TypeOK, Programmed, Ordered, NEW w \in Worker, NEW x \in User,
         NEW todo \in HandlerPrograms, NEW key \in Nat, Handles(w, x, todo, key)
  PROVE  Ordered'
<1>1. Move(w, x, None, todo) /\ todo \in Programs
  BY HandleMoves DEF HandlerPrograms, Programs
<1>2. account' = account /\ codes' = codes /\ Note2FA(x, todo) /\ Live(x) /\ OnlyOf(x)
  BY DEF Handles, Begin, OnlyOf
<1>3. mixed \subseteq mixed'
  BY <1>2 DEF Note2FA
<1>4. todo \in Verifying => account[x].secret
  BY DEF Handles, HandlerPrograms, Verifying
<1>5. todo \in Renewing => account[x].twofa
  BY DEF Handles, HandlerPrograms, Renewing
<1>6. ASSUME x \notin mixed'
      PROVE  Orderly(x)'
  <2>1. Orderly(x)
    BY <1>3, <1>6 DEF Ordered
  <2>2. todo \in On2FAPrograms => \A v \in Worker : ~About(v, x)
    <3>1. todo \in On2FAPrograms => \E i \in DOMAIN todo : todo[i] \in On2FA
      BY <1>1, Contents DEF Mentions
    <3>2. \A v \in Worker : About(v, x) => About2FA(task[v]) /\ task[v].user = x
      BY ProgramsSay DEF About, At
    <3> QED
      BY <1>2, <1>6, <3>1, <3>2 DEF Note2FA
  <2>3. ASSUME ~account[x].twofa, x \in codes
        PROVE  \E v \in Worker : At(v, x) /\ Prog(v) = <<"codes">> /\ v # w
    <3>1. PICK v \in Worker : At(v, x) /\ Prog(v) = <<"codes">>
      BY <2>1, <2>3 DEF Orderly
    <3>2. v # w
      BY <1>1, <3>1, TwoFactorPrograms DEF Move
    <3> QED
      BY <3>1, <3>2
  <2>4. /\ \A v, y \in Worker : About(v, x) /\ About(y, x) => v = y
        /\ account[x].twofa => account[x].secret
        /\ \A v \in Worker : At(v, x) =>
             /\ Prog(v) \in Verifying => account[x].secret
             /\ Prog(v) \in Renewing => account[x].twofa
    BY <1>2, <2>1 DEF Orderly
  <2> QED
    BY <1>1, <1>2, <1>4, <1>5, <2>2, <2>3, <2>4, StaysOrderly
<1>7. account[x].status # "none"
  BY <1>2 DEF Live
<1> QED
  BY <1>1, <1>2, <1>3, <1>6, <1>7, OrderedBy

\* An account deleted meanwhile: the statement that would enable its 2FA finds no row.
LEMMA DeadEnables ==
  ASSUME TypeOK, Programmed, Ordered, NEW w \in Worker, Runs(w, "enable"), Advance(w),
         NEW x \in User, x = task[w].user, ~Live(x), account' = account, codes' = codes,
         mixed' = mixed
  PROVE  Ordered'
<1>1. PICK p : p = Prog(w)
  OBVIOUS
<1>2. /\ Move(w, x, p, Tail(p)) /\ p \in Starting["enable"] /\ task[w] # Idle
  BY <1>1, RunsMove, StatementMoves
<1>3. p \in On2FAPrograms /\ p # <<"codes">>
  BY <1>2 DEF Starting, On2FAPrograms, Verifying
<1>4. OnlyOf(x)
  BY DEF OnlyOf
<1>5. account[x].status # "none"
  BY <1>1, <1>2, <1>3 DEF Ordered, Grounded
<1>6. ASSUME x \notin mixed'
      PROVE  Orderly(x)'
  <2>1. /\ \A v, y \in Worker : About(v, x) /\ About(y, x) => v = y
        /\ account[x].twofa => account[x].secret
    BY <1>6 DEF Ordered, Orderly
  <2>2. ASSUME ~account[x].twofa, x \in codes
        PROVE  \E v \in Worker : At(v, x) /\ Prog(v) = <<"codes">> /\ v # w
    BY <1>1, <1>3, <1>6, <2>2 DEF Ordered, Orderly
  <2>3. ~Live(x)'
    BY DEF Live
  <2> QED
    BY <1>2, <1>3, <2>1, <2>2, <2>3, StaysOrderly
<1> QED
  BY <1>2, <1>4, <1>5, <1>6, OrderedBy

\* The second factor, and the requests on it.
LEMMA OrderedStep ==
  ASSUME TypeOK, Programmed, GoneIsEmpty, Ordered, Next
  PROVE  Ordered'
<1>1. ASSUME task' = task, codes' = codes, mixed' = mixed, account' = account
      PROVE  Ordered'
  BY <1>1, NoMoveOrdered DEF SameFactor
<1>2. ASSUME NEW w \in Worker, NEW x, NEW p, NEW q, Move(w, x, p, q), account' = account,
             codes' = codes \/ codes' = codes \ {x}, mixed' = mixed,
             q \in SignInPrograms \cup {None}, p # <<"codes">>
      PROVE  Ordered'
  <2>1. x \in User
    BY <1>2 DEF Move
  <2>2. OnlyOf(x) /\ SameFactor(x) /\ (x \in codes' => x \in codes)
    BY <1>2, <2>1 DEF OnlyOf, SameFactor
  <2>3. Quietly(p, q)
    BY <1>2, TwoFactorPrograms DEF Quietly
  <2> QED
    BY <1>2, <2>1, <2>2, <2>3, QuietOrdered
<1>3. /\ SignIn \in SignInPrograms /\ PCreate \in SignInPrograms /\ <<"decide">> \in SignInPrograms
      /\ <<"code">> \in SignInPrograms /\ <<"consume">> \in SignInPrograms
      /\ <<"count">> \in SignInPrograms /\ <<"trim">> \in SignInPrograms
      /\ \A p \in SignInPrograms \cup {None} : p # <<"codes">>
  BY TwoFactorPrograms DEF SignInPrograms
<1>4. ASSUME NEW w \in Worker, NEW u \in User, SignsIn(w, u)
      PROVE  Ordered'
  <2>1. \A x, p, q :
          (/\ Move(w, x, p, q) /\ p \in SignInPrograms \cup {None}
                /\ q \in SignInPrograms \cup {None}
           /\ account' = account /\ mixed' = mixed /\ (codes' = codes \/ codes' = codes \ {x}))
             => Ordered'
    BY <1>2, <1>3
  <2>2. CASE Login(w, u)
    <3>1. account' = account /\ mixed' = mixed /\ codes' = codes
      BY <2>2 DEF Login
    <3> QED
      BY <1>3, <2>1, <2>2, <3>1, LoginMoves
  <2>3. CASE LoginFails(w)
    <3>1. account' = account /\ mixed' = mixed /\ codes' = codes
      BY <2>3 DEF LoginFails
    <3> QED
      BY <1>3, <2>1, <2>3, <3>1, LoginFailsMoves
  <2>4. CASE IssueToken(w)
    <3>1. account' = account /\ mixed' = mixed /\ codes' = codes
      BY <2>4 DEF IssueToken, PasswordRight
    <3> QED
      BY <1>3, <2>1, <2>4, <3>1, IssueTokenMoves
  <2>5. CASE IssueTicket(w)
    <3>1. account' = account /\ mixed' = mixed /\ codes' = codes
      BY <2>5 DEF IssueTicket, PasswordRight
    <3> QED
      BY <1>3, <2>1, <2>5, <3>1, IssueTicketMoves
  <2>6. CASE CodeWrong(w)
    <3>1. account' = account /\ mixed' = mixed /\ codes' = codes
      BY <2>6 DEF CodeWrong
    <3> QED
      BY <1>3, <2>1, <2>6, <3>1, CodeWrongMoves
  <2>7. CASE TotpRight(w)
    <3>1. account' = account /\ mixed' = mixed /\ codes' = codes
      BY <2>7 DEF TotpRight
    <3> QED
      BY <1>3, <2>1, <2>7, <3>1, TotpRightMoves
  <2>8. CASE BackupCodeFound(w)
    <3>1. account' = account /\ mixed' = mixed /\ codes' = codes
      BY <2>8 DEF BackupCodeFound
    <3> QED
      BY <1>3, <2>1, <2>8, <3>1, BackupCodeMoves
  <2>9. CASE ConsumeCode(w)
    <3>1. account' = account /\ mixed' = mixed
          /\ (codes' = codes \/ codes' = codes \ {task[w].user})
      BY <2>9 DEF ConsumeCode
    <3> QED
      BY <1>3, <2>1, <2>9, <3>1, ConsumeMoves
  <2>10. CASE InsertToken(w)
    <3>1. account' = account /\ mixed' = mixed /\ codes' = codes
      BY <2>10 DEF InsertToken, Untracked
    <3> QED
      BY <1>3, <2>1, <2>10, <3>1, InsertMoves
  <2>11. CASE CountSessions(w)
    <3>1. account' = account /\ mixed' = mixed /\ codes' = codes
      BY <2>11 DEF CountSessions, Untracked
    <3> QED
      BY <1>3, <2>1, <2>11, <3>1, CountMoves
  <2>12. CASE TrimSessions(w)
    <3>1. account' = account /\ mixed' = mixed /\ codes' = codes
      BY <2>12 DEF TrimSessions, Untracked
    <3> QED
      BY <1>3, <2>1, <2>12, <3>1, TrimMoves
  <2>13. CASE Register(w, u)
    <3>1. Move(w, u, None, PCreate) /\ account' = account /\ codes' = codes
      BY <2>13, RegisterMoves DEF Register, Begin
    <3>2. mixed' = mixed
      <4>1. Note2FA(u, PCreate)
        BY <2>13 DEF Register, Begin, PCreate
      <4>2. ~ \E i \in DOMAIN PCreate : PCreate[i] \in On2FA
        BY DEF PCreate, On2FA
      <4> QED
        BY <4>1, <4>2 DEF Note2FA
    <3> QED
      BY <1>3, <2>1, <3>1, <3>2
  <2>14. CASE \E t \in tickets : t.user = u /\ RedeemTicket(w, t)
    <3>1. account' = account /\ mixed' = mixed /\ codes' = codes
      BY <2>14 DEF RedeemTicket
    <3> QED
      BY <1>1, <1>3, <2>1, <2>14, <3>1, RedeemMoves
  <2>15. CASE Create(w)
    <3>1. PICK x \in User : x = task[w].user
      BY <2>15, CreateMoves, TaskOf
    <3>2. mixed' = mixed /\ codes' = codes
      BY <2>15 DEF Create
    <3>3. CASE account' = account
      BY <1>3, <2>1, <2>15, <3>2, <3>3, CreateMoves
    <3>4. CASE /\ Move(w, x, PCreate, SignIn) /\ account[x].status = "none"
               /\ Changes(x, [NewAccount EXCEPT !.status = "live", !.pw = 1])
      <4> DEFINE row == [NewAccount EXCEPT !.status = "live", !.pw = 1]
      <4>1. row \in Account /\ row.status = "live" /\ ~row.twofa /\ ~row.secret
        BY Rows DEF NewAccount
      <4> HIDE DEF row
      <4>2. account'[x] = row /\ \A v \in User : v # x => account'[v] = account[v]
        BY <3>4, <4>1, ChangesTypes DEF row
      <4>3. x \notin codes'
        BY <3>2, <3>4 DEF GoneIsEmpty, Live
      <4>4. OnlyOf(x)
        BY <3>2, <4>2 DEF OnlyOf
      <4>5. \A v \in Worker : ~About(v, x)
        BY <3>4 DEF Ordered, Grounded, About, At
      <4>6. SignIn \notin On2FAPrograms
        BY <1>3, TwoFactorPrograms
      <4>7. ~account'[x].twofa /\ ~account'[x].secret /\ account'[x].status # "none"
        BY <4>1, <4>2
      <4> QED
        BY <3>2, <3>4, <4>3, <4>4, <4>5, <4>6, <4>7, AccountBare
    <3> QED
      BY <2>15, <3>1, <3>3, <3>4, CreateMoves DEF Changes
  <2> QED
    BY <1>4, <2>2, <2>3, <2>4, <2>5, <2>6, <2>7, <2>8, <2>9, <2>10, <2>11, <2>12, <2>13, <2>14,
       <2>15 DEF SignsIn
<1>5. ASSUME NEW w \in Worker, UpdateRow(w)
      PROVE  Ordered'
  <2>1. PICK x \in User : x = task[w].user
    BY <1>5, TaskOf DEF UpdateRow
  <2>2. PICK row : row = account[x]
    OBVIOUS
  <2>3. /\ row \in Account /\ [row EXCEPT !.pw = @ + 1] \in Account
        /\ [row EXCEPT !.secret = TRUE] \in Account /\ [row EXCEPT !.twofa = TRUE] \in Account
        /\ [row EXCEPT !.twofa = FALSE, !.secret = FALSE] \in Account
        /\ [row EXCEPT !.disabled = TRUE] \in Account
    BY <2>2, Rows
  <2>4. ASSUME NEW name, NEW r \in Account, UpdateUser(w, name, r), name \notin {"codes", "delete"},
               Live(x) =>
                 /\ r.status = row.status
                 /\ \/ r.twofa = row.twofa /\ r.secret = row.secret /\ name # "enable"
                    \/ name = "secret" /\ r.twofa = row.twofa /\ r.secret
                    \/ name = "enable" /\ r.twofa /\ r.secret = row.secret
                    \/ name = "clear2fa" /\ ~r.twofa /\ ~r.secret
        PROVE  Ordered'
    <3>1. Runs(w, name) /\ Advance(w) /\ codes' = codes /\ mixed' = mixed
      BY <2>4 DEF UpdateUser
    <3>2. CASE Live(x)
      <4>1. Changes(x, r)
        BY <2>1, <2>4, <3>2 DEF UpdateUser, Changes
      <4>2. account'[x] = r /\ OnlyOf(x)
        BY <2>4, <3>1, <4>1, ChangesTypes DEF OnlyOf
      <4>3. CASE r.twofa = row.twofa /\ r.secret = row.secret /\ name # "enable"
        <5>1. SameFactor(x)
          BY <2>2, <2>4, <3>2, <4>2, <4>3 DEF SameFactor
        <5> QED
          BY <2>1, <2>4, <3>1, <4>2, <4>3, <5>1, QuietStatement
      <4>4. CASE \/ name = "secret" /\ r.twofa = row.twofa /\ r.secret
                 \/ name = "enable" /\ r.twofa /\ r.secret = row.secret
                 \/ name = "clear2fa" /\ ~r.twofa /\ ~r.secret
        <5>1. account'[x].status = account[x].status
          BY <2>2, <2>4, <3>2, <4>2
        <5>2. CASE name = "secret" /\ r.twofa = row.twofa /\ r.secret
          BY <2>1, <2>2, <3>1, <3>2, <4>2, <5>1, <5>2, FactorChanges
        <5>3. CASE name = "enable" /\ r.twofa /\ r.secret = row.secret
          BY <2>1, <2>2, <3>1, <3>2, <4>2, <5>1, <5>3, FactorChanges
        <5>4. CASE name = "clear2fa" /\ ~r.twofa /\ ~r.secret
          BY <2>1, <2>2, <3>1, <3>2, <4>2, <5>1, <5>4, FactorChanges
        <5> QED
          BY <4>4, <5>2, <5>3, <5>4
      <4> QED
        BY <2>4, <3>2, <4>3, <4>4
    <3>3. CASE ~Live(x)
      <4>1. account' = account
        BY <2>1, <2>4, <3>3 DEF UpdateUser
      <4>2. OnlyOf(x) /\ SameFactor(x)
        BY <3>1, <4>1 DEF OnlyOf, SameFactor
      <4>3. CASE name # "enable"
        BY <2>1, <2>4, <3>1, <4>2, <4>3, QuietStatement
      <4>4. CASE name = "enable"
        BY <2>1, <3>1, <3>3, <4>1, <4>4, DeadEnables
      <4> QED
        BY <4>3, <4>4
    <3> QED
      BY <3>2, <3>3
  <2>5. CASE UpdateUser(w, "password", [row EXCEPT !.pw = @ + 1])
    <3> DEFINE r == [row EXCEPT !.pw = @ + 1]
    <3>1. r \in Account /\ r.status = row.status /\ r.twofa = row.twofa /\ r.secret = row.secret
      BY <2>3 DEF Account
    <3>2. UpdateUser(w, "password", r)
      BY <2>5
    <3> HIDE DEF r
    <3> QED
      BY <2>4, <3>1, <3>2
  <2>6. CASE UpdateUser(w, "secret", [row EXCEPT !.secret = TRUE])
    <3> DEFINE r == [row EXCEPT !.secret = TRUE]
    <3>1. r \in Account /\ r.status = row.status /\ r.twofa = row.twofa /\ r.secret
      BY <2>3 DEF Account
    <3>2. UpdateUser(w, "secret", r)
      BY <2>6
    <3> HIDE DEF r
    <3> QED
      BY <2>4, <3>1, <3>2
  <2>7. CASE UpdateUser(w, "enable", [row EXCEPT !.twofa = TRUE])
    <3> DEFINE r == [row EXCEPT !.twofa = TRUE]
    <3>1. r \in Account /\ r.status = row.status /\ r.twofa /\ r.secret = row.secret
      BY <2>3 DEF Account
    <3>2. UpdateUser(w, "enable", r)
      BY <2>7
    <3> HIDE DEF r
    <3> QED
      BY <2>4, <3>1, <3>2
  <2>8. CASE UpdateUser(w, "clear2fa", [row EXCEPT !.twofa = FALSE, !.secret = FALSE])
    <3> DEFINE r == [row EXCEPT !.twofa = FALSE, !.secret = FALSE]
    <3>1. r \in Account /\ r.status = row.status /\ ~r.twofa /\ ~r.secret
      BY <2>3 DEF Account
    <3>2. UpdateUser(w, "clear2fa", r)
      BY <2>8
    <3> HIDE DEF r
    <3> QED
      BY <2>4, <3>1, <3>2
  <2>9. CASE UpdateUser(w, "disable", [row EXCEPT !.disabled = TRUE])
    <3> DEFINE r == [row EXCEPT !.disabled = TRUE]
    <3>1. r \in Account /\ r.status = row.status /\ r.twofa = row.twofa /\ r.secret = row.secret
      BY <2>3 DEF Account
    <3>2. UpdateUser(w, "disable", r)
      BY <2>9
    <3> HIDE DEF r
    <3> QED
      BY <2>4, <3>1, <3>2
  <2> QED
    BY <1>5, <2>1, <2>2, <2>5, <2>6, <2>7, <2>8, <2>9 DEF UpdateRow
<1>6. ASSUME NEW w \in Worker, DeleteTokens(w) \/ DeleteCodes(w) \/ InsertCodes(w)
      PROVE  Ordered'
  <2>1. PICK x \in User : x = task[w].user
    BY <1>6, RunsMove, TaskOf DEF DeleteTokens, DeleteCodes, InsertCodes
  <2>2. account' = account /\ mixed' = mixed /\ SameFactor(x) /\ Advance(w)
    BY <1>6 DEF DeleteTokens, DeleteCodes, InsertCodes, SameFactor
  <2>3. CASE DeleteTokens(w)
    <3>1. codes' = codes /\ OnlyOf(x)
      BY <2>2, <2>3 DEF DeleteTokens, OnlyOf
    <3>2. Runs(w, "tokens") \/ Runs(w, "others")
      BY <2>3 DEF DeleteTokens
    <3> QED
      BY <2>1, <2>2, <3>1, <3>2, QuietStatement
  <2>4. CASE DeleteCodes(w)
    <3>1. codes' = codes \ {x} /\ Runs(w, "codes")
      BY <2>1, <2>4 DEF DeleteCodes
    <3>2. OnlyOf(x) /\ x \notin codes'
      BY <2>2, <3>1 DEF OnlyOf
    <3> QED
      BY <2>1, <2>2, <3>1, <3>2, QuietStatement
  <2>5. CASE InsertCodes(w) /\ Live(x)
    BY <2>1, <2>5, CodesInserted
  <2>6. CASE InsertCodes(w) /\ ~Live(x)
    <3>1. codes' = codes /\ Runs(w, "newcodes")
      BY <2>1, <2>6 DEF InsertCodes
    <3>2. OnlyOf(x)
      BY <2>2, <3>1 DEF OnlyOf
    <3> QED
      BY <2>1, <2>2, <3>1, <3>2, QuietStatement
  <2> QED
    BY <1>6, <2>3, <2>4, <2>5, <2>6
<1>7. ASSUME NEW w \in Worker, DeleteAccount(w)
      PROVE  Ordered'
  <2>1. PICK x \in User : x = task[w].user
    BY <1>7, DeleteMoves, TaskOf
  <2> DEFINE row == [NewAccount EXCEPT !.status = "gone"]
  <2>2. row \in Account /\ ~row.twofa /\ ~row.secret /\ row.status = "gone"
    BY Rows DEF NewAccount
  <2>3. Changes(x, row) /\ codes' = codes \ {x} /\ mixed' = mixed
    BY <1>7, <2>1 DEF DeleteAccount, Changes
  <2> HIDE DEF row
  <2>4. account'[x] = row /\ OnlyOf(x)
    BY <2>2, <2>3, ChangesTypes DEF OnlyOf
  <2>5. Move(w, x, <<"delete">>, None) /\ None \notin On2FAPrograms
    BY <1>7, <2>1, DeleteMoves, TwoFactorPrograms
  <2>6. ~account'[x].twofa /\ ~account'[x].secret /\ account'[x].status # "none" /\ ~Live(x)'
    BY <2>2, <2>4 DEF Live
  <2>7. x \notin codes'
    BY <2>3
  <2> QED
    BY <2>3, <2>4, <2>5, <2>6, <2>7, AccountBare
<1>8. ASSUME NEW w \in Worker, NEW right \in BOOLEAN, Confirm(w, right)
      PROVE  Ordered'
  <2>1. PICK x \in User : x = task[w].user
    BY <1>8, RunsMove, TaskOf DEF Confirm
  <2>2. account' = account /\ mixed' = mixed /\ codes' = codes /\ SameFactor(x) /\ OnlyOf(x)
    BY <1>8 DEF Confirm, SameFactor, OnlyOf
  <2>3. Runs(w, "confirm") /\ (Advance(w) \/ Finish(w))
    BY <1>8 DEF Confirm
  <2>4. CASE Advance(w)
    BY <2>1, <2>2, <2>3, <2>4, QuietStatement
  <2>5. CASE Finish(w)
    <3>1. task[w] # Idle /\ Prog(w) = task[w].todo /\ Prog(w) \in Starting["confirm"]
      BY <2>3, RunsMove
    <3>2. Move(w, x, Prog(w), None)
      BY <2>1, <2>5, <3>1, EndMoves
    <3>3. Prog(w) # <<"codes">>
      BY <3>1 DEF Starting
    <3> QED
      BY <1>2, <2>2, <3>2, <3>3
  <2> QED
    BY <2>3, <2>4, <2>5
<1>9. ASSUME NEW u \in User, EnableUser(u)
      PROVE  Ordered'
  <2> DEFINE row == [account[u] EXCEPT !.disabled = FALSE]
  <2>1. account[u] \in Account
    BY DEF TypeOK
  <2>2. /\ row \in Account /\ row.twofa = account[u].twofa /\ row.secret = account[u].secret
        /\ row.status = account[u].status
    BY <2>1 DEF Account
  <2>3. Changes(u, row) /\ codes' = codes /\ mixed' = mixed /\ task' = task
    BY <1>9 DEF EnableUser, Changes
  <2> HIDE DEF row
  <2>4. account'[u] = row /\ \A v \in User : v # u => account'[v] = account[v]
    BY <2>2, <2>3, ChangesTypes
  <2>5. \A v \in User : SameFactor(v)
    BY <2>2, <2>4 DEF SameFactor
  <2> QED
    BY <2>3, <2>5, NoMoveOrdered
<1>10. ASSUME NEW u \in User, WindowEnds(u) \/ Thins(u)
       PROVE  Ordered'
  BY <1>1, <1>10 DEF WindowEnds, Thins
<1>11. ASSUME NEW t \in tickets, TicketExpires(t)
       PROVE  Ordered'
  BY <1>1, <1>11 DEF TicketExpires
<1>12. ASSUME NEW w \in Worker, Execute(w)
       PROVE  Ordered'
  <2>1. task[w] # Idle
    BY <1>12 DEF Execute, Create, LoginFails, IssueToken, IssueTicket, PasswordRight,
       CodeWrong, TotpRight, ConsumeCode, InsertToken, CountSessions, TrimSessions, UpdateRow,
       DeleteTokens, DeleteCodes, InsertCodes, DeleteAccount, BackupCodeFound, Confirm, Runs
  <2>2. PICK x \in User : x = task[w].user
    BY <2>1, TaskOf
  <2> QED
    BY <1>4, <1>5, <1>6, <1>7, <1>8, <1>12, <2>2 DEF Execute, SignsIn
<1>13. ASSUME NEW w \in Worker, NEW u \in User,
              \/ Register(w, u) \/ Login(w, u)
              \/ \E todo \in HandlerPrograms, key \in Nat : Handles(w, u, todo, key)
       PROVE  Ordered'
  BY <1>4, <1>13, HandleOrdered DEF SignsIn
<1>14. ASSUME NEW w \in Worker, NEW t \in tickets, RedeemTicket(w, t)
       PROVE  Ordered'
  BY <1>4, <1>14 DEF SignsIn, TypeOK, Ticket
<1> QED
  BY <1>9, <1>10, <1>11, <1>12, <1>13, <1>14, NextKinds

-----------------------------------------------------------------------------
(* The inductive invariant.                                                 *)
LEMMA InitHolds == Init => IInv
<1> SUFFICES ASSUME Init
             PROVE  IInv
  OBVIOUS
<1>1. \A w \in Worker : task[w] = Idle
  BY DEF Init
<1>2. \A u \in User : sessions[u] = <<>> /\ account[u] = NewAccount
  BY DEF Init
<1>3. Generators = {} /\ \A u : Deciders(u) = {}
  BY <1>1 DEF Generators, Holds, Deciders, Runs
<1>4. TypeOK
  <2>1. NewAccount \in Account /\ <<>> \in Seq(Session)
    BY RowTypes
  <2> QED
    BY <2>1, <1>1, BoundsAssumption DEF Init, TypeOK
<1>5. Programmed /\ TrimsSome /\ FailuresToCome
  BY <1>1 DEF Programmed, TrimsSome, Runs, FailuresToCome, Init
<1>6. RoomKept
  BY <1>3, FS_EmptySet, BoundsAssumption DEF RoomKept, Init
<1>7. SessionLimit
  <2>1. Cardinality(Worker) \in Nat
    BY BoundsAssumption, FS_CardinalityType
  <2>2. ASSUME NEW u \in User
        PROVE  Len(sessions[u]) <= MaxSessions + Cardinality({w \in Worker :
                 (Runs(w, "count") \/ Runs(w, "trim")) /\ task[w].user = u})
    <3>1. {w \in Worker : (Runs(w, "count") \/ Runs(w, "trim")) /\ task[w].user = u} = {}
      BY <1>1 DEF Runs
    <3>2. Len(sessions[u]) = 0
      BY <1>2
    <3>3. Cardinality({}) = 0
      BY FS_EmptySet
    <3> DEFINE n == Len(sessions[u])
               G == {w \in Worker : (Runs(w, "count") \/ Runs(w, "trim")) /\ task[w].user = u}
    <3>4. n = 0 /\ Cardinality(G) = 0
      BY <3>1, <3>2, <3>3
    <3> HIDE DEF n, G
    <3>5. n <= MaxSessions + Cardinality(G)
      BY <3>4, BoundsAssumption
    <3> QED
      BY <3>5 DEF n, G
  <2> QED
    BY <2>2 DEF SessionLimit
<1>8. TicketOnce /\ FromTickets
  <2>1. DOMAIN Origins = {}
    BY <1>1 DEF Origins
  <2> QED
    BY <1>1, <1>2, <2>1 DEF TicketOnce, FromTickets, Init
<1>9. OldSessionsEnd /\ GoneIsEmpty
  BY <1>2 DEF OldSessionsEnd, GoneIsEmpty, NewAccount, Init
<1>10. TwoFactorSteps
  BY <1>1, <1>2 DEF TwoFactorSteps, About2FA, Holds, Todo, NewAccount, Init
<1> QED
  BY <1>4, <1>5, <1>6, <1>7, <1>8, <1>9, <1>10 DEF IInv

LEMMA NextKeeps ==
  ASSUME IInv, Next
  PROVE  IInv'
<1>1. TypeOK /\ Programmed /\ RoomKept /\ TrimsSome /\ GoneIsEmpty
  BY DEF IInv
<1>2. Once /\ Revoked /\ Ordered
  BY OnceIs, RevokedIs, OrderedIs DEF IInv
<1>3. TypeOK' /\ Programmed' /\ RoomKept'
  BY <1>1, TypeStep, ProgrammedStep, RoomStep
<1>4. issued' \in Nat /\ DOMAIN failures' \subseteq User
  BY <1>3, BoundsAssumption DEF TypeOK
<1>5. TrimsSome' /\ SessionLimit' /\ FailuresToCome'
  BY <1>1, <1>4, TrimsStep, LimitStep, FailuresStep DEF IInv
<1>6. Once' /\ (Once <=> TicketOnce /\ FromTickets)'
  <2>1. (Once <=> TicketOnce /\ FromTickets)'
    BY OnceIs, PTL
  <2> QED
    BY <1>1, <1>2, <1>4, <2>1, OnceStep
<1>7. Revoked' /\ GoneIsEmpty' /\ (Programmed => (OldSessionsEnd <=> Revoked))'
  <2>1. (Programmed => (OldSessionsEnd <=> Revoked))'
    BY RevokedIs, PTL
  <2> QED
    BY <1>1, <1>2, <2>1, RevokeStep
<1>8. Ordered' /\ (Programmed => (TwoFactorSteps <=> Ordered))'
  <2>1. (Programmed => (TwoFactorSteps <=> Ordered))'
    BY OrderedIs, PTL
  <2> QED
    BY <1>1, <1>2, <2>1, OrderedStep
<1> QED
  BY <1>3, <1>5, <1>6, <1>7, <1>8 DEF IInv

LEMMA StutterKeeps ==
  ASSUME IInv, UNCHANGED vars
  PROVE  IInv'
<1> USE DEF vars
<1>1. TypeOK' /\ Programmed' /\ TrimsSome' /\ RoomKept' /\ SessionLimit'
  BY DEF IInv, TypeOK, Programmed, TrimsSome, Runs, RoomKept, Generators, SessionLimit
<1>2. TicketOnce' /\ FromTickets'
  <2>1. Origins' = Origins
    BY DEF Origins
  <2> QED
    BY <2>1 DEF IInv, TicketOnce, FromTickets
<1>4. FailuresToCome'
  BY DEF IInv, FailuresToCome, Deciders, Runs
<1>3. OldSessionsEnd' /\ GoneIsEmpty' /\ TwoFactorSteps'
  BY DEF IInv, OldSessionsEnd, GoneIsEmpty, Live, TwoFactorSteps, Todo
<1> QED
  BY <1>1, <1>2, <1>3, <1>4 DEF IInv

LEMMA FailuresEnd == IInv => FailuresBounded
<1> SUFFICES ASSUME IInv, NEW u \in DOMAIN failures
             PROVE  failures[u] < MaxFailures + Cardinality(Worker)
  BY DEF FailuresBounded
<1>1. failures[u] + Cardinality(Deciders(u)) < MaxFailures + Cardinality(Worker)
  BY DEF IInv, FailuresToCome
<1>2. Cardinality(Deciders(u)) \in Nat /\ Cardinality(Worker) \in Nat
  <2>1. Deciders(u) \in SUBSET Worker
    BY DEF Deciders
  <2> QED
    BY <2>1, BoundsAssumption, FS_Subset, FS_CardinalityType
<1>3. failures[u] \in Nat
  BY DEF IInv, TypeOK
<1> QED
  BY <1>1, <1>2, <1>3, BoundsAssumption

LEMMA FactorSettles == IInv => TwoFactorSettled
<1> SUFFICES ASSUME IInv, NEW u \in User \ mixed,
                    \A w \in Worker : ~(About2FA(task[w]) /\ task[w].user = u)
             PROVE  /\ account[u].twofa => account[u].secret
                    /\ ~account[u].twofa => u \notin codes
  BY DEF TwoFactorSettled
<1>1. \A w \in Worker : About2FA(task[w]) <=> Prog(w) \in On2FAPrograms
  BY ProgramsSay DEF IInv
<1>2. Orderly(u)
  BY OrderedIs DEF IInv, Ordered
<1>3. <<"codes">> \in On2FAPrograms
  BY TwoFactorPrograms
<1> QED
  BY <1>1, <1>2, <1>3 DEF Orderly, At

\* What every state of a run of the handlers keeps.
THEOREM Invariance == Spec => []IInv
<1>1. IInv /\ [Next]_vars => IInv'
  BY NextKeeps, StutterKeeps
<1> QED
  BY InitHolds, <1>1, PTL DEF Spec

\* What the guards of a login keep holds in every state, for any number of users, of
\* requests in flight and of statements they interleave, and any limits: no user keeps
\* more sessions than enforce_session_limit leaves and the logins that have still to
\* run it, a ticket of mfa_tickets signs in once, and the logins in flight overshoot
\* check_login_rate_limit by no more than their number.
THEOREM SignInsAreKept == Spec => []SignInsHold
<1>1. IInv => SignInsHold
  BY FailuresEnd DEF IInv, SignInsHold
<1> QED
  BY Invariance, <1>1, PTL

\* What change_password, reset_user_password and the handlers of 2FA revoke is gone when
\* they are through: no session of an earlier password but those that overlap the
\* change, and no account with 2FA on without a secret, or off with backup codes.
THEOREM RevocationsAreKept == Spec => []RevocationsHold
<1>1. IInv => RevocationsHold
  BY FactorSettles DEF IInv, RevocationsHold
<1> QED
  BY Invariance, <1>1, PTL
=============================================================================
