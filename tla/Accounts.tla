------------------------------ MODULE Accounts ------------------------------
(***************************************************************************)
(* Accounts, their sessions and their second factor: registration, login   *)
(* in one or two steps, logout, changes of password and of two-factor      *)
(* authentication, and what an administrator does to an account.           *)
(*                                                                         *)
(* A request reads the account's row, then runs the SQL statements of its  *)
(* handler one by one, outside any transaction, so that the statements of  *)
(* concurrent requests interleave: task[w].todo holds those still to run.  *)
(* Consecutive SELECTs of a handler are one read.  Statements succeed.     *)
(* Administrators act at any time: their own accounts are not modelled.    *)
(* A row whose time is over (session, ticket, tracker) is removed at once: *)
(* the code ignores it until the query that deletes it.                    *)
(***************************************************************************)
EXTENDS Integers, Sequences, FiniteSets, SequencesExt

CONSTANTS
  User,         \* usernames; an account deleted is not registered again
  Worker,       \* requests in flight at once
  Idle,         \* a worker without a request
  MaxSessions,  \* MAX_SESSIONS_PER_USER
  MaxFailures,  \* LOGIN_MAX_FAILURES and TOTP_MAX_FAILURES
  MaxTrackers,  \* MAX_TRACKERS
  MaxIssued,    \* bound on the tokens and tickets generated
  MaxPasswords  \* bound on the passwords an account has had

ASSUME BoundsAssumption ==
  /\ IsFiniteSet(Worker) /\ MaxIssued \in Nat
  /\ MaxSessions \in Nat /\ MaxFailures \in Nat /\ MaxTrackers \in Nat

VARIABLES
  account,   \* table users
  codes,     \* users with an unused row in table backup_codes
  sessions,  \* table user_tokens, per user, oldest first
  tickets,   \* state.mfa_tickets
  failures,  \* state.login_failures: name |-> failures in the window
  attempts,  \* state.totp_attempts
  task,      \* what each request has read, and what it does next
  issued,    \* tokens and tickets generated so far
  mixed      \* history: users for whom requests on 2FA have overlapped

vars == <<account, codes, sessions, tickets, failures, attempts, task, issued,
          mixed>>

Account == [status: {"none", "live", "gone"}, pw: Nat, disabled: BOOLEAN,
            secret: BOOLEAN, twofa: BOOLEAN]

\* History: the password that was verified, the ticket if there was one, and
\* whether a change of password that overlaps the login may leave the session.
Session == [id: Nat, pw: Nat, from: Nat, kept: BOOLEAN]
Ticket == [id: Nat, user: User, pw: Nat]

Statement == {"decide", "code", "consume", "insert", "count", "trim", "create",
              "password", "others", "tokens", "clear2fa", "codes", "newcodes",
              "secret", "confirm", "enable", "disable", "delete"}

Request == [todo: Seq(Statement), user: User, row: Account, key: Nat,
            from: Nat]

ASSUME SentinelAssumption == Idle \notin Request

TypeOK ==
  /\ account \in [User -> Account]
  /\ codes \subseteq User
  /\ sessions \in [User -> Seq(Session)]
  /\ tickets \subseteq Ticket
  /\ DOMAIN failures \subseteq User /\ DOMAIN attempts \subseteq User
  /\ \A u \in DOMAIN failures : failures[u] \in Nat
  /\ \A u \in DOMAIN attempts : attempts[u] \in Nat
  /\ task \in [Worker -> Request \cup {Idle}]
  /\ \A w \in Worker : task[w] # Idle => task[w].todo # <<>>
  /\ issued \in 0..MaxIssued
  /\ mixed \subseteq User

NewAccount == [status |-> "none", pw |-> 0, disabled |-> FALSE, secret |-> FALSE,
               twofa |-> FALSE]

Init ==
  /\ account = [u \in User |-> NewAccount]
  /\ codes = {} /\ sessions = [u \in User |-> <<>>]
  /\ tickets = {} /\ failures = <<>> /\ attempts = <<>>
  /\ task = [w \in Worker |-> Idle]
  /\ issued = 0 /\ mixed = {}

Live(u) == account[u].status = "live"
SessionIds(u) == {sessions[u][i].id : i \in DOMAIN sessions[u]}
Without(map, u) == [v \in DOMAIN map \ {u} |-> map[v]]

\* check_login_rate_limit and check_totp_rate_limit: room for a tracker, and the user below the limit.
Reserved(map, u) ==
  IF u \in DOMAIN map THEN map
  ELSE [v \in DOMAIN map \cup {u} |-> IF v = u THEN 0 ELSE map[v]]
\* Mutant: only the room for a tracker is checked, not the failures.
HasTracker(map, u) == u \in DOMAIN map \/ Cardinality(DOMAIN map) < MaxTrackers
Admitted(map, u) ==
  /\ HasTracker(map, u)
  /\ Reserved(map, u)[u] < MaxFailures
Recorded(map, u) == IF u \in DOMAIN map THEN [map EXCEPT ![u] = @ + 1] ELSE map

\* AuthUser: the session exists, and the account is not disabled.
Authenticated(u, s) ==
  s \in SessionIds(u) /\ Live(u) /\ ~account[u].disabled

\* The bound MaxIssued leaves room for what running requests will generate.
Holds(t, names) == t # Idle /\ \E i \in DOMAIN t.todo : t.todo[i] \in names
Generators == {w \in Worker : Holds(task[w], {"create", "consume"})}
Room == issued + Cardinality(Generators) < MaxIssued

\* A handler has read what it checks, and has these statements to run.
Asks(u, todo, row, key, from) ==
  [todo |-> todo, user |-> u, row |-> row, key |-> key, from |-> from]
Handler(u, todo, key) == Asks(u, todo, NewAccount, key, 0)
Verified(pw) == [NewAccount EXCEPT !.pw = pw]
Runs(w, name) == task[w] # Idle /\ Head(task[w].todo) = name
Finish(w) == task' = [task EXCEPT ![w] = Idle]
\* The request goes on with its next statement.
Advance(w) == task' = [task EXCEPT ![w] =
  IF Len(@.todo) = 1 THEN Idle
  ELSE Asks(@.user, Tail(@.todo), @.row, @.key, @.from)]
GoOn(w, todo, key, from) == task' = [task EXCEPT ![w] =
  Asks(@.user, todo, Verified(@.row.pw), key, from)]
SignIn == <<"insert", "count">>

On2FA == {"confirm", "enable", "secret", "clear2fa", "codes", "newcodes"}
About2FA(t) == Holds(t, On2FA)
Note2FA(u, todo) == mixed' =
  IF /\ \E i \in DOMAIN todo : todo[i] \in On2FA
     /\ \E w \in Worker : About2FA(task[w]) /\ task[w].user = u
  THEN mixed \cup {u} ELSE mixed

Begin(w, u, todo, key) ==
  /\ task[w] = Idle
  /\ task' = [task EXCEPT ![w] = Handler(u, todo, key)]
  /\ Note2FA(u, todo)
  /\ UNCHANGED <<account, codes, sessions, tickets, issued>>

Untracked == UNCHANGED <<failures, attempts>>
-----------------------------------------------------------------------------
Register(w, u) ==
  /\ account[u].status = "none" /\ Room
  /\ Begin(w, u, <<"create", "insert", "count">>, 0) /\ Untracked

\* The INSERT fails on the UNIQUE username when another request was faster.
Create(w) ==
  LET u == task[w].user IN
  /\ Runs(w, "create")
  /\ IF account[u].status # "none"
     THEN Finish(w) /\ UNCHANGED <<account, issued>>
     ELSE /\ account' = [account EXCEPT ![u] = [NewAccount EXCEPT !.status = "live", !.pw = 1]]
          /\ issued' = issued + 1
          /\ task' = [task EXCEPT ![w] = Asks(u, Tail(@.todo), Verified(1), issued', 0)]
  /\ UNCHANGED <<codes, sessions, tickets, mixed>> /\ Untracked

Login(w, u) ==
  /\ Admitted(failures, u)
  /\ failures' = Reserved(failures, u)
  /\ task[w] = Idle
  /\ task' = [task EXCEPT ![w] = Asks(u, <<"decide">>, account[u], 0, 0)]
  /\ UNCHANGED <<account, codes, sessions, tickets, attempts, issued, mixed>>

LoginFails(w) ==
  LET u == task[w].user IN
  /\ Runs(w, "decide")
  /\ failures' = IF task[w].row.disabled THEN failures ELSE Recorded(failures, u)
  /\ Finish(w)
  /\ UNCHANGED <<account, codes, sessions, tickets, attempts, issued, mixed>>

PasswordRight(w) ==
  /\ Runs(w, "decide") /\ Room
  /\ task[w].row.status = "live" /\ ~task[w].row.disabled
  /\ failures' = Without(failures, task[w].user)
  /\ issued' = issued + 1

IssueToken(w) ==
  /\ PasswordRight(w) /\ ~task[w].row.twofa
  /\ GoOn(w, SignIn, issued', 0)
  /\ UNCHANGED <<account, codes, sessions, tickets, attempts, mixed>>

\* The new ticket replaces the user's earlier one, under tracker_lock.
IssueTicket(w) ==
  LET others == {t \in tickets : t.user # task[w].user} IN
  /\ PasswordRight(w) /\ task[w].row.twofa
  /\ tickets' = IF Cardinality(others) >= MaxTrackers THEN others
                ELSE others \cup {[id |-> issued', user |-> task[w].user,
                                   pw |-> task[w].row.pw]}
  /\ Finish(w)
  /\ UNCHANGED <<account, codes, sessions, attempts, mixed>>

\* Mutant: looks the ticket up without removing it.
TicketsAfterLookup(t) == tickets
TicketsAfter(t) == tickets \ {t}

\* The ticket is taken out of the map whatever becomes of the attempt.
RedeemTicket(w, t) ==
  /\ task[w] = Idle
  /\ tickets' = TicketsAfter(t)
  /\ IF Admitted(attempts, t.user)
     THEN /\ attempts' = Reserved(attempts, t.user)
          /\ task' = [task EXCEPT ![w] =
               Asks(t.user, <<"code">>, Verified(t.pw), 0, t.id)]
     ELSE UNCHANGED <<attempts, task>>
  /\ UNCHANGED <<account, codes, sessions, failures, issued, mixed>>

CodeWrong(w) ==
  /\ Runs(w, "code")
  /\ attempts' = Recorded(attempts, task[w].user)
  /\ Finish(w)
  /\ UNCHANGED <<account, codes, sessions, tickets, failures, issued, mixed>>

\* Without a stored secret no code is accepted: "no secret stored".
TotpRight(w) ==
  LET u == task[w].user IN
  /\ Runs(w, "code") /\ Room
  /\ Live(u) /\ account[u].secret
  /\ attempts' = Without(attempts, u)
  /\ issued' = issued + 1
  /\ GoOn(w, SignIn, issued', task[w].from)
  /\ UNCHANGED <<account, codes, sessions, tickets, failures, mixed>>

\* The SELECT finds the code unused; the UPDATE is a statement of its own.
BackupCodeFound(w) ==
  /\ Runs(w, "code") /\ Room /\ task[w].user \in codes
  /\ GoOn(w, <<"consume">>, 0, task[w].from)
  /\ UNCHANGED <<account, codes, sessions, tickets, attempts, failures, issued, mixed>>

\* There may be others of the ten left.
ConsumeCode(w) ==
  LET u == task[w].user IN
  /\ Runs(w, "consume")
  /\ codes' \in {codes, codes \ {u}}
  /\ attempts' = Without(attempts, u)
  /\ issued' = issued + 1
  /\ GoOn(w, SignIn, issued', task[w].from)
  /\ UNCHANGED <<account, sessions, tickets, failures, mixed>>

\* The foreign key refuses a token of an account deleted meanwhile.
InsertToken(w) ==
  LET t == task[w]  u == t.user IN
  /\ Runs(w, "insert")
  /\ IF Live(u)
     THEN /\ sessions' = [sessions EXCEPT ![u] =
               Append(@, [id |-> t.key, pw |-> t.row.pw, from |-> t.from,
                          kept |-> t.row.pw # account[u].pw])]
          /\ task' = [task EXCEPT ![w] = Handler(u, <<"count">>, 0)]
     ELSE Finish(w) /\ UNCHANGED sessions
  /\ UNCHANGED <<account, codes, tickets, issued, mixed>> /\ Untracked

Excess(u) == Len(sessions[u]) - MaxSessions

CountSessions(w) ==
  LET excess == Excess(task[w].user) IN
  /\ Runs(w, "count")
  /\ IF excess > 0 THEN GoOn(w, <<"trim">>, excess, 0) ELSE Finish(w)
  /\ UNCHANGED <<account, codes, sessions, tickets, issued, mixed>>
  /\ Untracked

\* Deletes as many of the oldest as were counted in excess, whatever is left.
TrimSessions(w) ==
  LET u == task[w].user IN
  /\ Runs(w, "trim")
  /\ sessions' = [sessions EXCEPT ![u] = SubSeq(@, task[w].key + 1, Len(@))]
  /\ Finish(w)
  /\ UNCHANGED <<account, codes, tickets, issued, mixed>> /\ Untracked
-----------------------------------------------------------------------------
\* The token's hash is the table's key: there is one row.
Delete(u, s) ==
  \E i \in DOMAIN sessions[u] :
    sessions[u][i].id = s /\ sessions' = [sessions EXCEPT ![u] = RemoveAt(@, i)]

Logout(u, s) ==
  /\ Authenticated(u, s)
  /\ Delete(u, s)
  /\ UNCHANGED <<account, codes, tickets, task, issued, mixed>>
  /\ Untracked

RevokeAllSessions(u, s) ==
  /\ Authenticated(u, s)
  /\ sessions' = [sessions EXCEPT ![u] = <<>>]
  /\ UNCHANGED <<account, codes, tickets, task, issued, mixed>>
  /\ Untracked

\* What the handlers below run once they have verified a password, or the
\* caller's right to administer the server.
\* Mutant: sessions are only revoked by a change, not by a reset.
ResetKeepsSessions == <<"password", "clear2fa", "codes">>
ChangeStatements == <<"password", "others">>
ResetStatements == <<"password", "tokens", "clear2fa", "codes">>
VerifyStatements == <<"confirm", "enable", "codes", "newcodes">>
Disable2FAStatements == <<"clear2fa", "codes">>

ChangePassword(w, u, s) ==
  /\ Authenticated(u, s) /\ account[u].pw < MaxPasswords
  /\ Begin(w, u, ChangeStatements, s) /\ Untracked

Enable2FA(w, u, s) ==
  /\ Authenticated(u, s) /\ ~account[u].twofa
  /\ Begin(w, u, <<"secret">>, 0) /\ Untracked

Verify2FA(w, u, s) ==
  /\ Authenticated(u, s)
  /\ Admitted(attempts, u)
  /\ ~account[u].twofa /\ account[u].secret
  /\ Begin(w, u, VerifyStatements, 0)
  /\ attempts' = Reserved(attempts, u)
  /\ UNCHANGED failures

Confirm(w, right) ==
  LET u == task[w].user IN
  /\ Runs(w, "confirm")
  /\ attempts' = IF right THEN Without(attempts, u) ELSE Recorded(attempts, u)
  /\ IF right THEN Advance(w) ELSE Finish(w)
  /\ UNCHANGED <<account, codes, sessions, tickets, failures, issued, mixed>>

Disable2FA(w, u, s) ==
  /\ Authenticated(u, s)
  /\ Begin(w, u, Disable2FAStatements, 0) /\ Untracked

RegenerateBackupCodes(w, u, s) ==
  /\ Authenticated(u, s) /\ account[u].twofa
  /\ Begin(w, u, <<"codes", "newcodes">>, 0) /\ Untracked

DeleteCurrentUser(w, u, s) ==
  /\ Authenticated(u, s)
  /\ Begin(w, u, <<"delete">>, 0) /\ Untracked

\* update_user, with each field it decides something about.
DisableUser(w, u) ==
  /\ Live(u)
  /\ Begin(w, u, <<"disable", "tokens">>, 0) /\ Untracked

EnableUser(u) ==
  /\ Live(u)
  /\ account' = [account EXCEPT ![u] = [@ EXCEPT !.disabled = FALSE]]
  /\ UNCHANGED <<codes, sessions, tickets, task, issued, mixed>>
  /\ Untracked

DeleteUser(w, u) ==
  /\ Live(u)
  /\ Begin(w, u, <<"delete">>, 0) /\ Untracked

ResetUserPassword(w, u) ==
  /\ Live(u) /\ account[u].pw < MaxPasswords
  /\ Begin(w, u, ResetStatements, 0) /\ Untracked
-----------------------------------------------------------------------------
\* The statements of those handlers: each changes a row, or deletes some.
UpdateUser(w, name, row) ==
  /\ Runs(w, name)
  /\ account' = IF Live(task[w].user)
                THEN [account EXCEPT ![task[w].user] = row] ELSE account
  /\ Advance(w)
  /\ UNCHANGED <<codes, sessions, tickets, issued, mixed>> /\ Untracked

UpdateRow(w) ==
  /\ task[w] # Idle
  /\ LET row == account[task[w].user] IN
     \/ UpdateUser(w, "password", [row EXCEPT !.pw = @ + 1])
     \/ UpdateUser(w, "secret", [row EXCEPT !.secret = TRUE])
     \/ UpdateUser(w, "enable", [row EXCEPT !.twofa = TRUE])
     \/ UpdateUser(w, "clear2fa", [row EXCEPT !.twofa = FALSE, !.secret = FALSE])
     \/ UpdateUser(w, "disable", [row EXCEPT !.disabled = TRUE])

\* Revokes the sessions, but for the one that changed the password, if it is
\* still there.
DeleteTokens(w) ==
  LET u == task[w].user
      Leaves(list) == sessions' = [sessions EXCEPT ![u] = list]
      own == {i \in DOMAIN sessions[u] : sessions[u][i].id = task[w].key}
  IN
  /\ \/ Runs(w, "tokens") /\ Leaves(<<>>)
     \/ Runs(w, "others") /\ own = {} /\ Leaves(<<>>)
     \/ /\ Runs(w, "others")
        /\ \E i \in own : Leaves(<<[sessions[u][i] EXCEPT !.kept = TRUE]>>)
  /\ Advance(w)
  /\ UNCHANGED <<account, codes, tickets, issued, mixed>> /\ Untracked

DeleteCodes(w) ==
  /\ Runs(w, "codes")
  /\ codes' = codes \ {task[w].user}
  /\ Advance(w)
  /\ UNCHANGED <<account, sessions, tickets, issued, mixed>>
  /\ Untracked

InsertCodes(w) ==
  LET u == task[w].user IN
  /\ Runs(w, "newcodes")
  /\ codes' = IF Live(u) THEN codes \cup {u} ELSE codes
  /\ Advance(w)
  /\ UNCHANGED <<account, sessions, tickets, issued, mixed>> /\ Untracked

\* One transaction over every table that refers to the account.
DeleteAccount(w) ==
  LET u == task[w].user IN
  /\ Runs(w, "delete")
  /\ account' = [account EXCEPT ![u] = [NewAccount EXCEPT !.status = "gone"]]
  /\ codes' = codes \ {u}
  /\ sessions' = [sessions EXCEPT ![u] = <<>>]
  /\ Finish(w)
  /\ UNCHANGED <<tickets, issued, mixed>> /\ Untracked

SessionExpires(u, s) ==
  /\ s \in SessionIds(u)
  /\ Delete(u, s)
  /\ UNCHANGED <<account, codes, tickets, task, issued, mixed>>
  /\ Untracked

TicketExpires(t) ==
  /\ tickets' = tickets \ {t}
  /\ UNCHANGED <<account, codes, sessions, task, issued, mixed>>
  /\ Untracked

WindowEnds(u) ==
  /\ u \in DOMAIN failures \cup DOMAIN attempts
  /\ failures' = Without(failures, u) /\ attempts' = Without(attempts, u)
  /\ UNCHANGED <<account, codes, sessions, tickets, task, issued, mixed>>
-----------------------------------------------------------------------------
Execute(w) ==
  \/ Create(w) \/ LoginFails(w) \/ IssueToken(w) \/ IssueTicket(w)
  \/ CodeWrong(w) \/ TotpRight(w) \/ ConsumeCode(w) \/ InsertToken(w)
  \/ CountSessions(w) \/ TrimSessions(w) \/ UpdateRow(w)
  \/ DeleteTokens(w) \/ DeleteCodes(w) \/ InsertCodes(w) \/ DeleteAccount(w)
  \/ BackupCodeFound(w)
  \/ \E right \in BOOLEAN : Confirm(w, right)

OwnAccount(w, u, s) ==
  \/ ChangePassword(w, u, s) \/ Enable2FA(w, u, s) \/ Verify2FA(w, u, s)
  \/ Disable2FA(w, u, s) \/ RegenerateBackupCodes(w, u, s)
  \/ DeleteCurrentUser(w, u, s)

AnyAccount(w, u) ==
  \/ Register(w, u) \/ Login(w, u) \/ DisableUser(w, u) \/ DeleteUser(w, u)
  \/ ResetUserPassword(w, u)

Next ==
  \/ \E w \in Worker : Execute(w)
  \/ \E w \in Worker, u \in User :
       AnyAccount(w, u) \/ \E s \in SessionIds(u) : OwnAccount(w, u, s)
  \/ \E w \in Worker, t \in tickets : RedeemTicket(w, t)
  \/ \E u \in User : EnableUser(u) \/ WindowEnds(u)
  \/ \E u \in User : \E s \in SessionIds(u) :
       Logout(u, s) \/ RevokeAllSessions(u, s) \/ SessionExpires(u, s)
  \/ \E t \in tickets : TicketExpires(t)

Spec == Init /\ [][Next]_vars
-----------------------------------------------------------------------------
\* A user has at most MaxSessions sessions, and one more for each login that
\* has inserted its token but not yet counted or trimmed (enforce_session_limit
\* after each INSERT INTO user_tokens).
SessionLimit ==
  \A u \in User : Len(sessions[u]) <= MaxSessions + Cardinality({w \in Worker :
    (Runs(w, "count") \/ Runs(w, "trim")) /\ task[w].user = u})

\* A ticket signs in at most once, and a user has at most one: a ticket that a
\* request or a session stems from is no longer in mfa_tickets, and no two of
\* them stem from the same one.
Origins == [w \in {v \in Worker : task[v] # Idle} |-> task[w].from]
TicketOnce ==
  /\ \A t \in tickets : /\ \A v \in tickets : t.user = v.user => t = v
                         /\ \A w \in DOMAIN Origins : Origins[w] # t.id
  /\ \A v, w \in DOMAIN Origins :
       v # w /\ Origins[v] # 0 => Origins[v] # Origins[w]
  /\ \A u \in User : \A i \in DOMAIN sessions[u] :
       sessions[u][i].from # 0 =>
         /\ \A t \in tickets : t.id # sessions[u][i].from
         /\ \A j \in DOMAIN sessions[u] :
              sessions[u][j].from = sessions[u][i].from => i = j

\* The limit on failed logins is checked when a request starts and counted when
\* it ends: requests in flight overshoot it, by no more than their number.
FailuresBounded ==
  \A u \in DOMAIN failures :
    failures[u] < MaxFailures + Cardinality(Worker)

\* When a change or a reset of a password is through, the sessions signed in
\* with an earlier password are gone, except the one that made the change and
\* those whose login overlaps it.
OldSessionsEnd ==
  \A u \in User : \A i \in DOMAIN sessions[u] :
    \/ sessions[u][i].pw = account[u].pw
    \/ sessions[u][i].kept
    \/ \E w \in Worker : task[w] # Idle /\ task[w].user = u
         /\ \E k \in DOMAIN task[w].todo : task[w].todo[k] \in {"others", "tokens"}

\* Unless two requests on a user's 2FA have overlapped, it is in order between
\* them: enabled with a secret to check codes against, or off and without
\* backup codes (verify_2fa, disable_2fa, reset_user_password).
TwoFactorSettled ==
  \A u \in User \ mixed :
    (\A w \in Worker : ~(About2FA(task[w]) /\ task[w].user = u)) =>
      /\ account[u].twofa => account[u].secret
      /\ ~account[u].twofa => u \notin codes

\* What the login guards keep, statement by statement: the limit on sessions,
\* tickets used once, failures counted.
SignInsHold == TypeOK /\ SessionLimit /\ TicketOnce /\ FailuresBounded

\* What a change of the password or of 2FA takes away is gone when it is through.
RevocationsHold == OldSessionsEnd /\ TwoFactorSettled
=============================================================================
