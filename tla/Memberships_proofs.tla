------------------------- MODULE Memberships_proofs --------------------------
(***************************************************************************)
(* Proofs about what MCMemberships checks: permissions, leaderboards,      *)
(* activities, direct channels, relationships and memberships,             *)
(* for any users, roles, requests in flight and limits.                    *)
(***************************************************************************)
EXTENDS MCMemberships, TLAPS, WellFoundedInduction, FiniteSetTheorems, SequenceTheorems
-----------------------------------------------------------------------------
\* Highest positions exist.

LEMMA LessIsWellFounded ==
  \E Less : IsWellFoundedOn(Less, Nat) /\ \A x, y \in Nat : <<x, y>> \in Less <=> x < y
<1> DEFINE Less == OpToRel(<, Nat)
<1>1. IsWellFoundedOn(Less, Nat)
  BY NatLessThanWellFounded
<1>2. \A x, y \in Nat : <<x, y>> \in Less <=> x < y
  BY DEF OpToRel
<1> HIDE DEF Less
<1> QED BY <1>1, <1>2

LEMMA LeastNumber ==
  ASSUME NEW T, T \subseteq Nat, T # {}
  PROVE  \E n \in T : \A k \in T : n <= k
<1>1. PICK Less : IsWellFoundedOn(Less, Nat) /\ \A x, y \in Nat : <<x, y>> \in Less <=> x < y
  BY LessIsWellFounded
<1>2. \E n \in T : \A k \in T : ~ (<<k, n>> \in Less)
  <2>1. IsWellFoundedOn(Less, Nat)
    BY <1>1
  <2> QED BY <2>1, WFMin, Zenon
<1>3. PICK n \in T : \A k \in T : ~ (<<k, n>> \in Less)
  BY <1>2
<1>4. \A k \in T : n <= k
  <2> TAKE k \in T
  <2>1. k \in Nat /\ n \in Nat
    OBVIOUS
  <2>2. ~(k < n)
    BY <2>1, <1>1, <1>3
  <2> QED BY <2>1, <2>2
<1> QED BY <1>4

LEMMA MaxOfBounds ==
  ASSUME NEW N \in Nat, NEW S, S \subseteq 0..N, S # {}
  PROVE  MaxOf(S) \in S /\ \A k \in S : k <= MaxOf(S)
<1> DEFINE T == {N - k : k \in S}
<1>1. T \subseteq Nat /\ T # {}
  <2>1. \A k \in S : k \in 0..N /\ N - k \in Nat
    OBVIOUS
  <2>2. PICK k \in S : TRUE
    OBVIOUS
  <2>3. N - k \in T
    BY <2>2
  <2> QED BY <2>1, <2>3
<1>2. PICK m \in T : \A k \in T : m <= k
  BY <1>1, LeastNumber
<1>3. PICK n \in S : m = N - n
  BY <1>2
<1>4. \A k \in S : k <= n
  <2> TAKE k \in S
  <2>1. N - k \in T
    OBVIOUS
  <2>2. m <= N - k
    BY <2>1, <1>2
  <2>3. k \in 0..N /\ n \in 0..N
    OBVIOUS
  <2> QED BY <2>2, <2>3, <1>3
<1> QED BY <1>4 DEF MaxOf

\* A rank is at least the position of each role held, and the owner's is above
\* all positions.
LEMMA RankBounds ==
  ASSUME TypeOK, NEW u \in User
  PROVE  /\ Rank(u) \in 0..(Top + 1)
         /\ \A r \in holds[u] : position[r] <= Rank(u)
         /\ u = Owner => Rank(u) = Top + 1
<1> USE PermAssumption
<1> DEFINE S == {0} \cup {position[r] : r \in holds[u]}
<1>1. \A r \in holds[u] : r \in AnyRole /\ position[r] \in 0..Top
  BY DEF TypeOK
<1>2. S \subseteq 0..Top /\ S # {}
  BY <1>1
<1>3. MaxOf(S) \in S /\ \A k \in S : k <= MaxOf(S)
  BY <1>2, MaxOfBounds
<1>4. MaxOf(S) \in 0..Top
  BY <1>2, <1>3
<1>5. CASE u = Owner
  BY <1>1, <1>5 DEF Rank
<1>6. CASE u # Owner
  BY <1>1, <1>3, <1>4, <1>6 DEF Rank
<1> QED BY <1>5, <1>6

LEMMA HighestIsPosition ==
  ASSUME TypeOK
  PROVE  MaxOf({position[q] : q \in AnyRole}) \in 0..Top
<1> USE PermAssumption
<1> DEFINE S == {position[q] : q \in AnyRole}
<1>1. S \subseteq 0..Top
  BY DEF TypeOK
<1>2. position[Everyone] \in S
  BY DEF AnyRole
<1>3. MaxOf(S) \in S
  BY <1>1, <1>2, MaxOfBounds
<1> QED BY <1>1, <1>3
-----------------------------------------------------------------------------
\* What the checks of a request that is not stale have found still holds.
Backed(q) == \A a \in User : q.by = a =>
  /\ q.op = "create" => a = Owner
  /\ q.op \in {"grant", "delete", "remove"} => position[q.role] < Rank(a)
  /\ q.op = "grant" => \/ Administrator \in MemberPermissions(a)
                       \/ q.value.allow \subseteq MemberPermissions(a)
  /\ q.op = "order" => \A r \in AnyRole :
       \/ q.order[r] = position[r]
       \/ position[r] < Rank(a) /\ q.order[r] < Rank(a)
  /\ q.op \in {"add", "clear"} => \A r \in q.roles : position[r] < Rank(a)
  /\ q.op = "add" => q.on # a \/ \A r, s \in q.roles : r = s
  /\ q.op = "clear" => \A u \in User : q.on = u => Rank(u) < Rank(a)
  /\ q.op = "overwrite" => \A x \in Target, p \in Perm :
       q.on = x /\ p \in q.value.allow \cup q.value.deny
                         \cup over[x].allow \cup over[x].deny
         => Has(ChannelPermissions(a), p)

IInv == /\ TypeOK
        /\ \A w \in Slot : pending[w] # Empty /\ ~pending[w].stale => Backed(pending[w])

LEMMA SameRights ==
  ASSUME UNCHANGED <<members, position, grants, holds, over>>, NEW a \in User
  PROVE  /\ Rank(a)' = Rank(a)
         /\ MemberPermissions(a)' = MemberPermissions(a)
         /\ ChannelPermissions(a)' = ChannelPermissions(a)
<1>1. Rank(a)' = Rank(a)
  BY DEF Rank
<1>2. MemberPermissions(a)' = MemberPermissions(a)
  BY DEF MemberPermissions
<1>3. ChannelPermissions(a)' = ChannelPermissions(a)
  BY <1>2 DEF ChannelPermissions, Merge, Allowed, Denied
<1> QED BY <1>1, <1>2, <1>3

LEMMA SubmitStep ==
  ASSUME IInv, NEW w \in Slot, NEW write \in Write, Submit(w, write), Backed(write)
  PROVE  IInv'
<1>1. TypeOK'
  BY DEF IInv, TypeOK, Submit
<1>2. ASSUME NEW v \in Slot, pending'[v] # Empty, ~pending'[v].stale
      PROVE  Backed(pending[v])'
  <2>1. UNCHANGED <<members, position, grants, holds, over>>
    BY DEF Submit
  <2>2. \A a \in User : /\ Rank(a)' = Rank(a)
                        /\ MemberPermissions(a)' = MemberPermissions(a)
                        /\ ChannelPermissions(a)' = ChannelPermissions(a)
    BY <2>1, SameRights
  <2>3. CASE v = w
    <3>1. pending'[v] = write
      BY <2>3 DEF Submit, IInv, TypeOK
    <3> QED BY <2>1, <2>2, <3>1 DEF Backed, Has
  <2>4. CASE v # w
    <3>1. pending'[v] = pending[v]
      BY <2>4 DEF Submit, IInv, TypeOK
    <3>2. Backed(pending[v])
      BY <1>2, <3>1 DEF IInv
    <3> QED BY <2>1, <2>2, <3>1, <3>2 DEF Backed, Has
  <2> QED BY <2>3, <2>4
<1> QED BY <1>1, <1>2 DEF IInv

\* A request as it is first written down.
LEMMA NewWriteType ==
  ASSUME NEW op \in Op, NEW a \in User, NEW x \in Target
  PROVE  /\ NewWrite(op, a, x) \in Write
         /\ NewWrite(op, a, x).op = op /\ NewWrite(op, a, x).by = a
         /\ NewWrite(op, a, x).on = x /\ NewWrite(op, a, x).value = NoOverwrite
BY PermAssumption DEF NewWrite, Write, Order, NoOverwrite, Overwrite, AnyRole

\* Every request is submitted with what its checks have found.
LEMMA RequestStep ==
  ASSUME IInv, NEW w \in Slot, NEW a \in members, Requests(w, a)
  PROVE  \E write \in Write : Submit(w, write) /\ Backed(write)
<1> USE PermAssumption
<1> DEFINE Asked == \E write \in Write : Submit(w, write) /\ Backed(write)
<1>0. a \in User /\ TypeOK
  BY DEF IInv, TypeOK
<1>1. ASSUME NEW r \in Role, NEW perms \in Arrays, CreateRole(w, a, r, perms)
      PROVE  Asked
  <2> DEFINE h == MaxOf({position[q] : q \in AnyRole})
  <2> DEFINE n == NewWrite("create", a, r)
  <2> DEFINE q == [n EXCEPT !.role = r, !.value.allow = perms,
       !.order = [x \in AnyRole |-> IF x = r THEN h + 1 ELSE 0]]
  <2>1. h \in 0..Top /\ h < Top
    BY <1>0, <1>1, HighestIsPosition DEF CreateRole
  <2>2. q \in Write /\ q.op = "create" /\ q.by = a
    <3>1. h + 1 \in 0..Top /\ 0 \in 0..Top
      BY <2>1
    <3>2. r \in Target /\ r \in AnyRole /\ perms \in SUBSET Perm
      BY DEF Target, AnyRole
    <3>3. n \in Write /\ n.op = "create" /\ n.by = a
      BY <1>0, <3>2, NewWriteType DEF Op
    <3> HIDE DEF h, n
    <3>4. [x \in AnyRole |-> IF x = r THEN h + 1 ELSE 0] \in Order
      BY <3>1 DEF Order, AnyRole
    <3> QED BY <3>2, <3>3, <3>4 DEF Write, Overwrite
  <2>3. Backed(q)
    BY <2>2, <1>1 DEF Backed, CreateRole
  <2>4. Submit(w, q)
    BY <1>1 DEF CreateRole
  <2> QED BY <2>2, <2>3, <2>4
<1>2. ASSUME NEW r \in AnyRole, NEW perms \in Arrays, UpdateRole(w, a, r, perms)
      PROVE  Asked
  <2> DEFINE n == NewWrite("grant", a, r)
  <2> DEFINE q == [n EXCEPT !.role = r, !.value.allow = perms]
  <2>0. n \in Write /\ n.op = "grant" /\ n.by = a /\ n.on = r
    BY <1>0, NewWriteType DEF Op, Target, AnyRole
  <2>1. q \in Write /\ q.op = "grant" /\ q.by = a /\ q.role = r /\ q.value.allow = perms
    <3> HIDE DEF n
    <3> QED BY <2>0 DEF Write, Overwrite, AnyRole
  <2>2. Backed(q)
    BY <2>1, <1>2 DEF Backed, UpdateRole, MayGrant
  <2>3. Submit(w, q)
    BY <1>2 DEF UpdateRole
  <2> QED BY <2>1, <2>2, <2>3
<1>3. ASSUME NEW r \in Role, DeleteRole(w, a, r)
      PROVE  Asked
  <2> DEFINE n == NewWrite("delete", a, r)
  <2> DEFINE q == [n EXCEPT !.role = r]
  <2>0. n \in Write /\ n.op = "delete" /\ n.by = a /\ n.on = r
    BY <1>0, NewWriteType DEF Op, Target, AnyRole
  <2>1. q \in Write /\ q.op = "delete" /\ q.by = a /\ q.role = r
    <3> HIDE DEF n
    <3> QED BY <2>0 DEF Write, Overwrite, AnyRole
  <2>2. position[r] < Rank(a)
    BY <1>0, <1>3, RankBounds DEF DeleteRole, TypeOK, AnyRole
  <2>3. Backed(q)
    BY <2>1, <2>2 DEF Backed
  <2>4. Submit(w, q)
    BY <1>3 DEF DeleteRole
  <2> QED BY <2>1, <2>3, <2>4
<1>4. ASSUME NEW order \in [AnyRole -> 0..Top], ReorderRoles(w, a, order)
      PROVE  Asked
  <2> DEFINE n == NewWrite("order", a, Everyone)
  <2> DEFINE q == [n EXCEPT !.order = order]
  <2>0. n \in Write /\ n.op = "order" /\ n.by = a /\ n.on = Everyone
    BY <1>0, NewWriteType DEF Op, Target, AnyRole
  <2>1. q \in Write /\ q.op = "order" /\ q.by = a /\ q.order = order
    <3>1. order \in Order
      BY <1>0, <1>4 DEF ReorderRoles, KeepsZero, Order, TypeOK, AnyRole
    <3> HIDE DEF n
    <3> QED BY <2>0, <3>1 DEF Write
  <2>2. Backed(q)
    BY <2>1, <1>4 DEF Backed, ReorderRoles
  <2>3. Submit(w, q)
    BY <1>4 DEF ReorderRoles
  <2> QED BY <2>1, <2>2, <2>3
<1>5. ASSUME NEW u \in User, NEW r \in AnyRole, AddRole(w, a, u, r)
      PROVE  Asked
  <2> DEFINE n == NewWrite("add", a, u)
  <2> DEFINE q == [n EXCEPT !.roles = {r}]
  <2>0. n \in Write /\ n.op = "add" /\ n.by = a /\ n.on = u
    BY <1>0, NewWriteType DEF Op, Target, AnyRole
  <2>1. q \in Write /\ q.op = "add" /\ q.by = a /\ q.roles = {r}
    <3> HIDE DEF n
    <3> QED BY <2>0 DEF Write, Overwrite, AnyRole
  <2>2. Backed(q)
    BY <2>1, <1>5 DEF Backed, AddRole, Below
  <2>3. Submit(w, q)
    BY <1>5 DEF AddRole
  <2> QED BY <2>1, <2>2, <2>3
<1>6. ASSUME NEW u \in User, NEW r \in AnyRole, RemoveRole(w, a, u, r)
      PROVE  Asked
  <2> DEFINE n == NewWrite("remove", a, u)
  <2> DEFINE q == [n EXCEPT !.role = r]
  <2>0. n \in Write /\ n.op = "remove" /\ n.by = a /\ n.on = u
    BY <1>0, NewWriteType DEF Op, Target, AnyRole
  <2>1. q \in Write /\ q.op = "remove" /\ q.by = a /\ q.role = r
    <3> HIDE DEF n
    <3> QED BY <2>0 DEF Write, Overwrite, AnyRole
  <2>2. Backed(q)
    BY <2>1, <1>6 DEF Backed, RemoveRole, Below
  <2>3. Submit(w, q)
    BY <1>6 DEF RemoveRole
  <2> QED BY <2>1, <2>2, <2>3
<1>7. ASSUME NEW u \in User, NEW roles \in SUBSET Role, SetRoles(w, a, u, roles)
      PROVE  Asked
  <2> DEFINE n == NewWrite("clear", a, u)
  <2> DEFINE q == [n EXCEPT !.roles = roles]
  <2>0. n \in Write /\ n.op = "clear" /\ n.by = a /\ n.on = u
    BY <1>0, NewWriteType DEF Op, Target, AnyRole
  <2>1. q \in Write /\ q.op = "clear" /\ q.by = a /\ q.on = u /\ q.roles = roles
    <3> HIDE DEF n
    <3> QED BY <2>0 DEF Write, Overwrite, AnyRole
  <2>2. Backed(q)
    BY <2>1, <1>7 DEF Backed, SetRoles
  <2>3. Submit(w, q)
    BY <1>7 DEF SetRoles
  <2> QED BY <2>1, <2>2, <2>3
<1>8. ASSUME NEW x \in Target, NEW yes \in Arrays, NEW no \in Arrays,
             SetOverwrite(w, a, x, [allow |-> yes, deny |-> no])
      PROVE  Asked
  <2> DEFINE o == [allow |-> yes, deny |-> no]
  <2> DEFINE n == NewWrite("overwrite", a, x)
  <2> DEFINE q == [n EXCEPT !.value = o]
  <2>0. n \in Write /\ n.op = "overwrite" /\ n.by = a /\ n.on = x
    BY <1>0, NewWriteType DEF Op, Target, AnyRole
  <2>1. q \in Write /\ q.op = "overwrite" /\ q.by = a /\ q.on = x /\ q.value = o
    <3> HIDE DEF n
    <3> QED BY <2>0 DEF Write, Overwrite, AnyRole
  <2>2. Backed(q)
    BY <2>1, <1>8 DEF Backed, SetOverwrite, MayOverwrite
  <2>3. Submit(w, q)
    BY <1>8 DEF SetOverwrite
  <2> QED BY <2>1, <2>2, <2>3
<1>9. ASSUME NEW x \in Target, DeleteOverwrite(w, a, x)
      PROVE  Asked
  <2> DEFINE q == NewWrite("overwrite", a, x)
  <2>1. q \in Write /\ q.op = "overwrite" /\ q.by = a /\ q.on = x /\ q.value = NoOverwrite
    BY <1>0, NewWriteType DEF Op
  <2>2. Backed(q)
    BY <2>1, <1>9 DEF Backed, DeleteOverwrite, MayOverwrite
  <2>3. Submit(w, q)
    BY <1>9 DEF DeleteOverwrite
  <2> QED BY <2>1, <2>2, <2>3
<1> HIDE DEF Asked
<1>10. Asked
  BY <1>1, <1>2, <1>3, <1>4, <1>5, <1>6, <1>7, <1>8, <1>9 DEF Requests
<1> QED BY <1>10 DEF Asked
-----------------------------------------------------------------------------
\* Writes.

\* After a write all the other requests are stale.
LEMMA AfterOthers ==
  ASSUME TypeOK, NEW w \in Slot, NEW v \in Slot, v # w
  PROVE  /\ After(w)[v] \in Write \cup {Empty}
         /\ After(w)[v] # Empty => After(w)[v].stale
<1>1. CASE pending[v] = Empty
  BY <1>1 DEF After, TypeOK
<1>2. CASE pending[v] # Empty
  <2>1. pending[v] \in Write
    BY <1>2 DEF TypeOK
  <2>2. After(w)[v] = [pending[v] EXCEPT !.stale = TRUE]
    BY <1>2 DEF After
  <2>3. [pending[v] EXCEPT !.stale = TRUE] \in Write
    BY <2>1 DEF Write
  <2>4. [pending[v] EXCEPT !.stale = TRUE].stale
    BY <2>1 DEF Write
  <2> QED BY <2>2, <2>3, <2>4
<1> QED BY <1>1, <1>2

\* A request that is done leaves none behind that is backed.
LEMMA WrittenStep ==
  ASSUME TypeOK, NEW w \in Slot, Written(w)
  PROVE  /\ pending' \in [Slot -> Write \cup {Empty}]
         /\ writes' \in Nat
         /\ pending'[w] = Empty
         /\ \A v \in Slot : pending'[v] # Empty => pending'[v].stale
<1>1. \A v \in Slot \ {w} : /\ After(w)[v] \in Write \cup {Empty}
                            /\ After(w)[v] # Empty => After(w)[v].stale
  BY AfterOthers
<1>2. pending' = [After(w) EXCEPT ![w] = Empty] /\ writes' = writes + 1
  BY DEF Written
<1>3. \A v \in Slot \ {w} : pending'[v] = After(w)[v]
  BY <1>2 DEF After
<1>4. pending'[w] = Empty
  BY <1>2 DEF After
<1>5. pending' \in [Slot -> Write \cup {Empty}]
  <2>1. pending' = [v \in Slot |-> pending'[v]]
    BY <1>2 DEF After
  <2> QED BY <2>1, <1>1, <1>3, <1>4
<1>6. writes' \in Nat
  BY <1>2 DEF TypeOK
<1>7. \A v \in Slot : pending'[v] # Empty => pending'[v].stale
  BY <1>1, <1>3, <1>4
<1> QED BY <1>4, <1>5, <1>6, <1>7

\* A request of which only a part is done: it alone may be backed.
LEMMA PartStep ==
  ASSUME TypeOK, NEW w \in Slot, NEW q \in Write, pending' = [After(w) EXCEPT ![w] = q]
  PROVE  /\ pending' \in [Slot -> Write \cup {Empty}]
         /\ pending'[w] = q
         /\ \A v \in Slot \ {w} : pending'[v] # Empty => pending'[v].stale
<1>1. \A v \in Slot \ {w} : /\ After(w)[v] \in Write \cup {Empty}
                            /\ After(w)[v] # Empty => After(w)[v].stale
  BY AfterOthers
<1>3. \A v \in Slot \ {w} : pending'[v] = After(w)[v]
  BY DEF After
<1>4. pending'[w] = q
  BY DEF After
<1>5. pending' \in [Slot -> Write \cup {Empty}]
  <2>1. pending' = [v \in Slot |-> pending'[v]]
    BY DEF After
  <2> QED BY <2>1, <1>1, <1>3, <1>4
<1>7. \A v \in Slot \ {w} : pending'[v] # Empty => pending'[v].stale
  BY <1>1, <1>3
<1> QED BY <1>4, <1>5, <1>7

\* The rank of whoever's roles and of which the positions stay is the same.
LEMMA SameRank ==
  ASSUME NEW a \in User, position' = position, holds'[a] = holds[a]
  PROVE  Rank(a)' = Rank(a)
BY DEF Rank

LEMMA ClearStep ==
  ASSUME IInv, NEW w \in Slot, WriteClear(w)
  PROVE  IInv'
<1> DEFINE q == pending[w]
<1> DEFINE n == [q EXCEPT !.op = "add"]
<1>1. q \in Write /\ q # Empty /\ q.op = "clear" /\ TypeOK
  BY DEF WriteClear, Pending, IInv, TypeOK
<1>2. n \in Write /\ n.op = "add" /\ n.by = q.by /\ n.on = q.on /\ n.roles = q.roles
      /\ n.stale = q.stale
  BY <1>1 DEF Write, Op
<1>3. UNCHANGED <<members, position, grants, over>> /\ holds' = [holds EXCEPT ![q.on] = {}]
  BY DEF WriteClear
<1>4. holds' \in [User -> SUBSET AnyRole]
  BY <1>1, <1>3 DEF TypeOK
<1>5. CASE q.roles = {}
  <2>1. Written(w)
    BY <1>5 DEF WriteClear, Written
  <2> QED BY <2>1, <1>1, <1>3, <1>4, WrittenStep DEF IInv, TypeOK
<1>6. CASE q.roles # {}
  <2>1. pending' = [After(w) EXCEPT ![w] = n] /\ writes' = writes
    BY <1>6 DEF WriteClear
  <2> HIDE DEF n, q
  <2>2. /\ pending' \in [Slot -> Write \cup {Empty}]
        /\ pending'[w] = n
        /\ \A v \in Slot \ {w} : pending'[v] # Empty => pending'[v].stale
    BY <1>1, <1>2, <2>1, PartStep
  <2>3. TypeOK'
    BY <1>1, <1>3, <1>4, <2>1, <2>2 DEF TypeOK
  <2>4. ASSUME ~n.stale PROVE Backed(pending[w])'
    <3>1. Backed(q)
      BY <1>1, <1>2, <2>4 DEF IInv, q
    <3>2. ASSUME NEW a \in User, n.by = a
          PROVE  n.on # a /\ \A r \in n.roles : position'[r] < Rank(a)'
      <4>1. n.on # a
        BY <1>1, <1>2, <3>1, <3>2, RankBounds DEF Backed
      <4>2. holds'[a] = holds[a]
        BY <1>1, <1>2, <1>3, <4>1 DEF TypeOK
      <4>3. Rank(a)' = Rank(a)
        BY <1>3, <4>2, SameRank
      <4> QED BY <1>1, <1>2, <1>3, <3>1, <3>2, <4>1, <4>3 DEF Backed
    <3> QED BY <1>2, <2>2, <3>2 DEF Backed
  <2> QED BY <2>2, <2>3, <2>4 DEF IInv
<1> QED BY <1>5, <1>6

LEMMA AddStep ==
  ASSUME IInv, NEW w \in Slot, WriteAdd(w)
  PROVE  IInv'
<1> DEFINE q == pending[w]
<1> DEFINE u == q.on
<1>1. q \in Write /\ q # Empty /\ q.op = "add" /\ TypeOK
  BY DEF WriteAdd, Pending, IInv, TypeOK
<1>2. PICK r \in q.roles :
        /\ holds' = IF u \in members /\ Exists(r)
                    THEN [holds EXCEPT ![u] = @ \cup {r}] ELSE holds
        /\ IF u \in members /\ Exists(r) /\ q.roles # {r}
           THEN /\ pending' = [After(w) EXCEPT ![w].roles = @ \ {r}]
                /\ UNCHANGED writes
           ELSE Written(w)
  BY DEF WriteAdd
<1>3. UNCHANGED <<members, position, grants, over>>
  BY DEF WriteAdd
<1>4. r \in AnyRole /\ holds' \in [User -> SUBSET AnyRole]
  BY <1>1, <1>2 DEF TypeOK, Write
<1>5. CASE Written(w)
  BY <1>5, <1>1, <1>3, <1>4, WrittenStep DEF IInv, TypeOK
<1>6. CASE ~Written(w)
  <2> DEFINE n == [q EXCEPT !.roles = @ \ {r}]
  <2>1. n \in Write /\ n.op = "add" /\ n.by = q.by /\ n.on = q.on /\ n.stale = q.stale
        /\ n.roles = q.roles \ {r}
    BY <1>1 DEF Write
  <2>2. After(w)[w] = q
    BY DEF After
  <2>3. pending' = [After(w) EXCEPT ![w] = n] /\ writes' = writes /\ q.roles # {r}
    BY <1>2, <1>6, <2>2 DEF After
  <2> HIDE DEF n, q
  <2>4. /\ pending' \in [Slot -> Write \cup {Empty}]
        /\ pending'[w] = n
        /\ \A v \in Slot \ {w} : pending'[v] # Empty => pending'[v].stale
    BY <1>1, <2>1, <2>3, PartStep
  <2>5. TypeOK'
    BY <1>1, <1>3, <1>4, <2>3, <2>4 DEF TypeOK
  <2>6. ASSUME ~n.stale PROVE Backed(pending[w])'
    <3>1. Backed(q)
      BY <1>1, <2>1, <2>6 DEF IInv, q
    <3>2. ASSUME NEW a \in User, n.by = a
          PROVE  n.on # a /\ \A s \in n.roles : position'[s] < Rank(a)'
      <4>1. n.on # a
        BY <1>1, <1>2, <2>1, <2>3, <3>1, <3>2 DEF Backed
      <4>2. holds'[a] = holds[a]
        BY <1>1, <1>2, <2>1, <4>1 DEF TypeOK
      <4>3. Rank(a)' = Rank(a)
        BY <1>3, <4>2, SameRank
      <4> QED BY <1>1, <1>3, <2>1, <3>1, <3>2, <4>1, <4>3 DEF Backed
    <3> QED BY <2>1, <2>4, <3>2 DEF Backed
  <2> QED BY <2>4, <2>5, <2>6 DEF IInv
<1> QED BY <1>5, <1>6

LEMMA WriteStep ==
  ASSUME IInv, NEW w \in Slot, Writes(w)
  PROVE  IInv'
<1> USE PermAssumption
<1> DEFINE q == pending[w]
<1>1. TypeOK /\ q # Empty /\ q \in Write
  BY DEF IInv, TypeOK, Writes, Pending, WriteGrants, WriteRole, WriteDelete,
         WriteOrder, WriteClear, WriteAdd, WriteRemove, WriteOverwrite
<1>2. /\ q.role \in AnyRole /\ q.order \in [AnyRole -> 0..Top] /\ q.order[Everyone] = 0
      /\ q.value \in Overwrite /\ q.value.allow \in SUBSET Perm
  BY <1>1 DEF Write, Order, Overwrite
<1>3. ASSUME Written(w),
             members' \subseteq User, Owner \in members',
             position' \in [AnyRole -> 0..Top], position'[Everyone] = 0,
             grants' \in [AnyRole -> SUBSET Perm],
             holds' \in [User -> SUBSET AnyRole],
             over' \in [Target -> Overwrite]
      PROVE  IInv'
  BY <1>1, <1>3, WrittenStep DEF IInv, TypeOK
<1> HIDE DEF q
<1>4. CASE WriteGrants(w)
  BY <1>1, <1>2, <1>3, <1>4 DEF WriteGrants, TypeOK, q
<1>5. CASE WriteRole(w)
  <2>1. position' = [position EXCEPT ![q.role] = q.order[q.role]] /\ q.role # Everyone
    BY <1>5 DEF WriteRole, Exists, q
  <2>2. position' \in [AnyRole -> 0..Top] /\ position'[Everyone] = 0
    BY <1>1, <1>2, <2>1 DEF TypeOK
  <2> QED BY <1>1, <1>2, <1>3, <1>5, <2>2 DEF WriteRole, TypeOK, q
<1>6. CASE WriteDelete(w)
  BY <1>1, <1>2, <1>3, <1>6 DEF WriteDelete, TypeOK, q
<1>7. CASE WriteOrder(w)
  <2>1. position' = [r \in AnyRole |-> IF ~Exists(r) \/ q.order[r] = 0
                                       THEN position[r] ELSE q.order[r]]
    BY <1>7 DEF WriteOrder, q
  <2>2. position' \in [AnyRole -> 0..Top]
    BY <1>1, <1>2, <2>1 DEF TypeOK
  <2>3. position'[Everyone] = 0
    BY <1>1, <1>2, <2>1 DEF TypeOK, AnyRole
  <2> QED BY <1>1, <1>3, <1>7, <2>2, <2>3 DEF WriteOrder, TypeOK
<1>8. CASE WriteClear(w)
  BY <1>8, ClearStep
<1>9. CASE WriteAdd(w)
  BY <1>9, AddStep
<1>10. CASE WriteRemove(w)
  BY <1>1, <1>3, <1>10 DEF WriteRemove, TypeOK
<1>11. CASE WriteOverwrite(w)
  BY <1>1, <1>2, <1>3, <1>11 DEF WriteOverwrite, TypeOK, q
<1> QED BY <1>4, <1>5, <1>6, <1>7, <1>8, <1>9, <1>10, <1>11 DEF Writes

LEMMA DepartStep ==
  ASSUME IInv, NEW u \in User, Depart(u)
  PROVE  IInv'
<1>1. TypeOK
  BY DEF IInv
<1>2. \A v \in Slot : pending[v] # Empty =>
        [pending[v] EXCEPT !.stale = TRUE] \in Write /\ [pending[v] EXCEPT !.stale = TRUE].stale
  BY <1>1 DEF TypeOK, Write
<1>3. /\ pending' \in [Slot -> Write \cup {Empty}]
      /\ \A v \in Slot : pending'[v] # Empty => pending'[v].stale
  BY <1>1, <1>2 DEF Depart, TypeOK
<1> QED BY <1>1, <1>3 DEF Depart, IInv, TypeOK

LEMMA InitIInv == Init => IInv
<1> SUFFICES ASSUME Init PROVE IInv
  OBVIOUS
<1>1. TypeOK
  BY PermAssumption DEF Init, TypeOK, User, AnyRole, NoOverwrite, Overwrite
<1> QED BY <1>1 DEF Init, IInv

LEMMA NextIInv == IInv /\ [Next]_vars => IInv'
<1> SUFFICES ASSUME IInv, [Next]_vars PROVE IInv'
  OBVIOUS
<1>1. ASSUME NEW w \in Slot, Writes(w) PROVE IInv'
  BY <1>1, WriteStep
<1>2. ASSUME NEW w \in Slot, NEW a \in members, Requests(w, a) PROVE IInv'
  BY <1>2, RequestStep, SubmitStep
<1>3. ASSUME NEW u \in User, Depart(u) PROVE IInv'
  BY <1>3, DepartStep
<1>4. CASE UNCHANGED vars
  <2>1. UNCHANGED <<members, position, grants, holds, over, pending, writes>>
    BY <1>4 DEF vars
  <2>2. \A a \in User : /\ Rank(a)' = Rank(a)
                        /\ MemberPermissions(a)' = MemberPermissions(a)
                        /\ ChannelPermissions(a)' = ChannelPermissions(a)
    BY <2>1, SameRights
  <2>3. ASSUME NEW w \in Slot, pending[w] # Empty, ~pending[w].stale
        PROVE  Backed(pending[w])'
    <3>1. Backed(pending[w])
      BY <2>3 DEF IInv
    <3> QED BY <2>1, <2>2, <3>1 DEF Backed, Has
  <2> QED BY <2>1, <2>3 DEF IInv, TypeOK
<1> QED BY <1>1, <1>2, <1>3, <1>4 DEF Next

\* Types hold, and requests that are not stale are backed by what they checked.
THEOREM Invariance == Spec => []IInv
BY InitIInv, NextIInv, PTL DEF Spec

\* Type correctness of the tables of roles, holders and overwrites.
THEOREM TypeCorrect == Spec => []TypeOK
<1>1. IInv => TypeOK BY DEF IInv
<1> QED BY <1>1, Invariance, PTL
-----------------------------------------------------------------------------
\* resolve_channel_permissions decides each permission as documented.

LEMMA Resolved ==
  ASSUME NEW u \in members, NEW p, u # Owner, Administrator \notin MemberPermissions(u)
  PROVE  p \in ChannelPermissions(u) <=> p # Administrator /\ Decided(u, p)
<1> DEFINE S == holds[u] \ {Everyone}
<1>1. Merge(S).allow = Allowed(S) /\ Merge(S).deny = Denied(S) \ Allowed(S)
  BY DEF Merge
<1>2. /\ p \in Allowed(S) <=> \E r \in S : p \in over[r].allow
      /\ p \in Denied(S) <=> \E r \in S : p \in over[r].deny
  BY DEF Allowed, Denied
<1>3. p \in MemberPermissions(u) <=> \E r \in holds[u] \cup {Everyone} : p \in grants[r]
  BY DEF MemberPermissions
<1>4. p \in ChannelPermissions(u) <=>
        p \in Apply(Apply(Apply(MemberPermissions(u), over[Everyone]),
                          Merge(S)), over[u]) \ {Administrator}
  BY DEF ChannelPermissions
<1> QED BY <1>1, <1>2, <1>3, <1>4 DEF Apply, Decided

\* resolve_channel_permissions: the overwrite of the member decides before those of the
\* roles, those before that of @everyone, and that before the roles' own.
THEOREM PrecedenceHolds == Spec => []RolesHold
<1>1. IInv => PrecedenceKept
  <2> SUFFICES ASSUME IInv, NEW u \in members, NEW p \in Perm \ {Administrator}
               PROVE  Has(ChannelPermissions(u), p) <=>
                        Decided(u, p) \/ Has(MemberPermissions(u), Administrator)
    BY DEF PrecedenceKept
  <2>1. CASE Administrator \in MemberPermissions(u)
    BY <2>1 DEF ChannelPermissions, Has
  <2>2. CASE Administrator \notin MemberPermissions(u)
    <3>1. u # Owner
      BY <2>2 DEF MemberPermissions
    <3>2. p \in ChannelPermissions(u) <=> Decided(u, p)
      BY <2>2, <3>1, Resolved
    <3>3. Administrator \notin ChannelPermissions(u)
      BY <2>2, <3>1, Resolved
    <3> QED BY <2>2, <3>2, <3>3 DEF Has
  <2> QED BY <2>1, <2>2
<1>2. IInv => RolesHold
  BY <1>1 DEF IInv, RolesHold
<1> QED BY <1>2, Invariance, PTL
-----------------------------------------------------------------------------
\* What a request that is not stale may do.

\* Only its own write ends a request that is not stale.
LEMMA FreshWrites ==
  ASSUME IInv, [Next]_vars, NEW w \in Slot, Fresh(w)
  PROVE  Writes(w) /\ Backed(pending[w]) /\ pending[w] \in Write
<1>1. /\ TypeOK /\ pending[w] # Empty /\ ~pending[w].stale
      /\ pending'[w] \notin {pending[w], [pending[w] EXCEPT !.stale = TRUE]}
  BY DEF Fresh, IInv
<1>2. Backed(pending[w]) /\ pending[w] \in Write
  BY <1>1 DEF IInv, TypeOK
<1>3. ASSUME NEW v \in Slot, v # w, Writes(v) PROVE FALSE
  <2>1. After(v)[w] = [pending[w] EXCEPT !.stale = TRUE]
    BY <1>1, <1>3 DEF After
  <2>2. pending'[w] = After(v)[w]
    BY <1>1, <1>3 DEF Writes, WriteGrants, WriteRole, WriteDelete, WriteOrder, WriteClear,
       WriteAdd, WriteRemove, WriteOverwrite, Written, After
  <2> QED BY <1>1, <2>1, <2>2
<1>4. ASSUME NEW v \in Slot, pending[v] = Empty, NEW a \in members, Requests(v, a)
      PROVE  FALSE
  <2>1. PICK write \in Write : Submit(v, write)
    BY <1>4, RequestStep
  <2>2. pending'[w] = pending[w]
    BY <1>1, <1>4, <2>1 DEF Submit, TypeOK
  <2> QED BY <1>1, <2>2
<1>5. ASSUME NEW u \in User, Depart(u) PROVE FALSE
  BY <1>1, <1>5 DEF Depart
<1>6. ASSUME UNCHANGED vars PROVE FALSE
  BY <1>1, <1>6 DEF vars
<1>7. Writes(w)
  BY <1>3, <1>4, <1>5, <1>6 DEF Next
<1> QED BY <1>2, <1>7

\* One who manages roles cannot, by a request that is not stale, change a role
\* as high as their own highest, nor who holds it, nor raise one so high.
THEOREM RankIsRespected == Spec => RankRespected
<1>1. IInv /\ [Next]_vars => RankStep
  <2> SUFFICES ASSUME IInv, [Next]_vars, NEW w \in Slot, Fresh(w), NEW a \in User,
                      pending[w].by = a, NEW r \in AnyRole
               PROVE  IF position[r] >= Rank(a)
                      THEN /\ position'[r] = position[r] /\ grants'[r] = grants[r]
                           /\ \A u \in User : r \in holds'[u] <=> r \in holds[u]
                      ELSE position'[r] < Rank(a)
    BY DEF RankStep
  <2> USE PermAssumption
  <2> DEFINE q == pending[w]
  <2>1. TypeOK /\ Writes(w) /\ Backed(q) /\ q \in Write
    BY FreshWrites DEF IInv
  <2>2. /\ Rank(a) \in 0..(Top + 1) /\ position[r] \in 0..Top
        /\ a = Owner => Rank(a) = Top + 1
    BY <2>1, RankBounds DEF TypeOK
  <2>3. \A u \in User : \A x \in holds[u] : position[x] <= Rank(u)
    BY <2>1, RankBounds
  <2>4. \A u \in User : Rank(u) \in 0..(Top + 1)
    BY <2>1, RankBounds
  <2>5. /\ q.role \in AnyRole /\ q.order \in [AnyRole -> 0..Top]
        /\ q.order[Everyone] = 0 /\ q.value \in Overwrite /\ q.roles \in SUBSET AnyRole
    BY <2>1 DEF Write, Order
  <2> HIDE DEF q
  <2>6. CASE WriteGrants(w)
    <3>1. q.op = "grant" /\ UNCHANGED <<position, holds>>
          /\ grants' = IF Exists(q.role) THEN [grants EXCEPT ![q.role] = q.value.allow]
                       ELSE grants
      BY <2>6 DEF WriteGrants, Pending, q
    <3>2. position[q.role] < Rank(a)
      BY <2>1, <3>1 DEF Backed, q
    <3> QED BY <2>1, <2>2, <2>5, <3>1, <3>2 DEF TypeOK
  <2>7. CASE WriteRole(w)
    <3>1. q.op = "create" /\ ~Exists(q.role) /\ UNCHANGED holds
          /\ position' = [position EXCEPT ![q.role] = q.order[q.role]]
          /\ grants' = [grants EXCEPT ![q.role] = q.value.allow]
      BY <2>7 DEF WriteRole, Pending, q
    <3>2. Rank(a) = Top + 1
      BY <2>1, <2>2, <3>1 DEF Backed, q
    <3>3. position'[r] \in 0..Top
      BY <2>1, <2>5, <3>1 DEF TypeOK
    <3> QED BY <2>2, <3>2, <3>3
  <2>8. CASE WriteDelete(w)
    <3>1. q.op = "delete" /\ position' = [position EXCEPT ![q.role] = 0]
          /\ grants' = [grants EXCEPT ![q.role] = {}]
          /\ holds' = [u \in User |-> holds[u] \ {q.role}]
      BY <2>8 DEF WriteDelete, Pending, q
    <3>2. position[q.role] < Rank(a) /\ position[q.role] \in 0..Top
      BY <2>1, <2>5, <3>1 DEF Backed, TypeOK, q
    <3>3. CASE r = q.role
      BY <2>1, <2>2, <3>1, <3>2, <3>3 DEF TypeOK
    <3>4. CASE r # q.role
      BY <2>1, <2>2, <3>1, <3>4 DEF TypeOK
    <3> QED BY <3>3, <3>4
  <2>9. CASE WriteOrder(w)
    <3>1. q.op = "order" /\ UNCHANGED <<grants, holds>>
          /\ (position'[r] = position[r] \/ position'[r] = q.order[r])
      BY <2>9 DEF WriteOrder, Pending, q
    <3>2. q.order[r] = position[r] \/ (position[r] < Rank(a) /\ q.order[r] < Rank(a))
      BY <2>1, <3>1 DEF Backed, q
    <3>3. q.order[r] \in 0..Top
      BY <2>5
    <3> QED BY <2>2, <3>1, <3>2, <3>3
  <2>10. CASE WriteClear(w)
    <3>1. q.op = "clear" /\ UNCHANGED <<position, grants>>
          /\ holds' = [holds EXCEPT ![q.on] = {}]
      BY <2>10 DEF WriteClear, Pending, q
    <3>2. \A u \in User : q.on = u => Rank(u) < Rank(a)
      BY <2>1, <3>1 DEF Backed, q
    <3>3. ASSUME position[r] >= Rank(a), NEW u \in User
          PROVE  r \in holds'[u] <=> r \in holds[u]
      <4>1. CASE q.on = u
        <5>1. r \notin holds[u]
          BY <2>2, <2>3, <2>4, <3>2, <3>3, <4>1
        <5> QED BY <2>1, <3>1, <4>1, <5>1 DEF TypeOK
      <4>2. CASE q.on # u
        BY <2>1, <3>1, <4>2 DEF TypeOK
      <4> QED BY <4>1, <4>2
    <3> QED BY <2>2, <3>1, <3>3
  <2>11. CASE WriteAdd(w)
    <3>1. q.op = "add" /\ UNCHANGED <<position, grants>>
      BY <2>11 DEF WriteAdd, Pending, q
    <3>2. PICK x \in q.roles : holds' = IF q.on \in members /\ Exists(x)
             THEN [holds EXCEPT ![q.on] = @ \cup {x}] ELSE holds
      BY <2>11 DEF WriteAdd, q
    <3>3. position[x] < Rank(a)
      BY <2>1, <3>1, <3>2 DEF Backed, q
    <3>4. ASSUME position[r] >= Rank(a), NEW u \in User
          PROVE  r \in holds'[u] <=> r \in holds[u]
      <4>1. r # x
        BY <2>2, <3>3, <3>4
      <4> QED BY <2>1, <3>2, <4>1 DEF TypeOK
    <3> QED BY <2>2, <3>1, <3>4
  <2>12. CASE WriteRemove(w)
    <3>1. q.op = "remove" /\ UNCHANGED <<position, grants>>
          /\ holds' = [holds EXCEPT ![q.on] = @ \ {q.role}]
      BY <2>12 DEF WriteRemove, Pending, q
    <3>2. position[q.role] < Rank(a)
      BY <2>1, <3>1 DEF Backed, q
    <3>3. ASSUME position[r] >= Rank(a), NEW u \in User
          PROVE  r \in holds'[u] <=> r \in holds[u]
      <4>1. r # q.role
        BY <2>2, <3>2, <3>3
      <4> QED BY <2>1, <3>1, <4>1 DEF TypeOK
    <3> QED BY <2>2, <3>1, <3>3
  <2>13. CASE WriteOverwrite(w)
    BY <2>2, <2>13 DEF WriteOverwrite
  <2> QED BY <2>1, <2>6, <2>7, <2>8, <2>9, <2>10, <2>11, <2>12, <2>13 DEF Writes
<1> QED BY <1>1, Invariance, PTL DEF Spec, RankRespected

\* update_role_handler: a change of a role's permissions that is not stale gives
\* nobody a permission that its author has not.
THEOREM GrantsAreOwned == Spec => OnlyOwnGranted
<1>1. IInv /\ [Next]_vars => GrantStep
  <2> SUFFICES ASSUME IInv, [Next]_vars, NEW w \in Slot, Fresh(w), Pending(w, "grant"),
                      NEW u \in User, NEW p \in Perm,
                      p \in MemberPermissions(u)', p \notin MemberPermissions(u)
               PROVE  Has(MemberPermissions(pending[w].by), p)
    BY DEF GrantStep
  <2>1. TypeOK /\ Writes(w) /\ Backed(pending[w]) /\ pending[w] \in Write
    BY FreshWrites DEF IInv
  <2>2. WriteGrants(w)
    BY <2>1 DEF Writes, Pending, WriteRole, WriteDelete, WriteOrder, WriteClear, WriteAdd,
       WriteRemove, WriteOverwrite
  <2>3. p \in pending[w].value.allow
    BY <2>1, <2>2 DEF WriteGrants, MemberPermissions, TypeOK
  <2>4. pending[w].by \in User /\ pending[w].op = "grant"
    BY <2>1 DEF Write, Pending
  <2> QED BY <2>1, <2>3, <2>4 DEF Backed, Has
<1> QED BY <1>1, Invariance, PTL DEF Spec, OnlyOwnGranted

\* A permission that no overwrite mentions anew is resolved as before.
LEMMA SameWhereUntouched ==
  ASSUME NEW u \in User, NEW p, UNCHANGED <<members, position, grants, holds>>,
         \A y : (p \in over'[y].allow <=> p \in over[y].allow) /\
                (p \in over'[y].deny <=> p \in over[y].deny)
  PROVE  p \in ChannelPermissions(u)' <=> p \in ChannelPermissions(u)
<1>1. MemberPermissions(u)' = MemberPermissions(u)
  BY DEF MemberPermissions
<1>2. CASE u = Owner \/ u \notin members \/ Administrator \in MemberPermissions(u)
  BY <1>1, <1>2 DEF ChannelPermissions, MemberPermissions
<1>3. CASE u # Owner /\ u \in members /\ Administrator \notin MemberPermissions(u)
  <2> DEFINE S == holds[u] \ {Everyone}
  <2>1. (p \in Allowed(S)' <=> p \in Allowed(S)) /\ (p \in Denied(S)' <=> p \in Denied(S))
    BY DEF Allowed, Denied
  <2>2. /\ Merge(S).allow = Allowed(S) /\ Merge(S).deny = Denied(S) \ Allowed(S)
        /\ Merge(S)'.allow = Allowed(S)' /\ Merge(S)'.deny = Denied(S)' \ Allowed(S)'
    BY DEF Merge
  <2>3. ChannelPermissions(u) =
          Apply(Apply(Apply(MemberPermissions(u), over[Everyone]), Merge(S)), over[u])
            \ {Administrator}
    BY <1>3 DEF ChannelPermissions
  <2>4. ChannelPermissions(u)' =
          Apply(Apply(Apply(MemberPermissions(u), over'[Everyone]), Merge(S)'), over'[u])
            \ {Administrator}
    BY <1>1, <1>3 DEF ChannelPermissions
  <2> QED BY <2>1, <2>2, <2>3, <2>4 DEF Apply
<1> QED BY <1>2, <1>3

\* set_overwrite and delete_overwrite: an overwrite changes for nobody a
\* permission that its author does not have in the channel.
THEOREM OverwritesAreOwned == Spec => OnlyOwnOverwritten
<1>1. IInv /\ [Next]_vars => OverwriteStep
  <2> SUFFICES ASSUME IInv, [Next]_vars, NEW w \in Slot, Fresh(w),
                      Pending(w, "overwrite"), NEW u \in User, NEW p \in Perm,
                      ~Has(ChannelPermissions(pending[w].by), p)
               PROVE  p \in ChannelPermissions(u)' <=> p \in ChannelPermissions(u)
    BY DEF OverwriteStep
  <2> DEFINE q == pending[w]
  <2>1. TypeOK /\ Writes(w) /\ Backed(q) /\ q \in Write
    BY FreshWrites DEF IInv
  <2>2. WriteOverwrite(w)
    BY <2>1 DEF Writes, Pending, WriteGrants, WriteRole, WriteDelete, WriteOrder,
       WriteClear, WriteAdd, WriteRemove
  <2>3. q.by \in User /\ q.on \in Target /\ q.op = "overwrite"
    BY <2>1 DEF Write, Pending
  <2>4. p \notin q.value.allow \cup q.value.deny \cup over[q.on].allow \cup over[q.on].deny
    BY <2>1, <2>3 DEF Backed
  <2>5. over' = [over EXCEPT ![q.on] = q.value] /\ UNCHANGED <<members, position, grants, holds>>
    BY <2>2 DEF WriteOverwrite
  <2>6. \A y : (p \in over'[y].allow <=> p \in over[y].allow) /\
               (p \in over'[y].deny <=> p \in over[y].deny)
    <3> HIDE DEF q
    <3> QED BY <2>1, <2>3, <2>4, <2>5 DEF TypeOK
  <2> QED BY <2>5, <2>6, SameWhereUntouched
<1> QED BY <1>1, Invariance, PTL DEF Spec, OnlyOwnOverwritten

\* roles.rs, members.rs, channels.rs: a request that is not stale stays within
\* what its author may do, to roles, to their holders and to overwrites.
THEOREM RightsAreRespected == Spec => RightsRespected
BY RankIsRespected, GrantsAreOwned, OverwritesAreOwned, PTL
   DEF RankRespected, OnlyOwnGranted, OnlyOwnOverwritten, RightsRespected
-----------------------------------------------------------------------------
(* Leaderboards.                                                            *)

LEMMA BoardCounts == \A S : L!Cardinality(S) = Cardinality(S)
BY DEF L!Cardinality, Cardinality

\* A submission that overlaps no other of its user still has what it read.
OneEach ==
  \A s \in Sub : subs[s] # NoSub /\ subs[s].user \notin lapped =>
    /\ subs[s].old = record[subs[s].user]
    /\ \A t \in Sub : subs[t] # NoSub /\ subs[t].user = subs[s].user => t = s
BoardInv == L!TypeOK /\ OneEach /\ L!RecordRight

LEMMA BoardInit == L!Init => BoardInv
BY MembershipsAssumption DEF L!Init, L!TypeOK, L!NoRecord, BoardInv, OneEach, L!RecordRight

LEMMA SubmitKeepsBoard ==
  ASSUME BoardInv, NEW s \in Sub, NEW u \in Entrant, NEW score \in Points, L!Submit(s, u, score)
  PROVE  BoardInv'
<1> DEFINE new == [user |-> u, score |-> score, old |-> record[u]]
<1> USE DEF BoardInv
<1>1. /\ new.user = u /\ new.score = score /\ new.old = record[u]
      /\ new \in [user: Entrant, score: Points, old: L!NoRecord..Ceiling]
  BY DEF L!TypeOK
<1> HIDE DEF new
<1>2. new # NoSub
  BY <1>1, MembershipsAssumption
<1>3. subs[s] = NoSub /\ subs' = [subs EXCEPT ![s] = new]
  BY DEF L!Submit, new
<1>4. subs'[s] = new /\ \A t \in Sub \ {s} : subs'[t] = subs[t]
  BY <1>3 DEF L!TypeOK
<1>5. lapped \subseteq lapped' /\ lapped' \subseteq lapped \cup {u}
  BY DEF L!Submit
<1>6. L!TypeOK'
  BY <1>1, <1>3, <1>5 DEF L!TypeOK, L!Submit
<1>7. OneEach'
  <2> SUFFICES ASSUME NEW r \in Sub, subs'[r] # NoSub, subs'[r].user \notin lapped'
               PROVE  /\ subs'[r].old = record[subs'[r].user]
                      /\ \A t \in Sub : subs'[t] # NoSub /\ subs'[t].user = subs'[r].user => t = r
    BY DEF OneEach, L!Submit
  <2>1. CASE r = s
    <3>1. \A t \in Sub : subs[t] # NoSub => subs[t].user # u
      BY <2>1, <1>1, <1>4 DEF L!Submit
    <3> QED
      BY <3>1, <2>1, <1>1, <1>3, <1>4
  <2>2. CASE r # s
    <3>1. subs'[r] = subs[r] /\ subs[r].user \notin lapped
      BY <2>2, <1>4, <1>5
    <3>2. subs[r].user # u
      BY <3>1, <2>2 DEF L!Submit
    <3> QED
      BY <3>1, <3>2, <1>1, <1>4 DEF OneEach
  <2> QED
    BY <2>1, <2>2
<1>8. L!RecordRight'
  BY <1>5 DEF L!RecordRight, L!Submit
<1> QED
  BY <1>6, <1>7, <1>8

LEMMA WriteKeepsBoard ==
  ASSUME BoardInv, NEW s \in Sub, L!Write(s)
  PROVE  BoardInv'
<1> DEFINE u == subs[s].user
           kept == subs[s].old = L!NoRecord /\ record[u] # L!NoRecord
<1> USE DEF BoardInv
<1>1. /\ subs[s] # NoSub /\ u \in Entrant /\ subs[s].score \in Points
      /\ subs[s].old \in L!NoRecord..Ceiling /\ subs[s].score \in 0..Ceiling
  BY MembershipsAssumption DEF L!Write, L!TypeOK
<1>2. PICK x : record' = (IF kept THEN record ELSE [record EXCEPT ![u] = x])
               /\ x = L!Combine(subs[s].old, subs[s].score)
  BY DEF L!Write
<1>3. PICK y : /\ right' = [right EXCEPT ![u] = y]
               /\ y = IF right[u] = L!NoRecord \/ operator = "set" THEN subs[s].score
                      ELSE IF operator = "increment" THEN right[u] + subs[s].score
                      ELSE IF L!Better(subs[s].score, right[u]) THEN subs[s].score ELSE right[u]
  BY DEF L!Write
<1>4. /\ lapped' = lapped /\ operator' = operator /\ sort' = sort
      /\ subs' = [subs EXCEPT ![s] = NoSub]
      /\ record'[u] <= Ceiling /\ right'[u] <= Ceiling
  BY DEF L!Write
<1>5. x \in Int /\ x >= 0 - 1 /\ y \in Int /\ y >= 0 - 1
  <2>1. right[u] \in L!NoRecord..Ceiling
    BY <1>1 DEF L!TypeOK
  <2> QED
    BY <1>1, <1>2, <1>3, <2>1, MembershipsAssumption
       DEF L!TypeOK, L!Combine, L!NoRecord
<1>6. L!TypeOK'
  <2>1. right'[u] = y /\ y \in L!NoRecord..Ceiling
    BY <1>1, <1>3, <1>4, <1>5, MembershipsAssumption DEF L!TypeOK, L!NoRecord
  <2>2. kept \/ (record'[u] = x /\ x \in L!NoRecord..Ceiling)
    BY <1>1, <1>2, <1>4, <1>5, MembershipsAssumption DEF L!TypeOK, L!NoRecord
  <2> HIDE DEF kept, u
  <2>3. record' \in [Entrant -> L!NoRecord..Ceiling]
    BY <1>1, <1>2, <2>2 DEF L!TypeOK
  <2>4. right' \in [Entrant -> L!NoRecord..Ceiling]
    BY <1>1, <1>3, <2>1 DEF L!TypeOK
  <2> QED
    BY <1>4, <2>3, <2>4 DEF L!TypeOK
<1>7. OneEach'
  <2> SUFFICES ASSUME NEW r \in Sub, subs'[r] # NoSub, subs'[r].user \notin lapped
               PROVE  /\ subs'[r].old = record'[subs'[r].user]
                      /\ \A t \in Sub : subs'[t] # NoSub /\ subs'[t].user = subs'[r].user => t = r
    BY <1>4 DEF OneEach
  <2>1. r # s /\ subs'[r] = subs[r]
    BY <1>4 DEF L!TypeOK
  <2>2. \A t \in Sub : subs[t] # NoSub /\ subs[t].user = subs[r].user => t = r
    BY <2>1 DEF OneEach
  <2>3. subs[r].user # u
    BY <1>1, <2>1, <2>2
  <2>4. record'[subs[r].user] = record[subs[r].user]
    BY <1>2, <2>1, <2>3 DEF L!TypeOK
  <2> QED
    BY <1>4, <2>1, <2>2, <2>4 DEF OneEach, L!TypeOK
<1>8. L!RecordRight'
  <2> SUFFICES ASSUME NEW v \in Entrant \ lapped
               PROVE  record'[v] = right'[v]
    BY <1>4 DEF L!RecordRight
  <2>1. record[v] = right[v]
    BY DEF L!RecordRight
  <2>2. CASE v = u
    <3>1. subs[s].old = record[u] /\ ~kept
      BY <1>1, <2>2 DEF OneEach
    <3>2. x = y
      BY <2>1, <2>2, <3>1, <1>2, <1>3 DEF L!Combine, L!TypeOK
    <3> QED
      BY <1>1, <1>2, <1>3, <2>2, <3>1, <3>2 DEF L!TypeOK
  <2>3. CASE v # u
    BY <2>1, <2>3, <1>2, <1>3 DEF L!TypeOK
  <2> QED
    BY <2>2, <2>3
<1> QED
  BY <1>6, <1>7, <1>8

\* Whoever shares a score with nobody has a rank: the records that are as good
\* stand before the others, wherever the list is cut.
LEMMA PlaceIsRank ==
  ASSUME L!TypeOK, NEW u \in L!Ranked, NEW place \in L!Orders, ~L!Tied(u)
  PROVE  place[u] = L!Rank(u) /\ L!Rank(u) \in Nat \ {0}
<1> DEFINE all == L!Ranked
           n == Cardinality(all)
           first == L!AtLeast(u)
           rest == all \ first
           p == place[u]
<1>1. /\ place \in [all -> 1..n] /\ u \in all /\ first \subseteq all
      /\ \A v, w \in all : v # w => place[v] # place[w]
      /\ \A v, w \in all : L!Better(record[v], record[w]) => place[v] < place[w]
  <2>1. u \in all /\ first \subseteq all
    BY DEF L!AtLeast
  <2>2. place \in [all -> 1..n]
    BY BoardCounts DEF L!Orders
  <2>3. \A v, w \in all : v # w => place[v] # place[w]
    BY DEF L!Orders
  <2>4. \A v, w \in all : L!Better(record[v], record[w]) => place[v] < place[w]
    BY DEF L!Orders
  <2> QED
    BY <2>1, <2>2, <2>3, <2>4
<1>2. IsFiniteSet(all) /\ n \in Nat
  BY MembershipsAssumption, FS_Subset, FS_CardinalityType DEF L!Ranked
<1>3. IsFiniteSet(first) /\ IsFiniteSet(rest) /\ Cardinality(rest) = n - Cardinality(first)
      /\ Cardinality(first) \in Nat
  <2>1. IsFiniteSet(first) /\ IsFiniteSet(rest)
    BY <1>1, <1>2, FS_Subset
  <2>2. Cardinality(rest) = n - Cardinality(all \cap first)
    BY <1>2, FS_Difference
  <2>3. all \cap first = first
    BY <1>1
  <2> QED
    BY <2>1, <2>2, <2>3, FS_CardinalityType
<1>4. p \in 1..n
  BY <1>1
<1>5. \A v \in first : place[v] \in 1..p
  <2> SUFFICES ASSUME NEW v \in first
               PROVE  place[v] \in 1..p
    OBVIOUS
  <2>1. v = u \/ record[v] # record[u]
    BY <1>1 DEF L!Tied
  <2>2. v = u \/ L!Better(record[v], record[u])
    BY <2>1, <1>1 DEF L!AtLeast, L!Better, L!Ranked, L!TypeOK, L!NoRecord
  <2>3. place[v] \in 1..n
    BY <1>1
  <2> QED
    BY <2>2, <2>3, <1>1, <1>2, <1>4
<1>6. \A v \in rest : place[v] \in (p + 1)..n
  <2> SUFFICES ASSUME NEW v \in rest
               PROVE  place[v] \in (p + 1)..n
    OBVIOUS
  <2>1. L!Better(record[u], record[v])
    BY DEF L!AtLeast
  <2>2. place[v] \in 1..n
    BY <1>1
  <2> QED
    BY <2>1, <2>2, <1>1, <1>2, <1>4
<1>7. Cardinality(first) <= p
  <2> DEFINE f == [v \in first |-> place[v]]
  <2>1. f \in Injection(first, 1..p)
    <3>1. f \in [first -> 1..p]
      BY <1>5
    <3>2. \A v, w \in first : f[v] = f[w] => v = w
      BY <1>1
    <3> QED
      BY <3>1, <3>2, Zenon DEF Injection, IsInjective
  <2>2. IsFiniteSet(1..p) /\ Cardinality(1..p) = p
    <3>1. /\ IsFiniteSet(1..p)
          /\ Cardinality(1..p) = IF 1 > p THEN 0 ELSE p - 1 + 1
      BY <1>4, FS_Interval
    <3> QED
      BY <3>1, <1>4
  <2> QED
    BY <1>3, <2>1, <2>2, FS_Injection
<1>8. Cardinality(rest) <= n - p
  <2> DEFINE f == [v \in rest |-> place[v]]
  <2>1. f \in Injection(rest, (p + 1)..n)
    <3>1. f \in [rest -> (p + 1)..n]
      BY <1>6
    <3>2. \A v, w \in rest : f[v] = f[w] => v = w
      BY <1>1
    <3> QED
      BY <3>1, <3>2, Zenon DEF Injection, IsInjective
  <2>2. IsFiniteSet((p + 1)..n) /\ Cardinality((p + 1)..n) = n - p
    <3>1. p + 1 \in Int /\ n \in Int
      BY <1>2, <1>4
    <3>2. /\ IsFiniteSet((p + 1)..n)
          /\ Cardinality((p + 1)..n) = IF p + 1 > n THEN 0 ELSE n - (p + 1) + 1
      BY <3>1, FS_Interval
    <3> QED
      BY <3>1, <3>2, <1>2, <1>4
  <2> QED
    BY <1>3, <2>1, <2>2, FS_Injection
<1>9. Cardinality(first) = p /\ p \in Nat \ {0}
  <2> HIDE DEF all, n, first, rest, p
  <2> QED
    BY <1>2, <1>3, <1>4, <1>7, <1>8
<1>10. L!Rank(u) = Cardinality(first)
  BY BoardCounts DEF L!Rank
<1> QED
  BY <1>9, <1>10

LEMMA WindowContainsRank ==
  ASSUME NEW r \in Nat \ {0}, NEW limit \in Nat \ {0}, NEW start \in Int,
         start = IF r - 1 - (limit \div 2) < 0 THEN 0 ELSE r - 1 - (limit \div 2)
  PROVE  r > start /\ r <= start + limit
<1>1. limit \div 2 \in Nat /\ limit \div 2 < limit
  OBVIOUS
<1> QED
  BY <1>1

LEMMA WindowAround == L!TypeOK => L!WindowShowsUser
<1> SUFFICES ASSUME L!TypeOK, NEW u \in L!Ranked, NEW place \in L!Orders, ~L!Tied(u)
             PROVE  place[u] = L!Rank(u) /\ \A limit \in Limits : u \in L!Window(u, limit, place)
  BY DEF L!WindowShowsUser
<1>1. place[u] = L!Rank(u) /\ L!Rank(u) \in Nat \ {0}
  BY PlaceIsRank
<1>2. ASSUME NEW limit \in Limits
      PROVE  u \in L!Window(u, limit, place)
  <2> DEFINE r == L!Rank(u)
             start == L!Offset(u, limit)
  <2>1. limit \in Nat \ {0}
    BY MembershipsAssumption
  <2>2. start = IF r - 1 - (limit \div 2) < 0 THEN 0 ELSE r - 1 - (limit \div 2)
    BY DEF L!Offset
  <2>3. start \in Int
    BY <2>1, <2>2, <1>1
  <2> HIDE DEF r, start
  <2>4. r \in Nat \ {0}
    BY <1>1 DEF r
  <2>5. r > start /\ r <= start + limit
    BY <2>1, <2>2, <2>3, <2>4, WindowContainsRank
  <2> QED
    BY <2>5, <1>1 DEF L!Window, r, start
<1> QED
  BY <1>1, <1>2

\* A board keeps what its operator promises for every user none of whose
\* submissions overlapped, and shows whoever shares a score with nobody at their
\* rank, in the window around them (upsert_record, get_around).
THEOREM BoardIsKept == L!LSpec => []BoardHolds
<1>1. BoardInv /\ [L!LNext]_(L!lvars) => BoardInv'
  <2> SUFFICES ASSUME BoardInv, [L!LNext]_(L!lvars)
               PROVE  BoardInv'
    OBVIOUS
  <2>1. CASE L!LNext
    BY <2>1, SubmitKeepsBoard, WriteKeepsBoard DEF L!LNext
  <2>2. CASE UNCHANGED L!lvars
    BY <2>2 DEF BoardInv, L!lvars, L!TypeOK, OneEach, L!RecordRight
  <2> QED
    BY <2>1, <2>2
<1>2. BoardInv => BoardHolds
  BY WindowAround DEF BoardInv, BoardHolds
<1> QED
  BY BoardInit, <1>1, <1>2, PTL DEF L!LSpec
-----------------------------------------------------------------------------
(* Activities.                                                              *)

LEMMA ActivityCounts == \A S : P!Cardinality(S) = Cardinality(S)
BY DEF P!Cardinality, Cardinality

\* What a request has come to: a player is still to get a slot, the host stays.
StepOK(r) ==
  /\ r.at \in {"count", "pick"} => r.role = "player"
  /\ r.at = "write" => r.role # "out" /\ (r.slot # P!NoSlot <=> r.role = "player")
  /\ r.at = "remove" => r.user # Host
\* A request that overlaps no other finds what it has read.
ReadOK(r) ==
  /\ r.at \in {"count", "pick", "write"} /\ session \in P!Live => r.was = party[r.user]
  /\ r.at \in {"pick", "write"} /\ r.role = "player" =>
       MaxPlayers = 0 \/ r.was = "player" \/ Cardinality(P!Players) < MaxPlayers
  /\ r.at = "write" /\ r.role = "player" => \A u \in P!Players : slot[u] < r.slot
  /\ r.at \in {"count", "pick", "write", "remove", "turn"} => P!Participants \subseteq upToDate
  /\ r.at = "send" => r.fresh /\ P!Participants \subseteq r.to

Admitted ==
  /\ \A g \in Gate : gates[g] # NoGate => StepOK(gates[g])
  /\ session \notin P!Live => \A u \in Gamer : party[u] = "out"
  /\ session = "new" => \A g \in Gate : gates[g] = NoGate
AloneHere == ~contended =>
  \A g, h \in Gate : gates[g] # NoGate /\ gates[h] # NoGate => g = h
ReadsHold == ~contended => \A g \in Gate : gates[g] # NoGate => ReadOK(gates[g])
ActivityInv ==
  P!TypeOK /\ Admitted /\ AloneHere /\ ReadsHold /\ P!SlotsKept /\ P!RosterShown

LEMMA PlayersFinite ==
  /\ IsFiniteSet(P!Players) /\ Cardinality(P!Players) \in Nat
  /\ IsFiniteSet(P!Players)' /\ Cardinality(P!Players)' \in Nat
<1>1. P!Players \subseteq Gamer /\ (P!Players)' \subseteq Gamer
  BY DEF P!Players
<1> QED
  BY <1>1, MembershipsAssumption, FS_Subset, FS_CardinalityType

LEMMA ActivityInit == P!Init => ActivityInv
<1> SUFFICES ASSUME P!Init
             PROVE  ActivityInv
  OBVIOUS
<1>1. P!TypeOK
  <2>1. P!NoSlot \in P!NoSlot..MaxSlot
    BY MembershipsAssumption DEF P!NoSlot
  <2>2. /\ party = [u \in Gamer |-> "out"] /\ slot = [u \in Gamer |-> P!NoSlot]
        /\ gates = [g \in Gate |-> NoGate]
        /\ session = "new" /\ upToDate = {} /\ contended = FALSE
    BY DEF P!Init, P!NoParty
  <2> QED
    BY <2>1, <2>2, MembershipsAssumption DEF P!TypeOK, P!Roles, P!Live
<1>2. P!Players = {} /\ P!Participants = {}
  BY DEF P!Init, P!NoParty, P!Players, P!Participants
<1>3. P!SlotsKept
  BY <1>2, ActivityCounts, FS_EmptySet, MembershipsAssumption DEF P!SlotsKept
<1>4. P!RosterShown
  BY <1>2 DEF P!RosterShown
<1>5. Admitted /\ AloneHere /\ ReadsHold
  BY DEF Admitted, AloneHere, ReadsHold, P!Init, P!NoParty
<1> QED
  BY <1>1, <1>3, <1>4, <1>5 DEF ActivityInv

\* A request that leaves the participants as they are.
LEMMA RequestTurns ==
  ASSUME ActivityInv, NEW g \in Gate, NEW r \in P!GateCall \cup {NoGate},
         gates' = [gates EXCEPT ![g] = r], gates[g] # NoGate \/ r # NoGate,
         party' = party, slot' = slot,
         session' = session \/ (session \in P!Live /\ session' \in P!Live),
         session = "new" => r = NoGate,
         upToDate' \subseteq Gamer, contended' \in BOOLEAN, contended => contended',
         gates[g] = NoGate => contended' = (contended \/ \E h \in Gate : gates[h] # NoGate),
         r # NoGate => StepOK(r),
         ~contended' /\ r # NoGate => ReadOK(r)',
         ~contended' /\ r = NoGate => P!Participants \subseteq upToDate'
  PROVE  ActivityInv'
<1> USE DEF ActivityInv
<1>1. /\ gates'[g] = r
      /\ \A h \in Gate \ {g} : gates'[h] = gates[h]
  BY DEF P!TypeOK
<1>2. (session' \in P!Live <=> session \in P!Live) /\ (session' = "new" <=> session = "new")
      /\ session' \in P!Live \cup {"new", "gone"}
  BY DEF P!TypeOK, P!Live
<1>3. P!TypeOK'
  BY <1>2 DEF P!TypeOK
<1>4. Admitted'
  BY <1>1, <1>2 DEF Admitted, StepOK
<1>5. ~contended' => \A h \in Gate \ {g} : gates'[h] = NoGate
  BY <1>1 DEF AloneHere
<1>6. AloneHere'
  BY <1>5 DEF AloneHere
<1>7. ReadsHold'
  BY <1>1, <1>5 DEF ReadsHold
<1>8. (P!Players)' = P!Players /\ (P!Participants)' = P!Participants
  BY DEF P!Players, P!Participants
<1>9. P!SlotsKept'
  BY <1>8 DEF P!SlotsKept
<1>10. P!RosterShown'
  BY <1>1, <1>8 DEF P!RosterShown
<1> QED
  BY <1>3, <1>4, <1>6, <1>7, <1>9, <1>10

LEMMA EnterKeeps ==
  ASSUME ActivityInv, NEW g \in Gate, NEW u \in Gamer, NEW at, NEW role \in P!Roles,
         P!Enter(g, at, u, role),
         \/ at = "count" /\ role = "player"
         \/ at = "write" /\ role = "spectator"
         \/ at = "remove" /\ u # Host
  PROVE  ActivityInv'
<1>0. PICK r : r = [at |-> at, user |-> u, role |-> role, was |-> party[u], slot |-> P!NoSlot,
                   state |-> "lobby", to |-> {}, fresh |-> FALSE]
  OBVIOUS
<1>1. /\ r.at = at /\ r.user = u /\ r.role = role /\ r.was = party[u] /\ r.slot = P!NoSlot
      /\ r \in P!GateCall
  BY <1>0, MembershipsAssumption DEF ActivityInv, P!TypeOK, P!GateCall, P!NoSlot, P!Live
<1>2. /\ gates[g] = NoGate /\ session \in P!Live /\ gates' = [gates EXCEPT ![g] = r]
      /\ contended' = (contended \/ \E h \in Gate : gates[h] # NoGate)
      /\ session' = session /\ party' = party /\ slot' = slot /\ upToDate' = upToDate
  BY <1>0 DEF P!Enter
<1>3. r # NoGate
  BY <1>1, MembershipsAssumption
<1>4. StepOK(r)
  BY <1>1 DEF StepOK, P!NoSlot, P!Roles
<1>5. ASSUME ~contended'
      PROVE  ReadOK(r)'
  <2>1. P!Participants \subseteq upToDate
    BY <1>2, <1>5 DEF ActivityInv, P!RosterShown
  <2> QED
    BY <1>1, <1>2, <2>1 DEF ReadOK, P!Participants, P!Players
<1>6. session # "new" /\ upToDate \subseteq Gamer /\ contended' \in BOOLEAN
      /\ (contended => contended')
  BY <1>2 DEF ActivityInv, P!TypeOK, P!Live
<1> QED
  BY <1>1, <1>2, <1>3, <1>4, <1>5, <1>6, RequestTurns

LEMMA UpdateStateKeeps ==
  ASSUME ActivityInv, NEW g \in Gate, NEW to \in P!Live, P!UpdateSessionState(g, to)
  PROVE  ActivityInv'
<1>0. PICK r : r = [at |-> "turn", user |-> Host, role |-> "out", was |-> "out",
                   slot |-> P!NoSlot, state |-> to, to |-> {}, fresh |-> FALSE]
  OBVIOUS
<1>1. r.at = "turn" /\ r \in P!GateCall
  BY <1>0, MembershipsAssumption DEF P!GateCall, P!NoSlot, P!Roles
<1>2. /\ gates[g] = NoGate /\ session \in P!Live /\ gates' = [gates EXCEPT ![g] = r]
      /\ contended' = (contended \/ \E h \in Gate : gates[h] # NoGate)
      /\ session' = session /\ party' = party /\ slot' = slot /\ upToDate' = upToDate
  BY <1>0 DEF P!UpdateSessionState
<1>3. r # NoGate
  BY <1>1, MembershipsAssumption
<1>4. StepOK(r)
  BY <1>1 DEF StepOK
<1>5. ASSUME ~contended'
      PROVE  ReadOK(r)'
  <2>1. P!Participants \subseteq upToDate
    BY <1>2, <1>5 DEF ActivityInv, P!RosterShown
  <2> QED
    BY <1>1, <1>2, <2>1 DEF ReadOK, P!Participants, P!Players
<1>6. session # "new" /\ upToDate \subseteq Gamer /\ contended' \in BOOLEAN
      /\ (contended => contended')
  BY <1>2 DEF ActivityInv, P!TypeOK, P!Live
<1> QED
  BY <1>1, <1>2, <1>3, <1>4, <1>5, <1>6, RequestTurns

\* A request in flight, and the record it leaves.
LEMMA GateFields ==
  ASSUME P!TypeOK, NEW g \in Gate, gates[g] # NoGate
  PROVE  /\ gates[g] \in P!GateCall
         /\ gates[g].user \in Gamer /\ gates[g].role \in P!Roles /\ gates[g].was \in P!Roles
         /\ gates[g].slot \in P!NoSlot..MaxSlot /\ gates[g].state \in P!Live
         /\ gates[g].to \subseteq Gamer /\ gates[g].fresh \in BOOLEAN
BY DEF P!TypeOK, P!GateCall

LEMMA ReachFields ==
  ASSUME NEW call \in P!GateCall, NEW place \in P!NoSlot..MaxSlot, NEW fresh \in BOOLEAN,
         NEW to, to \subseteq Gamer,
         NEW at \in {"count", "pick", "write", "remove", "turn", "drop", "gather", "send"}
  PROVE  LET r == P!Reach(call, at, place, to, fresh) IN
         /\ r \in P!GateCall /\ r # NoGate
         /\ r.at = at /\ r.slot = place /\ r.to = to /\ r.fresh = fresh
         /\ r.user = call.user /\ r.role = call.role /\ r.was = call.was /\ r.state = call.state
<1>1. P!Reach(call, at, place, to, fresh) \in P!GateCall
  BY DEF P!Reach, P!GateCall
<1> QED
  BY <1>1, MembershipsAssumption DEF P!Reach

LEMMA LeaveKeeps ==
  ASSUME ActivityInv, NEW g \in Gate, gates[g] # NoGate, P!Leave(g),
         party' = party, slot' = slot, contended' = contended,
         session' = session \/ (session \in P!Live /\ session' \in P!Live),
         upToDate' \subseteq Gamer, ~contended => P!Participants \subseteq upToDate'
  PROVE  ActivityInv'
<1>1. contended' \in BOOLEAN
  BY DEF ActivityInv, P!TypeOK
<1>2. NoGate \in P!GateCall \cup {NoGate} /\ gates' = [gates EXCEPT ![g] = NoGate]
  BY DEF P!Leave
<1> QED
  BY <1>1, <1>2, RequestTurns, Zenon

LEMMA CountKeeps ==
  ASSUME ActivityInv, NEW g \in Gate, gates[g] # NoGate, P!CountPlayers(g)
  PROVE  ActivityInv'
<1>1. /\ gates[g].at = "count" /\ session' = session /\ party' = party /\ slot' = slot
      /\ upToDate' = upToDate /\ contended' = contended
  BY DEF P!CountPlayers
<1>2. /\ upToDate' \subseteq Gamer /\ contended' \in BOOLEAN /\ StepOK(gates[g])
      /\ session # "new" /\ (~contended => ReadOK(gates[g]))
  BY <1>1 DEF ActivityInv, P!TypeOK, Admitted, ReadsHold
<1>3. CASE P!Leave(g)
  BY <1>1, <1>2, <1>3, LeaveKeeps DEF ReadOK
<1>4. CASE (MaxPlayers = 0 \/ P!HasRoom(g)) /\ P!To(g, "pick")
  <2>0. PICK r : r = P!Reach(gates[g], "pick", gates[g].slot, gates[g].to, gates[g].fresh)
    OBVIOUS
  <2>1. gates' = [gates EXCEPT ![g] = r]
    BY <2>0, <1>4 DEF P!To, ActivityInv, P!TypeOK
  <2>2. /\ r \in P!GateCall /\ r # NoGate
        /\ r.at = "pick" /\ r.user = gates[g].user /\ r.role = gates[g].role /\ r.was = gates[g].was
    BY <2>0, GateFields, ReachFields DEF ActivityInv
  <2>3. StepOK(r)
    BY <1>1, <1>2, <2>2 DEF StepOK
  <2>4. ASSUME ~contended'
        PROVE  ReadOK(r)'
    <3>1. ReadOK(gates[g])
      BY <1>1, <1>2, <2>4
    <3>2. MaxPlayers = 0 \/ r.was = "player" \/ Cardinality(P!Players) < MaxPlayers
      BY <1>4, <2>2, ActivityCounts DEF P!HasRoom
    <3>3. (P!Players)' = P!Players /\ (P!Participants)' = P!Participants
      BY <1>1 DEF P!Players, P!Participants
    <3> QED
      BY <1>1, <2>2, <3>1, <3>2, <3>3 DEF ReadOK
  <2> QED
    BY <1>1, <1>2, <2>1, <2>2, <2>3, <2>4, RequestTurns
<1> QED
  BY <1>3, <1>4 DEF P!CountPlayers

LEMMA TopSlotBounds ==
  ASSUME P!TypeOK
  PROVE  P!TopSlot \in P!NoSlot..MaxSlot /\ \A u \in P!Players : slot[u] <= P!TopSlot
<1> DEFINE Tops == {k \in Nat : \A u \in P!Players : slot[u] <= k - 1}
           top(s) == /\ \A u \in P!Players : slot[u] <= s
                     /\ s = P!NoSlot \/ \E u \in P!Players : slot[u] = s
<1>1. \A u \in P!Players : slot[u] \in Int /\ slot[u] >= 0 - 1 /\ slot[u] <= MaxSlot
  BY MembershipsAssumption DEF P!TypeOK, P!Players, P!NoSlot
<1>2. MaxSlot + 1 \in Tops
  BY <1>1, MembershipsAssumption
<1>3. PICK n \in Tops : \A k \in Tops : n <= k
  <2>1. Tops \subseteq Nat /\ Tops # {}
    BY <1>2
  <2> HIDE DEF Tops
  <2> QED
    BY <2>1, LeastNumber
<1>4. n - 1 \in P!NoSlot..MaxSlot
  BY <1>2, <1>3, MembershipsAssumption DEF P!NoSlot
<1>5. top(n - 1)
  <2>1. ASSUME n # 0, \A u \in P!Players : slot[u] # n - 1
        PROVE  FALSE
    <3>1. \A u \in P!Players : slot[u] <= n - 1
      BY <1>3
    <3>2. n - 1 \in Tops
      BY <1>1, <2>1, <3>1
    <3> QED
      BY <1>3, <3>2
  <2> QED
    BY <1>3, <2>1 DEF P!NoSlot
<1>6. \E s \in P!NoSlot..MaxSlot : top(s)
  BY <1>4, <1>5
<1>7. P!TopSlot = CHOOSE s \in P!NoSlot..MaxSlot : top(s)
  BY DEF P!TopSlot
<1> HIDE DEF top
<1>8. P!TopSlot \in P!NoSlot..MaxSlot /\ top(P!TopSlot)
  BY <1>6, <1>7
<1> QED
  BY <1>8 DEF top

LEMMA PickKeeps ==
  ASSUME ActivityInv, NEW g \in Gate, gates[g] # NoGate, P!PickSlot(g)
  PROVE  ActivityInv'
<1>0. PICK r : r = P!Reach(gates[g], "write", P!NextSlot, gates[g].to, gates[g].fresh)
  OBVIOUS
<1>1. /\ gates[g].at = "pick" /\ session' = session /\ party' = party /\ slot' = slot
      /\ upToDate' = upToDate /\ contended' = contended
  BY DEF P!PickSlot
<1>2. /\ upToDate' \subseteq Gamer /\ contended' \in BOOLEAN /\ StepOK(gates[g])
      /\ session # "new" /\ (~contended => ReadOK(gates[g]))
  BY <1>1 DEF ActivityInv, P!TypeOK, Admitted, ReadsHold
<1>3. /\ P!NextSlot \in P!NoSlot..MaxSlot /\ P!NextSlot # P!NoSlot
      /\ \A u \in P!Players : slot[u] < P!NextSlot
  <2>1. P!NextSlot = P!TopSlot + 1 /\ P!NextSlot <= MaxSlot
    BY DEF P!PickSlot, P!NextSlot
  <2>2. P!TopSlot \in P!NoSlot..MaxSlot /\ \A u \in P!Players : slot[u] <= P!TopSlot
    BY TopSlotBounds DEF ActivityInv
  <2>3. \A u \in P!Players : slot[u] \in P!NoSlot..MaxSlot
    BY DEF ActivityInv, P!TypeOK, P!Players
  <2> QED
    BY <2>1, <2>2, <2>3, MembershipsAssumption DEF P!NoSlot
<1>4. gates' = [gates EXCEPT ![g] = r]
  BY <1>0 DEF P!PickSlot, ActivityInv, P!TypeOK
<1>5. /\ r \in P!GateCall /\ r # NoGate /\ r.at = "write" /\ r.slot = P!NextSlot
      /\ r.user = gates[g].user /\ r.role = gates[g].role /\ r.was = gates[g].was
  BY <1>0, <1>3, GateFields, ReachFields DEF ActivityInv
<1>6. StepOK(r)
  BY <1>1, <1>2, <1>3, <1>5 DEF StepOK
<1>7. ASSUME ~contended'
      PROVE  ReadOK(r)'
  <2>1. ReadOK(gates[g])
    BY <1>1, <1>2, <1>7
  <2>2. (P!Players)' = P!Players /\ (P!Participants)' = P!Participants
    BY <1>1 DEF P!Players, P!Participants
  <2> QED
    BY <1>1, <1>3, <1>5, <2>1, <2>2 DEF ReadOK
<1> QED
  BY <1>1, <1>2, <1>4, <1>5, <1>6, <1>7, RequestTurns

LEMMA GatherKeeps ==
  ASSUME ActivityInv, NEW g \in Gate, gates[g] # NoGate, P!Gather(g)
  PROVE  ActivityInv'
<1>1. /\ gates[g].at = "gather" /\ session' = session /\ party' = party /\ slot' = slot
      /\ upToDate' = upToDate /\ contended' = contended
  BY DEF P!Gather
<1>2. upToDate' \subseteq Gamer /\ contended' \in BOOLEAN /\ session # "new"
  BY <1>1 DEF ActivityInv, P!TypeOK, Admitted
<1>3. CASE session \notin P!Live
  <2>1. P!Leave(g)
    BY <1>3 DEF P!Gather
  <2>2. P!Participants = {}
    BY <1>3 DEF ActivityInv, Admitted, P!Participants
  <2> QED
    BY <1>1, <1>2, <2>1, <2>2, LeaveKeeps
<1>4. CASE session \in P!Live
  <2>0. PICK r : r = P!Reach(gates[g], "send", gates[g].slot, P!Participants, TRUE)
    OBVIOUS
  <2>1. gates' = [gates EXCEPT ![g] = r]
    BY <2>0, <1>4 DEF P!Gather, P!SeenNow
  <2>2. P!Participants \subseteq Gamer
    BY DEF P!Participants
  <2>3. /\ r \in P!GateCall /\ r # NoGate
        /\ r.at = "send" /\ r.fresh = TRUE /\ r.to = P!Participants
    <3>1. gates[g] \in P!GateCall
      BY GateFields DEF ActivityInv
    <3>2. r \in P!GateCall
      BY <2>0, <2>2, <3>1 DEF P!Reach, P!GateCall
    <3> QED
      BY <2>0, <3>2, MembershipsAssumption DEF P!Reach
  <2>4. StepOK(r)
    BY <2>3 DEF StepOK
  <2>5. ReadOK(r)'
    <3>1. (P!Participants)' = P!Participants
      BY <1>1 DEF P!Participants
    <3> QED
      BY <2>3, <3>1 DEF ReadOK
  <2> QED
    BY <1>1, <1>2, <2>1, <2>3, <2>4, <2>5, RequestTurns
<1> QED
  BY <1>3, <1>4

LEMMA SendKeeps ==
  ASSUME ActivityInv, NEW g \in Gate, gates[g] # NoGate, P!SendRoster(g)
  PROVE  ActivityInv'
<1>1. /\ gates[g].at = "send" /\ session' = session /\ party' = party /\ slot' = slot
      /\ contended' = contended /\ P!Leave(g)
      /\ upToDate' = IF gates[g].fresh THEN upToDate \cup gates[g].to ELSE upToDate \ gates[g].to
  BY DEF P!SendRoster
<1>2. upToDate' \subseteq Gamer
  BY <1>1, GateFields DEF ActivityInv, P!TypeOK
<1>3. ~contended => P!Participants \subseteq upToDate'
  BY <1>1 DEF ActivityInv, ReadsHold, ReadOK
<1> QED
  BY <1>1, <1>2, <1>3, LeaveKeeps

LEMMA WriteStateKeeps ==
  ASSUME ActivityInv, NEW g \in Gate, gates[g] # NoGate, P!WriteState(g)
  PROVE  ActivityInv'
<1>1. /\ gates[g].at = "turn" /\ party' = party /\ slot' = slot /\ upToDate' = upToDate
      /\ contended' = contended /\ P!Leave(g)
      /\ session' = IF session \in P!Live THEN gates[g].state ELSE session
  BY DEF P!WriteState
<1>2. gates[g].state \in P!Live /\ upToDate \subseteq Gamer
  BY GateFields DEF ActivityInv, P!TypeOK
<1>3. ~contended => P!Participants \subseteq upToDate'
  BY <1>1 DEF ActivityInv, ReadsHold, ReadOK
<1> QED
  BY <1>1, <1>2, <1>3, LeaveKeeps

\* The participants change: u becomes what role says, in the slot place.
LEMMA ChangeKeeps ==
  ASSUME ActivityInv, NEW g \in Gate, gates[g] # NoGate, P!Changed(g),
         NEW u \in Gamer, NEW role \in P!Roles, NEW place \in P!NoSlot..MaxSlot,
         place # P!NoSlot <=> role = "player",
         party' = [party EXCEPT ![u] = role], slot' = [slot EXCEPT ![u] = place],
         session' = session, contended' = contended,
         (session \in P!Live /\ (u # Host \/ role # "out")) \/ (role = "out" /\ u # Host),
         ~contended /\ role = "player" =>
           /\ \A v \in P!Players : slot[v] < place
           /\ MaxPlayers = 0 \/ party[u] = "player" \/ Cardinality(P!Players) < MaxPlayers
  PROVE  ActivityInv'
<1> USE DEF ActivityInv
<1>1. /\ party'[u] = role /\ slot'[u] = place
      /\ \A v \in Gamer \ {u} : party'[v] = party[v] /\ slot'[v] = slot[v]
      /\ party' \in [Gamer -> P!Roles] /\ slot' \in [Gamer -> P!NoSlot..MaxSlot]
  BY DEF P!TypeOK
<1>2. \A h \in Gate : gates[h] # NoGate =>
        LET r == gates[h] IN
        gates'[h] = P!Reach(r, IF h = g THEN "gather" ELSE r.at, r.slot, r.to, FALSE)
  BY DEF P!Changed
<1>3. \A h \in Gate : gates[h] = NoGate => gates'[h] = NoGate
  BY DEF P!Changed
<1>4. \A h \in Gate : gates[h] # NoGate =>
        /\ gates'[h] \in P!GateCall /\ gates'[h] # NoGate
        /\ gates'[h].at = (IF h = g THEN "gather" ELSE gates[h].at)
        /\ gates'[h].slot = gates[h].slot /\ gates'[h].role = gates[h].role
        /\ gates'[h].user = gates[h].user
  <2> SUFFICES ASSUME NEW h \in Gate, gates[h] # NoGate
               PROVE  /\ gates'[h] \in P!GateCall /\ gates'[h] # NoGate
                      /\ gates'[h].at = (IF h = g THEN "gather" ELSE gates[h].at)
                      /\ gates'[h].slot = gates[h].slot /\ gates'[h].role = gates[h].role
                      /\ gates'[h].user = gates[h].user
    OBVIOUS
  <2>1. gates[h] \in P!GateCall /\ gates[h].slot \in P!NoSlot..MaxSlot /\ gates[h].to \subseteq Gamer
    BY GateFields
  <2>2. PICK at : at = IF h = g THEN "gather" ELSE gates[h].at
    OBVIOUS
  <2>3. at \in {"count", "pick", "write", "remove", "turn", "drop", "gather", "send"}
    BY <2>1, <2>2 DEF P!GateCall
  <2>4. gates'[h] = P!Reach(gates[h], at, gates[h].slot, gates[h].to, FALSE)
    BY <1>2, <2>2
  <2>5. LET r == P!Reach(gates[h], at, gates[h].slot, gates[h].to, FALSE) IN
        r \in P!GateCall /\ r # NoGate /\ r.at = at /\ r.slot = gates[h].slot
        /\ r.role = gates[h].role /\ r.user = gates[h].user
    <3>1. P!Reach(gates[h], at, gates[h].slot, gates[h].to, FALSE) \in P!GateCall
      BY <2>1, <2>3 DEF P!Reach, P!GateCall
    <3> QED
      BY <3>1, MembershipsAssumption DEF P!Reach
  <2> QED
    BY <2>2, <2>4, <2>5
<1>5. upToDate' = {} /\ gates' = [h \in Gate |-> gates'[h]]
  BY DEF P!Changed
<1>6. P!TypeOK'
  <2>1. gates' \in [Gate -> P!GateCall \cup {NoGate}]
    BY <1>3, <1>4, <1>5
  <2>2. \A v \in Gamer : slot'[v] # P!NoSlot <=> party'[v] = "player"
    BY <1>1 DEF P!TypeOK
  <2>3. session' \in P!Live <=> party'[Host] # "out"
    BY <1>1, MembershipsAssumption DEF P!TypeOK
  <2> QED
    BY <1>1, <1>5, <2>1, <2>2, <2>3 DEF P!TypeOK
<1>7. Admitted'
  <2>1. ASSUME NEW h \in Gate, gates'[h] # NoGate
        PROVE  StepOK(gates'[h])
    <3>1. StepOK(gates[h])
      BY <2>1, <1>3 DEF Admitted
    <3> QED
      BY <2>1, <3>1, <1>3, <1>4 DEF StepOK
  <2>2. session' \notin P!Live => \A v \in Gamer : party'[v] = "out"
    BY <1>1 DEF Admitted
  <2> QED
    BY <2>1, <2>2 DEF Admitted, StepOK
<1>8. ~contended => \A h \in Gate : gates'[h] # NoGate => h = g
  BY <1>3 DEF AloneHere
<1>9. AloneHere'
  BY <1>8 DEF AloneHere
<1>10. ReadsHold'
  <2> SUFFICES ASSUME ~contended', NEW h \in Gate, gates'[h] # NoGate
               PROVE  ReadOK(gates[h])'
    BY DEF ReadsHold
  <2>1. gates'[h].at = "gather"
    BY <1>4, <1>8
  <2> QED
    BY <2>1 DEF ReadOK
<1>11. P!SlotsKept'
  <2> SUFFICES ASSUME ~contended
               PROVE  /\ MaxPlayers = 0 \/ Cardinality(P!Players)' <= MaxPlayers
                      /\ \A v, w \in (P!Players)' : slot'[v] = slot'[w] => v = w
    BY ActivityCounts DEF P!SlotsKept
  <2>1. /\ MaxPlayers = 0 \/ Cardinality(P!Players) <= MaxPlayers
        /\ \A v, w \in P!Players : slot[v] = slot[w] => v = w
    BY ActivityCounts DEF P!SlotsKept
  <2>2. (P!Players)' = IF role = "player" THEN P!Players \cup {u} ELSE P!Players \ {u}
    BY <1>1 DEF P!Players
  <2>3. \A v \in P!Players : slot[v] \in Int
    BY MembershipsAssumption DEF P!Players, P!TypeOK, P!NoSlot
  <2>4. \A v, w \in (P!Players)' : slot'[v] = slot'[w] => v = w
    <3>1. \A v \in P!Players \ {u} : slot'[v] = slot[v]
      BY <1>1 DEF P!Players
    <3>2. place \in Int
      BY MembershipsAssumption DEF P!NoSlot
    <3> QED
      BY <1>1, <2>1, <2>2, <2>3, <3>1, <3>2
  <2>5. CASE role = "player" /\ party[u] # "player"
    <3>1. u \notin P!Players
      BY <2>5 DEF P!Players
    <3>2. Cardinality(P!Players \cup {u}) = Cardinality(P!Players) + 1
      BY <3>1, PlayersFinite, FS_AddElement
    <3>3. MaxPlayers = 0 \/ Cardinality(P!Players) < MaxPlayers
      BY <2>5
    <3>4. MaxPlayers = 0 \/ Cardinality(P!Players)' <= MaxPlayers
      BY <2>2, <2>5, <3>2, <3>3, PlayersFinite, MembershipsAssumption
    <3> QED
      BY <2>4, <3>4
  <2>6. CASE ~(role = "player" /\ party[u] # "player")
    <3>1. (P!Players)' \subseteq P!Players
      BY <2>2, <2>6 DEF P!Players
    <3>2. Cardinality(P!Players)' <= Cardinality(P!Players)
      BY <3>1, PlayersFinite, FS_Subset
    <3>3. MaxPlayers = 0 \/ Cardinality(P!Players)' <= MaxPlayers
      BY <2>1, <3>2, PlayersFinite, MembershipsAssumption
    <3> QED
      BY <2>4, <3>3
  <2> QED
    BY <2>5, <2>6
<1>12. P!RosterShown'
  BY <1>4 DEF P!RosterShown
<1> QED
  BY <1>6, <1>7, <1>9, <1>10, <1>11, <1>12

LEMMA WriteRoleKeeps ==
  ASSUME ActivityInv, NEW g \in Gate, gates[g] # NoGate, P!WriteRole(g)
  PROVE  ActivityInv'
<1> DEFINE r == gates[g]
<1>1. r.at = "write" /\ session' = session /\ contended' = contended
  BY DEF P!WriteRole
<1>2. /\ r.user \in Gamer /\ r.role \in P!Roles /\ r.slot \in P!NoSlot..MaxSlot
      /\ StepOK(r) /\ (~contended => ReadOK(r))
  BY GateFields DEF ActivityInv, Admitted, ReadsHold
<1>3. CASE /\ session \in P!Live
           /\ party' = [party EXCEPT ![r.user] = r.role]
           /\ slot' = [slot EXCEPT ![r.user] = r.slot]
           /\ P!Changed(g)
  <2>1. r.role # "out" /\ (r.slot # P!NoSlot <=> r.role = "player")
    BY <1>1, <1>2 DEF StepOK
  <2>2. ~contended /\ r.role = "player" =>
           /\ \A v \in P!Players : slot[v] < r.slot
           /\ MaxPlayers = 0 \/ party[r.user] = "player" \/ Cardinality(P!Players) < MaxPlayers
    BY <1>1, <1>2, <1>3 DEF ReadOK
  <2> QED
    BY <1>1, <1>2, <1>3, <2>1, <2>2, ChangeKeeps
<1>4. CASE P!Leave(g) /\ UNCHANGED <<party, slot, upToDate>>
  <2>1. upToDate' \subseteq Gamer
    BY <1>4 DEF ActivityInv, P!TypeOK
  <2>2. ~contended => P!Participants \subseteq upToDate'
    BY <1>1, <1>2, <1>4 DEF ReadOK
  <2> QED
    BY <1>1, <1>4, <2>1, <2>2, LeaveKeeps
<1> QED
  BY <1>3, <1>4 DEF P!WriteRole

LEMMA RemoveKeeps ==
  ASSUME ActivityInv, NEW g \in Gate, gates[g] # NoGate, P!RemoveParticipant(g)
  PROVE  ActivityInv'
<1>1. /\ gates[g].at = "remove" /\ session' = session /\ contended' = contended /\ P!Changed(g)
      /\ party' = [party EXCEPT ![gates[g].user] = "out"]
      /\ slot' = [slot EXCEPT ![gates[g].user] = P!NoSlot]
  BY DEF P!RemoveParticipant
<1>2. gates[g].user \in Gamer /\ gates[g].user # Host
  BY <1>1, GateFields DEF ActivityInv, Admitted, StepOK
<1>3. "out" \in P!Roles /\ P!NoSlot \in P!NoSlot..MaxSlot
  BY MembershipsAssumption DEF P!Roles, P!NoSlot
<1> QED
  BY <1>1, <1>2, <1>3, ChangeKeeps

LEMMA CreateKeeps ==
  ASSUME ActivityInv, NEW lobby \in BOOLEAN, P!CreateSession(lobby)
  PROVE  ActivityInv'
<1> USE DEF ActivityInv
<1>1. /\ session = "new" /\ session' \in {"lobby", "running"}
      /\ party' = [party EXCEPT ![Host] = "player"] /\ slot' = [slot EXCEPT ![Host] = 0]
      /\ upToDate' = Gamer /\ gates' = gates /\ contended' = contended
  BY DEF P!CreateSession
<1>2. \A g \in Gate : gates[g] = NoGate
  BY <1>1 DEF Admitted
<1>3. \A u \in Gamer : party[u] = "out"
  BY <1>1 DEF Admitted, P!Live
<1>4. P!TypeOK'
  <2>1. 0 \in P!NoSlot..MaxSlot /\ P!NoSlot # 0
    BY MembershipsAssumption DEF P!NoSlot
  <2>2. party' \in [Gamer -> P!Roles] /\ slot' \in [Gamer -> P!NoSlot..MaxSlot]
    BY <1>1, <2>1 DEF P!TypeOK, P!Roles
  <2>3. \A u \in Gamer : slot'[u] # P!NoSlot <=> party'[u] = "player"
    BY <1>1, <2>1 DEF P!TypeOK
  <2>4. session' \in P!Live /\ party'[Host] = "player"
    BY <1>1, MembershipsAssumption DEF P!TypeOK, P!Live
  <2> QED
    BY <1>1, <2>2, <2>3, <2>4 DEF P!TypeOK
<1>5. Admitted' /\ AloneHere' /\ ReadsHold'
  BY <1>1, <1>2 DEF Admitted, AloneHere, ReadsHold, P!Live
<1>6. P!SlotsKept'
  <2>1. (P!Players)' = {Host}
    BY <1>1, <1>3, MembershipsAssumption DEF P!Players, P!TypeOK
  <2>2. Cardinality({Host}) = 1
    BY FS_Singleton
  <2>3. P!Cardinality((P!Players)') = 1
    BY <2>1, <2>2, ActivityCounts
  <2> QED
    BY <2>1, <2>3, MembershipsAssumption DEF P!SlotsKept
<1>7. P!RosterShown'
  BY <1>1 DEF P!RosterShown, P!Participants
<1> QED
  BY <1>4, <1>5, <1>6, <1>7

LEMMA DeleteKeeps ==
  ASSUME ActivityInv, P!DeleteSession
  PROVE  ActivityInv'
<1> USE DEF ActivityInv
<1>1. /\ session \in P!Live /\ session' = "gone"
      /\ party' = [u \in Gamer |-> "out"] /\ slot' = [u \in Gamer |-> P!NoSlot]
      /\ upToDate' = upToDate /\ gates' = gates /\ contended' = contended
  BY DEF P!DeleteSession, P!NoParty
<1>2. (P!Players)' = {} /\ (P!Participants)' = {}
  BY <1>1 DEF P!Players, P!Participants
<1>3. P!TypeOK'
  <2>1. P!NoSlot \in P!NoSlot..MaxSlot
    BY MembershipsAssumption DEF P!NoSlot
  <2> QED
    BY <1>1, <2>1, MembershipsAssumption DEF P!TypeOK, P!Roles, P!Live
<1>4. Admitted'
  BY <1>1 DEF Admitted, StepOK
<1>5. AloneHere'
  BY <1>1 DEF AloneHere
<1>6. Cardinality({}) = 0 /\ P!Cardinality({}) = 0
  BY FS_EmptySet, ActivityCounts
<1>7. ReadsHold'
  <2> SUFFICES ASSUME ~contended, NEW g \in Gate, gates[g] # NoGate
               PROVE  ReadOK(gates[g])'
    BY <1>1 DEF ReadsHold
  <2>1. ReadOK(gates[g])
    BY DEF ReadsHold
  <2>2. session' \notin P!Live
    BY <1>1 DEF P!Live
  <2> QED
    BY <1>1, <1>2, <1>6, <2>1, <2>2, MembershipsAssumption DEF ReadOK
<1>8. P!SlotsKept'
  BY <1>2, <1>6, MembershipsAssumption DEF P!SlotsKept
<1>9. P!RosterShown'
  BY <1>2 DEF P!RosterShown
<1> QED
  BY <1>3, <1>4, <1>5, <1>7, <1>8, <1>9

LEMMA ActivityStep == ActivityInv /\ [P!PNext]_(P!pvars) => ActivityInv'
<1> SUFFICES ASSUME ActivityInv, [P!PNext]_(P!pvars)
             PROVE  ActivityInv'
  OBVIOUS
<1>1. ASSUME NEW lobby \in BOOLEAN, P!CreateSession(lobby)
      PROVE  ActivityInv'
  BY <1>1, CreateKeeps
<1>2. ASSUME NEW g \in Gate, NEW u \in Gamer, NEW role \in {"player", "spectator"},
             P!AssignRole(g, u, role)
      PROVE  ActivityInv'
  <2>1. PICK at : at = IF role = "player" THEN "count" ELSE "write"
    OBVIOUS
  <2>2. P!Enter(g, at, u, role) /\ role \in P!Roles
    BY <1>2, <2>1 DEF P!AssignRole, P!Roles
  <2> QED
    BY <2>1, <2>2, EnterKeeps
<1>3. ASSUME NEW g \in Gate, NEW u \in Gamer, P!LeaveSession(g, u)
      PROVE  ActivityInv'
  <2>1. P!Enter(g, "remove", u, "out") /\ u # Host /\ "out" \in P!Roles
    BY <1>3 DEF P!LeaveSession, P!Roles
  <2> QED
    BY <2>1, EnterKeeps
<1>4. ASSUME NEW g \in Gate, NEW to \in P!Live, P!UpdateSessionState(g, to)
      PROVE  ActivityInv'
  BY <1>4, UpdateStateKeeps
<1>5. ASSUME NEW g \in Gate, gates[g] # NoGate, P!Work(g)
      PROVE  ActivityInv'
  BY <1>5, CountKeeps, PickKeeps, WriteRoleKeeps, RemoveKeeps, GatherKeeps, SendKeeps,
     WriteStateKeeps DEF P!Work
<1>6. CASE UNCHANGED P!pvars
  <2>1. /\ session' = session /\ party' = party /\ slot' = slot /\ upToDate' = upToDate
        /\ gates' = gates /\ contended' = contended
    BY <1>6 DEF P!pvars
  <2>2. (P!Players)' = P!Players /\ (P!Participants)' = P!Participants
    BY <2>1 DEF P!Players, P!Participants
  <2> QED
    BY <2>1, <2>2 DEF ActivityInv, P!TypeOK, Admitted, AloneHere, ReadsHold, ReadOK,
       P!SlotsKept, P!RosterShown
<1> QED
  BY <1>1, <1>2, <1>3, <1>4, <1>5, <1>6, DeleteKeeps DEF P!PNext

\* Among requests that follow one another, no two players share a slot, there
\* are no more than the manifest allows, and every participant has been told who
\* takes part (assign_role, leave_session, delete_session).
THEOREM ActivityIsKept == P!PSpec => []ActivityHolds
<1>1. ActivityInv => ActivityHolds
  BY DEF ActivityInv, ActivityHolds
<1> QED
  BY ActivityInit, ActivityStep, <1>1, PTL DEF P!PSpec
-----------------------------------------------------------------------------
(* Direct and group channels.                                               *)

LEMMA DirectCounts == \A S : D!Cardinality(S) = Cardinality(S)
BY DEF D!Cardinality, Cardinality

\* What a call may still have to do.
Steps == {<<"enter">>, <<"insert">>, <<"remove", "count">>, <<"remove", "countGroup">>,
          <<"count">>, <<"countGroup">>, <<"delete">>, <<"first", "pass">>, <<"pass">>}
Does(w) == Head(calls[w].todo)
Inserting(c) == {w \in D!On(c) : Does(w) = "insert"}

\* A channel that is being created is nobody else's yet.
CallOK(w) ==
  /\ calls[w].todo \in Steps /\ calls[w].user \in Peer
  /\ Does(w) = "enter" =>
       /\ kind[calls[w].on] = "none" /\ D!On(calls[w].on) = {w}
       /\ Cardinality(calls[w].list) < MaxGroup
CallsOK == \A w \in Call : calls[w] # NoCall => CallOK(w)

\* A channel without participants: one is to be inserted, or they are counted.
Waited(c) == kind[c] # "none" /\ participants[c] = {} =>
  \E w \in D!On(c) : Does(w) \in {"insert", "remove", "count", "countGroup", "delete"}
\* While calls do not overlap, the owner takes part or is about to be replaced.
OwnerOK(c, w) ==
  LET call == calls[w] IN
  /\ Does(w) = "insert" => owner[c] \in participants[c] \cup call.list
  /\ Does(w) = "remove" =>
       owner[c] \in participants[c] /\ (owner[c] = call.user => call.heir # Nobody)
  /\ Does(w) \in {"count", "countGroup"} => owner[c] \in participants[c] \/ call.heir # Nobody
  /\ Does(w) = "first" => participants[c] # {}
  /\ Does(w) = "pass" => call.heir \in participants[c]
Owned(c) == c \notin overlapped =>
  /\ \A v, w \in D!On(c) : v = w
  /\ kind[c] = "group_dm" =>
       /\ D!On(c) = {} => owner[c] \in participants[c]
       /\ \A w \in D!On(c) : OwnerOK(c, w)
Fits(c) == c \notin overlapped =>
  /\ Cardinality(participants[c]) <= MaxGroup
  /\ \A w \in Inserting(c) : Cardinality(participants[c] \cup calls[w].list) <= MaxGroup
\* All calls but one insert one participant; that one, whoever creates the
\* channel, fills it up to the limit.
Listed(c, k) == IF k \in Inserting(c) THEN calls[k].list ELSE {}
Bounded(c, k) ==
  /\ \A w \in Inserting(c) \ {k} : calls[w].list = {calls[w].user}
  /\ Cardinality(participants[c] \cup Listed(c, k)) + Cardinality(Inserting(c) \ {k})
       <= 2 * MaxGroup + Cardinality(Call) - 3
  /\ \/ Cardinality(Listed(c, k)) <= MaxGroup - 1
     \/ /\ Cardinality(Listed(c, k)) <= MaxGroup
        /\ participants[c] = {} /\ Inserting(c) \subseteq {k}
ChannelInv(c) == Waited(c) /\ Owned(c) /\ Fits(c) /\ \E k : Bounded(c, k)
DirectInv == D!TypeOK /\ CallsOK /\ \A c \in Direct : ChannelInv(c)

LEMMA DirectFinite ==
  ASSUME D!TypeOK, NEW c \in Direct
  PROVE  /\ IsFiniteSet(participants[c]) /\ Cardinality(participants[c]) \in Nat
         /\ \A T : T \subseteq Peer => IsFiniteSet(T) /\ Cardinality(T) \in Nat
         /\ \A T : T \subseteq Call =>
              IsFiniteSet(T) /\ Cardinality(T) \in Nat /\ Cardinality(T) <= Cardinality(Call)
         /\ Cardinality(Call) \in Nat
BY MembershipsAssumption, FS_Subset, FS_CardinalityType DEF D!TypeOK

LEMMA DirectInit == D!Init => DirectInv
<1> SUFFICES ASSUME D!Init
             PROVE  DirectInv
  OBVIOUS
<1>1. D!TypeOK
  BY DEF D!Init, D!TypeOK
<1>2. CallsOK
  BY DEF CallsOK, D!Init
<1>3. ASSUME NEW c \in Direct
      PROVE  ChannelInv(c)
  <2>1. D!On(c) = {} /\ participants[c] = {} /\ kind[c] = "none" /\ Inserting(c) = {}
    BY DEF D!Init, D!On, Inserting
  <2>2. Cardinality({}) = 0 /\ Cardinality(Call) \in Nat
    BY FS_EmptySet, FS_CardinalityType, MembershipsAssumption
  <2>3. Bounded(c, NoCall)
    <3>1. Listed(c, NoCall) = {} /\ {} \cup {} = {} /\ {} \ {NoCall} = {}
      BY <2>1 DEF Listed
    <3> QED
      BY <2>1, <2>2, <3>1, MembershipsAssumption DEF Bounded
  <2>4. Waited(c) /\ Owned(c) /\ Fits(c)
    BY <2>1, <2>2, MembershipsAssumption DEF Waited, Owned, Fits
  <2> QED
    BY <2>3, <2>4 DEF ChannelInv
<1> QED
  BY <1>1, <1>2, <1>3 DEF DirectInv

LEMMA StepHeads ==
  /\ \A t \in Steps : t # <<>> /\ t \in Seq(D!Job)
  /\ Head(<<"enter">>) = "enter" /\ Head(<<"insert">>) = "insert"
  /\ Head(<<"remove", "count">>) = "remove" /\ Tail(<<"remove", "count">>) = <<"count">>
  /\ Head(<<"remove", "countGroup">>) = "remove"
  /\ Tail(<<"remove", "countGroup">>) = <<"countGroup">>
  /\ Head(<<"count">>) = "count" /\ Head(<<"countGroup">>) = "countGroup"
  /\ Head(<<"delete">>) = "delete" /\ Tail(<<"delete">>) = <<>>
  /\ Head(<<"first", "pass">>) = "first" /\ Tail(<<"first", "pass">>) = <<"pass">>
  /\ Head(<<"pass">>) = "pass" /\ Tail(<<"pass">>) = <<>>
BY DEF Steps, D!Job

\* Call w, which is about channel c, turns: the other calls do not.
Turned(w, c) ==
  /\ \A v \in Call \ {w} : calls'[v] = calls[v]
  /\ calls[w] # NoCall => calls[w].on = c
  /\ calls'[w] # NoCall => calls'[w].on = c

LEMMA CallTurns ==
  ASSUME NEW w \in Call, NEW c \in Direct, Turned(w, c)
  PROVE  /\ D!On(c)' = (D!On(c) \ {w}) \cup (IF calls'[w] = NoCall THEN {} ELSE {w})
         /\ Inserting(c)' = (Inserting(c) \ {w}) \cup
              (IF calls'[w] # NoCall /\ Head(calls'[w].todo) = "insert" THEN {w} ELSE {})
         /\ \A d \in Direct \ {c} :
              /\ D!On(d)' = D!On(d) /\ Inserting(d)' = Inserting(d)
              /\ w \notin D!On(d)
<1>1. \A v \in Call \ {w} : calls'[v] = calls[v]
  BY DEF Turned
<1>2. D!On(c)' = (D!On(c) \ {w}) \cup (IF calls'[w] = NoCall THEN {} ELSE {w})
  BY <1>1 DEF D!On, Turned
<1>3. Inserting(c)' = (Inserting(c) \ {w}) \cup
              (IF calls'[w] # NoCall /\ Head(calls'[w].todo) = "insert" THEN {w} ELSE {})
  <2>1. \A v \in Call \ {w} : (Does(v))' = Does(v)
    BY <1>1 DEF Does
  <2>2. (Does(w))' = Head(calls'[w].todo)
    BY DEF Does
  <2>3. D!On(c) \subseteq Call
    BY DEF D!On
  <2> QED
    BY <1>2, <2>1, <2>2, <2>3 DEF Inserting
<1>4. ASSUME NEW d \in Direct \ {c}
      PROVE  /\ D!On(d)' = D!On(d) /\ Inserting(d)' = Inserting(d)
             /\ w \notin D!On(d)
  <2>1. w \notin D!On(d) /\ D!On(d)' = D!On(d) /\ D!On(d) \subseteq Call \ {w}
    BY <1>1 DEF D!On, Turned
  <2>2. \A v \in D!On(d) : (Does(v))' = Does(v)
    BY <1>1, <2>1 DEF Does
  <2> QED
    BY <2>1, <2>2 DEF Inserting
<1> QED
  BY <1>2, <1>3, <1>4

LEMMA OtherChannels ==
  ASSUME NEW d, ChannelInv(d), D!On(d)' = D!On(d), Inserting(d)' = Inserting(d),
         \A v \in D!On(d) : calls'[v] = calls[v],
         kind'[d] = kind[d], owner'[d] = owner[d], participants'[d] = participants[d],
         d \in overlapped' <=> d \in overlapped
  PROVE  ChannelInv(d)'
<1>1. \A v \in D!On(d) : (Does(v))' = Does(v)
  BY DEF Does
<1>2. Inserting(d) \subseteq D!On(d)
  BY DEF Inserting
<1>3. Waited(d)'
  BY <1>1 DEF ChannelInv, Waited
<1>4. \A v \in D!On(d) : OwnerOK(d, v) => OwnerOK(d, v)'
  BY <1>1 DEF OwnerOK
<1>5. Owned(d)'
  BY <1>4 DEF ChannelInv, Owned
<1>6. Fits(d)'
  BY <1>2 DEF ChannelInv, Fits
<1>7. ASSUME NEW k, Bounded(d, k)
      PROVE  Bounded(d, k)'
  <2>1. Listed(d, k)' = Listed(d, k)
    BY <1>2 DEF Listed
  <2> QED
    BY <1>2, <1>7, <2>1 DEF Bounded
<1> QED
  BY <1>3, <1>5, <1>6, <1>7 DEF ChannelInv

LEMMA TurnKeeps ==
  ASSUME DirectInv, NEW w \in Call, NEW c \in Direct, Turned(w, c),
         calls[w] # NoCall \/ D!On(c) = {} \/ kind[c] # "none",
         D!TypeOK', calls'[w] # NoCall => CallOK(w)', ChannelInv(c)',
         \A d \in Direct \ {c} :
           /\ kind'[d] = kind[d] /\ owner'[d] = owner[d] /\ participants'[d] = participants[d]
           /\ d \in overlapped' <=> d \in overlapped
  PROVE  DirectInv'
<1>1. /\ \A v \in Call \ {w} : calls'[v] = calls[v]
      /\ \A d \in Direct \ {c} :
           /\ D!On(d)' = D!On(d) /\ Inserting(d)' = Inserting(d)
           /\ w \notin D!On(d)
  BY CallTurns DEF Turned
<1>2. ASSUME NEW d \in Direct \ {c}
      PROVE  ChannelInv(d)'
  <2>1. \A v \in D!On(d) : calls'[v] = calls[v]
    BY <1>1 DEF D!On
  <2>2. ChannelInv(d)
    BY DEF DirectInv
  <2> QED
    BY <1>1, <2>1, <2>2, OtherChannels
<1>3. ASSUME NEW v \in Call, calls'[v] # NoCall
      PROVE  CallOK(v)'
  <2>1. CASE v = w
    BY <1>1, <1>3, <2>1
  <2>2. CASE v # w
    <3>1. calls'[v] = calls[v] /\ calls[v] # NoCall
      BY <1>1, <1>3, <2>2
    <3>2. CallOK(v) /\ calls[v].on \in Direct
      BY <3>1 DEF DirectInv, CallsOK, D!TypeOK, D!CallRecord
    <3>3. Does(v) = "enter" => calls[v].on # c
      <4> SUFFICES ASSUME Does(v) = "enter", calls[v].on = c
                   PROVE  FALSE
        OBVIOUS
      <4>1. kind[c] = "none" /\ D!On(c) = {v}
        BY <3>2 DEF CallOK
      <4>2. calls[w] # NoCall => w \in D!On(c)
        BY DEF D!On, Turned
      <4> QED
        BY <2>2, <4>1, <4>2
    <3>4. (Does(v))' = Does(v)
      BY <3>1 DEF Does
    <3>5. calls'[v].todo \in Steps /\ calls'[v].user \in Peer
      BY <3>1, <3>2 DEF CallOK
    <3>6. ASSUME Does(v) = "enter"
          PROVE  /\ kind'[calls'[v].on] = "none"
                 /\ D!On(calls[v].on)' = {v} /\ Cardinality(calls'[v].list) < MaxGroup
      <4>1. calls[v].on \in Direct \ {c}
        BY <3>2, <3>3, <3>6
      <4>2. kind[calls[v].on] = "none" /\ D!On(calls[v].on) = {v}
            /\ Cardinality(calls[v].list) < MaxGroup
        BY <3>2, <3>6 DEF CallOK
      <4>3. PICK d \in Direct \ {c} : d = calls[v].on
        BY <4>1
      <4>4. D!On(d)' = {v} /\ kind'[d] = "none"
        BY <1>1, <4>2, <4>3
      <4>5. calls'[v].on = d
        BY <3>1, <4>3
      <4>6. D!On(calls[v].on)' = {v}
        BY <4>4, <4>5 DEF D!On
      <4> QED
        BY <3>1, <4>2, <4>4, <4>5, <4>6
    <3> QED
      BY <3>1, <3>4, <3>5, <3>6 DEF CallOK
  <2> QED
    BY <2>1, <2>2
<1> QED
  BY <1>2, <1>3 DEF DirectInv, CallsOK

LEMMA UnionBound ==
  ASSUME NEW S, NEW T, IsFiniteSet(S), IsFiniteSet(T)
  PROVE  /\ Cardinality(S \cup T) \in Nat /\ Cardinality(S) \in Nat /\ Cardinality(T) \in Nat
         /\ Cardinality(S \cup T) <= Cardinality(S) + Cardinality(T)
<1>1. IsFiniteSet(S \cup T) /\ IsFiniteSet(S \cap T)
  BY FS_Union, FS_Intersection
<1>2. Cardinality(S \cup T) = Cardinality(S) + Cardinality(T) - Cardinality(S \cap T)
  BY FS_Union
<1> QED
  BY <1>1, <1>2, FS_CardinalityType
-----------------------------------------------------------------------------
LEMMA StartTurns ==
  ASSUME D!TypeOK, NEW w \in Call, NEW c \in Direct, NEW todo \in Steps, NEW user \in Peer,
         NEW list, list \subseteq Peer, D!Start(w, c, todo, user, list),
         kind' = kind, owner' = owner, participants' = participants
  PROVE  /\ calls[w] = NoCall /\ Turned(w, c) /\ calls'[w] # NoCall
         /\ calls'[w].todo = todo /\ calls'[w].on = c /\ calls'[w].user = user
         /\ calls'[w].list = list
         /\ calls'[w].heir = IF kind[c] = "group_dm" /\ owner[c] = user THEN user ELSE Nobody
         /\ D!TypeOK'
         /\ c \in overlapped' <=> c \in overlapped \/ D!On(c) # {}
         /\ \A d \in Direct \ {c} : d \in overlapped' <=> d \in overlapped
<1>0. PICK s : s = [todo |-> todo, on |-> c, user |-> user, list |-> list,
                   heir |-> IF kind[c] = "group_dm" /\ owner[c] = user THEN user ELSE Nobody]
  OBVIOUS
<1>1. todo # <<>> /\ todo \in Seq(D!Job)
  BY StepHeads
<1>2. s \in D!CallRecord
  BY <1>0, <1>1 DEF D!CallRecord
<1>3. s # NoCall
  BY <1>2, MembershipsAssumption
<1>4. /\ calls[w] = NoCall /\ calls' = [calls EXCEPT ![w] = s]
      /\ overlapped' = IF D!On(c) = {} THEN overlapped ELSE overlapped \cup {c}
  BY <1>0 DEF D!Start
<1>5. calls'[w] = s /\ \A v \in Call \ {w} : calls'[v] = calls[v]
  BY <1>4 DEF D!TypeOK
<1>6. s.todo = todo /\ s.on = c /\ s.user = user /\ s.list = list
      /\ s.heir = IF kind[c] = "group_dm" /\ owner[c] = user THEN user ELSE Nobody
  BY <1>0
<1>7. D!TypeOK'
  <2>1. calls' \in [Call -> D!CallRecord \cup {NoCall}]
    BY <1>2, <1>4 DEF D!TypeOK
  <2>2. \A v \in Call : calls'[v] # NoCall => calls'[v].todo # <<>>
    BY <1>1, <1>5, <1>6 DEF D!TypeOK
  <2> QED
    BY <1>4, <2>1, <2>2 DEF D!TypeOK
<1> QED
  BY <1>3, <1>4, <1>5, <1>6, <1>7 DEF Turned

\* Calls that begin on a channel that is there.
LEMMA StartKeeps ==
  ASSUME DirectInv, NEW w \in Call, NEW c \in Direct, NEW todo \in Steps, NEW user \in Peer,
         NEW list, list \subseteq Peer, D!Start(w, c, todo, user, list),
         kind' = kind, owner' = owner, participants' = participants, kind[c] # "none",
         \/ Head(todo) = "remove"
         \/ /\ Head(todo) = "insert" /\ list = {user} /\ owner[c] \in participants[c]
            /\ Cardinality(participants[c]) < MaxGroup
  PROVE  DirectInv'
<1> DEFINE s == calls'[w]
<1>1. /\ calls[w] = NoCall /\ Turned(w, c) /\ calls'[w] # NoCall
      /\ calls'[w].todo = todo /\ calls'[w].on = c /\ calls'[w].user = user
      /\ calls'[w].list = list
      /\ calls'[w].heir = IF kind[c] = "group_dm" /\ owner[c] = user THEN user ELSE Nobody
      /\ D!TypeOK'
      /\ c \in overlapped' <=> c \in overlapped \/ D!On(c) # {}
      /\ \A d \in Direct \ {c} : d \in overlapped' <=> d \in overlapped
  <2>1. D!TypeOK
    BY DEF DirectInv
  <2> QED
    BY <2>1, StartTurns
<1>2. /\ D!On(c)' = D!On(c) \cup {w} /\ w \notin D!On(c)
      /\ Inserting(c)' = Inserting(c) \cup (IF Head(todo) = "insert" THEN {w} ELSE {})
      /\ w \notin Inserting(c) /\ (Does(w))' = Head(todo)
      /\ Inserting(c) \subseteq D!On(c) /\ D!On(c) \subseteq Call
  BY <1>1, CallTurns DEF D!On, Inserting, Does
<1>3. \A v \in D!On(c) : calls'[v] = calls[v] /\ (Does(v))' = Does(v)
  BY <1>1, <1>2 DEF Turned, Does
<1>4. CallOK(w)'
  <2>1. Head(todo) # "enter"
    OBVIOUS
  <2> QED
    BY <1>1, <1>2, <2>1 DEF CallOK
<1>5. ChannelInv(c) /\ D!TypeOK
  BY DEF DirectInv
<1>6. Waited(c)'
  BY <1>2, <1>3, <1>5 DEF ChannelInv, Waited
<1>7. Owned(c)'
  <2> SUFFICES ASSUME c \notin overlapped'
               PROVE  /\ \A u, v \in D!On(c)' : u = v
                      /\ kind[c] = "group_dm" =>
                           /\ D!On(c)' = {} => owner[c] \in participants[c]
                           /\ \A v \in D!On(c)' : OwnerOK(c, v)'
    BY DEF Owned
  <2>1. D!On(c) = {} /\ c \notin overlapped /\ D!On(c)' = {w}
    BY <1>1, <1>2
  <2>2. kind[c] = "group_dm" => owner[c] \in participants[c]
    BY <1>5, <2>1 DEF ChannelInv, Owned
  <2>3. user # Nobody
    BY MembershipsAssumption
  <2>4. kind[c] = "group_dm" => OwnerOK(c, w)'
    BY <1>1, <1>2, <2>2, <2>3 DEF OwnerOK
  <2> QED
    BY <2>1, <2>4
<1>8. Fits(c)'
  <2> SUFFICES ASSUME c \notin overlapped'
               PROVE  /\ Cardinality(participants[c]) <= MaxGroup
                      /\ \A v \in Inserting(c)' :
                           Cardinality(participants[c] \cup calls'[v].list) <= MaxGroup
    BY DEF Fits
  <2>1. D!On(c) = {} /\ c \notin overlapped
    BY <1>1
  <2>2. Cardinality(participants[c]) <= MaxGroup
    BY <1>5, <2>1 DEF ChannelInv, Fits
  <2>3. \A v \in Inserting(c)' : v = w /\ Head(todo) = "insert"
    BY <1>2, <2>1
  <2>4. Head(todo) = "insert" => Cardinality(participants[c] \cup {user}) <= MaxGroup
    <3>1. Cardinality(participants[c] \cup {user}) \in
            {Cardinality(participants[c]), Cardinality(participants[c]) + 1}
      BY <1>5, DirectFinite, FS_AddElement
    <3> QED
      BY <1>5, <3>1, DirectFinite, MembershipsAssumption
  <2> QED
    BY <1>1, <2>2, <2>3, <2>4
<1>9. \E k : Bounded(c, k)'
  <2>1. PICK k : Bounded(c, k)
    BY <1>5 DEF ChannelInv
  <2>2. CASE Head(todo) # "insert"
    <3>1. Inserting(c)' = Inserting(c)
      BY <1>2, <2>2
    <3>2. Listed(c, k)' = Listed(c, k)
      BY <1>2, <1>3, <3>1 DEF Listed
    <3>3. Bounded(c, k)'
      BY <1>2, <1>3, <2>1, <3>1, <3>2 DEF Bounded
    <3> QED
      BY <3>3
  <2>3. CASE Head(todo) = "insert"
    <3>1. Inserting(c)' = Inserting(c) \cup {w} /\ w \notin Inserting(c)
      BY <1>2, <2>3
    <3>2. participants[c] # {} /\ list = {user}
      BY <2>3
    <3>3. Cardinality(Listed(c, k)') <= MaxGroup - 1
      <4>1. CASE k = w
        <5>1. Listed(c, k)' = {user}
          BY <1>1, <3>1, <3>2, <4>1 DEF Listed
        <5>2. Cardinality({user}) = 1
          BY FS_Singleton
        <5> QED
          BY <5>1, <5>2, MembershipsAssumption
      <4>2. CASE k # w
        <5>1. Listed(c, k)' = Listed(c, k)
          BY <1>2, <1>3, <3>1, <4>2 DEF Listed
        <5> QED
          BY <2>1, <3>2, <5>1 DEF Bounded
      <4> QED
        BY <4>1, <4>2
    <3>4. Cardinality(participants[c] \cup Listed(c, k)') <=
            Cardinality(participants[c]) + Cardinality(Listed(c, k)')
      <4>1. Listed(c, k)' \subseteq Peer
        BY <1>1, <1>2, <1>3, <1>5 DEF Listed, D!On, D!TypeOK, D!CallRecord
      <4>2. IsFiniteSet(Listed(c, k)') /\ IsFiniteSet(participants[c])
        BY <4>1, <1>5, DirectFinite
      <4> QED
        BY <4>2, UnionBound
    <3>5. /\ Listed(c, k)' \subseteq Peer
          /\ Cardinality(participants[c] \cup Listed(c, k)') \in Nat
          /\ Cardinality(Inserting(c)' \ {k}) \in Nat /\ Cardinality(Call) \in Nat
      <4>1. Listed(c, k)' \subseteq Peer
        BY <1>1, <1>2, <1>3, <1>5 DEF Listed, D!On, D!TypeOK, D!CallRecord
      <4>2. participants[c] \cup Listed(c, k)' \subseteq Peer
        BY <4>1, <1>5 DEF D!TypeOK
      <4>3. Inserting(c)' \ {k} \subseteq Call
        BY <1>2
      <4> QED
        BY <4>1, <4>2, <4>3, <1>5, DirectFinite
    <3>6. /\ Cardinality(participants[c]) \in Nat /\ Cardinality(participants[c]) <= MaxGroup - 1
          /\ Cardinality(Listed(c, k)') \in Nat
      BY <1>5, <2>3, <3>5, DirectFinite, MembershipsAssumption
    <3>7. Cardinality(participants[c] \cup Listed(c, k)') + Cardinality(Inserting(c)' \ {k})
            <= 2 * MaxGroup + Cardinality(Call) - 3
      <4>1. CASE k \in Call
        <5>1. Inserting(c)' \ {k} \subseteq Call \ {k}
          BY <1>2
        <5>2. IsFiniteSet(Call \ {k}) /\ Cardinality(Call \ {k}) = Cardinality(Call) - 1
          BY <4>1, MembershipsAssumption, FS_RemoveElement
        <5>3. Cardinality(Inserting(c)' \ {k}) <= Cardinality(Call) - 1
          BY <5>1, <5>2, FS_Subset
        <5> QED
          BY <3>3, <3>4, <3>5, <3>6, <5>3, MembershipsAssumption
      <4>2. CASE k \notin Call
        <5>1. Listed(c, k)' = {}
          BY <1>2, <4>2 DEF Listed
        <5>2. Inserting(c)' \ {k} \subseteq Call
          BY <1>2
        <5>3. Cardinality(Inserting(c)' \ {k}) <= Cardinality(Call)
          BY <5>2, <1>5, DirectFinite
        <5>4. Cardinality(participants[c] \cup Listed(c, k)') = Cardinality(participants[c])
          <6>1. participants[c] \cup Listed(c, k)' = participants[c]
            BY <5>1
          <6> QED
            BY <6>1
        <5> QED
          BY <3>5, <3>6, <5>3, <5>4, MembershipsAssumption
      <4> QED
        BY <4>1, <4>2
    <3>8. \A v \in Inserting(c)' \ {k} : calls'[v].list = {calls'[v].user}
      BY <1>1, <1>2, <1>3, <2>1, <2>3, <3>1 DEF Bounded
    <3>9. Bounded(c, k)'
      BY <3>3, <3>7, <3>8 DEF Bounded
    <3> QED
      BY <3>9
  <2> QED
    BY <2>2, <2>3
<1> QED
  BY <1>1, <1>2, <1>4, <1>6, <1>7, <1>8, <1>9, TurnKeeps DEF ChannelInv

LEMMA BoundShrinks ==
  ASSUME D!TypeOK, NEW c \in Direct, D!TypeOK', NEW k, Bounded(c, k),
         Inserting(c)' \subseteq Inserting(c), participants'[c] \subseteq participants[c],
         \A v \in Inserting(c)' : calls'[v] = calls[v]
  PROVE  Bounded(c, k)'
<1>1. Inserting(c) \subseteq Call
  BY DEF Inserting, D!On
<1>2. Listed(c, k)' \subseteq Listed(c, k) /\ Listed(c, k) \subseteq Peer
  BY DEF Listed, Inserting, D!On, D!TypeOK, D!CallRecord
<1>3. \A v \in Inserting(c)' \ {k} : calls'[v].list = {calls'[v].user}
  BY DEF Bounded
<1>4. /\ Cardinality(Listed(c, k)') <= Cardinality(Listed(c, k))
      /\ Cardinality(Listed(c, k)') \in Nat /\ Cardinality(Listed(c, k)) \in Nat
  <2>1. IsFiniteSet(Listed(c, k)) /\ Listed(c, k)' \subseteq Peer
    BY <1>2, DirectFinite
  <2> QED
    BY <1>2, <2>1, DirectFinite, FS_Subset
<1>5. /\ Cardinality(participants'[c] \cup Listed(c, k)')
           <= Cardinality(participants[c] \cup Listed(c, k))
      /\ Cardinality(participants'[c] \cup Listed(c, k)') \in Nat
      /\ Cardinality(participants[c] \cup Listed(c, k)) \in Nat
  <2>1. participants'[c] \cup Listed(c, k)' \subseteq participants[c] \cup Listed(c, k)
    BY <1>2
  <2>2. participants[c] \cup Listed(c, k) \subseteq Peer
    BY <1>2 DEF D!TypeOK
  <2>3. /\ IsFiniteSet(participants[c] \cup Listed(c, k))
        /\ participants'[c] \cup Listed(c, k)' \subseteq Peer
    BY <2>1, <2>2, DirectFinite
  <2> QED
    BY <2>1, <2>2, <2>3, DirectFinite, FS_Subset
<1>6. /\ Cardinality(Inserting(c)' \ {k}) <= Cardinality(Inserting(c) \ {k})
      /\ Cardinality(Inserting(c)' \ {k}) \in Nat /\ Cardinality(Inserting(c) \ {k}) \in Nat
  <2>1. Inserting(c)' \ {k} \subseteq Inserting(c) \ {k}
    OBVIOUS
  <2>2. IsFiniteSet(Inserting(c) \ {k}) /\ Inserting(c)' \ {k} \subseteq Call
        /\ Inserting(c) \ {k} \subseteq Call
    BY <1>1, DirectFinite
  <2> QED
    BY <2>1, <2>2, DirectFinite, FS_Subset
<1>7. Cardinality(participants'[c] \cup Listed(c, k)') + Cardinality(Inserting(c)' \ {k})
        <= 2 * MaxGroup + Cardinality(Call) - 3
  <2>1. Cardinality(Call) \in Nat
    BY DirectFinite
  <2>2. Cardinality(participants[c] \cup Listed(c, k)) + Cardinality(Inserting(c) \ {k})
          <= 2 * MaxGroup + Cardinality(Call) - 3
    BY DEF Bounded
  <2> QED
    BY <1>5, <1>6, <2>1, <2>2, MembershipsAssumption
<1>8. \/ Cardinality(Listed(c, k)') <= MaxGroup - 1
      \/ /\ Cardinality(Listed(c, k)') <= MaxGroup
         /\ participants'[c] = {} /\ Inserting(c)' \subseteq {k}
  BY <1>4, MembershipsAssumption DEF Bounded
<1> QED
  BY <1>3, <1>7, <1>8 DEF Bounded

LEMMA FitsShrinks ==
  ASSUME D!TypeOK, NEW c \in Direct, Fits(c), c \in overlapped => c \in overlapped',
         Inserting(c)' \subseteq Inserting(c), participants'[c] \subseteq participants[c],
         \A v \in Inserting(c)' : calls'[v] = calls[v]
  PROVE  Fits(c)'
<1> SUFFICES ASSUME c \notin overlapped'
             PROVE  /\ Cardinality(participants'[c]) <= MaxGroup
                    /\ \A w \in Inserting(c)' :
                         Cardinality(participants'[c] \cup calls'[w].list) <= MaxGroup
  BY DEF Fits
<1>1. /\ Cardinality(participants[c]) <= MaxGroup
      /\ \A w \in Inserting(c) : Cardinality(participants[c] \cup calls[w].list) <= MaxGroup
  BY DEF Fits
<1>2. IsFiniteSet(participants[c]) /\ Cardinality(participants[c]) \in Nat
  BY DirectFinite
<1>3. Cardinality(participants'[c]) <= Cardinality(participants[c])
      /\ Cardinality(participants'[c]) \in Nat
  BY <1>2, FS_Subset, FS_CardinalityType
<1>4. ASSUME NEW w \in Inserting(c)'
      PROVE  Cardinality(participants'[c] \cup calls'[w].list) <= MaxGroup
  <2>1. w \in Inserting(c) /\ calls'[w] = calls[w] /\ calls[w].list \subseteq Peer
    BY DEF Inserting, D!On, D!TypeOK, D!CallRecord
  <2>2. participants[c] \cup calls[w].list \subseteq Peer
    BY <2>1 DEF D!TypeOK
  <2>3. participants'[c] \cup calls[w].list \subseteq participants[c] \cup calls[w].list
    OBVIOUS
  <2>4. IsFiniteSet(participants[c] \cup calls[w].list)
        /\ Cardinality(participants[c] \cup calls[w].list) \in Nat
    BY <2>2, DirectFinite
  <2>5. Cardinality(participants'[c] \cup calls[w].list)
          <= Cardinality(participants[c] \cup calls[w].list)
        /\ Cardinality(participants'[c] \cup calls[w].list) \in Nat
    BY <2>3, <2>4, FS_Subset, FS_CardinalityType
  <2> QED
    BY <1>1, <2>1, <2>4, <2>5, MembershipsAssumption
<1> QED
  BY <1>1, <1>2, <1>3, <1>4, MembershipsAssumption

LEMMA CreateDmKeeps ==
  ASSUME DirectInv, NEW w \in Call, NEW c \in Direct, NEW u \in Peer, D!CreateDmChannel(w, c, u)
  PROVE  DirectInv'
<1>1. PICK list \in SUBSET Peer :
        Cardinality(list) < MaxGroup /\ D!Start(w, c, <<"enter">>, u, list)
  BY DirectCounts DEF D!CreateDmChannel
<1>2. /\ kind[c] = "none" /\ D!On(c) = {} /\ kind' = kind /\ owner' = owner
      /\ participants' = participants /\ D!TypeOK /\ ChannelInv(c)
  BY DEF D!CreateDmChannel, DirectInv
<1>3. <<"enter">> \in Steps /\ Head(<<"enter">>) = "enter"
  BY DEF Steps
<1>4. /\ calls[w] = NoCall /\ Turned(w, c) /\ calls'[w] # NoCall
      /\ calls'[w].todo = <<"enter">> /\ calls'[w].on = c /\ calls'[w].user = u
      /\ calls'[w].list = list /\ D!TypeOK'
      /\ c \in overlapped' <=> c \in overlapped
      /\ \A d \in Direct \ {c} : d \in overlapped' <=> d \in overlapped
  BY <1>1, <1>2, <1>3, StartTurns
<1>5. D!On(c)' = {w} /\ Inserting(c) = {} /\ Inserting(c)' = {} /\ (Does(w))' = "enter"
  BY <1>2, <1>3, <1>4, CallTurns DEF Inserting, Does
<1>6. CallOK(w)'
  BY <1>1, <1>2, <1>3, <1>4, <1>5 DEF CallOK
<1>7. \E k : Bounded(c, k)'
  <2>1. PICK k : Bounded(c, k)
    BY <1>2 DEF ChannelInv
  <2>2. Bounded(c, k)'
    BY <1>2, <1>4, <1>5, <2>1, BoundShrinks
  <2> QED
    BY <2>2
<1>8. Fits(c)'
  BY <1>2, <1>4, <1>5, FitsShrinks DEF ChannelInv
<1>9. Waited(c)' /\ Owned(c)'
  BY <1>2, <1>5 DEF Waited, Owned
<1> QED
  BY <1>2, <1>4, <1>6, <1>7, <1>8, <1>9, TurnKeeps DEF ChannelInv

LEMMA RecordTurns ==
  ASSUME D!TypeOK, NEW w \in Call, calls[w] # NoCall, NEW s \in D!CallRecord \cup {NoCall},
         calls' = [calls EXCEPT ![w] = s], s # NoCall => s.on = calls[w].on /\ s.todo # <<>>
  PROVE  /\ Turned(w, calls[w].on) /\ calls'[w] = s /\ calls[w] \in D!CallRecord
         /\ calls' \in [Call -> D!CallRecord \cup {NoCall}]
         /\ \A v \in Call : calls'[v] # NoCall => calls'[v].todo # <<>>
<1>1. calls'[w] = s /\ \A v \in Call \ {w} : calls'[v] = calls[v]
  BY DEF D!TypeOK
<1> QED
  BY <1>1 DEF D!TypeOK, Turned

\* A call that goes on to todo, or ends.
LEMMA GotoTurns ==
  ASSUME D!TypeOK, NEW w \in Call, calls[w] # NoCall, NEW todo \in Steps \cup {<<>>},
         D!Goto(w, todo)
  PROVE  /\ Turned(w, calls[w].on) /\ calls[w] \in D!CallRecord
         /\ todo = <<>> => calls'[w] = NoCall
         /\ todo # <<>> =>
              /\ calls'[w] # NoCall /\ calls'[w].todo = todo /\ calls'[w].on = calls[w].on
              /\ calls'[w].user = calls[w].user /\ calls'[w].heir = calls[w].heir
              /\ calls'[w].list = calls[w].list
         /\ calls' \in [Call -> D!CallRecord \cup {NoCall}]
         /\ \A v \in Call : calls'[v] # NoCall => calls'[v].todo # <<>>
<1>1. calls[w] \in D!CallRecord
  BY DEF D!TypeOK
<1>2. CASE todo = <<>>
  <2>1. calls' = [calls EXCEPT ![w] = NoCall]
    BY <1>2 DEF D!Goto
  <2> QED
    BY <1>1, <1>2, <2>1, RecordTurns
<1>3. CASE todo # <<>>
  <2>0. PICK s : s = D!With(calls[w], todo, calls[w].heir, calls[w].list)
    OBVIOUS
  <2>1. calls' = [calls EXCEPT ![w] = s]
    BY <1>3, <2>0 DEF D!Goto, D!TypeOK
  <2>2. todo \in Seq(D!Job)
    BY <1>3, StepHeads
  <2>3. /\ s.todo = todo /\ s.on = calls[w].on /\ s.user = calls[w].user
        /\ s.heir = calls[w].heir /\ s.list = calls[w].list /\ s \in D!CallRecord
    BY <1>1, <2>0, <2>2 DEF D!With, D!CallRecord
  <2>4. s # NoCall
    BY <2>3, MembershipsAssumption
  <2>5. Turned(w, calls[w].on) /\ calls'[w] = s
        /\ calls' \in [Call -> D!CallRecord \cup {NoCall}]
        /\ \A v \in Call : calls'[v] # NoCall => calls'[v].todo # <<>>
    BY <1>3, <2>1, <2>3, RecordTurns
  <2> QED
    BY <1>1, <1>3, <2>3, <2>4, <2>5
<1> QED
  BY <1>2, <1>3

\* A call that neither creates a channel nor inserts a participant any more.
LEMMA ShrinkKeeps ==
  ASSUME DirectInv, NEW w \in Call, calls[w] # NoCall, NEW c \in Direct, c = calls[w].on,
         Turned(w, c), D!TypeOK', overlapped' = overlapped,
         calls'[w] # NoCall =>
           /\ Head(calls'[w].todo) \notin {"enter", "insert"}
           /\ calls'[w].todo \in Steps /\ calls'[w].user = calls[w].user,
         participants'[c] \subseteq participants[c], Waited(c)', Owned(c)',
         \A d \in Direct \ {c} :
           kind'[d] = kind[d] /\ owner'[d] = owner[d] /\ participants'[d] = participants[d]
  PROVE  DirectInv'
<1>1. D!TypeOK /\ ChannelInv(c) /\ CallOK(w)
  BY DEF DirectInv, CallsOK
<1>2. Inserting(c)' = Inserting(c) \ {w}
  BY CallTurns
<1>3. \A v \in Inserting(c)' : calls'[v] = calls[v]
  BY <1>2 DEF Turned, Inserting, D!On
<1>4. \E k : Bounded(c, k)'
  <2>1. PICK k : Bounded(c, k)
    BY <1>1 DEF ChannelInv
  <2>2. Bounded(c, k)'
    BY <1>1, <1>2, <1>3, <2>1, BoundShrinks
  <2> QED
    BY <2>2
<1>5. Fits(c)'
  BY <1>1, <1>2, <1>3, FitsShrinks DEF ChannelInv
<1>6. calls'[w] # NoCall => CallOK(w)'
  BY <1>1 DEF CallOK, Does
<1> QED
  BY <1>4, <1>5, <1>6, TurnKeeps DEF ChannelInv

\* What is known of the call that turns and of its channel.
LEMMA CallFacts ==
  ASSUME DirectInv, NEW w \in Call, calls[w] # NoCall, NEW c \in Direct, c = calls[w].on
  PROVE  /\ D!TypeOK /\ w \in D!On(c) /\ CallOK(w) /\ ChannelInv(c)
         /\ calls[w].todo \in Steps /\ calls[w].user \in Peer /\ calls[w].list \subseteq Peer
         /\ calls[w].heir \in Peer \cup {Nobody}
         /\ D!On(c) \subseteq Call
         /\ c \notin overlapped => D!On(c) = {w}
         /\ c \notin overlapped /\ kind[c] = "group_dm" => OwnerOK(c, w)
<1>1. D!TypeOK /\ calls[w] \in D!CallRecord /\ CallOK(w)
  BY DEF DirectInv, D!TypeOK, CallsOK
<1>2. calls[w].list \subseteq Peer /\ calls[w].heir \in Peer \cup {Nobody}
  BY <1>1 DEF D!CallRecord
<1>3. w \in D!On(c) /\ ChannelInv(c) /\ D!On(c) \subseteq Call
  BY DEF DirectInv, D!On
<1> QED
  BY <1>1, <1>2, <1>3 DEF CallOK, ChannelInv, Owned

LEMMA RemoveKeepsDirect ==
  ASSUME DirectInv, NEW w \in Call, NEW c \in Direct, c = calls[w].on,
         D!RemoveParticipant(w)
  PROVE  DirectInv'
<1>1. /\ calls[w] # NoCall /\ Does(w) = "remove" /\ kind' = kind /\ owner' = owner
      /\ overlapped' = overlapped /\ D!Goto(w, Tail(calls[w].todo))
      /\ participants' = [participants EXCEPT ![c] = @ \ {calls[w].user}]
  BY DEF D!RemoveParticipant, D!Runs, Does, D!Advance
<1>2. /\ D!TypeOK /\ w \in D!On(c) /\ CallOK(w) /\ ChannelInv(c)
      /\ calls[w].todo \in Steps /\ calls[w].user \in Peer
      /\ c \notin overlapped => D!On(c) = {w}
      /\ c \notin overlapped /\ kind[c] = "group_dm" => OwnerOK(c, w)
  BY <1>1, CallFacts
<1>3. calls[w].todo \in {<<"remove", "count">>, <<"remove", "countGroup">>}
  BY <1>1, <1>2, StepHeads DEF Steps, Does
<1>4. PICK todo \in {<<"count">>, <<"countGroup">>} : todo = Tail(calls[w].todo)
  BY <1>3, StepHeads
<1>5. todo \in Steps /\ todo # <<>> /\ Head(todo) \in {"count", "countGroup"}
  BY <1>4, StepHeads DEF Steps
<1>6. /\ Turned(w, c) /\ calls'[w] # NoCall /\ calls'[w].todo = todo
      /\ calls'[w].user = calls[w].user /\ calls'[w].heir = calls[w].heir
      /\ calls' \in [Call -> D!CallRecord \cup {NoCall}]
      /\ \A v \in Call : calls'[v] # NoCall => calls'[v].todo # <<>>
  BY <1>1, <1>2, <1>4, <1>5, GotoTurns
<1>7. participants'[c] = participants[c] \ {calls[w].user}
      /\ \A d \in Direct \ {c} : participants'[d] = participants[d]
  BY <1>1, <1>2 DEF D!TypeOK
<1>8. D!TypeOK'
  BY <1>1, <1>2, <1>6, <1>7 DEF D!TypeOK
<1>9. D!On(c)' = D!On(c) /\ (Does(w))' = Head(todo)
  <2>1. D!On(c)' = (D!On(c) \ {w}) \cup {w}
    BY <1>6, CallTurns
  <2>2. (Does(w))' = Head(todo)
    BY <1>6 DEF Does
  <2> QED
    BY <1>2, <2>1, <2>2
<1>10. Waited(c)'
  BY <1>2, <1>5, <1>9 DEF Waited
<1>11. Owned(c)'
  <2> SUFFICES ASSUME c \notin overlapped
               PROVE  /\ \A u, v \in D!On(c)' : u = v
                      /\ kind'[c] = "group_dm" =>
                           /\ D!On(c)' = {} => owner'[c] \in participants'[c]
                           /\ \A v \in D!On(c)' : OwnerOK(c, v)'
    BY <1>1 DEF Owned
  <2>1. D!On(c)' = {w}
    BY <1>2, <1>9
  <2>2. kind[c] = "group_dm" => owner[c] \in participants'[c] \/ calls[w].heir # Nobody
    BY <1>1, <1>2, <1>7 DEF OwnerOK
  <2>3. kind[c] = "group_dm" => OwnerOK(c, w)'
    BY <1>1, <1>5, <1>6, <1>9, <2>2 DEF OwnerOK
  <2> QED
    BY <1>1, <2>1, <2>3
<1>12. Head(todo) \notin {"enter", "insert"}
  BY <1>5
<1> QED
  BY <1>1, <1>2, <1>5, <1>6, <1>7, <1>8, <1>10, <1>11, <1>12, ShrinkKeeps

LEMMA CountKeepsDirect ==
  ASSUME DirectInv, NEW w \in Call, NEW c \in Direct, c = calls[w].on,
         D!CountParticipants(w)
  PROVE  DirectInv'
<1> DEFINE n == Cardinality(participants[c])
<1>1. /\ calls[w] # NoCall /\ Does(w) \in {"count", "countGroup"}
      /\ kind' = kind /\ owner' = owner
      /\ overlapped' = overlapped /\ participants' = participants
  BY DEF D!CountParticipants, D!Runs, Does
<1>2. PICK todo : D!Goto(w, todo) /\ todo = IF n \in D!TooFew(w) THEN <<"delete">> ELSE D!Transfer(w)
  BY DirectCounts DEF D!CountParticipants
<1>3. /\ D!TypeOK /\ w \in D!On(c) /\ CallOK(w) /\ ChannelInv(c)
      /\ calls[w].todo \in Steps /\ calls[w].user \in Peer
      /\ c \notin overlapped => D!On(c) = {w}
      /\ c \notin overlapped /\ kind[c] = "group_dm" => OwnerOK(c, w)
  BY <1>1, CallFacts
<1>4. n = 0 => todo = <<"delete">>
  BY <1>2 DEF D!TooFew
<1>5. todo \in {<<"delete">>, <<"first", "pass">>, <<>>}
      /\ (todo = <<>> => calls[w].heir = Nobody)
  BY <1>2 DEF D!Transfer
<1>6. participants[c] = {} => n = 0
  BY FS_EmptySet
<1>7. todo \in Steps \cup {<<>>}
      /\ (todo # <<>> => Head(todo) \in {"delete", "first"})
  BY <1>5, StepHeads DEF Steps
<1>8. /\ Turned(w, c)
      /\ todo = <<>> => calls'[w] = NoCall
      /\ todo # <<>> =>
           calls'[w] # NoCall /\ calls'[w].todo = todo /\ calls'[w].user = calls[w].user
      /\ calls' \in [Call -> D!CallRecord \cup {NoCall}]
      /\ \A v \in Call : calls'[v] # NoCall => calls'[v].todo # <<>>
  BY <1>1, <1>2, <1>3, <1>7, GotoTurns
<1>9. D!TypeOK'
  BY <1>1, <1>3, <1>8 DEF D!TypeOK
<1>10. D!On(c)' = (D!On(c) \ {w}) \cup (IF calls'[w] = NoCall THEN {} ELSE {w})
  BY <1>3, <1>8, CallTurns
<1>11. Waited(c)'
  <2> SUFFICES ASSUME participants[c] = {}
               PROVE  \E v \in D!On(c)' : (Does(v))' = "delete"
    BY <1>1 DEF Waited
  <2>1. todo = <<"delete">>
    BY <1>4, <1>6
  <2>2. calls'[w] # NoCall /\ calls'[w].todo = <<"delete">>
    BY <1>8, <2>1
  <2> QED
    BY <1>10, <2>2, StepHeads DEF Does
<1>12. Owned(c)'
  <2> SUFFICES ASSUME c \notin overlapped
               PROVE  /\ \A u, v \in D!On(c)' : u = v
                      /\ kind[c] = "group_dm" =>
                           /\ D!On(c)' = {} => owner[c] \in participants[c]
                           /\ \A v \in D!On(c)' : OwnerOK(c, v)'
    BY <1>1 DEF Owned
  <2>1. D!On(c)' = IF calls'[w] = NoCall THEN {} ELSE {w}
    BY <1>3, <1>10
  <2>2. kind[c] = "group_dm" => owner[c] \in participants[c] \/ calls[w].heir # Nobody
    BY <1>1, <1>3 DEF OwnerOK
  <2>3. calls'[w] = NoCall => todo = <<>>
    BY <1>8
  <2>4. ASSUME calls'[w] # NoCall
        PROVE  OwnerOK(c, w)'
    <3>1. todo # <<>> /\ (Does(w))' = Head(todo)
      BY <1>8, <2>4 DEF Does
    <3>2. Head(todo) = "first" => participants[c] # {}
      BY <1>4, <1>6, StepHeads
    <3> QED
      BY <1>1, <1>7, <3>1, <3>2 DEF OwnerOK
  <2> QED
    BY <1>5, <2>1, <2>2, <2>3, <2>4
<1>13. calls'[w] # NoCall =>
           /\ Head(calls'[w].todo) \notin {"enter", "insert"}
           /\ calls'[w].todo \in Steps /\ calls'[w].user = calls[w].user
  BY <1>7, <1>8
<1> QED
  BY <1>1, <1>3, <1>8, <1>9, <1>11, <1>12, <1>13, ShrinkKeeps

LEMMA FirstKeeps ==
  ASSUME DirectInv, NEW w \in Call, NEW c \in Direct, c = calls[w].on,
         D!FirstParticipant(w)
  PROVE  DirectInv'
<1>1. /\ calls[w] # NoCall /\ Does(w) = "first" /\ kind' = kind /\ owner' = owner
      /\ overlapped' = overlapped /\ participants' = participants
  BY DEF D!FirstParticipant, D!Runs, Does
<1>2. /\ D!TypeOK /\ w \in D!On(c) /\ CallOK(w) /\ ChannelInv(c)
      /\ calls[w].todo \in Steps /\ calls[w].user \in Peer
      /\ c \notin overlapped => D!On(c) = {w}
      /\ c \notin overlapped /\ kind[c] = "group_dm" => OwnerOK(c, w)
  BY <1>1, CallFacts
<1>3. calls[w].todo = <<"first", "pass">>
  BY <1>1, <1>2, StepHeads DEF Steps, Does
<1>4. /\ Turned(w, c)
      /\ calls'[w] # NoCall =>
           /\ calls'[w].todo = <<"pass">> /\ calls'[w].user = calls[w].user
           /\ calls'[w].heir \in participants[c]
      /\ calls'[w] = NoCall => participants[c] = {}
      /\ calls' \in [Call -> D!CallRecord \cup {NoCall}]
      /\ \A v \in Call : calls'[v] # NoCall => calls'[v].todo # <<>>
  <2>1. CASE participants[c] = {}
    <3>1. D!Goto(w, <<>>) /\ <<>> \in Steps \cup {<<>>}
      BY <2>1 DEF D!FirstParticipant, D!Finish
    <3> QED
      BY <1>1, <1>2, <2>1, <3>1, GotoTurns
  <2>2. CASE participants[c] # {}
    <3>1. PICK u \in participants[c] :
            calls' = [calls EXCEPT ![w] = D!With(@, Tail(@.todo), u, @.list)]
      BY <2>2 DEF D!FirstParticipant
    <3>2. PICK s : s = D!With(calls[w], <<"pass">>, u, calls[w].list)
      OBVIOUS
    <3>3. calls' = [calls EXCEPT ![w] = s]
      BY <1>2, <1>3, <3>1, <3>2, StepHeads DEF D!TypeOK
    <3>4. u \in Peer /\ calls[w] \in D!CallRecord /\ <<"pass">> \in Seq(D!Job) /\ <<"pass">> # <<>>
      BY <1>1, <1>2, StepHeads DEF D!TypeOK, Steps
    <3>5. /\ s \in D!CallRecord /\ s.todo = <<"pass">> /\ s.on = c
          /\ s.user = calls[w].user /\ s.heir = u
      BY <3>2, <3>4 DEF D!With, D!CallRecord
    <3>6. s # NoCall
      BY <3>5, MembershipsAssumption
    <3>7. /\ Turned(w, c) /\ calls'[w] = s
          /\ calls' \in [Call -> D!CallRecord \cup {NoCall}]
          /\ \A v \in Call : calls'[v] # NoCall => calls'[v].todo # <<>>
      BY <1>1, <1>2, <3>3, <3>4, <3>5, RecordTurns
    <3> QED
      BY <3>5, <3>6, <3>7
  <2> QED
    BY <2>1, <2>2
<1>5. D!TypeOK'
  BY <1>1, <1>2, <1>4 DEF D!TypeOK
<1>6. D!On(c)' = (D!On(c) \ {w}) \cup (IF calls'[w] = NoCall THEN {} ELSE {w})
  BY <1>2, <1>4, CallTurns
<1>7. /\ Head(<<"pass">>) = "pass" /\ <<"pass">> \in Steps
      /\ \A v \in D!On(c) \ {w} : (Does(v))' = Does(v)
      /\ calls'[w] # NoCall => (Does(w))' = "pass"
  BY <1>2, <1>4, StepHeads DEF Steps, Turned, Does, D!On
<1>8. Waited(c)'
  BY <1>1, <1>2, <1>6, <1>7 DEF ChannelInv, Waited
<1>9. Owned(c)'
  <2> SUFFICES ASSUME c \notin overlapped
               PROVE  /\ \A u, v \in D!On(c)' : u = v
                      /\ kind[c] = "group_dm" =>
                           /\ D!On(c)' = {} => owner[c] \in participants[c]
                           /\ \A v \in D!On(c)' : OwnerOK(c, v)'
    BY <1>1 DEF Owned
  <2>1. D!On(c)' = IF calls'[w] = NoCall THEN {} ELSE {w}
    BY <1>2, <1>6
  <2>2. kind[c] = "group_dm" => participants[c] # {}
    BY <1>1, <1>2 DEF OwnerOK
  <2>3. calls'[w] # NoCall => OwnerOK(c, w)'
    BY <1>1, <1>4, <1>7 DEF OwnerOK
  <2> QED
    BY <1>4, <2>1, <2>2, <2>3
<1>10. calls'[w] # NoCall =>
           /\ Head(calls'[w].todo) \notin {"enter", "insert"}
           /\ calls'[w].todo \in Steps /\ calls'[w].user = calls[w].user
  BY <1>4, <1>7
<1> QED
  BY <1>1, <1>2, <1>4, <1>5, <1>8, <1>9, <1>10, ShrinkKeeps

LEMMA PassKeeps ==
  ASSUME DirectInv, NEW w \in Call, NEW c \in Direct, c = calls[w].on, D!PassOwnership(w)
  PROVE  DirectInv'
<1>1. /\ calls[w] # NoCall /\ Does(w) = "pass" /\ kind' = kind /\ overlapped' = overlapped
      /\ owner' = (IF kind[c] = "none" THEN owner ELSE [owner EXCEPT ![c] = calls[w].heir])
      /\ participants' = participants /\ D!Goto(w, Tail(calls[w].todo))
  BY DEF D!PassOwnership, D!Runs, Does, D!Advance
<1>2. /\ D!TypeOK /\ w \in D!On(c) /\ CallOK(w) /\ ChannelInv(c)
      /\ calls[w].todo \in Steps /\ calls[w].heir \in Peer \cup {Nobody}
      /\ c \notin overlapped => D!On(c) = {w}
      /\ c \notin overlapped /\ kind[c] = "group_dm" => OwnerOK(c, w)
  BY <1>1, CallFacts
<1>3. D!Goto(w, <<>>) /\ <<>> \in Steps \cup {<<>>}
  BY <1>1, <1>2, StepHeads DEF Steps, Does
<1>4. /\ Turned(w, c) /\ calls'[w] = NoCall
      /\ calls' \in [Call -> D!CallRecord \cup {NoCall}]
      /\ \A v \in Call : calls'[v] # NoCall => calls'[v].todo # <<>>
  BY <1>1, <1>2, <1>3, GotoTurns
<1>5. D!TypeOK' /\ \A d \in Direct \ {c} : owner'[d] = owner[d]
  BY <1>1, <1>2, <1>4 DEF D!TypeOK
<1>6. D!On(c)' = D!On(c) \ {w}
  BY <1>4, CallTurns
<1>7. \A v \in D!On(c) \ {w} : (Does(v))' = Does(v)
  BY <1>4 DEF Turned, Does, D!On
<1>8. Waited(c)'
  BY <1>1, <1>2, <1>6, <1>7 DEF ChannelInv, Waited
<1>9. Owned(c)'
  <2>1. c \notin overlapped => D!On(c)' = {}
    BY <1>2, <1>6
  <2>2. c \notin overlapped /\ kind[c] = "group_dm" => owner'[c] \in participants[c]
    BY <1>1, <1>2 DEF OwnerOK, D!TypeOK
  <2> QED
    BY <1>1, <2>1, <2>2 DEF Owned
<1> QED
  BY <1>1, <1>4, <1>5, <1>8, <1>9, ShrinkKeeps

LEMMA DeleteKeepsDirect ==
  ASSUME DirectInv, NEW w \in Call, NEW c \in Direct, c = calls[w].on, D!DeleteChannel(w)
  PROVE  DirectInv'
<1>1. /\ calls[w] # NoCall /\ Does(w) = "delete" /\ overlapped' = overlapped
      /\ kind' = [kind EXCEPT ![c] = "none"] /\ owner' = [owner EXCEPT ![c] = Nobody]
      /\ participants' = [participants EXCEPT ![c] = {}] /\ D!Goto(w, Tail(calls[w].todo))
  BY DEF D!DeleteChannel, D!Runs, Does, D!Advance
<1>2. /\ D!TypeOK /\ w \in D!On(c) /\ CallOK(w) /\ ChannelInv(c)
      /\ calls[w].todo \in Steps
      /\ c \notin overlapped => D!On(c) = {w}
  BY <1>1, CallFacts
<1>3. D!Goto(w, <<>>) /\ <<>> \in Steps \cup {<<>>}
  BY <1>1, <1>2, StepHeads DEF Steps, Does
<1>4. /\ Turned(w, c) /\ calls'[w] = NoCall
      /\ calls' \in [Call -> D!CallRecord \cup {NoCall}]
      /\ \A v \in Call : calls'[v] # NoCall => calls'[v].todo # <<>>
  BY <1>1, <1>2, <1>3, GotoTurns
<1>5. /\ kind'[c] = "none" /\ participants'[c] = {}
      /\ \A d \in Direct \ {c} :
           kind'[d] = kind[d] /\ owner'[d] = owner[d] /\ participants'[d] = participants[d]
  BY <1>1, <1>2 DEF D!TypeOK
<1>6. D!TypeOK'
  BY <1>1, <1>2, <1>4, <1>5 DEF D!TypeOK
<1>7. D!On(c)' = D!On(c) \ {w}
  BY <1>4, CallTurns
<1>8. Waited(c)' /\ Owned(c)'
  BY <1>1, <1>2, <1>5, <1>7 DEF Waited, Owned
<1> QED
  BY <1>1, <1>4, <1>5, <1>6, <1>8, ShrinkKeeps

LEMMA InsertChannelKeeps ==
  ASSUME DirectInv, NEW w \in Call, NEW c \in Direct, c = calls[w].on, D!InsertChannel(w)
  PROVE  DirectInv'
<1>0. PICK list : list = calls[w].list \cup {calls[w].user}
  OBVIOUS
<1>1. /\ calls[w] # NoCall /\ Does(w) = "enter" /\ overlapped' = overlapped
      /\ kind[c] = "none" /\ participants' = participants
      /\ owner' = [owner EXCEPT ![c] = calls[w].user]
      /\ \E x \in {"dm", "group_dm"} : kind' = [kind EXCEPT ![c] = x]
      /\ calls' = [calls EXCEPT ![w] =
           D!With(@, <<"insert">>, @.heir, @.list \cup {calls[w].user})]
  BY DEF D!InsertChannel, D!Runs, Does
<1>2. /\ D!TypeOK /\ w \in D!On(c) /\ CallOK(w) /\ ChannelInv(c)
      /\ calls[w].user \in Peer /\ calls[w].list \subseteq Peer
      /\ calls[w].heir \in Peer \cup {Nobody}
  BY <1>1, CallFacts
<1>3. D!On(c) = {w} /\ Cardinality(calls[w].list) < MaxGroup /\ participants[c] = {}
  BY <1>1, <1>2 DEF CallOK, D!TypeOK
<1>4. PICK s : s = D!With(calls[w], <<"insert">>, calls[w].heir, list)
  OBVIOUS
<1>5. calls' = [calls EXCEPT ![w] = s] /\ list \subseteq Peer /\ calls[w].user \in list
  BY <1>0, <1>1, <1>2, <1>4 DEF D!TypeOK
<1>6. <<"insert">> \in Steps /\ <<"insert">> \in Seq(D!Job) /\ <<"insert">> # <<>>
      /\ Head(<<"insert">>) = "insert"
  BY StepHeads DEF Steps
<1>7. s \in D!CallRecord /\ s.todo = <<"insert">> /\ s.on = c /\ s.user = calls[w].user
      /\ s.list = list
  BY <1>2, <1>4, <1>5, <1>6 DEF D!With, D!CallRecord
<1>8. s # NoCall
  BY <1>7, MembershipsAssumption
<1>9. /\ Turned(w, c) /\ calls'[w] = s
      /\ calls' \in [Call -> D!CallRecord \cup {NoCall}]
      /\ \A v \in Call : calls'[v] # NoCall => calls'[v].todo # <<>>
  <2>1. s \in D!CallRecord \cup {NoCall} /\ (s # NoCall => s.on = calls[w].on /\ s.todo # <<>>)
    BY <1>6, <1>7
  <2>2. calls[w] # NoCall /\ calls' = [calls EXCEPT ![w] = s] /\ D!TypeOK
    BY <1>1, <1>2, <1>5
  <2> QED
    BY <2>1, <2>2, RecordTurns
<1>10. /\ kind'[c] # "none" /\ owner'[c] = calls[w].user
       /\ \A d \in Direct \ {c} :
            kind'[d] = kind[d] /\ owner'[d] = owner[d] /\ participants'[d] = participants[d]
       /\ kind' \in [Direct -> {"none", "dm", "group_dm"}]
       /\ owner' \in [Direct -> Peer \cup {Nobody}]
  BY <1>1, <1>2 DEF D!TypeOK
<1>11. D!TypeOK'
  <2>1. \A d \in Direct : kind'[d] = "none" => participants'[d] = {}
    BY <1>1, <1>2, <1>10 DEF D!TypeOK
  <2>2. participants' \in [Direct -> SUBSET Peer] /\ overlapped' \subseteq Direct
    BY <1>1, <1>2 DEF D!TypeOK
  <2> QED
    BY <1>9, <1>10, <2>1, <2>2 DEF D!TypeOK
<1>12. D!On(c)' = {w} /\ Inserting(c)' = {w} /\ (Does(w))' = "insert"
  <2>1. Inserting(c) \subseteq {w}
    BY <1>3 DEF Inserting
  <2>2. (Does(w))' = "insert"
    BY <1>6, <1>7, <1>9 DEF Does
  <2> QED
    BY <1>3, <1>6, <1>7, <1>8, <1>9, <2>1, <2>2, CallTurns
<1>13. Cardinality(list) \in Nat /\ Cardinality(list) <= MaxGroup
  <2>1. IsFiniteSet(calls[w].list) /\ Cardinality(calls[w].list) \in Nat
    BY <1>2, DirectFinite
  <2>2. Cardinality(list) \in {Cardinality(calls[w].list), Cardinality(calls[w].list) + 1}
    BY <1>0, <2>1, FS_AddElement
  <2> QED
    BY <1>3, <2>1, <2>2, MembershipsAssumption
<1>14. CallOK(w)'
  BY <1>2, <1>6, <1>7, <1>9, <1>12 DEF CallOK
<1>15. Waited(c)'
  BY <1>12 DEF Waited
<1>16. Owned(c)'
  <2>1. OwnerOK(c, w)'
    BY <1>5, <1>7, <1>9, <1>10, <1>12 DEF OwnerOK
  <2> QED
    BY <1>12, <2>1 DEF Owned
<1>17. participants'[c] = {} /\ {} \cup list = list /\ Cardinality({}) = 0
  BY <1>1, <1>3, FS_EmptySet
<1>18. Fits(c)'
  BY <1>7, <1>9, <1>12, <1>13, <1>17, MembershipsAssumption DEF Fits
<1>19. Bounded(c, w)'
  <2>1. Listed(c, w)' = list
    BY <1>7, <1>9, <1>12 DEF Listed
  <2>2. Cardinality(Call) \in Nat /\ Cardinality(Call) >= 1
    <3>1. IsFiniteSet(Call) /\ Cardinality(Call) \in Nat /\ Call # {}
      BY <1>2, DirectFinite, MembershipsAssumption
    <3> QED
      BY <3>1, FS_EmptySet
  <2>3. Inserting(c)' \ {w} = {} /\ Inserting(c)' \subseteq {w}
    BY <1>12
  <2>4. Cardinality(list) + 0 <= 2 * MaxGroup + Cardinality(Call) - 3
    BY <1>13, <2>2, MembershipsAssumption
  <2>5. participants'[c] \cup Listed(c, w)' = list /\ Cardinality(Inserting(c)' \ {w}) = 0
    BY <1>17, <2>1, <2>3
  <2>6. Cardinality(participants'[c] \cup Listed(c, w)') + Cardinality(Inserting(c)' \ {w})
          <= 2 * MaxGroup + Cardinality(Call) - 3
    BY <2>4, <2>5
  <2> QED
    BY <1>13, <1>17, <2>1, <2>3, <2>6 DEF Bounded
<1> QED
  BY <1>1, <1>9, <1>10, <1>11, <1>14, <1>15, <1>16, <1>18, <1>19, TurnKeeps DEF ChannelInv

\* One participant more: w's own, who may be the last it inserts.
LEMMA InsertedBound ==
  ASSUME D!TypeOK, D!TypeOK', NEW w \in Call, NEW c \in Direct, NEW k, Bounded(c, k),
         NEW u \in Peer, w \in Inserting(c), u \in calls[w].list, Turned(w, c),
         Inserting(c)' = IF calls[w].list = {u} THEN Inserting(c) \ {w} ELSE Inserting(c),
         participants'[c] = participants[c] \cup {u},
         calls[w].list # {u} => /\ calls'[w].list = calls[w].list \ {u}
                                /\ calls'[w].user = calls[w].user
  PROVE  Bounded(c, k)'
<1>1. /\ Inserting(c) \subseteq Call /\ calls[w].list \subseteq Peer
      /\ \A v \in Inserting(c) \ {w} : calls'[v] = calls[v]
  BY DEF Inserting, D!On, Turned, D!TypeOK, D!CallRecord
<1>2. Cardinality(Call) \in Nat
  BY DirectFinite
<1>3. CASE k = w
  <2>1. Listed(c, k) = calls[w].list /\ Listed(c, k)' = calls[w].list \ {u}
    BY <1>3 DEF Listed
  <2>2. Inserting(c)' \ {k} = Inserting(c) \ {k}
    BY <1>3
  <2>3. participants'[c] \cup Listed(c, k)' = participants[c] \cup Listed(c, k)
    BY <2>1
  <2>4. /\ Cardinality(Listed(c, k)') = Cardinality(Listed(c, k)) - 1
        /\ Cardinality(Listed(c, k)) \in Nat
    BY <1>1, <2>1, DirectFinite, FS_RemoveElement
  <2>5. Cardinality(Listed(c, k)) <= MaxGroup
    BY <2>4, MembershipsAssumption DEF Bounded
  <2>6. Cardinality(Listed(c, k)') <= MaxGroup - 1
    BY <2>4, <2>5, MembershipsAssumption
  <2>7. \A v \in Inserting(c)' \ {k} : calls'[v].list = {calls'[v].user}
    BY <1>1, <1>3, <2>2 DEF Bounded
  <2>8. Cardinality(participants'[c] \cup Listed(c, k)') + Cardinality(Inserting(c)' \ {k})
          <= 2 * MaxGroup + Cardinality(Call) - 3
    BY <2>2, <2>3 DEF Bounded
  <2> QED
    BY <2>6, <2>7, <2>8 DEF Bounded
<1>4. CASE k # w
  <2>1. calls[w].list = {u}
    BY <1>4 DEF Bounded
  <2>2. Inserting(c)' = Inserting(c) \ {w}
    BY <2>1
  <2>3. Listed(c, k)' = Listed(c, k)
    BY <1>1, <1>4, <2>2 DEF Listed
  <2>4. Listed(c, k) \subseteq Peer
    BY DEF Listed, Inserting, D!On, D!TypeOK, D!CallRecord
  <2>5. /\ IsFiniteSet(participants[c] \cup Listed(c, k))
        /\ Cardinality(participants[c] \cup Listed(c, k)) \in Nat
    <3>1. participants[c] \cup Listed(c, k) \subseteq Peer
      BY <2>4 DEF D!TypeOK
    <3> QED
      BY <3>1, DirectFinite
  <2>6. /\ Cardinality(participants'[c] \cup Listed(c, k)') \in Nat
        /\ Cardinality(participants'[c] \cup Listed(c, k)')
             <= Cardinality(participants[c] \cup Listed(c, k)) + 1
    <3>1. participants'[c] \cup Listed(c, k)' = (participants[c] \cup Listed(c, k)) \cup {u}
      BY <2>3
    <3>2. Cardinality((participants[c] \cup Listed(c, k)) \cup {u})
            \in {Cardinality(participants[c] \cup Listed(c, k)),
                 Cardinality(participants[c] \cup Listed(c, k)) + 1}
      BY <2>5, FS_AddElement
    <3>3. Cardinality(participants'[c] \cup Listed(c, k)')
            \in {Cardinality(participants[c] \cup Listed(c, k)),
                 Cardinality(participants[c] \cup Listed(c, k)) + 1}
      BY <3>1, <3>2
    <3> QED
      BY <2>5, <3>3
  <2>7. /\ Cardinality(Inserting(c)' \ {k}) = Cardinality(Inserting(c) \ {k}) - 1
        /\ Cardinality(Inserting(c) \ {k}) \in Nat
    <3>1. Inserting(c)' \ {k} = (Inserting(c) \ {k}) \ {w} /\ w \in Inserting(c) \ {k}
      BY <1>4, <2>2
    <3>2. Inserting(c) \ {k} \subseteq Call
      BY <1>1
    <3>3. IsFiniteSet(Inserting(c) \ {k}) /\ Cardinality(Inserting(c) \ {k}) \in Nat
      BY <3>2, DirectFinite
    <3>4. PICK rest : rest = Inserting(c) \ {k}
      OBVIOUS
    <3>5. Cardinality(rest \ {w}) = Cardinality(rest) - 1
      BY <3>1, <3>3, <3>4, FS_RemoveElement
    <3> QED
      BY <3>1, <3>3, <3>4, <3>5
  <2>8. Cardinality(participants'[c] \cup Listed(c, k)') + Cardinality(Inserting(c)' \ {k})
          <= 2 * MaxGroup + Cardinality(Call) - 3
    <3>1. Cardinality(participants[c] \cup Listed(c, k)) + Cardinality(Inserting(c) \ {k})
            <= 2 * MaxGroup + Cardinality(Call) - 3
      BY DEF Bounded
    <3> QED
      BY <1>2, <2>5, <2>6, <2>7, <3>1, MembershipsAssumption
  <2>9. Cardinality(Listed(c, k)') <= MaxGroup - 1
    BY <1>4, <2>3 DEF Bounded
  <2>10. \A v \in Inserting(c)' \ {k} : calls'[v].list = {calls'[v].user}
    BY <1>1, <2>2 DEF Bounded
  <2> QED
    BY <2>8, <2>9, <2>10 DEF Bounded
<1> QED
  BY <1>3, <1>4

LEMMA InsertParticipantKeeps ==
  ASSUME DirectInv, NEW w \in Call, NEW c \in Direct, c = calls[w].on, D!InsertParticipant(w)
  PROVE  DirectInv'
<1>1. /\ calls[w] # NoCall /\ Does(w) = "insert" /\ kind' = kind /\ owner' = owner
      /\ overlapped' = overlapped
  BY DEF D!InsertParticipant, D!Runs, Does
<1>2. /\ D!TypeOK /\ w \in D!On(c) /\ CallOK(w) /\ ChannelInv(c) /\ D!TypeOK
      /\ calls[w].todo \in Steps /\ calls[w].user \in Peer /\ calls[w].list \subseteq Peer
      /\ calls[w].heir \in Peer \cup {Nobody}
      /\ c \notin overlapped => D!On(c) = {w}
      /\ c \notin overlapped /\ kind[c] = "group_dm" => OwnerOK(c, w)
  BY <1>1, CallFacts
<1>3. calls[w].todo = <<"insert">>
  BY <1>1, <1>2, StepHeads DEF Steps, Does
<1>4. CASE kind[c] = "none"
  <2>1. D!Goto(w, <<>>) /\ <<>> \in Steps \cup {<<>>} /\ participants' = participants
    BY <1>4 DEF D!InsertParticipant, D!Finish
  <2>2. /\ Turned(w, c) /\ calls'[w] = NoCall
        /\ calls' \in [Call -> D!CallRecord \cup {NoCall}]
        /\ \A v \in Call : calls'[v] # NoCall => calls'[v].todo # <<>>
    BY <1>1, <1>2, <2>1, GotoTurns
  <2>3. D!TypeOK'
    BY <1>1, <1>2, <2>1, <2>2 DEF D!TypeOK
  <2>4. D!On(c)' = D!On(c) \ {w}
    BY <2>2, CallTurns
  <2>5. Waited(c)' /\ Owned(c)'
    BY <1>1, <1>2, <1>4, <2>4 DEF Waited, Owned
  <2> QED
    BY <1>1, <2>1, <2>2, <2>3, <2>5, ShrinkKeeps
<1>5. CASE kind[c] # "none"
  <2>1. PICK u \in calls[w].list :
          /\ participants' = [participants EXCEPT ![c] = @ \cup {u}]
          /\ calls' = [calls EXCEPT ![w] =
               IF calls[w].list = {u} THEN NoCall ELSE D!With(@, @.todo, @.heir, @.list \ {u})]
    BY <1>5 DEF D!InsertParticipant
  <2>2. u \in Peer
    BY <1>2
  <2>3. PICK rest : rest = D!With(calls[w], <<"insert">>, calls[w].heir, calls[w].list \ {u})
    OBVIOUS
  <2>4. PICK s : s = IF calls[w].list = {u} THEN NoCall ELSE rest
    OBVIOUS
  <2>5. calls' = [calls EXCEPT ![w] = s]
    BY <1>2, <1>3, <2>1, <2>3, <2>4 DEF D!TypeOK
  <2>6. <<"insert">> \in Seq(D!Job) /\ <<"insert">> # <<>> /\ Head(<<"insert">>) = "insert"
    BY StepHeads DEF Steps
  <2>7. /\ rest \in D!CallRecord /\ rest.todo = <<"insert">> /\ rest.on = c
        /\ rest.user = calls[w].user /\ rest.list = calls[w].list \ {u}
    BY <1>2, <2>3, <2>6 DEF D!With, D!CallRecord
  <2>8. rest # NoCall
    BY <2>7, MembershipsAssumption
  <2>9. s \in D!CallRecord \cup {NoCall} /\ (s # NoCall => s.on = calls[w].on /\ s.todo # <<>>)
    BY <2>4, <2>6, <2>7
  <2>10. /\ Turned(w, c) /\ calls'[w] = s
         /\ calls' \in [Call -> D!CallRecord \cup {NoCall}]
         /\ \A v \in Call : calls'[v] # NoCall => calls'[v].todo # <<>>
    BY <1>1, <1>2, <2>5, <2>9, RecordTurns
  <2>11. /\ participants'[c] = participants[c] \cup {u}
         /\ \A d \in Direct \ {c} : participants'[d] = participants[d]
         /\ participants' \in [Direct -> SUBSET Peer]
    BY <1>2, <2>1, <2>2 DEF D!TypeOK
  <2>12. D!TypeOK'
    <3>1. \A d \in Direct : kind'[d] = "none" => participants'[d] = {}
      BY <1>1, <1>2, <1>5, <2>11 DEF D!TypeOK
    <3> QED
      BY <1>1, <1>2, <2>10, <2>11, <3>1 DEF D!TypeOK
  <2>13. w \in Inserting(c)
    BY <1>1, <1>2 DEF Inserting
  <2>14. /\ calls[w].list = {u} => D!On(c)' = D!On(c) \ {w} /\ Inserting(c)' = Inserting(c) \ {w}
         /\ calls[w].list # {u} => D!On(c)' = D!On(c) /\ Inserting(c)' = Inserting(c)
    <3>1. CASE calls[w].list = {u}
      BY <2>4, <2>10, <3>1, CallTurns
    <3>2. CASE calls[w].list # {u}
      <4>1. calls'[w] # NoCall /\ Head(calls'[w].todo) = "insert"
        BY <2>4, <2>6, <2>7, <2>8, <2>10, <3>2
      <4>2. D!On(c)' = (D!On(c) \ {w}) \cup {w} /\ Inserting(c)' = (Inserting(c) \ {w}) \cup {w}
        BY <2>10, <4>1, CallTurns
      <4> QED
        BY <1>2, <2>13, <3>2, <4>2
    <3> QED
      BY <3>1, <3>2
  <2>15. calls[w].list # {u} =>
           /\ calls'[w] # NoCall /\ calls'[w].list = calls[w].list \ {u}
           /\ calls'[w].user = calls[w].user /\ calls'[w].todo = <<"insert">>
    BY <2>4, <2>7, <2>8, <2>10
  <2>16. \E k : Bounded(c, k)'
    <3>1. PICK k : Bounded(c, k)
      BY <1>2 DEF ChannelInv
    <3>2. Inserting(c)' = IF calls[w].list = {u} THEN Inserting(c) \ {w} ELSE Inserting(c)
      BY <2>14
    <3>3. Bounded(c, k)'
      BY <1>2, <2>2, <2>10, <2>11, <2>12, <2>13, <2>15, <3>1, <3>2, InsertedBound
    <3> QED
      BY <3>3
  <2>17. calls'[w] # NoCall => CallOK(w)'
    <3>1. calls'[w] # NoCall => calls[w].list # {u}
      BY <2>4, <2>10
    <3>2. calls'[w] # NoCall => (Does(w))' = "insert"
      BY <2>6, <2>15, <3>1 DEF Does
    <3> QED
      BY <1>2, <1>3, <2>15, <3>1, <3>2 DEF CallOK
  <2>18. Waited(c)'
    BY <2>11 DEF Waited
  <2>19. Owned(c)'
    <3> SUFFICES ASSUME c \notin overlapped
                 PROVE  /\ \A p, v \in D!On(c)' : p = v
                        /\ kind[c] = "group_dm" =>
                             /\ D!On(c)' = {} => owner[c] \in participants'[c]
                             /\ \A v \in D!On(c)' : OwnerOK(c, v)'
      BY <1>1 DEF Owned
    <3>1. D!On(c)' = IF calls[w].list = {u} THEN {} ELSE {w}
      BY <1>2, <2>14
    <3>2. kind[c] = "group_dm" => owner[c] \in participants[c] \cup calls[w].list
      BY <1>1, <1>2 DEF OwnerOK
    <3>3. kind[c] = "group_dm" /\ calls[w].list # {u} =>
            owner[c] \in participants'[c] \cup calls'[w].list
      BY <2>11, <2>15, <3>2
    <3>4. calls[w].list # {u} => (Does(w))' = "insert"
      BY <2>6, <2>15 DEF Does
    <3>5. kind[c] = "group_dm" /\ calls[w].list # {u} => OwnerOK(c, w)'
      BY <1>1, <3>3, <3>4 DEF OwnerOK
    <3> QED
      BY <2>11, <3>1, <3>2, <3>5
  <2>20. Fits(c)'
    <3> SUFFICES ASSUME c \notin overlapped
                 PROVE  /\ Cardinality(participants'[c]) <= MaxGroup
                        /\ \A v \in Inserting(c)' :
                             Cardinality(participants'[c] \cup calls'[v].list) <= MaxGroup
      BY <1>1 DEF Fits
    <3>1. Cardinality(participants[c] \cup calls[w].list) <= MaxGroup
      BY <1>2, <2>13 DEF ChannelInv, Fits
    <3>2. /\ participants'[c] \subseteq participants[c] \cup calls[w].list
          /\ participants[c] \cup calls[w].list \subseteq Peer
      BY <1>2, <2>11 DEF D!TypeOK
    <3>3. /\ IsFiniteSet(participants[c] \cup calls[w].list)
          /\ Cardinality(participants[c] \cup calls[w].list) \in Nat
      BY <1>2, <3>2, DirectFinite
    <3>4. Cardinality(participants'[c]) <= Cardinality(participants[c] \cup calls[w].list)
          /\ Cardinality(participants'[c]) \in Nat
      BY <3>2, <3>3, FS_Subset, FS_CardinalityType
    <3>5. \A v \in Inserting(c)' : v = w /\ calls[w].list # {u}
      BY <1>2, <2>14 DEF Inserting
    <3>6. calls[w].list # {u} =>
            participants'[c] \cup calls'[w].list = participants[c] \cup calls[w].list
      BY <2>11, <2>15
    <3>7. Cardinality(participants'[c]) <= MaxGroup
      BY <3>1, <3>3, <3>4, MembershipsAssumption
    <3>8. ASSUME NEW v \in Inserting(c)'
          PROVE  Cardinality(participants'[c] \cup calls'[v].list) <= MaxGroup
      <4>1. v = w /\ calls[w].list # {u}
        BY <3>5, <3>8
      <4>2. participants'[c] \cup calls'[v].list = participants[c] \cup calls[w].list
        BY <3>6, <4>1
      <4> QED
        BY <3>1, <4>2
    <3> QED
      BY <3>7, <3>8
  <2> QED
    BY <1>1, <2>10, <2>11, <2>12, <2>16, <2>17, <2>18, <2>19, <2>20, TurnKeeps DEF ChannelInv
<1> QED
  BY <1>4, <1>5

LEMMA DirectStep == DirectInv /\ [D!DNext]_(D!dvars) => DirectInv'
<1> SUFFICES ASSUME DirectInv, [D!DNext]_(D!dvars)
             PROVE  DirectInv'
  OBVIOUS
<1>1. ASSUME NEW w \in Call, NEW c \in Direct, NEW u \in Peer, D!AddRecipient(w, c, u)
      PROVE  DirectInv'
  <2>1. /\ D!Start(w, c, <<"insert">>, u, {u}) /\ kind[c] # "none"
        /\ kind' = kind /\ owner' = owner /\ participants' = participants
        /\ owner[c] \in participants[c] /\ Cardinality(participants[c]) < MaxGroup
    BY <1>1, DirectCounts DEF D!AddRecipient, D!HasRoom
  <2>2. <<"insert">> \in Steps /\ Head(<<"insert">>) = "insert" /\ {u} \subseteq Peer
    BY StepHeads DEF Steps
  <2> QED
    BY <2>1, <2>2, StartKeeps
<1>2. ASSUME NEW w \in Call, NEW c \in Direct, NEW u \in Peer, D!RemoveRecipient(w, c, u)
      PROVE  DirectInv'
  <2>1. /\ D!Start(w, c, <<"remove", "countGroup">>, u, {}) /\ kind[c] # "none"
        /\ kind' = kind /\ owner' = owner /\ participants' = participants
    BY <1>2 DEF D!RemoveRecipient
  <2>2. <<"remove", "countGroup">> \in Steps /\ Head(<<"remove", "countGroup">>) = "remove"
        /\ {} \subseteq Peer
    BY StepHeads DEF Steps
  <2> QED
    BY <2>1, <2>2, StartKeeps
<1>3. ASSUME NEW w \in Call, NEW c \in Direct, NEW u \in Peer, D!LeaveChannel(w, c, u)
      PROVE  DirectInv'
  <2>1. /\ D!Start(w, c, <<"remove", "count">>, u, {}) /\ kind[c] # "none"
        /\ kind' = kind /\ owner' = owner /\ participants' = participants
    BY <1>3 DEF D!LeaveChannel
  <2>2. <<"remove", "count">> \in Steps /\ Head(<<"remove", "count">>) = "remove"
        /\ {} \subseteq Peer
    BY StepHeads DEF Steps
  <2> QED
    BY <2>1, <2>2, StartKeeps
<1>4. ASSUME NEW w \in Call, calls[w] # NoCall,
             \/ D!InsertChannel(w) \/ D!InsertParticipant(w) \/ D!RemoveParticipant(w)
             \/ D!CountParticipants(w) \/ D!FirstParticipant(w) \/ D!PassOwnership(w)
             \/ D!DeleteChannel(w)
      PROVE  DirectInv'
  <2>1. PICK c \in Direct : c = calls[w].on
    BY <1>4 DEF DirectInv, D!TypeOK, D!CallRecord
  <2> QED
    BY <1>4, <2>1, InsertChannelKeeps, InsertParticipantKeeps, RemoveKeepsDirect,
       CountKeepsDirect, FirstKeeps, PassKeeps, DeleteKeepsDirect
<1>5. ASSUME NEW w \in Call,
             \/ D!InsertChannel(w) \/ D!InsertParticipant(w) \/ D!RemoveParticipant(w)
             \/ D!CountParticipants(w) \/ D!FirstParticipant(w) \/ D!PassOwnership(w)
             \/ D!DeleteChannel(w)
      PROVE  calls[w] # NoCall
  BY <1>5 DEF D!InsertChannel, D!InsertParticipant, D!RemoveParticipant, D!CountParticipants,
     D!FirstParticipant, D!PassOwnership, D!DeleteChannel, D!Runs
<1>6. ASSUME UNCHANGED D!dvars
      PROVE  DirectInv'
  <2>1. /\ kind' = kind /\ owner' = owner /\ participants' = participants
        /\ calls' = calls /\ overlapped' = overlapped
    BY <1>6 DEF D!dvars
  <2>2. D!TypeOK'
    BY <2>1 DEF DirectInv, D!TypeOK
  <2>3. \A w : (Does(w))' = Does(w)
    BY <2>1 DEF Does
  <2>4. \A c : D!On(c)' = D!On(c)
    BY <2>1 DEF D!On
  <2>5. \A c : Inserting(c)' = Inserting(c)
    BY <2>3, <2>4 DEF Inserting
  <2>6. CallsOK'
    BY <2>1, <2>3, <2>4 DEF DirectInv, CallsOK, CallOK
  <2>7. ASSUME NEW c \in Direct
        PROVE  ChannelInv(c)'
    BY <2>1, <2>4, <2>5, OtherChannels DEF DirectInv
  <2> QED
    BY <2>2, <2>6, <2>7 DEF DirectInv
<1> QED
  BY <1>1, <1>2, <1>3, <1>4, <1>5, <1>6, CreateDmKeeps DEF D!DNext

LEMMA GroupsFollow == DirectInv => GroupsHold
<1> SUFFICES ASSUME DirectInv
             PROVE  GroupsHold
  OBVIOUS
<1>1. D!TypeOK /\ \A c \in Direct : ChannelInv(c)
  BY DEF DirectInv
<1>2. D!NoneEmpty
  BY <1>1 DEF D!NoneEmpty, ChannelInv, Waited
<1>3. D!OwnerTakesPart
  BY <1>1 DEF D!OwnerTakesPart, ChannelInv, Owned
<1>4. ASSUME NEW c \in Direct
      PROVE  Cardinality(participants[c]) <=
               IF c \in overlapped THEN 2 * MaxGroup + Cardinality(Call) - 3 ELSE MaxGroup
  <2>1. PICK k : Bounded(c, k)
    BY <1>1 DEF ChannelInv
  <2>2. Listed(c, k) \subseteq Peer /\ Inserting(c) \ {k} \subseteq Call
    BY <1>1 DEF Listed, Inserting, D!On, D!TypeOK, D!CallRecord
  <2>3. participants[c] \cup Listed(c, k) \subseteq Peer
    BY <1>1, <2>2 DEF D!TypeOK
  <2>4. /\ IsFiniteSet(participants[c] \cup Listed(c, k))
        /\ Cardinality(participants[c] \cup Listed(c, k)) \in Nat
        /\ Cardinality(Inserting(c) \ {k}) \in Nat
        /\ Cardinality(participants[c]) \in Nat /\ Cardinality(Call) \in Nat
    BY <1>1, <2>2, <2>3, DirectFinite
  <2>5. Cardinality(participants[c]) <= Cardinality(participants[c] \cup Listed(c, k))
    BY <2>4, FS_Subset
  <2>6. Cardinality(participants[c] \cup Listed(c, k)) + Cardinality(Inserting(c) \ {k})
          <= 2 * MaxGroup + Cardinality(Call) - 3
    BY <2>1 DEF Bounded
  <2>7. Cardinality(participants[c]) <= 2 * MaxGroup + Cardinality(Call) - 3
    BY <2>4, <2>5, <2>6, MembershipsAssumption
  <2>8. c \notin overlapped => Cardinality(participants[c]) <= MaxGroup
    BY <1>1 DEF ChannelInv, Fits
  <2> QED
    BY <2>7, <2>8
<1>5. D!GroupLimit
  <2>1. \A S : D!Cardinality(S) = Cardinality(S)
    BY DirectCounts
  <2> QED
    BY <1>4, <2>1 DEF D!GroupLimit
<1> QED
  BY <1>1, <1>2, <1>3, <1>5 DEF GroupsHold

\* Groups, however the statements of their requests interleave (channels.rs): none
\* is left empty, none grows beyond its limit by more than requests that overlap
\* can add to it, and none loses its owner while requests on it do not overlap.
THEOREM GroupsAreKept == D!DSpec => []GroupsHold
<1>1. D!Init => DirectInv
  BY DirectInit
<1>2. DirectInv /\ [D!DNext]_(D!dvars) => DirectInv'
  BY DirectStep
<1>3. DirectInv => GroupsHold
  BY GroupsFollow
<1> QED
  BY <1>1, <1>2, <1>3, PTL DEF D!DSpec
-----------------------------------------------------------------------------
(* Relationships.                                                           *)

\* The two rows of a pair agree, its clients know, and who is a friend or waits
\* for an answer has asked.
Agreed(u, v) ==
  /\ rel[u][v] = R!Friend <=> rel[v][u] = R!Friend
  /\ rel[u][v] = R!Incoming <=> rel[v][u] = R!Outgoing
  /\ rel[u][v] = R!Outgoing <=> rel[v][u] = R!Incoming
  /\ rel[u][v] = R!Blocked => rel[v][u] = R!None
  /\ shown[u][v] = rel[u][v]
  /\ rel[u][v] \in {R!Friend, R!Outgoing} => <<u, v>> \in wants

\* What a request makes of the pair a and b: its ends.
Ends == {<<R!Friend, R!Friend>>, <<R!Outgoing, R!Incoming>>, <<R!Blocked, R!None>>,
         <<R!None, R!None>>}
PutBoth(a, b, x, y) ==
  <<R!Put(a, b, x), R!Put(b, a, y), R!Tell(a, b, x), R!Tell(b, a, y)>>
PutOther(a, b, x, y) == <<R!Put(b, a, y), R!Tell(a, b, x), R!Tell(b, a, y)>>
TellBoth(a, b, x, y) == <<R!Tell(a, b, x), R!Tell(b, a, y)>>
TellOther(a, b, y) == <<R!Tell(b, a, y)>>
BlockDrop(a, b) ==
  <<R!Put(a, b, R!Blocked), R!JobOn("drop", b, a), R!Tell(a, b, R!Blocked)>>
DropTell(a, b) == <<R!JobOn("drop", b, a), R!Tell(a, b, R!Blocked)>>
TellBlock(a, b) == <<R!Tell(a, b, R!Blocked)>>
Undo(a, b) == <<R!JobOn("both", a, b), R!Tell(a, b, R!None), R!Tell(b, a, R!None)>>

\* How far a request has come, by what is left of it, and the cells of the pair
\* that are final by then.
Progress(todo, a, b, x, y) ==
  \/ todo = PutBoth(a, b, x, y)
  \/ todo = PutOther(a, b, x, y) /\ (~crossed => rel[a][b] = x)
  \/ todo = TellBoth(a, b, x, y) /\ (~crossed => rel[a][b] = x /\ rel[b][a] = y)
  \/ todo = TellOther(a, b, y) /\
       (~crossed => rel[a][b] = x /\ rel[b][a] = y /\ shown[a][b] = x)
  \/ todo = BlockDrop(a, b) /\ x = R!Blocked /\ y = R!None /\
       (~crossed => shown[b][a] = rel[b][a])
  \/ todo = DropTell(a, b) /\ x = R!Blocked /\ y = R!None /\
       (~crossed => rel[a][b] = x /\ shown[b][a] = rel[b][a])
  \/ todo = TellBlock(a, b) /\ x = R!Blocked /\ y = R!None /\
       (~crossed => rel[a][b] = x /\ rel[b][a] = y /\ shown[b][a] = y)
  \/ todo = Undo(a, b) /\ x = R!None /\ y = R!None
Asked(a, b, x) ==
  /\ x = R!Friend => <<a, b>> \in wants /\ <<b, a>> \in wants
  /\ x = R!Outgoing => <<a, b>> \in wants
Halfway(w, a, b) ==
  /\ \A v \in Ask : asks[v] # NoAsk => v = w
  /\ \A u, v \in Person : <<u, v>> # <<a, b>> /\ <<u, v>> # <<b, a>> => Agreed(u, v)
Makes(w, a, b, x, y) ==
  /\ a # b /\ <<x, y>> \in Ends /\ Progress(asks[w].todo, a, b, x, y)
  /\ ~crossed => Asked(a, b, x) /\ Halfway(w, a, b)
Underway(w) == \E a, b \in Person : \E x, y \in R!Type : Makes(w, a, b, x, y)
PairInv ==
  /\ R!TypeOK
  /\ \A w \in Ask : asks[w] # NoAsk => Underway(w)
  /\ R!Settled => \A u, v \in Person : Agreed(u, v)

LEMMA PairInit == R!Init => PairInv
<1> SUFFICES ASSUME R!Init
             PROVE  PairInv
  OBVIOUS
<1>1. \A u, v \in Person : rel[u][v] = R!None /\ shown[u][v] = R!None
  BY DEF R!Init
<1>2. R!None = 0 /\ R!Friend = 1 /\ R!Blocked = 2 /\ R!Incoming = 3 /\ R!Outgoing = 4
      /\ R!None \in R!Type
  BY DEF R!None, R!Friend, R!Blocked, R!Incoming, R!Outgoing, R!Type
<1>3. R!TypeOK
  BY <1>2 DEF R!Init, R!TypeOK
<1>4. \A u, v \in Person : Agreed(u, v)
  BY <1>1, <1>2 DEF Agreed
<1> QED
  BY <1>3, <1>4 DEF PairInv, R!Init

LEMMA JobFacts ==
  ASSUME NEW a \in Person, NEW b \in Person, NEW x \in R!Type
  PROVE  /\ R!Put(a, b, x) \in R!Job /\ R!Tell(a, b, x) \in R!Job
         /\ R!JobOn("drop", a, b) \in R!Job /\ R!JobOn("both", a, b) \in R!Job
         /\ R!Put(a, b, x).op = "put" /\ R!Put(a, b, x).of = a
         /\ R!Put(a, b, x).on = b /\ R!Put(a, b, x).type = x
         /\ R!Tell(a, b, x).op = "tell" /\ R!Tell(a, b, x).of = a
         /\ R!Tell(a, b, x).on = b /\ R!Tell(a, b, x).type = x
         /\ R!JobOn("drop", a, b).op = "drop" /\ R!JobOn("drop", a, b).of = a
         /\ R!JobOn("drop", a, b).on = b
         /\ R!JobOn("both", a, b).op = "both" /\ R!JobOn("both", a, b).of = a
         /\ R!JobOn("both", a, b).on = b
         /\ R!None \in R!Type
<1>1. R!None \in R!Type
  BY DEF R!Type, R!None, R!Outgoing
<1> QED
  BY <1>1 DEF R!Job, R!Put, R!Tell, R!JobOn

\* Request w has done job, and has rest still to do.
Ran(w, job, rest) ==
  /\ R!TypeOK' /\ wants' = wants /\ crossed' = crossed
  /\ \A u, v \in Person :
       rel'[u][v] = IF job.op = "tell" THEN rel[u][v]
                    ELSE IF u = job.of /\ v = job.on
                      THEN IF job.op = "put" THEN job.type ELSE R!None
                    ELSE IF job.op = "both" /\ u = job.on /\ v = job.of THEN R!None
                    ELSE rel[u][v]
  /\ \A u, v \in Person :
       shown'[u][v] = IF job.op = "tell" /\ u = job.of /\ v = job.on THEN job.type
                      ELSE shown[u][v]
  /\ \A v \in Ask \ {w} : asks'[v] = asks[v]
  /\ rest = <<>> => asks'[w] = NoAsk
  /\ rest # <<>> => asks'[w] # NoAsk /\ asks'[w].todo = rest

LEMMA JobRuns ==
  ASSUME R!TypeOK, NEW w \in Ask, R!Work(w), NEW job \in R!Job, NEW rest \in Seq(R!Job),
         Head(asks[w].todo) = job, Tail(asks[w].todo) \o R!Consequence(job) = rest,
         job.of # job.on
  PROVE  Ran(w, job, rest)
<1>1. /\ asks[w] # NoAsk /\ rel' = R!Written(job) /\ wants' = wants /\ crossed' = crossed
      /\ shown' = (IF job.op = "tell" THEN R!Set(shown, job.of, job.on, job.type) ELSE shown)
      /\ asks' = [asks EXCEPT ![w] =
           IF rest = <<>> THEN NoAsk ELSE [by |-> asks[w].by, todo |-> rest]]
  BY DEF R!Work, R!TypeOK
<1>2. /\ job.of \in Person /\ job.on \in Person /\ job.type \in R!Type
      /\ job.op \in {"put", "drop", "both", "tell"} /\ R!None \in R!Type
  BY JobFacts DEF R!Job
<1>3. /\ rel \in [Person -> [Person -> R!Type]] /\ shown \in [Person -> [Person -> R!Type]]
      /\ \A u \in Person : rel[u][u] = R!None
  BY DEF R!TypeOK
<1>4. PICK a \in Person : a = job.of
  BY <1>2
<1>5. PICK b \in Person : b = job.on
  BY <1>2
<1>6. PICK x \in R!Type : x = job.type
  BY <1>2
<1>7. /\ rel' \in [Person -> [Person -> R!Type]]
      /\ \A u, v \in Person :
              rel'[u][v] = IF job.op = "tell" THEN rel[u][v]
                           ELSE IF u = a /\ v = b
                             THEN IF job.op = "put" THEN x ELSE R!None
                           ELSE IF job.op = "both" /\ u = b /\ v = a THEN R!None
                           ELSE rel[u][v]
  <2>1. CASE job.op = "put"
    <3>1. rel' = R!Set(rel, a, b, x)
      BY <1>1, <1>4, <1>5, <1>6, <2>1 DEF R!Written
    <3> QED
      BY <1>3, <2>1, <3>1 DEF R!Set
  <2>2. CASE job.op = "drop"
    <3>1. rel' = R!Set(rel, a, b, R!None)
      BY <1>1, <1>4, <1>5, <2>2 DEF R!Written
    <3> QED
      BY <1>2, <1>3, <2>2, <3>1 DEF R!Set
  <2>3. CASE job.op = "both"
    <3>1. rel' = R!Set(R!Set(rel, a, b, R!None), b, a, R!None)
      BY <1>1, <1>4, <1>5, <2>3 DEF R!Written
    <3>2. PICK half : half = R!Set(rel, a, b, R!None)
      OBVIOUS
    <3>3. /\ half \in [Person -> [Person -> R!Type]]
          /\ \A u, v \in Person : half[u][v] = IF u = a /\ v = b THEN R!None ELSE rel[u][v]
      BY <1>2, <1>3, <3>2 DEF R!Set
    <3>4. rel' = R!Set(half, b, a, R!None)
      BY <3>1, <3>2
    <3>5. /\ rel' \in [Person -> [Person -> R!Type]]
          /\ \A u, v \in Person : rel'[u][v] = IF u = b /\ v = a THEN R!None ELSE half[u][v]
      BY <1>2, <3>3, <3>4 DEF R!Set
    <3> QED
      BY <2>3, <3>3, <3>5
  <2>4. CASE job.op = "tell"
    <3>1. rel' = rel
      BY <1>1, <2>4 DEF R!Written
    <3> QED
      BY <1>3, <2>4, <3>1
  <2> QED
    BY <1>2, <2>1, <2>2, <2>3, <2>4
<1>8. /\ shown' \in [Person -> [Person -> R!Type]]
      /\ \A u, v \in Person :
              shown'[u][v] = IF job.op = "tell" /\ u = a /\ v = b THEN x ELSE shown[u][v]
  <2>1. CASE job.op = "tell"
    <3>1. shown' = R!Set(shown, a, b, x)
      BY <1>1, <1>4, <1>5, <1>6, <2>1
    <3> QED
      BY <1>3, <2>1, <3>1 DEF R!Set
  <2>2. CASE job.op # "tell"
    BY <1>1, <1>3, <2>2
  <2> QED
    BY <2>1, <2>2
<1>9. PICK s : s = [by |-> asks[w].by, todo |-> rest]
  OBVIOUS
<1>10. s \in [by: Person, todo: Seq(R!Job)] /\ s.todo = rest
  BY <1>1, <1>9 DEF R!TypeOK
<1>11. s # NoAsk
  BY <1>10, MembershipsAssumption
<1>12. asks' = [asks EXCEPT ![w] = IF rest = <<>> THEN NoAsk ELSE s]
  BY <1>1, <1>9
<1>13. /\ \A v \in Ask \ {w} : asks'[v] = asks[v]
       /\ asks'[w] = IF rest = <<>> THEN NoAsk ELSE s
       /\ asks' \in [Ask -> [by: Person, todo: Seq(R!Job)] \cup {NoAsk}]
  BY <1>10, <1>12 DEF R!TypeOK
<1>14. R!TypeOK'
  <2>1. \A u \in Person : rel'[u][u] = R!None
    <3>1. a # b
      BY <1>4, <1>5
    <3> QED
      BY <1>3, <1>7, <3>1
  <2>2. \A v \in Ask : asks'[v] # NoAsk => asks'[v].todo # <<>>
    BY <1>10, <1>13 DEF R!TypeOK
  <2> QED
    BY <1>1, <1>7, <1>8, <1>13, <2>1, <2>2 DEF R!TypeOK
<1> QED
  BY <1>1, <1>4, <1>5, <1>6, <1>7, <1>8, <1>10, <1>11, <1>13, <1>14 DEF Ran

LEMMA TodoFacts ==
  ASSUME NEW a \in Person, NEW b \in Person, NEW x \in R!Type, NEW y \in R!Type
  PROVE  /\ Head(PutBoth(a, b, x, y)) = R!Put(a, b, x)
         /\ Tail(PutBoth(a, b, x, y)) = PutOther(a, b, x, y)
         /\ Head(PutOther(a, b, x, y)) = R!Put(b, a, y)
         /\ Tail(PutOther(a, b, x, y)) = TellBoth(a, b, x, y)
         /\ Head(TellBoth(a, b, x, y)) = R!Tell(a, b, x)
         /\ Tail(TellBoth(a, b, x, y)) = TellOther(a, b, y)
         /\ Head(TellOther(a, b, y)) = R!Tell(b, a, y) /\ Tail(TellOther(a, b, y)) = <<>>
         /\ Head(BlockDrop(a, b)) = R!Put(a, b, R!Blocked)
         /\ Tail(BlockDrop(a, b)) = DropTell(a, b)
         /\ Head(DropTell(a, b)) = R!JobOn("drop", b, a)
         /\ Tail(DropTell(a, b)) = TellBlock(a, b)
         /\ Head(TellBlock(a, b)) = R!Tell(a, b, R!Blocked) /\ Tail(TellBlock(a, b)) = <<>>
         /\ Head(Undo(a, b)) = R!JobOn("both", a, b)
         /\ Tail(Undo(a, b)) = TellBoth(a, b, R!None, R!None)
BY DEF PutBoth, PutOther, TellBoth, TellOther, BlockDrop, DropTell, TellBlock, Undo

LEMMA ToldToo ==
  ASSUME NEW a \in Person, NEW b \in Person
  PROVE  TellBlock(a, b) \o <<R!Tell(b, a, R!None)>> = TellBoth(a, b, R!Blocked, R!None)
<1>1. PICK p \in R!Job : p = R!Tell(a, b, R!Blocked)
  BY JobFacts DEF R!Type, R!Blocked, R!Outgoing, R!None
<1>2. PICK q \in R!Job : q = R!Tell(b, a, R!None)
  BY JobFacts DEF R!Type, R!Outgoing, R!None
<1>3. <<p>> \o <<q>> = Append(<<p>>, q)
  BY AppendIsConcat
<1>4. Append(<<p>>, q) = <<p, q>>
  <2>0. /\ <<p>> \in Seq(R!Job) /\ <<p, q>> \in Seq(R!Job)
    OBVIOUS
  <2>1. PICK s \in Seq(R!Job) : s = Append(<<p>>, q)
    BY <2>0, AppendProperties
  <2>2. PICK t \in Seq(R!Job) : t = <<p, q>>
    BY <2>0
  <2>3. Len(s) = 2 /\ s[1] = p /\ s[2] = q
    <3>1. <<p>> \in Seq(R!Job) /\ Len(<<p>>) = 1 /\ <<p>>[1] = p
      OBVIOUS
    <3> QED
      BY <2>1, <3>1, AppendProperties
  <2>4. Len(t) = 2 /\ t[1] = p /\ t[2] = q
    BY <2>2
  <2>5. \A i \in 1..Len(s) : s[i] = t[i]
    BY <2>3, <2>4
  <2>6. s = t
    BY <2>3, <2>4, <2>5, SeqEqual
  <2> QED
    BY <2>1, <2>2, <2>6
<1> QED
  BY <1>1, <1>2, <1>3, <1>4 DEF TellBlock, TellBoth

LEMMA TodoTypes ==
  ASSUME NEW a \in Person, NEW b \in Person, NEW x \in R!Type, NEW y \in R!Type
  PROVE  /\ PutBoth(a, b, x, y) \in Seq(R!Job) /\ PutOther(a, b, x, y) \in Seq(R!Job)
         /\ TellBoth(a, b, x, y) \in Seq(R!Job) /\ TellOther(a, b, y) \in Seq(R!Job)
         /\ BlockDrop(a, b) \in Seq(R!Job) /\ DropTell(a, b) \in Seq(R!Job)
         /\ TellBlock(a, b) \in Seq(R!Job) /\ Undo(a, b) \in Seq(R!Job)
         /\ PutBoth(a, b, x, y) # <<>> /\ PutOther(a, b, x, y) # <<>>
         /\ TellBoth(a, b, x, y) # <<>> /\ TellOther(a, b, y) # <<>>
         /\ BlockDrop(a, b) # <<>> /\ DropTell(a, b) # <<>>
         /\ TellBlock(a, b) # <<>> /\ Undo(a, b) # <<>>
<1>1. R!Blocked \in R!Type /\ R!None \in R!Type
  BY DEF R!Type, R!Blocked, R!None, R!Outgoing
<1>2. /\ R!Put(a, b, x) \in R!Job /\ R!Put(b, a, y) \in R!Job
      /\ R!Tell(a, b, x) \in R!Job /\ R!Tell(b, a, y) \in R!Job
      /\ R!Put(a, b, R!Blocked) \in R!Job /\ R!Tell(a, b, R!Blocked) \in R!Job
      /\ R!Tell(a, b, R!None) \in R!Job /\ R!Tell(b, a, R!None) \in R!Job
      /\ R!JobOn("drop", b, a) \in R!Job /\ R!JobOn("both", a, b) \in R!Job
  BY <1>1, JobFacts
<1> QED
  BY <1>2 DEF PutBoth, PutOther, TellBoth, TellOther, BlockDrop, DropTell, TellBlock, Undo

EndPair(x, y) ==
  (x = 1 /\ y = 1) \/ (x = 4 /\ y = 3) \/ (x = 2 /\ y = 0) \/ (x = 0 /\ y = 0)
LEMMA EndsFour ==
  ASSUME NEW x, NEW y, <<x, y>> \in Ends
  PROVE  EndPair(x, y)
<1>1. <<x, y>> \in {<<1, 1>>, <<4, 3>>, <<2, 0>>, <<0, 0>>}
  BY DEF Ends, R!None, R!Friend, R!Blocked, R!Incoming, R!Outgoing
<1> QED
  BY <1>1 DEF EndPair

\* Request w has done a step for the pair of a and b.
LEMMA PairTurn ==
  ASSUME PairInv, NEW w \in Ask, asks[w] # NoAsk, NEW a \in Person, NEW b \in Person,
         NEW x \in R!Type, NEW y \in R!Type, Makes(w, a, b, x, y),
         R!TypeOK', wants' = wants, crossed' = crossed,
         \A v \in Ask \ {w} : asks'[v] = asks[v],
         \A u, v \in Person : <<u, v>> # <<a, b>> /\ <<u, v>> # <<b, a>> =>
           rel'[u][v] = rel[u][v] /\ shown'[u][v] = shown[u][v],
         asks'[w] # NoAsk => Progress(asks[w].todo, a, b, x, y)',
         asks'[w] = NoAsk /\ ~crossed =>
           rel'[a][b] = x /\ rel'[b][a] = y /\ shown'[a][b] = x /\ shown'[b][a] = y
  PROVE  PairInv'
<1>1. a # b /\ <<x, y>> \in Ends
  BY DEF Makes
<1>2. ASSUME ~crossed
      PROVE  /\ Asked(a, b, x)' /\ Halfway(w, a, b)'
             /\ \A v \in Ask \ {w} : asks'[v] = NoAsk
             /\ \A u, v \in Person : <<u, v>> # <<a, b>> /\ <<u, v>> # <<b, a>> => Agreed(u, v)'
  <2>1. Asked(a, b, x) /\ Halfway(w, a, b)
    BY <1>2 DEF Makes
  <2>2. Asked(a, b, x)'
    BY <2>1 DEF Asked
  <2>3. \A v \in Ask \ {w} : asks'[v] = NoAsk
    BY <2>1 DEF Halfway
  <2>4. ASSUME NEW u \in Person, NEW v \in Person, <<u, v>> # <<a, b>>, <<u, v>> # <<b, a>>
        PROVE  Agreed(u, v)'
    <3>1. Agreed(u, v)
      BY <2>1, <2>4 DEF Halfway
    <3>2. /\ rel'[u][v] = rel[u][v] /\ shown'[u][v] = shown[u][v]
          /\ rel'[v][u] = rel[v][u]
      BY <2>4
    <3> QED
      BY <3>1, <3>2 DEF Agreed
  <2>5. Halfway(w, a, b)'
    BY <2>3, <2>4 DEF Halfway
  <2> QED
    BY <2>2, <2>3, <2>4, <2>5
<1>3. ASSUME NEW v \in Ask, asks'[v] # NoAsk
      PROVE  Underway(v)'
  <2>1. CASE v = w
    <3>1. Progress(asks[w].todo, a, b, x, y)'
      BY <1>3, <2>1
    <3>2. Makes(w, a, b, x, y)'
      BY <1>1, <1>2, <3>1 DEF Makes
    <3> QED
      BY <2>1, <3>2 DEF Underway
  <2>2. CASE v # w
    <3>1. crossed /\ asks'[v] = asks[v] /\ asks[v] # NoAsk
      BY <1>2, <1>3, <2>2
    <3>2. PICK p \in Person : \E q \in Person : \E s, t \in R!Type : Makes(v, p, q, s, t)
      BY <3>1 DEF PairInv, Underway
    <3>3. PICK q \in Person : \E s, t \in R!Type : Makes(v, p, q, s, t)
      BY <3>2
    <3>4. PICK s \in R!Type, t \in R!Type : Makes(v, p, q, s, t)
      BY <3>3
    <3>5. Progress(asks[v].todo, p, q, s, t) => Progress(asks[v].todo, p, q, s, t)'
      BY <3>1 DEF Progress
    <3>6. Makes(v, p, q, s, t)'
      BY <3>1, <3>4, <3>5 DEF Makes
    <3> QED
      BY <3>6 DEF Underway
  <2> QED
    BY <2>1, <2>2
<1>4. ASSUME R!Settled', NEW u \in Person, NEW v \in Person
      PROVE  Agreed(u, v)'
  <2>1. ~crossed /\ asks'[w] = NoAsk
    BY <1>4 DEF R!Settled, R!Busy
  <2>2. rel'[a][b] = x /\ rel'[b][a] = y /\ shown'[a][b] = x /\ shown'[b][a] = y
    BY <2>1
  <2>3. Agreed(a, b)' /\ Agreed(b, a)'
    <3>1. Asked(a, b, x)'
      BY <1>2, <2>1
    <3>2. EndPair(x, y)
      BY <1>1, EndsFour
    <3> QED
      BY <2>2, <3>1, <3>2 DEF Agreed, Asked, EndPair, R!None, R!Friend, R!Blocked,
         R!Incoming, R!Outgoing
  <2>4. CASE <<u, v>> = <<a, b>> \/ <<u, v>> = <<b, a>>
    BY <2>3, <2>4
  <2>5. CASE <<u, v>> # <<a, b>> /\ <<u, v>> # <<b, a>>
    BY <1>2, <2>1, <2>5
  <2> QED
    BY <2>4, <2>5
<1> QED
  BY <1>3, <1>4 DEF PairInv

LEMMA NoConsequence ==
  ASSUME NEW job \in R!Job, NEW todo \in Seq(R!Job),
         job.op # "drop" \/ rel[job.of][job.on] = R!None
  PROVE  todo \o R!Consequence(job) = todo
<1>1. R!Consequence(job) = <<>>
  BY DEF R!Consequence
<1> QED
  BY <1>1, ConcatEmptySeq

LEMMA WorkKeeps ==
  ASSUME PairInv, NEW w \in Ask, R!Work(w)
  PROVE  PairInv'
<1>1. asks[w] # NoAsk /\ R!TypeOK
  BY DEF R!Work, PairInv
<1>2. PICK a \in Person : \E b \in Person : \E x, y \in R!Type : Makes(w, a, b, x, y)
  BY <1>1 DEF PairInv, Underway
<1>3. PICK b \in Person : \E x, y \in R!Type : Makes(w, a, b, x, y)
  BY <1>2
<1>4. PICK x \in R!Type, y \in R!Type : Makes(w, a, b, x, y)
  BY <1>3
<1>5. a # b /\ Progress(asks[w].todo, a, b, x, y)
  BY <1>4 DEF Makes
<1>6. PICK todo : todo = asks[w].todo
  OBVIOUS
<1>7. /\ R!None \in R!Type /\ R!Blocked \in R!Type /\ <<>> \in Seq(R!Job)
  BY DEF R!None, R!Blocked, R!Type, R!Outgoing
<1>8. ASSUME NEW job \in R!Job, NEW rest \in Seq(R!Job),
             Head(todo) = job, Tail(todo) \o R!Consequence(job) = rest, job.of # job.on
      PROVE  Ran(w, job, rest)
  BY <1>1, <1>6, <1>8, JobRuns
<1>9. ASSUME NEW job \in R!Job, NEW rest \in Seq(R!Job), Ran(w, job, rest),
             (job.of = a /\ job.on = b) \/ (job.of = b /\ job.on = a),
             rest # <<>> => Progress(rest, a, b, x, y)',
             rest = <<>> /\ ~crossed =>
               rel'[a][b] = x /\ rel'[b][a] = y /\ shown'[a][b] = x /\ shown'[b][a] = y
      PROVE  PairInv'
  <2>1. \A u, v \in Person : <<u, v>> # <<a, b>> /\ <<u, v>> # <<b, a>> =>
           rel'[u][v] = rel[u][v] /\ shown'[u][v] = shown[u][v]
    BY <1>9 DEF Ran
  <2>2. asks'[w] # NoAsk => Progress(asks[w].todo, a, b, x, y)'
    BY <1>9 DEF Progress, Ran
  <2>3. /\ R!TypeOK' /\ wants' = wants /\ crossed' = crossed
        /\ \A v \in Ask \ {w} : asks'[v] = asks[v]
        /\ asks'[w] = NoAsk => rest = <<>>
    BY <1>9 DEF Ran
  <2> QED
    BY <1>1, <1>4, <1>9, <2>1, <2>2, <2>3, PairTurn
<1>10. CASE todo = PutBoth(a, b, x, y)
  <2>1. PICK job \in R!Job : /\ job = R!Put(a, b, x) /\ job.op = "put" /\ job.of = a
                             /\ job.on = b /\ job.type = x
    BY JobFacts
  <2>2. PICK rest \in Seq(R!Job) : rest = PutOther(a, b, x, y) /\ rest # <<>>
    BY TodoTypes
  <2>3. Head(todo) = job /\ Tail(todo) = rest
    BY <1>10, <2>1, <2>2, TodoFacts
  <2>4. Tail(todo) \o R!Consequence(job) = rest
    BY <2>1, <2>3, NoConsequence
  <2>5. Ran(w, job, rest)
    BY <1>5, <1>8, <2>1, <2>3, <2>4
  <2>6. rel'[a][b] = x
    BY <2>1, <2>5 DEF Ran
  <2>7. Progress(rest, a, b, x, y)'
    BY <2>2, <2>6 DEF Progress, PutOther, R!Put, R!Tell
  <2> QED
    BY <1>9, <2>1, <2>2, <2>5, <2>7
<1>11. CASE todo = PutOther(a, b, x, y) /\ (~crossed => rel[a][b] = x)
  <2>1. PICK job \in R!Job : /\ job = R!Put(b, a, y) /\ job.op = "put" /\ job.of = b
                             /\ job.on = a /\ job.type = y
    BY JobFacts
  <2>2. PICK rest \in Seq(R!Job) : rest = TellBoth(a, b, x, y) /\ rest # <<>>
    BY TodoTypes
  <2>3. Head(todo) = job /\ Tail(todo) = rest
    BY <1>11, <2>1, <2>2, TodoFacts
  <2>4. Tail(todo) \o R!Consequence(job) = rest
    BY <2>1, <2>3, NoConsequence
  <2>5. Ran(w, job, rest)
    BY <1>5, <1>8, <2>1, <2>3, <2>4
  <2>6. crossed' = crossed /\ rel'[b][a] = y /\ rel'[a][b] = rel[a][b]
    BY <1>5, <2>1, <2>5 DEF Ran
  <2>7. Progress(rest, a, b, x, y)'
    BY <1>11, <2>2, <2>6 DEF Progress, TellBoth, R!Tell
  <2> QED
    BY <1>9, <2>1, <2>2, <2>5, <2>7
<1>12. CASE todo = TellBoth(a, b, x, y) /\ (~crossed => rel[a][b] = x /\ rel[b][a] = y)
  <2>1. PICK job \in R!Job : /\ job = R!Tell(a, b, x) /\ job.op = "tell" /\ job.of = a
                             /\ job.on = b /\ job.type = x
    BY JobFacts
  <2>2. PICK rest \in Seq(R!Job) : rest = TellOther(a, b, y) /\ rest # <<>>
    BY TodoTypes
  <2>3. Head(todo) = job /\ Tail(todo) = rest
    BY <1>12, <2>1, <2>2, TodoFacts
  <2>4. Tail(todo) \o R!Consequence(job) = rest
    BY <2>1, <2>3, NoConsequence
  <2>5. Ran(w, job, rest)
    BY <1>5, <1>8, <2>1, <2>3, <2>4
  <2>6. crossed' = crossed /\ rel'[b][a] = rel[b][a] /\ rel'[a][b] = rel[a][b] /\ shown'[a][b] = x
    BY <1>5, <2>1, <2>5 DEF Ran
  <2>7. Progress(rest, a, b, x, y)'
    BY <1>12, <2>2, <2>6 DEF Progress, TellOther, R!Tell
  <2> QED
    BY <1>9, <2>1, <2>2, <2>5, <2>7
<1>13. CASE todo = TellOther(a, b, y) /\
              (~crossed => rel[a][b] = x /\ rel[b][a] = y /\ shown[a][b] = x)
  <2>1. PICK job \in R!Job : /\ job = R!Tell(b, a, y) /\ job.op = "tell" /\ job.of = b
                             /\ job.on = a /\ job.type = y
    BY JobFacts
  <2>2. PICK rest \in Seq(R!Job) : rest = <<>>
    BY <1>7
  <2>3. Head(todo) = job /\ Tail(todo) = rest
    BY <1>13, <2>1, <2>2, TodoFacts
  <2>4. Tail(todo) \o R!Consequence(job) = rest
    BY <2>1, <2>3, NoConsequence
  <2>5. Ran(w, job, rest)
    BY <1>5, <1>8, <2>1, <2>3, <2>4
  <2>6. /\ rel'[b][a] = rel[b][a] /\ rel'[a][b] = rel[a][b]
        /\ shown'[b][a] = y /\ shown'[a][b] = shown[a][b]
    BY <1>5, <2>1, <2>5 DEF Ran
  <2> QED
    BY <1>9, <1>13, <2>1, <2>2, <2>5, <2>6
<1>14. CASE todo = BlockDrop(a, b) /\ x = R!Blocked /\ y = R!None /\
              (~crossed => shown[b][a] = rel[b][a])
  <2>1. PICK job \in R!Job : /\ job = R!Put(a, b, x) /\ job.op = "put" /\ job.of = a
                             /\ job.on = b /\ job.type = x
    BY JobFacts
  <2>2. PICK rest \in Seq(R!Job) : rest = DropTell(a, b) /\ rest # <<>>
    BY <1>7, TodoTypes
  <2>3. Head(todo) = job /\ Tail(todo) = rest
    BY <1>7, <1>14, <2>1, <2>2, TodoFacts
  <2>4. Tail(todo) \o R!Consequence(job) = rest
    BY <2>1, <2>3, NoConsequence
  <2>5. Ran(w, job, rest)
    BY <1>5, <1>8, <2>1, <2>3, <2>4
  <2>6. /\ crossed' = crossed /\ rel'[a][b] = x
        /\ rel'[b][a] = rel[b][a] /\ shown'[b][a] = shown[b][a]
    BY <1>5, <2>1, <2>5 DEF Ran
  <2>7. Progress(rest, a, b, x, y)'
    BY <1>14, <2>2, <2>6 DEF Progress, DropTell, R!Tell, R!JobOn, R!Blocked, R!None
  <2> QED
    BY <1>9, <2>1, <2>2, <2>5, <2>7
<1>15. CASE todo = DropTell(a, b) /\ x = R!Blocked /\ y = R!None /\
              (~crossed => rel[a][b] = x /\ shown[b][a] = rel[b][a])
  <2>1. PICK job \in R!Job : /\ job = R!JobOn("drop", b, a) /\ job.op = "drop" /\ job.of = b
                             /\ job.on = a
    BY JobFacts
  <2>2. Head(todo) = job /\ Tail(todo) = TellBlock(a, b) /\ TellBlock(a, b) \in Seq(R!Job)
    BY <1>7, <1>15, <2>1, TodoFacts, TodoTypes
  <2>3. CASE rel[b][a] = R!None
    <3>1. PICK rest \in Seq(R!Job) : rest = TellBlock(a, b) /\ rest # <<>>
      BY <1>7, TodoTypes
    <3>2. Tail(todo) \o R!Consequence(job) = rest
      BY <2>1, <2>2, <2>3, <3>1, NoConsequence
    <3>3. Ran(w, job, rest)
      BY <1>5, <1>8, <2>1, <2>2, <3>2
    <3>4. /\ crossed' = crossed /\ rel'[a][b] = rel[a][b]
          /\ rel'[b][a] = R!None /\ shown'[b][a] = shown[b][a]
      BY <1>5, <2>1, <3>3 DEF Ran
    <3>5. Progress(rest, a, b, x, y)'
      BY <1>15, <2>3, <3>1, <3>4 DEF Progress, TellBlock, R!Tell, R!Blocked, R!None
    <3> QED
      BY <1>9, <2>1, <3>1, <3>3, <3>5
  <2>4. CASE rel[b][a] # R!None
    <3>1. PICK rest \in Seq(R!Job) : rest = TellBoth(a, b, x, y) /\ rest # <<>>
      BY TodoTypes
    <3>2. R!Consequence(job) = <<R!Tell(b, a, R!None)>>
      BY <2>1, <2>4 DEF R!Consequence
    <3>3. Tail(todo) \o R!Consequence(job) = rest
      BY <1>15, <2>2, <3>1, <3>2, ToldToo
    <3>4. Ran(w, job, rest)
      BY <1>5, <1>8, <2>1, <2>2, <3>3
    <3>5. crossed' = crossed /\ rel'[a][b] = rel[a][b] /\ rel'[b][a] = R!None
      BY <1>5, <2>1, <3>4 DEF Ran
    <3>6. Progress(rest, a, b, x, y)'
      BY <1>15, <3>1, <3>5 DEF Progress, TellBoth, R!Tell, R!Blocked, R!None
    <3> QED
      BY <1>9, <2>1, <3>1, <3>4, <3>6
  <2> QED
    BY <2>3, <2>4
<1>16. CASE todo = TellBlock(a, b) /\ x = R!Blocked /\ y = R!None /\
              (~crossed => rel[a][b] = x /\ rel[b][a] = y /\ shown[b][a] = y)
  <2>1. PICK job \in R!Job : /\ job = R!Tell(a, b, x) /\ job.op = "tell" /\ job.of = a
                             /\ job.on = b /\ job.type = x
    BY JobFacts
  <2>2. PICK rest \in Seq(R!Job) : rest = <<>>
    BY <1>7
  <2>3. Head(todo) = job /\ Tail(todo) = rest
    BY <1>7, <1>16, <2>1, <2>2, TodoFacts
  <2>4. Tail(todo) \o R!Consequence(job) = rest
    BY <2>1, <2>3, NoConsequence
  <2>5. Ran(w, job, rest)
    BY <1>5, <1>8, <2>1, <2>3, <2>4
  <2>6. /\ rel'[b][a] = rel[b][a] /\ rel'[a][b] = rel[a][b]
        /\ shown'[a][b] = x /\ shown'[b][a] = shown[b][a]
    BY <1>5, <2>1, <2>5 DEF Ran
  <2> QED
    BY <1>9, <1>16, <2>1, <2>2, <2>5, <2>6
<1>17. CASE todo = Undo(a, b) /\ x = R!None /\ y = R!None
  <2>1. PICK job \in R!Job : /\ job = R!JobOn("both", a, b) /\ job.op = "both" /\ job.of = a
                             /\ job.on = b
    BY JobFacts
  <2>2. PICK rest \in Seq(R!Job) : rest = TellBoth(a, b, x, y) /\ rest # <<>>
    BY TodoTypes
  <2>3. Head(todo) = job /\ Tail(todo) = rest
    BY <1>7, <1>17, <2>1, <2>2, TodoFacts
  <2>4. Tail(todo) \o R!Consequence(job) = rest
    BY <2>1, <2>3, NoConsequence
  <2>5. Ran(w, job, rest)
    BY <1>5, <1>8, <2>1, <2>3, <2>4
  <2>6. crossed' = crossed /\ rel'[b][a] = R!None /\ rel'[a][b] = R!None
    BY <1>5, <2>1, <2>5 DEF Ran
  <2>7. Progress(rest, a, b, x, y)'
    BY <1>17, <2>2, <2>6 DEF Progress, TellBoth, R!Tell, R!None
  <2> QED
    BY <1>9, <2>1, <2>2, <2>5, <2>7
<1> QED
  BY <1>5, <1>6, <1>10, <1>11, <1>12, <1>13, <1>14, <1>15, <1>16, <1>17 DEF Progress

\* A request begins: alone, if none overlapped.
Begins(w, a, b, x, y, todo) ==
  /\ a # b /\ <<x, y>> \in Ends
  /\ R!Start(w, a, todo) /\ rel' = rel /\ shown' = shown
  /\ \/ todo = PutBoth(a, b, x, y)
     \/ todo = BlockDrop(a, b) /\ x = R!Blocked /\ y = R!None
     \/ todo = Undo(a, b) /\ x = R!None /\ y = R!None
  /\ \A u, v \in Person : <<u, v>> # <<a, b>> /\ <<u, v>> # <<b, a>> =>
       (<<u, v>> \in wants' <=> <<u, v>> \in wants)
  /\ wants' \subseteq Person \X Person
  /\ R!Settled => Asked(a, b, x)'

LEMMA BeginKeeps ==
  ASSUME PairInv, NEW w \in Ask, NEW a \in Person, NEW b \in Person,
         NEW x \in R!Type, NEW y \in R!Type, NEW todo \in Seq(R!Job),
         Begins(w, a, b, x, y, todo)
  PROVE  PairInv'
<1> USE DEF Begins
<1>1. /\ asks[w] = NoAsk /\ crossed' = (crossed \/ R!Busy)
      /\ asks' = [asks EXCEPT ![w] = [by |-> a, todo |-> todo]] /\ R!TypeOK
  BY DEF R!Start, PairInv
<1>2. PICK s : s = [by |-> a, todo |-> todo]
  OBVIOUS
<1>3. s \in [by: Person, todo: Seq(R!Job)] /\ s.todo = todo
  BY <1>2
<1>4. s # NoAsk
  BY <1>3, MembershipsAssumption
<1>5. /\ \A v \in Ask \ {w} : asks'[v] = asks[v]
      /\ asks'[w] = s
      /\ asks' \in [Ask -> [by: Person, todo: Seq(R!Job)] \cup {NoAsk}]
  BY <1>1, <1>2, <1>3 DEF R!TypeOK
<1>6. todo # <<>>
  BY TodoTypes
<1>7. R!TypeOK'
  <2>1. \A v \in Ask : asks'[v] # NoAsk => asks'[v].todo # <<>>
    BY <1>1, <1>3, <1>5, <1>6 DEF R!TypeOK
  <2>2. crossed' \in BOOLEAN
    BY <1>1 DEF R!TypeOK
  <2> QED
    BY <1>1, <1>5, <2>1, <2>2 DEF R!TypeOK
<1>8. ~crossed' => R!Settled
  BY <1>1 DEF R!Settled
<1>9. Progress(todo, a, b, x, y)'
  <2>1. CASE todo = PutBoth(a, b, x, y)
    BY <2>1 DEF Progress, PutBoth, R!Put, R!Tell
  <2>2. CASE todo = BlockDrop(a, b) /\ x = R!Blocked /\ y = R!None
    <3>1. ~crossed' => shown'[b][a] = rel'[b][a]
      BY <1>8 DEF PairInv, Agreed
    <3> QED
      BY <2>2, <3>1 DEF Progress, BlockDrop, R!Put, R!JobOn, R!Tell, R!Blocked, R!None
  <2>3. CASE todo = Undo(a, b) /\ x = R!None /\ y = R!None
    BY <2>3 DEF Progress, Undo, R!JobOn, R!Tell, R!None
  <2> QED
    BY <2>1, <2>2, <2>3
<1>10. ASSUME ~crossed'
       PROVE  Asked(a, b, x)' /\ Halfway(w, a, b)'
  <2>1. R!Settled
    BY <1>8, <1>10
  <2>2. \A v \in Ask : asks'[v] # NoAsk => v = w
    BY <1>5, <2>1 DEF R!Settled, R!Busy
  <2>3. ASSUME NEW u \in Person, NEW v \in Person, <<u, v>> # <<a, b>>, <<u, v>> # <<b, a>>
        PROVE  Agreed(u, v)'
    <3>1. Agreed(u, v)
      BY <2>1 DEF PairInv
    <3>2. <<u, v>> \in wants' <=> <<u, v>> \in wants
      BY <2>3
    <3> QED
      BY <3>1, <3>2 DEF Agreed
  <2> QED
    BY <2>1, <2>2, <2>3 DEF Halfway
<1>11. Makes(w, a, b, x, y)'
  <2>1. (<<x, y>> \in Ends)'
    BY DEF Ends, R!None, R!Friend, R!Blocked, R!Incoming, R!Outgoing
  <2>2. Progress(asks[w].todo, a, b, x, y)'
    BY <1>3, <1>5, <1>9 DEF Progress
  <2> QED
    BY <1>10, <2>1, <2>2 DEF Makes
<1>12. ASSUME NEW v \in Ask, asks'[v] # NoAsk
       PROVE  Underway(v)'
  <2>1. CASE v = w
    BY <1>11, <2>1 DEF Underway
  <2>2. CASE v # w
    <3>1. crossed' /\ asks'[v] = asks[v] /\ asks[v] # NoAsk
      BY <1>1, <1>5, <1>12, <2>2 DEF R!Busy
    <3>2. PICK p \in Person : \E q \in Person : \E r, t \in R!Type : Makes(v, p, q, r, t)
      BY <3>1 DEF PairInv, Underway
    <3>3. PICK q \in Person : \E r, t \in R!Type : Makes(v, p, q, r, t)
      BY <3>2
    <3>4. PICK r \in R!Type, t \in R!Type : Makes(v, p, q, r, t)
      BY <3>3
    <3>5. Progress(asks[v].todo, p, q, r, t) => Progress(asks[v].todo, p, q, r, t)'
      BY <3>1 DEF Progress
    <3>6. Makes(v, p, q, r, t)'
      BY <3>1, <3>4, <3>5 DEF Makes
    <3> QED
      BY <3>6 DEF Underway
  <2> QED
    BY <2>1, <2>2
<1>13. ~R!Settled'
  BY <1>4, <1>5 DEF R!Settled, R!Busy
<1> QED
  BY <1>7, <1>12, <1>13 DEF PairInv

LEMMA TypeFacts ==
  /\ R!None \in R!Type /\ R!Friend \in R!Type /\ R!Blocked \in R!Type
  /\ R!Incoming \in R!Type /\ R!Outgoing \in R!Type
  /\ R!None # R!Friend /\ R!None # R!Outgoing /\ R!Blocked # R!Friend
  /\ R!Blocked # R!Outgoing /\ R!Friend # R!Outgoing
BY DEF R!None, R!Friend, R!Blocked, R!Incoming, R!Outgoing, R!Type

LEMMA BefriendKeeps ==
  ASSUME PairInv, NEW w \in Ask, NEW u \in Person, NEW v \in Person, u # v, R!Befriend(w, u, v)
  PROVE  PairInv'
<1>1. /\ wants' = wants \cup {<<u, v>>} /\ rel' = rel /\ shown' = shown
      /\ wants \subseteq Person \X Person
  BY DEF R!Befriend, PairInv, R!TypeOK
<1>2. /\ wants' \subseteq Person \X Person
      /\ \A p, q \in Person : <<p, q>> # <<u, v>> /\ <<p, q>> # <<v, u>> =>
           (<<p, q>> \in wants' <=> <<p, q>> \in wants)
  BY <1>1
<1>3. CASE R!Accepts(u, v) /\ R!Start(w, u, R!BecomeFriends(u, v))
  <2>1. PICK todo \in Seq(R!Job) : todo = PutBoth(u, v, R!Friend, R!Friend)
    BY TypeFacts, TodoTypes
  <2>2. R!Start(w, u, todo)
    BY <1>3, <2>1 DEF R!BecomeFriends, PutBoth
  <2>3. R!Settled => Asked(u, v, R!Friend)'
    <3> SUFFICES ASSUME R!Settled
                 PROVE  <<u, v>> \in wants' /\ <<v, u>> \in wants'
      BY TypeFacts DEF Asked
    <3>1. Agreed(u, v) /\ Agreed(v, u)
      BY DEF PairInv
    <3>2. rel[v][u] = R!Outgoing
      BY <1>3, <3>1 DEF R!Accepts, Agreed
    <3> QED
      BY <1>1, <3>1, <3>2 DEF Agreed
  <2>4. PICK x \in R!Type : x = R!Friend /\ <<x, x>> \in Ends
    BY TypeFacts DEF Ends
  <2>5. todo = PutBoth(u, v, x, x) /\ (R!Settled => Asked(u, v, x)')
    BY <2>1, <2>3, <2>4 DEF Asked
  <2> QED
    <3>1. Begins(w, u, v, x, x, todo)
      BY <1>1, <1>2, <2>2, <2>4, <2>5 DEF Begins
    <3> QED
      BY <3>1, BeginKeeps
<1>4. CASE R!Start(w, u, <<R!Put(u, v, R!Outgoing), R!Put(v, u, R!Incoming),
                           R!Tell(u, v, R!Outgoing), R!Tell(v, u, R!Incoming)>>)
  <2>1. PICK todo \in Seq(R!Job) : todo = PutBoth(u, v, R!Outgoing, R!Incoming)
    BY TypeFacts, TodoTypes
  <2>2. R!Start(w, u, todo)
    BY <1>4, <2>1 DEF PutBoth
  <2>3. Asked(u, v, R!Outgoing)'
    BY <1>1, TypeFacts DEF Asked
  <2>4. PICK x \in R!Type, y \in R!Type :
          x = R!Outgoing /\ y = R!Incoming /\ <<x, y>> \in Ends
    BY TypeFacts DEF Ends
  <2>5. todo = PutBoth(u, v, x, y) /\ Asked(u, v, x)'
    BY <2>1, <2>3, <2>4 DEF Asked
  <2> QED
    <3>1. Begins(w, u, v, x, y, todo)
      BY <1>1, <1>2, <2>2, <2>4, <2>5 DEF Begins
    <3> QED
      BY <3>1, BeginKeeps
<1> QED
  BY <1>3, <1>4 DEF R!Befriend

LEMMA BlockKeeps ==
  ASSUME PairInv, NEW w \in Ask, NEW u \in Person, NEW v \in Person, u # v, R!BlockUser(w, u, v)
  PROVE  PairInv'
<1>1. /\ wants' = wants \ {<<u, v>>, <<v, u>>} /\ rel' = rel /\ shown' = shown
      /\ wants \subseteq Person \X Person
      /\ R!Start(w, u, <<R!Put(u, v, R!Blocked), R!JobOn("drop", v, u), R!Tell(u, v, R!Blocked)>>)
  BY DEF R!BlockUser, PairInv, R!TypeOK
<1>2. /\ wants' \subseteq Person \X Person
      /\ \A p, q \in Person : <<p, q>> # <<u, v>> /\ <<p, q>> # <<v, u>> =>
           (<<p, q>> \in wants' <=> <<p, q>> \in wants)
  BY <1>1
<1>3. PICK todo \in Seq(R!Job) : todo = BlockDrop(u, v)
  BY TypeFacts, TodoTypes
<1>4. R!Start(w, u, todo)
  BY <1>1, <1>3 DEF BlockDrop
<1>5. Asked(u, v, R!Blocked)'
  BY TypeFacts DEF Asked
<1>6. <<R!Blocked, R!None>> \in Ends
  BY DEF Ends
<1>7. PICK x \in R!Type, y \in R!Type : x = R!Blocked /\ y = R!None
  BY TypeFacts
<1>8. Begins(w, u, v, x, y, todo)
  BY <1>1, <1>2, <1>3, <1>4, <1>5, <1>6, <1>7 DEF Begins, Asked
<1> QED
  BY <1>7, <1>8, BeginKeeps

LEMMA DeleteKeepsPairs ==
  ASSUME PairInv, NEW w \in Ask, NEW u \in Person, NEW v \in Person, u # v,
         R!DeleteRelationship(w, u, v)
  PROVE  PairInv'
<1>1. /\ wants' = wants \ {<<u, v>>, <<v, u>>} /\ rel' = rel /\ shown' = shown
      /\ wants \subseteq Person \X Person
      /\ R!Start(w, u, <<R!JobOn("both", u, v), R!Tell(u, v, R!None), R!Tell(v, u, R!None)>>)
  BY DEF R!DeleteRelationship, PairInv, R!TypeOK
<1>2. /\ wants' \subseteq Person \X Person
      /\ \A p, q \in Person : <<p, q>> # <<u, v>> /\ <<p, q>> # <<v, u>> =>
           (<<p, q>> \in wants' <=> <<p, q>> \in wants)
  BY <1>1
<1>3. PICK todo \in Seq(R!Job) : todo = Undo(u, v)
  BY TypeFacts, TodoTypes
<1>4. R!Start(w, u, todo)
  BY <1>1, <1>3 DEF Undo
<1>5. Asked(u, v, R!None)'
  BY TypeFacts DEF Asked
<1>6. <<R!None, R!None>> \in Ends
  BY DEF Ends
<1>7. PICK x \in R!Type, y \in R!Type : x = R!None /\ y = R!None
  BY TypeFacts
<1>8. Begins(w, u, v, x, y, todo)
  BY <1>1, <1>2, <1>3, <1>4, <1>5, <1>6, <1>7 DEF Begins, Asked
<1> QED
  BY <1>7, <1>8, BeginKeeps

LEMMA PairStep == PairInv /\ [R!RNext]_(R!rvars) => PairInv'
<1> SUFFICES ASSUME PairInv, [R!RNext]_(R!rvars)
             PROVE  PairInv'
  OBVIOUS
<1>1. ASSUME UNCHANGED R!rvars
      PROVE  PairInv'
  <2>1. rel' = rel /\ shown' = shown /\ asks' = asks /\ wants' = wants /\ crossed' = crossed
    BY <1>1 DEF R!rvars
  <2>2. R!TypeOK'
    BY <2>1 DEF PairInv, R!TypeOK
  <2>3. \A u, v : Agreed(u, v)' <=> Agreed(u, v)
    BY <2>1 DEF Agreed
  <2>4. R!Settled' <=> R!Settled
    BY <2>1 DEF R!Settled, R!Busy
  <2>5. ASSUME NEW v \in Ask, asks'[v] # NoAsk
        PROVE  Underway(v)'
    <3>2. PICK p \in Person : \E q \in Person : \E r, t \in R!Type : Makes(v, p, q, r, t)
      BY <2>1, <2>5 DEF PairInv, Underway
    <3>3. PICK q \in Person : \E r, t \in R!Type : Makes(v, p, q, r, t)
      BY <3>2
    <3>4. PICK r \in R!Type, t \in R!Type : Makes(v, p, q, r, t)
      BY <3>3
    <3>5. Progress(asks[v].todo, p, q, r, t) => Progress(asks[v].todo, p, q, r, t)'
      BY <2>1 DEF Progress
    <3>6. Asked(p, q, r)' <=> Asked(p, q, r)
      BY <2>1 DEF Asked
    <3>7. Halfway(v, p, q) => Halfway(v, p, q)'
      BY <2>1, <2>3 DEF Halfway
    <3>8. Makes(v, p, q, r, t)'
      BY <2>1, <3>4, <3>5, <3>6, <3>7 DEF Makes
    <3> QED
      BY <3>8 DEF Underway
  <2> QED
    BY <2>2, <2>3, <2>4, <2>5 DEF PairInv
<1> QED
  BY <1>1, WorkKeeps, BefriendKeeps, BlockKeeps, DeleteKeepsPairs DEF R!RNext

\* The relationships of two users (users.rs, put_relationship and
\* delete_relationship): while requests about them do not overlap, both rows agree,
\* so does what both clients were told, and nobody is a friend who did not ask.
THEOREM PairsAreKept == R!RSpec => []PairsHold
<1>1. R!Init => PairInv
  BY PairInit
<1>2. PairInv /\ [R!RNext]_(R!rvars) => PairInv'
  BY PairStep
<1>3. PairInv => PairsHold
  <2> SUFFICES ASSUME PairInv
               PROVE  R!TypeOK /\ R!RowsAgree /\ R!ClientsAgree /\ R!FriendsAgreed
    BY DEF PairsHold
  <2>1. R!Settled => \A u, v \in Person : Agreed(u, v)
    BY DEF PairInv
  <2>2. R!RowsAgree
    BY <2>1 DEF R!RowsAgree, Agreed
  <2>3. R!ClientsAgree
    <3> SUFFICES ASSUME R!Settled
                 PROVE  shown = rel
      BY DEF R!ClientsAgree
    <3>1. /\ rel \in [Person -> [Person -> R!Type]] /\ shown \in [Person -> [Person -> R!Type]]
          /\ \A u, v \in Person : shown[u][v] = rel[u][v]
      BY <2>1 DEF Agreed, PairInv, R!TypeOK
    <3>2. ASSUME NEW u \in Person
          PROVE  shown[u] = rel[u]
      <4>1. shown[u] \in [Person -> R!Type] /\ rel[u] \in [Person -> R!Type]
        BY <3>1
      <4> QED
        BY <3>1, <4>1
    <3> QED
      BY <3>1, <3>2
  <2>4. R!FriendsAgreed
    BY <2>1 DEF R!FriendsAgreed, Agreed
  <2> QED
    BY <2>2, <2>3, <2>4 DEF PairInv
<1> QED
  BY <1>1, <1>2, <1>3, PTL DEF R!RSpec
-----------------------------------------------------------------------------
(* Members of a space.                                                      *)

\* What a request may still have to run.
Programs == {
  <<"add", "confirm", "joined", "claim", "welcome">>,
  <<"confirm", "joined", "claim", "welcome">>, <<"joined", "claim", "welcome">>,
  <<"claim", "welcome">>, <<"welcome">>,
  <<"remove", "ban", "left">>, <<"ban", "left">>, <<"remove", "left">>, <<"left">>,
  <<"enrol", "own">>, <<"own">>, <<"gone", "drop">>, <<"drop">>}
At(w) == Head(requests[w].todo)
Alive == space.live
Owns(u) == space.owner = u

\* A request that overlaps no other about its user finds what it left behind.
Finds(w, u) ==
  /\ At(w) = "add" => u \notin banned
  /\ At(w) \in {"confirm", "joined", "own"} => u \in enrolled
  /\ At(w) \in {"ban", "left"} => u \notin enrolled
  /\ At(w) = "remove" => ~Owns(u)
\* Clients are still to be told of what a request about u has done.
Untold(u) == \E w \in M!About(u) : At(w) \in {"confirm", "joined", "ban", "left"}
Welcomers(u) == {w \in M!About(u) : At(w) = "welcome"}
\* Who has claimed the introduction of u posts it, and nobody else does.
Introduced(u) ==
  /\ welcomes[u] <= 1
  /\ Alive =>
       /\ u \notin claimed => welcomes[u] = 0
       /\ \A w \in Welcomers(u) : u \in claimed /\ welcomes[u] = 0
       /\ \A v, w \in Welcomers(u) : v = w
Known(u) ==
  /\ \A v, w \in M!About(u) : v = w
  /\ u \in banned => u \notin enrolled
  /\ Alive => /\ Owns(u) => u \in enrolled
              /\ \A w \in M!About(u) : Finds(w, u)
  /\ ~M!Deleted /\ ~Untold(u) => (u \in roster <=> u \in enrolled)
MemberOK(u) == Introduced(u) /\ (u \notin raced => Known(u))
SpaceInv ==
  /\ M!TypeOK /\ M!InviteCounted
  /\ \A w \in Request : requests[w] # NoRequest => requests[w].todo \in Programs
  /\ \A u \in Member : MemberOK(u)

LEMMA ProgramSteps ==
  /\ \A t \in Programs : t # <<>> /\ t \in Seq(M!Step)
  /\ Head(<<"add", "confirm", "joined", "claim", "welcome">>) = "add"
  /\ Tail(<<"add", "confirm", "joined", "claim", "welcome">>)
       = <<"confirm", "joined", "claim", "welcome">>
  /\ Head(<<"confirm", "joined", "claim", "welcome">>) = "confirm"
  /\ Tail(<<"confirm", "joined", "claim", "welcome">>) = <<"joined", "claim", "welcome">>
  /\ Head(<<"joined", "claim", "welcome">>) = "joined"
  /\ Tail(<<"joined", "claim", "welcome">>) = <<"claim", "welcome">>
  /\ Head(<<"claim", "welcome">>) = "claim" /\ Tail(<<"claim", "welcome">>) = <<"welcome">>
  /\ Head(<<"welcome">>) = "welcome" /\ Tail(<<"welcome">>) = <<>>
  /\ Head(<<"remove", "ban", "left">>) = "remove"
  /\ Tail(<<"remove", "ban", "left">>) = <<"ban", "left">>
  /\ Head(<<"ban", "left">>) = "ban" /\ Tail(<<"ban", "left">>) = <<"left">>
  /\ Head(<<"remove", "left">>) = "remove" /\ Tail(<<"remove", "left">>) = <<"left">>
  /\ Head(<<"left">>) = "left" /\ Tail(<<"left">>) = <<>>
  /\ Head(<<"enrol", "own">>) = "enrol" /\ Tail(<<"enrol", "own">>) = <<"own">>
  /\ Head(<<"own">>) = "own" /\ Tail(<<"own">>) = <<>>
  /\ Head(<<"gone", "drop">>) = "gone" /\ Tail(<<"gone", "drop">>) = <<"drop">>
  /\ Head(<<"drop">>) = "drop" /\ Tail(<<"drop">>) = <<>>
BY DEF Programs, M!Step

\* What follows a step of a request; the last ones end it.
Follows(t) ==
  /\ Len(t) = 1 <=> Head(t) \in {"welcome", "left", "own", "drop"}
  /\ Head(t) \notin {"welcome", "left", "own", "drop"} => Tail(t) \in Programs
  /\ Head(t) = "add" => Head(Tail(t)) = "confirm"
  /\ Head(t) = "confirm" => Head(Tail(t)) = "joined"
  /\ Head(t) = "joined" => Head(Tail(t)) = "claim"
  /\ Head(t) = "claim" => Head(Tail(t)) = "welcome"
  /\ Head(t) = "remove" => Head(Tail(t)) \in {"ban", "left"}
  /\ Head(t) = "ban" => Head(Tail(t)) = "left"
  /\ Head(t) = "enrol" => Head(Tail(t)) = "own"
  /\ Head(t) = "gone" => Head(Tail(t)) = "drop"
LEMMA ProgramFollows == \A t \in Programs : Follows(t)
<1> SUFFICES ASSUME NEW t \in Programs
             PROVE  Follows(t)
  OBVIOUS
<1>1. CASE t = <<"add", "confirm", "joined", "claim", "welcome">>
  <2>1. Len(t) = 5
    BY <1>1
  <2> QED
    BY <1>1, <2>1, ProgramSteps DEF Follows, Programs
<1>2. CASE t = <<"confirm", "joined", "claim", "welcome">>
  <2>1. Len(t) = 4
    BY <1>2
  <2> QED
    BY <1>2, <2>1, ProgramSteps DEF Follows, Programs
<1>3. CASE t = <<"joined", "claim", "welcome">>
  <2>1. Len(t) = 3
    BY <1>3
  <2> QED
    BY <1>3, <2>1, ProgramSteps DEF Follows, Programs
<1>4. CASE t = <<"claim", "welcome">>
  <2>1. Len(t) = 2
    BY <1>4
  <2> QED
    BY <1>4, <2>1, ProgramSteps DEF Follows, Programs
<1>5. CASE t = <<"welcome">>
  <2>1. Len(t) = 1
    BY <1>5
  <2> QED
    BY <1>5, <2>1, ProgramSteps DEF Follows, Programs
<1>6. CASE t = <<"remove", "ban", "left">>
  <2>1. Len(t) = 3
    BY <1>6
  <2> QED
    BY <1>6, <2>1, ProgramSteps DEF Follows, Programs
<1>7. CASE t = <<"ban", "left">>
  <2>1. Len(t) = 2
    BY <1>7
  <2> QED
    BY <1>7, <2>1, ProgramSteps DEF Follows, Programs
<1>8. CASE t = <<"remove", "left">>
  <2>1. Len(t) = 2
    BY <1>8
  <2> QED
    BY <1>8, <2>1, ProgramSteps DEF Follows, Programs
<1>9. CASE t = <<"left">>
  <2>1. Len(t) = 1
    BY <1>9
  <2> QED
    BY <1>9, <2>1, ProgramSteps DEF Follows, Programs
<1>10. CASE t = <<"enrol", "own">>
  <2>1. Len(t) = 2
    BY <1>10
  <2> QED
    BY <1>10, <2>1, ProgramSteps DEF Follows, Programs
<1>11. CASE t = <<"own">>
  <2>1. Len(t) = 1
    BY <1>11
  <2> QED
    BY <1>11, <2>1, ProgramSteps DEF Follows, Programs
<1>12. CASE t = <<"gone", "drop">>
  <2>1. Len(t) = 2
    BY <1>12
  <2> QED
    BY <1>12, <2>1, ProgramSteps DEF Follows, Programs
<1>13. CASE t = <<"drop">>
  <2>1. Len(t) = 1
    BY <1>13
  <2> QED
    BY <1>13, <2>1, ProgramSteps DEF Follows, Programs
<1> QED
  BY <1>1, <1>2, <1>3, <1>4, <1>5, <1>6, <1>7, <1>8, <1>9, <1>10, <1>11, <1>12, <1>13 DEF Programs

LEMMA SpaceInit == M!Init => SpaceInv
<1> SUFFICES ASSUME M!Init
             PROVE  SpaceInv
  OBVIOUS
<1>1. M!TypeOK
  BY MembershipsAssumption DEF M!Init, M!TypeOK
<1>2. M!InviteCounted
  BY MembershipsAssumption DEF M!Init, M!InviteCounted
<1>3. ASSUME NEW u \in Member
      PROVE  MemberOK(u)
  <2>1. M!About(u) = {} /\ Welcomers(u) = {} /\ ~Untold(u)
    BY DEF M!Init, M!About, Welcomers, Untold
  <2>2. /\ u \in roster <=> u \in enrolled
        /\ u \notin banned /\ welcomes[u] = 0 /\ (Owns(u) => u \in enrolled)
    BY DEF M!Init, Owns
  <2>3. Introduced(u) /\ Known(u)
    BY <2>1, <2>2 DEF Introduced, Known
  <2> QED
    BY <2>3 DEF MemberOK
<1> QED
  BY <1>1, <1>2, <1>3 DEF SpaceInv, M!Init

\* Request w, which is about u, moves on: the others do not.
Moved(w, u) ==
  /\ \A v \in Request \ {w} : requests'[v] = requests[v]
  /\ requests[w] # NoRequest => requests[w].user = u
  /\ requests'[w] # NoRequest => requests'[w].user = u

LEMMA AboutMoves ==
  ASSUME NEW w \in Request, NEW u \in Member, Moved(w, u)
  PROVE  /\ M!About(u)' = (M!About(u) \ {w}) \cup (IF requests'[w] = NoRequest THEN {} ELSE {w})
         /\ Welcomers(u)' = (Welcomers(u) \ {w}) \cup
              (IF requests'[w] # NoRequest /\ Head(requests'[w].todo) = "welcome" THEN {w} ELSE {})
         /\ \A x \in Member \ {u} :
              /\ M!About(x)' = M!About(x) /\ w \notin M!About(x)
              /\ \A v \in M!About(x) : requests'[v] = requests[v]
<1>1. \A v \in Request \ {w} : requests'[v] = requests[v]
  BY DEF Moved
<1>2. M!About(u)' = (M!About(u) \ {w}) \cup (IF requests'[w] = NoRequest THEN {} ELSE {w})
  BY <1>1 DEF M!About, Moved
<1>3. Welcomers(u)' = (Welcomers(u) \ {w}) \cup
        (IF requests'[w] # NoRequest /\ Head(requests'[w].todo) = "welcome" THEN {w} ELSE {})
  <2>1. \A v \in Request \ {w} : (At(v))' = At(v)
    BY <1>1 DEF At
  <2>2. (At(w))' = Head(requests'[w].todo)
    BY DEF At
  <2>3. M!About(u) \subseteq Request
    BY DEF M!About
  <2> QED
    BY <1>2, <2>1, <2>2, <2>3 DEF Welcomers
<1>4. ASSUME NEW x \in Member \ {u}
      PROVE  /\ M!About(x)' = M!About(x) /\ w \notin M!About(x)
             /\ \A v \in M!About(x) : requests'[v] = requests[v]
  BY <1>1 DEF M!About, Moved
<1> QED
  BY <1>2, <1>3, <1>4

LEMMA OthersStay ==
  ASSUME NEW x \in Member, MemberOK(x), M!About(x)' = M!About(x),
         \A v \in M!About(x) : requests'[v] = requests[v],
         x \in enrolled' <=> x \in enrolled, x \in banned' => x \in banned,
         x \in claimed' <=> x \in claimed, welcomes'[x] = welcomes[x],
         x \in raced => x \in raced', Alive' => Alive, M!Deleted => M!Deleted',
         Alive' /\ Owns(x)' => Owns(x), M!Deleted' \/ (x \in roster' <=> x \in roster)
  PROVE  MemberOK(x)'
<1>1. \A v \in M!About(x) : (At(v))' = At(v)
  BY DEF At
<1>2. Welcomers(x)' = Welcomers(x) /\ (Untold(x)' <=> Untold(x))
  BY <1>1 DEF Welcomers, Untold
<1>3. Introduced(x)'
  BY <1>2 DEF MemberOK, Introduced
<1>4. ASSUME x \notin raced', Known(x)
      PROVE  Known(x)'
  <2>1. Alive' => \A w \in M!About(x) : Finds(w, x)'
    BY <1>1, <1>4 DEF Known, Finds
  <2> QED
    BY <1>2, <1>4, <2>1 DEF Known
<1> QED
  BY <1>3, <1>4 DEF MemberOK

LEMMA DeletedStays ==
  ASSUME NEW w \in Request, NEW u \in Member, Moved(w, u), Alive' => Alive,
         requests[w] # NoRequest /\ At(w) \in {"gone", "drop"} => M!Deleted'
  PROVE  M!Deleted => M!Deleted'
<1> SUFFICES ASSUME M!Deleted, ~M!Deleted'
             PROVE  FALSE
  OBVIOUS
<1>1. ~Alive => M!Deleted'
  BY DEF M!Deleted, Alive
<1>2. PICK v \in Request : M!Runs(v, "gone") \/ M!Runs(v, "drop")
  BY <1>1 DEF M!Deleted, Alive
<1>3. v # w
  BY <1>2 DEF M!Runs, At
<1>4. requests'[v] = requests[v]
  BY <1>3 DEF Moved
<1>5. M!Runs(v, "gone")' \/ M!Runs(v, "drop")'
  BY <1>2, <1>4 DEF M!Runs
<1> QED
  BY <1>5 DEF M!Deleted

LEMMA MoveKeeps ==
  ASSUME SpaceInv, NEW w \in Request, NEW u \in Member, Moved(w, u),
         M!TypeOK', M!InviteCounted', requests'[w] # NoRequest => requests'[w].todo \in Programs,
         MemberOK(u)', Alive' => Alive, M!Deleted => M!Deleted',
         \A x \in Member \ {u} :
           /\ x \in enrolled' <=> x \in enrolled
           /\ x \in banned' => x \in banned
           /\ x \in claimed' <=> x \in claimed
           /\ welcomes'[x] = welcomes[x]
           /\ x \in raced => x \in raced'
           /\ Owns(x)' => Owns(x)
           /\ M!Deleted' \/ (x \in roster' <=> x \in roster)
  PROVE  SpaceInv'
<1>1. ASSUME NEW x \in Member \ {u}
      PROVE  MemberOK(x)'
  <2>1. /\ M!About(x)' = M!About(x)
        /\ \A v \in M!About(x) : requests'[v] = requests[v]
    BY AboutMoves
  <2>2. MemberOK(x)
    BY DEF SpaceInv
  <2> QED
    BY <2>1, <2>2, OthersStay
<1>2. \A v \in Request : requests'[v] # NoRequest => requests'[v].todo \in Programs
  BY DEF SpaceInv, Moved
<1> QED
  BY <1>1, <1>2 DEF SpaceInv

\* The introduction of u is not touched.
LEMMA IntroducedStays ==
  ASSUME NEW u, Introduced(u), Welcomers(u)' \subseteq Welcomers(u),
         u \in claimed' <=> u \in claimed, welcomes'[u] = welcomes[u], Alive' => Alive
  PROVE  Introduced(u)'
BY DEF Introduced

LEMMA AdvanceMoves ==
  ASSUME M!TypeOK, NEW w \in Request, requests[w] # NoRequest, requests[w].todo \in Programs,
         M!Advance(w), NEW u, requests[w].user = u
  PROVE  /\ Moved(w, u)
         /\ requests' \in [Request -> [todo: Seq(M!Step), user: Member] \cup {NoRequest}]
         /\ \A v \in Request : requests'[v] # NoRequest => requests'[v].todo # <<>>
         /\ At(w) \in {"welcome", "left", "own", "drop"} => requests'[w] = NoRequest
         /\ At(w) \notin {"welcome", "left", "own", "drop"} =>
              /\ requests'[w] # NoRequest /\ requests'[w].todo = Tail(requests[w].todo)
              /\ requests'[w].todo \in Programs
<1>1. PICK t \in Programs : t = requests[w].todo
  OBVIOUS
<1>2. Follows(t) /\ u \in Member
  BY ProgramFollows DEF M!TypeOK
<1>3. PICK s : s = [todo |-> Tail(t), user |-> u]
  OBVIOUS
<1>4. requests' = [requests EXCEPT ![w] = IF Len(t) = 1 THEN NoRequest ELSE s]
  BY <1>1, <1>3 DEF M!Advance, M!TypeOK
<1>5. CASE Len(t) = 1
  <2>1. requests' = [requests EXCEPT ![w] = NoRequest] /\ At(w) \in {"welcome", "left", "own", "drop"}
    BY <1>1, <1>2, <1>4, <1>5 DEF Follows, At
  <2> QED
    BY <2>1 DEF M!TypeOK, Moved
<1>6. CASE Len(t) # 1
  <2>1. Tail(t) \in Programs /\ At(w) \notin {"welcome", "left", "own", "drop"}
    BY <1>1, <1>2, <1>6 DEF Follows, At
  <2>2. Tail(t) # <<>> /\ Tail(t) \in Seq(M!Step)
    BY <2>1, ProgramSteps
  <2>3. s \in [todo: Seq(M!Step), user: Member] /\ s.todo = Tail(t) /\ s.user = u
    BY <1>2, <1>3, <2>2
  <2>4. s # NoRequest
    BY <2>3, MembershipsAssumption
  <2>5. requests' = [requests EXCEPT ![w] = s]
    BY <1>4, <1>6
  <2>6. requests'[w] = s /\ \A v \in Request \ {w} : requests'[v] = requests[v]
    BY <2>5 DEF M!TypeOK
  <2>7. requests' \in [Request -> [todo: Seq(M!Step), user: Member] \cup {NoRequest}]
    BY <2>3, <2>5 DEF M!TypeOK
  <2>8. \A v \in Request : requests'[v] # NoRequest => requests'[v].todo # <<>>
    BY <2>2, <2>3, <2>6 DEF M!TypeOK
  <2> QED
    BY <1>1, <2>1, <2>3, <2>4, <2>6, <2>7, <2>8 DEF Moved
<1> QED
  BY <1>5, <1>6

LEMMA FinishMoves ==
  ASSUME M!TypeOK, NEW w \in Request, requests[w] # NoRequest, M!Finish(w),
         NEW u, requests[w].user = u
  PROVE  /\ Moved(w, u) /\ requests'[w] = NoRequest
         /\ requests' \in [Request -> [todo: Seq(M!Step), user: Member] \cup {NoRequest}]
         /\ \A v \in Request : requests'[v] # NoRequest => requests'[v].todo # <<>>
BY DEF M!Finish, M!TypeOK, Moved

LEMMA Announcements ==
  /\ M!Announcing = <<"confirm", "joined", "claim", "welcome">>
  /\ <<"add">> \o M!Announcing = <<"add", "confirm", "joined", "claim", "welcome">>
<1>0. /\ <<"confirm", "joined">> \in Seq(M!Step) /\ <<"claim", "welcome">> \in Seq(M!Step)
      /\ <<"confirm", "joined", "claim", "welcome">> \in Seq(M!Step)
      /\ <<"add", "confirm", "joined", "claim", "welcome">> \in Seq(M!Step)
      /\ <<"add">> \in Seq(M!Step)
  BY DEF M!Step
<1>1. PICK s \in Seq(M!Step) : s = <<"confirm", "joined">>
  BY <1>0
<1>2. PICK t \in Seq(M!Step) : t = <<"claim", "welcome">>
  BY <1>0
<1>3. PICK a \in Seq(M!Step) : a = <<"confirm", "joined", "claim", "welcome">>
  BY <1>0
<1>4. PICK b \in Seq(M!Step) : b = <<"add", "confirm", "joined", "claim", "welcome">>
  BY <1>0
<1>5. PICK f \in Seq(M!Step) : f = <<"add">>
  BY <1>0
<1>6. s \o t = a
  <2>1. /\ s \o t \in Seq(M!Step) /\ Len(s \o t) = Len(s) + Len(t)
        /\ \A i \in 1..Len(s) + Len(t) :
             (s \o t)[i] = IF i <= Len(s) THEN s[i] ELSE t[i - Len(s)]
    BY <1>1, <1>2, ConcatProperties
  <2>2. /\ Len(s) = 2 /\ Len(t) = 2 /\ Len(a) = 4
        /\ s[1] = a[1] /\ s[2] = a[2] /\ t[1] = a[3] /\ t[2] = a[4]
    BY <1>1, <1>2, <1>3
  <2>3. \A i \in 1..Len(s \o t) : (s \o t)[i] = a[i]
    <3>1. ASSUME NEW i \in 1..4
          PROVE  (s \o t)[i] = a[i]
      <4>1. i = 1 \/ i = 2 \/ i = 3 \/ i = 4
        OBVIOUS
      <4> QED
        BY <2>1, <2>2, <4>1
    <3> QED
      BY <2>1, <2>2, <3>1
  <2>4. Len(s \o t) = Len(a)
    BY <2>1, <2>2
  <2> QED
    BY <2>1, <2>3, <2>4, SeqEqual
<1>7. f \o a = b
  <2>1. /\ f \o a \in Seq(M!Step) /\ Len(f \o a) = Len(f) + Len(a)
        /\ \A i \in 1..Len(f) + Len(a) :
             (f \o a)[i] = IF i <= Len(f) THEN f[i] ELSE a[i - Len(f)]
    BY <1>3, <1>5, ConcatProperties
  <2>2. /\ Len(f) = 1 /\ Len(a) = 4 /\ Len(b) = 5
        /\ f[1] = b[1] /\ a[1] = b[2] /\ a[2] = b[3] /\ a[3] = b[4] /\ a[4] = b[5]
    BY <1>3, <1>4, <1>5
  <2>3. \A i \in 1..Len(f \o a) : (f \o a)[i] = b[i]
    <3>1. ASSUME NEW i \in 1..5
          PROVE  (f \o a)[i] = b[i]
      <4>1. i = 1 \/ i = 2 \/ i = 3 \/ i = 4 \/ i = 5
        OBVIOUS
      <4> QED
        BY <2>1, <2>2, <4>1
    <3> QED
      BY <2>1, <2>2, <3>1
  <2>4. Len(f \o a) = Len(b)
    BY <2>1, <2>2
  <2> QED
    BY <2>1, <2>3, <2>4, SeqEqual
<1>8. M!Announcing = a
  BY <1>1, <1>2, <1>6 DEF M!Announcing, M!Welcoming
<1> QED
  BY <1>3, <1>4, <1>5, <1>7, <1>8

\* What is known of the request that moves and of its user.
LEMMA RequestFacts ==
  ASSUME SpaceInv, NEW w \in Request, requests[w] # NoRequest,
         NEW u \in Member, u = requests[w].user
  PROVE  /\ M!TypeOK /\ M!InviteCounted /\ requests[w].todo \in Programs
         /\ Follows(requests[w].todo) /\ w \in M!About(u) /\ Introduced(u)
         /\ u \notin raced =>
              /\ Known(u) /\ M!About(u) = {w} /\ (Alive => Finds(w, u))
              /\ At(w) \notin {"confirm", "joined", "ban", "left"} => ~Untold(u)
<1>1. requests[w].todo \in Programs /\ MemberOK(u) /\ w \in M!About(u)
  BY DEF SpaceInv, M!About
<1>2. Follows(requests[w].todo)
  BY <1>1, ProgramFollows
<1>3. ASSUME u \notin raced
      PROVE  /\ Known(u) /\ M!About(u) = {w} /\ (Alive => Finds(w, u))
             /\ At(w) \notin {"confirm", "joined", "ban", "left"} => ~Untold(u)
  BY <1>1, <1>3 DEF MemberOK, Known, Untold
<1> QED
  BY <1>1, <1>2, <1>3 DEF SpaceInv, MemberOK

LEMMA SoleMove ==
  ASSUME NEW w \in Request, NEW u \in Member, Moved(w, u), M!About(u) \subseteq {w}
  PROVE  /\ requests'[w] = NoRequest => M!About(u)' = {} /\ ~Untold(u)'
         /\ requests'[w] # NoRequest =>
              /\ M!About(u)' = {w}
              /\ Untold(u)' <=> Head(requests'[w].todo) \in {"confirm", "joined", "ban", "left"}
         /\ (At(w))' = Head(requests'[w].todo)
<1>1. M!About(u)' = IF requests'[w] = NoRequest THEN {} ELSE {w}
  BY AboutMoves
<1>2. (At(w))' = Head(requests'[w].todo)
  BY DEF At
<1> QED
  BY <1>1, <1>2 DEF Untold

\* A step of request w, which leaves the row of the space alone.
Quiet(w, u) ==
  /\ requests[w] # NoRequest /\ Moved(w, u)
  /\ space' = space /\ invite' = invite /\ entered' = entered
  /\ At(w) \notin {"gone", "drop"}
  /\ requests'[w] # NoRequest => requests'[w].todo \in Programs
  /\ \A x \in Member \ {u} :
       /\ x \in enrolled' <=> x \in enrolled
       /\ x \in banned' => x \in banned
       /\ x \in claimed' <=> x \in claimed
       /\ welcomes'[x] = welcomes[x]
       /\ x \in raced => x \in raced'
       /\ x \in roster' <=> x \in roster
LEMMA QuietKeeps ==
  ASSUME SpaceInv, NEW w \in Request, NEW u \in Member, Quiet(w, u), M!TypeOK', MemberOK(u)'
  PROVE  SpaceInv'
<1>1. (Alive' <=> Alive) /\ \A x : Owns(x)' <=> Owns(x)
  BY DEF Quiet, Alive, Owns
<1>2. M!InviteCounted'
  BY DEF Quiet, SpaceInv, M!InviteCounted
<1>3. M!Deleted => M!Deleted'
  BY <1>1, DeletedStays DEF Quiet
<1> QED
  BY <1>1, <1>2, <1>3, MoveKeeps DEF Quiet

\* A request ends and nothing else changes: clients need be told nothing more.
LEMMA EndKeeps ==
  ASSUME SpaceInv, NEW w \in Request, NEW u \in Member, u = requests[w].user,
         requests[w] # NoRequest, Moved(w, u), requests'[w] = NoRequest,
         requests' \in [Request -> [todo: Seq(M!Step), user: Member] \cup {NoRequest}],
         \A v \in Request : requests'[v] # NoRequest => requests'[v].todo # <<>>,
         space' = space, invite' = invite, entered' = entered, enrolled' = enrolled,
         banned' = banned, roster' = roster, claimed' = claimed, welcomes' = welcomes,
         u \in raced' <=> u \in raced, raced \subseteq raced', raced' \subseteq Member,
         At(w) \notin {"gone", "drop"},
         At(w) \notin {"confirm", "joined", "ban", "left"} \/ u \in raced \/ ~Alive
  PROVE  SpaceInv'
<1>1. requests[w] # NoRequest /\ requests[w].user = u
  OBVIOUS
<1>2. /\ M!TypeOK /\ M!InviteCounted /\ requests[w].todo \in Programs
      /\ Follows(requests[w].todo) /\ w \in M!About(u) /\ Introduced(u)
      /\ u \notin raced =>
           /\ Known(u) /\ M!About(u) = {w} /\ (Alive => Finds(w, u))
           /\ At(w) \notin {"confirm", "joined", "ban", "left"} => ~Untold(u)
  BY <1>1, RequestFacts
<1>3. M!TypeOK'
  BY <1>2 DEF M!TypeOK
<1>4. Introduced(u)'
  <2>1. Welcomers(u)' \subseteq Welcomers(u)
    BY AboutMoves
  <2> QED
    BY <1>2, <2>1, IntroducedStays DEF Alive
<1>5. ASSUME u \notin raced
      PROVE  Known(u)'
  <2>1. M!About(u)' = {}
    BY <1>2, <1>5, SoleMove
  <2>2. (Alive' <=> Alive) /\ (Owns(u)' <=> Owns(u)) /\ (~Alive => M!Deleted')
    BY DEF Alive, Owns, M!Deleted
  <2>3. M!Deleted => M!Deleted'
    BY <2>2, DeletedStays
  <2> QED
    BY <1>2, <1>5, <2>1, <2>2, <2>3 DEF Known
<1>6. Quiet(w, u)
  BY DEF Quiet
<1> QED
  BY <1>3, <1>4, <1>5, <1>6, QuietKeeps DEF MemberOK

LEMMA AddKeepsSpace ==
  ASSUME SpaceInv, NEW w \in Request, NEW u \in Member, u = requests[w].user, M!AddMember(w)
  PROVE  SpaceInv'
<1>1. /\ requests[w] # NoRequest /\ At(w) = "add" /\ requests[w].user = u
      /\ space' = space /\ invite' = invite /\ entered' = entered
      /\ banned' = banned /\ roster' = roster /\ claimed' = claimed /\ welcomes' = welcomes /\ raced' = raced
  BY DEF M!AddMember, M!Runs, At, M!NoSpaceChange
<1>2. /\ M!TypeOK /\ M!InviteCounted /\ requests[w].todo \in Programs
      /\ Follows(requests[w].todo) /\ w \in M!About(u) /\ Introduced(u)
      /\ u \notin raced =>
           /\ Known(u) /\ M!About(u) = {w} /\ (Alive => Finds(w, u))
           /\ At(w) \notin {"confirm", "joined", "ban", "left"} => ~Untold(u)
  BY <1>1, RequestFacts
<1>3. M!Advance(w) =>
        /\ Moved(w, u)
        /\ requests' \in [Request -> [todo: Seq(M!Step), user: Member] \cup {NoRequest}]
        /\ \A v \in Request : requests'[v] # NoRequest => requests'[v].todo # <<>>
        /\ At(w) \in {"welcome", "left", "own", "drop"} => requests'[w] = NoRequest
        /\ At(w) \notin {"welcome", "left", "own", "drop"} =>
             /\ requests'[w] # NoRequest /\ requests'[w].todo = Tail(requests[w].todo)
             /\ requests'[w].todo \in Programs
  BY <1>1, <1>2, AdvanceMoves
<1>4. M!Finish(w) =>
        /\ Moved(w, u) /\ requests'[w] = NoRequest
        /\ requests' \in [Request -> [todo: Seq(M!Step), user: Member] \cup {NoRequest}]
        /\ \A v \in Request : requests'[v] # NoRequest => requests'[v].todo # <<>>
  BY <1>1, <1>2, FinishMoves
<1>5. CASE space.live /\ u \notin enrolled
  <2>1. enrolled' = enrolled \cup {u} /\ M!Advance(w)
    BY <1>5 DEF M!AddMember
  <2>2. /\ Moved(w, u) /\ requests'[w] # NoRequest /\ requests'[w].todo \in Programs
        /\ Head(requests'[w].todo) = "confirm"
    BY <1>1, <1>2, <1>3, <2>1 DEF Follows, At
  <2>3. M!TypeOK'
    BY <1>1, <1>2, <1>3, <1>5, <2>1 DEF M!TypeOK
  <2>4. Introduced(u)'
    <3>1. Welcomers(u)' \subseteq Welcomers(u)
      BY <2>2, AboutMoves
    <3> QED
      BY <1>1, <1>2, <3>1, IntroducedStays DEF Alive
  <2>5. ASSUME u \notin raced
        PROVE  Known(u)'
    <3>1. M!About(u)' = {w} /\ Untold(u)' /\ (At(w))' = "confirm"
      BY <1>2, <2>2, <2>5, SoleMove
    <3>2. u \notin banned
      BY <1>1, <1>2, <1>5, <2>5 DEF Finds, Alive
    <3> QED
      BY <1>1, <2>1, <3>1, <3>2 DEF Known, Finds
  <2>6. Quiet(w, u)
    BY <1>1, <2>1, <2>2 DEF Quiet
  <2> QED
    BY <1>1, <2>3, <2>4, <2>5, <2>6, QuietKeeps DEF MemberOK
<1>6. CASE ~(space.live /\ u \notin enrolled)
  <2>1. enrolled' = enrolled /\ M!Finish(w)
    BY <1>6 DEF M!AddMember
  <2>2. raced' \subseteq Member
    BY <1>1, <1>2 DEF M!TypeOK
  <2>3. At(w) \notin {"gone", "drop", "confirm", "joined", "ban", "left"}
    BY <1>1
  <2> QED
    BY <1>1, <1>4, <2>1, <2>2, <2>3, EndKeeps
<1> QED
  BY <1>5, <1>6

LEMMA ConfirmKeeps ==
  ASSUME SpaceInv, NEW w \in Request, NEW u \in Member, u = requests[w].user, M!ConfirmMember(w)
  PROVE  SpaceInv'
<1>1. /\ requests[w] # NoRequest /\ At(w) = "confirm" /\ requests[w].user = u
      /\ space' = space /\ invite' = invite /\ entered' = entered
      /\ enrolled' = enrolled /\ banned' = banned /\ roster' = roster /\ claimed' = claimed /\ welcomes' = welcomes /\ raced' = raced
  BY DEF M!ConfirmMember, M!Runs, At, M!NoSpaceChange
<1>2. /\ M!TypeOK /\ M!InviteCounted /\ requests[w].todo \in Programs
      /\ Follows(requests[w].todo) /\ w \in M!About(u) /\ Introduced(u)
      /\ u \notin raced =>
           /\ Known(u) /\ M!About(u) = {w} /\ (Alive => Finds(w, u))
           /\ At(w) \notin {"confirm", "joined", "ban", "left"} => ~Untold(u)
  BY <1>1, RequestFacts
<1>3. M!Advance(w) =>
        /\ Moved(w, u)
        /\ requests' \in [Request -> [todo: Seq(M!Step), user: Member] \cup {NoRequest}]
        /\ \A v \in Request : requests'[v] # NoRequest => requests'[v].todo # <<>>
        /\ At(w) \in {"welcome", "left", "own", "drop"} => requests'[w] = NoRequest
        /\ At(w) \notin {"welcome", "left", "own", "drop"} =>
             /\ requests'[w] # NoRequest /\ requests'[w].todo = Tail(requests[w].todo)
             /\ requests'[w].todo \in Programs
  BY <1>1, <1>2, AdvanceMoves
<1>4. M!Finish(w) =>
        /\ Moved(w, u) /\ requests'[w] = NoRequest
        /\ requests' \in [Request -> [todo: Seq(M!Step), user: Member] \cup {NoRequest}]
        /\ \A v \in Request : requests'[v] # NoRequest => requests'[v].todo # <<>>
  BY <1>1, <1>2, FinishMoves
<1>5. CASE u \in enrolled
  <2>1. M!Advance(w)
    BY <1>1, <1>5 DEF M!ConfirmMember
  <2>2. /\ Moved(w, u) /\ requests'[w] # NoRequest /\ requests'[w].todo \in Programs
        /\ Head(requests'[w].todo) = "joined"
    BY <1>1, <1>2, <1>3, <2>1 DEF Follows, At
  <2>3. M!TypeOK'
    BY <1>1, <1>2, <1>3, <2>1 DEF M!TypeOK
  <2>4. Introduced(u)'
    <3>1. Welcomers(u)' \subseteq Welcomers(u)
      BY <2>2, AboutMoves
    <3> QED
      BY <1>1, <1>2, <2>1, <3>1, IntroducedStays DEF Alive
  <2>5. ASSUME u \notin raced
        PROVE  Known(u)'
    <3>1. M!About(u)' = {w} /\ Untold(u)' /\ (At(w))' = "joined"
      BY <1>2, <2>2, <2>5, SoleMove
    <3> QED
      BY <1>1, <1>2, <1>5, <2>5, <3>1 DEF Known, Finds, Alive
  <2>6. Quiet(w, u)
    BY <1>1, <2>1, <2>2 DEF Quiet
  <2> QED
    BY <1>1, <2>3, <2>4, <2>5, <2>6, QuietKeeps DEF MemberOK
<1>6. CASE u \notin enrolled
  <2>1. M!Finish(w)
    BY <1>1, <1>6 DEF M!ConfirmMember
  <2>2. raced' \subseteq Member
    BY <1>1, <1>2 DEF M!TypeOK
  <2>3. At(w) \notin {"gone", "drop"} /\ (u \in raced \/ ~Alive)
    BY <1>1, <1>2, <1>6 DEF Finds
  <2> QED
    BY <1>1, <1>4, <2>1, <2>2, <2>3, EndKeeps
<1> QED
  BY <1>5, <1>6

LEMMA JoinedKeeps ==
  ASSUME SpaceInv, NEW w \in Request, NEW u \in Member, u = requests[w].user, M!AnnounceJoin(w)
  PROVE  SpaceInv'
<1>1. /\ requests[w] # NoRequest /\ At(w) = "joined" /\ requests[w].user = u
      /\ space' = space /\ invite' = invite /\ entered' = entered
      /\ enrolled' = enrolled /\ banned' = banned /\ claimed' = claimed /\ welcomes' = welcomes /\ raced' = raced
      /\ roster' = roster \cup {requests[w].user}
  BY DEF M!AnnounceJoin, M!Runs, At, M!NoSpaceChange
<1>2. /\ M!TypeOK /\ M!InviteCounted /\ requests[w].todo \in Programs
      /\ Follows(requests[w].todo) /\ w \in M!About(u) /\ Introduced(u)
      /\ u \notin raced =>
           /\ Known(u) /\ M!About(u) = {w} /\ (Alive => Finds(w, u))
           /\ At(w) \notin {"confirm", "joined", "ban", "left"} => ~Untold(u)
  BY <1>1, RequestFacts
<1>3. M!Advance(w) =>
        /\ Moved(w, u)
        /\ requests' \in [Request -> [todo: Seq(M!Step), user: Member] \cup {NoRequest}]
        /\ \A v \in Request : requests'[v] # NoRequest => requests'[v].todo # <<>>
        /\ At(w) \in {"welcome", "left", "own", "drop"} => requests'[w] = NoRequest
        /\ At(w) \notin {"welcome", "left", "own", "drop"} =>
             /\ requests'[w] # NoRequest /\ requests'[w].todo = Tail(requests[w].todo)
             /\ requests'[w].todo \in Programs
  BY <1>1, <1>2, AdvanceMoves
<1>4. M!Finish(w) =>
        /\ Moved(w, u) /\ requests'[w] = NoRequest
        /\ requests' \in [Request -> [todo: Seq(M!Step), user: Member] \cup {NoRequest}]
        /\ \A v \in Request : requests'[v] # NoRequest => requests'[v].todo # <<>>
  BY <1>1, <1>2, FinishMoves
<1>5. M!Advance(w) \/ (M!Finish(w) /\ ~(space.live /\ space.system))
  BY DEF M!AnnounceJoin
<1>6. /\ Moved(w, u)
      /\ requests' \in [Request -> [todo: Seq(M!Step), user: Member] \cup {NoRequest}]
      /\ \A v \in Request : requests'[v] # NoRequest => requests'[v].todo # <<>>
      /\ requests'[w] # NoRequest =>
           requests'[w].todo \in Programs /\ Head(requests'[w].todo) = "claim"
  BY <1>1, <1>2, <1>3, <1>4, <1>5 DEF Follows, At
<1>7. M!TypeOK'
  BY <1>1, <1>2, <1>6 DEF M!TypeOK
<1>8. Introduced(u)'
  <2>1. Welcomers(u)' \subseteq Welcomers(u)
    BY <1>6, AboutMoves
  <2> QED
    BY <1>1, <1>2, <2>1, IntroducedStays DEF Alive
<1>9. ASSUME u \notin raced
      PROVE  Known(u)'
  <2>1. /\ M!About(u)' \subseteq {w}
        /\ requests'[w] # NoRequest => (At(w))' = "claim"
        /\ M!About(u)' # {} => requests'[w] # NoRequest
    BY <1>2, <1>6, <1>9, SoleMove
  <2>2. /\ (Alive' <=> Alive) /\ (Owns(u)' <=> Owns(u)) /\ (~Alive => M!Deleted')
        /\ Alive => u \in enrolled
    BY <1>1, <1>2, <1>9 DEF Alive, Owns, M!Deleted, Finds
  <2>3. ~M!Deleted' => (u \in roster' <=> u \in enrolled)
    BY <1>1, <2>2
  <2> QED
    BY <1>1, <1>2, <1>9, <2>1, <2>2, <2>3 DEF Known, Finds
<1>10. Quiet(w, u)
  BY <1>1, <1>6 DEF Quiet
<1> QED
  BY <1>1, <1>7, <1>8, <1>9, <1>10, QuietKeeps DEF MemberOK

LEMMA ClaimKeeps ==
  ASSUME SpaceInv, NEW w \in Request, NEW u \in Member, u = requests[w].user, M!ClaimIntroduction(w)
  PROVE  SpaceInv'
<1>1. /\ requests[w] # NoRequest /\ At(w) = "claim" /\ requests[w].user = u
      /\ space' = space /\ invite' = invite /\ entered' = entered
      /\ enrolled' = enrolled /\ banned' = banned /\ roster' = roster /\ welcomes' = welcomes /\ raced' = raced
  BY DEF M!ClaimIntroduction, M!Runs, At, M!NoSpaceChange
<1>2. /\ M!TypeOK /\ M!InviteCounted /\ requests[w].todo \in Programs
      /\ Follows(requests[w].todo) /\ w \in M!About(u) /\ Introduced(u)
      /\ u \notin raced =>
           /\ Known(u) /\ M!About(u) = {w} /\ (Alive => Finds(w, u))
           /\ At(w) \notin {"confirm", "joined", "ban", "left"} => ~Untold(u)
  BY <1>1, RequestFacts
<1>3. M!Advance(w) =>
        /\ Moved(w, u)
        /\ requests' \in [Request -> [todo: Seq(M!Step), user: Member] \cup {NoRequest}]
        /\ \A v \in Request : requests'[v] # NoRequest => requests'[v].todo # <<>>
        /\ At(w) \in {"welcome", "left", "own", "drop"} => requests'[w] = NoRequest
        /\ At(w) \notin {"welcome", "left", "own", "drop"} =>
             /\ requests'[w] # NoRequest /\ requests'[w].todo = Tail(requests[w].todo)
             /\ requests'[w].todo \in Programs
  BY <1>1, <1>2, AdvanceMoves
<1>4. M!Finish(w) =>
        /\ Moved(w, u) /\ requests'[w] = NoRequest
        /\ requests' \in [Request -> [todo: Seq(M!Step), user: Member] \cup {NoRequest}]
        /\ \A v \in Request : requests'[v] # NoRequest => requests'[v].todo # <<>>
  BY <1>1, <1>2, FinishMoves
<1>5. CASE space.live /\ u \notin claimed
  <2>1. claimed' = claimed \cup {u} /\ M!Advance(w)
    BY <1>1, <1>5 DEF M!ClaimIntroduction, M!Claims
  <2>2. /\ Moved(w, u) /\ requests'[w] # NoRequest /\ requests'[w].todo \in Programs
        /\ Head(requests'[w].todo) = "welcome"
    BY <1>1, <1>2, <1>3, <2>1 DEF Follows, At
  <2>3. M!TypeOK'
    BY <1>1, <1>2, <1>3, <2>1 DEF M!TypeOK
  <2>4. Introduced(u)'
    <3>1. Welcomers(u) = {} /\ welcomes[u] = 0
      BY <1>2, <1>5 DEF Introduced, Alive
    <3>2. Welcomers(u)' = {w}
      BY <2>2, <3>1, AboutMoves
    <3> QED
      BY <1>1, <2>1, <3>1, <3>2 DEF Introduced
  <2>5. ASSUME u \notin raced
        PROVE  Known(u)'
    <3>1. M!About(u)' = {w} /\ ~Untold(u)' /\ (At(w))' = "welcome"
      BY <1>2, <2>2, <2>5, SoleMove
    <3>2. (Alive' <=> Alive) /\ (Owns(u)' <=> Owns(u))
      BY <1>1 DEF Alive, Owns
    <3>3. M!Deleted => M!Deleted'
      BY <1>1, <2>2, <3>2, DeletedStays
    <3> QED
      BY <1>1, <1>2, <2>5, <3>1, <3>2, <3>3 DEF Known, Finds
  <2>6. Quiet(w, u)
    BY <1>1, <2>1, <2>2 DEF Quiet
  <2> QED
    BY <1>1, <2>3, <2>4, <2>5, <2>6, QuietKeeps DEF MemberOK
<1>6. CASE ~(space.live /\ u \notin claimed)
  <2>1. M!Finish(w) /\ claimed' = claimed
    BY <1>1, <1>6 DEF M!ClaimIntroduction, M!Claims
  <2>2. raced' \subseteq Member
    BY <1>1, <1>2 DEF M!TypeOK
  <2>3. At(w) \notin {"gone", "drop", "confirm", "joined", "ban", "left"}
    BY <1>1
  <2> QED
    BY <1>1, <1>4, <2>1, <2>2, <2>3, EndKeeps
<1> QED
  BY <1>5, <1>6

LEMMA WelcomeKeeps ==
  ASSUME SpaceInv, NEW w \in Request, NEW u \in Member, u = requests[w].user, NEW works \in BOOLEAN,
         M!PostIntroduction(w, works)
  PROVE  SpaceInv'
<1>1. /\ requests[w] # NoRequest /\ At(w) = "welcome" /\ requests[w].user = u
      /\ space' = space /\ invite' = invite /\ entered' = entered
      /\ enrolled' = enrolled /\ banned' = banned /\ roster' = roster /\ raced' = raced
  BY DEF M!PostIntroduction, M!Runs, At, M!NoSpaceChange
<1>2. /\ M!TypeOK /\ M!InviteCounted /\ requests[w].todo \in Programs
      /\ Follows(requests[w].todo) /\ w \in M!About(u) /\ Introduced(u)
      /\ u \notin raced =>
           /\ Known(u) /\ M!About(u) = {w} /\ (Alive => Finds(w, u))
           /\ At(w) \notin {"confirm", "joined", "ban", "left"} => ~Untold(u)
  BY <1>1, RequestFacts
<1>3. M!Advance(w) =>
        /\ Moved(w, u)
        /\ requests' \in [Request -> [todo: Seq(M!Step), user: Member] \cup {NoRequest}]
        /\ \A v \in Request : requests'[v] # NoRequest => requests'[v].todo # <<>>
        /\ At(w) \in {"welcome", "left", "own", "drop"} => requests'[w] = NoRequest
        /\ At(w) \notin {"welcome", "left", "own", "drop"} =>
             /\ requests'[w] # NoRequest /\ requests'[w].todo = Tail(requests[w].todo)
             /\ requests'[w].todo \in Programs
  BY <1>1, <1>2, AdvanceMoves
<1>4. M!Finish(w) =>
        /\ Moved(w, u) /\ requests'[w] = NoRequest
        /\ requests' \in [Request -> [todo: Seq(M!Step), user: Member] \cup {NoRequest}]
        /\ \A v \in Request : requests'[v] # NoRequest => requests'[v].todo # <<>>
  BY <1>1, <1>2, FinishMoves
<1>5. M!Advance(w)
  BY DEF M!PostIntroduction
<1>6. /\ Moved(w, u) /\ requests'[w] = NoRequest
      /\ requests' \in [Request -> [todo: Seq(M!Step), user: Member] \cup {NoRequest}]
      /\ \A v \in Request : requests'[v] # NoRequest => requests'[v].todo # <<>>
  BY <1>1, <1>3, <1>5
<1>7. \/ /\ space.live /\ welcomes' = [welcomes EXCEPT ![u] = @ + 1] /\ claimed' = claimed
      \/ claimed' = claimed \ {u} /\ welcomes' = welcomes
  BY <1>1 DEF M!PostIntroduction
<1>8. /\ \A x \in Member \ {u} : welcomes'[x] = welcomes[x] /\ (x \in claimed' <=> x \in claimed)
      /\ M!TypeOK'
  BY <1>1, <1>2, <1>6, <1>7 DEF M!TypeOK
<1>9. w \in Welcomers(u) /\ Welcomers(u)' = Welcomers(u) \ {w} /\ welcomes[u] \in Nat
  BY <1>1, <1>2, <1>6, AboutMoves DEF Welcomers, M!TypeOK
<1>10. Alive => u \in claimed /\ welcomes[u] = 0 /\ Welcomers(u)' = {}
  BY <1>2, <1>9 DEF Introduced
<1>11. Introduced(u)'
  <2>1. CASE space.live /\ welcomes' = [welcomes EXCEPT ![u] = @ + 1] /\ claimed' = claimed
    <3>1. welcomes'[u] = 1
      BY <1>2, <1>10, <2>1 DEF M!TypeOK, Alive
    <3> QED
      BY <1>10, <2>1, <3>1 DEF Introduced, Alive
  <2>2. CASE claimed' = claimed \ {u} /\ welcomes' = welcomes
    <3>1. (Alive' <=> Alive)
      BY <1>1 DEF Alive
    <3> QED
      BY <1>2, <1>10, <2>2, <3>1 DEF Introduced
  <2> QED
    BY <1>7, <2>1, <2>2
<1>12. ASSUME u \notin raced
       PROVE  Known(u)'
  <2>1. M!About(u)' = {} /\ ~Untold(u)'
    BY <1>2, <1>6, <1>12, SoleMove
  <2>2. (Alive' <=> Alive) /\ (Owns(u)' <=> Owns(u))
    BY <1>1 DEF Alive, Owns
  <2>3. M!Deleted => M!Deleted'
    BY <1>1, <1>6, <2>2, DeletedStays
  <2> QED
    BY <1>1, <1>2, <1>12, <2>1, <2>2, <2>3 DEF Known
<1>13. Quiet(w, u)
  BY <1>1, <1>6, <1>8 DEF Quiet
<1> QED
  BY <1>1, <1>8, <1>11, <1>12, <1>13, QuietKeeps DEF MemberOK

LEMMA RemoveKeepsSpace ==
  ASSUME SpaceInv, NEW w \in Request, NEW u \in Member, u = requests[w].user, M!RemoveMember(w)
  PROVE  SpaceInv'
<1>1. /\ requests[w] # NoRequest /\ At(w) = "remove" /\ requests[w].user = u
      /\ space' = space /\ invite' = invite /\ entered' = entered
      /\ banned' = banned /\ roster' = roster /\ claimed' = claimed /\ welcomes' = welcomes /\ raced' = raced
      /\ enrolled' = enrolled \ {requests[w].user} /\ M!Advance(w)
  BY DEF M!RemoveMember, M!Runs, At, M!NoSpaceChange
<1>2. /\ M!TypeOK /\ M!InviteCounted /\ requests[w].todo \in Programs
      /\ Follows(requests[w].todo) /\ w \in M!About(u) /\ Introduced(u)
      /\ u \notin raced =>
           /\ Known(u) /\ M!About(u) = {w} /\ (Alive => Finds(w, u))
           /\ At(w) \notin {"confirm", "joined", "ban", "left"} => ~Untold(u)
  BY <1>1, RequestFacts
<1>3. M!Advance(w) =>
        /\ Moved(w, u)
        /\ requests' \in [Request -> [todo: Seq(M!Step), user: Member] \cup {NoRequest}]
        /\ \A v \in Request : requests'[v] # NoRequest => requests'[v].todo # <<>>
        /\ At(w) \in {"welcome", "left", "own", "drop"} => requests'[w] = NoRequest
        /\ At(w) \notin {"welcome", "left", "own", "drop"} =>
             /\ requests'[w] # NoRequest /\ requests'[w].todo = Tail(requests[w].todo)
             /\ requests'[w].todo \in Programs
  BY <1>1, <1>2, AdvanceMoves
<1>4. M!Finish(w) =>
        /\ Moved(w, u) /\ requests'[w] = NoRequest
        /\ requests' \in [Request -> [todo: Seq(M!Step), user: Member] \cup {NoRequest}]
        /\ \A v \in Request : requests'[v] # NoRequest => requests'[v].todo # <<>>
  BY <1>1, <1>2, FinishMoves
<1>5. /\ Moved(w, u) /\ requests'[w] # NoRequest /\ requests'[w].todo \in Programs
      /\ Head(requests'[w].todo) \in {"ban", "left"}
  BY <1>1, <1>2, <1>3 DEF Follows, At
<1>6. M!TypeOK'
  BY <1>1, <1>2, <1>3 DEF M!TypeOK
<1>7. Introduced(u)'
  <2>1. Welcomers(u)' \subseteq Welcomers(u)
    BY <1>5, AboutMoves
  <2> QED
    BY <1>1, <1>2, <2>1, IntroducedStays DEF Alive
<1>8. ASSUME u \notin raced
      PROVE  Known(u)'
  <2>1. M!About(u)' = {w} /\ Untold(u)' /\ (At(w))' \in {"ban", "left"}
    BY <1>2, <1>5, <1>8, SoleMove
  <2>2. u \notin enrolled' /\ (Alive' => ~Owns(u)')
    BY <1>1, <1>2, <1>8 DEF Finds, Alive, Owns
  <2> QED
    BY <2>1, <2>2 DEF Known, Finds
<1>9. Quiet(w, u)
  BY <1>1, <1>5 DEF Quiet
<1> QED
  BY <1>1, <1>6, <1>7, <1>8, <1>9, QuietKeeps DEF MemberOK

LEMMA BanKeeps ==
  ASSUME SpaceInv, NEW w \in Request, NEW u \in Member, u = requests[w].user, M!InsertBan(w)
  PROVE  SpaceInv'
<1>1. /\ requests[w] # NoRequest /\ At(w) = "ban" /\ requests[w].user = u
      /\ space' = space /\ invite' = invite /\ entered' = entered
      /\ enrolled' = enrolled /\ roster' = roster /\ claimed' = claimed /\ welcomes' = welcomes /\ raced' = raced
  BY DEF M!InsertBan, M!Runs, At, M!NoSpaceChange
<1>2. /\ M!TypeOK /\ M!InviteCounted /\ requests[w].todo \in Programs
      /\ Follows(requests[w].todo) /\ w \in M!About(u) /\ Introduced(u)
      /\ u \notin raced =>
           /\ Known(u) /\ M!About(u) = {w} /\ (Alive => Finds(w, u))
           /\ At(w) \notin {"confirm", "joined", "ban", "left"} => ~Untold(u)
  BY <1>1, RequestFacts
<1>3. M!Advance(w) =>
        /\ Moved(w, u)
        /\ requests' \in [Request -> [todo: Seq(M!Step), user: Member] \cup {NoRequest}]
        /\ \A v \in Request : requests'[v] # NoRequest => requests'[v].todo # <<>>
        /\ At(w) \in {"welcome", "left", "own", "drop"} => requests'[w] = NoRequest
        /\ At(w) \notin {"welcome", "left", "own", "drop"} =>
             /\ requests'[w] # NoRequest /\ requests'[w].todo = Tail(requests[w].todo)
             /\ requests'[w].todo \in Programs
  BY <1>1, <1>2, AdvanceMoves
<1>4. M!Finish(w) =>
        /\ Moved(w, u) /\ requests'[w] = NoRequest
        /\ requests' \in [Request -> [todo: Seq(M!Step), user: Member] \cup {NoRequest}]
        /\ \A v \in Request : requests'[v] # NoRequest => requests'[v].todo # <<>>
  BY <1>1, <1>2, FinishMoves
<1>5. CASE space.live
  <2>1. banned' = banned \cup {u} /\ M!Advance(w)
    BY <1>1, <1>5 DEF M!InsertBan
  <2>2. /\ Moved(w, u) /\ requests'[w] # NoRequest /\ requests'[w].todo \in Programs
        /\ Head(requests'[w].todo) = "left"
    BY <1>1, <1>2, <1>3, <2>1 DEF Follows, At
  <2>3. M!TypeOK'
    BY <1>1, <1>2, <1>3, <1>5, <2>1 DEF M!TypeOK
  <2>4. Introduced(u)'
    <3>1. Welcomers(u)' \subseteq Welcomers(u)
      BY <2>2, AboutMoves
    <3> QED
      BY <1>1, <1>2, <2>1, <3>1, IntroducedStays DEF Alive
  <2>5. ASSUME u \notin raced
        PROVE  Known(u)'
    <3>1. M!About(u)' = {w} /\ Untold(u)' /\ (At(w))' = "left"
      BY <1>2, <2>2, <2>5, SoleMove
    <3>2. u \notin enrolled /\ (Owns(u)' <=> Owns(u)) /\ Alive
      BY <1>1, <1>2, <1>5, <2>5 DEF Finds, Alive, Owns
    <3> QED
      BY <1>1, <1>2, <2>5, <3>1, <3>2 DEF Known, Finds
  <2>6. Quiet(w, u)
    BY <1>1, <2>1, <2>2 DEF Quiet
  <2> QED
    BY <1>1, <2>3, <2>4, <2>5, <2>6, QuietKeeps DEF MemberOK
<1>6. CASE ~space.live
  <2>1. M!Finish(w) /\ banned' = banned
    BY <1>1, <1>6 DEF M!InsertBan
  <2>2. raced' \subseteq Member
    BY <1>1, <1>2 DEF M!TypeOK
  <2>3. At(w) \notin {"gone", "drop"} /\ ~Alive
    BY <1>1, <1>6 DEF Alive
  <2> QED
    BY <1>1, <1>4, <2>1, <2>2, <2>3, EndKeeps
<1> QED
  BY <1>5, <1>6

LEMMA LeftKeeps ==
  ASSUME SpaceInv, NEW w \in Request, NEW u \in Member, u = requests[w].user, M!AnnounceLeave(w)
  PROVE  SpaceInv'
<1>1. /\ requests[w] # NoRequest /\ At(w) = "left" /\ requests[w].user = u
      /\ space' = space /\ invite' = invite /\ entered' = entered
      /\ enrolled' = enrolled /\ banned' = banned /\ claimed' = claimed /\ welcomes' = welcomes /\ raced' = raced
      /\ roster' = roster \ {requests[w].user} /\ M!Advance(w)
  BY DEF M!AnnounceLeave, M!Runs, At, M!NoSpaceChange
<1>2. /\ M!TypeOK /\ M!InviteCounted /\ requests[w].todo \in Programs
      /\ Follows(requests[w].todo) /\ w \in M!About(u) /\ Introduced(u)
      /\ u \notin raced =>
           /\ Known(u) /\ M!About(u) = {w} /\ (Alive => Finds(w, u))
           /\ At(w) \notin {"confirm", "joined", "ban", "left"} => ~Untold(u)
  BY <1>1, RequestFacts
<1>3. M!Advance(w) =>
        /\ Moved(w, u)
        /\ requests' \in [Request -> [todo: Seq(M!Step), user: Member] \cup {NoRequest}]
        /\ \A v \in Request : requests'[v] # NoRequest => requests'[v].todo # <<>>
        /\ At(w) \in {"welcome", "left", "own", "drop"} => requests'[w] = NoRequest
        /\ At(w) \notin {"welcome", "left", "own", "drop"} =>
             /\ requests'[w] # NoRequest /\ requests'[w].todo = Tail(requests[w].todo)
             /\ requests'[w].todo \in Programs
  BY <1>1, <1>2, AdvanceMoves
<1>4. M!Finish(w) =>
        /\ Moved(w, u) /\ requests'[w] = NoRequest
        /\ requests' \in [Request -> [todo: Seq(M!Step), user: Member] \cup {NoRequest}]
        /\ \A v \in Request : requests'[v] # NoRequest => requests'[v].todo # <<>>
  BY <1>1, <1>2, FinishMoves
<1>5. Moved(w, u) /\ requests'[w] = NoRequest
  BY <1>1, <1>3
<1>6. M!TypeOK'
  BY <1>1, <1>2, <1>3 DEF M!TypeOK
<1>7. Introduced(u)'
  <2>1. Welcomers(u)' \subseteq Welcomers(u)
    BY <1>5, AboutMoves
  <2> QED
    BY <1>1, <1>2, <2>1, IntroducedStays DEF Alive
<1>8. ASSUME u \notin raced
      PROVE  Known(u)'
  <2>1. M!About(u)' = {}
    BY <1>2, <1>5, <1>8, SoleMove
  <2>2. /\ (Alive' <=> Alive) /\ (Owns(u)' <=> Owns(u)) /\ (~Alive => M!Deleted')
        /\ Alive => u \notin enrolled
    BY <1>1, <1>2, <1>8 DEF Alive, Owns, M!Deleted, Finds
  <2>3. ~M!Deleted' => (u \in roster' <=> u \in enrolled)
    BY <1>1, <2>2
  <2> QED
    BY <1>1, <1>2, <1>8, <2>1, <2>2, <2>3 DEF Known
<1>9. Quiet(w, u)
  BY <1>1, <1>5 DEF Quiet
<1> QED
  BY <1>1, <1>6, <1>7, <1>8, <1>9, QuietKeeps DEF MemberOK

LEMMA EnrolKeeps ==
  ASSUME SpaceInv, NEW w \in Request, NEW u \in Member, u = requests[w].user, M!EnrolOwner(w)
  PROVE  SpaceInv'
<1>1. /\ requests[w] # NoRequest /\ At(w) = "enrol" /\ requests[w].user = u
      /\ space' = space /\ invite' = invite /\ entered' = entered
      /\ banned' = banned /\ roster' = roster /\ claimed' = claimed /\ welcomes' = welcomes
      /\ raced' = raced \cup ({requests[w].user} \ enrolled)
  BY DEF M!EnrolOwner, M!Runs, At, M!NoSpaceChange
<1>2. /\ M!TypeOK /\ M!InviteCounted /\ requests[w].todo \in Programs
      /\ Follows(requests[w].todo) /\ w \in M!About(u) /\ Introduced(u)
      /\ u \notin raced =>
           /\ Known(u) /\ M!About(u) = {w} /\ (Alive => Finds(w, u))
           /\ At(w) \notin {"confirm", "joined", "ban", "left"} => ~Untold(u)
  BY <1>1, RequestFacts
<1>3. M!Advance(w) =>
        /\ Moved(w, u)
        /\ requests' \in [Request -> [todo: Seq(M!Step), user: Member] \cup {NoRequest}]
        /\ \A v \in Request : requests'[v] # NoRequest => requests'[v].todo # <<>>
        /\ At(w) \in {"welcome", "left", "own", "drop"} => requests'[w] = NoRequest
        /\ At(w) \notin {"welcome", "left", "own", "drop"} =>
             /\ requests'[w] # NoRequest /\ requests'[w].todo = Tail(requests[w].todo)
             /\ requests'[w].todo \in Programs
  BY <1>1, <1>2, AdvanceMoves
<1>4. M!Finish(w) =>
        /\ Moved(w, u) /\ requests'[w] = NoRequest
        /\ requests' \in [Request -> [todo: Seq(M!Step), user: Member] \cup {NoRequest}]
        /\ \A v \in Request : requests'[v] # NoRequest => requests'[v].todo # <<>>
  BY <1>1, <1>2, FinishMoves
<1>5. CASE space.live
  <2>1. enrolled' = enrolled \cup {u} /\ M!Advance(w)
    BY <1>1, <1>5 DEF M!EnrolOwner
  <2>2. /\ Moved(w, u) /\ requests'[w] # NoRequest /\ requests'[w].todo \in Programs
        /\ Head(requests'[w].todo) = "own"
    BY <1>1, <1>2, <1>3, <2>1 DEF Follows, At
  <2>3. M!TypeOK'
    BY <1>1, <1>2, <1>3, <1>5, <2>1 DEF M!TypeOK
  <2>4. Introduced(u)'
    <3>1. Welcomers(u)' \subseteq Welcomers(u)
      BY <2>2, AboutMoves
    <3> QED
      BY <1>1, <1>2, <2>1, <3>1, IntroducedStays DEF Alive
  <2>5. ASSUME u \notin raced'
        PROVE  Known(u)'
    <3>1. u \notin raced /\ u \in enrolled /\ enrolled' = enrolled
      BY <1>1, <2>1, <2>5
    <3>2. M!About(u)' = {w} /\ ~Untold(u)' /\ (At(w))' = "own"
      BY <1>2, <2>2, <3>1, SoleMove
    <3>3. (Alive' <=> Alive) /\ (Owns(u)' <=> Owns(u))
      BY <1>1 DEF Alive, Owns
    <3>4. M!Deleted => M!Deleted'
      BY <1>1, <2>2, <3>3, DeletedStays
    <3> QED
      BY <1>1, <1>2, <3>1, <3>2, <3>3, <3>4 DEF Known, Finds
  <2>6. Quiet(w, u)
    BY <1>1, <2>1, <2>2 DEF Quiet
  <2> QED
    BY <1>1, <2>3, <2>4, <2>5, <2>6, QuietKeeps DEF MemberOK
<1>6. CASE ~space.live
  <2>1. M!Finish(w) /\ enrolled' = enrolled
    BY <1>1, <1>6 DEF M!EnrolOwner
  <2>2. enrolled = {} /\ raced' = raced \cup {u} /\ raced' \subseteq Member
    BY <1>1, <1>2, <1>6 DEF M!TypeOK
  <2>3. M!TypeOK'
    BY <1>1, <1>2, <1>4, <2>1, <2>2 DEF M!TypeOK
  <2>4. Introduced(u)'
    <3>1. Welcomers(u)' \subseteq Welcomers(u)
      BY <1>4, <2>1, AboutMoves
    <3> QED
      BY <1>1, <1>2, <3>1, IntroducedStays DEF Alive
  <2>5. Quiet(w, u)
    BY <1>1, <1>4, <2>1, <2>2 DEF Quiet
  <2> QED
    BY <2>2, <2>3, <2>4, <2>5, QuietKeeps DEF MemberOK
<1> QED
  BY <1>5, <1>6

LEMMA OwnKeeps ==
  ASSUME SpaceInv, NEW w \in Request, NEW u \in Member, u = requests[w].user, M!SetOwner(w)
  PROVE  SpaceInv'
<1>1. /\ requests[w] # NoRequest /\ At(w) = "own" /\ requests[w].user = u
      /\ enrolled' = enrolled /\ banned' = banned /\ invite' = invite /\ roster' = roster /\ claimed' = claimed /\ welcomes' = welcomes /\ entered' = entered /\ raced' = raced
      /\ space' = (IF space.live THEN [space EXCEPT !.owner = requests[w].user] ELSE space)
      /\ M!Advance(w)
  BY DEF M!SetOwner, M!Runs, At, M!NoSpaceChange
<1>2. /\ M!TypeOK /\ M!InviteCounted /\ requests[w].todo \in Programs
      /\ Follows(requests[w].todo) /\ w \in M!About(u) /\ Introduced(u)
      /\ u \notin raced =>
           /\ Known(u) /\ M!About(u) = {w} /\ (Alive => Finds(w, u))
           /\ At(w) \notin {"confirm", "joined", "ban", "left"} => ~Untold(u)
  BY <1>1, RequestFacts
<1>3. M!Advance(w) =>
        /\ Moved(w, u)
        /\ requests' \in [Request -> [todo: Seq(M!Step), user: Member] \cup {NoRequest}]
        /\ \A v \in Request : requests'[v] # NoRequest => requests'[v].todo # <<>>
        /\ At(w) \in {"welcome", "left", "own", "drop"} => requests'[w] = NoRequest
        /\ At(w) \notin {"welcome", "left", "own", "drop"} =>
             /\ requests'[w] # NoRequest /\ requests'[w].todo = Tail(requests[w].todo)
             /\ requests'[w].todo \in Programs
  BY <1>1, <1>2, AdvanceMoves
<1>4. M!Finish(w) =>
        /\ Moved(w, u) /\ requests'[w] = NoRequest
        /\ requests' \in [Request -> [todo: Seq(M!Step), user: Member] \cup {NoRequest}]
        /\ \A v \in Request : requests'[v] # NoRequest => requests'[v].todo # <<>>
  BY <1>1, <1>2, FinishMoves
<1>5. Moved(w, u) /\ requests'[w] = NoRequest
  BY <1>1, <1>3
<1>6. /\ space' \in [live: BOOLEAN, owner: Member, system: BOOLEAN]
      /\ space'.live = space.live /\ \A x \in Member \ {u} : Owns(x)' => Owns(x)
      /\ ~space.live => space' = space
  BY <1>1, <1>2 DEF M!TypeOK, Owns
<1>7. M!TypeOK' /\ M!InviteCounted'
  BY <1>1, <1>2, <1>3, <1>6 DEF M!TypeOK, M!InviteCounted
<1>8. Alive' <=> Alive
  BY <1>6 DEF Alive
<1>9. M!Deleted => M!Deleted'
  BY <1>1, <1>5, <1>8, DeletedStays
<1>10. Introduced(u)'
  <2>1. Welcomers(u)' \subseteq Welcomers(u)
    BY <1>5, AboutMoves
  <2> QED
    BY <1>1, <1>2, <1>8, <2>1, IntroducedStays
<1>11. ASSUME u \notin raced
       PROVE  Known(u)'
  <2>1. M!About(u)' = {}
    BY <1>2, <1>5, <1>11, SoleMove
  <2>2. Alive => u \in enrolled
    BY <1>1, <1>2, <1>11 DEF Finds
  <2> QED
    BY <1>1, <1>2, <1>8, <1>9, <1>11, <2>1, <2>2 DEF Known
<1> QED
  BY <1>1, <1>5, <1>6, <1>7, <1>8, <1>9, <1>10, <1>11, MoveKeeps DEF MemberOK

LEMMA GoneKeeps ==
  ASSUME SpaceInv, NEW w \in Request, NEW u \in Member, u = requests[w].user, M!AnnounceDelete(w)
  PROVE  SpaceInv'
<1>1. /\ requests[w] # NoRequest /\ At(w) = "gone" /\ requests[w].user = u
      /\ space' = space /\ invite' = invite /\ entered' = entered
      /\ enrolled' = enrolled /\ banned' = banned /\ claimed' = claimed /\ welcomes' = welcomes /\ raced' = raced
      /\ roster' = {} /\ M!Advance(w)
  BY DEF M!AnnounceDelete, M!Runs, At, M!NoSpaceChange
<1>2. /\ M!TypeOK /\ M!InviteCounted /\ requests[w].todo \in Programs
      /\ Follows(requests[w].todo) /\ w \in M!About(u) /\ Introduced(u)
      /\ u \notin raced =>
           /\ Known(u) /\ M!About(u) = {w} /\ (Alive => Finds(w, u))
           /\ At(w) \notin {"confirm", "joined", "ban", "left"} => ~Untold(u)
  BY <1>1, RequestFacts
<1>3. M!Advance(w) =>
        /\ Moved(w, u)
        /\ requests' \in [Request -> [todo: Seq(M!Step), user: Member] \cup {NoRequest}]
        /\ \A v \in Request : requests'[v] # NoRequest => requests'[v].todo # <<>>
        /\ At(w) \in {"welcome", "left", "own", "drop"} => requests'[w] = NoRequest
        /\ At(w) \notin {"welcome", "left", "own", "drop"} =>
             /\ requests'[w] # NoRequest /\ requests'[w].todo = Tail(requests[w].todo)
             /\ requests'[w].todo \in Programs
  BY <1>1, <1>2, AdvanceMoves
<1>4. M!Finish(w) =>
        /\ Moved(w, u) /\ requests'[w] = NoRequest
        /\ requests' \in [Request -> [todo: Seq(M!Step), user: Member] \cup {NoRequest}]
        /\ \A v \in Request : requests'[v] # NoRequest => requests'[v].todo # <<>>
  BY <1>1, <1>2, FinishMoves
<1>5. /\ Moved(w, u) /\ requests'[w] # NoRequest /\ requests'[w].todo \in Programs
      /\ Head(requests'[w].todo) = "drop"
  BY <1>1, <1>2, <1>3 DEF Follows, At
<1>6. M!TypeOK' /\ M!InviteCounted'
  BY <1>1, <1>2, <1>3 DEF M!TypeOK, M!InviteCounted
<1>7. M!Deleted'
  BY <1>5 DEF M!Deleted, M!Runs
<1>8. (Alive' <=> Alive) /\ \A x : Owns(x)' <=> Owns(x)
  BY <1>1 DEF Alive, Owns
<1>9. Introduced(u)'
  <2>1. Welcomers(u)' \subseteq Welcomers(u)
    BY <1>5, AboutMoves
  <2> QED
    BY <1>1, <1>2, <1>8, <2>1, IntroducedStays
<1>10. ASSUME u \notin raced
       PROVE  Known(u)'
  <2>1. M!About(u)' = {w} /\ (At(w))' = "drop"
    BY <1>2, <1>5, <1>10, SoleMove
  <2> QED
    BY <1>1, <1>2, <1>7, <1>8, <1>10, <2>1 DEF Known, Finds
<1> QED
  BY <1>1, <1>5, <1>6, <1>7, <1>8, <1>9, <1>10, MoveKeeps DEF MemberOK

LEMMA DropKeeps ==
  ASSUME SpaceInv, NEW w \in Request, NEW u \in Member, u = requests[w].user, M!DropSpace(w)
  PROVE  SpaceInv'
<1>1. /\ requests[w] # NoRequest /\ At(w) = "drop" /\ requests[w].user = u
      /\ roster' = roster /\ welcomes' = welcomes /\ entered' = entered /\ raced' = raced
      /\ space' = [space EXCEPT !.live = FALSE] /\ enrolled' = {} /\ banned' = {}
      /\ claimed' = {} /\ invite' = [invite EXCEPT !.live = FALSE] /\ M!Advance(w)
  BY DEF M!DropSpace, M!Runs, At, M!NoSpaceChange
<1>2. /\ M!TypeOK /\ M!InviteCounted /\ requests[w].todo \in Programs
      /\ Follows(requests[w].todo) /\ w \in M!About(u) /\ Introduced(u)
      /\ u \notin raced =>
           /\ Known(u) /\ M!About(u) = {w} /\ (Alive => Finds(w, u))
           /\ At(w) \notin {"confirm", "joined", "ban", "left"} => ~Untold(u)
  BY <1>1, RequestFacts
<1>3. M!Advance(w) =>
        /\ Moved(w, u)
        /\ requests' \in [Request -> [todo: Seq(M!Step), user: Member] \cup {NoRequest}]
        /\ \A v \in Request : requests'[v] # NoRequest => requests'[v].todo # <<>>
        /\ At(w) \in {"welcome", "left", "own", "drop"} => requests'[w] = NoRequest
        /\ At(w) \notin {"welcome", "left", "own", "drop"} =>
             /\ requests'[w] # NoRequest /\ requests'[w].todo = Tail(requests[w].todo)
             /\ requests'[w].todo \in Programs
  BY <1>1, <1>2, AdvanceMoves
<1>4. M!Finish(w) =>
        /\ Moved(w, u) /\ requests'[w] = NoRequest
        /\ requests' \in [Request -> [todo: Seq(M!Step), user: Member] \cup {NoRequest}]
        /\ \A v \in Request : requests'[v] # NoRequest => requests'[v].todo # <<>>
  BY <1>1, <1>2, FinishMoves
<1>5. Moved(w, u) /\ requests'[w] = NoRequest
  BY <1>1, <1>3
<1>6. /\ space' \in [live: BOOLEAN, owner: Member, system: BOOLEAN] /\ space'.live = FALSE
      /\ invite' \in [live: BOOLEAN, uses: Nat] /\ invite'.uses = invite.uses
      /\ invite'.live = FALSE
  BY <1>1, <1>2 DEF M!TypeOK
<1>7. M!TypeOK'
  BY <1>1, <1>2, <1>3, <1>6 DEF M!TypeOK
<1>8. M!InviteCounted'
  BY <1>1, <1>2, <1>6 DEF M!InviteCounted
<1>9. ~Alive' /\ M!Deleted'
  BY <1>6 DEF Alive, M!Deleted
<1>10. ASSUME NEW x \in Member
       PROVE  MemberOK(x)'
  <2>1. MemberOK(x)
    BY DEF SpaceInv
  <2>2. Introduced(x)'
    BY <1>1, <1>9, <2>1 DEF MemberOK, Introduced
  <2>3. M!About(x)' \subseteq M!About(x)
    BY <1>5 DEF M!About, Moved
  <2>4. x \notin raced => Known(x)'
    BY <1>1, <1>9, <2>1, <2>3 DEF MemberOK, Known
  <2> QED
    BY <1>1, <2>2, <2>4 DEF MemberOK
<1>11. \A v \in Request : requests'[v] # NoRequest => requests'[v].todo \in Programs
  BY <1>5 DEF SpaceInv, Moved
<1> QED
  BY <1>7, <1>8, <1>10, <1>11 DEF SpaceInv

\* Request w begins with program t about u: at most the members change.
Opens(w, u, t) ==
  /\ M!Begin(w, u, t) /\ Head(t) # "welcome"
  /\ space' = space /\ banned' = banned /\ roster' = roster
  /\ claimed' = claimed /\ welcomes' = welcomes
  /\ \A x \in Member \ {u} : x \in enrolled' <=> x \in enrolled
  /\ enrolled \subseteq enrolled'
  /\ enrolled' = enrolled \/ (Head(t) = "confirm" /\ u \notin banned)
LEMMA BeginMoves ==
  ASSUME M!TypeOK, NEW w \in Request, NEW u \in Member, NEW t \in Programs, M!Begin(w, u, t)
  PROVE  /\ Moved(w, u) /\ requests'[w] # NoRequest /\ requests'[w].todo = t
         /\ requests' \in [Request -> [todo: Seq(M!Step), user: Member] \cup {NoRequest}]
         /\ \A v \in Request : requests'[v] # NoRequest => requests'[v].todo # <<>>
         /\ raced \subseteq raced' /\ raced' \subseteq Member
         /\ u \notin raced' => M!About(u) = {} /\ u \notin raced
<1>1. PICK s : s = [todo |-> t, user |-> u]
  OBVIOUS
<1>2. t # <<>> /\ t \in Seq(M!Step)
  BY ProgramSteps
<1>3. s \in [todo: Seq(M!Step), user: Member] /\ s.todo = t /\ s.user = u
  BY <1>1, <1>2
<1>4. s # NoRequest
  BY <1>3, MembershipsAssumption
<1>5. requests' = [requests EXCEPT ![w] = s] /\ requests[w] = NoRequest
  BY <1>1 DEF M!Begin
<1>6. requests'[w] = s /\ \A v \in Request \ {w} : requests'[v] = requests[v]
  BY <1>5 DEF M!TypeOK
<1>7. requests' \in [Request -> [todo: Seq(M!Step), user: Member] \cup {NoRequest}]
  BY <1>3, <1>5 DEF M!TypeOK
<1>8. \A v \in Request : requests'[v] # NoRequest => requests'[v].todo # <<>>
  BY <1>2, <1>3, <1>6 DEF M!TypeOK
<1>9. /\ raced \subseteq raced' /\ raced' \subseteq Member
      /\ u \notin raced' => M!About(u) = {} /\ u \notin raced
  BY DEF M!Begin, M!TypeOK
<1> QED
  BY <1>3, <1>4, <1>5, <1>6, <1>7, <1>8, <1>9 DEF Moved

LEMMA BeginKeepsSpace ==
  ASSUME SpaceInv, NEW w \in Request, NEW u \in Member, NEW t \in Programs, Opens(w, u, t),
         M!TypeOK', M!InviteCounted',
         u \notin raced' /\ Alive =>
           /\ Head(t) = "add" => u \notin banned
           /\ Head(t) \in {"confirm", "joined", "own"} => u \in enrolled'
           /\ Head(t) \in {"ban", "left"} => u \notin enrolled'
           /\ Head(t) = "remove" => ~Owns(u)
  PROVE  SpaceInv'
<1>1. /\ Moved(w, u) /\ requests'[w] # NoRequest /\ requests'[w].todo = t
      /\ raced \subseteq raced'
      /\ u \notin raced' => M!About(u) = {} /\ u \notin raced
  BY BeginMoves DEF Opens, SpaceInv
<1>2. requests[w] = NoRequest
  BY DEF Opens, M!Begin
<1>3. /\ Alive' <=> Alive
      /\ \A x : Owns(x)' <=> Owns(x)
  BY DEF Opens, Alive, Owns
<1>4. M!Deleted => M!Deleted'
  BY <1>1, <1>2, <1>3, DeletedStays
<1>5. MemberOK(u)
  BY DEF SpaceInv
<1>6. Introduced(u)'
  <2>1. Welcomers(u)' \subseteq Welcomers(u)
    BY <1>1, AboutMoves DEF Opens
  <2> QED
    BY <1>3, <1>5, <2>1, IntroducedStays DEF MemberOK, Opens
<1>7. ASSUME u \notin raced'
      PROVE  Known(u)'
  <2>1. M!About(u) = {} /\ Known(u) /\ ~Untold(u)
    BY <1>1, <1>5, <1>7 DEF MemberOK, Untold
  <2>2. /\ M!About(u)' = {w} /\ (At(w))' = Head(t)
        /\ Untold(u)' <=> Head(t) \in {"confirm", "joined", "ban", "left"}
    BY <1>1, <2>1, SoleMove
  <2>3. u \in banned' => u \notin enrolled'
    BY <2>1 DEF Known, Opens
  <2>4. Alive' => (Owns(u)' => u \in enrolled') /\ Finds(w, u)'
    BY <1>3, <1>7, <2>1, <2>2 DEF Known, Finds, Opens
  <2>5. ~M!Deleted' /\ ~Untold(u)' => (u \in roster' <=> u \in enrolled')
    BY <1>4, <2>1, <2>2 DEF Known, Opens
  <2> QED
    BY <2>2, <2>3, <2>4, <2>5 DEF Known
<1>8. MemberOK(u)'
  BY <1>6, <1>7 DEF MemberOK
<1>9. \A x \in Member \ {u} :
        /\ x \in enrolled' <=> x \in enrolled
        /\ x \in banned' => x \in banned
        /\ x \in claimed' <=> x \in claimed
        /\ welcomes'[x] = welcomes[x]
        /\ x \in raced => x \in raced'
        /\ Owns(x)' => Owns(x)
        /\ M!Deleted' \/ (x \in roster' <=> x \in roster)
  BY <1>1, <1>3 DEF Opens
<1> QED
  BY <1>1, <1>3, <1>4, <1>8, <1>9, MoveKeeps

\* The requests that leave the tables alone when they begin.
LEMMA RequestKeepsSpace ==
  ASSUME SpaceInv, NEW w \in Request, NEW u \in Member, NEW t \in Programs, M!Begin(w, u, t),
         Head(t) \in {"add", "remove", "enrol", "gone"},
         Head(t) = "add" => u \notin banned, Head(t) = "remove" => ~Owns(u),
         space' = space, banned' = banned, invite' = invite, entered' = entered,
         enrolled' = enrolled, roster' = roster, claimed' = claimed, welcomes' = welcomes
  PROVE  SpaceInv'
<1>1. M!TypeOK /\ M!InviteCounted
  BY DEF SpaceInv
<1>2. M!TypeOK' /\ M!InviteCounted'
  <2>1. /\ requests' \in [Request -> [todo: Seq(M!Step), user: Member] \cup {NoRequest}]
        /\ \A v \in Request : requests'[v] # NoRequest => requests'[v].todo # <<>>
        /\ raced' \subseteq Member
    BY <1>1, BeginMoves
  <2> QED
    BY <1>1, <2>1 DEF M!TypeOK, M!InviteCounted
<1>3. Opens(w, u, t)
  BY DEF Opens
<1> QED
  BY <1>2, <1>3, BeginKeepsSpace

LEMMA AcceptKeeps ==
  ASSUME SpaceInv, NEW w \in Request, NEW u \in Member, M!AcceptInvite(w, u)
  PROVE  SpaceInv'
<1>1. PICK t \in Programs : t = <<"confirm", "joined", "claim", "welcome">>
  BY DEF Programs
<1>2. M!Begin(w, u, t) /\ Head(t) = "confirm"
  BY <1>1, Announcements, ProgramSteps DEF M!AcceptInvite
<1>3. /\ M!TypeOK /\ M!InviteCounted /\ invite.live /\ u \notin banned
      /\ u \notin enrolled /\ invite.uses < MaxUses
      /\ invite' = [invite EXCEPT !.uses = @ + 1] /\ enrolled' = enrolled \cup {u}
      /\ entered' = entered + 1 /\ space' = space /\ banned' = banned
      /\ roster' = roster /\ claimed' = claimed /\ welcomes' = welcomes
  BY DEF SpaceInv, M!AcceptInvite, M!Usable
<1>4. /\ invite' \in [live: BOOLEAN, uses: Nat] /\ invite'.uses = invite.uses + 1
      /\ space.live
  BY <1>3 DEF M!TypeOK
<1>5. M!InviteCounted'
  BY <1>3, <1>4, MembershipsAssumption DEF M!InviteCounted, M!TypeOK
<1>6. M!TypeOK'
  <2>1. /\ requests' \in [Request -> [todo: Seq(M!Step), user: Member] \cup {NoRequest}]
        /\ \A v \in Request : requests'[v] # NoRequest => requests'[v].todo # <<>>
        /\ raced' \subseteq Member
    BY <1>2, <1>3, BeginMoves
  <2> QED
    BY <1>3, <1>4, <2>1 DEF M!TypeOK
<1>7. Opens(w, u, t)
  BY <1>2, <1>3 DEF Opens
<1> QED
  BY <1>2, <1>3, <1>5, <1>6, <1>7, BeginKeepsSpace

LEMMA RequestedKeeps ==
  ASSUME SpaceInv, NEW w \in Request, NEW u \in Member, M!Requested(w, u)
  PROVE  SpaceInv'
<1>1. CASE M!JoinPublicSpace(w, u)
  <2>1. PICK t \in Programs : t = <<"add", "confirm", "joined", "claim", "welcome">>
    BY DEF Programs
  <2>2. M!Begin(w, u, t) /\ Head(t) = "add"
    BY <1>1, <2>1, Announcements, ProgramSteps DEF M!JoinPublicSpace
  <2>3. /\ u \notin banned /\ space' = space /\ banned' = banned /\ invite' = invite
        /\ entered' = entered /\ enrolled' = enrolled /\ roster' = roster
        /\ claimed' = claimed /\ welcomes' = welcomes
    BY <1>1 DEF M!JoinPublicSpace, M!NoSpaceChange
  <2> QED
    BY <2>2, <2>3, RequestKeepsSpace
<1>2. CASE M!AcceptInvite(w, u)
  BY <1>2, AcceptKeeps
<1>3. CASE M!LeaveSpace(w, u) \/ M!KickMember(w, u)
  <2>1. PICK t \in Programs : t = <<"remove", "left">>
    BY DEF Programs
  <2>2. M!Begin(w, u, t) /\ Head(t) = "remove"
    BY <1>3, <2>1, ProgramSteps DEF M!LeaveSpace, M!KickMember, M!RemoveStatements
  <2>3. /\ ~Owns(u) /\ space' = space /\ banned' = banned /\ invite' = invite
        /\ entered' = entered /\ enrolled' = enrolled /\ roster' = roster
        /\ claimed' = claimed /\ welcomes' = welcomes
    BY <1>3 DEF M!LeaveSpace, M!KickMember, M!MayLeave, M!NoSpaceChange, Owns
  <2> QED
    BY <2>2, <2>3, RequestKeepsSpace
<1>4. CASE M!CreateBan(w, u)
  <2>1. PICK t \in Programs : t = <<"remove", "ban", "left">>
    BY DEF Programs
  <2>2. M!Begin(w, u, t) /\ Head(t) = "remove"
    BY <1>4, <2>1, ProgramSteps DEF M!CreateBan, M!BanStatements
  <2>3. /\ ~Owns(u) /\ space' = space /\ banned' = banned /\ invite' = invite
        /\ entered' = entered /\ enrolled' = enrolled /\ roster' = roster
        /\ claimed' = claimed /\ welcomes' = welcomes
    BY <1>4 DEF M!CreateBan, M!NoSpaceChange, Owns
  <2> QED
    BY <2>2, <2>3, RequestKeepsSpace
<1>5. CASE M!AdminUpdateOwner(w, u)
  <2>1. PICK t \in Programs : t = <<"enrol", "own">>
    BY DEF Programs
  <2>2. M!Begin(w, u, t) /\ Head(t) = "enrol"
    BY <1>5, <2>1, ProgramSteps DEF M!AdminUpdateOwner
  <2>3. /\ space' = space /\ banned' = banned /\ invite' = invite
        /\ entered' = entered /\ enrolled' = enrolled /\ roster' = roster
        /\ claimed' = claimed /\ welcomes' = welcomes
    BY <1>5 DEF M!AdminUpdateOwner, M!NoSpaceChange
  <2> QED
    BY <2>2, <2>3, RequestKeepsSpace
<1> QED
  BY <1>1, <1>2, <1>3, <1>4, <1>5 DEF M!Requested

LEMMA DeleteKeepsSpace ==
  ASSUME SpaceInv, NEW w \in Request, M!DeleteSpace(w)
  PROVE  SpaceInv'
<1>1. PICK u \in Member : u = space.owner
  BY DEF SpaceInv, M!TypeOK
<1>2. PICK t \in Programs : t = <<"gone", "drop">>
  BY DEF Programs
<1>3. M!Begin(w, u, t) /\ Head(t) = "gone"
  BY <1>1, <1>2, ProgramSteps DEF M!DeleteSpace
<1>4. /\ space' = space /\ banned' = banned /\ invite' = invite
      /\ entered' = entered /\ enrolled' = enrolled /\ roster' = roster
      /\ claimed' = claimed /\ welcomes' = welcomes
  BY DEF M!DeleteSpace, M!NoSpaceChange
<1> QED
  BY <1>3, <1>4, RequestKeepsSpace

\* What is done at once, outside any request.
LEMMA AtOnceKeeps ==
  ASSUME SpaceInv, requests' = requests, M!TypeOK', M!InviteCounted',
         enrolled' = enrolled, banned' \subseteq banned, claimed' = claimed,
         welcomes' = welcomes, raced' = raced, roster' = roster,
         space'.live = space.live, space'.owner = space.owner
  PROVE  SpaceInv'
<1>1. (Alive' <=> Alive) /\ \A x : Owns(x)' <=> Owns(x)
  BY DEF Alive, Owns
<1>2. M!Deleted' <=> M!Deleted
  BY DEF M!Deleted, M!Runs
<1>3. ASSUME NEW x \in Member
      PROVE  MemberOK(x)'
  <2>1. MemberOK(x) /\ M!About(x)' = M!About(x)
    BY DEF SpaceInv, M!About
  <2>2. \A v \in M!About(x) : requests'[v] = requests[v]
    OBVIOUS
  <2> QED
    BY <1>1, <1>2, <2>1, <2>2, OthersStay
<1> QED
  BY <1>3 DEF SpaceInv

LEMMA ContinueKeeps ==
  ASSUME SpaceInv, NEW w \in Request, M!Continue(w)
  PROVE  SpaceInv'
<1>1. requests[w] # NoRequest
  BY DEF M!Continue, M!AddMember, M!ConfirmMember, M!AnnounceJoin, M!ClaimIntroduction,
         M!RemoveMember, M!InsertBan, M!AnnounceLeave, M!EnrolOwner, M!SetOwner,
         M!AnnounceDelete, M!DropSpace, M!PostIntroduction, M!Runs
<1>2. PICK u \in Member : u = requests[w].user
  BY <1>1 DEF SpaceInv, M!TypeOK
<1>3. CASE \E works \in BOOLEAN : M!PostIntroduction(w, works)
  BY <1>2, <1>3, WelcomeKeeps
<1>4. CASE M!AddMember(w) \/ M!ConfirmMember(w) \/ M!AnnounceJoin(w) \/ M!ClaimIntroduction(w)
  BY <1>2, <1>4, AddKeepsSpace, ConfirmKeeps, JoinedKeeps, ClaimKeeps
<1>5. CASE M!RemoveMember(w) \/ M!InsertBan(w) \/ M!AnnounceLeave(w)
  BY <1>2, <1>5, RemoveKeepsSpace, BanKeeps, LeftKeeps
<1>6. CASE M!EnrolOwner(w) \/ M!SetOwner(w) \/ M!AnnounceDelete(w) \/ M!DropSpace(w)
  BY <1>2, <1>6, EnrolKeeps, OwnKeeps, GoneKeeps, DropKeeps
<1> QED
  BY <1>3, <1>4, <1>5, <1>6 DEF M!Continue

LEMMA SpaceStep ==
  ASSUME SpaceInv, [M!Next]_(M!vars)
  PROVE  SpaceInv'
<1>1. M!TypeOK /\ M!InviteCounted
  BY DEF SpaceInv
<1>2. CASE \E w \in Request : M!Continue(w) \/ M!DeleteSpace(w)
  BY <1>2, ContinueKeeps, DeleteKeepsSpace
<1>3. CASE \E w \in Request, u \in Member : M!Requested(w, u)
  BY <1>3, RequestedKeeps
<1>4. CASE \E u \in Member : M!DeleteBan(u)
  <2>1. /\ requests' = requests /\ enrolled' = enrolled /\ banned' \subseteq banned
        /\ claimed' = claimed /\ welcomes' = welcomes /\ raced' = raced
        /\ roster' = roster /\ space' = space /\ invite' = invite /\ entered' = entered
    BY <1>4 DEF M!DeleteBan
  <2>2. M!TypeOK' /\ M!InviteCounted'
    BY <1>1, <2>1 DEF M!TypeOK, M!InviteCounted
  <2> QED
    BY <2>1, <2>2, AtOnceKeeps
<1>5. CASE M!DeleteInvite
  <2>1. /\ requests' = requests /\ enrolled' = enrolled /\ banned' = banned
        /\ claimed' = claimed /\ welcomes' = welcomes /\ raced' = raced
        /\ roster' = roster /\ space' = space /\ entered' = entered
        /\ invite' = [invite EXCEPT !.live = FALSE]
    BY <1>5 DEF M!DeleteInvite
  <2>2. /\ invite' \in [live: BOOLEAN, uses: Nat] /\ invite'.uses = invite.uses
        /\ ~invite'.live
    BY <1>1, <2>1 DEF M!TypeOK
  <2>3. M!TypeOK' /\ M!InviteCounted'
    BY <1>1, <2>1, <2>2 DEF M!TypeOK, M!InviteCounted
  <2> QED
    BY <2>1, <2>3, AtOnceKeeps
<1>6. CASE M!SetSystemChannel
  <2>1. /\ requests' = requests /\ enrolled' = enrolled /\ banned' = banned
        /\ claimed' = claimed /\ welcomes' = welcomes /\ raced' = raced
        /\ roster' = roster /\ invite' = invite /\ entered' = entered
        /\ space' = [space EXCEPT !.system = ~@]
    BY <1>6 DEF M!SetSystemChannel
  <2>2. /\ space' \in [live: BOOLEAN, owner: Member, system: BOOLEAN]
        /\ space'.live = space.live /\ space'.owner = space.owner
    BY <1>1, <2>1 DEF M!TypeOK
  <2>3. M!TypeOK' /\ M!InviteCounted'
    BY <1>1, <2>1, <2>2 DEF M!TypeOK, M!InviteCounted
  <2> QED
    BY <2>1, <2>2, <2>3, AtOnceKeeps
<1>7. CASE UNCHANGED M!vars
  <2>1. /\ requests' = requests /\ enrolled' = enrolled /\ banned' = banned
        /\ claimed' = claimed /\ welcomes' = welcomes /\ raced' = raced
        /\ roster' = roster /\ space' = space /\ invite' = invite /\ entered' = entered
    BY <1>7 DEF M!vars
  <2>2. M!TypeOK' /\ M!InviteCounted'
    BY <1>1, <2>1 DEF M!TypeOK, M!InviteCounted
  <2> QED
    BY <2>1, <2>2, AtOnceKeeps
<1> QED
  BY <1>2, <1>3, <1>4, <1>5, <1>6, <1>7 DEF M!Next

LEMMA SpaceInvSays == SpaceInv => SpaceHolds
<1> SUFFICES ASSUME SpaceInv
             PROVE  /\ M!TypeOK /\ M!BannedAreOut /\ M!InviteCounted /\ M!IntroducedOnce
                    /\ M!OwnerIsMember /\ M!RosterSettled
  BY DEF SpaceHolds
<1>1. M!TypeOK /\ M!InviteCounted /\ \A u \in Member : MemberOK(u)
  BY DEF SpaceInv
<1>2. M!BannedAreOut
  BY <1>1 DEF M!BannedAreOut, MemberOK, Known, M!TypeOK
<1>3. M!IntroducedOnce
  BY <1>1 DEF M!IntroducedOnce, MemberOK, Introduced
<1>4. M!OwnerIsMember
  <2>1. space.owner \in Member
    BY <1>1 DEF M!TypeOK
  <2> QED
    BY <1>1, <2>1 DEF M!OwnerIsMember, MemberOK, Known, Alive, Owns
<1>5. M!RosterSettled
  <2>1. \A u \in Member : M!About(u) = {} => ~Untold(u)
    BY DEF Untold
  <2> QED
    BY <1>1, <2>1 DEF M!RosterSettled, MemberOK, Known
<1> QED
  BY <1>1, <1>2, <1>3, <1>4, <1>5

\* The membership of a space, whatever joins, invites, bans, departures and
\* changes of owner are in flight: a banned user is not a member, an invite lets in
\* as many as it says, a user is welcomed once, the owner is a member, and clients
\* end up with the table's members, but for users of whom two requests overlapped
\* (join_public_space, accept_invite, create_ban, leave_space, admin_update_space).
THEOREM MembersAreKept == M!Spec => []SpaceHolds
<1>1. M!Init => SpaceInv
  BY SpaceInit
<1>2. SpaceInv /\ [M!Next]_(M!vars) => SpaceInv'
  BY SpaceStep
<1>3. SpaceInv => SpaceHolds
  BY SpaceInvSays
<1> QED
  BY <1>1, <1>2, <1>3, PTL DEF M!Spec
===============================================================================
