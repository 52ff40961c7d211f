----------------------------- MODULE Permissions ----------------------------
(***************************************************************************)
(* Roles, their order and permissions, who holds them, and the overwrites  *)
(* of one channel: how the permissions of a user follow from them, and the *)
(* requests that change them.                                              *)
(*                                                                         *)
(* A request checks its author's rank and permissions, then writes what it *)
(* has checked: pending[w] is such a write.  Requests checked before       *)
(* another one's write are stale: what they have read is no longer so.     *)
(* Server administrators, who pass every check, are not modelled.          *)
(***************************************************************************)
EXTENDS Integers, FiniteSets

CONSTANTS
  Owner, Others,  \* the owner of the space, and other users
  Role,           \* roles besides @everyone
  Everyone,       \* the role at position 0
  Perm, ViewChannel, ManageRoles, Administrator, \* permissions, and three of them
  Arrays,         \* the arrays of permissions that requests name
  Top,            \* bound on positions
  Setup,          \* spaces as their owners have set them up
  Slot,           \* requests in flight at once
  Empty,          \* a slot without a request
  MaxWrites       \* bound on the writes of a behaviour

ASSUME PermAssumption ==
  /\ Top \in Nat /\ MaxWrites \in Nat
  /\ {ViewChannel, ManageRoles, Administrator} \subseteq Perm
  /\ Arrays \subseteq SUBSET Perm
  /\ Owner \notin Others /\ Everyone \notin Role
  /\ ({Owner} \cup Others) \cap (Role \cup {Everyone}) = {}
  /\ \A s \in Setup :
       /\ s.position \in [Role \cup {Everyone} -> 0..Top] /\ s.position[Everyone] = 0
       /\ s.grants \in [Role \cup {Everyone} -> SUBSET Perm]
       /\ s.holds \in [{Owner} \cup Others -> SUBSET (Role \cup {Everyone})]

User == {Owner} \cup Others
AnyRole == Role \cup {Everyone}
Target == AnyRole \cup User

VARIABLES
  members,   \* table members
  position,  \* roles.position; 0 for a role that does not exist, and for @everyone
  grants,    \* roles.permissions
  holds,     \* table member_roles
  over,      \* table permission_overwrites of the channel
  pending,   \* the requests in flight
  writes     \* number of writes so far

vars == <<members, position, grants, holds, over, pending, writes>>

Overwrite == [allow: SUBSET Perm, deny: SUBSET Perm]
NoOverwrite == [allow |-> {}, deny |-> {}]
Op == {"grant", "delete", "order", "create", "add", "remove", "clear", "overwrite"}
Order == {order \in [AnyRole -> 0..Top] : order[Everyone] = 0}
Write == [op: Op, by: User, on: Target, role: AnyRole, order: Order,
          roles: SUBSET AnyRole, value: Overwrite, stale: BOOLEAN]

TypeOK ==
  /\ members \subseteq User /\ Owner \in members
  /\ position \in [AnyRole -> 0..Top] /\ position[Everyone] = 0
  /\ grants \in [AnyRole -> SUBSET Perm]
  /\ holds \in [User -> SUBSET AnyRole]
  /\ over \in [Target -> Overwrite]
  /\ pending \in [Slot -> Write \cup {Empty}]
  /\ writes \in Nat

Exists(r) == r = Everyone \/ position[r] > 0

\* Roles that have been created, permissions granted, members taken in.
Init ==
  /\ \E s \in Setup : position = s.position /\ grants = s.grants /\ holds = s.holds
  /\ members = User
  /\ over = [x \in Target |-> NoOverwrite]
  /\ pending = [w \in Slot |-> Empty]
  /\ writes = 0
-----------------------------------------------------------------------------
MaxOf(S) == CHOOSE n \in S : \A k \in S : k <= n

\* get_highest_role_position
Rank(u) == IF u = Owner THEN Top + 1
           ELSE MaxOf({0} \cup {position[r] : r \in holds[u]})

\* has_permission
Has(perms, p) == Administrator \in perms \/ p \in perms

\* resolve_member_permissions
MemberPermissions(u) ==
  IF u = Owner THEN {Administrator}
  ELSE IF u \notin members THEN {}
  ELSE grants[Everyone] \cup UNION {grants[r] : r \in holds[u]}

Apply(perms, o) == (perms \ o.deny) \cup o.allow

Allowed(S) == UNION {over[r].allow : r \in S}
Denied(S) == UNION {over[r].deny : r \in S}

\* Mutant: across roles, a denial wins.
MergeDeny(S) == [allow |-> Allowed(S) \ Denied(S), deny |-> Denied(S)]
\* Across the roles of a member, what one allows wins over what others deny.
Merge(S) == [allow |-> Allowed(S), deny |-> Denied(S) \ Allowed(S)]

\* resolve_channel_permissions
ChannelPermissions(u) ==
  LET base == MemberPermissions(u)
      public == Apply(base, over[Everyone])
      roles == Apply(public, Merge(holds[u] \ {Everyone})) IN
  IF Administrator \in base THEN base
  ELSE IF u \notin members THEN {}
  ELSE Apply(roles, over[u]) \ {Administrator}
-----------------------------------------------------------------------------
Manages(u) == u \in members /\ Has(MemberPermissions(u), ManageRoles)
ManagesHere(u) == /\ Has(ChannelPermissions(u), ViewChannel)
                  /\ Has(ChannelPermissions(u), ManageRoles)

NewWrite(op, a, x) ==
  [op |-> op, by |-> a, on |-> x, role |-> Everyone,
   order |-> [r \in AnyRole |-> 0], roles |-> {}, value |-> NoOverwrite,
   stale |-> FALSE]
Room == writes + Cardinality({v \in Slot : pending[v] # Empty}) < MaxWrites
Submit(w, write) ==
  /\ pending' = [pending EXCEPT ![w] = write]
  /\ UNCHANGED <<members, position, grants, holds, over, writes>>

\* validate_role_permissions
MayGrant(a, perms) ==
  Administrator \in MemberPermissions(a) \/ perms \subseteq MemberPermissions(a)

\* Only the owner creates roles.
CreateRole(w, a, r, perms) ==
  LET highest == MaxOf({position[q] : q \in AnyRole}) IN
  /\ a = Owner /\ ~Exists(r) /\ highest < Top
  /\ Submit(w, [NewWrite("create", a, r) EXCEPT !.role = r, !.value.allow = perms,
       !.order = [q \in AnyRole |-> IF q = r THEN highest + 1 ELSE 0]])

UpdateRole(w, a, r, perms) ==
  /\ Manages(a) /\ Exists(r) /\ position[r] < Rank(a) /\ MayGrant(a, perms)
  /\ Submit(w, [NewWrite("grant", a, r) EXCEPT !.role = r, !.value.allow = perms])

DeleteRole(w, a, r) ==
  /\ Manages(a) /\ position[r] \in 1..(Rank(a) - 1)
  /\ Submit(w, [NewWrite("delete", a, r) EXCEPT !.role = r])

KeepsZero(order) == \A r \in AnyRole : (order[r] = 0) = (position[r] = 0)
\* Each role that moves is below the author before and after.
ReorderRoles(w, a, order) ==
  /\ Manages(a) /\ KeepsZero(order)
  /\ \A r \in AnyRole : \/ order[r] = position[r]
                        \/ position[r] < Rank(a) /\ order[r] < Rank(a)
  /\ Submit(w, [NewWrite("order", a, Everyone) EXCEPT !.order = order])

\* Mutant: one may be given a role as high as one's own.
BelowOrEqual(a, r) == position[r] <= Rank(a)
Below(a, r) == position[r] < Rank(a)

MayManage(a, u) == u = a \/ Rank(u) < Rank(a)
AddRole(w, a, u, r) ==
  /\ Manages(a) /\ MayManage(a, u) /\ Exists(r) /\ Below(a, r)
  /\ Submit(w, [NewWrite("add", a, u) EXCEPT !.roles = {r}])

RemoveRole(w, a, u, r) ==
  /\ Manages(a) /\ MayManage(a, u) /\ Exists(r) /\ Below(a, r)
  /\ Submit(w, [NewWrite("remove", a, u) EXCEPT !.role = r])

\* update_member with roles: all are replaced.
SetRoles(w, a, u, roles) ==
  /\ Manages(a) /\ Rank(u) < Rank(a)
  /\ \A r \in roles : Exists(r) /\ position[r] < Rank(a)
  /\ Submit(w, [NewWrite("clear", a, u) EXCEPT !.roles = roles])

MayOverwrite(a, x, o) ==
  /\ \A p \in o.allow \cup o.deny : p # Administrator
  /\ \A p \in o.allow \cup o.deny \cup over[x].allow \cup over[x].deny :
       Has(ChannelPermissions(a), p)

SetOverwrite(w, a, x, o) ==
  /\ ManagesHere(a) /\ MayOverwrite(a, x, o)
  /\ x \in User => x \in members
  /\ x \in AnyRole => Exists(x)
  /\ Submit(w, [NewWrite("overwrite", a, x) EXCEPT !.value = o])

\* Also for a role or a member that is gone.
DeleteOverwrite(w, a, x) ==
  /\ ManagesHere(a) /\ MayOverwrite(a, x, NoOverwrite)
  /\ Submit(w, NewWrite("overwrite", a, x))
-----------------------------------------------------------------------------
\* After a write, the other requests' checks are of an earlier state.
After(w) == [v \in Slot |-> IF v = w \/ pending[v] = Empty THEN pending[v]
                             ELSE [pending[v] EXCEPT !.stale = TRUE]]
Written(w) ==
  /\ pending' = [After(w) EXCEPT ![w] = Empty]
  /\ writes' = writes + 1
Pending(w, op) == pending[w] # Empty /\ pending[w].op = op

WriteGrants(w) ==
  LET r == pending[w].role IN
  /\ Pending(w, "grant")
  /\ grants' = IF Exists(r) THEN [grants EXCEPT ![r] = pending[w].value.allow] ELSE grants
  /\ Written(w) /\ UNCHANGED <<members, position, holds, over>>

WriteRole(w) ==
  LET r == pending[w].role IN
  /\ Pending(w, "create")
  /\ ~Exists(r)
  /\ position' = [position EXCEPT ![r] = pending[w].order[r]]
  /\ grants' = [grants EXCEPT ![r] = pending[w].value.allow]
  /\ Written(w) /\ UNCHANGED <<members, holds, over>>

\* The foreign key takes the role from its holders; overwrites stay.
WriteDelete(w) ==
  LET r == pending[w].role IN
  /\ Pending(w, "delete")
  /\ position' = [position EXCEPT ![r] = 0]
  /\ grants' = [grants EXCEPT ![r] = {}]
  /\ holds' = [u \in User |-> holds[u] \ {r}]
  /\ Written(w) /\ UNCHANGED <<members, over>>

\* One transaction; a role deleted meanwhile is not there to update.
WriteOrder(w) ==
  /\ Pending(w, "order")
  /\ position' = [r \in AnyRole |-> IF ~Exists(r) \/ pending[w].order[r] = 0
                                    THEN position[r] ELSE pending[w].order[r]]
  /\ Written(w) /\ UNCHANGED <<members, grants, holds, over>>

\* update_member deletes all the roles, then inserts the new ones.
WriteClear(w) ==
  /\ Pending(w, "clear")
  /\ holds' = [holds EXCEPT ![pending[w].on] = {}]
  /\ pending' = [After(w) EXCEPT ![w] =
       IF pending[w].roles = {} THEN Empty ELSE [pending[w] EXCEPT !.op = "add"]]
  /\ writes' = IF pending[w].roles = {} THEN writes + 1 ELSE writes
  /\ UNCHANGED <<members, position, grants, over>>

\* The first that fails (no such member or role) ends the request.
WriteAdd(w) ==
  LET u == pending[w].on IN
  /\ Pending(w, "add")
  /\ \E r \in pending[w].roles :
     /\ holds' = IF u \in members /\ Exists(r)
                 THEN [holds EXCEPT ![u] = @ \cup {r}] ELSE holds
     /\ IF u \in members /\ Exists(r) /\ pending[w].roles # {r}
        THEN /\ pending' = [After(w) EXCEPT ![w].roles = @ \ {r}]
             /\ UNCHANGED writes
        ELSE Written(w)
  /\ UNCHANGED <<members, position, grants, over>>

WriteRemove(w) ==
  /\ Pending(w, "remove")
  /\ holds' = [holds EXCEPT ![pending[w].on] = @ \ {pending[w].role}]
  /\ Written(w) /\ UNCHANGED <<members, position, grants, over>>

WriteOverwrite(w) ==
  /\ Pending(w, "overwrite")
  /\ over' = [over EXCEPT ![pending[w].on] = pending[w].value]
  /\ Written(w) /\ UNCHANGED <<members, position, grants, holds>>

\* A member goes (Membership), with their roles but not their overwrite.
Depart(u) ==
  /\ u \in members /\ u # Owner /\ Room
  /\ members' = members \ {u}
  /\ holds' = [holds EXCEPT ![u] = {}]
  /\ pending' = [v \in Slot |-> IF pending[v] = Empty THEN Empty
                                ELSE [pending[v] EXCEPT !.stale = TRUE]]
  /\ writes' = writes + 1
  /\ UNCHANGED <<position, grants, over>>
-----------------------------------------------------------------------------
Requests(w, a) ==
  \/ \E r \in Role, perms \in Arrays : CreateRole(w, a, r, perms)
  \/ \E r \in AnyRole, perms \in Arrays : UpdateRole(w, a, r, perms)
  \/ \E r \in Role : DeleteRole(w, a, r)
  \/ \E order \in [AnyRole -> 0..Top] : ReorderRoles(w, a, order)
  \/ \E u \in User, r \in AnyRole : AddRole(w, a, u, r) \/ RemoveRole(w, a, u, r)
  \/ \E u \in User, roles \in SUBSET Role : SetRoles(w, a, u, roles)
  \/ \E x \in Target, yes, no \in Arrays :
       SetOverwrite(w, a, x, [allow |-> yes, deny |-> no])
  \/ \E x \in Target : DeleteOverwrite(w, a, x)

Writes(w) ==
  \/ WriteGrants(w) \/ WriteRole(w) \/ WriteDelete(w) \/ WriteOrder(w)
  \/ WriteClear(w) \/ WriteAdd(w) \/ WriteRemove(w) \/ WriteOverwrite(w)

Next ==
  \/ \E w \in Slot : Writes(w)
  \/ \E w \in Slot : /\ pending[w] = Empty /\ Room
                      /\ \E a \in members : Requests(w, a)
  \/ \E u \in User : Depart(u)

Spec == Init /\ [][Next]_vars
-----------------------------------------------------------------------------
\* The documented precedence, permission by permission: the overwrite of the
\* member decides, then those of the roles held (one that allows is enough),
\* then that of @everyone, then the roles' own permissions; administrators pass.
Decided(u, p) ==
  LET held == holds[u] \ {Everyone} IN
  IF p \in over[u].allow \cup over[u].deny THEN p \in over[u].allow
  ELSE IF \E r \in held : p \in over[r].allow THEN TRUE
  ELSE IF \E r \in held : p \in over[r].deny THEN FALSE
  ELSE IF p \in over[Everyone].allow \cup over[Everyone].deny
       THEN p \in over[Everyone].allow
  ELSE \E r \in holds[u] \cup {Everyone} : p \in grants[r]
PrecedenceKept == \A u \in members : \A p \in Perm \ {Administrator} :
  Has(ChannelPermissions(u), p) <=>
    Decided(u, p) \/ Has(MemberPermissions(u), Administrator)

\* Request w, whose checks still hold, writes.
Fresh(w) == /\ pending[w] # Empty /\ ~pending[w].stale
            /\ pending'[w] \notin {pending[w], [pending[w] EXCEPT !.stale = TRUE]}

\* The order of roles bounds whoever manages them: a request changes no role as
\* high as its author's highest, nor who holds it, and raises none so high,
\* unless it is stale.
RankStep == \A w \in Slot, a \in User : Fresh(w) /\ pending[w].by = a =>
  \A r \in AnyRole :
    IF position[r] >= Rank(a)
    THEN /\ position'[r] = position[r] /\ grants'[r] = grants[r]
         /\ \A u \in User : r \in holds'[u] <=> r \in holds[u]
    ELSE position'[r] < Rank(a)
RankRespected == [][RankStep]_vars

\* A change of the overwrites changes for nobody a permission that its author
\* does not have in the channel, unless it is stale.
OverwriteStep == \A w \in Slot : Fresh(w) /\ Pending(w, "overwrite") =>
  \A u \in User, p \in Perm : ~Has(ChannelPermissions(pending[w].by), p) =>
    (p \in ChannelPermissions(u)' <=> p \in ChannelPermissions(u))
OnlyOwnOverwritten == [][OverwriteStep]_vars

\* A change of a role's permissions gives nobody one that its author has not.
GrantStep == \A w \in Slot : Fresh(w) /\ Pending(w, "grant") =>
  \A u \in User, p \in Perm :
    p \in MemberPermissions(u)' \ MemberPermissions(u) =>
      Has(MemberPermissions(pending[w].by), p)
OnlyOwnGranted == [][GrantStep]_vars

\* The tables are of their types, and resolve_channel_permissions resolves each
\* permission in them by the documented precedence.
RolesHold == TypeOK /\ PrecedenceKept

\* What one may do to roles, overwrites and other members is bounded by what one
\* has (roles.rs, members.rs, channels.rs): by one's rank, by one's permissions in
\* the channel and by those in the space, for every request that is not stale.
RightsRespected == [][RankStep /\ OverwriteStep /\ GrantStep]_vars
=============================================================================
