----------------------------- MODULE Membership -----------------------------
(***************************************************************************)
(* Who belongs to a space: joining it as a public space or by an invite,   *)
(* leaving, kicks, bans, a new owner, and what other clients and the       *)
(* welcome channel are told.                                               *)
(*                                                                         *)
(* A request checks what it checks when it begins, then runs its           *)
(* statements and broadcasts one by one: requests[w].todo holds those      *)
(* still to run.  The permissions of the caller are not modelled (module   *)
(* Permissions): a moderator's request may come at any time.  Voice and    *)
(* federation are told too (VoiceAccess, FederationDelivery).              *)
(***************************************************************************)
EXTENDS Integers, Sequences, FiniteSets

CONSTANTS
  Member,    \* users who may belong to the space
  Founder,   \* who creates it
  Request,   \* requests in flight at once
  NoRequest, \* a slot without a request
  MaxUses    \* max_uses of the invite

VARIABLES
  space,     \* [live, owner, system]: row of table spaces, with a welcome channel or not
  members,   \* table members
  banned,    \* table bans
  invite,    \* [live, uses]: the row of table invites
  requests,  \* what each request has still to run
  roster,    \* the members a client knows from the gateway's events
  claimed,   \* table space_introductions
  welcomes,  \* introductions posted per user
  entered,   \* history: members inserted by the invite
  raced      \* history: users with two requests about them at once, or
             \* enrolled as owner, of which clients are not told

vars == <<space, members, banned, invite, requests, roster, claimed, welcomes,
          entered, raced>>

Step == {"add", "confirm", "joined", "claim", "welcome", "remove", "ban",
         "left", "enrol", "own", "gone", "drop"}

TypeOK ==
  /\ space \in [live: BOOLEAN, owner: Member, system: BOOLEAN]
  /\ members \subseteq Member /\ banned \subseteq Member
  /\ roster \subseteq Member /\ claimed \subseteq Member
  /\ invite \in [live: BOOLEAN, uses: Nat]
  /\ requests \in [Request ->
       [todo: Seq(Step), user: Member] \cup {NoRequest}]
  /\ \A w \in Request : requests[w] # NoRequest => requests[w].todo # <<>>
  /\ welcomes \in [Member -> Nat] /\ entered \in Nat
  /\ raced \subseteq Member
  /\ ~space.live => members = {} /\ banned = {} /\ ~invite.live

\* create_space: its statements run before any other request knows the space.
Init ==
  /\ space = [live |-> TRUE, owner |-> Founder, system |-> TRUE]
  /\ members = {Founder} /\ roster = {Founder} /\ banned = {}
  /\ invite = [live |-> TRUE, uses |-> 0]
  /\ requests = [w \in Request |-> NoRequest]
  /\ claimed = {} /\ welcomes = [u \in Member |-> 0]
  /\ entered = 0 /\ raced = {}

About(u) == {w \in Request : requests[w] # NoRequest /\ requests[w].user = u}
Begin(w, u, todo) ==
  /\ requests[w] = NoRequest
  /\ requests' = [requests EXCEPT ![w] = [todo |-> todo, user |-> u]]
  /\ raced' = IF About(u) # {} THEN raced \cup {u} ELSE raced
Runs(w, step) == requests[w] # NoRequest /\ Head(requests[w].todo) = step
Advance(w) == requests' = [requests EXCEPT ![w] =
  IF Len(@.todo) = 1 THEN NoRequest ELSE [todo |-> Tail(@.todo), user |-> @.user]]
Finish(w) == requests' = [requests EXCEPT ![w] = NoRequest]
NoSpaceChange == UNCHANGED <<space, banned, invite, entered>>
Welcoming == <<"claim", "welcome">>
Announcing == <<"confirm", "joined">> \o Welcoming
-----------------------------------------------------------------------------
JoinPublicSpace(w, u) ==
  /\ space.live /\ u \notin banned
  /\ Begin(w, u, <<"add">> \o Announcing)
  /\ NoSpaceChange /\ UNCHANGED <<members, roster, claimed, welcomes>>

\* INSERT OR IGNORE: who is a member already is not announced again.
AddMember(w) ==
  LET u == requests[w].user IN
  /\ Runs(w, "add")
  /\ IF space.live /\ u \notin members
     THEN members' = members \cup {u} /\ Advance(w)
     ELSE Finish(w) /\ UNCHANGED members
  /\ NoSpaceChange /\ UNCHANGED <<roster, claimed, welcomes, raced>>

Usable == invite.uses < MaxUses

\* One transaction: the ban, the membership, the use counted and the member.
AcceptInvite(w, u) ==
  /\ invite.live /\ u \notin banned \cup members /\ Usable
  /\ invite' = [invite EXCEPT !.uses = @ + 1]
  /\ members' = members \cup {u}
  /\ entered' = entered + 1
  /\ Begin(w, u, Announcing)
  /\ UNCHANGED <<space, banned, roster, claimed, welcomes>>

\* The row of the new member is read back: an error if it is gone.
ConfirmMember(w) ==
  /\ Runs(w, "confirm")
  /\ IF requests[w].user \in members THEN Advance(w) ELSE Finish(w)
  /\ NoSpaceChange
  /\ UNCHANGED <<members, roster, claimed, welcomes, raced>>

AnnounceJoin(w) ==
  /\ Runs(w, "joined")
  /\ roster' = roster \cup {requests[w].user}
  /\ IF space.live /\ space.system THEN Advance(w) ELSE Finish(w)
  /\ NoSpaceChange /\ UNCHANGED <<members, claimed, welcomes, raced>>

\* Mutant: the claim is recorded, whether or not the row was there already.
ClaimsAlways(u) == TRUE
Claims(u) == u \notin claimed

ClaimIntroduction(w) ==
  LET u == requests[w].user IN
  /\ Runs(w, "claim")
  /\ IF space.live /\ Claims(u)
     THEN claimed' = claimed \cup {u} /\ Advance(w)
     ELSE Finish(w) /\ UNCHANGED claimed
  /\ NoSpaceChange /\ UNCHANGED <<members, roster, welcomes, raced>>

\* When the message cannot be created, the claim is given back.
PostIntroduction(w, works) ==
  LET u == requests[w].user IN
  /\ Runs(w, "welcome")
  /\ IF works /\ space.live /\ space.system
     THEN welcomes' = [welcomes EXCEPT ![u] = @ + 1] /\ UNCHANGED claimed
     ELSE claimed' = claimed \ {u} /\ UNCHANGED welcomes
  /\ Advance(w)
  /\ NoSpaceChange /\ UNCHANGED <<members, roster, raced>>
-----------------------------------------------------------------------------
\* The ban takes the membership, then keeps the user out.
BanStatements == <<"remove", "ban", "left">>
RemoveStatements == <<"remove", "left">>

MayLeave(u) == u \in members /\ u # space.owner

LeaveSpace(w, u) ==
  /\ space.live /\ MayLeave(u)
  /\ Begin(w, u, RemoveStatements)
  /\ NoSpaceChange /\ UNCHANGED <<members, roster, claimed, welcomes>>

\* The owner outranks everyone; others may be kicked though they have left.
KickMember(w, u) ==
  /\ space.live /\ u # space.owner
  /\ Begin(w, u, RemoveStatements)
  /\ NoSpaceChange /\ UNCHANGED <<members, roster, claimed, welcomes>>

CreateBan(w, u) ==
  /\ space.live /\ u # space.owner
  /\ Begin(w, u, BanStatements)
  /\ NoSpaceChange /\ UNCHANGED <<members, roster, claimed, welcomes>>

RemoveMember(w) ==
  /\ Runs(w, "remove")
  /\ members' = members \ {requests[w].user}
  /\ Advance(w)
  /\ NoSpaceChange /\ UNCHANGED <<roster, claimed, welcomes, raced>>

InsertBan(w) ==
  /\ Runs(w, "ban")
  /\ IF space.live
     THEN banned' = banned \cup {requests[w].user} /\ Advance(w)
     ELSE Finish(w) /\ UNCHANGED banned
  /\ UNCHANGED <<space, members, invite, roster, claimed, welcomes, entered, raced>>

AnnounceLeave(w) ==
  /\ Runs(w, "left")
  /\ roster' = roster \ {requests[w].user}
  /\ Advance(w)
  /\ NoSpaceChange /\ UNCHANGED <<members, claimed, welcomes, raced>>

DeleteBan(u) ==
  /\ space.live /\ banned' = banned \ {u}
  /\ UNCHANGED <<space, members, invite, requests, roster, claimed, welcomes,
                 entered, raced>>

DeleteInvite ==
  /\ invite.live /\ invite' = [invite EXCEPT !.live = FALSE]
  /\ UNCHANGED <<space, members, banned, requests, roster, claimed, welcomes,
                 entered, raced>>

\* update_space with system_channel_id.
SetSystemChannel ==
  /\ space.live /\ space' = [space EXCEPT !.system = ~@]
  /\ UNCHANGED <<members, banned, invite, requests, roster, claimed, welcomes,
                 entered, raced>>

\* The new owner is made a member first, which nobody is told.
AdminUpdateOwner(w, u) ==
  /\ space.live
  /\ Begin(w, u, <<"enrol", "own">>)
  /\ NoSpaceChange /\ UNCHANGED <<members, roster, claimed, welcomes>>

EnrolOwner(w) ==
  LET u == requests[w].user IN
  /\ Runs(w, "enrol")
  /\ IF space.live THEN members' = members \cup {u} /\ Advance(w)
     ELSE Finish(w) /\ UNCHANGED members
  /\ raced' = raced \cup ({u} \ members)
  /\ NoSpaceChange /\ UNCHANGED <<roster, claimed, welcomes>>

SetOwner(w) ==
  /\ Runs(w, "own")
  /\ space' = IF space.live THEN [space EXCEPT !.owner = requests[w].user] ELSE space
  /\ Advance(w)
  /\ UNCHANGED <<members, banned, invite, roster, claimed, welcomes, entered, raced>>

DeleteSpace(w) ==
  /\ space.live
  /\ Begin(w, space.owner, <<"gone", "drop">>)
  /\ NoSpaceChange /\ UNCHANGED <<members, roster, claimed, welcomes>>

\* space.delete goes out before the rows are gone: clients forget the space.
AnnounceDelete(w) ==
  /\ Runs(w, "gone") /\ roster' = {}
  /\ Advance(w)
  /\ NoSpaceChange /\ UNCHANGED <<members, claimed, welcomes, raced>>

\* One transaction; the foreign keys take what belongs to the space.
DropSpace(w) ==
  /\ Runs(w, "drop")
  /\ space' = [space EXCEPT !.live = FALSE]
  /\ members' = {} /\ banned' = {} /\ claimed' = {}
  /\ invite' = [invite EXCEPT !.live = FALSE]
  /\ Advance(w)
  /\ UNCHANGED <<roster, welcomes, entered, raced>>
-----------------------------------------------------------------------------
Continue(w) ==
  \/ AddMember(w) \/ ConfirmMember(w) \/ AnnounceJoin(w)
  \/ ClaimIntroduction(w) \/ RemoveMember(w) \/ InsertBan(w) \/ AnnounceLeave(w)
  \/ EnrolOwner(w) \/ SetOwner(w) \/ AnnounceDelete(w) \/ DropSpace(w)
  \/ \E works \in BOOLEAN : PostIntroduction(w, works)

Requested(w, u) ==
  \/ JoinPublicSpace(w, u) \/ AcceptInvite(w, u) \/ LeaveSpace(w, u)
  \/ KickMember(w, u) \/ CreateBan(w, u) \/ AdminUpdateOwner(w, u)

Next ==
  \/ \E w \in Request : Continue(w) \/ DeleteSpace(w)
  \/ \E w \in Request, u \in Member : Requested(w, u)
  \/ \E u \in Member : DeleteBan(u)
  \/ DeleteInvite \/ SetSystemChannel

Spec == Init /\ [][Next]_vars
-----------------------------------------------------------------------------
\* A banned user is not a member, unless two requests about them overlapped:
\* create_ban deletes the member before it inserts the ban.
BannedAreOut == \A u \in banned \ raced : u \notin members

\* An invite is never used more often than max_uses, and each use counted is a
\* member it let in (accept_invite's transaction).
InviteCounted == invite.uses <= MaxUses /\ invite.uses = entered

\* A user is introduced at most once while the space exists, however often
\* they join again (broadcast_member_join_message).
IntroducedOnce == \A u \in Member : welcomes[u] <= 1

\* The owner of a space is one of its members, unless requests about them
\* overlapped (leave_space, admin_update_space).
OwnerIsMember == space.live /\ space.owner \notin raced => space.owner \in members

\* Once the requests about a user are over, clients that follow the gateway
\* know them as a member exactly if they are one.
Deleted == ~space.live \/ \E w \in Request : Runs(w, "gone") \/ Runs(w, "drop")
RosterSettled ==
  ~Deleted => \A u \in Member \ raced :
    About(u) = {} => (u \in roster <=> u \in members)
=============================================================================
