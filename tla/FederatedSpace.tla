--------------------------- MODULE FederatedSpace ---------------------------
(***************************************************************************)
(* A space lives on its home server.  Another server mirrors it once one   *)
(* of its users (a fan) has joined: from a snapshot taken during the join, *)
(* then from the events the home fans out while it has a member from that  *)
(* server.  What a fan writes is forwarded to the home, and comes back as  *)
(* such an event.  The outbox of FederationDelivery applies each event     *)
(* once, but not in order: here the events under way are a set.            *)
(***************************************************************************)
EXTENDS Integers, FiniteSets

CONSTANTS
  Fan,       \* users of the mirroring server
  Item,      \* what the home may store: messages, emojis, reactions, members
  Kind,      \* "message", "emoji", "reaction" or "member" of each item
  On,        \* the message a reaction is on
  Request,   \* signed requests to the home in progress
  NoRequest,
  MaxClock   \* bound: changes of the home

VARIABLES
  members,  \* home: fans with a row in members
  content,  \* home: the change that wrote what an item now holds, 0 without a row
  made,     \* home: items ever created; ids are not used again
  clock,    \* home: changes so far
  events,   \* fanned out and not applied yet
  mirrored, \* mirror: the space and its channel have rows
  copy,     \* mirror: as content
  rows,     \* mirror: the members of the space, by the ids it stores
  requests,
  seen,     \* history: the latest change of an item shown to the mirror, or withheld
  apart,    \* history: items the mirror was not told of, or not in order
  broken    \* history: fans whose membership was changed by half

home == <<members, content, made, clock>>
mirror == <<mirrored, copy, rows>>
fvars == <<home, events, mirror, requests, seen, apart, broken>>

Of(kind) == {i \in Item : Kind[i] = kind}
Marks(i) == {r \in Of("reaction") : On[r] = i}
Later(x, y) == IF x < y THEN y ELSE x

\* The id of a user of the mirroring server, as it leaves that server.
Qualified(u) == <<u, "mirror">>
Event == [what : {"create", "update", "delete"}, of : Item, at : 1..MaxClock]
  \cup [what : {"leave"}, of : {Qualified(u) : u \in Fan}]
Snapshot == [Item -> 0..MaxClock]
NoSnapshot == [i \in Item |-> 0]
RequestRecord ==
  [who : Fan, what : {"join", "leave", "create", "update", "delete"}, of : Item \cup {NoRequest},
   stage : {"sent", "admitted", "done", "applying"}, awaited : BOOLEAN,
   snapshot : Snapshot, taken : 0..MaxClock]

TypeOK ==
  /\ members \subseteq Fan
  /\ content \in Snapshot
  /\ made \subseteq Item
  /\ clock \in 0..MaxClock
  /\ events \subseteq Event
  /\ mirrored \in BOOLEAN
  /\ copy \in Snapshot
  /\ rows \subseteq Fan
  /\ requests \in [Request -> RequestRecord \cup {NoRequest}]
  /\ seen \in [Item -> 0..MaxClock]
  /\ apart \subseteq Item
  /\ broken \subseteq Fan

FInit ==
  /\ members = {}
  /\ content = NoSnapshot /\ copy = NoSnapshot /\ seen = NoSnapshot
  /\ made = {} /\ events = {} /\ apart = {} /\ broken = {} /\ rows = {}
  /\ clock = 0
  /\ mirrored = FALSE
  /\ requests = [q \in Request |-> NoRequest]
-----------------------------------------------------------------------------
(* The home.                                                               *)

\* A reaction or a member is there or not; a message or an emoji has a content.
Written(i) == IF Kind[i] \in {"reaction", "member"} THEN 1 ELSE clock'
Parented(i) == Kind[i] = "reaction" => content[On[i]] # 0

Possible(what, i) ==
  CASE Kind[i] = "reaction" -> what # "update" /\ Parented(i)
    [] Kind[i] = "member" -> what = (IF content[i] = 0 THEN "create" ELSE "delete")
    [] what = "create" -> i \notin made
    [] OTHER -> content[i] # 0
\* The reactions of a deleted message go with it.
Touched(what, i) == {i} \cup (IF what = "delete" THEN Marks(i) ELSE {})
Changed(what, i) ==
  IF what = "delete" THEN [j \in Item |-> IF j \in Touched(what, i) THEN 0 ELSE content[j]]
  ELSE [content EXCEPT ![i] = Written(i)]

\* History: a change of an item, and of what goes with it, is shown or withheld.
Saw(items, at) == seen' = [i \in Item |-> IF i \in items THEN Later(seen[i], at) ELSE seen[i]]
Withhold(what, i) == /\ apart' = apart \cup Touched(what, i)
                     /\ Saw(Touched(what, i), clock')

\* Only a server with a member in the space is told.
Interested == members # {}
FanOut(event) == events' = events \cup (IF Interested THEN {event} ELSE {})

Change(what, i) ==
  /\ Possible(what, i) /\ clock < MaxClock
  /\ clock' = clock + 1
  /\ content' = Changed(what, i)
  /\ made' = made \cup {i}
  /\ FanOut([what |-> what, of |-> i, at |-> clock'])
  /\ IF Interested THEN UNCHANGED <<seen, apart>> ELSE Withhold(what, i)
  /\ UNCHANGED members

\* A user of the home writes.
WriteAtHome(kind, what, i) ==
  /\ Kind[i] = kind
  /\ Change(what, i)
  /\ UNCHANGED <<mirror, requests, broken>>
CreateMessage(i) == WriteAtHome("message", "create", i)
UpdateMessage(i) == WriteAtHome("message", "update", i)
DeleteMessage(i) == WriteAtHome("message", "delete", i)
AddReaction(i) == WriteAtHome("reaction", "create", i)
RemoveOwnReaction(i) == WriteAtHome("reaction", "delete", i)
CreateEmoji(i) == WriteAtHome("emoji", "create", i)
UpdateEmoji(i) == WriteAtHome("emoji", "update", i)
DeleteEmoji(i) == WriteAtHome("emoji", "delete", i)
JoinSpace(i) == WriteAtHome("member", "create", i)
LeaveSpace(i) == WriteAtHome("member", "delete", i)

\* Deleting several messages at once tells no one.
BulkDelete(i) ==
  /\ Kind[i] = "message" /\ content[i] # 0 /\ clock < MaxClock
  /\ clock' = clock + 1
  /\ content' = Changed("delete", i)
  /\ Withhold("delete", i)
  /\ UNCHANGED <<members, made, events, mirror, requests, broken>>

\* The servers to tell are read before the row is deleted.
Remove(u) ==
  /\ members' = members \ {u}
  /\ FanOut([what |-> "leave", of |-> Qualified(u)])
  /\ UNCHANGED <<content, made, clock>>
KickMember(u) ==
  /\ u \in members
  /\ Remove(u)
  /\ broken' = broken \cup {u}
  /\ UNCHANGED <<mirror, requests, seen, apart>>
\* A ban takes the row as well, and tells only the home's own clients.
CreateBan(u) ==
  /\ u \in members
  /\ members' = members \ {u}
  /\ broken' = broken \cup {u}
  /\ UNCHANGED <<content, made, clock, events, mirror, requests, seen, apart>>
-----------------------------------------------------------------------------
(* Requests of the mirroring server.  They end without an answer when the  *)
(* connection breaks or 15 seconds have passed; the home may still be at   *)
(* work on them, or have done it.                                          *)

Runs(q, what, stage) ==
  requests[q] # NoRequest /\ requests[q].what \in what /\ requests[q].stage = stage
Writes == {"create", "update", "delete"}
Moves(u) == {q \in Request : requests[q] # NoRequest /\ requests[q].who = u
                             /\ requests[q].what \in {"join", "leave"}}
Send(q, u, what, i) ==
  /\ requests[q] = NoRequest
  /\ requests' = [requests EXCEPT ![q] = [who |-> u, what |-> what, of |-> i, stage |-> "sent",
                    awaited |-> TRUE, snapshot |-> NoSnapshot, taken |-> 0]]
Goto(q, stage) == requests' = [requests EXCEPT ![q].stage = stage]
End(q) == requests' = [requests EXCEPT ![q] = NoRequest]

\* History: two requests of one fan cross, or one starts over what was broken.
Crossing(u) == broken' = IF Moves(u) = {} THEN broken ELSE broken \cup {u}
Mend(q) == broken' = IF Moves(requests[q].who) = {q} /\ requests[q].awaited
                     THEN broken \ {requests[q].who} ELSE broken

InitiateJoin(q, u) ==
  /\ Send(q, u, "join", NoRequest)
  /\ Crossing(u)
  /\ UNCHANGED <<home, events, mirror, seen, apart>>
ForwardLeave(q, u) ==
  /\ u \in rows
  /\ Send(q, u, "leave", NoRequest)
  /\ Crossing(u)
  /\ UNCHANGED <<home, events, mirror, seen, apart>>
ForwardWrite(q, u, what, i) ==
  /\ u \in rows
  /\ Send(q, u, what, i)
  /\ UNCHANGED <<home, events, mirror, seen, apart, broken>>
ForwardMessage(q, u, i) == Kind[i] = "message" /\ ForwardWrite(q, u, "create", i)
\* An edit or a deletion names a message the mirror has, a reaction one on it.
ForwardEdit(q, u, i) ==
  Kind[i] = "message" /\ copy[i] # 0 /\ ForwardWrite(q, u, "update", i)
ForwardDelete(q, u, i) ==
  Kind[i] = "message" /\ copy[i] # 0 /\ ForwardWrite(q, u, "delete", i)
ForwardReaction(q, u, i) ==
  /\ Kind[i] = "reaction" /\ copy[On[i]] # 0
  /\ \E what \in {"create", "delete"} : ForwardWrite(q, u, what, i)

\* The mirror keeps nothing of a write until it comes back as an event, so that
\* the answer to one changes nothing.
ServeWrite(q, what, kind) ==
  /\ Runs(q, what, "sent") /\ Kind[requests[q].of] = kind
  /\ requests[q].who \in members
  /\ Change(requests[q].what, requests[q].of)
  /\ End(q)
  /\ UNCHANGED <<mirror, broken>>
ServeSend(q) == ServeWrite(q, {"create"}, "message")
ServeEdit(q) == ServeWrite(q, {"update"}, "message")
ServeDelete(q) == ServeWrite(q, {"delete"}, "message")
ServeReact(q) == ServeWrite(q, {"create", "delete"}, "reaction")
\* The home refuses: banned, not federated, not permitted, no such message.
Refuse(q) ==
  /\ Runs(q, Writes \cup {"join", "leave"}, "sent")
  /\ End(q)
  /\ UNCHANGED <<home, events, mirror, seen, apart, broken>>
ServeJoin(q) ==
  /\ Runs(q, {"join"}, "sent")
  /\ members' = members \cup {requests[q].who}
  /\ Mend(q)
  /\ Goto(q, "admitted")
  /\ UNCHANGED <<content, made, clock, events, mirror, seen, apart>>
BuildSnapshot(q) ==
  /\ Runs(q, {"join"}, "admitted")
  /\ requests' = [requests EXCEPT ![q].stage = "done", ![q].taken = clock,
       ![q].snapshot = [i \in Item |-> IF Kind[i] \in {"message", "emoji"} THEN content[i] ELSE 0]]
  /\ UNCHANGED <<home, events, mirror, seen, apart, broken>>
ServeLeave(q) ==
  /\ Runs(q, {"leave"}, "sent")
  /\ Remove(requests[q].who)
  /\ Mend(q)
  /\ Goto(q, "done")
  /\ UNCHANGED <<mirror, seen, apart>>

\* The caller of a join or a leave stops waiting.
GiveUp(q) ==
  /\ requests[q] # NoRequest /\ requests[q].what \notin Writes
  /\ requests[q].awaited /\ requests[q].stage # "applying"
  /\ requests' = [requests EXCEPT ![q].awaited = FALSE]
  /\ broken' = broken \cup {requests[q].who}
  /\ UNCHANGED <<home, events, mirror, seen, apart>>
Unheard(q) ==
  /\ requests[q] # NoRequest /\ ~requests[q].awaited /\ requests[q].stage = "done"
  /\ End(q)
  /\ UNCHANGED <<home, events, mirror, seen, apart, broken>>

\* Mutant: the answer to a leave is enough.
FinishLeaveUnrecorded(q) ==
  /\ Runs(q, {"leave"}, "done") /\ requests[q].awaited
  /\ End(q)
  /\ UNCHANGED <<home, events, mirror, seen, apart, broken>>
FinishLeave(q) ==
  /\ Runs(q, {"leave"}, "done") /\ requests[q].awaited
  /\ rows' = rows \ {requests[q].who}
  /\ End(q)
  /\ UNCHANGED <<home, events, mirrored, copy, seen, apart, broken>>
-----------------------------------------------------------------------------
(* The snapshot is applied: the space, its channel and emojis are updated, *)
(* messages are inserted where they are missing, the fan becomes a member. *)

Insert(given, at, new) ==
  /\ copy' = [i \in Item |-> IF i \in new THEN given[i] ELSE copy[i]]
  /\ Saw(new, at)
  /\ apart' = (apart \ new) \cup {i \in new : at < seen[i]}

ApplySpace(q) ==
  LET given == requests[q].snapshot IN
  /\ Runs(q, {"join"}, "done") /\ requests[q].awaited
  /\ mirrored' = TRUE
  /\ Insert(given, requests[q].taken, {i \in Of("emoji") : given[i] # 0})
  /\ Goto(q, "applying")
  /\ UNCHANGED <<home, events, rows, broken>>
ApplyMessages(q) ==
  LET given == requests[q].snapshot IN
  /\ Runs(q, {"join"}, "applying")
  /\ Insert(given, requests[q].taken, {i \in Of("message") : given[i] # 0 /\ copy[i] = 0})
  /\ rows' = rows \cup {requests[q].who}
  /\ End(q)
  /\ UNCHANGED <<home, events, mirrored, broken>>
-----------------------------------------------------------------------------
(* The mirror applies an event.                                            *)

\* Without the row an event needs it is acknowledged and ignored.
Apply(e, there, new) ==
  /\ events' = events \ {e}
  /\ copy' = IF there THEN new ELSE copy
  /\ Saw(Touched(e.what, e.of), e.at)
  /\ apart' = apart
       \cup {i \in Item : copy'[i] # copy[i] /\ e.at < seen[i]}
       \cup (IF e.what = "create" /\ ~there THEN {e.of} ELSE {})
  /\ UNCHANGED <<home, mirrored, rows, requests, broken>>
Tells(e, what, kind) == e \in events /\ e.what \in what /\ Kind[e.of] = kind
With(i, x) == [copy EXCEPT ![i] = x]
Without(i) == [j \in Item |-> IF j \in Touched("delete", i) THEN 0 ELSE copy[j]]

ApplyMessageCreate(e) ==
  /\ Tells(e, {"create"}, "message")
  /\ Apply(e, mirrored, IF copy[e.of] # 0 THEN copy ELSE With(e.of, e.at))
ApplyMessageUpdate(e) ==
  Tells(e, {"update"}, "message") /\ Apply(e, copy[e.of] # 0, With(e.of, e.at))
ApplyMessageDelete(e) ==
  Tells(e, {"delete"}, "message") /\ Apply(e, copy[e.of] # 0, Without(e.of))
ApplyReaction(e) ==
  /\ Tells(e, {"create", "delete"}, "reaction")
  /\ Apply(e, copy[On[e.of]] # 0, With(e.of, IF e.what = "create" THEN 1 ELSE 0))
ApplyEmojiUpsert(e) ==
  Tells(e, {"create", "update"}, "emoji") /\ Apply(e, mirrored, With(e.of, e.at))
ApplyEmojiDelete(e) ==
  Tells(e, {"delete"}, "emoji") /\ Apply(e, copy[e.of] # 0, Without(e.of))
ApplyMemberJoin(e) ==
  Tells(e, {"create"}, "member") /\ Apply(e, mirrored, With(e.of, 1))
ApplyMemberGone(e) ==
  Tells(e, {"delete"}, "member") /\ Apply(e, mirrored, Without(e.of))
\* The row named by the departed user's qualified id is deleted.
ApplyMemberLeave(e) ==
  /\ e \in events /\ e.what = "leave"
  /\ events' = events \ {e}
  /\ rows' = rows \ {e.of}
  /\ UNCHANGED <<home, mirrored, copy, requests, seen, apart, broken>>

Serve(q) ==
  \/ Refuse(q) \/ ServeJoin(q) \/ BuildSnapshot(q) \/ ServeLeave(q)
  \/ ServeSend(q) \/ ServeEdit(q) \/ ServeDelete(q) \/ ServeReact(q)
Resume(q) == Unheard(q) \/ FinishLeave(q) \/ ApplySpace(q) \/ ApplyMessages(q)
Receive(e) ==
  \/ ApplyMessageCreate(e) \/ ApplyMessageUpdate(e) \/ ApplyMessageDelete(e)
  \/ ApplyReaction(e) \/ ApplyEmojiUpsert(e) \/ ApplyEmojiDelete(e)
  \/ ApplyMemberJoin(e) \/ ApplyMemberGone(e) \/ ApplyMemberLeave(e)
Write(i) ==
  \/ CreateMessage(i) \/ UpdateMessage(i) \/ DeleteMessage(i) \/ BulkDelete(i)
  \/ AddReaction(i) \/ RemoveOwnReaction(i)
  \/ CreateEmoji(i) \/ UpdateEmoji(i) \/ DeleteEmoji(i)
  \/ JoinSpace(i) \/ LeaveSpace(i)
Forward(q, u, i) ==
  ForwardMessage(q, u, i) \/ ForwardEdit(q, u, i) \/ ForwardDelete(q, u, i) \/ ForwardReaction(q, u, i)
FNext ==
  \/ \E i \in Item : Write(i)
  \/ \E u \in Fan : KickMember(u) \/ CreateBan(u)
  \/ \E q \in Request, u \in Fan :
       \/ InitiateJoin(q, u) \/ ForwardLeave(q, u)
       \/ \E i \in Item : Forward(q, u, i)
  \/ \E q \in Request : Serve(q) \/ GiveUp(q) \/ Resume(q)
  \/ \E e \in events : Receive(e)
FSpec == FInit /\ [][FNext]_fvars
-----------------------------------------------------------------------------
(* Properties.                                                             *)

About(i) == {e \in events : e.what # "leave" /\ i \in Touched(e.what, e.of)}
\* What the mirror holds of an item no event is under way for is what the
\* home holds, unless the home did not tell it, an event came before the
\* mirror existed, or the events were applied out of order (apply_event).
CopyAgrees == \A i \in Item : About(i) = {} => i \in apart \/ copy[i] = content[i]

\* A fan is a member on both servers or on neither, once no join or leave of
\* theirs is in progress, unless the home removed them or the last request
\* ended unheard: asking again repairs it (initiate_join, forward_leave).
MembershipAgrees == \A u \in Fan :
  Moves(u) = {} /\ u \notin broken => (u \in rows <=> u \in members)

\* Once the mirror has applied the departure of a fan the home removed, the fan
\* is not a member there either (kick_member: "their home server (otherwise it
\* would never learn of the departure)").
KickArrives == [][\A u \in Fan \ members :
  (\E e \in events \ events' : e.of = Qualified(u)) => u \notin rows']_fvars

\* A fan's row at the mirror goes only when they leave themselves: no event takes
\* it, whatever the home announces (apply_member_leave, against kick_member).
OnlyLeavingRemoves == [][\A u \in rows \ rows' :
  \E q \in Request : Runs(q, {"leave"}, "done") /\ requests[q].who = u]_fvars
=============================================================================
