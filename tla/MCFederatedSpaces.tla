-------------------------- MODULE MCFederatedSpaces --------------------------
(***************************************************************************)
(* Instances of FederatedSpace and FederatedDirect.  Each behaviour looks  *)
(* at one thing two servers share, the focus: the people of a space while  *)
(* two requests are in progress, its posts and their reactions, its        *)
(* emojis, its roster as the home announces it, or a direct conversation.  *)
(***************************************************************************)
EXTENDS Integers, FiniteSets, TLC

CONSTANTS
  m1, e1, r1, g1,
  Fan, Item, Sort, On, Call, NoRequest, MaxClock,
  Server, First, Chan, Text, Open, NoOpen, Nowhere
VARIABLES
  focus,
  members, content, made, clock, events, mirrored, copy, rows, requests,
  seen, apart, broken,
  held, homed, blocking, opens, posted, received, creations,
  overlapped, cut, undone, ignored

space == <<members, content, made, clock, events, mirrored, copy, rows, requests,
           seen, apart, broken>>
direct == <<held, homed, blocking, opens, posted, received, creations,
            overlapped, cut, undone, ignored>>

S == INSTANCE FederatedSpace WITH Kind <- Sort, Request <- Call
D == INSTANCE FederatedDirect WITH Message <- Text, shown <- received

\* A reaction is on a message.  The id of a user, as it leaves their server, is
\* not one that server stores.  What stands for no request is none.
ASSUME ItemsAssumption ==
  /\ Sort \in [Item -> {"message", "emoji", "reaction", "member"}]
  /\ \A i \in Item : Sort[i] = "reaction" => On[i] \in Item /\ Sort[On[i]] = "message"
  /\ MaxClock \in Nat
  /\ \A u \in Fan : S!Qualified(u) \notin Fan
  /\ NoRequest \notin S!RequestRecord
\* There are two servers.
ASSUME ServersAssumption ==
  /\ \E other \in Server : other # First /\ Server = {First, other}
  /\ Nowhere \notin Server \cup Chan /\ NoOpen \notin D!OpenRecord

SortDef == m1 :> "message" @@ e1 :> "emoji" @@ r1 :> "reaction" @@ g1 :> "member"
OnDef == r1 :> m1
Sym == UNION {Permutations(set) : set \in {Call, Fan, Open, Chan}}

Holds(f) == CASE f = "posts" -> {m1, r1} [] f = "emojis" -> {e1} [] f = "roster" -> {g1}
              [] OTHER -> {}
Busy == {q \in Call : requests'[q] # NoRequest}
\* Bounds: what is written, by whom, and how many requests are in progress.
Within ==
  /\ \A i \in Item \ Holds(focus) : content'[i] = 0
  /\ \A q \in Busy : requests'[q].what \in IF focus = "posts" THEN S!Writes \cup {"join"}
                                           ELSE {"join", "leave"}
  /\ focus # "people" =>
       /\ Cardinality(Busy) < 2
       /\ \E u \in Fan : members' \subseteq {u} /\ \A q \in Busy : requests'[q].who = u

MCInit == S!FInit /\ D!DInit /\ focus \in {"people", "posts", "emojis", "roster", "direct"}
MCNext ==
  /\ UNCHANGED focus
  /\ \/ focus # "direct" /\ S!FNext /\ Within /\ UNCHANGED direct
     \/ focus = "direct" /\ D!DNext /\ UNCHANGED space
MCSpec == MCInit /\ [][MCNext]_<<space, direct, focus>>

\* A shared space (FederatedSpace): the mirror's copies and its members are those
\* of the home once nothing is under way.
MirrorHolds == S!TypeOK /\ S!CopyAgrees /\ S!MembershipAgrees
\* A direct conversation (FederatedDirect): it is one, both servers hold it or
\* neither does, who is blocked gets nothing through, and the messages agree.
ConversationHolds ==
  /\ D!TypeOK /\ D!OneConversation /\ D!NotHalfOpen /\ D!BlockedStayOut
  /\ D!MessagesAgree
=============================================================================
