-------------------------- MODULE FederatedDirect ---------------------------
(***************************************************************************)
(* A direct message between users of two servers.  The server of the lower *)
(* qualified id is its home and keeps the channel; the other mirrors it.   *)
(* Either user may open it, either may have blocked the other, and a       *)
(* request between the servers may be refused or end without an answer.    *)
(* Each server has one user here, so that a server stands for its user.    *)
(***************************************************************************)
EXTENDS Integers, FiniteSets

CONSTANTS
  Server,   \* two servers, a user on each
  First,    \* the one whose user has the lower qualified id
  Chan,     \* channels that may be created
  Message,
  Open,     \* requests to open the conversation in progress
  NoOpen,
  Nowhere   \* the home of a channel that does not exist, a message not sent

VARIABLES
  held,       \* table channels of each server
  homed,      \* the server that created the channel
  blocking,   \* servers whose user blocks the other
  opens,
  posted,     \* messages, each with its channel, the home stores
  shown,      \* and the mirror
  creations,     \* m.dm.message.create under way
  overlapped, \* history: two requests looked for a channel at once
  cut,        \* history: channels whose opening ended without an answer
  undone,     \* history: channels that were deleted again
  ignored     \* history: messages that came to a mirror without their channel

dvars == <<held, homed, blocking, opens, posted, shown, creations,
           overlapped, cut, undone, ignored>>
history == <<overlapped, cut, undone, ignored>>

OpenRecord ==
  [by : Server, chan : Chan \cup {Nowhere}, late : BOOLEAN,
   stage : {"asked", "find", "insert", "announced", "consented", "accepted",
            "rejected", "answered"}]

Post == Message \X Chan

TypeOK ==
  /\ held \in [Server -> SUBSET Chan]
  /\ homed \in [Chan -> Server \cup {Nowhere}]
  /\ blocking \subseteq Server
  /\ opens \in [Open -> OpenRecord \cup {NoOpen}]
  /\ posted \subseteq Post /\ shown \subseteq Post
  /\ creations \subseteq Post /\ ignored \subseteq Post
  /\ overlapped \in BOOLEAN
  /\ cut \subseteq Chan /\ undone \subseteq Chan

DInit ==
  /\ held = [s \in Server |-> {}]
  /\ homed = [d \in Chan |-> Nowhere]
  /\ opens = [q \in Open |-> NoOpen]
  /\ posted = {} /\ blocking = {} /\ shown = {} /\ creations = {} /\ cut = {} /\ undone = {} /\ ignored = {}
  /\ overlapped = FALSE

Other(s) == CHOOSE t \in Server : t # s
\* Mutant: who opens the conversation keeps it.
HomeForOpener(opener) == opener
\* The same whichever of the two opens the conversation.
HomeFor(opener) == First
Runs(q, stage) == opens[q] # NoOpen /\ opens[q].stage = stage
Home(q) == HomeFor(opens[q].by)
Goto(q, stage) == opens' = [opens EXCEPT ![q].stage = stage]
End(q) == opens' = [opens EXCEPT ![q] = NoOpen]
-----------------------------------------------------------------------------
(* Opening.                                                                *)

OpenDm(q, s) ==
  /\ opens[q] = NoOpen
  /\ opens' = [opens EXCEPT ![q] =
       [by |-> s, chan |-> Nowhere, late |-> Other(s) \in blocking,
        stage |-> IF HomeFor(s) = s THEN "find" ELSE "asked"]]
  /\ UNCHANGED <<held, homed, blocking, posted, shown, creations, history>>

\* The home asks whether its user, the recipient, blocks the opener.
ServeOpen(q) ==
  /\ Runs(q, "asked")
  /\ Goto(q, IF Home(q) \in blocking THEN "rejected" ELSE "find")
  /\ UNCHANGED <<held, homed, blocking, posted, shown, creations, history>>

\* After it, the home's own opener has the channel announced to the other
\* server; a remote one has it answered.
AfterFind(q) == IF Home(q) = opens[q].by THEN "announced" ELSE "answered"
Elsewhere(q) == {r \in Open \ {q} : Runs(r, "insert") /\ Home(r) = Home(q)}
FindExistingDm(q) ==
  /\ Runs(q, "find")
  /\ \/ \E d \in held[Home(q)] :
          opens' = [opens EXCEPT ![q].chan = d, ![q].stage = AfterFind(q)]
     \/ held[Home(q)] = {} /\ Goto(q, "insert")
  /\ overlapped' = (overlapped \/ Elsewhere(q) # {})
  /\ UNCHANGED <<held, homed, blocking, posted, shown, creations, cut, undone, ignored>>
CreateDmChannel(q) ==
  /\ Runs(q, "insert")
  /\ \E d \in Chan :
       /\ homed[d] = Nowhere
       /\ homed' = [homed EXCEPT ![d] = Home(q)]
       /\ held' = [held EXCEPT ![Home(q)] = @ \cup {d}]
       /\ opens' = [opens EXCEPT ![q].chan = d, ![q].stage = AfterFind(q)]
  /\ UNCHANGED <<blocking, posted, shown, creations, history>>

\* The other server asks for its user's consent, then stores the mirror.
HandleAnnounce(q) ==
  /\ Runs(q, "announced")
  /\ Goto(q, IF Other(Home(q)) \in blocking THEN "rejected" ELSE "consented")
  /\ UNCHANGED <<held, homed, blocking, posted, shown, creations, history>>
Mirror(q, s) == held' = [held EXCEPT ![s] = @ \cup {opens[q].chan}]
MirrorAnnounced(q) ==
  /\ Runs(q, "consented")
  /\ Mirror(q, Other(Home(q)))
  /\ Goto(q, "accepted")
  /\ UNCHANGED <<homed, blocking, posted, shown, creations, history>>
MirrorAnswered(q) ==
  /\ Runs(q, "answered")
  /\ Mirror(q, opens[q].by)
  /\ End(q)
  /\ UNCHANGED <<homed, blocking, posted, shown, creations, history>>

\* Any other refusal: the peer is not trusted, out of budget, or fails.
Reject(q) ==
  /\ Runs(q, "asked") \/ Runs(q, "announced")
  /\ Goto(q, "rejected")
  /\ UNCHANGED <<held, homed, blocking, posted, shown, creations, history>>
FinishAccepted(q) ==
  /\ Runs(q, "accepted")
  /\ End(q)
  /\ UNCHANGED <<held, homed, blocking, posted, shown, creations, history>>
\* Deleting the channel takes its messages along.
DeleteChannel(d) ==
  /\ held' = [held EXCEPT ![homed[d]] = @ \ {d}]
  /\ posted' = {p \in posted : p[2] # d}
  /\ undone' = undone \cup {d}
RollBack(q) ==
  /\ Runs(q, "rejected")
  /\ IF opens[q].chan # Nowhere THEN DeleteChannel(opens[q].chan)
     ELSE UNCHANGED <<held, posted, undone>>
  /\ End(q)
  /\ UNCHANGED <<homed, blocking, shown, creations, overlapped, cut, ignored>>
\* No answer: what is in progress at the other end goes on by itself, or was
\* never received.  Nothing is rolled back.
LoseAnswer(q) ==
  /\ \/ Runs(q, "asked") \/ Runs(q, "announced") \/ Runs(q, "accepted") \/ Runs(q, "answered")
  /\ cut' = cut \cup ({opens[q].chan} \ {Nowhere})
  /\ End(q)
  /\ UNCHANGED <<held, homed, blocking, posted, shown, creations, overlapped, undone, ignored>>

Block(s) ==
  /\ blocking' = blocking \cup {s}
  /\ UNCHANGED <<held, homed, opens, posted, shown, creations, history>>
Unblock(s) ==
  /\ blocking' = blocking \ {s}
  /\ opens' = [q \in Open |-> IF opens[q] # NoOpen /\ Other(opens[q].by) = s
                              THEN [opens[q] EXCEPT !.late = FALSE] ELSE opens[q]]
  /\ UNCHANGED <<held, homed, posted, shown, creations, history>>
-----------------------------------------------------------------------------
(* Messages: the home stores each and announces it to the mirror.  The     *)
(* mirror stores none of its own: it forwards them to the home.            *)

Used == {p[1] : p \in posted \cup shown \cup creations \cup ignored}
Store(m, d) ==
  /\ m \notin Used
  /\ posted' = posted \cup {<<m, d>>}
  /\ creations' = creations \cup {<<m, d>>}
  /\ UNCHANGED <<held, homed, blocking, opens, shown, history>>
CreateMessage(m, d) == homed[d] # Nowhere /\ d \in held[homed[d]] /\ Store(m, d)
ForwardDmMessage(m, d) ==
  /\ homed[d] # Nowhere /\ d \in held[Other(homed[d])]
  /\ d \in held[homed[d]]
  /\ Store(m, d)

ApplyMessageCreate(p) ==
  /\ p \in creations
  /\ creations' = creations \ {p}
  /\ IF p[2] \in held[Other(homed[p[2]])]
     THEN shown' = shown \cup {p} /\ UNCHANGED ignored
     ELSE ignored' = ignored \cup {p} /\ UNCHANGED shown
  /\ UNCHANGED <<held, homed, blocking, opens, posted, overlapped, cut, undone>>

Handle(q) ==
  \/ ServeOpen(q) \/ FindExistingDm(q) \/ CreateDmChannel(q) \/ HandleAnnounce(q)
  \/ MirrorAnnounced(q) \/ MirrorAnswered(q) \/ Reject(q) \/ FinishAccepted(q)
  \/ RollBack(q) \/ LoseAnswer(q)
DNext ==
  \/ \E q \in Open : Handle(q) \/ \E s \in Server : OpenDm(q, s)
  \/ \E s \in Server : Block(s) \/ Unblock(s)
  \/ \E m \in Message, d \in Chan : CreateMessage(m, d) \/ ForwardDmMessage(m, d)
  \/ \E p \in creations : ApplyMessageCreate(p)
DSpec == DInit /\ [][DNext]_dvars
-----------------------------------------------------------------------------
(* Properties.                                                             *)

\* Both servers take the same one for the home (home_domain_for), and it
\* creates one channel unless two requests look for it at once.
OneConversation ==
  /\ \A d, e \in Chan : Nowhere \in {homed[d], homed[e]} \/ homed[d] = homed[e]
  /\ overlapped \/ \A s \in Server : Cardinality(held[s] \ undone) <= 1

Opening(d) == \E q \in Open : opens[q] # NoOpen /\ opens[q].chan = d
\* Once no one is opening it, a channel is on both servers or on neither
\* (open_dm_as_home: "so we don't leave a half-open DM"), unless its opening
\* ended unheard or a later refusal deleted it.
NotHalfOpen == \A d \in Chan : Opening(d) \/ d \in cut \cup undone \/ homed[d] = Nowhere
  \/ \A s \in Server : d \in held[s]

\* A user who has blocked the opener all along does not get the channel
\* (serve_open, mirror_dm).
BlockedStayOut == \A q \in Open :
  opens[q] # NoOpen /\ opens[q].late =>
    opens[q].stage \in {"asked", "rejected"} \cup
      (IF Home(q) = opens[q].by THEN {"find", "insert", "announced"} ELSE {})

\* Each message is stored on both servers once nothing is under way, unless
\* the mirror had no channel for it or the home's was deleted.
MessagesAgree == \A p \in Post :
  (p \in shown <=> p \in posted) \/ p \in creations \cup ignored \/ p[2] \in undone

\* A conversation the mirror has is one the home still has: taking back an
\* opening leaves those alone that were there before (open_dm: "Open (or reuse)").
HomeHasIt == \A d \in Chan, s \in Server :
  d \in held[s] /\ homed[d] # s => d \in held[homed[d]]
=============================================================================
