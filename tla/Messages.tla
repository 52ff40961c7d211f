------------------------------ MODULE Messages -------------------------------
(***************************************************************************)
(* The messages of one channel as its members are told of them: slow mode, *)
(* the unread mark, the mention badge and the position a member has read   *)
(* up to (routes/messages.rs, routes/read_states.rs and their queries).    *)
(* A message takes its id first, reads the clock, is admitted and written  *)
(* in one transaction, and counts its mentions last, one by one.  Ids are  *)
(* in the order they are taken; each step may wait for the others'.        *)
(***************************************************************************)
EXTENDS Naturals, Sequences, FiniteSets

CONSTANTS
  Member,
  Request, NoRequest,
  Cooldown,   \* the interval of slow mode
  MaxClock, MaxIds

VARIABLES
  clock,
  slow,      \* the channel's slow mode is on
  issued,    \* the last id taken
  log,       \* history: the messages admitted, in that order
  rows,      \* ids of the messages that are there
  pointer,   \* channels.last_message_id, 0 for none
  lastSent,  \* message_cooldowns, 0 for no row
  read,      \* read_states.last_read_message_id, 0 for none
  badge,     \* read_states.mention_count
  shown,     \* the position a member's other devices show
  counted,   \* history: the mentions of a member that were counted
  cleared,   \* history: those an acknowledgement of an older message cleared
  outrun,    \* history: members whose acknowledgements were not told in order
  requests

mvars == <<clock, slow, issued, log, rows, pointer, lastSent, read, badge, shown,
           counted, cleared, outrun, requests>>
reading == <<read, badge, shown, counted, cleared, outrun>>
channel == <<slow, log, rows, pointer, lastSent>>

Ids == 1..MaxIds
Sent == [id : Ids, by : Member, at : 1..MaxClock, wait : {0, Cooldown}, reply : BOOLEAN,
         pings : SUBSET Member]
RequestRecord ==
  [stage : {"clock", "admit", "count"}, message : [id : Ids, by : Member, at : 0..MaxClock,
     wait : {0, Cooldown}, reply : BOOLEAN, pings : SUBSET Member]] \cup
  [stage : {"tell"}, by : Member, upTo : Ids]

TypeOK ==
  /\ clock \in 1..MaxClock /\ slow \in BOOLEAN /\ issued \in 0..MaxIds
  /\ log \in Seq(Sent) /\ rows \subseteq Ids
  /\ pointer \in 0..MaxIds
  /\ lastSent \in [Member -> 0..MaxClock]
  /\ read \in [Member -> 0..MaxIds] /\ shown \in [Member -> 0..MaxIds]
  /\ badge \in [Member -> 0..MaxIds]
  /\ counted \in [Member -> SUBSET Ids] /\ cleared \in [Member -> SUBSET Ids]
  /\ outrun \subseteq Member
  /\ requests \in [Request -> RequestRecord \cup {NoRequest}]

Init ==
  /\ clock = 1 /\ slow \in BOOLEAN /\ issued = 0
  /\ log = <<>> /\ rows = {} /\ pointer = 0
  /\ lastSent = [u \in Member |-> 0]
  /\ read = [u \in Member |-> 0] /\ shown = read /\ badge = read
  /\ counted = [u \in Member |-> {}] /\ cleared = counted
  /\ outrun = {}
  /\ requests = [q \in Request |-> NoRequest]

Busy(q) == requests[q] # NoRequest
At(q, stage) == Busy(q) /\ requests[q].stage = stage
Begin(q, record) == ~Busy(q) /\ requests' = [requests EXCEPT ![q] = record]
End(q) == requests' = [requests EXCEPT ![q] = NoRequest]
Entries == {log[n] : n \in DOMAIN log}
-----------------------------------------------------------------------------
(* create_message.                                                         *)

\* Slow mode does not hold for who may manage the messages.
CreateMessage(q, u, exempt, reply, pings) ==
  /\ issued < MaxIds
  /\ reply => \E m \in rows : TRUE
  /\ issued' = issued + 1
  /\ Begin(q, [stage |-> "clock",
               message |-> [id |-> issued + 1, by |-> u, at |-> 0, reply |-> reply,
                 wait |-> IF slow /\ ~exempt THEN Cooldown ELSE 0, pings |-> pings \ {u}]])
  /\ UNCHANGED <<clock, channel, reading>>
ReadClock(q) ==
  /\ At(q, "clock")
  /\ requests' = [requests EXCEPT ![q].stage = "admit", ![q].message.at = clock]
  /\ UNCHANGED <<clock, issued, channel, reading>>

InTime(m) == m.wait = 0 \/ lastSent[m.by] = 0 \/ lastSent[m.by] + m.wait <= m.at
Write(q, m, bumps) ==
  /\ lastSent' = [lastSent EXCEPT ![m.by] = m.at]
  /\ log' = Append(log, m)
  /\ rows' = rows \cup {m.id}
  /\ pointer' = IF bumps THEN m.id ELSE pointer
  /\ requests' = [requests EXCEPT ![q].stage = "count"]
  /\ UNCHANGED <<clock, slow, issued, reading>>
\* Mutant: the last message sent is looked up by the time the request came.
AdmitUnserialized(q) ==
  /\ At(q, "admit")
  /\ LET m == requests[q].message
     IN  /\ m.wait = 0 \/ \A e \in Entries : e.by = m.by /\ e.at < m.at => e.at + m.wait <= m.at
         /\ Write(q, m, ~m.reply)
\* The conditional upsert, the message and the pointer, in one transaction.
Admit(q) ==
  /\ At(q, "admit")
  /\ LET m == requests[q].message IN InTime(m) /\ Write(q, m, ~m.reply)
Refuse(q) ==
  /\ At(q, "admit") /\ ~InTime(requests[q].message)
  /\ End(q)
  /\ UNCHANGED <<clock, issued, channel, reading>>
\* Files that cannot be queued for inspection take the message with them.
EnqueueFails(q) ==
  /\ At(q, "count") /\ \A u \in Member : requests[q].message.id \notin counted[u]
  /\ rows' = rows \ {requests[q].message.id}
  /\ End(q)
  /\ UNCHANGED <<clock, slow, issued, log, pointer, lastSent, reading>>
Uncounted(q) == {u \in requests[q].message.pings : requests[q].message.id \notin counted[u]}
Count(q, u) ==
  /\ At(q, "count") /\ u \in Uncounted(q)
  /\ badge' = [badge EXCEPT ![u] = @ + 1]
  /\ counted' = [counted EXCEPT ![u] = @ \cup {requests[q].message.id}]
  /\ UNCHANGED <<clock, issued, channel, read, shown, cleared, outrun, requests>>
Created(q) ==
  /\ At(q, "count") /\ Uncounted(q) = {}
  /\ End(q)
  /\ UNCHANGED <<clock, issued, channel, reading>>
\* The pointer stays where it was.
DeleteMessage(m) ==
  /\ m \in rows
  /\ rows' = rows \ {m}
  /\ UNCHANGED <<clock, slow, issued, log, pointer, lastSent, reading, requests>>
-----------------------------------------------------------------------------
(* ack_channel.                                                            *)

Larger(a, b) == IF a > b THEN a ELSE b
Acked(q, u, m, position) ==
  /\ \E e \in Entries : e.id = m
  /\ Begin(q, [stage |-> "tell", by |-> u, upTo |-> m])
  /\ read' = [read EXCEPT ![u] = position]
  /\ badge' = [badge EXCEPT ![u] = 0]
  /\ cleared' = [cleared EXCEPT ![u] = {i \in counted[u] : i > read'[u]}]
  /\ outrun' = IF m < read[u] \/ \E o \in Request : At(o, "tell") /\ requests[o].by = u
               THEN outrun \cup {u} ELSE outrun \ {u}
  /\ UNCHANGED <<clock, issued, channel, shown, counted>>
AckChannel(q, u, m) == Acked(q, u, m, Larger(read[u], m))
\* What the devices are told is what this request said.
TellRead(q) ==
  /\ At(q, "tell")
  /\ shown' = [shown EXCEPT ![requests[q].by] = requests[q].upTo]
  /\ End(q)
  /\ UNCHANGED <<clock, issued, channel, read, badge, counted, cleared, outrun>>

Tick ==
  /\ clock < MaxClock
  /\ clock' = clock + 1
  /\ UNCHANGED <<issued, channel, reading, requests>>
UpdateChannel ==
  /\ slow' = ~slow
  /\ UNCHANGED <<clock, issued, log, rows, pointer, lastSent, reading, requests>>

Next ==
  \/ \E q \in Request, u \in Member :
       \/ \E exempt, reply \in BOOLEAN, pings \in SUBSET Member :
            CreateMessage(q, u, exempt, reply, pings)
       \/ Count(q, u)
       \/ \E m \in Ids : AckChannel(q, u, m)
  \/ \E q \in Request :
       \/ ReadClock(q) \/ Admit(q) \/ Refuse(q) \/ EnqueueFails(q) \/ Created(q) \/ TellRead(q)
  \/ \E m \in Ids : DeleteMessage(m)
  \/ Tick \/ UpdateChannel
Spec == Init /\ [][Next]_mvars
-----------------------------------------------------------------------------
(* Properties.                                                             *)

\* Two messages a member sends under slow mode are its interval apart, however
\* their requests met ("the conditional upsert serializes concurrent sends"),
\* unless one in between was exempt from it.
SlowmodeHolds == \A j \in DOMAIN log, i \in DOMAIN log :
  /\ i < j /\ log[i].by = log[j].by
  /\ \A k \in i..j : log[k].by = log[j].by => log[k].wait > 0
  => log[i].at + Cooldown <= log[j].at

\* get_unread_channels
Unread(u) == pointer > 0 /\ (read[u] = 0 \/ pointer > read[u])
InOrder(top) == \A e, f \in top : e.id < f.id =>
  \E i, j \in DOMAIN log : i < j /\ log[i] = e /\ log[j] = f
\* A channel is unread for who has not read its latest message, and no thread
\* reply makes it so, unless two messages were written against their ids' order.
UnreadExact ==
  LET top == {e \in Entries : ~e.reply}
  IN  InOrder(top) => \A u \in Member : Unread(u) <=> \E e \in top : e.id > read[u]

\* The badge counts every mention after the position read up to, but those that
\* were there when an older message was acknowledged (ack_channel).
BadgeKept == \A u \in Member :
  badge[u] >= Cardinality({i \in counted[u] : i > read[u]} \ cleared[u])

\* A member's devices show the position that is stored, unless what they were
\* told last was an older one or two acknowledgements met (ack_channel).
ReadShown == \A u \in Member :
  u \in outrun \/ shown[u] = read[u] \/ \E q \in Request : At(q, "tell") /\ requests[q].by = u
=============================================================================
