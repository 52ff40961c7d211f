---------------------------- MODULE SessionStream ----------------------------
(***************************************************************************)
(* The event stream of one gateway session, from the server's broadcast    *)
(* channel to the client: numbering (seq), the replay buffer               *)
(* (gateway/resume.rs), parking behind a dropped socket, the handover to a *)
(* resuming socket and the replay of what was missed.  The client is       *)
(* accordkit's GatewaySocket, of which the stream sees _sequence.          *)
(*                                                                         *)
(* Events are named by their position in the broadcast channel; "mine" are *)
(* those classify_broadcast sends to this session.  A frame carries its    *)
(* seq and a kind; sockets deliver frames in order until they break.       *)
(* The registry and its races are module GatewaySession.                   *)
(***************************************************************************)
EXTENDS Naturals, Sequences

CONSTANTS
  Limit,        \* REPLAY_BUFFER_LIMIT
  ChannelCap,   \* capacity of the broadcast channel
  MaxEvents     \* bound on published events

ASSUME LimitAssumption == Limit \in Nat \ {0} /\ ChannelCap \in Nat \ {0}
ASSUME BoundAssumption == MaxEvents \in Nat

VARIABLES
  published,   \* events sent on the broadcast channel so far
  mine,        \* those among them this session has to deliver
  phase,       \* the task serving the session
  seq,         \* last sequence number assigned
  buffer,      \* replay_buffer: the seqs retained, oldest first
  cursor,      \* broadcast_rx: last event read from the channel
  start,       \* events published when the task subscribed
  stamped,     \* history: events given a seq
  lagged,      \* history: events the receiver was too slow for
  lost,        \* history: seqs whose live send failed
  after, at,   \* the seq a RESUME named, and the buffer entry it replays next
  wire,        \* frames in flight to the client
  open,        \* the client still has the socket
  last,        \* the client's _sequence
  pending,     \* the client's _resumePending: a RESUME not yet answered
  got          \* seqs of the READY and event frames the client received

vars == <<published, mine, phase, seq, buffer, cursor, start, stamped,
          lagged, lost, after, at, wire, open, last, pending, got>>

stream == <<seq, buffer, cursor, stamped, lagged, lost>>
session == <<start, after, at>>
socket == <<wire, open, last, pending, got>>

\* "gone": no task, or one whose socket never says anything again.
Phase == {"gone", "greeting", "subscribing", "live", "parked", "replaying"}
Kind == {"ready", "event", "resumed"}
Frame == [seq : Nat, kind : Kind]

Init ==
  /\ published = 0 /\ mine = {}
  /\ phase = "gone"
  /\ seq = 0 /\ buffer = <<>> /\ cursor = 0
  /\ stamped = {} /\ lagged = {} /\ lost = {}
  /\ start = 0 /\ after = 0 /\ at = 1
  /\ wire = <<>> /\ open = FALSE /\ last = 0 /\ pending = FALSE
  /\ got = {}

----------------------------------------------------------------------------
(* gateway/resume.rs                                                       *)

\* Mutant: evicts at the limit instead of beyond it.
PushShort(b, n) == LET grown == Append(b, n) IN
  IF Len(grown) >= Limit THEN Tail(grown) ELSE grown

\* push: append, evicting the oldest beyond the limit.
Push(b, n) == LET grown == Append(b, n) IN
  IF Len(grown) > Limit THEN Tail(grown) ELSE grown

\* Mutant: lets the oldest retained event be one too late.
CoversGap(b, current, seen) ==
  \/ seen = current
  \/ seen < current /\ b # <<>> /\ Head(b) <= seen + 2

\* missed_since answers Some: the client is up to date, or the oldest retained
\* event is no later than the first one it has not seen.
Covers(b, current, seen) ==
  \/ seen = current
  \/ seen < current /\ b # <<>> /\ Head(b) <= seen + 1

----------------------------------------------------------------------------
(* The broadcast channel.                                                  *)

\* Any part of the server publishes; the event concerns this session or not.
Publish ==
  /\ published < MaxEvents
  /\ published' = published + 1
  /\ mine' \in {mine, mine \cup {published + 1}}
  /\ UNCHANGED <<phase, stream, session, socket>>

\* The next event the receiver reads: recv() while it is still retained.
Readable == cursor < published /\ published - cursor <= ChannelCap

\* Mutant: keeps asking for the event that is gone.
RetryLagged ==
  /\ phase \in {"live", "parked"}
  /\ published - cursor > ChannelCap
  /\ UNCHANGED vars

\* recv() answers Lagged, which `.ok()` turns into nothing to do: the receiver
\* is moved to the oldest event still retained.
SkipLagged ==
  /\ phase \in {"live", "parked"}
  /\ published - cursor > ChannelCap
  /\ cursor' = published - ChannelCap
  /\ lagged' = lagged \cup {e \in mine : cursor < e /\ e <= cursor'}
  /\ UNCHANGED <<published, mine, phase, seq, buffer, stamped, lost, session,
                 socket>>

\* Delivery::Skip: read and dropped.
SkipOthers ==
  /\ phase \in {"live", "parked"} /\ Readable
  /\ cursor + 1 \notin mine
  /\ cursor' = cursor + 1
  /\ UNCHANGED <<published, mine, phase, seq, buffer, stamped, lagged, lost,
                 session, socket>>

\* Reading the session's next event and giving it the next seq.
Stamp ==
  /\ Readable /\ cursor + 1 \in mine
  /\ cursor' = cursor + 1
  /\ seq' = seq + 1
  /\ stamped' = stamped \cup {cursor + 1}
  /\ UNCHANGED <<published, mine, lagged, session>>

Transmit(frame) == wire' = IF open THEN Append(wire, frame) ELSE wire

\* A live session sends the event, then retains it.  A send succeeds on a
\* broken socket too, until the break is noticed.
Deliver ==
  /\ phase = "live" /\ Stamp
  /\ Transmit([seq |-> seq + 1, kind |-> "event"])
  /\ buffer' = Push(buffer, seq + 1)
  /\ UNCHANGED <<phase, lost, open, last, pending, got>>

\* The send fails: the loop is left with the event numbered but not retained.
DeliverFails ==
  /\ phase = "live" /\ ~open /\ Stamp
  /\ lost' = lost \cup {seq + 1}
  /\ phase' = "parked"
  /\ UNCHANGED <<buffer, socket>>

\* A parked session retains without sending.
Collect ==
  /\ phase = "parked" /\ Stamp
  /\ buffer' = Push(buffer, seq + 1)
  /\ UNCHANGED <<phase, lost, socket>>

----------------------------------------------------------------------------
(* Sessions.                                                               *)

\* IDENTIFY on a new socket: the client forgets the session it had, and so
\* does this module (the old one goes unclaimed).
Identify ==
  /\ ~open
  /\ phase' = "greeting"
  /\ seq' = 1 /\ buffer' = <<>>
  /\ cursor' = published /\ start' = published
  /\ stamped' = {} /\ lagged' = {} /\ lost' = {}
  /\ wire' = <<>> /\ open' = TRUE
  /\ last' = 0 /\ pending' = FALSE /\ got' = {}
  /\ UNCHANGED <<published, mine, after, at>>

\* send_ready.  READY carries seq 1 and is not retained.
SendReady ==
  /\ phase = "greeting"
  /\ Transmit([seq |-> 1, kind |-> "ready"])
  /\ phase' = "subscribing"
  /\ UNCHANGED <<published, mine, stream, session, open, last, pending, got>>

\* ... and only then the task subscribes to the broadcast channel.
Subscribe ==
  /\ phase = "subscribing"
  /\ cursor' = published /\ start' = published
  /\ phase' = "live"
  /\ UNCHANGED <<published, mine, seq, buffer, stamped, lagged, lost,
                 after, at, socket>>

\* The stream ended, or heartbeats stopped coming: the task parks.
Park ==
  /\ phase = "live"
  /\ phase' = "parked"
  /\ UNCHANGED <<published, mine, stream, session, socket>>

\* Deliberate end, a failed greeting or replay, or the window closing: a later
\* RESUME is answered INVALID_SESSION.
End ==
  /\ phase # "gone"
  /\ phase' = "gone"
  /\ UNCHANGED <<published, mine, stream, session, socket>>

\* A client that has a session id and has lost its socket resumes from
\* _sequence - unless it lost it waiting for an earlier RESUME, when _onClosed
\* drops the session; the parked task hands everything over.
Resume ==
  /\ phase = "parked" /\ ~open /\ last >= 1 /\ ~pending
  /\ Covers(buffer, seq, last)
  /\ after' = last /\ at' = 1
  /\ phase' = "replaying"
  /\ wire' = <<>> /\ open' = TRUE /\ pending' = TRUE
  /\ UNCHANGED <<published, mine, stream, start, last, got>>

\* missed_since answers None: INVALID_SESSION, after the claim has ended the
\* parked session.
RefuseResume ==
  /\ phase = "parked" /\ ~open /\ last >= 1 /\ ~pending
  /\ ~Covers(buffer, seq, last)
  /\ phase' = "gone"
  /\ UNCHANGED <<published, mine, stream, session, socket>>

\* Mutant: replays the whole buffer.
ReplayAll ==
  /\ phase = "replaying" /\ at <= Len(buffer)
  /\ at' = at + 1
  /\ Transmit([seq |-> buffer[at], kind |-> "event"])
  /\ UNCHANGED <<published, mine, phase, stream, start, after, open,
                 last, pending, got>>

\* send_resumed: the retained events after the seq the client named ...
Replay ==
  /\ phase = "replaying" /\ at <= Len(buffer)
  /\ at' = at + 1
  /\ \/ /\ buffer[at] > after
        /\ Transmit([seq |-> buffer[at], kind |-> "event"])
     \/ /\ buffer[at] <= after
        /\ UNCHANGED wire
  /\ UNCHANGED <<published, mine, phase, stream, start, after, open,
                 last, pending, got>>

\* ... then the confirmation, under the current seq.
ConfirmResume ==
  /\ phase = "replaying" /\ at > Len(buffer)
  /\ Transmit([seq |-> seq, kind |-> "resumed"])
  /\ phase' = "live"
  /\ UNCHANGED <<published, mine, stream, session, open, last, pending,
                 got>>

----------------------------------------------------------------------------
(* The client and its socket.                                              *)

\* _handleMessage: any frame with a seq moves _sequence.
Receive ==
  /\ open /\ wire # <<>>
  /\ wire' = Tail(wire)
  /\ last' = Head(wire).seq
  /\ got' = IF Head(wire).kind = "resumed" THEN got
                                           ELSE got \cup {Head(wire).seq}
  /\ pending' = (pending /\ Head(wire).kind = "event")
  /\ UNCHANGED <<published, mine, phase, stream, session, open>>

\* The connection is lost with whatever was in flight.
Break ==
  /\ open
  /\ open' = FALSE /\ wire' = <<>>
  /\ UNCHANGED <<published, mine, phase, stream, session, last, pending, got>>

----------------------------------------------------------------------------

Read == SkipLagged \/ SkipOthers \/ Deliver \/ DeliverFails \/ Collect

Serve == SendReady \/ Subscribe \/ Replay \/ ConfirmResume

Next ==
  \/ Publish \/ Read \/ Serve
  \/ Identify \/ Resume \/ RefuseResume \/ Park \/ End
  \/ Receive \/ Break

Spec == Init /\ [][Next]_vars

\* The runtime polls every ready task and the client reads its socket.
Fairness == WF_vars(Read) /\ WF_vars(Serve) /\ WF_vars(Receive)

FairSpec == Spec /\ Fairness

----------------------------------------------------------------------------
(* Properties.                                                             *)

TypeOK ==
  /\ published \in Nat /\ mine \subseteq Nat
  /\ phase \in Phase
  /\ seq \in Nat /\ buffer \in Seq(Nat) /\ cursor \in Nat
  /\ start \in Nat
  /\ stamped \subseteq Nat /\ lagged \subseteq Nat /\ lost \subseteq Nat
  /\ after \in Nat /\ at \in Nat
  /\ wire \in Seq(Frame)
  /\ open \in BOOLEAN /\ pending \in BOOLEAN
  /\ last \in Nat /\ got \subseteq Nat

\* "Returning None rather than a partial replay is the point" (resume.rs:44):
\* whatever breaks and resumes happened, the client has every event up to its
\* _sequence - except, exactly, those whose send failed on a broken socket.
NoSilentGap == got = (1..last) \ lost

\* "no event falls between the two connections or arrives on both"
\* (resume.rs:14): across every handover the session numbers each of its events
\* once, leaving out only those the channel dropped before they were read.
EachEventStamped ==
  phase \in {"live", "parked", "replaying"} =>
    stamped = {e \in mine : start < e /\ e <= cursor} \ lagged

\* The buffer holds the newest seqs, oldest first, at most Limit of them, and
\* skips none but the lost: Head(buffer) alone decides what it covers.
BufferIsSuffix ==
  /\ Len(buffer) <= Limit
  /\ \A i, j \in 1..Len(buffer) : i < j => buffer[i] < buffer[j]
  /\ \A n \in 2..seq : \/ n \in lost
                       \/ Len(buffer) = Limit /\ n < buffer[1]
                       \/ \E i \in 1..Len(buffer) : buffer[i] = n

\* What the session promises its client: module EventDelivery.
Delivered == INSTANCE EventDelivery WITH
  assigned <- seq, dropped <- lost, upto <- last, seen <- got

\* The session, through parking, handover and replay, delivers like a channel
\* that never broke: in order, each event at most once, dropping only what a
\* failed send numbered and forgot.
ImplementsDelivery == Delivered!Spec

\* A session that stays live on a socket that stays open is not left behind:
\* once the traffic (bounded by MaxEvents) ends, the receiver has caught up with
\* the channel, lagged or not, and the client with the receiver, for good.
StableSessionCatchesUp ==
  <>[](phase = "live" /\ open) => <>[](cursor = published /\ last = seq)

\* mod.rs:862: a resumed session carries its receiver forward "so nothing
\* dispatched between the two sockets is lost or delivered twice".
NothingLostBetweenSockets ==
  [][(phase = "parked") => (lagged' = lagged)]_vars

\* The numbering and the buffer it fills (stamp_seq and push, resume.rs:37): each
\* event read gets one seq whichever connection reads it, and the buffer is the
\* suffix that missed_since takes it for.
StampedOnce == TypeOK /\ EachEventStamped /\ BufferIsSuffix
=============================================================================
