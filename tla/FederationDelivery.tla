-------------------------- MODULE FederationDelivery --------------------------
(***************************************************************************)
(* What a home server tells a peer about the messages of a space: the      *)
(* durable outbox and the sender that drains it, the requests on their way, *)
(* and the peer's inbox, which records an event, applies it, and takes the *)
(* record back when that fails.                                            *)
(*                                                                         *)
(* The peer is trusted and mirrors the channel.  A tick claims all rows    *)
(* that are due, in any order: next_attempt_at counts whole seconds.  The  *)
(* databases, the network and both servers fail at most MaxFaults times.   *)
(***************************************************************************)
EXTENDS Naturals, Sequences, FiniteSets

CONSTANTS
  Message,
  Slot,          \* requests that are on their way or in the inbox at once
  None,
  MAX_ATTEMPTS,
  MaxEvents,     \* bound on the events
  MaxFaults      \* bound on failures, crashes and days gone by

ASSUME ConstantsAssumption ==
  MAX_ATTEMPTS \in Nat \ {0} /\ MaxEvents \in Nat /\ MaxFaults \in Nat

VARIABLES
  log,       \* the events of the home server, in the order they happened
  home,      \* the event that wrote the home server's row of a message, or 0
  outbox,    \* events with a row in federation_outbox
  attempts,  \* the rows' attempts
  waiting,   \* the rows whose next_attempt_at is to come
  batch,     \* rows the sender's tick has claimed and not posted
  sending,   \* the row being delivered and its request's slot
  req,       \* the requests
  dedup,     \* federation_inbox_dedup
  replica,   \* the event that wrote the peer's row of a message, or 0
  shown,     \* events broadcast to the peer's gateway sessions
  faults,
  touched,   \* history: events that had their effect on the peer's row
  late,      \* history: those that had it after a later event of the message
  lost       \* history: those that may have been kept from the peer

vars == <<log, home, outbox, attempts, waiting, batch, sending, req, dedup,
          replica, shown, faults, touched, late, lost>>
homeVars == <<log, home>>
senderVars == <<outbox, attempts, waiting, batch, sending>>
peerVars == <<dedup, replica, shown>>
history == <<touched, late, lost>>

Event == 1..MaxEvents
Kind == {"create", "update", "delete", "other"}

\* "sent" on the network; "apply", "write", "tell" and "undo" in handle_inbox
\* past its dedup record; "ok" and "error" answered.
Working == {"apply", "write", "tell", "undo"}
Stage == {"sent", "ok", "error"} \cup Working
Request == [event : Event, stage : Stage]

ASSUME SentinelAssumption ==
  None \notin Request \cup Slot \cup [event : Event, slot : Slot \cup {None}]

Init ==
  /\ log = <<>> /\ home = [m \in Message |-> 0]
  /\ outbox = {} /\ attempts = [e \in Event |-> 0] /\ waiting = {}
  /\ batch = {} /\ sending = None
  /\ req = [s \in Slot |-> None]
  /\ dedup = {} /\ replica = [m \in Message |-> 0] /\ shown = {}
  /\ faults = 0
  /\ touched = {} /\ late = {} /\ lost = {}

Fault == faults < MaxFaults /\ faults' = faults + 1

At(s, stage) == req[s] # None /\ req[s].stage = stage
InWork(s) == req[s] # None /\ req[s].stage \in Working
Go(s, stage) == req' = [req EXCEPT ![s].stage = stage]
Free(s) == req' = [req EXCEPT ![s] = None]

MessageOf(e) == log[e].message

----------------------------------------------------------------------------
(* The home server.                                                        *)

Record(kind, m) ==
  /\ Len(log) + 1 \in Event
  /\ log' = Append(log, [kind |-> kind, message |-> m])
  /\ UNCHANGED <<attempts, waiting, batch, sending, req, peerVars, touched, late>>

\* fanout_to_space after the write of the row; its errors are logged or
\* dropped, and an error or a crash may come before it.
Fanout(kind, m) ==
  /\ Record(kind, m)
  /\ \/ outbox' = outbox \cup {Len(log) + 1} /\ UNCHANGED <<faults, lost>>
     \/ Fault /\ lost' = lost \cup {Len(log) + 1} /\ UNCHANGED outbox

Posted(m) ==
  \E e \in DOMAIN log : log[e].message = m /\ log[e].kind = "create"

CreateMessage(m) ==
  /\ ~Posted(m)
  /\ home' = [home EXCEPT ![m] = Len(log) + 1]
  /\ Fanout("create", m)

UpdateMessage(m) ==
  /\ home[m] # 0
  /\ home' = [home EXCEPT ![m] = Len(log) + 1]
  /\ Fanout("update", m)

DeleteMessage(m) ==
  /\ home[m] # 0
  /\ home' = [home EXCEPT ![m] = 0]
  /\ Fanout("delete", m)

\* bulk_delete_messages tells nobody.
BulkDelete(m) ==
  /\ home[m] # 0
  /\ home' = [home EXCEPT ![m] = 0]
  /\ Record("delete", m)
  /\ lost' = lost \cup {Len(log) + 1}
  /\ UNCHANGED <<outbox, faults>>

\* An event of a type the peer does not handle.
OtherEvent(m) ==
  /\ Fanout("other", m)
  /\ UNCHANGED home

\* deliver_due_once, one row at a time.
Claim ==
  /\ batch = {} /\ sending = None
  /\ outbox \ waiting # {}
  /\ batch' = outbox \ waiting
  /\ UNCHANGED <<homeVars, outbox, attempts, waiting, sending, req, peerVars,
                 faults, history>>

Post(e, s) ==
  /\ sending = None /\ e \in batch /\ req[s] = None
  /\ batch' = batch \ {e}
  /\ sending' = [event |-> e, slot |-> s]
  /\ req' = [req EXCEPT ![s] = [event |-> e, stage |-> "sent"]]
  /\ UNCHANGED <<homeVars, outbox, attempts, waiting, peerVars, faults, history>>

Awaited(s) == sending # None /\ sending.slot = s

Drop(e) == outbox' = outbox \ {e} /\ waiting' = waiting \ {e}

\* The row goes, unless that fails: the error is dropped and the row stays due.
Accept(s) ==
  /\ Awaited(s) /\ At(s, "ok")
  /\ sending' = None
  /\ Free(s)
  /\ \/ Drop(sending.event) /\ UNCHANGED faults
     \/ Fault /\ UNCHANGED <<outbox, waiting>>
  /\ UNCHANGED <<homeVars, attempts, batch, peerVars, history>>

\* deliver answers Err: the peer's error, a broken connection, or fifteen
\* seconds without an answer.
Fail(s) ==
  /\ Awaited(s)
  /\ sending' = [sending EXCEPT !.slot = None]
  /\ \/ At(s, "error") /\ Free(s) /\ UNCHANGED faults
     \/ req[s] = None /\ UNCHANGED <<req, faults>>
     \/ req[s] # None /\ Fault /\ UNCHANGED req
  /\ UNCHANGED <<homeVars, outbox, attempts, waiting, batch, peerVars, history>>

Failed == sending # None /\ sending.slot = None

\* Mutants: one attempt too many; the attempt is not counted.
RescheduleOnceMore ==
  LET e == sending.event IN
  /\ Failed /\ attempts[e] + 1 <= MAX_ATTEMPTS
  /\ sending' = None
  /\ \/ /\ attempts' = [attempts EXCEPT ![e] = @ + 1]
        /\ waiting' = waiting \cup {e}
        /\ UNCHANGED faults
     \/ Fault /\ UNCHANGED <<attempts, waiting>>
  /\ UNCHANGED <<homeVars, outbox, batch, req, peerVars, history>>

RescheduleUncounted ==
  LET e == sending.event IN
  /\ Failed /\ attempts[e] + 1 < MAX_ATTEMPTS
  /\ sending' = None
  /\ waiting' = waiting \cup {e}
  /\ UNCHANGED <<homeVars, outbox, attempts, batch, req, peerVars, faults, history>>

Reschedule ==
  LET e == sending.event IN
  /\ Failed /\ attempts[e] + 1 < MAX_ATTEMPTS
  /\ sending' = None
  /\ \/ /\ attempts' = [attempts EXCEPT ![e] = @ + 1]
        /\ waiting' = waiting \cup {e}
        /\ UNCHANGED faults
     \/ Fault /\ UNCHANGED <<attempts, waiting>>
  /\ UNCHANGED <<homeVars, outbox, batch, req, peerVars, history>>

DeadLetter ==
  LET e == sending.event IN
  /\ Failed /\ attempts[e] + 1 >= MAX_ATTEMPTS
  /\ sending' = None
  /\ \/ Drop(e) /\ lost' = lost \cup {e} /\ UNCHANGED faults
     \/ Fault /\ UNCHANGED <<outbox, waiting, lost>>
  /\ UNCHANGED <<homeVars, attempts, batch, req, peerVars, touched, late>>

\* next_attempt_at is reached.
Elapse(e) ==
  /\ e \in waiting
  /\ waiting' = waiting \ {e}
  /\ UNCHANGED <<homeVars, outbox, attempts, batch, sending, req, peerVars,
                 faults, history>>

CrashHome ==
  /\ Fault
  /\ batch' = {} /\ sending' = None
  /\ UNCHANGED <<homeVars, outbox, attempts, waiting, req, peerVars, history>>

----------------------------------------------------------------------------
(* The peer's inbox.                                                       *)

\* The event takes effect, in its turn or after a later one of its message.
Touch(e) ==
  /\ touched' = touched \cup {e}
  /\ late' = IF \E f \in touched : f > e /\ MessageOf(f) = MessageOf(e)
               THEN late \cup {e} ELSE late
  /\ UNCHANGED lost

\* An answer before anything is recorded: over the peer's rate, a signature or
\* a database that fails.
Refuse(s) ==
  /\ At(s, "sent") /\ Fault
  /\ Go(s, "error")
  /\ UNCHANGED <<homeVars, senderVars, peerVars, history>>

\* dedup_first_seen inserts the record, or finds it.
Begin(s) ==
  /\ At(s, "sent") /\ req[s].event \notin dedup
  /\ dedup' = dedup \cup {req[s].event}
  /\ Go(s, "apply")
  /\ UNCHANGED <<homeVars, senderVars, replica, shown, faults, history>>

\* The record may be that of a request still in work, which may yet fail.
AckDuplicate(s) ==
  LET e == req[s].event IN
  /\ At(s, "sent") /\ e \in dedup
  /\ Go(s, "ok")
  /\ lost' = IF \E t \in Slot : InWork(t) /\ req[t].event = e
               THEN lost \cup {e} ELSE lost
  /\ UNCHANGED <<homeVars, senderVars, peerVars, faults, touched, late>>

\* Work on an event, of which log[e] is the payload.
Apply(s, stage, kind) == At(s, stage) /\ log[req[s].event].kind = kind
Row(s) == replica[MessageOf(req[s].event)]
SetRow(s, e) == replica' = [replica EXCEPT ![MessageOf(req[s].event)] = e]

\* The lookup of the channel or of the message fails, which counts as: not here.
TakeForAbsent(s) ==
  /\ At(s, "apply") /\ log[req[s].event].kind # "other"
  /\ Fault
  /\ Go(s, "ok")
  /\ lost' = lost \cup {req[s].event}
  /\ UNCHANGED <<homeVars, senderVars, peerVars, touched, late>>

\* insert_remote_message: ON CONFLICT DO NOTHING.
StoreMessage(s) ==
  /\ Apply(s, "apply", "create") /\ Row(s) = 0
  /\ SetRow(s, req[s].event)
  /\ Touch(req[s].event)
  /\ Go(s, "tell")
  /\ UNCHANGED <<homeVars, senderVars, dedup, shown, faults>>

\* Mutant: the stored message is overwritten.
OverwriteStored(s) ==
  /\ Apply(s, "apply", "create") /\ Row(s) # 0
  /\ SetRow(s, req[s].event)
  /\ touched' = touched \cup {req[s].event}
  /\ Go(s, "ok")
  /\ UNCHANGED <<homeVars, senderVars, dedup, shown, faults, late, lost>>

FindStored(s) ==
  /\ Apply(s, "apply", "create") /\ Row(s) # 0
  /\ touched' = touched \cup {req[s].event}
  /\ Go(s, "ok")
  /\ UNCHANGED <<homeVars, senderVars, peerVars, faults, late, lost>>

\* apply_message_update and apply_message_delete look for the row first.
FindRow(s) ==
  /\ Apply(s, "apply", "update") \/ Apply(s, "apply", "delete")
  /\ Row(s) # 0
  /\ Go(s, "write")
  /\ UNCHANGED <<homeVars, senderVars, peerVars, faults, history>>

IgnoreAbsent(s) ==
  /\ Apply(s, "apply", "update") \/ Apply(s, "apply", "delete")
  /\ Row(s) = 0
  /\ Touch(req[s].event)
  /\ Go(s, "ok")
  /\ UNCHANGED <<homeVars, senderVars, peerVars, faults>>

\* The row may be gone by now, or the second statement of the edit fail.
WriteUpdate(s) ==
  /\ Apply(s, "write", "update")
  /\ SetRow(s, IF Row(s) = 0 THEN 0 ELSE req[s].event)
  /\ Touch(req[s].event)
  /\ \/ Go(s, "tell") /\ UNCHANGED faults
     \/ Go(s, "undo") /\ Fault
  /\ UNCHANGED <<homeVars, senderVars, dedup, shown>>

WriteDelete(s) ==
  /\ Apply(s, "write", "delete")
  /\ SetRow(s, 0)
  /\ Touch(req[s].event)
  /\ Go(s, "tell")
  /\ UNCHANGED <<homeVars, senderVars, dedup, shown, faults>>

\* The rest of the handler: the row is read back and broadcast.
Tell(s) ==
  /\ \/ Apply(s, "tell", "delete")
     \/ At(s, "tell") /\ Row(s) # 0
  /\ shown' = shown \cup {req[s].event}
  /\ Go(s, "ok")
  /\ UNCHANGED <<homeVars, senderVars, dedup, replica, faults, history>>

\* A created message that cannot be read back is an error; an edited one is
\* not broadcast.
TellFails(s) ==
  /\ Apply(s, "tell", "create") \/ Apply(s, "tell", "update")
  /\ IF Row(s) = 0 THEN UNCHANGED faults ELSE Fault
  /\ Go(s, IF Apply(s, "tell", "create") THEN "undo" ELSE "ok")
  /\ UNCHANGED <<homeVars, senderVars, peerVars, history>>

\* Unsupported, or an error before or in the first write.
Reject(s) ==
  /\ \/ Apply(s, "apply", "other") /\ UNCHANGED faults
     \/ (At(s, "apply") \/ At(s, "write")) /\ Fault
  /\ Go(s, "undo")
  /\ UNCHANGED <<homeVars, senderVars, peerVars, history>>

\* Mutant: answers the error and keeps the record.
KeepDedup(s) ==
  /\ At(s, "undo")
  /\ Go(s, "error")
  /\ UNCHANGED <<homeVars, senderVars, peerVars, faults, history>>

\* rollback_dedup; when that fails too, the event stays recorded.
RollbackDedup(s) ==
  /\ At(s, "undo")
  /\ Go(s, "error")
  /\ \/ dedup' = dedup \ {req[s].event} /\ UNCHANGED <<faults, lost>>
     \/ Fault /\ lost' = lost \cup {req[s].event} /\ UNCHANGED dedup
  /\ UNCHANGED <<homeVars, senderVars, replica, shown, touched, late>>

\* The connection closes: a request that did not arrive never will, and a
\* handler is dropped where it waits.  One the sender awaits is a failure; one
\* it has given up on may end this way or run on.
Break(s) ==
  /\ req[s] # None
  /\ Free(s)
  /\ IF Awaited(s) THEN Fault ELSE UNCHANGED faults
  /\ lost' = IF InWork(s) THEN lost \cup {req[s].event} ELSE lost
  /\ UNCHANGED <<homeVars, senderVars, peerVars, touched, late>>

CrashPeer ==
  /\ Fault
  /\ req' = [s \in Slot |-> None]
  /\ lost' = lost \cup {e \in Event : \E s \in Slot : InWork(s) /\ req[s].event = e}
  /\ UNCHANGED <<homeVars, senderVars, peerVars, touched, late>>

\* cleanup_dedup, a day after the event came in.
Prune(e) ==
  /\ e \in dedup /\ Fault
  /\ \A s \in Slot : req[s] # None => req[s].event # e
  /\ dedup' = dedup \ {e}
  /\ UNCHANGED <<homeVars, senderVars, req, replica, shown, history>>

----------------------------------------------------------------------------

Act(m) ==
  \/ CreateMessage(m) \/ UpdateMessage(m) \/ DeleteMessage(m) \/ BulkDelete(m)
  \/ OtherEvent(m)

Send ==
  \/ Claim \/ Reschedule \/ DeadLetter
  \/ \E s \in Slot : Accept(s) \/ Fail(s) \/ \E e \in batch : Post(e, s)

Handle(s) ==
  \/ Refuse(s) \/ Begin(s) \/ AckDuplicate(s) \/ TakeForAbsent(s)
  \/ StoreMessage(s) \/ FindStored(s)
  \/ FindRow(s) \/ IgnoreAbsent(s) \/ WriteUpdate(s) \/ WriteDelete(s)
  \/ Tell(s) \/ TellFails(s) \/ Reject(s) \/ RollbackDedup(s)

Next ==
  \/ \E m \in Message : Act(m)
  \/ Send
  \/ \E e \in Event : Elapse(e) \/ Prune(e)
  \/ \E s \in Slot : Handle(s) \/ Break(s)
  \/ CrashHome \/ CrashPeer

Spec == Init /\ [][Next]_vars

\* The sender ticks, time passes, the inbox answers, and a connection the sender
\* gave up on ends.
Fairness ==
  /\ WF_vars(Send)
  /\ \A e \in Event : WF_vars(Elapse(e))
  /\ \A s \in Slot : WF_vars(Handle(s)) /\ WF_vars(~Awaited(s) /\ Break(s))

FairSpec == Spec /\ Fairness

----------------------------------------------------------------------------

TypeOK ==
  /\ log \in Seq([kind : Kind, message : Message]) /\ Len(log) <= MaxEvents
  /\ home \in [Message -> 0..MaxEvents] /\ replica \in [Message -> 0..MaxEvents]
  /\ waiting \subseteq outbox /\ outbox \subseteq DOMAIN log
  /\ batch \subseteq outbox
  /\ attempts \in [Event -> 0..(MAX_ATTEMPTS - 1)]
  /\ sending \in {None} \cup [event : DOMAIN log, slot : Slot \cup {None}]
  /\ req \in [Slot -> {None} \cup [event : DOMAIN log, stage : Stage]]
  /\ dedup \subseteq DOMAIN log
  /\ shown \subseteq touched /\ late \subseteq touched /\ touched \subseteq DOMAIN log
  /\ lost \subseteq DOMAIN log
  /\ faults \in 0..MaxFaults

\* Every event of the home server is in its outbox, has had its effect on the
\* peer, or was hit by what may keep it from the peer: a bulk deletion, an enqueue
\* that failed, a dead letter, a lookup or a rollback that failed, or a handler
\* that stopped or was overtaken by the retry between record and answer.
EventsAccounted == DOMAIN log \subseteq outbox \cup touched \cup lost

\* When nothing is left to send, the peer's copy of a message is the home server's,
\* unless an event of it was lost or took effect after a later one: no retry, no
\* partial failure and no duplicate, even one still at work, leaves anything else
\* behind.
Converged ==
  outbox = {} =>
    \A m \in Message :
      \/ replica[m] = home[m]
      \/ \E e \in lost \cup late : MessageOf(e) = m

\* Every row of the outbox is delivered or dead-lettered in the end.
OutboxDrains == \A e \in Event : e \in outbox ~> e \notin outbox

\* inbox.rs, of an event whose dedup record exists: "Already applied; acknowledge
\* without re-applying."
AckedIsApplied ==
  [][\A s \in Slot : AckDuplicate(s) => req[s].event \in touched]_vars
=============================================================================
