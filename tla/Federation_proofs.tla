------------------------- MODULE Federation_proofs --------------------------
(***************************************************************************)
(* Delivery.  Every event is accounted for.  What the invariant needs      *)
(* besides: the row being delivered is in the outbox and not claimed a     *)
(* second time, its slot holds its own request, and an event recorded by   *)
(* the inbox is either done, or in work, or was hit by what may lose it.   *)
(* Copies converge.  What that needs besides: both servers' rows are the   *)
(* last event of their message that happened there.                        *)
(*                                                                         *)
(* A conversation between two servers.  What the invariant needs besides:  *)
(* what a request has found at each of its stages, that only one request   *)
(* is about to create the channel and only when there is none, that who is *)
(* still counted as blocked is blocked, and that what is announced was     *)
(* stored.                                                                 *)
(*                                                                         *)
(* A mirrored space.  What the invariant needs besides: where the one      *)
(* request of a fan has come to, and for each item the time of its last    *)
(* change and of its creation, which no variable keeps: between them lies  *)
(* what the mirror, the snapshots and the events under way say of it, and  *)
(* until the mirror was shown the last change its event is under way.      *)
(***************************************************************************)
EXTENDS FederationDelivery, MCFederatedSpaces, SequenceTheorems, FiniteSetTheorems, TLAPS

SendingIsRow ==
  sending # None =>
    /\ sending.event \in outbox \ batch
    /\ \A s \in Slot : sending.slot = s /\ req[s] # None
                         => req[s].event = sending.event

RecordedIsSettled ==
  \A e \in dedup : \/ e \in touched \cup lost
                   \/ \E s \in Slot : InWork(s) /\ req[s].event = e

OkIsSettled == \A s \in Slot : At(s, "ok") => req[s].event \in touched \cup lost
ToldIsTouched == \A s \in Slot : At(s, "tell") => req[s].event \in touched

IInv ==
  /\ TypeOK /\ EventsAccounted
  /\ SendingIsRow /\ RecordedIsSettled /\ OkIsSettled /\ ToldIsTouched

PeerInv == RecordedIsSettled /\ OkIsSettled /\ ToldIsTouched

----------------------------------------------------------------------------
(* The types of records.                                                   *)

LEMMA NoneIsNothing ==
  /\ None \notin Slot
  /\ \A e \in Event, st \in Stage : [event |-> e, stage |-> st] # None
  /\ \A e \in Event, s \in Slot \cup {None} : [event |-> e, slot |-> s] # None
BY SentinelAssumption DEF Request

LEMMA LogTypes ==
  ASSUME TypeOK
  PROVE  /\ Len(log) \in 0..MaxEvents /\ DOMAIN log = 1..Len(log)
         /\ DOMAIN log \subseteq Event
         /\ \A e \in DOMAIN log : log[e] \in [kind : Kind, message : Message]
<1>1. /\ Len(log) \in Nat /\ DOMAIN log = 1..Len(log) /\ Len(log) <= MaxEvents
      /\ log \in Seq([kind : Kind, message : Message])
  BY DEF TypeOK
<1>2. \A e \in DOMAIN log : log[e] \in [kind : Kind, message : Message]
  BY <1>1, ElementOfSeq
<1> QED
  BY <1>1, <1>2, ConstantsAssumption DEF Event

LEMMA FaultType == ASSUME TypeOK, Fault PROVE faults' \in 0..MaxFaults
<1>1. faults \in 0..MaxFaults
  BY DEF TypeOK
<1> QED
  BY <1>1, ConstantsAssumption DEF Fault

\* A request that moves on keeps its slot, its event and its type.
LEMMA GoTypes ==
  ASSUME TypeOK, NEW s \in Slot, NEW stage \in Stage, req[s] # None, Go(s, stage)
  PROVE  /\ req' \in [Slot -> {None} \cup [event : DOMAIN log, stage : Stage]]
         /\ req[s].event \in DOMAIN log
         /\ req'[s] # None /\ req'[s].event = req[s].event /\ req'[s].stage = stage
         /\ \A t \in Slot : t # s => req'[t] = req[t]
<1>1. req[s] \in [event : DOMAIN log, stage : Stage]
  BY DEF TypeOK
<1>2. req'[s] = [event |-> req[s].event, stage |-> stage]
  BY <1>1 DEF TypeOK, Go
<1>3. req[s].event \in Event
  BY <1>1, LogTypes
<1> QED
  BY <1>1, <1>2, <1>3, NoneIsNothing DEF TypeOK, Go

\* The sender does not notice what the peer does with a request.
LEMMA GoKeepsSending ==
  ASSUME TypeOK, SendingIsRow, NEW s \in Slot, NEW stage \in Stage,
         req[s] # None, Go(s, stage), UNCHANGED senderVars
  PROVE  SendingIsRow'
BY GoTypes DEF SendingIsRow, senderVars

----------------------------------------------------------------------------
(* The home server.                                                        *)

LEMMA InitInv == Init => IInv
BY ConstantsAssumption
   DEF Init, IInv, TypeOK, EventsAccounted, SendingIsRow, RecordedIsSettled,
       OkIsSettled, ToldIsTouched, At, InWork, Event

LEMMA RecordStep ==
  ASSUME IInv, NEW kind \in Kind, NEW m \in Message, Record(kind, m),
         home' \in [Message -> 0..MaxEvents],
         \/ outbox' = outbox \cup {Len(log) + 1} /\ lost' = lost
         \/ lost' = lost \cup {Len(log) + 1} /\ outbox' = outbox,
         UNCHANGED faults \/ Fault
  PROVE  IInv'
<1>1. /\ Len(log) + 1 \in Event /\ DOMAIN log = 1..Len(log)
      /\ log' \in Seq([kind : Kind, message : Message])
      /\ Len(log') = Len(log) + 1 /\ DOMAIN log' = 1..(Len(log) + 1)
      /\ Len(log) \in Nat
  BY DEF IInv, TypeOK, Record
<1>2. DOMAIN log' = DOMAIN log \cup {Len(log) + 1}
  BY <1>1
<1>3. Len(log') <= MaxEvents /\ faults' \in 0..MaxFaults
  <2>1. TypeOK /\ (UNCHANGED faults \/ Fault)
    BY DEF IInv
  <2>2. faults' \in 0..MaxFaults
    BY <2>1, FaultType DEF TypeOK
  <2> QED
    BY <1>1, <2>2, ConstantsAssumption DEF Event
<1>4. EventsAccounted'
  BY <1>2 DEF IInv, EventsAccounted, Record
<1>5. TypeOK'
  BY <1>1, <1>2, <1>3 DEF IInv, TypeOK, Record, peerVars
<1>6. SendingIsRow' /\ RecordedIsSettled' /\ OkIsSettled' /\ ToldIsTouched'
  BY DEF IInv, SendingIsRow, RecordedIsSettled, OkIsSettled, ToldIsTouched,
         At, InWork, Record, peerVars
<1> QED
  BY <1>4, <1>5, <1>6 DEF IInv

LEMMA ActStep == ASSUME IInv, NEW m \in Message, Act(m) PROVE IInv'
<1>1. PICK kind \in Kind : Record(kind, m)
  BY DEF Act, CreateMessage, UpdateMessage, DeleteMessage, BulkDelete, OtherEvent,
         Fanout, Kind
<1>2. home' \in [Message -> 0..MaxEvents]
  <2>1. Len(log) + 1 \in 0..MaxEvents /\ 0 \in 0..MaxEvents
    BY <1>1, ConstantsAssumption DEF Record, Event
  <2>2. home \in [Message -> 0..MaxEvents]
    BY DEF IInv, TypeOK
  <2> QED
    BY <2>1, <2>2
       DEF Act, CreateMessage, UpdateMessage, DeleteMessage, BulkDelete, OtherEvent
<1>3. /\ \/ outbox' = outbox \cup {Len(log) + 1} /\ lost' = lost
         \/ lost' = lost \cup {Len(log) + 1} /\ outbox' = outbox
      /\ UNCHANGED faults \/ Fault
  BY DEF Act, CreateMessage, UpdateMessage, DeleteMessage, BulkDelete, OtherEvent,
         Fanout
<1> QED
  BY <1>1, <1>2, <1>3, RecordStep

LEMMA ClaimStep == ASSUME IInv, Claim PROVE IInv'
BY DEF IInv, TypeOK, EventsAccounted, SendingIsRow, RecordedIsSettled,
       OkIsSettled, ToldIsTouched, At, InWork, Claim, homeVars, peerVars, history

LEMMA PostStep ==
  ASSUME IInv, NEW s \in Slot, NEW e \in batch, Post(e, s) PROVE IInv'
<1> DEFINE r == [event |-> e, stage |-> "sent"]
<1>1. e \in DOMAIN log /\ e \in Event /\ "sent" \in Stage
  BY LogTypes DEF IInv, TypeOK, Stage
<1>2. req'[s] = r /\ r # None /\ \A t \in Slot : t # s => req'[t] = req[t]
  BY <1>1, NoneIsNothing DEF IInv, TypeOK, Post
<1>3. sending' = [event |-> e, slot |-> s] /\ sending' # None
  BY <1>1, NoneIsNothing DEF Post
<1>4. req' \in [Slot -> {None} \cup [event : DOMAIN log, stage : Stage]]
  BY <1>1 DEF IInv, TypeOK, Post
<1>5. TypeOK'
  BY <1>1, <1>3, <1>4 DEF IInv, TypeOK, Post, homeVars, peerVars, history
<1>6. SendingIsRow'
  BY <1>2, <1>3 DEF IInv, TypeOK, SendingIsRow, Post
<1>7. PeerInv'
  <2>1. \A t \in Slot : InWork(t) <=> InWork(t)'
    BY <1>2 DEF InWork, Working, Post
  <2>2. \A t \in Slot : ~At(s, "ok")' /\ ~At(s, "tell")'
    BY <1>2 DEF At
  <2>3. \A t \in Slot : InWork(t) => req'[t] = req[t]
    BY <1>2 DEF InWork, Post
  <2>4. RecordedIsSettled'
    BY <2>1, <2>3 DEF IInv, RecordedIsSettled, Post, peerVars, history
  <2> QED
    BY <1>2, <2>2, <2>4 DEF IInv, PeerInv, OkIsSettled, ToldIsTouched, At, Post, history
<1> QED
  BY <1>5, <1>6, <1>7
     DEF IInv, PeerInv, EventsAccounted, Post, homeVars, peerVars, history

\* A slot that is freed takes nothing with it that was in work.
LEMMA FreeKeepsPeer ==
  ASSUME IInv, NEW s \in Slot, Free(s), ~InWork(s), UNCHANGED <<dedup, touched, lost>>
  PROVE  PeerInv'
<1>1. req'[s] = None /\ \A t \in Slot : t # s => req'[t] = req[t]
  BY DEF IInv, TypeOK, Free
<1>2. \A t \in Slot : InWork(t) => InWork(t)' /\ req'[t] = req[t]
  BY <1>1 DEF InWork
<1>3. RecordedIsSettled'
  BY <1>2 DEF IInv, RecordedIsSettled
<1> QED
  BY <1>1, <1>3 DEF IInv, PeerInv, OkIsSettled, ToldIsTouched, At

LEMMA FreeTypes ==
  ASSUME TypeOK, NEW s \in Slot, Free(s)
  PROVE  /\ req' \in [Slot -> {None} \cup [event : DOMAIN log, stage : Stage]]
         /\ req'[s] = None /\ \A t \in Slot : t # s => req'[t] = req[t]
BY DEF TypeOK, Free

LEMMA AcceptStep == ASSUME IInv, NEW s \in Slot, Accept(s) PROVE IInv'
<1> DEFINE e == sending.event
<1>1. sending # None /\ sending.slot = s /\ req[s] # None /\ req[s].stage = "ok"
  BY DEF Accept, Awaited, At
<1>2. e \in outbox \ batch /\ req[s].event = e
  BY <1>1 DEF IInv, SendingIsRow
<1>3. e \in touched \cup lost
  BY <1>1, <1>2 DEF IInv, OkIsSettled, At
<1>4. EventsAccounted'
  BY <1>3 DEF IInv, EventsAccounted, Accept, Drop, homeVars, peerVars, history
<1>5. TypeOK'
  BY <1>2, FreeTypes, FaultType
     DEF IInv, TypeOK, Accept, Drop, homeVars, peerVars, history
<1>6. PeerInv'
  BY <1>1, FreeKeepsPeer DEF Accept, InWork, Working, peerVars, history
<1> QED
  BY <1>4, <1>5, <1>6 DEF IInv, PeerInv, SendingIsRow, Accept

LEMMA FailStep == ASSUME IInv, NEW s \in Slot, Fail(s) PROVE IInv'
<1>1. /\ sending # None /\ sending.slot = s
      /\ sending \in [event : DOMAIN log, slot : Slot \cup {None}]
  BY DEF Fail, Awaited, IInv, TypeOK
<1>2. sending' = [event |-> sending.event, slot |-> None] /\ sending.event \in Event
  BY <1>1, LogTypes DEF Fail, IInv
<1>3. sending' # None
  BY <1>2, NoneIsNothing
<1>4. req' \in [Slot -> {None} \cup [event : DOMAIN log, stage : Stage]]
  BY FreeTypes DEF IInv, TypeOK, Fail
<1>5. TypeOK'
  BY <1>1, <1>2, <1>4, FaultType DEF IInv, TypeOK, Fail, homeVars, peerVars, history
<1>6. SendingIsRow'
  BY <1>1, <1>2, <1>3, NoneIsNothing DEF IInv, SendingIsRow, Fail
<1>7. PeerInv'
  <2>1. CASE At(s, "error") /\ Free(s)
    BY <2>1, FreeKeepsPeer DEF Fail, At, InWork, Working, peerVars, history
  <2>2. CASE UNCHANGED req
    BY <2>2 DEF IInv, PeerInv, RecordedIsSettled, OkIsSettled, ToldIsTouched,
                At, InWork, Fail, peerVars, history
  <2> QED
    BY <2>1, <2>2 DEF Fail
<1> QED
  BY <1>5, <1>6, <1>7
     DEF IInv, PeerInv, EventsAccounted, Fail, homeVars, peerVars, history

LEMMA SenderOnly ==
  ASSUME IInv, UNCHANGED <<req, dedup, touched>>, lost \subseteq lost'
  PROVE  PeerInv'
BY DEF IInv, PeerInv, RecordedIsSettled, OkIsSettled, ToldIsTouched, At, InWork

LEMMA RescheduleStep == ASSUME IInv, Reschedule PROVE IInv'
<1> DEFINE e == sending.event
<1>1. e \in outbox /\ e \in DOMAIN log /\ e \in Event
  BY LogTypes DEF IInv, SendingIsRow, TypeOK, Reschedule, Failed
<1>2. attempts' \in [Event -> 0..(MAX_ATTEMPTS - 1)]
  <2>1. attempts[e] \in Nat /\ attempts \in [Event -> 0..(MAX_ATTEMPTS - 1)]
    BY <1>1, ConstantsAssumption DEF IInv, TypeOK
  <2>2. attempts[e] + 1 < MAX_ATTEMPTS
    BY DEF Reschedule
  <2>3. attempts[e] + 1 \in 0..(MAX_ATTEMPTS - 1)
    BY <2>1, <2>2, ConstantsAssumption
  <2>4. attempts' = attempts \/ attempts' = [attempts EXCEPT ![e] = @ + 1]
    BY DEF Reschedule
  <2> QED
    BY <1>1, <2>1, <2>3, <2>4
<1>3. TypeOK'
  BY <1>1, <1>2, FaultType DEF IInv, TypeOK, Reschedule, homeVars, peerVars, history
<1>4. PeerInv'
  BY SenderOnly DEF Reschedule, peerVars, history
<1> QED
  BY <1>3, <1>4 DEF IInv, PeerInv, EventsAccounted, SendingIsRow, Reschedule,
                    homeVars, peerVars, history

LEMMA DeadLetterStep == ASSUME IInv, DeadLetter PROVE IInv'
<1> DEFINE e == sending.event
<1>1. e \in outbox \ batch /\ e \in DOMAIN log
  BY DEF IInv, SendingIsRow, TypeOK, DeadLetter, Failed
<1>2. TypeOK'
  BY <1>1, FaultType DEF IInv, TypeOK, DeadLetter, Drop, homeVars, peerVars
<1>3. EventsAccounted'
  BY DEF IInv, EventsAccounted, DeadLetter, Drop, homeVars, peerVars
<1>4. PeerInv'
  BY SenderOnly DEF DeadLetter, peerVars
<1> QED
  BY <1>2, <1>3, <1>4 DEF IInv, PeerInv, SendingIsRow, DeadLetter

LEMMA SendStep == ASSUME IInv, Send PROVE IInv'
<1>1. ASSUME NEW s \in Slot, \E e \in batch : Post(e, s) PROVE IInv'
  BY <1>1, PostStep
<1> QED
  BY <1>1, ClaimStep, RescheduleStep, DeadLetterStep, AcceptStep, FailStep DEF Send

LEMMA ElapseStep == ASSUME IInv, NEW e \in Event, Elapse(e) PROVE IInv'
<1>1. PeerInv'
  BY SenderOnly DEF Elapse, peerVars, history
<1> QED
  BY <1>1 DEF IInv, PeerInv, TypeOK, EventsAccounted, SendingIsRow, Elapse,
              homeVars, peerVars, history

LEMMA CrashHomeStep == ASSUME IInv, CrashHome PROVE IInv'
<1>1. PeerInv'
  BY SenderOnly DEF CrashHome, peerVars, history
<1> QED
  BY <1>1, FaultType DEF IInv, PeerInv, TypeOK, EventsAccounted, SendingIsRow, CrashHome,
              homeVars, peerVars, history

----------------------------------------------------------------------------
(* The peer's inbox.                                                       *)

\* A request in work that stays in work, its event touched if it is to be told.
LEMMA WorkGoesOn ==
  ASSUME IInv, NEW s \in Slot, NEW stage \in Working, InWork(s), Go(s, stage),
         stage = "tell" => req[s].event \in touched',
         touched \subseteq touched', UNCHANGED <<dedup, lost>>
  PROVE  PeerInv'
<1>1. /\ stage \in Stage /\ stage # "ok" /\ req[s] # None
      /\ IInv => TypeOK
  BY DEF Stage, Working, InWork, IInv
<1>2. /\ req'[s] # None /\ req'[s].event = req[s].event /\ req'[s].stage = stage
      /\ \A t \in Slot : t # s => req'[t] = req[t]
  BY <1>1, GoTypes
<1>3. \A t \in Slot : InWork(t) => InWork(t)' /\ req'[t].event = req[t].event
  BY <1>2 DEF InWork
<1>4. RecordedIsSettled'
  BY <1>3 DEF IInv, RecordedIsSettled
<1>5. OkIsSettled' /\ ToldIsTouched'
  BY <1>1, <1>2 DEF IInv, OkIsSettled, ToldIsTouched, At
<1> QED
  BY <1>4, <1>5 DEF PeerInv

\* A request that is answered once its event is settled, or no longer recorded.
LEMMA WorkEnds ==
  ASSUME IInv, NEW s \in Slot, NEW stage \in {"ok", "error"}, req[s] # None,
         Go(s, stage), dedup' \subseteq dedup,
         touched \subseteq touched', lost \subseteq lost',
         \/ req[s].event \in touched' \cup lost'
         \/ stage = "error" /\ (InWork(s) => req[s].event \notin dedup')
  PROVE  PeerInv'
<1>1. stage \in Stage /\ stage \notin Working /\ stage # "tell" /\ (IInv => TypeOK)
  BY DEF Stage, Working, IInv
<1>2. /\ req'[s] # None /\ req'[s].event = req[s].event /\ req'[s].stage = stage
      /\ \A t \in Slot : t # s => req'[t] = req[t]
  BY <1>1, GoTypes
<1>3. \A t \in Slot : t # s /\ InWork(t) => InWork(t)' /\ req'[t].event = req[t].event
  BY <1>2 DEF InWork
<1>4. RecordedIsSettled'
  <2> SUFFICES ASSUME NEW e \in dedup', e \notin touched' \cup lost'
               PROVE  \E t \in Slot : InWork(t)' /\ req'[t].event = e
    BY DEF RecordedIsSettled
  <2>1. PICK t \in Slot : InWork(t) /\ req[t].event = e
    BY DEF IInv, RecordedIsSettled
  <2>2. t # s
    BY <2>1
  <2> QED
    BY <1>3, <2>1, <2>2
<1>5. OkIsSettled' /\ ToldIsTouched'
  BY <1>1, <1>2 DEF IInv, OkIsSettled, ToldIsTouched, At
<1> QED
  BY <1>4, <1>5 DEF PeerInv

\* What the invariant says of the home server's side.
LEMMA HandlerOnly ==
  ASSUME IInv, NEW s \in Slot, NEW stage \in Stage, req[s] # None, Go(s, stage),
         UNCHANGED <<homeVars, senderVars>>,
         dedup' \subseteq DOMAIN log, replica' \in [Message -> 0..MaxEvents],
         shown' \subseteq touched', late' \subseteq touched',
         touched \subseteq touched', touched' \subseteq DOMAIN log,
         lost \subseteq lost', lost' \subseteq DOMAIN log,
         UNCHANGED faults \/ Fault,
         PeerInv'
  PROVE  IInv'
<1>1. IInv => TypeOK /\ SendingIsRow
  BY DEF IInv
<1>2. req' \in [Slot -> {None} \cup [event : DOMAIN log, stage : Stage]]
  BY <1>1, GoTypes
<1>3. faults' \in 0..MaxFaults
  BY <1>1, FaultType DEF TypeOK
<1>4. TypeOK'
  BY <1>1, <1>2, <1>3 DEF TypeOK, homeVars, senderVars
<1>5. EventsAccounted'
  BY DEF IInv, EventsAccounted, homeVars, senderVars
<1>6. SendingIsRow'
  BY <1>1, GoKeepsSending
<1> QED
  BY <1>4, <1>5, <1>6 DEF IInv, PeerInv

LEMMA HandlerTypes ==
  ASSUME IInv, NEW s \in Slot, req[s] # None
  PROVE  /\ req[s].event \in DOMAIN log /\ req[s].event \in 0..MaxEvents
         /\ MessageOf(req[s].event) \in Message
         /\ dedup \subseteq DOMAIN log /\ replica \in [Message -> 0..MaxEvents]
         /\ shown \subseteq touched /\ late \subseteq touched
         /\ touched \subseteq DOMAIN log /\ lost \subseteq DOMAIN log
<1>1. req[s].event \in DOMAIN log
  BY DEF IInv, TypeOK
<1>2. log[req[s].event] \in [kind : Kind, message : Message]
      /\ req[s].event \in 0..MaxEvents
  BY <1>1, LogTypes, ConstantsAssumption DEF IInv, Event
<1> QED
  BY <1>1, <1>2 DEF IInv, TypeOK, MessageOf

LEMMA TouchTypes ==
  ASSUME IInv, NEW s \in Slot, req[s] # None, Touch(req[s].event)
  PROVE  /\ touched' = touched \cup {req[s].event} /\ lost' = lost
         /\ touched' \subseteq DOMAIN log /\ late' \subseteq touched'
BY HandlerTypes DEF Touch

LEMMA RefuseStep == ASSUME IInv, NEW s \in Slot, Refuse(s) PROVE IInv'
<1>1. /\ req[s] # None /\ ~InWork(s) /\ Go(s, "error") /\ "error" \in Stage
      /\ UNCHANGED <<peerVars, history>>
  BY DEF Refuse, At, InWork, Working, Stage
<1>2. PeerInv'
  BY <1>1, WorkEnds DEF peerVars, history
<1> QED
  BY <1>1, <1>2, HandlerTypes, HandlerOnly DEF Refuse, peerVars, history

LEMMA BeginStep == ASSUME IInv, NEW s \in Slot, Begin(s) PROVE IInv'
<1> DEFINE e == req[s].event
<1>1. /\ req[s] # None /\ Go(s, "apply") /\ "apply" \in Stage /\ "apply" \in Working
      /\ dedup' = dedup \cup {e} /\ UNCHANGED <<replica, shown, history>>
      /\ (IInv => TypeOK)
  BY DEF Begin, At, Stage, Working, IInv
<1>2. /\ req'[s] # None /\ req'[s].event = e /\ req'[s].stage = "apply"
      /\ \A t \in Slot : t # s => req'[t] = req[t]
  BY <1>1, GoTypes
<1>3. InWork(s)' /\ ~InWork(s)
  BY <1>1, <1>2 DEF Begin, At, InWork, Working
<1>4. \A t \in Slot : InWork(t) => InWork(t)' /\ req'[t].event = req[t].event
  BY <1>2, <1>3 DEF InWork
<1>5. RecordedIsSettled'
  BY <1>1, <1>2, <1>3, <1>4 DEF IInv, RecordedIsSettled, history
<1>6. OkIsSettled' /\ ToldIsTouched'
  BY <1>1, <1>2 DEF IInv, OkIsSettled, ToldIsTouched, At, history
<1>7. PeerInv'
  BY <1>5, <1>6 DEF PeerInv
<1> QED
  BY <1>1, <1>7, HandlerTypes, HandlerOnly DEF Begin, history

LEMMA AckDuplicateStep == ASSUME IInv, NEW s \in Slot, AckDuplicate(s) PROVE IInv'
<1> DEFINE e == req[s].event
<1>1. /\ req[s] # None /\ Go(s, "ok") /\ "ok" \in Stage /\ e \in dedup
      /\ UNCHANGED <<peerVars, touched, late>>
      /\ lost' \in {lost, lost \cup {e}}
  BY DEF AckDuplicate, At, Stage
<1>2. e \in touched' \cup lost'
  BY DEF IInv, RecordedIsSettled, AckDuplicate
<1>3. PeerInv'
  BY <1>1, <1>2, WorkEnds DEF peerVars
<1> QED
  BY <1>1, <1>3, HandlerTypes, HandlerOnly DEF AckDuplicate, peerVars

LEMMA TakeForAbsentStep == ASSUME IInv, NEW s \in Slot, TakeForAbsent(s) PROVE IInv'
<1>1. /\ req[s] # None /\ Go(s, "ok") /\ "ok" \in Stage
      /\ lost' = lost \cup {req[s].event} /\ UNCHANGED <<peerVars, touched, late>>
  BY DEF TakeForAbsent, At, Stage
<1>2. PeerInv'
  BY <1>1, WorkEnds DEF peerVars
<1> QED
  BY <1>1, <1>2, HandlerTypes, HandlerOnly DEF TakeForAbsent, peerVars

LEMMA StoreMessageStep == ASSUME IInv, NEW s \in Slot, StoreMessage(s) PROVE IInv'
<1>1. /\ req[s] # None /\ InWork(s) /\ Go(s, "tell") /\ Touch(req[s].event)
      /\ "tell" \in Stage /\ "tell" \in Working /\ UNCHANGED <<dedup, shown>>
  BY DEF StoreMessage, Apply, At, InWork, Working, Stage
<1>2. PeerInv'
  BY <1>1, TouchTypes, WorkGoesOn
<1>3. replica' \in [Message -> 0..MaxEvents]
  BY <1>1, HandlerTypes DEF StoreMessage, SetRow
<1> QED
  BY <1>1, <1>2, <1>3, TouchTypes, HandlerTypes, HandlerOnly DEF StoreMessage

LEMMA FindStoredStep == ASSUME IInv, NEW s \in Slot, FindStored(s) PROVE IInv'
<1>1. /\ req[s] # None /\ Go(s, "ok") /\ "ok" \in Stage
      /\ touched' = touched \cup {req[s].event}
      /\ UNCHANGED <<peerVars, late, lost>>
  BY DEF FindStored, Apply, At, Stage
<1>2. PeerInv'
  BY <1>1, WorkEnds DEF peerVars
<1> QED
  BY <1>1, <1>2, HandlerTypes, HandlerOnly DEF FindStored, peerVars

LEMMA FindRowStep == ASSUME IInv, NEW s \in Slot, FindRow(s) PROVE IInv'
<1>1. /\ req[s] # None /\ InWork(s) /\ Go(s, "write")
      /\ "write" \in Stage /\ "write" \in Working /\ UNCHANGED <<peerVars, history>>
  BY DEF FindRow, Apply, At, InWork, Working, Stage
<1>2. PeerInv'
  BY <1>1, WorkGoesOn DEF peerVars, history
<1> QED
  BY <1>1, <1>2, HandlerTypes, HandlerOnly DEF FindRow, peerVars, history

LEMMA IgnoreAbsentStep == ASSUME IInv, NEW s \in Slot, IgnoreAbsent(s) PROVE IInv'
<1>1. /\ req[s] # None /\ Go(s, "ok") /\ "ok" \in Stage /\ Touch(req[s].event)
      /\ UNCHANGED peerVars
  BY DEF IgnoreAbsent, Apply, At, Stage
<1>2. PeerInv'
  BY <1>1, TouchTypes, WorkEnds DEF peerVars
<1> QED
  BY <1>1, <1>2, TouchTypes, HandlerTypes, HandlerOnly DEF IgnoreAbsent, peerVars

LEMMA WriteUpdateStep == ASSUME IInv, NEW s \in Slot, WriteUpdate(s) PROVE IInv'
<1>1. /\ req[s] # None /\ InWork(s) /\ Touch(req[s].event) /\ UNCHANGED <<dedup, shown>>
      /\ {"tell", "undo"} \subseteq Stage /\ {"tell", "undo"} \subseteq Working
  BY DEF WriteUpdate, Apply, At, InWork, Working, Stage
<1>2. PICK stage \in {"tell", "undo"} : Go(s, stage)
  BY DEF WriteUpdate
<1>3. PeerInv'
  BY <1>1, <1>2, TouchTypes, WorkGoesOn
<1>4. replica' \in [Message -> 0..MaxEvents]
  BY <1>1, HandlerTypes, ConstantsAssumption DEF WriteUpdate, SetRow
<1> QED
  BY <1>1, <1>2, <1>3, <1>4, TouchTypes, HandlerTypes, HandlerOnly DEF WriteUpdate

LEMMA WriteDeleteStep == ASSUME IInv, NEW s \in Slot, WriteDelete(s) PROVE IInv'
<1>1. /\ req[s] # None /\ InWork(s) /\ Go(s, "tell") /\ Touch(req[s].event)
      /\ "tell" \in Stage /\ "tell" \in Working /\ UNCHANGED <<dedup, shown>>
  BY DEF WriteDelete, Apply, At, InWork, Working, Stage
<1>2. PeerInv'
  BY <1>1, TouchTypes, WorkGoesOn
<1>3. replica' \in [Message -> 0..MaxEvents]
  BY <1>1, HandlerTypes, ConstantsAssumption DEF WriteDelete, SetRow
<1> QED
  BY <1>1, <1>2, <1>3, TouchTypes, HandlerTypes, HandlerOnly DEF WriteDelete

LEMMA TellStep == ASSUME IInv, NEW s \in Slot, Tell(s) PROVE IInv'
<1>1. /\ req[s] # None /\ Go(s, "ok") /\ "ok" \in Stage /\ At(s, "tell")
      /\ shown' = shown \cup {req[s].event} /\ UNCHANGED <<dedup, replica, history>>
  BY DEF Tell, Apply, At, Stage
<1>2. req[s].event \in touched
  BY <1>1 DEF IInv, ToldIsTouched
<1>3. PeerInv'
  BY <1>1, <1>2, WorkEnds DEF history
<1> QED
  BY <1>1, <1>2, <1>3, HandlerTypes, HandlerOnly DEF Tell, history

LEMMA TellFailsStep == ASSUME IInv, NEW s \in Slot, TellFails(s) PROVE IInv'
<1>1. /\ req[s] # None /\ InWork(s) /\ At(s, "tell") /\ {"undo", "ok"} \subseteq Stage
      /\ "undo" \in Working /\ UNCHANGED <<peerVars, history>>
      /\ Go(s, "undo") \/ Go(s, "ok")
  BY DEF TellFails, Apply, At, InWork, Working, Stage
<1>2. req[s].event \in touched
  BY <1>1 DEF IInv, ToldIsTouched
<1>3. PeerInv'
  <2>1. CASE Go(s, "undo")
    BY <1>1, <2>1, WorkGoesOn DEF peerVars, history
  <2>2. CASE Go(s, "ok")
    BY <1>1, <1>2, <2>2, WorkEnds DEF peerVars, history
  <2> QED
    BY <1>1, <2>1, <2>2
<1> QED
  BY <1>1, <1>3, HandlerTypes, HandlerOnly DEF TellFails, peerVars, history

LEMMA RejectStep == ASSUME IInv, NEW s \in Slot, Reject(s) PROVE IInv'
<1>1. /\ req[s] # None /\ InWork(s) /\ Go(s, "undo") /\ "undo" \in Stage
      /\ "undo" \in Working /\ UNCHANGED <<peerVars, history>>
  BY DEF Reject, Apply, At, InWork, Working, Stage
<1>2. PeerInv'
  BY <1>1, WorkGoesOn DEF peerVars, history
<1> QED
  BY <1>1, <1>2, HandlerTypes, HandlerOnly DEF Reject, peerVars, history

LEMMA RollbackDedupStep == ASSUME IInv, NEW s \in Slot, RollbackDedup(s) PROVE IInv'
<1> DEFINE e == req[s].event
<1>1. /\ req[s] # None /\ Go(s, "error") /\ "error" \in Stage
      /\ UNCHANGED <<replica, shown, touched, late>>
      /\ \/ dedup' = dedup \ {e} /\ lost' = lost
         \/ lost' = lost \cup {e} /\ dedup' = dedup
  BY DEF RollbackDedup, At, Stage
<1>2. dedup' \subseteq dedup /\ lost \subseteq lost'
  BY <1>1
<1>3. e \in touched' \cup lost' \/ e \notin dedup'
  BY <1>1
<1>4. PeerInv'
  BY <1>1, <1>2, <1>3, WorkEnds
<1> QED
  BY <1>1, <1>2, <1>4, HandlerTypes, HandlerOnly DEF RollbackDedup

LEMMA HandleStep == ASSUME IInv, NEW s \in Slot, Handle(s) PROVE IInv'
BY RefuseStep, BeginStep, AckDuplicateStep, TakeForAbsentStep, StoreMessageStep,
   FindStoredStep, FindRowStep, IgnoreAbsentStep, WriteUpdateStep, WriteDeleteStep, TellStep,
   TellFailsStep, RejectStep, RollbackDedupStep
   DEF Handle

----------------------------------------------------------------------------
(* What may happen to a request or to the record of an event.              *)

LEMMA BreakStep == ASSUME IInv, NEW s \in Slot, Break(s) PROVE IInv'
<1> DEFINE e == req[s].event
<1>1. req[s] # None /\ Free(s) /\ (IInv => TypeOK)
  BY DEF Break, IInv
<1>2. /\ req' \in [Slot -> {None} \cup [event : DOMAIN log, stage : Stage]]
      /\ req'[s] = None /\ \A t \in Slot : t # s => req'[t] = req[t]
  BY <1>1, FreeTypes
<1>3. e \in DOMAIN log
  BY <1>1, HandlerTypes
<1>4. TypeOK'
  BY <1>1, <1>2, <1>3, FaultType
     DEF TypeOK, Break, homeVars, senderVars, peerVars
<1>5. SendingIsRow'
  BY <1>2 DEF IInv, SendingIsRow, Break, senderVars
<1>6. RecordedIsSettled'
  <2> SUFFICES ASSUME NEW f \in dedup, f \notin touched \cup lost'
               PROVE  \E t \in Slot : InWork(t)' /\ req'[t].event = f
    BY DEF RecordedIsSettled, Break, peerVars
  <2>1. PICK t \in Slot : InWork(t) /\ req[t].event = f
    BY DEF IInv, RecordedIsSettled, Break
  <2>2. t # s
    BY <2>1 DEF Break
  <2> QED
    BY <1>2, <2>1, <2>2 DEF InWork
<1>7. OkIsSettled' /\ ToldIsTouched'
  BY <1>2 DEF IInv, OkIsSettled, ToldIsTouched, At, Break
<1>8. EventsAccounted'
  BY DEF IInv, EventsAccounted, Break, homeVars, senderVars
<1> QED
  BY <1>4, <1>5, <1>6, <1>7, <1>8 DEF IInv

LEMMA CrashPeerStep == ASSUME IInv, CrashPeer PROVE IInv'
<1>1. \A s \in Slot : req'[s] = None
  BY DEF CrashPeer
<1>2. \A s \in Slot : InWork(s) => req[s].event \in DOMAIN log /\ req[s].event \in Event
  BY HandlerTypes, LogTypes DEF InWork, IInv
<1>3. lost \subseteq lost' /\ lost' \subseteq DOMAIN log
  BY <1>2, HandlerTypes DEF CrashPeer, IInv, TypeOK
<1>4. TypeOK'
  BY <1>3, FaultType DEF IInv, TypeOK, CrashPeer, homeVars, senderVars, peerVars
<1>5. RecordedIsSettled'
  BY <1>2 DEF IInv, RecordedIsSettled, CrashPeer, peerVars
<1>6. SendingIsRow' /\ OkIsSettled' /\ ToldIsTouched'
  BY <1>1 DEF IInv, SendingIsRow, OkIsSettled, ToldIsTouched, At, CrashPeer, senderVars
<1>7. EventsAccounted'
  BY <1>3 DEF IInv, EventsAccounted, CrashPeer, homeVars, senderVars
<1> QED
  BY <1>4, <1>5, <1>6, <1>7 DEF IInv

LEMMA PruneStep == ASSUME IInv, NEW e \in Event, Prune(e) PROVE IInv'
<1>1. TypeOK'
  BY FaultType DEF IInv, TypeOK, Prune, homeVars, senderVars, history
<1>2. RecordedIsSettled'
  BY DEF IInv, RecordedIsSettled, InWork, Prune, history
<1> QED
  BY <1>1, <1>2 DEF IInv, EventsAccounted, SendingIsRow, OkIsSettled, ToldIsTouched,
                    At, Prune, homeVars, senderVars, history

LEMMA StutterStep == ASSUME IInv, UNCHANGED vars PROVE IInv'
BY DEF IInv, TypeOK, EventsAccounted, SendingIsRow, RecordedIsSettled,
       OkIsSettled, ToldIsTouched, At, InWork, vars

LEMMA NextStep == ASSUME IInv, [Next]_vars PROVE IInv'
BY ActStep, SendStep, ElapseStep, PruneStep, HandleStep, BreakStep,
   CrashHomeStep, CrashPeerStep, StutterStep DEF Next

\* The inductive invariant holds throughout, whatever fails and in whatever
\* order the requests arrive.
THEOREM Invariance == Spec => []IInv
<1>1. Init => IInv
  BY InitInv
<1>2. IInv /\ [Next]_vars => IInv'
  BY NextStep
<1> QED
  BY <1>1, <1>2, PTL DEF Spec

\* Every variable of the outbox, the requests and the inbox keeps its type; the
\* attempts of a row stay below MAX_ATTEMPTS.
THEOREM TypeCorrect == Spec => []TypeOK
<1>1. IInv => TypeOK
  BY DEF IInv
<1> QED
  BY <1>1, Invariance, PTL

\* An event that fanout_to_space enqueued leaves the outbox only once it has had
\* its effect on the peer, or a failure that can lose it has happened to it.
THEOREM EveryEventAccounted == Spec => []EventsAccounted
<1>1. IInv => EventsAccounted
  BY DEF IInv
<1> QED
  BY <1>1, Invariance, PTL
----------------------------------------------------------------------------
(* Convergence.  The rows are followed separately: the home's row is the   *)
(* last event of its message, and the peer's the last that took effect, as *)
(* long as none of the message took effect after a later one.              *)

Of(m) == {e \in DOMAIN log : MessageOf(e) = m /\ log[e].kind # "other"}

\* A message is created before its other events, and deleted after them.
LogOrdered ==
  \A e \in DOMAIN log : \A f \in Of(MessageOf(e)) :
    /\ log[e].kind = "create" => e <= f
    /\ log[e].kind = "delete" => f <= e
CreatedFirst == \A m \in Message : Of(m) # {} => Posted(m)

\* Of the events that have happened to m, the last wrote the row or deleted it.
Wrote(row, happened) ==
  IF row # 0
  THEN row \in happened /\ log[row].kind # "delete" /\ \A f \in happened : f <= row
  ELSE \/ \A f \in happened : log[f].kind # "create"
       \/ \E d \in happened : log[d].kind = "delete"

HomeIsLast == \A m \in Message : Wrote(home[m], Of(m))
ReplicaFollows == \A m \in Message :
  \/ \E e \in late : MessageOf(e) = m
  \/ Wrote(replica[m], touched \cap Of(m))
OthersUntouched == \A e \in touched : log[e].kind # "other"

Rows == LogOrdered /\ CreatedFirst /\ HomeIsLast /\ ReplicaFollows /\ OthersUntouched

LEMMA InitRows == Init => Rows
BY DEF Init, Rows, LogOrdered, CreatedFirst, HomeIsLast, ReplicaFollows, OthersUntouched,
       Wrote, Of

\* What a new event changes of the log.
LEMMA RecordLog ==
  ASSUME TypeOK, NEW kind \in Kind, NEW m \in Message, Record(kind, m)
  PROVE  /\ Len(log) + 1 \in Event /\ Len(log) \in Nat
         /\ DOMAIN log = 1..Len(log) /\ DOMAIN log' = DOMAIN log \cup {Len(log) + 1}
         /\ \A e \in DOMAIN log : log'[e] = log[e]
         /\ log'[Len(log) + 1] = [kind |-> kind, message |-> m]
         /\ \A n \in Message : Of(n)' = IF n = m /\ kind # "other"
                                        THEN Of(n) \cup {Len(log) + 1} ELSE Of(n)
<1> DEFINE new == Len(log) + 1
<1>1. /\ new \in Event /\ DOMAIN log = 1..Len(log) /\ Len(log) \in Nat
      /\ Len(log') = new /\ DOMAIN log' = 1..new
      /\ \A e \in 1..Len(log) : log'[e] = log[e]
      /\ log'[new] = [kind |-> kind, message |-> m]
  BY DEF TypeOK, Record
<1>2. DOMAIN log' = DOMAIN log \cup {new} /\ new \notin DOMAIN log
  BY <1>1
<1>3. ASSUME NEW n \in Message
      PROVE  Of(n)' = IF n = m /\ kind # "other" THEN Of(n) \cup {new} ELSE Of(n)
  BY <1>1, <1>2 DEF Of, MessageOf
<1> QED
  BY <1>1, <1>2, <1>3

\* An event of a message that is there already, or that creates one, keeps the
\* order of the log.
LEMMA RecordRows ==
  ASSUME TypeOK, Rows, NEW kind \in Kind, NEW m \in Message, Record(kind, m),
         kind = "create" => ~Posted(m),
         kind \in {"update", "delete"} => home[m] # 0,
         home' = [home EXCEPT ![m] = IF kind = "other" THEN @
                                     ELSE IF kind = "delete" THEN 0 ELSE Len(log) + 1]
  PROVE  Rows'
<1> DEFINE new == Len(log) + 1
<1>1. /\ DOMAIN log = 1..Len(log) /\ Len(log) \in Nat /\ DOMAIN log' = DOMAIN log \cup {new}
      /\ \A e \in DOMAIN log : log'[e] = log[e] /\ e < new
      /\ log'[new] = [kind |-> kind, message |-> m] /\ new # 0 /\ new \notin DOMAIN log
  <2>1. /\ DOMAIN log = 1..Len(log) /\ Len(log) \in Nat /\ DOMAIN log' = DOMAIN log \cup {new}
        /\ \A e \in DOMAIN log : log'[e] = log[e]
        /\ log'[new] = [kind |-> kind, message |-> m]
    BY RecordLog
  <2>2. new # 0 /\ \A e \in DOMAIN log : e < new
    BY <2>1
  <2> QED
    BY <2>1, <2>2
<1>2. \A n \in Message : Of(n) \subseteq DOMAIN log
  BY DEF Of
<1>3. \A n \in Message : Of(n)' = IF n = m /\ kind # "other" THEN Of(n) \cup {new} ELSE Of(n)
  BY RecordLog
<1>4. \A e \in DOMAIN log : MessageOf(e)' = MessageOf(e) /\ MessageOf(e) \in Message
  BY <1>1, LogTypes DEF MessageOf
<1>5. kind = "create" => Of(m) = {}
  BY DEF Rows, CreatedFirst
<1>6. kind \in {"update", "delete"} => \A e \in Of(m) : log[e].kind # "delete"
  <2> SUFFICES ASSUME kind \in {"update", "delete"}, NEW e \in Of(m), log[e].kind = "delete"
               PROVE  FALSE
    OBVIOUS
  <2>1. home[m] \in Of(m) /\ e <= home[m] /\ log[home[m]].kind # "delete"
    BY DEF Rows, HomeIsLast, Wrote
  <2>2. home[m] <= e /\ MessageOf(e) = m
    BY <2>1 DEF Rows, LogOrdered, Of
  <2> QED
    BY <1>1, <1>2, <2>1, <2>2
<1>7. kind # "other" => \A e \in Of(m) : log[e].kind # "delete"
  BY <1>5, <1>6 DEF Kind
<1>8. LogOrdered'
  <2> SUFFICES ASSUME NEW e \in DOMAIN log', NEW f \in Of(MessageOf(e))'
               PROVE  /\ log'[e].kind = "create" => e <= f
                      /\ log'[e].kind = "delete" => f <= e
    BY DEF LogOrdered
  <2>1. CASE e \in DOMAIN log /\ f \in DOMAIN log
    <3>1. f \in Of(MessageOf(e))
      BY <1>1, <1>3, <1>4, <2>1
    <3> QED
      BY <1>1, <2>1, <3>1 DEF Rows, LogOrdered
  <2>2. CASE e \in DOMAIN log /\ f = new
    <3>1. MessageOf(e) = m /\ kind # "other"
      BY <1>1, <1>2, <1>3, <1>4, <2>2
    <3>2. e \in Of(m) \/ log[e].kind = "other"
      BY <2>2, <3>1 DEF Of
    <3> QED
      BY <1>1, <1>7, <2>2, <3>1, <3>2
  <2>3. CASE e = new /\ f \in DOMAIN log
    <3>1. MessageOf(e)' = m
      BY <1>1, <2>3 DEF MessageOf
    <3>2. f \in Of(m)
      BY <1>1, <1>3, <2>3, <3>1
    <3> QED
      BY <1>1, <1>5, <2>3, <3>2
  <2>4. CASE e = new /\ f = new
    BY <1>1, <2>4
  <2>5. f \in DOMAIN log'
    BY DEF Of
  <2> QED
    BY <1>1, <2>1, <2>2, <2>3, <2>4, <2>5
<1>9. CreatedFirst'
  <2> SUFFICES ASSUME NEW n \in Message, Of(n)' # {} PROVE Posted(n)'
    BY DEF CreatedFirst
  <2>1. CASE Posted(n)
    BY <1>1, <2>1 DEF Posted
  <2>2. CASE ~Posted(n)
    <3>1. n = m /\ kind # "other" /\ Of(m) = {}
      BY <1>3, <2>2 DEF Rows, CreatedFirst
    <3>2. kind = "create"
      BY <3>1 DEF Rows, HomeIsLast, Wrote, Kind
    <3> QED
      BY <1>1, <3>1, <3>2 DEF Posted
  <2> QED
    BY <2>1, <2>2
<1>10. HomeIsLast'
  <2> SUFFICES ASSUME NEW n \in Message PROVE Wrote(home[n], Of(n))'
    BY DEF HomeIsLast
  <2>0. Wrote(home[n], Of(n)) /\ home \in [Message -> 0..MaxEvents]
    BY DEF Rows, HomeIsLast, TypeOK
  <2>1. CASE n # m \/ kind = "other"
    <3>1. home'[n] = home[n] /\ Of(n)' = Of(n)
      BY <1>3, <2>0, <2>1
    <3>2. \A e \in Of(n) : log'[e] = log[e]
      BY <1>1, <1>2
    <3> QED
      BY <2>0, <3>1, <3>2 DEF Wrote
  <2>2. CASE n = m /\ kind # "other"
    <3>1. home'[m] = IF kind = "delete" THEN 0 ELSE new
      BY <2>0, <2>2
    <3>2. Of(m)' = Of(m) \cup {new}
      BY <1>3, <2>2
    <3> QED
      BY <1>1, <1>2, <2>2, <3>1, <3>2 DEF Wrote
  <2> QED
    BY <2>1, <2>2
<1>11. touched' = touched /\ late' = late /\ replica' = replica
       /\ touched \subseteq DOMAIN log /\ late \subseteq DOMAIN log
  BY DEF Record, peerVars, TypeOK
<1>12. ReplicaFollows'
  <2> SUFFICES ASSUME NEW n \in Message, ~\E e \in late : MessageOf(e) = n
               PROVE  Wrote(replica[n], touched \cap Of(n))'
    BY <1>4, <1>11 DEF ReplicaFollows
  <2>1. Wrote(replica[n], touched \cap Of(n))
    BY DEF Rows, ReplicaFollows
  <2>2. (touched \cap Of(n))' = touched \cap Of(n)
    BY <1>1, <1>3, <1>11
  <2>3. \A e \in touched \cap Of(n) : log'[e] = log[e]
    BY <1>1, <1>2
  <2> QED
    BY <1>11, <2>1, <2>2, <2>3 DEF Wrote
<1>13. OthersUntouched'
  BY <1>1, <1>11 DEF Rows, OthersUntouched
<1> QED
  BY <1>8, <1>9, <1>10, <1>12, <1>13 DEF Rows

LEMMA ActRows == ASSUME TypeOK, Rows, NEW m \in Message, Act(m) PROVE Rows'
<1>0. home \in [Message -> 0..MaxEvents]
  BY DEF TypeOK
<1>1. CASE CreateMessage(m)
  <2>1. Record("create", m) /\ "create" \in Kind
    BY <1>1 DEF CreateMessage, Fanout, Kind
  <2> QED
    BY <1>0, <1>1, <2>1, RecordRows DEF CreateMessage
<1>2. CASE UpdateMessage(m)
  <2>1. Record("update", m) /\ "update" \in Kind
    BY <1>2 DEF UpdateMessage, Fanout, Kind
  <2> QED
    BY <1>0, <1>2, <2>1, RecordRows DEF UpdateMessage
<1>3. CASE DeleteMessage(m) \/ BulkDelete(m)
  <2>1. Record("delete", m) /\ "delete" \in Kind
    BY <1>3 DEF DeleteMessage, BulkDelete, Fanout, Kind
  <2> QED
    BY <1>0, <1>3, <2>1, RecordRows DEF DeleteMessage, BulkDelete
<1>4. CASE OtherEvent(m)
  <2>1. Record("other", m) /\ "other" \in Kind /\ home' = home
    BY <1>4 DEF OtherEvent, Fanout, Kind
  <2> QED
    BY <1>0, <2>1, RecordRows
<1> QED
  BY <1>1, <1>2, <1>3, <1>4 DEF Act

\* A step that neither records nor applies an event.
LEMMA RowsKept ==
  ASSUME Rows, UNCHANGED <<log, home, replica, touched, late>> PROVE Rows'
BY DEF Rows, LogOrdered, CreatedFirst, HomeIsLast, ReplicaFollows, OthersUntouched,
       Wrote, Of, MessageOf, Posted

\* An event e of m takes effect and leaves the row as it should be.
LEMMA EffectRows ==
  ASSUME TypeOK, Rows, NEW e \in DOMAIN log, log[e].kind # "other",
         NEW row \in 0..MaxEvents, UNCHANGED <<log, home>>,
         touched' = touched \cup {e},
         \/ late' = late \cup {e}
         \/ late' = late /\ \A f \in touched : MessageOf(f) = MessageOf(e) => f <= e
         \/ late' = late /\ row = replica[MessageOf(e)] /\ row # 0,
         replica' = [replica EXCEPT ![MessageOf(e)] = row],
         \/ row = replica[MessageOf(e)] /\ row # 0 /\ log[e].kind = "create"
         \/ row = replica[MessageOf(e)] /\ row = 0 /\ log[e].kind # "create"
         \/ row = e /\ log[e].kind # "delete"
         \/ row = 0 /\ log[e].kind = "delete"
  PROVE  Rows'
<1> DEFINE m == MessageOf(e)
<1>1. /\ m \in Message /\ e \in Of(m) /\ e \in Nat /\ e # 0 /\ DOMAIN log \subseteq Nat
      /\ replica \in [Message -> 0..MaxEvents]
      /\ touched \subseteq DOMAIN log /\ late \subseteq DOMAIN log
  <2>1. DOMAIN log \subseteq Event /\ log[e] \in [kind : Kind, message : Message]
    BY LogTypes
  <2>2. m \in Message /\ e \in Of(m)
    BY <2>1 DEF Of, MessageOf
  <2> QED
    BY <2>1, <2>2 DEF Event, TypeOK
<1>2. \A n \in Message : Of(n)' = Of(n) /\ Of(n) \subseteq DOMAIN log
  BY DEF Of, MessageOf
<1>3. \A f \in DOMAIN log : MessageOf(f)' = MessageOf(f)
  BY DEF MessageOf
<1>4. ReplicaFollows'
  <2> SUFFICES ASSUME NEW n \in Message, ~\E f \in late' : MessageOf(f) = n
               PROVE  Wrote(replica[n], touched \cap Of(n))'
    BY DEF ReplicaFollows, MessageOf
  <2>1. Wrote(replica[n], touched \cap Of(n))
    BY DEF Rows, ReplicaFollows
  <2>2. CASE n # m
    <3>1. touched' \cap Of(n) = touched \cap Of(n) /\ replica'[n] = replica[n]
      BY <1>1, <2>2 DEF Of
    <3> QED
      BY <1>2, <2>1, <3>1 DEF Wrote
  <2>3. CASE n = m
    <3>1. /\ touched' \cap Of(n) = (touched \cap Of(n)) \cup {e} /\ replica'[n] = row
          /\ touched \cap Of(n) \subseteq Nat
      BY <1>1, <1>2, <2>3
    <3>2. log[e].kind = "create" => \A f \in touched \cap Of(n) : e <= f
      BY <2>3 DEF Rows, LogOrdered
    <3>3. late' = late
      BY <2>3
    <3>4. \A f \in touched \cap Of(n) : MessageOf(f) = m
      BY <2>3 DEF Of
    <3>5. CASE row = replica[m] /\ row # 0 /\ log[e].kind = "create"
      <4>1. row \in touched \cap Of(n) /\ log[row].kind # "delete"
            /\ \A f \in touched \cap Of(n) : f <= row
        BY <2>1, <2>3, <3>5 DEF Wrote
      <4>2. e <= row
        BY <3>2, <3>5, <4>1
      <4> QED
        BY <1>2, <3>1, <3>5, <4>1, <4>2 DEF Wrote
    <3>6. CASE row = replica[m] /\ row = 0 /\ log[e].kind # "create"
      BY <1>2, <2>1, <2>3, <3>1, <3>6 DEF Wrote
    <3>7. CASE row = e /\ log[e].kind # "delete"
      <4>1. \A f \in touched \cap Of(n) : f <= e
        <5>1. CASE \A f \in touched : MessageOf(f) = MessageOf(e) => f <= e
          BY <3>4, <5>1
        <5>2. CASE row = replica[MessageOf(e)] /\ row # 0
          BY <2>1, <2>3, <3>7, <5>2 DEF Wrote
        <5>3. e \notin late
          BY <2>3, <3>3
        <5> QED
          BY <5>1, <5>2, <5>3, <3>3
      <4> QED
        BY <1>1, <1>2, <3>1, <3>7, <4>1 DEF Wrote
    <3>8. CASE row = 0 /\ log[e].kind = "delete"
      BY <1>2, <3>1, <3>8 DEF Wrote
    <3> QED
      BY <3>5, <3>6, <3>7, <3>8
  <2> QED
    BY <2>2, <2>3
<1>5. LogOrdered' /\ CreatedFirst' /\ HomeIsLast'
  BY DEF Rows, LogOrdered, CreatedFirst, HomeIsLast, Wrote, Of, MessageOf, Posted
<1>6. OthersUntouched'
  BY DEF Rows, OthersUntouched
<1> QED
  BY <1>4, <1>5, <1>6 DEF Rows

\* The handlers of the inbox that apply an event.
LEMMA TouchLate ==
  ASSUME TypeOK, NEW e \in DOMAIN log, Touch(e)
  PROVE  /\ touched' = touched \cup {e}
         /\ \/ late' = late \cup {e}
            \/ late' = late /\ \A f \in touched : MessageOf(f) = MessageOf(e) => f <= e
<1>1. touched \subseteq DOMAIN log /\ DOMAIN log \subseteq Nat
  BY LogTypes DEF TypeOK, Event
<1> QED
  BY <1>1 DEF Touch

LEMMA ApplyRows ==
  ASSUME TypeOK, Rows, NEW s \in Slot,
         \/ StoreMessage(s) \/ FindStored(s) \/ IgnoreAbsent(s)
         \/ WriteUpdate(s) \/ WriteDelete(s)
  PROVE  Rows'
<1> DEFINE e == req[s].event
           m == MessageOf(e)
<1>1. /\ e \in DOMAIN log /\ e \in 0..MaxEvents /\ 0 \in 0..MaxEvents
      /\ UNCHANGED <<log, home>> /\ m \in Message
      /\ replica \in [Message -> 0..MaxEvents]
  <2>1. req[s] \in [event : DOMAIN log, stage : Stage]
    BY DEF TypeOK, StoreMessage, FindStored, IgnoreAbsent, WriteUpdate, WriteDelete, Apply, At
  <2>2. UNCHANGED <<log, home>>
    BY DEF StoreMessage, FindStored, IgnoreAbsent, WriteUpdate, WriteDelete, homeVars
  <2> QED
    <3>1. e \in DOMAIN log /\ DOMAIN log \subseteq Event
          /\ log[e] \in [kind : Kind, message : Message]
      BY <2>1, LogTypes
    <3> QED
      BY <2>2, <3>1, ConstantsAssumption DEF Event, TypeOK, MessageOf
<1>2. replica[m] \in 0..MaxEvents /\ replica = [replica EXCEPT ![m] = replica[m]]
  BY <1>1
<1>3. CASE StoreMessage(s)
  <2>1. Touch(e) /\ log[e].kind = "create" /\ replica' = [replica EXCEPT ![m] = e]
    BY <1>3 DEF StoreMessage, Apply, SetRow
  <2> QED
    BY <1>1, <2>1, TouchLate, EffectRows
<1>4. CASE FindStored(s)
  <2>1. /\ touched' = touched \cup {e} /\ late' = late /\ log[e].kind = "create"
        /\ replica[m] # 0 /\ replica' = replica
    BY <1>4 DEF FindStored, Apply, Row, peerVars
  <2> QED
    BY <1>1, <1>2, <2>1, EffectRows
<1>5. CASE IgnoreAbsent(s)
  <2>1. /\ Touch(e) /\ log[e].kind \in {"update", "delete"}
        /\ replica[m] = 0 /\ replica' = replica
    BY <1>5 DEF IgnoreAbsent, Apply, Row, peerVars
  <2> QED
    BY <1>1, <1>2, <2>1, TouchLate, EffectRows
<1>6. CASE WriteUpdate(s)
  <2>1. /\ Touch(e) /\ log[e].kind = "update"
        /\ replica' = [replica EXCEPT ![m] = IF replica[m] = 0 THEN 0 ELSE e]
    BY <1>6 DEF WriteUpdate, Apply, Row, SetRow
  <2>2. CASE replica[m] = 0
    BY <1>1, <2>1, <2>2, TouchLate, EffectRows
  <2>3. CASE replica[m] # 0
    BY <1>1, <2>1, <2>3, TouchLate, EffectRows
  <2> QED
    BY <2>2, <2>3
<1>7. CASE WriteDelete(s)
  <2>1. Touch(e) /\ log[e].kind = "delete" /\ replica' = [replica EXCEPT ![m] = 0]
    BY <1>7 DEF WriteDelete, Apply, SetRow
  <2> QED
    BY <1>1, <2>1, TouchLate, EffectRows
<1> QED
  BY <1>3, <1>4, <1>5, <1>6, <1>7

LEMMA HandleRows == ASSUME TypeOK, Rows, NEW s \in Slot, Handle(s) PROVE Rows'
<1>1. CASE \/ StoreMessage(s) \/ FindStored(s) \/ IgnoreAbsent(s)
           \/ WriteUpdate(s) \/ WriteDelete(s)
  BY <1>1, ApplyRows
<1>2. CASE \/ Refuse(s) \/ Begin(s) \/ AckDuplicate(s) \/ TakeForAbsent(s)
           \/ FindRow(s) \/ Tell(s) \/ TellFails(s) \/ Reject(s) \/ RollbackDedup(s)
  BY <1>2, RowsKept
     DEF Refuse, Begin, AckDuplicate, TakeForAbsent, FindRow, Tell, TellFails, Reject,
         RollbackDedup, homeVars, peerVars, history
<1> QED
  BY <1>1, <1>2 DEF Handle

LEMMA SendRows == ASSUME Rows, Send PROVE Rows'
BY RowsKept DEF Send, Claim, Reschedule, DeadLetter, Accept, Fail, Post,
                homeVars, peerVars, history

LEMMA NextRows == ASSUME TypeOK, Rows, [Next]_vars PROVE Rows'
<1>1. CASE \E m \in Message : Act(m)
  BY <1>1, ActRows
<1>2. CASE Send
  BY <1>2, SendRows
<1>3. CASE \E s \in Slot : Handle(s)
  BY <1>3, HandleRows
<1>4. CASE \/ \E e \in Event : Elapse(e) \/ Prune(e)
           \/ \E s \in Slot : Break(s)
           \/ CrashHome \/ CrashPeer \/ UNCHANGED vars
  BY <1>4, RowsKept
     DEF Elapse, Prune, Break, CrashHome, CrashPeer, vars, homeVars, peerVars, history
<1> QED
  BY <1>1, <1>2, <1>3, <1>4 DEF Next

LEMMA RowsConverge == ASSUME IInv, Rows PROVE Converged
<1> SUFFICES ASSUME outbox = {}, NEW m \in Message,
                    ~\E e \in lost \cup late : MessageOf(e) = m
             PROVE  replica[m] = home[m]
  BY DEF Converged
<1>1. touched \cap Of(m) = Of(m)
  BY DEF Of, IInv, EventsAccounted
<1>2. Wrote(replica[m], Of(m)) /\ Wrote(home[m], Of(m))
  BY <1>1 DEF Rows, ReplicaFollows, HomeIsLast
<1>3. Of(m) \subseteq DOMAIN log /\ Of(m) \subseteq Nat /\ \A e \in Of(m) : MessageOf(e) = m
  BY LogTypes DEF Of, Event, IInv
<1>4. Of(m) # {} => \E e \in Of(m) : log[e].kind = "create"
  BY DEF Rows, CreatedFirst, Posted, Of, MessageOf
<1>5. \A d, e \in Of(m) : log[d].kind = "delete" => e <= d
  BY <1>3 DEF Rows, LogOrdered
<1> QED
  BY <1>2, <1>3, <1>4, <1>5 DEF Wrote

\* The peer's copy of a message is the home server's once the outbox is empty, for
\* any number of messages, events, requests, retries and failures, unless an event
\* of it was hit by one that may lose it or took effect after a later one
\* (apply_event, dedup_first_seen, deliver_due_once).
THEOREM CopiesConverge == Spec => []Converged
<1>1. Init => Rows
  BY InitRows
<1>2. IInv /\ Rows /\ [Next]_vars => Rows'
  BY NextRows DEF IInv
<1>3. IInv /\ Rows => Converged
  BY RowsConverge
<1> QED
  BY <1>1, <1>2, <1>3, Invariance, PTL DEF Spec

-----------------------------------------------------------------------------
(* A conversation between two servers.                                     *)

\* The server that mirrors the conversation.
Away == D!Other(First)

Channels ==
  \A d \in Chan :
    /\ homed[d] \in {Nowhere, First}
    /\ d \in held[Away] => homed[d] = First
    /\ d \in held[First] <=> homed[d] = First /\ d \notin undone
    /\ d \in undone => homed[d] = First

\* What a request to open the conversation has found at each stage.
FoundSoFar(r) ==
  /\ r.stage \in {"asked", "find", "insert"} => r.chan = Nowhere
  /\ r.stage \in {"announced", "consented", "accepted", "answered"} =>
       r.chan \in Chan /\ homed[r.chan] = First
  /\ r.stage \in {"announced", "consented", "accepted"} => r.by = First
  /\ r.stage \in {"asked", "answered"} => r.by = Away
  /\ r.stage = "rejected" => \/ r.by = First /\ r.chan \in Chan /\ homed[r.chan] = First
                             \/ r.by = Away /\ r.chan = Nowhere
  /\ r.stage = "accepted" => r.chan \in held[Away]
Openings == \A q \in Open : opens[q] # NoOpen => FoundSoFar(opens[q])

\* Unless two requests looked at once, only one is about to create the channel,
\* and only when there is none.
OneAtATime ==
  overlapped \/ /\ \A q, r \in Open : D!Runs(q, "insert") /\ D!Runs(r, "insert") => q = r
                /\ \A q \in Open : D!Runs(q, "insert") => held[First] = {}
                /\ \A d, e \in held[First] : d = e

LateIsBlocked == \A q \in Open :
  opens[q] # NoOpen /\ opens[q].late =>
    IF opens[q].by = First THEN Away \in blocking ELSE First \in blocking

UnderWayIsPosted == \A p \in creations : p \in posted \/ p[2] \in undone

Conversation ==
  /\ D!TypeOK /\ Channels /\ Openings /\ OneAtATime
  /\ D!NotHalfOpen /\ LateIsBlocked /\ D!BlockedStayOut
  /\ UnderWayIsPosted /\ D!MessagesAgree

LEMMA TwoServers ==
  /\ First \in Server /\ Away \in Server /\ Away # First /\ Server = {First, Away}
  /\ D!Other(Away) = First
  /\ Nowhere \notin Server /\ Nowhere \notin Chan /\ NoOpen \notin D!OpenRecord
<1>1. PICK other \in Server : other # First /\ Server = {First, other}
  BY ServersAssumption
<1>2. Away = other
  BY <1>1 DEF Away, D!Other
<1>3. D!Other(other) = First
  BY <1>1 DEF D!Other
<1> QED
  BY <1>1, <1>2, <1>3, ServersAssumption

LEMMA OtherOfTwo == \A s \in Server : D!Other(s) = IF s = First THEN Away ELSE First
BY TwoServers DEF Away

LEMMA OpenTypes ==
  ASSUME D!TypeOK, NEW q \in Open, opens[q] # NoOpen
  PROVE  /\ opens[q] \in D!OpenRecord
         /\ opens[q].by \in Server /\ opens[q].chan \in Chan \cup {Nowhere}
         /\ opens[q].late \in BOOLEAN
<1>1. opens[q] \in D!OpenRecord
  BY DEF D!TypeOK
<1> QED
  BY <1>1 DEF D!OpenRecord

\* A request goes to another stage.
LEMMA DmGotoKeeps ==
  ASSUME D!TypeOK, NEW q \in Open, opens[q] # NoOpen, NEW stage, D!Goto(q, stage),
         stage \in {"asked", "find", "insert", "announced", "consented", "accepted",
                    "rejected", "answered"}
  PROVE  /\ opens' \in [Open -> D!OpenRecord \cup {NoOpen}]
         /\ opens'[q] = [opens[q] EXCEPT !.stage = stage]
         /\ opens'[q].stage = stage /\ opens'[q].by = opens[q].by
         /\ opens'[q].chan = opens[q].chan /\ opens'[q].late = opens[q].late
         /\ opens'[q] # NoOpen
         /\ \A r \in Open \ {q} : opens'[r] = opens[r]
<1>1. /\ opens[q] \in D!OpenRecord
      /\ opens \in [Open -> D!OpenRecord \cup {NoOpen}]
  BY OpenTypes DEF D!TypeOK
<1>2. opens' = [opens EXCEPT ![q] = [opens[q] EXCEPT !.stage = stage]]
  BY DEF D!Goto
<1>3. [opens[q] EXCEPT !.stage = stage] \in D!OpenRecord
  BY <1>1 DEF D!OpenRecord
<1>4. opens'[q] = [opens[q] EXCEPT !.stage = stage] /\ \A r \in Open \ {q} : opens'[r] = opens[r]
  BY <1>1, <1>2
<1>5. /\ [opens[q] EXCEPT !.stage = stage].stage = stage
      /\ [opens[q] EXCEPT !.stage = stage].by = opens[q].by
      /\ [opens[q] EXCEPT !.stage = stage].chan = opens[q].chan
      /\ [opens[q] EXCEPT !.stage = stage].late = opens[q].late
  BY <1>1 DEF D!OpenRecord
<1>6. opens' \in [Open -> D!OpenRecord \cup {NoOpen}]
  BY <1>1, <1>2, <1>3
<1>7. opens'[q] # NoOpen
  BY <1>3, <1>4, TwoServers
<1> QED
  BY <1>4, <1>5, <1>6, <1>7

\* It finds a channel.
LEMMA DmChanKeeps ==
  ASSUME D!TypeOK, NEW q \in Open, opens[q] # NoOpen, NEW stage, NEW d \in Chan,
         opens' = [opens EXCEPT ![q].chan = d, ![q].stage = stage],
         stage \in {"announced", "answered"}
  PROVE  /\ opens' \in [Open -> D!OpenRecord \cup {NoOpen}]
         /\ opens'[q].stage = stage /\ opens'[q].by = opens[q].by
         /\ opens'[q].chan = d /\ opens'[q].late = opens[q].late
         /\ opens'[q] # NoOpen
         /\ \A r \in Open \ {q} : opens'[r] = opens[r]
<1> DEFINE new == [opens[q] EXCEPT !.chan = d, !.stage = stage]
<1>1. /\ opens[q] \in D!OpenRecord
      /\ opens \in [Open -> D!OpenRecord \cup {NoOpen}]
  BY OpenTypes DEF D!TypeOK
<1>2. opens' = [opens EXCEPT ![q] = new]
  BY <1>1
<1>3. new \in D!OpenRecord
  BY <1>1 DEF D!OpenRecord
<1>5. /\ new.stage = stage /\ new.by = opens[q].by
      /\ new.chan = d /\ new.late = opens[q].late
  BY <1>1 DEF D!OpenRecord
<1> HIDE DEF new
<1>4. opens'[q] = new /\ \A r \in Open \ {q} : opens'[r] = opens[r]
  BY <1>1, <1>2
<1>6. opens' \in [Open -> D!OpenRecord \cup {NoOpen}]
  BY <1>1, <1>2, <1>3
<1>7. opens'[q] # NoOpen
  BY <1>3, <1>4, TwoServers
<1> QED
  BY <1>4, <1>5, <1>6, <1>7

LEMMA DmEndKeeps ==
  ASSUME D!TypeOK, NEW q \in Open, D!End(q)
  PROVE  /\ opens' \in [Open -> D!OpenRecord \cup {NoOpen}]
         /\ opens'[q] = NoOpen /\ \A r \in Open \ {q} : opens'[r] = opens[r]
BY DEF D!TypeOK, D!End

LEMMA DmServeOpenStep ==
  ASSUME Conversation, NEW q \in Open, D!ServeOpen(q)
  PROVE  Conversation'
<1> USE TwoServers, OtherOfTwo
<1>0. /\ D!TypeOK /\ Channels /\ Openings /\ OneAtATime
      /\ D!NotHalfOpen /\ LateIsBlocked /\ D!BlockedStayOut
      /\ UnderWayIsPosted /\ D!MessagesAgree
  BY DEF Conversation
<1>a. opens[q] # NoOpen
  BY DEF D!ServeOpen, D!Runs
<1> DEFINE stage == IF First \in blocking THEN "rejected" ELSE "find"
<1>b. D!Goto(q, stage)
  BY DEF D!ServeOpen, D!Home, D!HomeFor, Away
<1>c. /\ opens' \in [Open -> D!OpenRecord \cup {NoOpen}]
      /\ opens'[q].stage = stage /\ opens'[q].by = opens[q].by
      /\ opens'[q].chan = opens[q].chan /\ opens'[q].late = opens[q].late
      /\ opens'[q] # NoOpen
      /\ \A r \in Open \ {q} : opens'[r] = opens[r]
  BY <1>0, <1>a, <1>b, DmGotoKeeps
<1>d. opens[q].by \in Server /\ opens[q].chan \in Chan \cup {Nowhere}
  BY <1>0, <1>a, OpenTypes
<1>1. D!TypeOK'
  BY <1>0, <1>a, <1>c, <1>d DEF D!TypeOK, D!Runs, D!Home, D!HomeFor, D!history, D!ServeOpen
<1>2. Channels'
  BY <1>0, <1>a, <1>c, <1>d DEF D!TypeOK, Channels, Openings, FoundSoFar, D!Runs, D!Home, D!HomeFor, D!history, D!ServeOpen
<1>3. Openings'
  BY <1>0, <1>a, <1>c, <1>d DEF D!TypeOK, Channels, Openings, FoundSoFar, D!BlockedStayOut, D!Runs, D!Home, D!HomeFor, D!history, D!ServeOpen
<1>4. OneAtATime'
  BY <1>0, <1>a, <1>c, <1>d DEF D!TypeOK, OneAtATime, Channels, Openings, FoundSoFar, D!Runs, D!Home, D!HomeFor, D!history, D!ServeOpen
<1>5. D!NotHalfOpen'
  BY <1>0, <1>a, <1>c, <1>d DEF D!TypeOK, D!NotHalfOpen, D!Opening, Channels, Openings, FoundSoFar, D!Runs, D!Home, D!HomeFor, D!history, D!ServeOpen
<1>6. LateIsBlocked'
  BY <1>0, <1>a, <1>c, <1>d DEF D!TypeOK, LateIsBlocked, D!Runs, D!Home, D!HomeFor, D!history, D!ServeOpen
<1>7. D!BlockedStayOut'
  BY <1>0, <1>a, <1>c, <1>d DEF D!TypeOK, D!BlockedStayOut, LateIsBlocked, Openings, FoundSoFar, D!Runs, D!Home, D!HomeFor, D!history, D!ServeOpen
<1>8. UnderWayIsPosted' /\ D!MessagesAgree'
  BY <1>0, <1>a, <1>c, <1>d DEF D!TypeOK, UnderWayIsPosted, D!MessagesAgree, D!Post, D!Runs, D!Home, D!HomeFor, D!history, D!ServeOpen
<1> QED
  BY <1>1, <1>2, <1>3, <1>4, <1>5, <1>6, <1>7, <1>8 DEF Conversation

LEMMA DmHandleAnnounceStep ==
  ASSUME Conversation, NEW q \in Open, D!HandleAnnounce(q)
  PROVE  Conversation'
<1> USE TwoServers, OtherOfTwo
<1>0. /\ D!TypeOK /\ Channels /\ Openings /\ OneAtATime
      /\ D!NotHalfOpen /\ LateIsBlocked /\ D!BlockedStayOut
      /\ UnderWayIsPosted /\ D!MessagesAgree
  BY DEF Conversation
<1>a. opens[q] # NoOpen
  BY DEF D!HandleAnnounce, D!Runs
<1> DEFINE stage == IF Away \in blocking THEN "rejected" ELSE "consented"
<1>b. D!Goto(q, stage)
  BY DEF D!HandleAnnounce, D!Home, D!HomeFor, Away
<1>c. /\ opens' \in [Open -> D!OpenRecord \cup {NoOpen}]
      /\ opens'[q].stage = stage /\ opens'[q].by = opens[q].by
      /\ opens'[q].chan = opens[q].chan /\ opens'[q].late = opens[q].late
      /\ opens'[q] # NoOpen
      /\ \A r \in Open \ {q} : opens'[r] = opens[r]
  BY <1>0, <1>a, <1>b, DmGotoKeeps
<1>d. opens[q].by \in Server /\ opens[q].chan \in Chan \cup {Nowhere}
  BY <1>0, <1>a, OpenTypes
<1>1. D!TypeOK'
  BY <1>0, <1>a, <1>c, <1>d DEF D!TypeOK, D!Runs, D!Home, D!HomeFor, D!history, D!HandleAnnounce
<1>2. Channels'
  BY <1>0, <1>a, <1>c, <1>d DEF D!TypeOK, Channels, Openings, FoundSoFar, D!Runs, D!Home, D!HomeFor, D!history, D!HandleAnnounce
<1>3. Openings'
  BY <1>0, <1>a, <1>c, <1>d DEF D!TypeOK, Channels, Openings, FoundSoFar, D!BlockedStayOut, D!Runs, D!Home, D!HomeFor, D!history, D!HandleAnnounce
<1>4. OneAtATime'
  BY <1>0, <1>a, <1>c, <1>d DEF D!TypeOK, OneAtATime, Channels, Openings, FoundSoFar, D!Runs, D!Home, D!HomeFor, D!history, D!HandleAnnounce
<1>5. D!NotHalfOpen'
  BY <1>0, <1>a, <1>c, <1>d DEF D!TypeOK, D!NotHalfOpen, D!Opening, Channels, Openings, FoundSoFar, D!Runs, D!Home, D!HomeFor, D!history, D!HandleAnnounce
<1>6. LateIsBlocked'
  BY <1>0, <1>a, <1>c, <1>d DEF D!TypeOK, LateIsBlocked, D!Runs, D!Home, D!HomeFor, D!history, D!HandleAnnounce
<1>7. D!BlockedStayOut'
  BY <1>0, <1>a, <1>c, <1>d DEF D!TypeOK, D!BlockedStayOut, LateIsBlocked, Openings, FoundSoFar, D!Runs, D!Home, D!HomeFor, D!history, D!HandleAnnounce
<1>8. UnderWayIsPosted' /\ D!MessagesAgree'
  BY <1>0, <1>a, <1>c, <1>d DEF D!TypeOK, UnderWayIsPosted, D!MessagesAgree, D!Post, D!Runs, D!Home, D!HomeFor, D!history, D!HandleAnnounce
<1> QED
  BY <1>1, <1>2, <1>3, <1>4, <1>5, <1>6, <1>7, <1>8 DEF Conversation

LEMMA DmRejectStep ==
  ASSUME Conversation, NEW q \in Open, D!Reject(q)
  PROVE  Conversation'
<1> USE TwoServers, OtherOfTwo
<1>0. /\ D!TypeOK /\ Channels /\ Openings /\ OneAtATime
      /\ D!NotHalfOpen /\ LateIsBlocked /\ D!BlockedStayOut
      /\ UnderWayIsPosted /\ D!MessagesAgree
  BY DEF Conversation
<1>a. opens[q] # NoOpen
  BY DEF D!Reject, D!Runs
<1> DEFINE stage == "rejected"
<1>b. D!Goto(q, stage)
  BY DEF D!Reject, D!Home, D!HomeFor, Away
<1>c. /\ opens' \in [Open -> D!OpenRecord \cup {NoOpen}]
      /\ opens'[q].stage = stage /\ opens'[q].by = opens[q].by
      /\ opens'[q].chan = opens[q].chan /\ opens'[q].late = opens[q].late
      /\ opens'[q] # NoOpen
      /\ \A r \in Open \ {q} : opens'[r] = opens[r]
  BY <1>0, <1>a, <1>b, DmGotoKeeps
<1>d. opens[q].by \in Server /\ opens[q].chan \in Chan \cup {Nowhere}
  BY <1>0, <1>a, OpenTypes
<1>1. D!TypeOK'
  BY <1>0, <1>a, <1>c, <1>d DEF D!TypeOK, D!Runs, D!Home, D!HomeFor, D!history, D!Reject
<1>2. Channels'
  BY <1>0, <1>a, <1>c, <1>d DEF D!TypeOK, Channels, Openings, FoundSoFar, D!Runs, D!Home, D!HomeFor, D!history, D!Reject
<1>3. Openings'
  BY <1>0, <1>a, <1>c, <1>d DEF D!TypeOK, Channels, Openings, FoundSoFar, D!BlockedStayOut, D!Runs, D!Home, D!HomeFor, D!history, D!Reject
<1>4. OneAtATime'
  BY <1>0, <1>a, <1>c, <1>d DEF D!TypeOK, OneAtATime, Channels, Openings, FoundSoFar, D!Runs, D!Home, D!HomeFor, D!history, D!Reject
<1>5. D!NotHalfOpen'
  BY <1>0, <1>a, <1>c, <1>d DEF D!TypeOK, D!NotHalfOpen, D!Opening, Channels, Openings, FoundSoFar, D!Runs, D!Home, D!HomeFor, D!history, D!Reject
<1>6. LateIsBlocked'
  BY <1>0, <1>a, <1>c, <1>d DEF D!TypeOK, LateIsBlocked, D!Runs, D!Home, D!HomeFor, D!history, D!Reject
<1>7. D!BlockedStayOut'
  BY <1>0, <1>a, <1>c, <1>d DEF D!TypeOK, D!BlockedStayOut, LateIsBlocked, Openings, FoundSoFar, D!Runs, D!Home, D!HomeFor, D!history, D!Reject
<1>8. UnderWayIsPosted' /\ D!MessagesAgree'
  BY <1>0, <1>a, <1>c, <1>d DEF D!TypeOK, UnderWayIsPosted, D!MessagesAgree, D!Post, D!Runs, D!Home, D!HomeFor, D!history, D!Reject
<1> QED
  BY <1>1, <1>2, <1>3, <1>4, <1>5, <1>6, <1>7, <1>8 DEF Conversation

LEMMA DmMirrorAnnouncedStep ==
  ASSUME Conversation, NEW q \in Open, D!MirrorAnnounced(q)
  PROVE  Conversation'
<1> USE TwoServers, OtherOfTwo
<1>0. /\ D!TypeOK /\ Channels /\ Openings /\ OneAtATime
      /\ D!NotHalfOpen /\ LateIsBlocked /\ D!BlockedStayOut
      /\ UnderWayIsPosted /\ D!MessagesAgree
  BY DEF Conversation
<1>a. opens[q] # NoOpen
  BY DEF D!MirrorAnnounced, D!Runs
<1>c. /\ opens' \in [Open -> D!OpenRecord \cup {NoOpen}]
      /\ opens'[q].stage = "accepted" /\ opens'[q].by = opens[q].by
      /\ opens'[q].chan = opens[q].chan /\ opens'[q].late = opens[q].late
      /\ opens'[q] # NoOpen
      /\ \A r \in Open \ {q} : opens'[r] = opens[r]
  BY <1>0, <1>a, DmGotoKeeps DEF D!MirrorAnnounced
<1>d. opens[q].by \in Server /\ opens[q].chan \in Chan \cup {Nowhere}
  BY <1>0, <1>a, OpenTypes
<1>e. opens[q].chan \in Chan /\ Away \in Server
  BY <1>0, <1>a, <1>d DEF D!MirrorAnnounced, D!Runs, Openings, FoundSoFar
<1>f. held' = [held EXCEPT ![Away] = @ \cup {opens[q].chan}]
  BY DEF D!MirrorAnnounced, D!Mirror, D!Home, D!HomeFor, Away
<1>g. held' \in [Server -> SUBSET Chan]
  BY <1>0, <1>e, <1>f DEF D!TypeOK
<1>1. D!TypeOK'
  BY <1>0, <1>c, <1>g DEF D!TypeOK, D!MirrorAnnounced, D!history
<1>2. Channels'
  BY <1>0, <1>a, <1>c, <1>d DEF D!TypeOK, Channels, Openings, FoundSoFar, D!Runs, D!Home, D!HomeFor, D!history, D!MirrorAnnounced, D!Mirror, Away
<1>3. Openings'
  BY <1>0, <1>a, <1>c, <1>d DEF D!TypeOK, Channels, Openings, FoundSoFar, D!BlockedStayOut, D!Runs, D!Home, D!HomeFor, D!history, D!MirrorAnnounced, D!Mirror, Away
<1>4. OneAtATime'
  BY <1>0, <1>a, <1>c, <1>d DEF D!TypeOK, OneAtATime, Channels, Openings, FoundSoFar, D!Runs, D!Home, D!HomeFor, D!history, D!MirrorAnnounced, D!Mirror, Away
<1>5. D!NotHalfOpen'
  BY <1>0, <1>a, <1>c, <1>d DEF D!TypeOK, D!NotHalfOpen, D!Opening, Channels, Openings, FoundSoFar, D!Runs, D!Home, D!HomeFor, D!history, D!MirrorAnnounced, D!Mirror, Away
<1>6. LateIsBlocked'
  BY <1>0, <1>a, <1>c, <1>d DEF D!TypeOK, LateIsBlocked, D!Runs, D!Home, D!HomeFor, D!history, D!MirrorAnnounced, D!Mirror, Away
<1>7. D!BlockedStayOut'
  BY <1>0, <1>a, <1>c, <1>d DEF D!TypeOK, D!BlockedStayOut, LateIsBlocked, Openings, FoundSoFar, D!Runs, D!Home, D!HomeFor, D!history, D!MirrorAnnounced, D!Mirror, Away
<1>8. UnderWayIsPosted' /\ D!MessagesAgree'
  BY <1>0, <1>a, <1>c, <1>d DEF D!TypeOK, UnderWayIsPosted, D!MessagesAgree, D!Post, D!Runs, D!Home, D!HomeFor, D!history, D!MirrorAnnounced, D!Mirror, Away
<1> QED
  BY <1>1, <1>2, <1>3, <1>4, <1>5, <1>6, <1>7, <1>8 DEF Conversation

LEMMA DmMirrorAnsweredStep ==
  ASSUME Conversation, NEW q \in Open, D!MirrorAnswered(q)
  PROVE  Conversation'
<1> USE TwoServers, OtherOfTwo
<1>0. /\ D!TypeOK /\ Channels /\ Openings /\ OneAtATime
      /\ D!NotHalfOpen /\ LateIsBlocked /\ D!BlockedStayOut
      /\ UnderWayIsPosted /\ D!MessagesAgree
  BY DEF Conversation
<1>a. opens[q] # NoOpen
  BY DEF D!MirrorAnswered, D!Runs
<1>b. /\ opens' \in [Open -> D!OpenRecord \cup {NoOpen}]
      /\ opens'[q] = NoOpen /\ \A r \in Open \ {q} : opens'[r] = opens[r]
  BY <1>0, DmEndKeeps DEF D!MirrorAnswered
<1>d. opens[q].by \in Server /\ opens[q].chan \in Chan \cup {Nowhere}
  BY <1>0, <1>a, OpenTypes
<1>e. opens[q].chan \in Chan /\ opens[q].by \in Server
  BY <1>0, <1>a, <1>d DEF D!MirrorAnswered, D!Runs, Openings, FoundSoFar
<1>f. held' = [held EXCEPT ![opens[q].by] = @ \cup {opens[q].chan}]
  BY DEF D!MirrorAnswered, D!Mirror, D!Home, D!HomeFor, Away
<1>g. held' \in [Server -> SUBSET Chan]
  BY <1>0, <1>e, <1>f DEF D!TypeOK
<1>1. D!TypeOK'
  BY <1>0, <1>b, <1>g DEF D!TypeOK, D!MirrorAnswered, D!history
<1>2. Channels'
  BY <1>0, <1>a, <1>b, <1>d DEF D!TypeOK, Channels, Openings, FoundSoFar, D!Runs, D!Home, D!HomeFor, D!history, D!MirrorAnswered, D!Mirror
<1>3. Openings'
  BY <1>0, <1>a, <1>b, <1>d DEF D!TypeOK, Channels, Openings, FoundSoFar, D!BlockedStayOut, D!Runs, D!Home, D!HomeFor, D!history, D!MirrorAnswered, D!Mirror
<1>4. OneAtATime'
  BY <1>0, <1>a, <1>b, <1>d DEF D!TypeOK, OneAtATime, Channels, Openings, FoundSoFar, D!Runs, D!Home, D!HomeFor, D!history, D!MirrorAnswered, D!Mirror
<1>5. D!NotHalfOpen'
  BY <1>0, <1>a, <1>b, <1>d DEF D!TypeOK, D!NotHalfOpen, D!Opening, Channels, Openings, FoundSoFar, D!Runs, D!Home, D!HomeFor, D!history, D!MirrorAnswered, D!Mirror
<1>6. LateIsBlocked'
  BY <1>0, <1>a, <1>b, <1>d DEF D!TypeOK, LateIsBlocked, D!Runs, D!Home, D!HomeFor, D!history, D!MirrorAnswered, D!Mirror
<1>7. D!BlockedStayOut'
  BY <1>0, <1>a, <1>b, <1>d DEF D!TypeOK, D!BlockedStayOut, LateIsBlocked, Openings, FoundSoFar, D!Runs, D!Home, D!HomeFor, D!history, D!MirrorAnswered, D!Mirror
<1>8. UnderWayIsPosted' /\ D!MessagesAgree'
  BY <1>0, <1>a, <1>b, <1>d DEF D!TypeOK, UnderWayIsPosted, D!MessagesAgree, D!Post, D!Runs, D!Home, D!HomeFor, D!history, D!MirrorAnswered, D!Mirror
<1> QED
  BY <1>1, <1>2, <1>3, <1>4, <1>5, <1>6, <1>7, <1>8 DEF Conversation

LEMMA DmFinishAcceptedStep ==
  ASSUME Conversation, NEW q \in Open, D!FinishAccepted(q)
  PROVE  Conversation'
<1> USE TwoServers, OtherOfTwo
<1>0. /\ D!TypeOK /\ Channels /\ Openings /\ OneAtATime
      /\ D!NotHalfOpen /\ LateIsBlocked /\ D!BlockedStayOut
      /\ UnderWayIsPosted /\ D!MessagesAgree
  BY DEF Conversation
<1>a. opens[q] # NoOpen
  BY DEF D!FinishAccepted, D!Runs
<1>b. /\ opens' \in [Open -> D!OpenRecord \cup {NoOpen}]
      /\ opens'[q] = NoOpen /\ \A r \in Open \ {q} : opens'[r] = opens[r]
  BY <1>0, DmEndKeeps DEF D!FinishAccepted
<1>d. opens[q].by \in Server /\ opens[q].chan \in Chan \cup {Nowhere}
  BY <1>0, <1>a, OpenTypes
<1>1. D!TypeOK'
  BY <1>0, <1>a, <1>b, <1>d DEF D!TypeOK, D!Runs, D!Home, D!HomeFor, D!history, D!FinishAccepted
<1>2. Channels'
  BY <1>0, <1>a, <1>b, <1>d DEF D!TypeOK, Channels, Openings, FoundSoFar, D!Runs, D!Home, D!HomeFor, D!history, D!FinishAccepted
<1>3. Openings'
  BY <1>0, <1>a, <1>b, <1>d DEF D!TypeOK, Channels, Openings, FoundSoFar, D!BlockedStayOut, D!Runs, D!Home, D!HomeFor, D!history, D!FinishAccepted
<1>4. OneAtATime'
  BY <1>0, <1>a, <1>b, <1>d DEF D!TypeOK, OneAtATime, Channels, Openings, FoundSoFar, D!Runs, D!Home, D!HomeFor, D!history, D!FinishAccepted
<1>5. D!NotHalfOpen'
  BY <1>0, <1>a, <1>b, <1>d DEF D!TypeOK, D!NotHalfOpen, D!Opening, Channels, Openings, FoundSoFar, D!Runs, D!Home, D!HomeFor, D!history, D!FinishAccepted
<1>6. LateIsBlocked'
  BY <1>0, <1>a, <1>b, <1>d DEF D!TypeOK, LateIsBlocked, D!Runs, D!Home, D!HomeFor, D!history, D!FinishAccepted
<1>7. D!BlockedStayOut'
  BY <1>0, <1>a, <1>b, <1>d DEF D!TypeOK, D!BlockedStayOut, LateIsBlocked, Openings, FoundSoFar, D!Runs, D!Home, D!HomeFor, D!history, D!FinishAccepted
<1>8. UnderWayIsPosted' /\ D!MessagesAgree'
  BY <1>0, <1>a, <1>b, <1>d DEF D!TypeOK, UnderWayIsPosted, D!MessagesAgree, D!Post, D!Runs, D!Home, D!HomeFor, D!history, D!FinishAccepted
<1> QED
  BY <1>1, <1>2, <1>3, <1>4, <1>5, <1>6, <1>7, <1>8 DEF Conversation

LEMMA DmLoseAnswerStep ==
  ASSUME Conversation, NEW q \in Open, D!LoseAnswer(q)
  PROVE  Conversation'
<1> USE TwoServers, OtherOfTwo
<1>0. /\ D!TypeOK /\ Channels /\ Openings /\ OneAtATime
      /\ D!NotHalfOpen /\ LateIsBlocked /\ D!BlockedStayOut
      /\ UnderWayIsPosted /\ D!MessagesAgree
  BY DEF Conversation
<1>a. opens[q] # NoOpen
  BY DEF D!LoseAnswer, D!Runs
<1>b. /\ opens' \in [Open -> D!OpenRecord \cup {NoOpen}]
      /\ opens'[q] = NoOpen /\ \A r \in Open \ {q} : opens'[r] = opens[r]
  BY <1>0, DmEndKeeps DEF D!LoseAnswer
<1>d. opens[q].by \in Server /\ opens[q].chan \in Chan \cup {Nowhere}
  BY <1>0, <1>a, OpenTypes
<1>1. D!TypeOK'
  BY <1>0, <1>a, <1>b, <1>d DEF D!TypeOK, D!Runs, D!Home, D!HomeFor, D!history, D!LoseAnswer
<1>2. Channels'
  BY <1>0, <1>a, <1>b, <1>d DEF D!TypeOK, Channels, Openings, FoundSoFar, D!Runs, D!Home, D!HomeFor, D!history, D!LoseAnswer
<1>3. Openings'
  BY <1>0, <1>a, <1>b, <1>d DEF D!TypeOK, Channels, Openings, FoundSoFar, D!BlockedStayOut, D!Runs, D!Home, D!HomeFor, D!history, D!LoseAnswer
<1>4. OneAtATime'
  BY <1>0, <1>a, <1>b, <1>d DEF D!TypeOK, OneAtATime, Channels, Openings, FoundSoFar, D!Runs, D!Home, D!HomeFor, D!history, D!LoseAnswer
<1>5. D!NotHalfOpen'
  BY <1>0, <1>a, <1>b, <1>d DEF D!TypeOK, D!NotHalfOpen, D!Opening, Channels, Openings, FoundSoFar, D!Runs, D!Home, D!HomeFor, D!history, D!LoseAnswer
<1>6. LateIsBlocked'
  BY <1>0, <1>a, <1>b, <1>d DEF D!TypeOK, LateIsBlocked, D!Runs, D!Home, D!HomeFor, D!history, D!LoseAnswer
<1>7. D!BlockedStayOut'
  BY <1>0, <1>a, <1>b, <1>d DEF D!TypeOK, D!BlockedStayOut, LateIsBlocked, Openings, FoundSoFar, D!Runs, D!Home, D!HomeFor, D!history, D!LoseAnswer
<1>8. UnderWayIsPosted' /\ D!MessagesAgree'
  BY <1>0, <1>a, <1>b, <1>d DEF D!TypeOK, UnderWayIsPosted, D!MessagesAgree, D!Post, D!Runs, D!Home, D!HomeFor, D!history, D!LoseAnswer
<1> QED
  BY <1>1, <1>2, <1>3, <1>4, <1>5, <1>6, <1>7, <1>8 DEF Conversation

LEMMA DmRollBackStep ==
  ASSUME Conversation, NEW q \in Open, D!RollBack(q)
  PROVE  Conversation'
<1> USE TwoServers, OtherOfTwo
<1>0. /\ D!TypeOK /\ Channels /\ Openings /\ OneAtATime
      /\ D!NotHalfOpen /\ LateIsBlocked /\ D!BlockedStayOut
      /\ UnderWayIsPosted /\ D!MessagesAgree
  BY DEF Conversation
<1>a. opens[q] # NoOpen
  BY DEF D!RollBack, D!Runs
<1>b. /\ opens' \in [Open -> D!OpenRecord \cup {NoOpen}]
      /\ opens'[q] = NoOpen /\ \A r \in Open \ {q} : opens'[r] = opens[r]
  BY <1>0, DmEndKeeps DEF D!RollBack
<1>d. opens[q].by \in Server /\ opens[q].chan \in Chan \cup {Nowhere}
  BY <1>0, <1>a, OpenTypes
<1>1. D!TypeOK'
  BY <1>0, <1>a, <1>b, <1>d DEF D!TypeOK, D!Runs, D!Home, D!HomeFor, D!history, D!RollBack, D!DeleteChannel
<1>2. Channels'
  BY <1>0, <1>a, <1>b, <1>d DEF D!TypeOK, Channels, Openings, FoundSoFar, D!Runs, D!Home, D!HomeFor, D!history, D!RollBack, D!DeleteChannel
<1>3. Openings'
  BY <1>0, <1>a, <1>b, <1>d DEF D!TypeOK, Channels, Openings, FoundSoFar, D!BlockedStayOut, D!Runs, D!Home, D!HomeFor, D!history, D!RollBack, D!DeleteChannel
<1>4. OneAtATime'
  BY <1>0, <1>a, <1>b, <1>d DEF D!TypeOK, OneAtATime, Channels, Openings, FoundSoFar, D!Runs, D!Home, D!HomeFor, D!history, D!RollBack, D!DeleteChannel
<1>5. D!NotHalfOpen'
  BY <1>0, <1>a, <1>b, <1>d DEF D!TypeOK, D!NotHalfOpen, D!Opening, Channels, Openings, FoundSoFar, D!Runs, D!Home, D!HomeFor, D!history, D!RollBack, D!DeleteChannel
<1>6. LateIsBlocked'
  BY <1>0, <1>a, <1>b, <1>d DEF D!TypeOK, LateIsBlocked, D!Runs, D!Home, D!HomeFor, D!history, D!RollBack, D!DeleteChannel
<1>7. D!BlockedStayOut'
  BY <1>0, <1>a, <1>b, <1>d DEF D!TypeOK, D!BlockedStayOut, LateIsBlocked, Openings, FoundSoFar, D!Runs, D!Home, D!HomeFor, D!history, D!RollBack, D!DeleteChannel
<1>8. UnderWayIsPosted' /\ D!MessagesAgree'
  BY <1>0, <1>a, <1>b, <1>d DEF D!TypeOK, UnderWayIsPosted, D!MessagesAgree, D!Post, D!Runs, D!Home, D!HomeFor, D!history, D!RollBack, D!DeleteChannel
<1> QED
  BY <1>1, <1>2, <1>3, <1>4, <1>5, <1>6, <1>7, <1>8 DEF Conversation

LEMMA DmCreateDmChannelStep ==
  ASSUME Conversation, NEW q \in Open, D!CreateDmChannel(q)
  PROVE  Conversation'
<1> USE TwoServers, OtherOfTwo
<1>0. /\ D!TypeOK /\ Channels /\ Openings /\ OneAtATime
      /\ D!NotHalfOpen /\ LateIsBlocked /\ D!BlockedStayOut
      /\ UnderWayIsPosted /\ D!MessagesAgree
  BY DEF Conversation
<1>a. opens[q] # NoOpen
  BY DEF D!CreateDmChannel, D!Runs
<1> DEFINE stage == IF opens[q].by = First THEN "announced" ELSE "answered"
<1>b. PICK d \in Chan :
        /\ homed[d] = Nowhere
        /\ homed' = [homed EXCEPT ![d] = First]
        /\ held' = [held EXCEPT ![First] = @ \cup {d}]
        /\ opens' = [opens EXCEPT ![q].chan = d, ![q].stage = stage]
  BY DEF D!CreateDmChannel, D!Home, D!HomeFor, D!AfterFind
<1>c. /\ opens' \in [Open -> D!OpenRecord \cup {NoOpen}]
      /\ opens'[q].stage = stage /\ opens'[q].by = opens[q].by
      /\ opens'[q].chan = d /\ opens'[q].late = opens[q].late
      /\ opens'[q] # NoOpen
      /\ \A r \in Open \ {q} : opens'[r] = opens[r]
  <2> HIDE DEF stage
  <2>1. stage \in {"announced", "answered"}
    BY DEF stage
  <2> QED
    BY <1>0, <1>a, <1>b, <2>1, DmChanKeeps
<1>d. opens[q].by \in Server /\ opens[q].chan \in Chan \cup {Nowhere}
  BY <1>0, <1>a, OpenTypes
<1>e. opens[q].stage = "insert" /\ UNCHANGED <<blocking, posted, received, creations,
        overlapped, cut, undone, ignored>>
  BY DEF D!CreateDmChannel, D!Runs, D!history
<1>1. D!TypeOK'
  BY <1>0, <1>a, <1>b, <1>c, <1>d, <1>e DEF D!TypeOK, D!Runs, D!Home, D!HomeFor, D!history, D!CreateDmChannel, Away
<1>2. Channels'
  BY <1>0, <1>a, <1>b, <1>c, <1>d, <1>e DEF D!TypeOK, Channels, Openings, FoundSoFar, D!Runs, D!Home, D!HomeFor, D!history, D!CreateDmChannel, Away
<1>3. Openings'
  BY <1>0, <1>a, <1>b, <1>c, <1>d, <1>e DEF D!TypeOK, Channels, Openings, FoundSoFar, D!BlockedStayOut, D!Runs, D!Home, D!HomeFor, D!history, D!CreateDmChannel, Away
<1>4. OneAtATime'
  BY <1>0, <1>a, <1>b, <1>c, <1>d, <1>e DEF D!TypeOK, OneAtATime, Channels, Openings, FoundSoFar, D!Runs, D!Home, D!HomeFor, D!history, D!CreateDmChannel, Away
<1>5. D!NotHalfOpen'
  <2> SUFFICES ASSUME NEW c \in Chan
               PROVE  (D!Opening(c) \/ c \in cut \cup undone \/ homed[c] = Nowhere
                         \/ \A s \in Server : c \in held[s])'
    BY DEF D!NotHalfOpen
  <2>1. CASE c = d
    BY <1>c, <2>1 DEF D!Opening
  <2>2. CASE c # d /\ D!Opening(c)
    <3>1. PICK r \in Open : opens[r] # NoOpen /\ opens[r].chan = c
      BY <2>2 DEF D!Opening
    <3>2. r # q
      BY <1>0, <1>a, <1>e, <3>1, <2>2 DEF Openings, FoundSoFar
    <3> QED
      BY <1>c, <3>1, <3>2 DEF D!Opening
  <2>3. CASE c # d /\ ~D!Opening(c)
    BY <1>0, <1>b, <1>e, <2>3 DEF D!TypeOK, D!NotHalfOpen
  <2> QED
    BY <2>1, <2>2, <2>3
<1>6. LateIsBlocked'
  BY <1>0, <1>a, <1>b, <1>c, <1>d, <1>e DEF D!TypeOK, LateIsBlocked, D!Runs, D!Home, D!HomeFor, D!history, D!CreateDmChannel, Away
<1>7. D!BlockedStayOut'
  BY <1>0, <1>a, <1>b, <1>c, <1>d, <1>e DEF D!TypeOK, D!BlockedStayOut, LateIsBlocked, Openings, FoundSoFar, D!Runs, D!Home, D!HomeFor, D!history, D!CreateDmChannel, Away
<1>8. UnderWayIsPosted' /\ D!MessagesAgree'
  BY <1>0, <1>a, <1>b, <1>c, <1>d, <1>e DEF D!TypeOK, UnderWayIsPosted, D!MessagesAgree, D!Post, D!Runs, D!Home, D!HomeFor, D!history, D!CreateDmChannel, Away
<1> QED
  BY <1>1, <1>2, <1>3, <1>4, <1>5, <1>6, <1>7, <1>8 DEF Conversation

LEMMA DmFindExistingDmStep ==
  ASSUME Conversation, NEW q \in Open, D!FindExistingDm(q)
  PROVE  Conversation'
<1> USE TwoServers, OtherOfTwo
<1>0. /\ D!TypeOK /\ Channels /\ Openings /\ OneAtATime
      /\ D!NotHalfOpen /\ LateIsBlocked /\ D!BlockedStayOut
      /\ UnderWayIsPosted /\ D!MessagesAgree
  BY DEF Conversation
<1>a. opens[q] # NoOpen
  BY DEF D!FindExistingDm, D!Runs
<1> DEFINE stage == IF opens[q].by = First THEN "announced" ELSE "answered"
<1>b. \/ \E d \in held[First] :
           /\ opens' \in [Open -> D!OpenRecord \cup {NoOpen}]
           /\ opens'[q].stage = stage /\ opens'[q].by = opens[q].by
           /\ opens'[q].chan = d /\ opens'[q].late = opens[q].late
           /\ opens'[q] # NoOpen
           /\ \A r \in Open \ {q} : opens'[r] = opens[r]
      \/ /\ held[First] = {}
         /\ opens' \in [Open -> D!OpenRecord \cup {NoOpen}]
         /\ opens'[q].stage = "insert" /\ opens'[q].by = opens[q].by
         /\ opens'[q].chan = opens[q].chan /\ opens'[q].late = opens[q].late
         /\ opens'[q] # NoOpen
         /\ \A r \in Open \ {q} : opens'[r] = opens[r]
  <2>1. CASE held[First] = {} /\ D!Goto(q, "insert")
    BY <1>0, <1>a, <2>1, DmGotoKeeps
  <2>2. ASSUME NEW d \in held[First],
               opens' = [opens EXCEPT ![q].chan = d, ![q].stage = stage]
        PROVE  /\ opens' \in [Open -> D!OpenRecord \cup {NoOpen}]
               /\ opens'[q].stage = stage /\ opens'[q].by = opens[q].by
               /\ opens'[q].chan = d /\ opens'[q].late = opens[q].late
               /\ opens'[q] # NoOpen
               /\ \A r \in Open \ {q} : opens'[r] = opens[r]
    <3>1. stage \in {"announced", "answered"} /\ d \in Chan
      BY <1>0 DEF D!TypeOK
    <3> HIDE DEF stage
    <3> QED
      BY <1>0, <1>a, <2>2, <3>1, DmChanKeeps
  <2>3. \/ \E d \in held[First] : opens' = [opens EXCEPT ![q].chan = d, ![q].stage = stage]
        \/ held[First] = {} /\ D!Goto(q, "insert")
    BY DEF D!FindExistingDm, D!Home, D!HomeFor, D!AfterFind
  <2> HIDE DEF stage
  <2> QED
    BY <2>1, <2>2, <2>3
<1>d. opens[q].by \in Server /\ opens[q].chan \in Chan \cup {Nowhere}
  BY <1>0, <1>a, OpenTypes
<1>e. opens[q].stage = "find" /\ UNCHANGED <<held, homed, blocking, posted, received,
        creations, cut, undone, ignored>>
  BY DEF D!FindExistingDm, D!Runs
<1>f. overlapped' = (overlapped \/ \E r \in Open \ {q} : opens[r] # NoOpen /\ opens[r].stage = "insert")
  BY DEF D!FindExistingDm, D!Elsewhere, D!Runs, D!Home, D!HomeFor
<1>g. overlapped' \in BOOLEAN /\ (~overlapped' => ~overlapped)
  BY <1>0, <1>f DEF D!TypeOK
<1>1. D!TypeOK'
  BY <1>0, <1>a, <1>b, <1>d, <1>e, <1>f, <1>g DEF D!TypeOK, D!Runs, D!Home, D!HomeFor, D!history, Away
<1>2. Channels'
  BY <1>0, <1>a, <1>b, <1>d, <1>e, <1>f, <1>g DEF D!TypeOK, Channels, Openings, FoundSoFar, D!Runs, D!Home, D!HomeFor, D!history, Away
<1>3. Openings'
  BY <1>0, <1>a, <1>b, <1>d, <1>e, <1>f, <1>g DEF D!TypeOK, Channels, Openings, FoundSoFar, D!BlockedStayOut, D!Runs, D!Home, D!HomeFor, D!history, Away
<1>h. \A r \in Open \ {q} : D!Runs(r, "insert")' <=> D!Runs(r, "insert")
  BY <1>b DEF D!Runs
<1>4. OneAtATime'
  <2> SUFFICES ASSUME ~overlapped'
               PROVE  (/\ \A u, r \in Open : D!Runs(u, "insert") /\ D!Runs(r, "insert") => u = r
                       /\ \A u \in Open : D!Runs(u, "insert") => held[First] = {}
                       /\ \A d, e \in held[First] : d = e)'
    BY DEF OneAtATime
  <2>1. \A r \in Open \ {q} : ~D!Runs(r, "insert")'
    BY <1>f, <1>h DEF D!Runs
  <2>2. D!Runs(q, "insert")' => held[First] = {}
    BY <1>b DEF D!Runs
  <2>3. \A d, e \in held[First] : d = e
    BY <1>0, <1>g DEF OneAtATime
  <2>4. held' = held
    BY <1>e
  <2> QED
    BY <2>1, <2>2, <2>3, <2>4
<1>5. D!NotHalfOpen'
  BY <1>0, <1>a, <1>b, <1>d, <1>e, <1>f, <1>g DEF D!TypeOK, D!NotHalfOpen, D!Opening, Channels, Openings, FoundSoFar, D!Runs, D!Home, D!HomeFor, D!history, Away
<1>6. LateIsBlocked'
  BY <1>0, <1>a, <1>b, <1>d, <1>e, <1>f, <1>g DEF D!TypeOK, LateIsBlocked, D!Runs, D!Home, D!HomeFor, D!history, Away
<1>7. D!BlockedStayOut'
  BY <1>0, <1>a, <1>b, <1>d, <1>e, <1>f, <1>g DEF D!TypeOK, D!BlockedStayOut, LateIsBlocked, Openings, FoundSoFar, D!Runs, D!Home, D!HomeFor, D!history, Away
<1>8. UnderWayIsPosted' /\ D!MessagesAgree'
  BY <1>0, <1>a, <1>b, <1>d, <1>e, <1>f, <1>g DEF D!TypeOK, UnderWayIsPosted, D!MessagesAgree, D!Post, D!Runs, D!Home, D!HomeFor, D!history, Away
<1> QED
  BY <1>1, <1>2, <1>3, <1>4, <1>5, <1>6, <1>7, <1>8 DEF Conversation

LEMMA DmOpenDmStep ==
  ASSUME Conversation, NEW q \in Open, NEW s \in Server, D!OpenDm(q, s)
  PROVE  Conversation'
<1> USE TwoServers, OtherOfTwo
<1>0. /\ D!TypeOK /\ Channels /\ Openings /\ OneAtATime
      /\ D!NotHalfOpen /\ LateIsBlocked /\ D!BlockedStayOut
      /\ UnderWayIsPosted /\ D!MessagesAgree
  BY DEF Conversation
<1> DEFINE new == [by |-> s, chan |-> Nowhere, late |-> D!Other(s) \in blocking,
                   stage |-> IF First = s THEN "find" ELSE "asked"]
<1>a. new \in D!OpenRecord /\ new # NoOpen
  <2>1. (D!Other(s) \in blocking) \in BOOLEAN
    OBVIOUS
  <2>2. (IF First = s THEN "find" ELSE "asked") \in {"asked", "find", "insert",
          "announced", "consented", "accepted", "rejected", "answered"}
    OBVIOUS
  <2>3. \A isLate \in BOOLEAN : \A stage \in {"asked", "find", "insert", "announced",
          "consented", "accepted", "rejected", "answered"} :
            [by |-> s, chan |-> Nowhere, late |-> isLate, stage |-> stage] \in D!OpenRecord
    BY DEF D!OpenRecord
  <2> QED
    BY <2>1, <2>2, <2>3, Zenon
<1>b. /\ opens' \in [Open -> D!OpenRecord \cup {NoOpen}]
      /\ opens'[q] = new
      /\ \A r \in Open \ {q} : opens'[r] = opens[r]
  BY <1>0, <1>a DEF D!TypeOK, D!OpenDm, D!HomeFor
<1>c. opens[q] = NoOpen /\ UNCHANGED <<held, homed, blocking, posted, received, creations,
        overlapped, cut, undone, ignored>>
  BY DEF D!OpenDm, D!history
<1>d. /\ opens'[q].by = s /\ opens'[q].chan = Nowhere /\ opens'[q] # NoOpen
      /\ opens'[q].late = (D!Other(s) \in blocking)
      /\ opens'[q].stage = IF First = s THEN "find" ELSE "asked"
  BY <1>a, <1>b
<1> HIDE DEF new
<1>1. D!TypeOK'
  BY <1>0, <1>a, <1>b, <1>c, <1>d DEF D!TypeOK, D!Runs, D!Home, D!HomeFor, D!history, Away
<1>2. Channels'
  BY <1>0, <1>a, <1>b, <1>c, <1>d DEF D!TypeOK, Channels, Openings, FoundSoFar, D!Runs, D!Home, D!HomeFor, D!history, Away
<1>3. Openings'
  BY <1>0, <1>a, <1>b, <1>c, <1>d DEF D!TypeOK, Channels, Openings, FoundSoFar, D!BlockedStayOut, D!Runs, D!Home, D!HomeFor, D!history, Away
<1>4. OneAtATime'
  BY <1>0, <1>a, <1>b, <1>c, <1>d DEF D!TypeOK, OneAtATime, Channels, Openings, FoundSoFar, D!Runs, D!Home, D!HomeFor, D!history, Away
<1>5. D!NotHalfOpen'
  BY <1>0, <1>a, <1>b, <1>c, <1>d DEF D!TypeOK, D!NotHalfOpen, D!Opening, Channels, Openings, FoundSoFar, D!Runs, D!Home, D!HomeFor, D!history, Away
<1>6. LateIsBlocked'
  BY <1>0, <1>a, <1>b, <1>c, <1>d DEF D!TypeOK, LateIsBlocked, D!Runs, D!Home, D!HomeFor, D!history, Away
<1>7. D!BlockedStayOut'
  BY <1>0, <1>a, <1>b, <1>c, <1>d DEF D!TypeOK, D!BlockedStayOut, LateIsBlocked, Openings, FoundSoFar, D!Runs, D!Home, D!HomeFor, D!history, Away
<1>8. UnderWayIsPosted' /\ D!MessagesAgree'
  BY <1>0, <1>a, <1>b, <1>c, <1>d DEF D!TypeOK, UnderWayIsPosted, D!MessagesAgree, D!Post, D!Runs, D!Home, D!HomeFor, D!history, Away
<1> QED
  BY <1>1, <1>2, <1>3, <1>4, <1>5, <1>6, <1>7, <1>8 DEF Conversation

LEMMA DmBlockStep ==
  ASSUME Conversation, NEW s \in Server, D!Block(s)
  PROVE  Conversation'
<1> USE TwoServers, OtherOfTwo
<1>0. /\ D!TypeOK /\ Channels /\ Openings /\ OneAtATime
      /\ D!NotHalfOpen /\ LateIsBlocked /\ D!BlockedStayOut
      /\ UnderWayIsPosted /\ D!MessagesAgree
  BY DEF Conversation
<1>1. D!TypeOK'
  BY <1>0, <1>0 DEF D!TypeOK, D!Runs, D!Home, D!HomeFor, D!history, D!Block
<1>2. Channels'
  BY <1>0, <1>0 DEF D!TypeOK, Channels, Openings, FoundSoFar, D!Runs, D!Home, D!HomeFor, D!history, D!Block
<1>3. Openings'
  BY <1>0, <1>0 DEF D!TypeOK, Channels, Openings, FoundSoFar, D!BlockedStayOut, D!Runs, D!Home, D!HomeFor, D!history, D!Block
<1>4. OneAtATime'
  BY <1>0, <1>0 DEF D!TypeOK, OneAtATime, Channels, Openings, FoundSoFar, D!Runs, D!Home, D!HomeFor, D!history, D!Block
<1>5. D!NotHalfOpen'
  BY <1>0, <1>0 DEF D!TypeOK, D!NotHalfOpen, D!Opening, Channels, Openings, FoundSoFar, D!Runs, D!Home, D!HomeFor, D!history, D!Block
<1>6. LateIsBlocked'
  BY <1>0, <1>0 DEF D!TypeOK, LateIsBlocked, D!Runs, D!Home, D!HomeFor, D!history, D!Block
<1>7. D!BlockedStayOut'
  BY <1>0, <1>0 DEF D!TypeOK, D!BlockedStayOut, LateIsBlocked, Openings, FoundSoFar, D!Runs, D!Home, D!HomeFor, D!history, D!Block
<1>8. UnderWayIsPosted' /\ D!MessagesAgree'
  BY <1>0, <1>0 DEF D!TypeOK, UnderWayIsPosted, D!MessagesAgree, D!Post, D!Runs, D!Home, D!HomeFor, D!history, D!Block
<1> QED
  BY <1>1, <1>2, <1>3, <1>4, <1>5, <1>6, <1>7, <1>8 DEF Conversation

LEMMA DmUnblockStep ==
  ASSUME Conversation, NEW s \in Server, D!Unblock(s)
  PROVE  Conversation'
<1> USE TwoServers, OtherOfTwo
<1>0. /\ D!TypeOK /\ Channels /\ Openings /\ OneAtATime
      /\ D!NotHalfOpen /\ LateIsBlocked /\ D!BlockedStayOut
      /\ UnderWayIsPosted /\ D!MessagesAgree
  BY DEF Conversation
<1>a. UNCHANGED <<held, homed, posted, received, creations, overlapped, cut, undone, ignored>>
      /\ blocking' = blocking \ {s}
  BY DEF D!Unblock, D!history
<1>b. /\ opens' \in [Open -> D!OpenRecord \cup {NoOpen}]
      /\ \A r \in Open :
           /\ opens'[r] # NoOpen <=> opens[r] # NoOpen
           /\ opens[r] # NoOpen =>
                /\ opens'[r].by = opens[r].by /\ opens'[r].chan = opens[r].chan
                /\ opens'[r].stage = opens[r].stage
                /\ opens[r].by \in Server
                /\ opens'[r].late => opens[r].late /\ D!Other(opens[r].by) # s
  <2>1. opens' = [r \in Open |-> IF opens[r] # NoOpen /\ D!Other(opens[r].by) = s
                                 THEN [opens[r] EXCEPT !.late = FALSE] ELSE opens[r]]
    BY DEF D!Unblock
  <2>2. ASSUME NEW r \in Open, opens[r] # NoOpen
        PROVE  /\ opens'[r] \in D!OpenRecord
               /\ opens'[r].by = opens[r].by /\ opens'[r].chan = opens[r].chan
               /\ opens'[r].stage = opens[r].stage /\ opens[r].by \in Server
               /\ opens'[r].late => opens[r].late /\ D!Other(opens[r].by) # s
    <3>1. opens[r] \in D!OpenRecord
      BY <1>0, <2>2, OpenTypes
    <3>2. /\ [opens[r] EXCEPT !.late = FALSE] \in D!OpenRecord
          /\ [opens[r] EXCEPT !.late = FALSE].by = opens[r].by
          /\ [opens[r] EXCEPT !.late = FALSE].chan = opens[r].chan
          /\ [opens[r] EXCEPT !.late = FALSE].stage = opens[r].stage
          /\ [opens[r] EXCEPT !.late = FALSE].late = FALSE
          /\ opens[r].by \in Server
      BY <3>1 DEF D!OpenRecord
    <3>3. CASE D!Other(opens[r].by) = s
      BY <2>1, <2>2, <3>2, <3>3
    <3>4. CASE D!Other(opens[r].by) # s
      BY <2>1, <2>2, <3>1, <3>2, <3>4
    <3> QED
      BY <3>3, <3>4
  <2>3. ASSUME NEW r \in Open, opens[r] = NoOpen
        PROVE  opens'[r] = NoOpen
    BY <2>1, <2>3
  <2> QED
    BY <2>1, <2>2, <2>3
<1>1. D!TypeOK'
  BY <1>0, <1>a, <1>b DEF D!TypeOK, D!Runs, D!Home, D!HomeFor, D!history, Away
<1>2. Channels'
  BY <1>0, <1>a, <1>b DEF D!TypeOK, Channels, Openings, FoundSoFar, D!Runs, D!Home, D!HomeFor, D!history, Away
<1>3. Openings'
  BY <1>0, <1>a, <1>b DEF D!TypeOK, Channels, Openings, FoundSoFar, D!BlockedStayOut, D!Runs, D!Home, D!HomeFor, D!history, Away
<1>4. OneAtATime'
  BY <1>0, <1>a, <1>b DEF D!TypeOK, OneAtATime, Channels, Openings, FoundSoFar, D!Runs, D!Home, D!HomeFor, D!history, Away
<1>5. D!NotHalfOpen'
  BY <1>0, <1>a, <1>b DEF D!TypeOK, D!NotHalfOpen, D!Opening, Channels, Openings, FoundSoFar, D!Runs, D!Home, D!HomeFor, D!history, Away
<1>6. LateIsBlocked'
  BY <1>0, <1>a, <1>b DEF D!TypeOK, LateIsBlocked, D!Runs, D!Home, D!HomeFor, D!history, Away
<1>7. D!BlockedStayOut'
  BY <1>0, <1>a, <1>b DEF D!TypeOK, D!BlockedStayOut, LateIsBlocked, Openings, FoundSoFar, D!Runs, D!Home, D!HomeFor, D!history, Away
<1>8. UnderWayIsPosted' /\ D!MessagesAgree'
  BY <1>0, <1>a, <1>b DEF D!TypeOK, UnderWayIsPosted, D!MessagesAgree, D!Post, D!Runs, D!Home, D!HomeFor, D!history, Away
<1> QED
  BY <1>1, <1>2, <1>3, <1>4, <1>5, <1>6, <1>7, <1>8 DEF Conversation

LEMMA DmStoreStep ==
  ASSUME Conversation, NEW m \in Text, NEW d \in Chan, D!Store(m, d)
  PROVE  Conversation'
<1> USE TwoServers, OtherOfTwo
<1>0. /\ D!TypeOK /\ Channels /\ Openings /\ OneAtATime
      /\ D!NotHalfOpen /\ LateIsBlocked /\ D!BlockedStayOut
      /\ UnderWayIsPosted /\ D!MessagesAgree
  BY DEF Conversation
<1>1. D!TypeOK'
  BY <1>0, <1>0 DEF D!TypeOK, D!Runs, D!Home, D!HomeFor, D!history, D!Store, D!Used, D!Post
<1>2. Channels'
  BY <1>0, <1>0 DEF D!TypeOK, Channels, Openings, FoundSoFar, D!Runs, D!Home, D!HomeFor, D!history, D!Store, D!Used, D!Post
<1>3. Openings'
  BY <1>0, <1>0 DEF D!TypeOK, Channels, Openings, FoundSoFar, D!BlockedStayOut, D!Runs, D!Home, D!HomeFor, D!history, D!Store, D!Used, D!Post
<1>4. OneAtATime'
  BY <1>0, <1>0 DEF D!TypeOK, OneAtATime, Channels, Openings, FoundSoFar, D!Runs, D!Home, D!HomeFor, D!history, D!Store, D!Used, D!Post
<1>5. D!NotHalfOpen'
  BY <1>0, <1>0 DEF D!TypeOK, D!NotHalfOpen, D!Opening, Channels, Openings, FoundSoFar, D!Runs, D!Home, D!HomeFor, D!history, D!Store, D!Used, D!Post
<1>6. LateIsBlocked'
  BY <1>0, <1>0 DEF D!TypeOK, LateIsBlocked, D!Runs, D!Home, D!HomeFor, D!history, D!Store, D!Used, D!Post
<1>7. D!BlockedStayOut'
  BY <1>0, <1>0 DEF D!TypeOK, D!BlockedStayOut, LateIsBlocked, Openings, FoundSoFar, D!Runs, D!Home, D!HomeFor, D!history, D!Store, D!Used, D!Post
<1>8. UnderWayIsPosted' /\ D!MessagesAgree'
  BY <1>0, <1>0 DEF D!TypeOK, UnderWayIsPosted, D!MessagesAgree, D!Post, D!Runs, D!Home, D!HomeFor, D!history, D!Store, D!Used, D!Post
<1> QED
  BY <1>1, <1>2, <1>3, <1>4, <1>5, <1>6, <1>7, <1>8 DEF Conversation

LEMMA DmApplyStep ==
  ASSUME Conversation, NEW p \in creations, D!ApplyMessageCreate(p)
  PROVE  Conversation'
<1> USE TwoServers, OtherOfTwo
<1>0. /\ D!TypeOK /\ Channels /\ Openings /\ OneAtATime
      /\ D!NotHalfOpen /\ LateIsBlocked /\ D!BlockedStayOut
      /\ UnderWayIsPosted /\ D!MessagesAgree
  BY DEF Conversation
<1>1. D!TypeOK'
  BY <1>0, <1>0 DEF D!TypeOK, D!Runs, D!Home, D!HomeFor, D!history, D!ApplyMessageCreate, Away
<1>2. Channels'
  BY <1>0, <1>0 DEF D!TypeOK, Channels, Openings, FoundSoFar, D!Runs, D!Home, D!HomeFor, D!history, D!ApplyMessageCreate, Away
<1>3. Openings'
  BY <1>0, <1>0 DEF D!TypeOK, Channels, Openings, FoundSoFar, D!BlockedStayOut, D!Runs, D!Home, D!HomeFor, D!history, D!ApplyMessageCreate, Away
<1>4. OneAtATime'
  BY <1>0, <1>0 DEF D!TypeOK, OneAtATime, Channels, Openings, FoundSoFar, D!Runs, D!Home, D!HomeFor, D!history, D!ApplyMessageCreate, Away
<1>5. D!NotHalfOpen'
  BY <1>0, <1>0 DEF D!TypeOK, D!NotHalfOpen, D!Opening, Channels, Openings, FoundSoFar, D!Runs, D!Home, D!HomeFor, D!history, D!ApplyMessageCreate, Away
<1>6. LateIsBlocked'
  BY <1>0, <1>0 DEF D!TypeOK, LateIsBlocked, D!Runs, D!Home, D!HomeFor, D!history, D!ApplyMessageCreate, Away
<1>7. D!BlockedStayOut'
  BY <1>0, <1>0 DEF D!TypeOK, D!BlockedStayOut, LateIsBlocked, Openings, FoundSoFar, D!Runs, D!Home, D!HomeFor, D!history, D!ApplyMessageCreate, Away
<1>8. UnderWayIsPosted' /\ D!MessagesAgree'
  BY <1>0, <1>0 DEF D!TypeOK, UnderWayIsPosted, D!MessagesAgree, D!Post, D!Runs, D!Home, D!HomeFor, D!history, D!ApplyMessageCreate, Away
<1> QED
  BY <1>1, <1>2, <1>3, <1>4, <1>5, <1>6, <1>7, <1>8 DEF Conversation

LEMMA ConversationInit == ASSUME D!DInit PROVE Conversation
BY TwoServers DEF D!DInit, Conversation, D!TypeOK, Channels, Openings, OneAtATime,
  D!NotHalfOpen, D!Opening, LateIsBlocked, D!BlockedStayOut, UnderWayIsPosted,
  D!MessagesAgree, D!Runs, D!OpenRecord, D!Post

LEMMA ConversationStutters ==
  ASSUME Conversation, UNCHANGED D!dvars
  PROVE  Conversation'
BY DEF D!dvars, D!history, Conversation, D!TypeOK, Channels, Openings, FoundSoFar, OneAtATime,
  D!NotHalfOpen, D!Opening, LateIsBlocked, D!BlockedStayOut, UnderWayIsPosted,
  D!MessagesAgree, D!Runs, D!Home, D!HomeFor

LEMMA DmConversationStep ==
  ASSUME Conversation, D!DNext
  PROVE  Conversation'
<1>1. ASSUME NEW q \in Open, D!Handle(q)
      PROVE  Conversation'
  BY <1>1, DmServeOpenStep, DmFindExistingDmStep, DmCreateDmChannelStep, DmHandleAnnounceStep,
     DmMirrorAnnouncedStep, DmMirrorAnsweredStep, DmRejectStep, DmFinishAcceptedStep,
     DmRollBackStep, DmLoseAnswerStep DEF D!Handle
<1>2. ASSUME NEW m \in Text, NEW d \in Chan, D!CreateMessage(m, d) \/ D!ForwardDmMessage(m, d)
      PROVE  Conversation'
  BY <1>2, DmStoreStep DEF D!CreateMessage, D!ForwardDmMessage
<1> QED
  BY <1>1, <1>2, DmOpenDmStep, DmBlockStep, DmUnblockStep, DmApplyStep DEF D!DNext

LEMMA CountIsCardinality == \A set : D!Cardinality(set) = Cardinality(set)
BY DEF D!Cardinality, Cardinality

LEMMA ConversationSuffices == Conversation => ConversationHolds
<1> SUFFICES ASSUME Conversation PROVE ConversationHolds
  OBVIOUS
<1>1. \A d, e \in Chan : Nowhere \in {homed[d], homed[e]} \/ homed[d] = homed[e]
  BY TwoServers DEF Conversation, Channels
<1>2. ASSUME ~overlapped, NEW s \in Server
      PROVE  D!Cardinality(held[s] \ undone) <= 1
  <2>1. held[s] \ undone \subseteq held[First]
    BY TwoServers DEF Conversation, D!TypeOK, Channels
  <2>2. \A d, e \in held[First] : d = e
    BY <1>2 DEF Conversation, OneAtATime
  <2>3. CASE held[s] \ undone = {}
    BY <2>3, FS_EmptySet, CountIsCardinality
  <2>4. CASE held[s] \ undone # {}
    <3>1. PICK d : held[s] \ undone = {d}
      BY <2>1, <2>2, <2>4
    <3> QED
      <4>1. Cardinality(held[s] \ undone) = 1
        BY <3>1, FS_Singleton
      <4>2. D!Cardinality(held[s] \ undone) = 1
        BY <4>1, CountIsCardinality
      <4> QED
        BY <4>2
  <2> QED
    BY <2>3, <2>4
<1>3. D!OneConversation
  BY <1>1, <1>2 DEF D!OneConversation
<1> QED
  BY <1>3 DEF Conversation, ConversationHolds

\* Whatever the two servers do, a direct conversation is one, both servers have
\* it or neither has unless its opening was cut off or taken back, a user who
\* blocks the opener all along does not get it, and its messages agree (open_dm,
\* serve_open, mirror_dm, apply_message_create).
THEOREM ConversationIsOne == D!DSpec => []ConversationHolds
<1>1. D!DSpec => []Conversation
  BY ConversationInit, DmConversationStep, ConversationStutters, PTL DEF D!DSpec
<1> QED
  BY <1>1, ConversationSuffices, PTL

\* The same of every behaviour of the run (open_dm, serve_open, mirror_dm).
THEOREM ConversationKept == MCSpec => []ConversationHolds
<1>1. MCInit => Conversation
  BY ConversationInit DEF MCInit
<1>2. Conversation /\ [MCNext]_<<space, direct, focus>> => Conversation'
  BY DmConversationStep, ConversationStutters DEF MCNext, direct, D!dvars, D!history
<1> QED
  BY <1>1, <1>2, ConversationSuffices, PTL DEF MCSpec

-----------------------------------------------------------------------------
(* A mirrored space.                                                       *)

\* A request of a fan to join or to leave.
Moving(q, u) == /\ requests[q] # NoRequest
                /\ requests[q].who = u
                /\ requests[q].what \in {"join", "leave"}
\* What is known of a fan whose membership was not changed by half: one request
\* at a time, and where it has come to.
MovesKnown == \A u \in Fan : u \notin broken =>
  /\ \A q \in Call : Moving(q, u) =>
       /\ \A r \in Call : Moving(r, u) => r = q
       /\ requests[q].awaited
       /\ requests[q].stage = "sent" => (u \in rows <=> u \in members)
       /\ requests[q].stage # "sent" => (u \in members <=> requests[q].what = "join")
  /\ (\A q \in Call : ~Moving(q, u)) => (u \in rows <=> u \in members)

Lasting(i) == Sort[i] \in {"message", "emoji"}
\* What an item holds once a change has been applied.
EventValue(e, i) == IF e.what = "delete" THEN 0 ELSE IF Lasting(i) THEN e.at ELSE 1
Taken(q) == /\ requests[q] # NoRequest
            /\ requests[q].what = "join"
            /\ requests[q].stage \in {"done", "applying"}

MirrorShape ==
  /\ \A i \in Item : seen[i] <= clock
  /\ \A q \in Call : Taken(q) => requests[q].taken <= clock
                                 /\ (requests[q].stage = "applying" => mirrored)
  /\ \A i \in Item : Sort[i] = "reaction" /\ copy[On[i]] = 0 => copy[i] = 0
  /\ ~mirrored => \A i \in Item : copy[i] = 0

\* A message or an emoji is created once, at "born"; its last change was at "last".
WrittenBetween(i, value, last, born) ==
  value = 0 \/ (i \in made /\ born <= value /\ value <= last)
LastingFacts(i, last, born) ==
  /\ content[i] # 0 => content[i] = last /\ i \in made
  /\ \A e \in S!About(i) :
       /\ i \in made
       /\ e.what = "create" => e.at = born
       /\ e.what = "update" => e.at > born
       /\ e.what = "delete" => content[i] = 0
  /\ WrittenBetween(i, copy[i], last, born)
  /\ \A q \in Call : Taken(q) =>
       /\ WrittenBetween(i, requests[q].snapshot[i], last, born)
       /\ last <= requests[q].taken => requests[q].snapshot[i] = content[i]
  /\ content[i] # 0 /\ i \notin apart /\ copy[i] = 0 =>
       \E e \in S!About(i) : e.what = "create"
ToldOf(i, last) ==
  /\ \A e \in S!About(i) : e.at <= last /\ (e.at = last => content[i] = EventValue(e, i))
  /\ seen[i] < last => \E e \in S!About(i) : e.at = last
  /\ \/ i \in apart \/ seen[i] < last \/ copy[i] = content[i]
     \/ (copy[i] = 0 /\ \E e \in S!About(i) : e.what = "create" /\ e.at < seen[i])
ItemFacts(i, last, born) == born <= last /\ ToldOf(i, last) /\ (Lasting(i) => LastingFacts(i, last, born))
Copies == \A i \in Item : \E last, born \in 0..clock : ItemFacts(i, last, born)

\* A write names what it is about.
WritesName == \A q \in Call :
  requests[q] # NoRequest /\ requests[q].what \in S!Writes => requests[q].of \in Item

Mirror == S!TypeOK /\ MovesKnown /\ WritesName /\ MirrorShape /\ Copies

-----------------------------------------------------------------------------
(* The requests.                                                           *)

RequestStages == {"sent", "admitted", "done", "applying"}
RequestKinds == {"join", "leave", "create", "update", "delete"}
RequestTable == [Call -> S!RequestRecord \cup {NoRequest}]
OthersStay(q) == \A r \in Call \ {q} : requests'[r] = requests[r]

LEMMA RequestFields ==
  ASSUME NEW r \in S!RequestRecord
  PROVE  /\ r # NoRequest
         /\ r.who \in Fan /\ r.what \in RequestKinds /\ r.of \in Item \cup {NoRequest}
         /\ r.stage \in RequestStages /\ r.awaited \in BOOLEAN
         /\ r.snapshot \in [Item -> 0..MaxClock] /\ r.taken \in 0..MaxClock
BY ItemsAssumption DEF S!RequestRecord, S!Snapshot, RequestStages, RequestKinds

LEMMA RequestTypes ==
  ASSUME S!TypeOK, NEW q \in Call, requests[q] # NoRequest
  PROVE  /\ requests[q] \in S!RequestRecord /\ requests \in RequestTable
         /\ requests[q].who \in Fan /\ requests[q].what \in RequestKinds
         /\ requests[q].of \in Item \cup {NoRequest}
         /\ requests[q].stage \in RequestStages /\ requests[q].awaited \in BOOLEAN
         /\ requests[q].snapshot \in [Item -> 0..MaxClock] /\ requests[q].taken \in 0..MaxClock
<1>1. requests[q] \in S!RequestRecord /\ requests \in RequestTable
  BY DEF S!TypeOK, RequestTable
<1> QED
  BY <1>1, RequestFields

LEMMA SendEffect ==
  ASSUME S!TypeOK, NEW q \in Call, NEW u \in Fan, NEW what \in RequestKinds,
         NEW i \in Item \cup {NoRequest}, S!Send(q, u, what, i)
  PROVE  /\ requests' \in RequestTable /\ OthersStay(q)
         /\ requests[q] = NoRequest /\ requests'[q] # NoRequest
         /\ requests'[q].who = u /\ requests'[q].what = what /\ requests'[q].of = i
         /\ requests'[q].stage = "sent" /\ requests'[q].awaited
<1> DEFINE new == [who |-> u, what |-> what, of |-> i, stage |-> "sent",
                   awaited |-> TRUE, snapshot |-> S!NoSnapshot, taken |-> 0]
<1>1. new \in S!RequestRecord
  <2>1. S!NoSnapshot \in S!Snapshot /\ 0 \in 0..MaxClock
    BY ItemsAssumption DEF S!NoSnapshot, S!Snapshot
  <2> QED
    BY <2>1 DEF S!RequestRecord, RequestKinds
<1>2. requests' = [requests EXCEPT ![q] = new] /\ requests[q] = NoRequest
  BY DEF S!Send
<1>3. requests \in RequestTable
  BY DEF S!TypeOK, RequestTable
<1>4. /\ new.who = u /\ new.what = what /\ new.of = i /\ new.stage = "sent" /\ new.awaited
      /\ new # NoRequest
  BY <1>1, RequestFields
<1> HIDE DEF new
<1>5. requests' \in RequestTable
  BY <1>1, <1>2, <1>3 DEF RequestTable
<1>6. requests'[q] = new /\ OthersStay(q)
  BY <1>2, <1>3 DEF RequestTable, OthersStay
<1> QED
  BY <1>2, <1>4, <1>5, <1>6

LEMMA EndEffect ==
  ASSUME S!TypeOK, NEW q \in Call, S!End(q)
  PROVE  requests' \in RequestTable /\ OthersStay(q) /\ requests'[q] = NoRequest
<1>1. requests \in RequestTable
  BY DEF S!TypeOK, RequestTable
<1> QED
  BY <1>1 DEF S!End, RequestTable, OthersStay

\* A request with some fields replaced keeps the others.
SameRequest(q, r) == requests'[q] = r /\ requests' \in RequestTable /\ OthersStay(q)
LEMMA Replaced ==
  ASSUME S!TypeOK, NEW q \in Call, NEW r \in S!RequestRecord,
         requests' = [requests EXCEPT ![q] = r]
  PROVE  SameRequest(q, r) /\ r # NoRequest
<1>1. requests \in RequestTable
  BY DEF S!TypeOK, RequestTable
<1>2. r # NoRequest
  BY RequestFields
<1> QED
  BY <1>1, <1>2 DEF RequestTable, OthersStay, SameRequest

LEMMA GotoEffect ==
  ASSUME S!TypeOK, NEW q \in Call, requests[q] # NoRequest, NEW stage \in RequestStages,
         S!Goto(q, stage)
  PROVE  /\ requests' \in RequestTable /\ OthersStay(q) /\ requests'[q] # NoRequest
         /\ requests'[q].who = requests[q].who /\ requests'[q].what = requests[q].what
         /\ requests'[q].stage = stage /\ requests'[q].awaited = requests[q].awaited
         /\ requests'[q].snapshot = requests[q].snapshot
         /\ requests'[q].taken = requests[q].taken
<1> DEFINE new == [requests[q] EXCEPT !.stage = stage]
<1>1. requests[q] \in S!RequestRecord /\ requests \in RequestTable
  BY RequestTypes
<1>2. requests' = [requests EXCEPT ![q] = new]
  BY DEF S!Goto
<1>3. new \in S!RequestRecord
  BY <1>1 DEF S!RequestRecord, RequestStages
<1>4. /\ new.who = requests[q].who /\ new.what = requests[q].what
      /\ new.stage = stage /\ new.awaited = requests[q].awaited
      /\ new.snapshot = requests[q].snapshot /\ new.taken = requests[q].taken
  BY <1>1 DEF S!RequestRecord
<1> HIDE DEF new
<1>5. SameRequest(q, new) /\ new # NoRequest
  BY <1>2, <1>3, Replaced
<1> QED
  BY <1>4, <1>5 DEF SameRequest

LEMMA GiveUpEffect ==
  ASSUME S!TypeOK, NEW q \in Call, S!GiveUp(q)
  PROVE  /\ requests' \in RequestTable /\ OthersStay(q)
         /\ requests[q] # NoRequest /\ requests'[q] # NoRequest
         /\ requests'[q].who = requests[q].who /\ requests'[q].what = requests[q].what
         /\ requests'[q].stage = requests[q].stage
         /\ requests'[q].snapshot = requests[q].snapshot
         /\ requests'[q].taken = requests[q].taken
<1> DEFINE new == [requests[q] EXCEPT !.awaited = FALSE]
<1>0. requests[q] # NoRequest
  BY DEF S!GiveUp
<1>1. requests[q] \in S!RequestRecord /\ requests \in RequestTable
  BY <1>0, RequestTypes
<1>2. requests' = [requests EXCEPT ![q] = new]
  BY DEF S!GiveUp
<1>3. new \in S!RequestRecord
  BY <1>1 DEF S!RequestRecord
<1>4. /\ new.who = requests[q].who /\ new.what = requests[q].what
      /\ new.stage = requests[q].stage
      /\ new.snapshot = requests[q].snapshot /\ new.taken = requests[q].taken
  BY <1>1 DEF S!RequestRecord
<1> HIDE DEF new
<1>5. SameRequest(q, new) /\ new # NoRequest
  BY <1>2, <1>3, Replaced
<1> QED
  BY <1>0, <1>4, <1>5 DEF SameRequest

LEMMA BuildEffect ==
  ASSUME S!TypeOK, NEW q \in Call, S!BuildSnapshot(q)
  PROVE  /\ requests' \in RequestTable /\ OthersStay(q)
         /\ requests[q] # NoRequest /\ requests'[q] # NoRequest
         /\ requests'[q].who = requests[q].who /\ requests'[q].what = requests[q].what
         /\ requests'[q].stage = "done" /\ requests'[q].awaited = requests[q].awaited
         /\ requests'[q].taken = clock
         /\ \A i \in Item : requests'[q].snapshot[i] = IF Lasting(i) THEN content[i] ELSE 0
<1> DEFINE given == [i \in Item |-> IF Lasting(i) THEN content[i] ELSE 0]
           new == [requests[q] EXCEPT !.stage = "done", !.taken = clock, !.snapshot = given]
<1>0. requests[q] # NoRequest
  BY DEF S!BuildSnapshot, S!Runs
<1>1. requests[q] \in S!RequestRecord /\ requests \in RequestTable
  BY <1>0, RequestTypes
<1>2. requests' = [requests EXCEPT ![q] = new]
  BY DEF S!BuildSnapshot, Lasting
<1>3. given \in S!Snapshot /\ clock \in 0..MaxClock
  BY ItemsAssumption DEF S!TypeOK, S!Snapshot
<1>6. \A i \in Item : given[i] = IF Lasting(i) THEN content[i] ELSE 0
  OBVIOUS
<1> HIDE DEF given
<1>7. new \in S!RequestRecord
  BY <1>1, <1>3 DEF S!RequestRecord
<1>4. /\ new.who = requests[q].who /\ new.what = requests[q].what
      /\ new.stage = "done" /\ new.awaited = requests[q].awaited
      /\ new.snapshot = given /\ new.taken = clock
  BY <1>1 DEF S!RequestRecord
<1> HIDE DEF new
<1>5. SameRequest(q, new) /\ new # NoRequest
  BY <1>2, <1>7, Replaced
<1> QED
  BY <1>0, <1>4, <1>5, <1>6 DEF SameRequest
-----------------------------------------------------------------------------
(* Actions that change who is a member, or only the requests.              *)

LEMMA LeaveIsEvent ==
  ASSUME NEW u \in Fan
  PROVE  [what |-> "leave", of |-> S!Qualified(u)] \in S!Event
BY DEF S!Event

LEMMA EventTypes ==
  ASSUME S!TypeOK, NEW e \in events, e.what # "leave"
  PROVE  /\ e \in [what : {"create", "update", "delete"}, of : Item, at : 1..MaxClock]
         /\ e.what \in {"create", "update", "delete"} /\ e.of \in Item
         /\ e.at \in 1..MaxClock
<1>1. e \in S!Event
  BY DEF S!TypeOK
<1>2. e \notin [what : {"leave"}, of : {S!Qualified(u) : u \in Fan}]
  OBVIOUS
<1>3. e \in [what : {"create", "update", "delete"}, of : Item, at : 1..MaxClock]
  BY <1>1, <1>2 DEF S!Event
<1> QED
  BY <1>3

\* Which events are about an item.
LEMMA AboutIs ==
  ASSUME NEW i \in Item, NEW e
  PROVE  e \in S!About(i) <=>
           /\ e \in events /\ e.what # "leave"
           /\ i = e.of \/ (e.what = "delete" /\ Sort[i] = "reaction" /\ On[i] = e.of)
BY DEF S!About, S!Touched, S!Marks, S!Of

\* The copies are as before: no event but a departure comes or goes, and no
\* snapshot is taken.
CopiesStay ==
  /\ UNCHANGED <<content, made, clock, mirrored, copy, seen, apart>>
  /\ \A e \in events' \ events : e.what = "leave"
  /\ \A e \in events \ events' : e.what = "leave"
  /\ \A q \in Call : Taken(q)' =>
       /\ Taken(q) /\ requests'[q].stage = requests[q].stage
       /\ requests'[q].snapshot = requests[q].snapshot
       /\ requests'[q].taken = requests[q].taken

LEMMA CopiesAreKept ==
  ASSUME MirrorShape, Copies, CopiesStay
  PROVE  MirrorShape' /\ Copies'
<1>1. \A i \in Item : S!About(i)' = S!About(i)
  BY DEF CopiesStay, S!About, S!Touched, S!Marks, S!Of
<1>2. MirrorShape'
  BY DEF CopiesStay, MirrorShape
<1>3. ASSUME NEW i \in Item, NEW last \in 0..clock, NEW born \in 0..clock,
             ItemFacts(i, last, born)
      PROVE  ItemFacts(i, last, born)'
  <2>1. ToldOf(i, last)'
    BY <1>1, <1>3 DEF CopiesStay, ItemFacts, ToldOf, EventValue, Lasting
  <2>2. Lasting(i) => LastingFacts(i, last, born)'
    BY <1>1, <1>3 DEF CopiesStay, ItemFacts, LastingFacts, WrittenBetween
  <2> QED
    BY <1>3, <2>1, <2>2 DEF ItemFacts, Lasting
<1>4. Copies'
  BY <1>3 DEF Copies, CopiesStay
<1> QED
  BY <1>2, <1>4

LEMMA SpaceKickMemberStep ==
  ASSUME Mirror, NEW u \in Fan, S!KickMember(u)
  PROVE  Mirror'
<1>0. S!TypeOK /\ MovesKnown /\ WritesName /\ MirrorShape /\ Copies
  BY DEF Mirror
<1>a. [what |-> "leave", of |-> S!Qualified(u)] \in S!Event
  BY LeaveIsEvent
<1>1. S!TypeOK'
  BY <1>0, <1>a DEF S!TypeOK, RequestTable, S!home, S!mirror, S!Runs, S!KickMember, S!Remove, S!FanOut, S!Interested
<1>2. MovesKnown'
  BY <1>0, <1>a DEF MovesKnown, Moving, OthersStay, S!home, S!mirror, S!Runs, S!KickMember, S!Remove, S!FanOut, S!Interested
<1>4. WritesName'
  BY <1>0, <1>a DEF WritesName, S!Writes, OthersStay, S!home, S!mirror, S!Runs, S!KickMember, S!Remove, S!FanOut, S!Interested
<1>3. CopiesStay
  BY <1>0, <1>a DEF CopiesStay, Taken, OthersStay, S!home, S!mirror, S!Runs, S!KickMember, S!Remove, S!FanOut, S!Interested
<1> QED
  BY <1>0, <1>1, <1>2, <1>3, <1>4, CopiesAreKept DEF Mirror

LEMMA SpaceCreateBanStep ==
  ASSUME Mirror, NEW u \in Fan, S!CreateBan(u)
  PROVE  Mirror'
<1>0. S!TypeOK /\ MovesKnown /\ WritesName /\ MirrorShape /\ Copies
  BY DEF Mirror
<1>1. S!TypeOK'
  BY <1>0, <1>0 DEF S!TypeOK, RequestTable, S!home, S!mirror, S!Runs, S!CreateBan
<1>2. MovesKnown'
  BY <1>0, <1>0 DEF MovesKnown, Moving, OthersStay, S!home, S!mirror, S!Runs, S!CreateBan
<1>4. WritesName'
  BY <1>0, <1>0 DEF WritesName, S!Writes, OthersStay, S!home, S!mirror, S!Runs, S!CreateBan
<1>3. CopiesStay
  BY <1>0, <1>0 DEF CopiesStay, Taken, OthersStay, S!home, S!mirror, S!Runs, S!CreateBan
<1> QED
  BY <1>0, <1>1, <1>2, <1>3, <1>4, CopiesAreKept DEF Mirror

LEMMA SpaceInitiateJoinStep ==
  ASSUME Mirror, NEW q \in Call, NEW u \in Fan, S!InitiateJoin(q, u)
  PROVE  Mirror'
<1>0. S!TypeOK /\ MovesKnown /\ WritesName /\ MirrorShape /\ Copies
  BY DEF Mirror
<1>a. /\ requests' \in RequestTable /\ OthersStay(q)
      /\ requests[q] = NoRequest /\ requests'[q] # NoRequest
      /\ requests'[q].who = u /\ requests'[q].what = "join"
      /\ requests'[q].stage = "sent" /\ requests'[q].awaited
  BY <1>0, SendEffect DEF S!InitiateJoin, RequestKinds
<1>b. /\ u \in broken' \/ \A r \in Call : ~Moving(r, u)
      /\ broken \subseteq broken' /\ broken' \subseteq broken \cup {u}
  BY DEF S!InitiateJoin, S!Crossing, S!Moves, Moving
<1>1. S!TypeOK'
  BY <1>0, <1>a, <1>b DEF S!TypeOK, RequestTable, S!home, S!mirror, S!Runs, S!InitiateJoin
<1>2. MovesKnown'
  BY <1>0, <1>a, <1>b DEF MovesKnown, Moving, OthersStay, S!home, S!mirror, S!Runs, S!InitiateJoin
<1>4. WritesName'
  BY <1>0, <1>a, <1>b DEF WritesName, S!Writes, OthersStay, S!home, S!mirror, S!Runs, S!InitiateJoin
<1>3. CopiesStay
  BY <1>0, <1>a, <1>b DEF CopiesStay, Taken, OthersStay, S!home, S!mirror, S!Runs, S!InitiateJoin
<1> QED
  BY <1>0, <1>1, <1>2, <1>3, <1>4, CopiesAreKept DEF Mirror

LEMMA SpaceForwardLeaveStep ==
  ASSUME Mirror, NEW q \in Call, NEW u \in Fan, S!ForwardLeave(q, u)
  PROVE  Mirror'
<1>0. S!TypeOK /\ MovesKnown /\ WritesName /\ MirrorShape /\ Copies
  BY DEF Mirror
<1>a. /\ requests' \in RequestTable /\ OthersStay(q)
      /\ requests[q] = NoRequest /\ requests'[q] # NoRequest
      /\ requests'[q].who = u /\ requests'[q].what = "leave"
      /\ requests'[q].stage = "sent" /\ requests'[q].awaited
  BY <1>0, SendEffect DEF S!ForwardLeave, RequestKinds
<1>b. /\ u \in broken' \/ \A r \in Call : ~Moving(r, u)
      /\ broken \subseteq broken' /\ broken' \subseteq broken \cup {u}
  BY DEF S!ForwardLeave, S!Crossing, S!Moves, Moving
<1>1. S!TypeOK'
  BY <1>0, <1>a, <1>b DEF S!TypeOK, RequestTable, S!home, S!mirror, S!Runs, S!ForwardLeave
<1>2. MovesKnown'
  BY <1>0, <1>a, <1>b DEF MovesKnown, Moving, OthersStay, S!home, S!mirror, S!Runs, S!ForwardLeave
<1>4. WritesName'
  BY <1>0, <1>a, <1>b DEF WritesName, S!Writes, OthersStay, S!home, S!mirror, S!Runs, S!ForwardLeave
<1>3. CopiesStay
  BY <1>0, <1>a, <1>b DEF CopiesStay, Taken, OthersStay, S!home, S!mirror, S!Runs, S!ForwardLeave
<1> QED
  BY <1>0, <1>1, <1>2, <1>3, <1>4, CopiesAreKept DEF Mirror

LEMMA SpaceForwardWriteStep ==
  ASSUME Mirror, NEW q \in Call, NEW u \in Fan, NEW what \in S!Writes, NEW i \in Item, S!ForwardWrite(q, u, what, i)
  PROVE  Mirror'
<1>0. S!TypeOK /\ MovesKnown /\ WritesName /\ MirrorShape /\ Copies
  BY DEF Mirror
<1>c. what \in RequestKinds /\ what \notin {"join", "leave"}
  BY DEF S!Writes, RequestKinds
<1>a. /\ requests' \in RequestTable /\ OthersStay(q)
      /\ requests[q] = NoRequest /\ requests'[q] # NoRequest
      /\ requests'[q].who = u /\ requests'[q].what = what /\ requests'[q].of = i
      /\ requests'[q].stage = "sent" /\ requests'[q].awaited
  BY <1>0, <1>c, SendEffect DEF S!ForwardWrite
<1>1. S!TypeOK'
  BY <1>0, <1>a, <1>c DEF S!TypeOK, RequestTable, S!home, S!mirror, S!Runs, S!ForwardWrite
<1>2. MovesKnown'
  BY <1>0, <1>a, <1>c DEF MovesKnown, Moving, OthersStay, S!home, S!mirror, S!Runs, S!ForwardWrite
<1>4. WritesName'
  BY <1>0, <1>a, <1>c DEF WritesName, S!Writes, OthersStay, S!home, S!mirror, S!Runs, S!ForwardWrite
<1>3. CopiesStay
  BY <1>0, <1>a, <1>c DEF CopiesStay, Taken, OthersStay, S!home, S!mirror, S!Runs, S!ForwardWrite
<1> QED
  BY <1>0, <1>1, <1>2, <1>3, <1>4, CopiesAreKept DEF Mirror

LEMMA SpaceRefuseStep ==
  ASSUME Mirror, NEW q \in Call, S!Refuse(q)
  PROVE  Mirror'
<1>0. S!TypeOK /\ MovesKnown /\ WritesName /\ MirrorShape /\ Copies
  BY DEF Mirror
<1>a. requests[q] # NoRequest
  BY DEF S!Refuse, S!Runs
<1>b. /\ requests[q].who \in Fan /\ requests[q].what \in RequestKinds
      /\ requests[q].stage \in RequestStages /\ requests[q].awaited \in BOOLEAN
  BY <1>0, <1>a, RequestTypes
<1>c. requests' \in RequestTable /\ OthersStay(q) /\ requests'[q] = NoRequest
  BY <1>0, EndEffect DEF S!Refuse
<1>1. S!TypeOK'
  BY <1>0, <1>a, <1>b, <1>c DEF S!TypeOK, RequestTable, S!home, S!mirror, S!Runs, S!Refuse
<1>2. MovesKnown'
  BY <1>0, <1>a, <1>b, <1>c DEF MovesKnown, Moving, OthersStay, S!home, S!mirror, S!Runs, S!Refuse
<1>4. WritesName'
  BY <1>0, <1>a, <1>b, <1>c DEF WritesName, S!Writes, OthersStay, S!home, S!mirror, S!Runs, S!Refuse
<1>3. CopiesStay
  BY <1>0, <1>a, <1>b, <1>c DEF CopiesStay, Taken, OthersStay, S!home, S!mirror, S!Runs, S!Refuse
<1> QED
  BY <1>0, <1>1, <1>2, <1>3, <1>4, CopiesAreKept DEF Mirror

LEMMA SpaceUnheardStep ==
  ASSUME Mirror, NEW q \in Call, S!Unheard(q)
  PROVE  Mirror'
<1>0. S!TypeOK /\ MovesKnown /\ WritesName /\ MirrorShape /\ Copies
  BY DEF Mirror
<1>a. requests[q] # NoRequest
  BY DEF S!Unheard, S!Runs
<1>b. /\ requests[q].who \in Fan /\ requests[q].what \in RequestKinds
      /\ requests[q].stage \in RequestStages /\ requests[q].awaited \in BOOLEAN
  BY <1>0, <1>a, RequestTypes
<1>c. requests' \in RequestTable /\ OthersStay(q) /\ requests'[q] = NoRequest
  BY <1>0, EndEffect DEF S!Unheard
<1>1. S!TypeOK'
  BY <1>0, <1>a, <1>b, <1>c DEF S!TypeOK, RequestTable, S!home, S!mirror, S!Runs, S!Unheard
<1>2. MovesKnown'
  BY <1>0, <1>a, <1>b, <1>c DEF MovesKnown, Moving, OthersStay, S!home, S!mirror, S!Runs, S!Unheard
<1>4. WritesName'
  BY <1>0, <1>a, <1>b, <1>c DEF WritesName, S!Writes, OthersStay, S!home, S!mirror, S!Runs, S!Unheard
<1>3. CopiesStay
  BY <1>0, <1>a, <1>b, <1>c DEF CopiesStay, Taken, OthersStay, S!home, S!mirror, S!Runs, S!Unheard
<1> QED
  BY <1>0, <1>1, <1>2, <1>3, <1>4, CopiesAreKept DEF Mirror

LEMMA SpaceFinishLeaveStep ==
  ASSUME Mirror, NEW q \in Call, S!FinishLeave(q)
  PROVE  Mirror'
<1>0. S!TypeOK /\ MovesKnown /\ WritesName /\ MirrorShape /\ Copies
  BY DEF Mirror
<1>a. requests[q] # NoRequest
  BY DEF S!FinishLeave, S!Runs
<1>b. /\ requests[q].who \in Fan /\ requests[q].what \in RequestKinds
      /\ requests[q].stage \in RequestStages /\ requests[q].awaited \in BOOLEAN
  BY <1>0, <1>a, RequestTypes
<1>c. requests' \in RequestTable /\ OthersStay(q) /\ requests'[q] = NoRequest
  BY <1>0, EndEffect DEF S!FinishLeave
<1>1. S!TypeOK'
  BY <1>0, <1>a, <1>b, <1>c DEF S!TypeOK, RequestTable, S!home, S!mirror, S!Runs, S!FinishLeave
<1>2. MovesKnown'
  BY <1>0, <1>a, <1>b, <1>c DEF MovesKnown, Moving, OthersStay, S!home, S!mirror, S!Runs, S!FinishLeave
<1>4. WritesName'
  BY <1>0, <1>a, <1>b, <1>c DEF WritesName, S!Writes, OthersStay, S!home, S!mirror, S!Runs, S!FinishLeave
<1>3. CopiesStay
  BY <1>0, <1>a, <1>b, <1>c DEF CopiesStay, Taken, OthersStay, S!home, S!mirror, S!Runs, S!FinishLeave
<1> QED
  BY <1>0, <1>1, <1>2, <1>3, <1>4, CopiesAreKept DEF Mirror

LEMMA SpaceServeJoinStep ==
  ASSUME Mirror, NEW q \in Call, S!ServeJoin(q)
  PROVE  Mirror'
<1>0. S!TypeOK /\ MovesKnown /\ WritesName /\ MirrorShape /\ Copies
  BY DEF Mirror
<1>a. requests[q] # NoRequest
  BY DEF S!ServeJoin, S!Runs
<1>b. /\ requests[q].who \in Fan /\ requests[q].what \in RequestKinds
      /\ requests[q].stage \in RequestStages /\ requests[q].awaited \in BOOLEAN
  BY <1>0, <1>a, RequestTypes
<1>c. /\ requests' \in RequestTable /\ OthersStay(q) /\ requests'[q] # NoRequest
      /\ requests'[q].who = requests[q].who /\ requests'[q].what = requests[q].what
      /\ requests'[q].stage = "admitted" /\ requests'[q].awaited = requests[q].awaited
      /\ requests'[q].snapshot = requests[q].snapshot
      /\ requests'[q].taken = requests[q].taken
  BY <1>0, <1>a, GotoEffect DEF S!ServeJoin, RequestStages
<1>d. /\ broken' \subseteq broken
      /\ \A u \in broken \ broken' : /\ u = requests[q].who /\ requests[q].awaited
                                     /\ \A r \in Call : Moving(r, u) => r = q
  BY DEF S!ServeJoin, S!Mend, S!Moves, Moving
<1>1. S!TypeOK'
  BY <1>0, <1>a, <1>b, <1>c, <1>d DEF S!TypeOK, RequestTable, S!home, S!mirror, S!Runs, S!ServeJoin
<1>2. MovesKnown'
  BY <1>0, <1>a, <1>b, <1>c, <1>d DEF MovesKnown, Moving, OthersStay, S!home, S!mirror, S!Runs, S!ServeJoin
<1>4. WritesName'
  BY <1>0, <1>a, <1>b, <1>c, <1>d DEF WritesName, S!Writes, OthersStay, S!home, S!mirror, S!Runs, S!ServeJoin
<1>3. CopiesStay
  BY <1>0, <1>a, <1>b, <1>c, <1>d DEF CopiesStay, Taken, OthersStay, S!home, S!mirror, S!Runs, S!ServeJoin
<1> QED
  BY <1>0, <1>1, <1>2, <1>3, <1>4, CopiesAreKept DEF Mirror

LEMMA SpaceServeLeaveStep ==
  ASSUME Mirror, NEW q \in Call, S!ServeLeave(q)
  PROVE  Mirror'
<1>0. S!TypeOK /\ MovesKnown /\ WritesName /\ MirrorShape /\ Copies
  BY DEF Mirror
<1>a. requests[q] # NoRequest
  BY DEF S!ServeLeave, S!Runs
<1>b. /\ requests[q].who \in Fan /\ requests[q].what \in RequestKinds
      /\ requests[q].stage \in RequestStages /\ requests[q].awaited \in BOOLEAN
  BY <1>0, <1>a, RequestTypes
<1>c. /\ requests' \in RequestTable /\ OthersStay(q) /\ requests'[q] # NoRequest
      /\ requests'[q].who = requests[q].who /\ requests'[q].what = requests[q].what
      /\ requests'[q].stage = "done" /\ requests'[q].awaited = requests[q].awaited
      /\ requests'[q].snapshot = requests[q].snapshot
      /\ requests'[q].taken = requests[q].taken
  BY <1>0, <1>a, GotoEffect DEF S!ServeLeave, RequestStages
<1>d. /\ broken' \subseteq broken
      /\ \A u \in broken \ broken' : /\ u = requests[q].who /\ requests[q].awaited
                                     /\ \A r \in Call : Moving(r, u) => r = q
  BY DEF S!ServeLeave, S!Mend, S!Moves, Moving
<1>e. [what |-> "leave", of |-> S!Qualified(requests[q].who)] \in S!Event
  BY <1>b, LeaveIsEvent
<1>1. S!TypeOK'
  BY <1>0, <1>a, <1>b, <1>c, <1>d, <1>e DEF S!TypeOK, RequestTable, S!home, S!mirror, S!Runs, S!ServeLeave, S!Remove, S!FanOut, S!Interested
<1>2. MovesKnown'
  BY <1>0, <1>a, <1>b, <1>c, <1>d, <1>e DEF MovesKnown, Moving, OthersStay, S!home, S!mirror, S!Runs, S!ServeLeave, S!Remove, S!FanOut, S!Interested
<1>4. WritesName'
  BY <1>0, <1>a, <1>b, <1>c, <1>d, <1>e DEF WritesName, S!Writes, OthersStay, S!home, S!mirror, S!Runs, S!ServeLeave, S!Remove, S!FanOut, S!Interested
<1>3. CopiesStay
  BY <1>0, <1>a, <1>b, <1>c, <1>d, <1>e DEF CopiesStay, Taken, OthersStay, S!home, S!mirror, S!Runs, S!ServeLeave, S!Remove, S!FanOut, S!Interested
<1> QED
  BY <1>0, <1>1, <1>2, <1>3, <1>4, CopiesAreKept DEF Mirror

LEMMA SpaceGiveUpStep ==
  ASSUME Mirror, NEW q \in Call, S!GiveUp(q)
  PROVE  Mirror'
<1>0. S!TypeOK /\ MovesKnown /\ WritesName /\ MirrorShape /\ Copies
  BY DEF Mirror
<1>a. /\ requests' \in RequestTable /\ OthersStay(q)
      /\ requests[q] # NoRequest /\ requests'[q] # NoRequest
      /\ requests'[q].who = requests[q].who /\ requests'[q].what = requests[q].what
      /\ requests'[q].stage = requests[q].stage
      /\ requests'[q].snapshot = requests[q].snapshot
      /\ requests'[q].taken = requests[q].taken
  BY <1>0, GiveUpEffect
<1>b. /\ requests[q].who \in Fan /\ requests[q].what \in RequestKinds
      /\ requests[q].stage \in RequestStages /\ requests[q].awaited \in BOOLEAN
  BY <1>0, <1>a, RequestTypes
<1>1. S!TypeOK'
  BY <1>0, <1>a, <1>b DEF S!TypeOK, RequestTable, S!home, S!mirror, S!Runs, S!GiveUp
<1>2. MovesKnown'
  BY <1>0, <1>a, <1>b DEF MovesKnown, Moving, OthersStay, S!home, S!mirror, S!Runs, S!GiveUp
<1>4. WritesName'
  BY <1>0, <1>a, <1>b DEF WritesName, S!Writes, OthersStay, S!home, S!mirror, S!Runs, S!GiveUp
<1>3. CopiesStay
  BY <1>0, <1>a, <1>b DEF CopiesStay, Taken, OthersStay, S!home, S!mirror, S!Runs, S!GiveUp
<1> QED
  BY <1>0, <1>1, <1>2, <1>3, <1>4, CopiesAreKept DEF Mirror

LEMMA SpaceApplyMemberLeaveStep ==
  ASSUME Mirror, NEW e \in events, S!ApplyMemberLeave(e)
  PROVE  Mirror'
<1>0. S!TypeOK /\ MovesKnown /\ WritesName /\ MirrorShape /\ Copies
  BY DEF Mirror
<1>a. rows' = rows
  <2>1. e.of \in {S!Qualified(u) : u \in Fan}
    BY <1>0 DEF S!TypeOK, S!Event, S!ApplyMemberLeave
  <2>2. e.of \notin Fan
    BY <2>1, ItemsAssumption
  <2> QED
    BY <1>0, <2>2 DEF S!TypeOK, S!ApplyMemberLeave
<1>b. /\ events' = events \ {e} /\ e.what = "leave"
      /\ UNCHANGED <<members, content, made, clock, mirrored, copy, requests, seen, apart, broken>>
  BY DEF S!ApplyMemberLeave, S!home
<1>1. S!TypeOK'
  BY <1>0, <1>a, <1>b DEF S!TypeOK, RequestTable, S!home, S!mirror, S!Runs
<1>2. MovesKnown'
  BY <1>0, <1>a, <1>b DEF MovesKnown, Moving, OthersStay, S!home, S!mirror, S!Runs
<1>4. WritesName'
  BY <1>0, <1>a, <1>b DEF WritesName, S!Writes, OthersStay, S!home, S!mirror, S!Runs
<1>3. CopiesStay
  BY <1>0, <1>a, <1>b DEF CopiesStay, Taken, OthersStay, S!home, S!mirror, S!Runs
<1> QED
  BY <1>0, <1>1, <1>2, <1>3, <1>4, CopiesAreKept DEF Mirror

-----------------------------------------------------------------------------
(* The snapshot is taken and applied.                                      *)

LEMMA SpaceBuildSnapshotStep ==
  ASSUME Mirror, NEW q \in Call, S!BuildSnapshot(q)
  PROVE  Mirror'
<1>0. S!TypeOK /\ MovesKnown /\ WritesName /\ MirrorShape /\ Copies
  BY DEF Mirror
<1>a. /\ requests' \in RequestTable /\ OthersStay(q)
      /\ requests[q] # NoRequest /\ requests'[q] # NoRequest
      /\ requests'[q].who = requests[q].who /\ requests'[q].what = requests[q].what
      /\ requests'[q].stage = "done" /\ requests'[q].awaited = requests[q].awaited
      /\ requests'[q].taken = clock
      /\ \A i \in Item : requests'[q].snapshot[i] = IF Lasting(i) THEN content[i] ELSE 0
  BY <1>0, BuildEffect
<1>b. /\ requests[q].stage = "admitted" /\ clock \in 0..MaxClock /\ MaxClock \in Nat
      /\ UNCHANGED <<members, content, made, clock, events, mirrored, copy, rows, seen, apart, broken>>
  BY <1>0, ItemsAssumption DEF S!BuildSnapshot, S!Runs, S!home, S!mirror, S!TypeOK
<1>1. S!TypeOK'
  BY <1>0, <1>a, <1>b DEF S!TypeOK, RequestTable
<1>2. MovesKnown'
  BY <1>0, <1>a, <1>b DEF MovesKnown, Moving, OthersStay
<1>3. MirrorShape'
  BY <1>0, <1>a, <1>b DEF MirrorShape, Taken, OthersStay
<1>4. \A i \in Item : S!About(i)' = S!About(i)
  BY <1>b DEF S!About, S!Touched, S!Marks, S!Of
<1>5. ASSUME NEW i \in Item, NEW last \in 0..clock, NEW born \in 0..clock,
             ItemFacts(i, last, born)
      PROVE  ItemFacts(i, last, born)'
  <2>1. ToldOf(i, last)'
    BY <1>b, <1>4, <1>5 DEF ItemFacts, ToldOf, EventValue, Lasting
  <2>2. Lasting(i) => LastingFacts(i, last, born)'
    <3> SUFFICES ASSUME Lasting(i) PROVE LastingFacts(i, last, born)'
      OBVIOUS
    <3>1. /\ WrittenBetween(i, copy[i], last, born)'
          /\ WrittenBetween(i, content[i], last, born)'
      BY <1>b, <1>5 DEF ItemFacts, LastingFacts, WrittenBetween
    <3>2. ASSUME NEW r \in Call, Taken(r)'
          PROVE  /\ WrittenBetween(i, requests[r].snapshot[i], last, born)'
                 /\ last <= requests'[r].taken => requests'[r].snapshot[i] = content'[i]
      <4>1. CASE r = q
        BY <1>a, <1>b, <3>1, <4>1
      <4>2. CASE r # q
        <5>1. requests'[r] = requests[r] /\ Taken(r)
          BY <1>a, <3>2, <4>2 DEF OthersStay, Taken
        <5> QED
          BY <1>b, <1>5, <5>1 DEF ItemFacts, LastingFacts, WrittenBetween
      <4> QED
        BY <4>1, <4>2
    <3> QED
      BY <1>b, <1>4, <1>5, <3>1, <3>2 DEF ItemFacts, LastingFacts
  <2> QED
    BY <1>5, <2>1, <2>2 DEF ItemFacts, Lasting
<1>6. Copies'
  BY <1>0, <1>b, <1>5 DEF Copies
<1>7. WritesName'
  BY <1>0, <1>a DEF WritesName, S!Writes, OthersStay, S!BuildSnapshot, S!Runs
<1> QED
  BY <1>1, <1>2, <1>3, <1>6, <1>7 DEF Mirror

\* Rows the snapshot of q holds are stored.
SnapshotInserted(q, new) ==
  /\ Taken(q)
  /\ \A i \in new : i \in Item /\ Lasting(i) /\ requests[q].snapshot[i] # 0
  /\ S!Insert(requests[q].snapshot, requests[q].taken, new)
  /\ mirrored'
  /\ UNCHANGED <<members, content, made, clock, events, broken>>
  /\ \A r \in Call : Taken(r)' =>
       /\ Taken(r)
       /\ requests'[r].snapshot = requests[r].snapshot
       /\ requests'[r].taken = requests[r].taken

LEMMA InsertEffect ==
  ASSUME S!TypeOK, NEW q \in Call, NEW new, SnapshotInserted(q, new)
  PROVE  /\ copy' \in S!Snapshot /\ seen' \in [Item -> 0..MaxClock] /\ apart' \in SUBSET Item
         /\ requests[q].snapshot \in [Item -> 0..MaxClock] /\ requests[q].taken \in 0..MaxClock
         /\ \A i \in Item :
              IF i \in new
              THEN /\ copy'[i] = requests[q].snapshot[i]
                   /\ seen'[i] = S!Later(seen[i], requests[q].taken)
                   /\ (i \in apart' <=> requests[q].taken < seen[i])
              ELSE /\ copy'[i] = copy[i] /\ seen'[i] = seen[i] /\ (i \in apart' <=> i \in apart)
<1>1. requests[q].snapshot \in [Item -> 0..MaxClock] /\ requests[q].taken \in 0..MaxClock
  BY RequestTypes DEF SnapshotInserted, Taken
<1> QED
  BY <1>1, ItemsAssumption DEF S!TypeOK, SnapshotInserted, S!Insert, S!Saw, S!Later, S!Snapshot

LEMMA InsertKeeps ==
  ASSUME S!TypeOK, MirrorShape, Copies, NEW q \in Call, NEW new, SnapshotInserted(q, new)
  PROVE  MirrorShape' /\ Copies'
<1>0. MaxClock \in Nat /\ clock \in 0..MaxClock /\ seen \in [Item -> 0..MaxClock] /\ Taken(q)
  BY ItemsAssumption DEF S!TypeOK, SnapshotInserted
<1>1. /\ requests[q].snapshot \in [Item -> 0..MaxClock] /\ requests[q].taken \in 0..MaxClock
      /\ copy \in [Item -> 0..MaxClock] /\ requests[q].taken <= clock
  BY <1>0, InsertEffect DEF MirrorShape, S!TypeOK, S!Snapshot
<1>2. \A i \in Item :
        IF i \in new
        THEN /\ copy'[i] = requests[q].snapshot[i] /\ copy'[i] # 0 /\ Lasting(i)
             /\ seen'[i] = S!Later(seen[i], requests[q].taken)
             /\ (i \in apart' <=> requests[q].taken < seen[i])
        ELSE /\ copy'[i] = copy[i] /\ seen'[i] = seen[i] /\ (i \in apart' <=> i \in apart)
  BY InsertEffect DEF SnapshotInserted
<1>3. /\ mirrored' /\ UNCHANGED <<members, content, made, clock, events, broken>>
      /\ \A r \in Call : Taken(r)' => /\ Taken(r)
                                      /\ requests'[r].snapshot = requests[r].snapshot
                                      /\ requests'[r].taken = requests[r].taken
  BY DEF SnapshotInserted
<1>4. \A i \in Item : S!About(i)' = S!About(i)
  BY <1>3 DEF S!About, S!Touched, S!Marks, S!Of
<1>5. MirrorShape'
  <2>1. \A i \in Item : seen'[i] <= clock
    BY <1>0, <1>1, <1>2 DEF MirrorShape, S!Later
  <2>2. \A i \in Item : Sort[i] = "reaction" /\ copy'[On[i]] = 0 => copy'[i] = 0
    BY <1>2, ItemsAssumption DEF MirrorShape, Lasting
  <2> QED
    BY <1>3, <2>1, <2>2 DEF MirrorShape
<1>6. ASSUME NEW i \in Item, NEW last \in 0..clock, NEW born \in 0..clock,
             ItemFacts(i, last, born)
      PROVE  ItemFacts(i, last, born)'
  <2>1. CASE i \in new
    <3>1. Lasting(i) /\ ToldOf(i, last) /\ LastingFacts(i, last, born) /\ born <= last
      BY <1>2, <1>6, <2>1 DEF ItemFacts
    <3>2. seen[i] \in 0..MaxClock
      BY <1>0
    <3>3. /\ copy'[i] = requests[q].snapshot[i] /\ copy'[i] # 0
          /\ seen'[i] = IF seen[i] < requests[q].taken THEN requests[q].taken ELSE seen[i]
          /\ (i \in apart' <=> requests[q].taken < seen[i])
      BY <1>2, <2>1 DEF S!Later
    <3>4. /\ last <= requests[q].taken => requests[q].snapshot[i] = content[i]
          /\ WrittenBetween(i, requests[q].snapshot[i], last, born)
      BY <1>0, <3>1 DEF LastingFacts
    <3>5. ToldOf(i, last)'
      <4>1. \A e \in S!About(i)' : e.at <= last /\ (e.at = last => content'[i] = EventValue(e, i)')
        BY <1>3, <1>4, <3>1 DEF ToldOf, EventValue, Lasting
      <4>2. seen'[i] < last => \E e \in S!About(i)' : e.at = last
        BY <1>0, <1>1, <1>4, <3>1, <3>2, <3>3 DEF ToldOf
      <4>3. i \in apart' \/ seen'[i] < last \/ copy'[i] = content'[i]
        BY <1>0, <1>1, <1>3, <3>2, <3>3, <3>4
      <4> QED
        BY <4>1, <4>2, <4>3 DEF ToldOf
    <3>6. LastingFacts(i, last, born)'
      <4>1. WrittenBetween(i, copy[i], last, born)'
        BY <1>3, <3>3, <3>4 DEF WrittenBetween
      <4>2. \A r \in Call : Taken(r)' =>
              /\ WrittenBetween(i, requests[r].snapshot[i], last, born)'
              /\ last <= requests'[r].taken => requests'[r].snapshot[i] = content'[i]
        BY <1>3, <3>1 DEF LastingFacts, WrittenBetween
      <4> QED
        BY <1>3, <1>4, <3>1, <3>3, <4>1, <4>2 DEF LastingFacts
    <3> QED
      BY <3>1, <3>5, <3>6 DEF ItemFacts
  <2>2. CASE i \notin new
    <3>1. copy'[i] = copy[i] /\ seen'[i] = seen[i] /\ (i \in apart' <=> i \in apart)
      BY <1>2, <2>2
    <3>2. ToldOf(i, last)'
      BY <1>3, <1>4, <1>6, <3>1 DEF ItemFacts, ToldOf, EventValue, Lasting
    <3>3. Lasting(i) => LastingFacts(i, last, born)'
      BY <1>3, <1>4, <1>6, <3>1 DEF ItemFacts, LastingFacts, WrittenBetween
    <3> QED
      BY <1>6, <3>2, <3>3 DEF ItemFacts, Lasting
  <2> QED
    BY <2>1, <2>2
<1>7. Copies'
  BY <1>3, <1>6 DEF Copies
<1> QED
  BY <1>5, <1>7

LEMMA SpaceApplySpaceStep ==
  ASSUME Mirror, NEW q \in Call, S!ApplySpace(q)
  PROVE  Mirror'
<1>0. S!TypeOK /\ MovesKnown /\ WritesName /\ MirrorShape /\ Copies
  BY DEF Mirror
<1> DEFINE new == {i \in S!Of("emoji") : requests[q].snapshot[i] # 0}
<1>a. /\ requests[q] # NoRequest /\ requests[q].what = "join" /\ requests[q].stage = "done"
      /\ requests[q].awaited
  BY DEF S!ApplySpace, S!Runs
<1>b. /\ requests' \in RequestTable /\ OthersStay(q) /\ requests'[q] # NoRequest
      /\ requests'[q].who = requests[q].who /\ requests'[q].what = requests[q].what
      /\ requests'[q].stage = "applying" /\ requests'[q].awaited = requests[q].awaited
      /\ requests'[q].snapshot = requests[q].snapshot
      /\ requests'[q].taken = requests[q].taken
  BY <1>0, <1>a, GotoEffect DEF S!ApplySpace, RequestStages
<1>c. SnapshotInserted(q, new)
  BY <1>a, <1>b DEF S!ApplySpace, SnapshotInserted, Taken, Lasting, S!Of, OthersStay, S!home
<1>d. copy' \in S!Snapshot /\ seen' \in [Item -> 0..MaxClock] /\ apart' \in SUBSET Item
  BY <1>0, <1>c, InsertEffect
<1>1. S!TypeOK'
  BY <1>0, <1>b, <1>d DEF S!TypeOK, RequestTable, S!ApplySpace, S!home
<1>2. MovesKnown'
  <2>1. UNCHANGED <<members, rows, broken>>
    BY DEF S!ApplySpace, S!home
  <2> QED
    <3>1. \A r \in Call, u \in Fan : Moving(r, u)' <=> Moving(r, u)
      BY <1>a, <1>b DEF Moving, OthersStay
    <3>2. \A r \in Call : /\ requests'[r].awaited = requests[r].awaited
                          /\ requests'[r].what = requests[r].what
                          /\ requests'[r].stage = "sent" <=> requests[r].stage = "sent"
      BY <1>a, <1>b DEF OthersStay
    <3> QED
      BY <1>0, <2>1, <3>1, <3>2 DEF MovesKnown
<1>3. WritesName'
  BY <1>0, <1>a, <1>b DEF WritesName, S!Writes, OthersStay
<1> QED
  BY <1>0, <1>1, <1>2, <1>3, <1>c, InsertKeeps DEF Mirror

LEMMA SpaceApplyMessagesStep ==
  ASSUME Mirror, NEW q \in Call, S!ApplyMessages(q)
  PROVE  Mirror'
<1>0. S!TypeOK /\ MovesKnown /\ WritesName /\ MirrorShape /\ Copies
  BY DEF Mirror
<1> DEFINE new == {i \in S!Of("message") : requests[q].snapshot[i] # 0 /\ copy[i] = 0}
<1>a. /\ requests[q] # NoRequest /\ requests[q].what = "join" /\ requests[q].stage = "applying"
      /\ mirrored /\ requests[q].who \in Fan
  BY <1>0, RequestTypes DEF S!ApplyMessages, S!Runs, MirrorShape, Taken
<1>b. requests' \in RequestTable /\ OthersStay(q) /\ requests'[q] = NoRequest
  BY <1>0, EndEffect DEF S!ApplyMessages
<1>c. SnapshotInserted(q, new)
  BY <1>a, <1>b DEF S!ApplyMessages, SnapshotInserted, Taken, Lasting, S!Of, OthersStay, S!home
<1>d. copy' \in S!Snapshot /\ seen' \in [Item -> 0..MaxClock] /\ apart' \in SUBSET Item
  BY <1>0, <1>c, InsertEffect
<1>1. S!TypeOK'
  BY <1>0, <1>a, <1>b, <1>d DEF S!TypeOK, RequestTable, S!ApplyMessages, S!home
<1>2. MovesKnown'
  BY <1>0, <1>a, <1>b DEF MovesKnown, Moving, OthersStay, S!ApplyMessages, S!home
<1>3. WritesName'
  BY <1>0, <1>a, <1>b DEF WritesName, S!Writes, OthersStay
<1> QED
  BY <1>0, <1>1, <1>2, <1>3, <1>c, InsertKeeps DEF Mirror

-----------------------------------------------------------------------------
(* The home writes.                                                        *)

\* A change of i is one of j as well.
Goes(what, i, j) == j = i \/ (what = "delete" /\ Sort[j] = "reaction" /\ On[j] = i)
HomeWrote(what, i) ==
  /\ what \in {"create", "update", "delete"}
  /\ clock < MaxClock /\ clock' = clock + 1
  /\ \A j \in Item : content'[j] = IF ~Goes(what, i, j) THEN content[j]
                                   ELSE IF what = "delete" THEN 0
                                   ELSE IF Lasting(j) THEN clock + 1 ELSE 1
  /\ made' = made \cup {i}
  /\ Lasting(i) => IF what = "create" THEN i \notin made ELSE content[i] # 0
  /\ UNCHANGED <<mirrored, copy>>
  /\ \A r \in Call : Taken(r)' => /\ Taken(r)
                                  /\ requests'[r] = requests[r]
  /\ \/ /\ events' = events \cup {[what |-> what, of |-> i, at |-> clock + 1]}
        /\ UNCHANGED <<seen, apart>>
     \/ /\ events' = events
        /\ \A j \in Item : /\ (j \in apart' <=> j \in apart \/ Goes(what, i, j))
                           /\ seen'[j] = IF Goes(what, i, j) THEN clock + 1 ELSE seen[j]

LEMMA WroteKeeps ==
  ASSUME S!TypeOK, MirrorShape, Copies, NEW i \in Item, NEW what, HomeWrote(what, i)
  PROVE  MirrorShape' /\ Copies'
<1>0. /\ MaxClock \in Nat /\ clock \in Nat /\ seen \in [Item -> 0..MaxClock]
      /\ clock' = clock + 1 /\ what \in {"create", "update", "delete"}
      /\ UNCHANGED <<mirrored, copy>> /\ made' = made \cup {i}
      /\ \A r \in Call : Taken(r)' => Taken(r) /\ requests'[r] = requests[r]
      /\ \A r \in Call : Taken(r) => requests[r].taken \in Nat /\ requests[r].taken <= clock
  BY RequestTypes, ItemsAssumption DEF S!TypeOK, HomeWrote, MirrorShape, Taken
<1>a. PICK new : new = [what |-> what, of |-> i, at |-> clock + 1]
  OBVIOUS
<1>1. new.what = what /\ new.of = i /\ new.at = clock + 1
      /\ new = [what |-> what, of |-> i, at |-> clock + 1]
  BY <1>a
<1>2. \A j \in Item :
        IF Goes(what, i, j)
        THEN \/ seen'[j] = seen[j] /\ new \in events' /\ (j \in apart' <=> j \in apart)
             \/ seen'[j] = clock + 1 /\ events' = events /\ j \in apart'
        ELSE seen'[j] = seen[j] /\ (j \in apart' <=> j \in apart)
  BY <1>1 DEF HomeWrote
<1>3. MirrorShape'
  <2>1. \A j \in Item : seen'[j] <= clock'
    BY <1>0, <1>2 DEF MirrorShape
  <2> QED
    BY <1>0, <2>1 DEF MirrorShape
<1>4. \A e \in events' : e \in events \/ e = new
  BY <1>1 DEF HomeWrote
<1>5. events \subseteq events'
  BY DEF HomeWrote
<1>6. ASSUME NEW j \in Item, NEW last \in 0..clock, NEW born \in 0..clock,
             ItemFacts(j, last, born)
      PROVE  \E l, b \in 0..clock' : ItemFacts(j, l, b)'
  <2>0. last \in Nat /\ born \in Nat /\ last <= clock /\ born <= last
        /\ ToldOf(j, last) /\ (Lasting(j) => LastingFacts(j, last, born))
    BY <1>0, <1>6 DEF ItemFacts
  <2>1. \A e \in S!About(j) : e \in S!About(j)' /\ e.at \in Nat /\ e.at <= clock
    <3>1. ASSUME NEW e \in S!About(j)
          PROVE  e \in S!About(j)'
      BY <1>5 DEF S!About, S!Touched, S!Marks, S!Of
    <3>2. ASSUME NEW e \in S!About(j)
          PROVE  e.at \in Nat /\ e.at <= clock
      <4>1. e \in events /\ e.what # "leave"
        BY AboutIs
      <4>2. e.at \in 1..MaxClock
        BY <4>1, EventTypes
      <4>3. e.at <= last
        BY <2>0 DEF ToldOf
      <4> QED
        BY <1>0, <2>0, <4>2, <4>3
    <3> QED
      BY <3>1, <3>2
  <2>2. \A e \in S!About(j)' : e \in S!About(j) \/ (e = new /\ Goes(what, i, j))
    BY <1>1, <1>4 DEF S!About, S!Touched, S!Marks, S!Of, Goes
  <2>3. new \in events' /\ Goes(what, i, j) => new \in S!About(j)'
    BY <1>0, <1>1 DEF S!About, S!Touched, S!Marks, S!Of, Goes
  <2>4. CASE ~Goes(what, i, j)
    <3>1. content'[j] = content[j] /\ seen'[j] = seen[j] /\ (j \in apart' <=> j \in apart)
          /\ (j \in made' <=> j \in made)
      BY <1>0, <1>2, <2>4 DEF HomeWrote, Goes
    <3>2. S!About(j)' = S!About(j)
      BY <2>1, <2>2, <2>4
    <3>3. ToldOf(j, last)'
      BY <1>0, <2>0, <3>1, <3>2 DEF ToldOf, EventValue, Lasting
    <3>4. Lasting(j) => LastingFacts(j, last, born)'
      BY <1>0, <2>0, <3>1, <3>2 DEF LastingFacts, WrittenBetween
    <3>5. ItemFacts(j, last, born)'
      BY <2>0, <3>3, <3>4 DEF ItemFacts, Lasting
    <3>6. last \in 0..clock' /\ born \in 0..clock'
      BY <1>0, <2>0
    <3> QED
      BY <3>5, <3>6
  <2>5. CASE Goes(what, i, j)
    <3>1. PICK l \in Nat : l = clock + 1
      BY <1>0
    <3>2. PICK b \in Nat : b = IF what = "create" THEN l ELSE born
      BY <2>0
    <3>3. content'[j] = IF what = "delete" THEN 0 ELSE IF Lasting(j) THEN l ELSE 1
      BY <2>5, <3>1 DEF HomeWrote
    <3>4. \/ seen'[j] = seen[j] /\ new \in S!About(j)' /\ (j \in apart' <=> j \in apart)
          \/ seen'[j] = l /\ S!About(j)' \subseteq S!About(j) /\ j \in apart'
      <4>1. ASSUME events' = events PROVE S!About(j)' \subseteq S!About(j)
        BY <4>1 DEF S!About, S!Touched, S!Marks, S!Of
      <4> QED
        BY <1>2, <2>3, <2>5, <3>1, <4>1
    <3>5. ToldOf(j, l)'
      <4>1. ASSUME NEW e \in S!About(j)'
            PROVE  e.at <= l /\ (e.at = l => content'[j] = EventValue(e, j)')
        <5>1. CASE e \in S!About(j)
          BY <1>0, <2>1, <3>1, <5>1
        <5>2. CASE e = new
          BY <1>0, <1>1, <3>1, <3>3, <5>2 DEF EventValue, Lasting
        <5> QED
          BY <2>2, <5>1, <5>2
      <4>2. seen'[j] < l => \E e \in S!About(j)' : e.at = l
        BY <1>0, <1>1, <3>1, <3>4
      <4>3. j \in apart' \/ seen'[j] < l
        BY <1>0, <3>1, <3>4 DEF MirrorShape
      <4> QED
        BY <4>1, <4>2, <4>3 DEF ToldOf
    <3>6. Lasting(j) => LastingFacts(j, l, b)'
      <4> SUFFICES ASSUME Lasting(j) PROVE LastingFacts(j, l, b)'
        OBVIOUS
      <4>0. j = i /\ LastingFacts(j, last, born) /\ j \in made'
        BY <1>0, <2>0, <2>5 DEF Lasting, Goes
      <4>1. IF what = "create" THEN j \notin made ELSE content[j] # 0
        BY <4>0 DEF HomeWrote
      <4>2. content'[j] # 0 => content'[j] = l /\ j \in made'
        BY <3>3, <4>0
      <4>3. ASSUME NEW e \in S!About(j)'
            PROVE  /\ j \in made'
                   /\ e.what = "create" => e.at = b
                   /\ e.what = "update" => e.at > b
                   /\ e.what = "delete" => content'[j] = 0
        <5>1. CASE e \in S!About(j)
          BY <2>0, <3>2, <4>0, <4>1, <5>1 DEF LastingFacts
        <5>2. CASE e = new
          BY <1>0, <1>1, <2>0, <3>1, <3>2, <3>3, <4>0, <5>2
        <5> QED
          BY <2>2, <5>1, <5>2
      <4>4. \A value \in 0..MaxClock :
              WrittenBetween(j, value, last, born) => WrittenBetween(j, value, l, b)'
        <5>1. l >= last /\ (j \in made => b = born)
          BY <1>0, <2>0, <3>1, <3>2, <4>1
        <5> QED
          BY <1>0, <2>0, <4>0, <5>1 DEF WrittenBetween
      <4>5. WrittenBetween(j, copy[j], l, b)'
        <5>1. copy[j] \in 0..MaxClock /\ WrittenBetween(j, copy[j], last, born) /\ copy'[j] = copy[j]
          BY <1>0, <4>0 DEF LastingFacts, S!TypeOK, S!Snapshot
        <5>2. PICK value \in 0..MaxClock : value = copy[j]
          BY <5>1
        <5>3. WrittenBetween(j, value, l, b)'
          BY <4>4, <5>1, <5>2
        <5> QED
          BY <5>1, <5>2, <5>3 DEF WrittenBetween
      <4>6. ASSUME NEW r \in Call, Taken(r)'
            PROVE  /\ WrittenBetween(j, requests[r].snapshot[j], l, b)'
                   /\ l <= requests'[r].taken => requests'[r].snapshot[j] = content'[j]
        <5>1. /\ Taken(r) /\ requests'[r] = requests[r]
              /\ requests[r].taken \in Nat /\ requests[r].taken <= clock
          BY <1>0, <4>6
        <5>2. requests[r].snapshot[j] \in 0..MaxClock
              /\ WrittenBetween(j, requests[r].snapshot[j], last, born)
          BY <4>0, <5>1, RequestTypes DEF LastingFacts, Taken
        <5>3. PICK value \in 0..MaxClock : value = requests[r].snapshot[j]
          BY <5>2
        <5>4. WrittenBetween(j, value, l, b)'
          BY <4>4, <5>2, <5>3
        <5> QED
          BY <1>0, <3>1, <5>1, <5>3, <5>4 DEF WrittenBetween
      <4>7. content'[j] # 0 /\ j \notin apart' /\ copy'[j] = 0 =>
              \E e \in S!About(j)' : e.what = "create"
        <5> SUFFICES ASSUME content'[j] # 0, j \notin apart', copy'[j] = 0
                     PROVE  \E e \in S!About(j)' : e.what = "create"
          OBVIOUS
        <5>1. new \in S!About(j)' /\ j \notin apart /\ copy[j] = 0
          BY <1>0, <3>4
        <5>2. CASE what = "create"
          BY <1>1, <5>1, <5>2
        <5>3. CASE what # "create"
          BY <2>1, <4>0, <4>1, <5>1, <5>3 DEF LastingFacts
        <5> QED
          BY <5>2, <5>3
      <4> QED
        BY <4>2, <4>3, <4>5, <4>6, <4>7 DEF LastingFacts
    <3>9. b <= l
      BY <1>0, <2>0, <3>1, <3>2
    <3>7. ItemFacts(j, l, b)'
      BY <3>5, <3>6, <3>9 DEF ItemFacts, Lasting
    <3>8. l \in 0..clock' /\ b \in 0..clock'
      BY <1>0, <2>0, <3>1, <3>2
    <3> QED
      BY <3>7, <3>8
  <2> QED
    BY <2>4, <2>5
<1>7. Copies'
  BY <1>6 DEF Copies
<1> QED
  BY <1>3, <1>7

LEMMA WithheldEffect ==
  ASSUME S!TypeOK, MirrorShape, NEW i \in Item, NEW what, S!Withhold(what, i),
         clock' = clock + 1, clock < MaxClock
  PROVE  /\ seen' \in [Item -> 0..MaxClock] /\ apart' \in SUBSET Item
         /\ \A j \in Item : /\ (j \in apart' <=> j \in apart \/ Goes(what, i, j))
                            /\ seen'[j] = IF Goes(what, i, j) THEN clock + 1 ELSE seen[j]
<1>1. \A j \in Item : j \in S!Touched(what, i) <=> Goes(what, i, j)
  BY DEF S!Touched, S!Marks, S!Of, Goes
<1>2. S!Touched(what, i) \subseteq Item
  BY DEF S!Touched, S!Marks, S!Of
<1>3. /\ MaxClock \in Nat /\ clock \in 0..MaxClock /\ seen \in [Item -> 0..MaxClock]
      /\ apart \in SUBSET Item /\ \A j \in Item : seen[j] <= clock
  BY ItemsAssumption DEF S!TypeOK, MirrorShape
<1>4. /\ apart' = apart \cup S!Touched(what, i)
      /\ seen' = [j \in Item |-> IF j \in S!Touched(what, i) THEN S!Later(seen[j], clock + 1) ELSE seen[j]]
  BY DEF S!Withhold, S!Saw
<1>5. \A j \in Item : S!Later(seen[j], clock + 1) = clock + 1
  BY <1>3 DEF S!Later
<1> QED
  BY <1>1, <1>2, <1>3, <1>4, <1>5

LEMMA ChangeWrote ==
  ASSUME S!TypeOK, MirrorShape, NEW i \in Item, NEW what \in {"create", "update", "delete"},
         S!Change(what, i), UNCHANGED <<mirrored, copy>>,
         \A r \in Call : Taken(r)' => Taken(r) /\ requests'[r] = requests[r]
  PROVE  /\ HomeWrote(what, i) /\ members' = members
         /\ content' \in S!Snapshot /\ clock' \in 0..MaxClock /\ made' \in SUBSET Item
         /\ events' \in SUBSET S!Event /\ seen' \in [Item -> 0..MaxClock]
         /\ apart' \in SUBSET Item
<1>0. /\ MaxClock \in Nat /\ clock \in 0..MaxClock /\ clock < MaxClock /\ clock' = clock + 1
      /\ content \in [Item -> 0..MaxClock] /\ seen \in [Item -> 0..MaxClock]
      /\ made' = made \cup {i} /\ members' = members
  BY ItemsAssumption DEF S!TypeOK, S!Snapshot, S!Change
<1>1. \A j \in Item : j \in S!Touched(what, i) <=> Goes(what, i, j)
  BY DEF S!Touched, S!Marks, S!Of, Goes
<1>2. /\ content' \in S!Snapshot
      /\ \A j \in Item : content'[j] = IF ~Goes(what, i, j) THEN content[j]
                                       ELSE IF what = "delete" THEN 0
                                       ELSE IF Lasting(j) THEN clock + 1 ELSE 1
  <2>1. content' = S!Changed(what, i)
    BY DEF S!Change
  <2>2. CASE what = "delete"
    <3>1. content' = [j \in Item |-> IF Goes(what, i, j) THEN 0 ELSE content[j]]
      BY <1>1, <2>1, <2>2 DEF S!Changed
    <3> QED
      BY <1>0, <2>2, <3>1 DEF S!Snapshot
  <2>3. CASE what # "delete"
    <3>1. PICK value \in 0..MaxClock : value = IF Lasting(i) THEN clock + 1 ELSE 1
      BY <1>0
    <3>2. S!Written(i) = value
      BY <1>0, <3>1, ItemsAssumption DEF S!Written, Lasting
    <3>3. content' = [content EXCEPT ![i] = value]
      BY <2>1, <2>3, <3>2 DEF S!Changed
    <3> QED
      BY <1>0, <2>3, <3>1, <3>3 DEF S!Snapshot, Goes
  <2> QED
    BY <2>2, <2>3
<1>4. Lasting(i) => IF what = "create" THEN i \notin made ELSE content[i] # 0
  BY DEF S!Change, S!Possible, Lasting
<1>5. PICK new : new = [what |-> what, of |-> i, at |-> clock + 1]
  OBVIOUS
<1>6. new \in S!Event
  BY <1>0, <1>5 DEF S!Event
<1>7. \/ members # {} /\ events' = events \cup {new} /\ UNCHANGED <<seen, apart>>
      \/ members = {} /\ events' = events /\ S!Withhold(what, i)
  BY <1>0, <1>5 DEF S!Change, S!FanOut, S!Interested
<1>8. S!Withhold(what, i) =>
        /\ seen' \in [Item -> 0..MaxClock] /\ apart' \in SUBSET Item
        /\ \A j \in Item : /\ (j \in apart' <=> j \in apart \/ Goes(what, i, j))
                           /\ seen'[j] = IF Goes(what, i, j) THEN clock + 1 ELSE seen[j]
  BY <1>0, <1>1, WithheldEffect
<1>9. /\ events' \in SUBSET S!Event /\ seen' \in [Item -> 0..MaxClock]
      /\ apart' \in SUBSET Item
  BY <1>6, <1>7, <1>8 DEF S!TypeOK
<1>10. HomeWrote(what, i)
  BY <1>0, <1>2, <1>4, <1>5, <1>7, <1>8 DEF HomeWrote
<1>11. clock' \in 0..MaxClock /\ made' \in SUBSET Item
  BY <1>0 DEF S!TypeOK
<1> QED
  BY <1>0, <1>2, <1>9, <1>10, <1>11

LEMMA BulkWrote ==
  ASSUME S!TypeOK, MirrorShape, Copies, NEW i \in Item, S!BulkDelete(i)
  PROVE  /\ HomeWrote("delete", i)
         /\ content' \in S!Snapshot /\ clock' \in 0..MaxClock
         /\ seen' \in [Item -> 0..MaxClock] /\ apart' \in SUBSET Item
<1>0. /\ MaxClock \in Nat /\ clock \in 0..MaxClock /\ clock < MaxClock /\ clock' = clock + 1
      /\ content \in [Item -> 0..MaxClock] /\ content[i] # 0 /\ Lasting(i)
      /\ UNCHANGED <<made, events, mirrored, copy, requests>>
  BY ItemsAssumption DEF S!TypeOK, S!Snapshot, S!BulkDelete, S!mirror, Lasting
<1>1. \A j \in Item : j \in S!Touched("delete", i) <=> Goes("delete", i, j)
  BY DEF S!Touched, S!Marks, S!Of, Goes
<1>2. content' = [j \in Item |-> IF Goes("delete", i, j) THEN 0 ELSE content[j]]
  BY <1>1 DEF S!BulkDelete, S!Changed
<1>3. content' \in S!Snapshot
  BY <1>0, <1>2 DEF S!Snapshot
<1>4. /\ seen' \in [Item -> 0..MaxClock] /\ apart' \in SUBSET Item
      /\ \A j \in Item : /\ (j \in apart' <=> j \in apart \/ Goes("delete", i, j))
                         /\ seen'[j] = IF Goes("delete", i, j) THEN clock + 1 ELSE seen[j]
  BY <1>0, WithheldEffect DEF S!BulkDelete
<1>5. made' = made \cup {i}
  <2>1. PICK last \in 0..clock, born \in 0..clock : ItemFacts(i, last, born)
    BY DEF Copies
  <2>2. i \in made
    BY <1>0, <2>1 DEF ItemFacts, LastingFacts
  <2> QED
    BY <1>0, <2>2
<1> QED
  BY <1>0, <1>2, <1>3, <1>4, <1>5 DEF HomeWrote, Taken

\* Who is a member does not change when the home writes.
LEMMA MovesStay ==
  ASSUME MovesKnown, UNCHANGED <<members, rows, broken>>,
         \A r \in Call : requests'[r] = requests[r]
                         \/ (requests'[r] = NoRequest /\ requests[r].what \in S!Writes)
  PROVE  MovesKnown'
<1>1. \A r \in Call, u \in Fan : Moving(r, u)' <=> Moving(r, u)
  BY DEF Moving, S!Writes
<1>2. \A r \in Call, u \in Fan : Moving(r, u) => requests'[r] = requests[r]
  BY DEF Moving, S!Writes
<1> QED
  BY <1>1, <1>2 DEF MovesKnown

LEMMA SpaceWriteAtHomeStep ==
  ASSUME Mirror, NEW i \in Item, NEW kind, NEW what \in {"create", "update", "delete"},
         S!WriteAtHome(kind, what, i)
  PROVE  Mirror'
<1>0. S!TypeOK /\ MovesKnown /\ WritesName /\ MirrorShape /\ Copies
  BY DEF Mirror
<1>1. S!Change(what, i) /\ UNCHANGED <<mirrored, copy, rows, requests, broken>>
  BY DEF S!WriteAtHome, S!mirror
<1>2. /\ HomeWrote(what, i) /\ members' = members
      /\ content' \in S!Snapshot /\ clock' \in 0..MaxClock /\ made' \in SUBSET Item
      /\ events' \in SUBSET S!Event /\ seen' \in [Item -> 0..MaxClock]
      /\ apart' \in SUBSET Item
  BY <1>0, <1>1, ChangeWrote DEF Taken
<1>3. S!TypeOK'
  BY <1>0, <1>1, <1>2 DEF S!TypeOK
<1>4. MovesKnown'
  BY <1>0, <1>1, <1>2, MovesStay
<1>5. WritesName'
  BY <1>0, <1>1 DEF WritesName
<1> QED
  BY <1>0, <1>2, <1>3, <1>4, <1>5, WroteKeeps DEF Mirror

LEMMA SpaceBulkDeleteStep ==
  ASSUME Mirror, NEW i \in Item, S!BulkDelete(i)
  PROVE  Mirror'
<1>0. S!TypeOK /\ MovesKnown /\ WritesName /\ MirrorShape /\ Copies
  BY DEF Mirror
<1>1. UNCHANGED <<members, made, events, mirrored, copy, rows, requests, broken>>
  BY DEF S!BulkDelete, S!mirror
<1>2. /\ HomeWrote("delete", i)
      /\ content' \in S!Snapshot /\ clock' \in 0..MaxClock
      /\ seen' \in [Item -> 0..MaxClock] /\ apart' \in SUBSET Item
  BY <1>0, BulkWrote
<1>3. S!TypeOK'
  BY <1>0, <1>1, <1>2 DEF S!TypeOK
<1>4. MovesKnown'
  BY <1>0, <1>1, MovesStay
<1>5. WritesName'
  BY <1>0, <1>1 DEF WritesName
<1> QED
  BY <1>0, <1>2, <1>3, <1>4, <1>5, WroteKeeps DEF Mirror

LEMMA SpaceServeWriteStep ==
  ASSUME Mirror, NEW q \in Call, NEW what \in SUBSET S!Writes, NEW kind,
         S!ServeWrite(q, what, kind)
  PROVE  Mirror'
<1>0. S!TypeOK /\ MovesKnown /\ WritesName /\ MirrorShape /\ Copies
  BY DEF Mirror
<1>1. /\ S!Change(requests[q].what, requests[q].of)
      /\ UNCHANGED <<mirrored, copy, rows, broken>>
      /\ requests[q] # NoRequest /\ requests[q].what \in S!Writes
      /\ requests[q].what \in {"create", "update", "delete"}
  BY DEF S!ServeWrite, S!mirror, S!Runs, S!Writes
<1>2. requests' \in RequestTable /\ OthersStay(q) /\ requests'[q] = NoRequest
  BY <1>0, EndEffect DEF S!ServeWrite
<1>3. requests[q].of \in Item
  BY <1>0, <1>1 DEF WritesName
<1>4. \A r \in Call : Taken(r)' => Taken(r) /\ requests'[r] = requests[r]
  BY <1>2 DEF Taken, OthersStay
<1>5. PICK i \in Item, op \in {"create", "update", "delete"} :
        i = requests[q].of /\ op = requests[q].what
  BY <1>1, <1>3
<1>6. /\ HomeWrote(op, i) /\ members' = members
      /\ content' \in S!Snapshot /\ clock' \in 0..MaxClock /\ made' \in SUBSET Item
      /\ events' \in SUBSET S!Event /\ seen' \in [Item -> 0..MaxClock]
      /\ apart' \in SUBSET Item
  BY <1>0, <1>1, <1>4, <1>5, ChangeWrote
<1>7. S!TypeOK'
  BY <1>0, <1>1, <1>2, <1>6 DEF S!TypeOK, RequestTable
<1>8. MovesKnown'
  BY <1>0, <1>1, <1>2, <1>6, MovesStay DEF OthersStay
<1>9. WritesName'
  BY <1>0, <1>2 DEF WritesName, OthersStay
<1> QED
  BY <1>0, <1>6, <1>7, <1>8, <1>9, WroteKeeps DEF Mirror

-----------------------------------------------------------------------------
(* The mirror applies an event.                                            *)

\* What an event about i leaves of i: what it says, what there was when a message
\* is created again or an update finds no row, or something not told in order.
Applied(e) ==
  /\ e \in events /\ e.what # "leave" /\ events' = events \ {e}
  /\ UNCHANGED <<content, made, clock, mirrored, requests>>
  /\ \A i \in Item :
       IF e \in S!About(i)
       THEN /\ seen'[i] = S!Later(seen[i], e.at)
            /\ i \in apart => i \in apart'
            /\ copy'[i] # copy[i] /\ e.at < seen[i] => i \in apart'
            /\ \/ copy'[i] = EventValue(e, i) /\ (e.what = "create" => copy'[i] # 0)
               \/ copy'[i] = copy[i] /\ copy[i] # 0 /\ e.what = "create" /\ Lasting(i)
               \/ copy'[i] = copy[i] /\ copy[i] = 0 /\ e.what = "update" /\ Lasting(i)
               \/ copy'[i] = copy[i] /\ e.what = "create" /\ i \in apart'
       ELSE copy'[i] = copy[i] /\ seen'[i] = seen[i] /\ (i \in apart' <=> i \in apart)

LEMMA AppliedKeepsCopies ==
  ASSUME S!TypeOK, MirrorShape, Copies, NEW e, Applied(e)
  PROVE  Copies' /\ \A i \in Item : seen'[i] <= clock
<1>0. /\ MaxClock \in Nat /\ clock \in Nat /\ seen \in [Item -> 0..MaxClock]
      /\ copy \in [Item -> 0..MaxClock] /\ content \in [Item -> 0..MaxClock]
      /\ UNCHANGED <<content, made, clock, mirrored, requests>>
      /\ e \in events /\ e.what # "leave" /\ events' = events \ {e}
      /\ \A i \in Item : seen[i] <= clock
  BY ItemsAssumption DEF S!TypeOK, S!Snapshot, Applied, MirrorShape
<1>1. /\ e.what \in {"create", "update", "delete"} /\ e.at \in Nat /\ e.at >= 1
  BY <1>0, EventTypes
<1>2. \A i \in Item : S!About(i)' = S!About(i) \ {e}
  BY <1>0 DEF S!About, S!Touched, S!Marks, S!Of
<1>3. ASSUME NEW i \in Item, NEW last \in 0..clock, NEW born \in 0..clock,
             ItemFacts(i, last, born)
      PROVE  ItemFacts(i, last, born)' /\ seen'[i] <= clock
  <2>0. last \in Nat /\ born \in Nat /\ last <= clock /\ born <= last
        /\ ToldOf(i, last) /\ (Lasting(i) => LastingFacts(i, last, born))
        /\ seen[i] \in Nat /\ seen[i] <= clock /\ copy[i] \in Nat /\ content[i] \in Nat
    BY <1>0, <1>3 DEF ItemFacts
  <2>1. CASE e \notin S!About(i)
    <3>1. copy'[i] = copy[i] /\ seen'[i] = seen[i] /\ (i \in apart' <=> i \in apart)
          /\ S!About(i)' = S!About(i)
      BY <1>2, <2>1 DEF Applied
    <3>2. ToldOf(i, last)'
      BY <1>0, <2>0, <3>1 DEF ToldOf, EventValue, Lasting
    <3>3. Lasting(i) => LastingFacts(i, last, born)'
      BY <1>0, <2>0, <3>1 DEF LastingFacts, WrittenBetween, Taken
    <3> QED
      BY <2>0, <3>1, <3>2, <3>3 DEF ItemFacts, Lasting
  <2>2. CASE e \in S!About(i)
    <3>1. /\ seen'[i] = IF seen[i] < e.at THEN e.at ELSE seen[i]
          /\ i \in apart => i \in apart'
          /\ copy'[i] # copy[i] /\ e.at < seen[i] => i \in apart'
      BY <2>2 DEF Applied, S!Later
    <3>2. \/ copy'[i] = EventValue(e, i) /\ (e.what = "create" => copy'[i] # 0)
          \/ copy'[i] = copy[i] /\ copy[i] # 0 /\ e.what = "create" /\ Lasting(i)
          \/ copy'[i] = copy[i] /\ copy[i] = 0 /\ e.what = "update" /\ Lasting(i)
          \/ copy'[i] = copy[i] /\ e.what = "create" /\ i \in apart'
      BY <2>2 DEF Applied
    <3>3. e.at <= last /\ (e.at = last => content[i] = EventValue(e, i))
      BY <2>0, <2>2 DEF ToldOf
    <3>4. seen'[i] <= clock
      <4>1. e.at <= clock
        BY <1>0, <1>1, <2>0, <3>3
      <4>2. CASE seen[i] < e.at
        BY <3>1, <4>1, <4>2
      <4>3. CASE ~(seen[i] < e.at)
        BY <2>0, <3>1, <4>3
      <4> QED
        BY <4>2, <4>3
    <3>5. ToldOf(i, last)'
      <4>1. \A x \in S!About(i)' : x.at <= last /\ (x.at = last => content'[i] = EventValue(x, i)')
        BY <1>0, <1>2, <2>0 DEF ToldOf, EventValue, Lasting
      <4>2. seen'[i] < last => \E x \in S!About(i)' : x.at = last
        BY <1>1, <1>2, <2>0, <3>1, <3>3 DEF ToldOf
      <4>3. CASE e.at < seen[i]
        BY <1>0, <1>1, <1>2, <2>0, <3>1, <3>2, <4>1, <4>2, <4>3 DEF ToldOf, EventValue
      <4>4. CASE e.at >= seen[i] /\ e.at < last
        BY <1>1, <2>0, <3>1, <4>1, <4>2, <4>4 DEF ToldOf
      <4>5. CASE e.at >= seen[i] /\ e.at = last
        <5>1. content'[i] = EventValue(e, i) /\ seen'[i] = last
          BY <1>0, <1>1, <2>0, <3>1, <3>3, <4>5
        <5>2. CASE copy'[i] = EventValue(e, i)
          BY <4>1, <4>2, <5>1, <5>2 DEF ToldOf
        <5>3. CASE copy'[i] = copy[i] /\ copy[i] # 0 /\ e.what = "create" /\ Lasting(i)
          <6>1. WrittenBetween(i, copy[i], last, born) /\ e.at = born
            BY <2>0, <2>2, <5>3 DEF LastingFacts
          <6>2. copy'[i] = content'[i]
            BY <1>1, <2>0, <4>5, <5>1, <5>3, <6>1 DEF WrittenBetween, EventValue
          <6> QED
            BY <4>1, <4>2, <6>2 DEF ToldOf
        <5>4. CASE copy'[i] = copy[i] /\ copy[i] = 0 /\ e.what = "update" /\ Lasting(i)
          <6>1. CASE i \in apart
            BY <3>1, <4>1, <4>2, <6>1 DEF ToldOf
          <6>2. CASE i \notin apart
            <7>1. Lasting(i)
              BY <5>4
            <7>2. content[i] # 0 /\ e.at > born
              BY <1>0, <1>1, <2>0, <2>2, <5>1, <5>4, <7>1 DEF EventValue, LastingFacts
            <7>3. PICK x \in S!About(i) : x.what = "create" /\ x.at = born
              BY <2>0, <5>4, <6>2, <7>1, <7>2 DEF LastingFacts
            <7>4. x \in S!About(i)' /\ x.at < seen'[i]
              BY <1>1, <1>2, <2>0, <4>5, <5>1, <5>4, <7>2, <7>3
            <7> QED
              BY <4>1, <4>2, <5>4, <7>3, <7>4 DEF ToldOf
          <6> QED
            BY <6>1, <6>2
        <5>5. CASE i \in apart'
          BY <4>1, <4>2, <5>5 DEF ToldOf
        <5> QED
          BY <3>2, <5>2, <5>3, <5>4, <5>5
      <4> QED
        BY <1>1, <2>0, <3>3, <4>3, <4>4, <4>5
    <3>6. Lasting(i) => LastingFacts(i, last, born)'
      <4> SUFFICES ASSUME Lasting(i) PROVE LastingFacts(i, last, born)'
        OBVIOUS
      <4>0. /\ LastingFacts(i, last, born) /\ i \in made
            /\ e.what = "create" => e.at = born
            /\ e.what = "update" => e.at > born
            /\ e.what = "delete" => content[i] = 0
        BY <2>0, <2>2 DEF LastingFacts
      <4>1. WrittenBetween(i, copy[i], last, born)'
        <5>1. copy'[i] = 0 \/ (born <= copy'[i] /\ copy'[i] <= last)
          BY <1>1, <2>0, <3>2, <3>3, <4>0 DEF LastingFacts, WrittenBetween, EventValue
        <5> QED
          BY <1>0, <4>0, <5>1 DEF WrittenBetween
      <4>2. \A x \in S!About(i)' :
              /\ i \in made'
              /\ x.what = "create" => x.at = born
              /\ x.what = "update" => x.at > born
              /\ x.what = "delete" => content'[i] = 0
        BY <1>0, <1>2, <4>0 DEF LastingFacts
      <4>3. content'[i] # 0 /\ i \notin apart' /\ copy'[i] = 0 =>
              \E x \in S!About(i)' : x.what = "create"
        <5> SUFFICES ASSUME content'[i] # 0, i \notin apart', copy'[i] = 0
                     PROVE  \E x \in S!About(i)' : x.what = "create"
          OBVIOUS
        <5>1. e.what = "update" /\ copy[i] = 0
          BY <1>0, <1>1, <3>2, <4>0 DEF EventValue
        <5> QED
          BY <1>0, <1>2, <3>1, <4>0, <5>1 DEF LastingFacts
      <4>4. \A q \in Call : Taken(q)' =>
              /\ WrittenBetween(i, requests[q].snapshot[i], last, born)'
              /\ last <= requests'[q].taken => requests'[q].snapshot[i] = content'[i]
        BY <1>0, <4>0 DEF LastingFacts, WrittenBetween, Taken
      <4> QED
        BY <1>0, <4>0, <4>1, <4>2, <4>3, <4>4 DEF LastingFacts
    <3> QED
      BY <2>0, <3>4, <3>5, <3>6 DEF ItemFacts, Lasting
  <2> QED
    BY <2>1, <2>2
<1>4. Copies'
  BY <1>0, <1>3 DEF Copies
<1>5. \A i \in Item : seen'[i] <= clock
  BY <1>3 DEF Copies
<1> QED
  BY <1>4, <1>5

LEMMA ApplyEffect ==
  ASSUME S!TypeOK, NEW e \in events, e.what # "leave", NEW there \in BOOLEAN,
         NEW new \in [Item -> 0..MaxClock], S!Apply(e, there, new)
  PROVE  /\ copy' = (IF there THEN new ELSE copy) /\ copy' \in S!Snapshot
         /\ seen' \in [Item -> 0..MaxClock] /\ apart' \in SUBSET Item
         /\ events' = events \ {e}
         /\ UNCHANGED <<members, content, made, clock, mirrored, rows, requests, broken>>
         /\ e.what = "create" /\ ~there => e.of \in apart'
         /\ \A i \in Item :
              /\ i \in apart => i \in apart'
              /\ IF e \in S!About(i)
                 THEN /\ seen'[i] = S!Later(seen[i], e.at)
                      /\ copy'[i] # copy[i] /\ e.at < seen[i] => i \in apart'
                 ELSE /\ seen'[i] = seen[i]
                      /\ copy'[i] = copy[i] => (i \in apart' <=> i \in apart)
<1>0. /\ e.of \in Item /\ e.at \in 1..MaxClock /\ MaxClock \in Nat
      /\ copy \in [Item -> 0..MaxClock] /\ seen \in [Item -> 0..MaxClock] /\ apart \in SUBSET Item
  BY EventTypes, ItemsAssumption DEF S!TypeOK, S!Snapshot
<1>1. \A i \in Item : e \in S!About(i) <=> i \in S!Touched(e.what, e.of)
  BY DEF S!About
<1>2. /\ events' = events \ {e} /\ copy' = (IF there THEN new ELSE copy)
      /\ seen' = [i \in Item |-> IF i \in S!Touched(e.what, e.of) THEN S!Later(seen[i], e.at)
                                 ELSE seen[i]]
      /\ UNCHANGED <<members, content, made, clock, mirrored, rows, requests, broken>>
  BY DEF S!Apply, S!Saw, S!home
<1>3. apart' = (apart \cup {i \in Item : copy'[i] # copy[i] /\ e.at < seen[i]})
                 \cup (IF e.what = "create" /\ ~there THEN {e.of} ELSE {})
  BY DEF S!Apply
<1>4. \A i \in Item : S!Later(seen[i], e.at) \in 0..MaxClock
  BY <1>0 DEF S!Later
<1>5. seen' \in [Item -> 0..MaxClock]
  BY <1>0, <1>2, <1>4
<1>6. copy' \in S!Snapshot
  BY <1>0, <1>2 DEF S!Snapshot
<1>7. e \in S!About(e.of)
  BY <1>0, AboutIs
<1>8. apart' \in SUBSET Item
  BY <1>0, <1>3
<1>9. ASSUME NEW i \in Item
      PROVE  /\ i \in apart => i \in apart'
             /\ IF e \in S!About(i)
                THEN /\ seen'[i] = S!Later(seen[i], e.at)
                     /\ copy'[i] # copy[i] /\ e.at < seen[i] => i \in apart'
                ELSE /\ seen'[i] = seen[i]
                     /\ copy'[i] = copy[i] => (i \in apart' <=> i \in apart)
  <2>1. e \notin S!About(i) => i # e.of
    BY <1>7
  <2> QED
    BY <1>1, <1>2, <1>3, <2>1
<1> QED
  BY <1>2, <1>3, <1>5, <1>6, <1>8, <1>9

LEMMA ReceiveKeeps ==
  ASSUME Mirror, NEW e \in events, Applied(e),
         copy' \in S!Snapshot, seen' \in [Item -> 0..MaxClock], apart' \in SUBSET Item,
         UNCHANGED <<members, rows, broken>>,
         \A i \in Item : Sort[i] = "reaction" /\ copy'[On[i]] = 0 => copy'[i] = 0,
         ~mirrored => \A i \in Item : copy'[i] = 0
  PROVE  Mirror'
<1>0. S!TypeOK /\ MovesKnown /\ WritesName /\ MirrorShape /\ Copies
  BY DEF Mirror
<1>1. UNCHANGED <<content, made, clock, mirrored, requests>> /\ events' = events \ {e}
  BY DEF Applied
<1>2. Copies' /\ \A i \in Item : seen'[i] <= clock
  BY <1>0, AppliedKeepsCopies
<1>3. S!TypeOK'
  BY <1>0, <1>1 DEF S!TypeOK
<1>4. MovesKnown' /\ WritesName'
  BY <1>0, <1>1, MovesStay DEF WritesName
<1>5. MirrorShape'
  BY <1>0, <1>1, <1>2 DEF MirrorShape, Taken
<1> QED
  BY <1>2, <1>3, <1>4, <1>5 DEF Mirror

LEMMA SpaceApplyMessageCreateStep ==
  ASSUME Mirror, NEW e \in events, S!ApplyMessageCreate(e)
  PROVE  Mirror'
<1>0. /\ S!TypeOK /\ MirrorShape /\ MaxClock \in Nat
      /\ copy \in [Item -> 0..MaxClock] /\ mirrored \in BOOLEAN
  BY ItemsAssumption DEF Mirror, S!TypeOK, S!Snapshot
<1>1. e.what \in {"create"} /\ Sort[e.of] = "message" /\ e.what # "leave"
  BY DEF S!ApplyMessageCreate, S!Tells
<1>2. e.of \in Item /\ e.at \in 1..MaxClock
  BY <1>0, <1>1, EventTypes
<1>3. PICK there, new :
        /\ S!Apply(e, there, new) /\ there \in BOOLEAN
        /\ there = (mirrored)
        /\ new = (IF copy[e.of] # 0 THEN copy ELSE S!With(e.of, e.at))
  BY <1>0 DEF S!ApplyMessageCreate
<1>4. /\ new \in [Item -> 0..MaxClock]
      /\ \A i \in Item : new[i] = IF i = e.of /\ copy[i] = 0 THEN e.at ELSE copy[i]
  BY <1>0, <1>1, <1>2, <1>3 DEF S!With
<1>5. /\ copy' = (IF there THEN new ELSE copy) /\ copy' \in S!Snapshot
      /\ seen' \in [Item -> 0..MaxClock] /\ apart' \in SUBSET Item
      /\ events' = events \ {e}
      /\ UNCHANGED <<members, content, made, clock, mirrored, rows, requests, broken>>
      /\ e.what = "create" /\ ~there => e.of \in apart'
      /\ \A i \in Item :
           /\ i \in apart => i \in apart'
           /\ IF e \in S!About(i)
              THEN /\ seen'[i] = S!Later(seen[i], e.at)
                   /\ copy'[i] # copy[i] /\ e.at < seen[i] => i \in apart'
              ELSE /\ seen'[i] = seen[i]
                   /\ copy'[i] = copy[i] => (i \in apart' <=> i \in apart)
  BY <1>0, <1>1, <1>3, <1>4, ApplyEffect
<1>6. \A i \in Item :
        e \in S!About(i) <=>
          i = e.of \/ (e.what = "delete" /\ Sort[i] = "reaction" /\ On[i] = e.of)
  BY <1>1, AboutIs
<1>7. \A i \in Item :
        /\ Sort[i] = "reaction" => On[i] \in Item /\ Sort[On[i]] = "message"
        /\ Sort[i] = "reaction" /\ copy[On[i]] = 0 => copy[i] = 0
        /\ ~mirrored => copy[i] = 0
  BY <1>0, ItemsAssumption DEF MirrorShape
<1>8. ASSUME NEW i \in Item
      PROVE  IF e \in S!About(i)
             THEN \/ copy'[i] = EventValue(e, i) /\ (e.what = "create" => copy'[i] # 0)
                  \/ copy'[i] = copy[i] /\ copy[i] # 0 /\ e.what = "create" /\ Lasting(i)
                  \/ copy'[i] = copy[i] /\ copy[i] = 0 /\ e.what = "update" /\ Lasting(i)
                  \/ copy'[i] = copy[i] /\ e.what = "create" /\ i \in apart'
             ELSE copy'[i] = copy[i]
  BY <1>0, <1>1, <1>2, <1>3, <1>4, <1>5, <1>6, <1>7 DEF EventValue, Lasting
<1>9. Applied(e)
  BY <1>1, <1>5, <1>8 DEF Applied
<1>10. \A i \in Item : Sort[i] = "reaction" /\ copy'[On[i]] = 0 => copy'[i] = 0
  BY <1>0, <1>1, <1>2, <1>3, <1>4, <1>5, <1>7
<1>11. ~mirrored => \A i \in Item : copy'[i] = 0
  BY <1>0, <1>1, <1>2, <1>3, <1>4, <1>5, <1>7
<1> QED
  BY <1>5, <1>9, <1>10, <1>11, ReceiveKeeps

LEMMA SpaceApplyMessageUpdateStep ==
  ASSUME Mirror, NEW e \in events, S!ApplyMessageUpdate(e)
  PROVE  Mirror'
<1>0. /\ S!TypeOK /\ MirrorShape /\ MaxClock \in Nat
      /\ copy \in [Item -> 0..MaxClock] /\ mirrored \in BOOLEAN
  BY ItemsAssumption DEF Mirror, S!TypeOK, S!Snapshot
<1>1. e.what \in {"update"} /\ Sort[e.of] = "message" /\ e.what # "leave"
  BY DEF S!ApplyMessageUpdate, S!Tells
<1>2. e.of \in Item /\ e.at \in 1..MaxClock
  BY <1>0, <1>1, EventTypes
<1>3. PICK there, new :
        /\ S!Apply(e, there, new) /\ there \in BOOLEAN
        /\ there = (copy[e.of] # 0)
        /\ new = S!With(e.of, e.at)
  BY <1>0 DEF S!ApplyMessageUpdate
<1>4. /\ new \in [Item -> 0..MaxClock]
      /\ \A i \in Item : new[i] = IF i = e.of THEN e.at ELSE copy[i]
  BY <1>0, <1>1, <1>2, <1>3 DEF S!With
<1>5. /\ copy' = (IF there THEN new ELSE copy) /\ copy' \in S!Snapshot
      /\ seen' \in [Item -> 0..MaxClock] /\ apart' \in SUBSET Item
      /\ events' = events \ {e}
      /\ UNCHANGED <<members, content, made, clock, mirrored, rows, requests, broken>>
      /\ e.what = "create" /\ ~there => e.of \in apart'
      /\ \A i \in Item :
           /\ i \in apart => i \in apart'
           /\ IF e \in S!About(i)
              THEN /\ seen'[i] = S!Later(seen[i], e.at)
                   /\ copy'[i] # copy[i] /\ e.at < seen[i] => i \in apart'
              ELSE /\ seen'[i] = seen[i]
                   /\ copy'[i] = copy[i] => (i \in apart' <=> i \in apart)
  BY <1>0, <1>1, <1>3, <1>4, ApplyEffect
<1>6. \A i \in Item :
        e \in S!About(i) <=>
          i = e.of \/ (e.what = "delete" /\ Sort[i] = "reaction" /\ On[i] = e.of)
  BY <1>1, AboutIs
<1>7. \A i \in Item :
        /\ Sort[i] = "reaction" => On[i] \in Item /\ Sort[On[i]] = "message"
        /\ Sort[i] = "reaction" /\ copy[On[i]] = 0 => copy[i] = 0
        /\ ~mirrored => copy[i] = 0
  BY <1>0, ItemsAssumption DEF MirrorShape
<1>8. ASSUME NEW i \in Item
      PROVE  IF e \in S!About(i)
             THEN \/ copy'[i] = EventValue(e, i) /\ (e.what = "create" => copy'[i] # 0)
                  \/ copy'[i] = copy[i] /\ copy[i] # 0 /\ e.what = "create" /\ Lasting(i)
                  \/ copy'[i] = copy[i] /\ copy[i] = 0 /\ e.what = "update" /\ Lasting(i)
                  \/ copy'[i] = copy[i] /\ e.what = "create" /\ i \in apart'
             ELSE copy'[i] = copy[i]
  BY <1>0, <1>1, <1>2, <1>3, <1>4, <1>5, <1>6, <1>7 DEF EventValue, Lasting
<1>9. Applied(e)
  BY <1>1, <1>5, <1>8 DEF Applied
<1>10. \A i \in Item : Sort[i] = "reaction" /\ copy'[On[i]] = 0 => copy'[i] = 0
  BY <1>0, <1>1, <1>2, <1>3, <1>4, <1>5, <1>7
<1>11. ~mirrored => \A i \in Item : copy'[i] = 0
  BY <1>0, <1>1, <1>2, <1>3, <1>4, <1>5, <1>7
<1> QED
  BY <1>5, <1>9, <1>10, <1>11, ReceiveKeeps

LEMMA SpaceApplyMessageDeleteStep ==
  ASSUME Mirror, NEW e \in events, S!ApplyMessageDelete(e)
  PROVE  Mirror'
<1>0. /\ S!TypeOK /\ MirrorShape /\ MaxClock \in Nat
      /\ copy \in [Item -> 0..MaxClock] /\ mirrored \in BOOLEAN
  BY ItemsAssumption DEF Mirror, S!TypeOK, S!Snapshot
<1>1. e.what \in {"delete"} /\ Sort[e.of] = "message" /\ e.what # "leave"
  BY DEF S!ApplyMessageDelete, S!Tells
<1>2. e.of \in Item /\ e.at \in 1..MaxClock
  BY <1>0, <1>1, EventTypes
<1>3. PICK there, new :
        /\ S!Apply(e, there, new) /\ there \in BOOLEAN
        /\ there = (copy[e.of] # 0)
        /\ new = S!Without(e.of)
  BY <1>0 DEF S!ApplyMessageDelete
<1>4. /\ new \in [Item -> 0..MaxClock]
      /\ \A i \in Item : new[i] = IF i = e.of \/ (Sort[i] = "reaction" /\ On[i] = e.of) THEN 0 ELSE copy[i]
  BY <1>0, <1>1, <1>2, <1>3 DEF S!Without, S!Touched, S!Marks, S!Of
<1>5. /\ copy' = (IF there THEN new ELSE copy) /\ copy' \in S!Snapshot
      /\ seen' \in [Item -> 0..MaxClock] /\ apart' \in SUBSET Item
      /\ events' = events \ {e}
      /\ UNCHANGED <<members, content, made, clock, mirrored, rows, requests, broken>>
      /\ e.what = "create" /\ ~there => e.of \in apart'
      /\ \A i \in Item :
           /\ i \in apart => i \in apart'
           /\ IF e \in S!About(i)
              THEN /\ seen'[i] = S!Later(seen[i], e.at)
                   /\ copy'[i] # copy[i] /\ e.at < seen[i] => i \in apart'
              ELSE /\ seen'[i] = seen[i]
                   /\ copy'[i] = copy[i] => (i \in apart' <=> i \in apart)
  BY <1>0, <1>1, <1>3, <1>4, ApplyEffect
<1>6. \A i \in Item :
        e \in S!About(i) <=>
          i = e.of \/ (e.what = "delete" /\ Sort[i] = "reaction" /\ On[i] = e.of)
  BY <1>1, AboutIs
<1>7. \A i \in Item :
        /\ Sort[i] = "reaction" => On[i] \in Item /\ Sort[On[i]] = "message"
        /\ Sort[i] = "reaction" /\ copy[On[i]] = 0 => copy[i] = 0
        /\ ~mirrored => copy[i] = 0
  BY <1>0, ItemsAssumption DEF MirrorShape
<1>8. ASSUME NEW i \in Item
      PROVE  IF e \in S!About(i)
             THEN \/ copy'[i] = EventValue(e, i) /\ (e.what = "create" => copy'[i] # 0)
                  \/ copy'[i] = copy[i] /\ copy[i] # 0 /\ e.what = "create" /\ Lasting(i)
                  \/ copy'[i] = copy[i] /\ copy[i] = 0 /\ e.what = "update" /\ Lasting(i)
                  \/ copy'[i] = copy[i] /\ e.what = "create" /\ i \in apart'
             ELSE copy'[i] = copy[i]
  BY <1>0, <1>1, <1>2, <1>3, <1>4, <1>5, <1>6, <1>7 DEF EventValue, Lasting
<1>9. Applied(e)
  BY <1>1, <1>5, <1>8 DEF Applied
<1>10. \A i \in Item : Sort[i] = "reaction" /\ copy'[On[i]] = 0 => copy'[i] = 0
  BY <1>0, <1>1, <1>2, <1>3, <1>4, <1>5, <1>7
<1>11. ~mirrored => \A i \in Item : copy'[i] = 0
  BY <1>0, <1>1, <1>2, <1>3, <1>4, <1>5, <1>7
<1> QED
  BY <1>5, <1>9, <1>10, <1>11, ReceiveKeeps

LEMMA SpaceApplyReactionStep ==
  ASSUME Mirror, NEW e \in events, S!ApplyReaction(e)
  PROVE  Mirror'
<1>0. /\ S!TypeOK /\ MirrorShape /\ MaxClock \in Nat
      /\ copy \in [Item -> 0..MaxClock] /\ mirrored \in BOOLEAN
  BY ItemsAssumption DEF Mirror, S!TypeOK, S!Snapshot
<1>1. e.what \in {"create", "delete"} /\ Sort[e.of] = "reaction" /\ e.what # "leave"
  BY DEF S!ApplyReaction, S!Tells
<1>2. e.of \in Item /\ e.at \in 1..MaxClock
  BY <1>0, <1>1, EventTypes
<1>3. PICK there, new :
        /\ S!Apply(e, there, new) /\ there \in BOOLEAN
        /\ there = (copy[On[e.of]] # 0)
        /\ new = S!With(e.of, IF e.what = "create" THEN 1 ELSE 0)
  BY <1>0 DEF S!ApplyReaction
<1>4. /\ new \in [Item -> 0..MaxClock]
      /\ \A i \in Item : new[i] = IF i = e.of THEN (IF e.what = "create" THEN 1 ELSE 0) ELSE copy[i]
  BY <1>0, <1>1, <1>2, <1>3 DEF S!With
<1>5. /\ copy' = (IF there THEN new ELSE copy) /\ copy' \in S!Snapshot
      /\ seen' \in [Item -> 0..MaxClock] /\ apart' \in SUBSET Item
      /\ events' = events \ {e}
      /\ UNCHANGED <<members, content, made, clock, mirrored, rows, requests, broken>>
      /\ e.what = "create" /\ ~there => e.of \in apart'
      /\ \A i \in Item :
           /\ i \in apart => i \in apart'
           /\ IF e \in S!About(i)
              THEN /\ seen'[i] = S!Later(seen[i], e.at)
                   /\ copy'[i] # copy[i] /\ e.at < seen[i] => i \in apart'
              ELSE /\ seen'[i] = seen[i]
                   /\ copy'[i] = copy[i] => (i \in apart' <=> i \in apart)
  BY <1>0, <1>1, <1>3, <1>4, ApplyEffect
<1>6. \A i \in Item :
        e \in S!About(i) <=>
          i = e.of \/ (e.what = "delete" /\ Sort[i] = "reaction" /\ On[i] = e.of)
  BY <1>1, AboutIs
<1>7. \A i \in Item :
        /\ Sort[i] = "reaction" => On[i] \in Item /\ Sort[On[i]] = "message"
        /\ Sort[i] = "reaction" /\ copy[On[i]] = 0 => copy[i] = 0
        /\ ~mirrored => copy[i] = 0
  BY <1>0, ItemsAssumption DEF MirrorShape
<1>8. ASSUME NEW i \in Item
      PROVE  IF e \in S!About(i)
             THEN \/ copy'[i] = EventValue(e, i) /\ (e.what = "create" => copy'[i] # 0)
                  \/ copy'[i] = copy[i] /\ copy[i] # 0 /\ e.what = "create" /\ Lasting(i)
                  \/ copy'[i] = copy[i] /\ copy[i] = 0 /\ e.what = "update" /\ Lasting(i)
                  \/ copy'[i] = copy[i] /\ e.what = "create" /\ i \in apart'
             ELSE copy'[i] = copy[i]
  BY <1>0, <1>1, <1>2, <1>3, <1>4, <1>5, <1>6, <1>7 DEF EventValue, Lasting
<1>9. Applied(e)
  BY <1>1, <1>5, <1>8 DEF Applied
<1>10. \A i \in Item : Sort[i] = "reaction" /\ copy'[On[i]] = 0 => copy'[i] = 0
  BY <1>0, <1>1, <1>2, <1>3, <1>4, <1>5, <1>7
<1>11. ~mirrored => \A i \in Item : copy'[i] = 0
  BY <1>0, <1>1, <1>2, <1>3, <1>4, <1>5, <1>7
<1> QED
  BY <1>5, <1>9, <1>10, <1>11, ReceiveKeeps

LEMMA SpaceApplyEmojiUpsertStep ==
  ASSUME Mirror, NEW e \in events, S!ApplyEmojiUpsert(e)
  PROVE  Mirror'
<1>0. /\ S!TypeOK /\ MirrorShape /\ MaxClock \in Nat
      /\ copy \in [Item -> 0..MaxClock] /\ mirrored \in BOOLEAN
  BY ItemsAssumption DEF Mirror, S!TypeOK, S!Snapshot
<1>1. e.what \in {"create", "update"} /\ Sort[e.of] = "emoji" /\ e.what # "leave"
  BY DEF S!ApplyEmojiUpsert, S!Tells
<1>2. e.of \in Item /\ e.at \in 1..MaxClock
  BY <1>0, <1>1, EventTypes
<1>3. PICK there, new :
        /\ S!Apply(e, there, new) /\ there \in BOOLEAN
        /\ there = (mirrored)
        /\ new = S!With(e.of, e.at)
  BY <1>0 DEF S!ApplyEmojiUpsert
<1>4. /\ new \in [Item -> 0..MaxClock]
      /\ \A i \in Item : new[i] = IF i = e.of THEN e.at ELSE copy[i]
  BY <1>0, <1>1, <1>2, <1>3 DEF S!With
<1>5. /\ copy' = (IF there THEN new ELSE copy) /\ copy' \in S!Snapshot
      /\ seen' \in [Item -> 0..MaxClock] /\ apart' \in SUBSET Item
      /\ events' = events \ {e}
      /\ UNCHANGED <<members, content, made, clock, mirrored, rows, requests, broken>>
      /\ e.what = "create" /\ ~there => e.of \in apart'
      /\ \A i \in Item :
           /\ i \in apart => i \in apart'
           /\ IF e \in S!About(i)
              THEN /\ seen'[i] = S!Later(seen[i], e.at)
                   /\ copy'[i] # copy[i] /\ e.at < seen[i] => i \in apart'
              ELSE /\ seen'[i] = seen[i]
                   /\ copy'[i] = copy[i] => (i \in apart' <=> i \in apart)
  BY <1>0, <1>1, <1>3, <1>4, ApplyEffect
<1>6. \A i \in Item :
        e \in S!About(i) <=>
          i = e.of \/ (e.what = "delete" /\ Sort[i] = "reaction" /\ On[i] = e.of)
  BY <1>1, AboutIs
<1>7. \A i \in Item :
        /\ Sort[i] = "reaction" => On[i] \in Item /\ Sort[On[i]] = "message"
        /\ Sort[i] = "reaction" /\ copy[On[i]] = 0 => copy[i] = 0
        /\ ~mirrored => copy[i] = 0
  BY <1>0, ItemsAssumption DEF MirrorShape
<1>8. ASSUME NEW i \in Item
      PROVE  IF e \in S!About(i)
             THEN \/ copy'[i] = EventValue(e, i) /\ (e.what = "create" => copy'[i] # 0)
                  \/ copy'[i] = copy[i] /\ copy[i] # 0 /\ e.what = "create" /\ Lasting(i)
                  \/ copy'[i] = copy[i] /\ copy[i] = 0 /\ e.what = "update" /\ Lasting(i)
                  \/ copy'[i] = copy[i] /\ e.what = "create" /\ i \in apart'
             ELSE copy'[i] = copy[i]
  BY <1>0, <1>1, <1>2, <1>3, <1>4, <1>5, <1>6, <1>7 DEF EventValue, Lasting
<1>9. Applied(e)
  BY <1>1, <1>5, <1>8 DEF Applied
<1>10. \A i \in Item : Sort[i] = "reaction" /\ copy'[On[i]] = 0 => copy'[i] = 0
  BY <1>0, <1>1, <1>2, <1>3, <1>4, <1>5, <1>7
<1>11. ~mirrored => \A i \in Item : copy'[i] = 0
  BY <1>0, <1>1, <1>2, <1>3, <1>4, <1>5, <1>7
<1> QED
  BY <1>5, <1>9, <1>10, <1>11, ReceiveKeeps

LEMMA SpaceApplyEmojiDeleteStep ==
  ASSUME Mirror, NEW e \in events, S!ApplyEmojiDelete(e)
  PROVE  Mirror'
<1>0. /\ S!TypeOK /\ MirrorShape /\ MaxClock \in Nat
      /\ copy \in [Item -> 0..MaxClock] /\ mirrored \in BOOLEAN
  BY ItemsAssumption DEF Mirror, S!TypeOK, S!Snapshot
<1>1. e.what \in {"delete"} /\ Sort[e.of] = "emoji" /\ e.what # "leave"
  BY DEF S!ApplyEmojiDelete, S!Tells
<1>2. e.of \in Item /\ e.at \in 1..MaxClock
  BY <1>0, <1>1, EventTypes
<1>3. PICK there, new :
        /\ S!Apply(e, there, new) /\ there \in BOOLEAN
        /\ there = (copy[e.of] # 0)
        /\ new = S!Without(e.of)
  BY <1>0 DEF S!ApplyEmojiDelete
<1>4. /\ new \in [Item -> 0..MaxClock]
      /\ \A i \in Item : new[i] = IF i = e.of \/ (Sort[i] = "reaction" /\ On[i] = e.of) THEN 0 ELSE copy[i]
  BY <1>0, <1>1, <1>2, <1>3 DEF S!Without, S!Touched, S!Marks, S!Of
<1>5. /\ copy' = (IF there THEN new ELSE copy) /\ copy' \in S!Snapshot
      /\ seen' \in [Item -> 0..MaxClock] /\ apart' \in SUBSET Item
      /\ events' = events \ {e}
      /\ UNCHANGED <<members, content, made, clock, mirrored, rows, requests, broken>>
      /\ e.what = "create" /\ ~there => e.of \in apart'
      /\ \A i \in Item :
           /\ i \in apart => i \in apart'
           /\ IF e \in S!About(i)
              THEN /\ seen'[i] = S!Later(seen[i], e.at)
                   /\ copy'[i] # copy[i] /\ e.at < seen[i] => i \in apart'
              ELSE /\ seen'[i] = seen[i]
                   /\ copy'[i] = copy[i] => (i \in apart' <=> i \in apart)
  BY <1>0, <1>1, <1>3, <1>4, ApplyEffect
<1>6. \A i \in Item :
        e \in S!About(i) <=>
          i = e.of \/ (e.what = "delete" /\ Sort[i] = "reaction" /\ On[i] = e.of)
  BY <1>1, AboutIs
<1>7. \A i \in Item :
        /\ Sort[i] = "reaction" => On[i] \in Item /\ Sort[On[i]] = "message"
        /\ Sort[i] = "reaction" /\ copy[On[i]] = 0 => copy[i] = 0
        /\ ~mirrored => copy[i] = 0
  BY <1>0, ItemsAssumption DEF MirrorShape
<1>8. ASSUME NEW i \in Item
      PROVE  IF e \in S!About(i)
             THEN \/ copy'[i] = EventValue(e, i) /\ (e.what = "create" => copy'[i] # 0)
                  \/ copy'[i] = copy[i] /\ copy[i] # 0 /\ e.what = "create" /\ Lasting(i)
                  \/ copy'[i] = copy[i] /\ copy[i] = 0 /\ e.what = "update" /\ Lasting(i)
                  \/ copy'[i] = copy[i] /\ e.what = "create" /\ i \in apart'
             ELSE copy'[i] = copy[i]
  BY <1>0, <1>1, <1>2, <1>3, <1>4, <1>5, <1>6, <1>7 DEF EventValue, Lasting
<1>9. Applied(e)
  BY <1>1, <1>5, <1>8 DEF Applied
<1>10. \A i \in Item : Sort[i] = "reaction" /\ copy'[On[i]] = 0 => copy'[i] = 0
  BY <1>0, <1>1, <1>2, <1>3, <1>4, <1>5, <1>7
<1>11. ~mirrored => \A i \in Item : copy'[i] = 0
  BY <1>0, <1>1, <1>2, <1>3, <1>4, <1>5, <1>7
<1> QED
  BY <1>5, <1>9, <1>10, <1>11, ReceiveKeeps

LEMMA SpaceApplyMemberJoinStep ==
  ASSUME Mirror, NEW e \in events, S!ApplyMemberJoin(e)
  PROVE  Mirror'
<1>0. /\ S!TypeOK /\ MirrorShape /\ MaxClock \in Nat
      /\ copy \in [Item -> 0..MaxClock] /\ mirrored \in BOOLEAN
  BY ItemsAssumption DEF Mirror, S!TypeOK, S!Snapshot
<1>1. e.what \in {"create"} /\ Sort[e.of] = "member" /\ e.what # "leave"
  BY DEF S!ApplyMemberJoin, S!Tells
<1>2. e.of \in Item /\ e.at \in 1..MaxClock
  BY <1>0, <1>1, EventTypes
<1>3. PICK there, new :
        /\ S!Apply(e, there, new) /\ there \in BOOLEAN
        /\ there = (mirrored)
        /\ new = S!With(e.of, 1)
  BY <1>0 DEF S!ApplyMemberJoin
<1>4. /\ new \in [Item -> 0..MaxClock]
      /\ \A i \in Item : new[i] = IF i = e.of THEN 1 ELSE copy[i]
  BY <1>0, <1>1, <1>2, <1>3 DEF S!With
<1>5. /\ copy' = (IF there THEN new ELSE copy) /\ copy' \in S!Snapshot
      /\ seen' \in [Item -> 0..MaxClock] /\ apart' \in SUBSET Item
      /\ events' = events \ {e}
      /\ UNCHANGED <<members, content, made, clock, mirrored, rows, requests, broken>>
      /\ e.what = "create" /\ ~there => e.of \in apart'
      /\ \A i \in Item :
           /\ i \in apart => i \in apart'
           /\ IF e \in S!About(i)
              THEN /\ seen'[i] = S!Later(seen[i], e.at)
                   /\ copy'[i] # copy[i] /\ e.at < seen[i] => i \in apart'
              ELSE /\ seen'[i] = seen[i]
                   /\ copy'[i] = copy[i] => (i \in apart' <=> i \in apart)
  BY <1>0, <1>1, <1>3, <1>4, ApplyEffect
<1>6. \A i \in Item :
        e \in S!About(i) <=>
          i = e.of \/ (e.what = "delete" /\ Sort[i] = "reaction" /\ On[i] = e.of)
  BY <1>1, AboutIs
<1>7. \A i \in Item :
        /\ Sort[i] = "reaction" => On[i] \in Item /\ Sort[On[i]] = "message"
        /\ Sort[i] = "reaction" /\ copy[On[i]] = 0 => copy[i] = 0
        /\ ~mirrored => copy[i] = 0
  BY <1>0, ItemsAssumption DEF MirrorShape
<1>8. ASSUME NEW i \in Item
      PROVE  IF e \in S!About(i)
             THEN \/ copy'[i] = EventValue(e, i) /\ (e.what = "create" => copy'[i] # 0)
                  \/ copy'[i] = copy[i] /\ copy[i] # 0 /\ e.what = "create" /\ Lasting(i)
                  \/ copy'[i] = copy[i] /\ copy[i] = 0 /\ e.what = "update" /\ Lasting(i)
                  \/ copy'[i] = copy[i] /\ e.what = "create" /\ i \in apart'
             ELSE copy'[i] = copy[i]
  BY <1>0, <1>1, <1>2, <1>3, <1>4, <1>5, <1>6, <1>7 DEF EventValue, Lasting
<1>9. Applied(e)
  BY <1>1, <1>5, <1>8 DEF Applied
<1>10. \A i \in Item : Sort[i] = "reaction" /\ copy'[On[i]] = 0 => copy'[i] = 0
  BY <1>0, <1>1, <1>2, <1>3, <1>4, <1>5, <1>7
<1>11. ~mirrored => \A i \in Item : copy'[i] = 0
  BY <1>0, <1>1, <1>2, <1>3, <1>4, <1>5, <1>7
<1> QED
  BY <1>5, <1>9, <1>10, <1>11, ReceiveKeeps

LEMMA SpaceApplyMemberGoneStep ==
  ASSUME Mirror, NEW e \in events, S!ApplyMemberGone(e)
  PROVE  Mirror'
<1>0. /\ S!TypeOK /\ MirrorShape /\ MaxClock \in Nat
      /\ copy \in [Item -> 0..MaxClock] /\ mirrored \in BOOLEAN
  BY ItemsAssumption DEF Mirror, S!TypeOK, S!Snapshot
<1>1. e.what \in {"delete"} /\ Sort[e.of] = "member" /\ e.what # "leave"
  BY DEF S!ApplyMemberGone, S!Tells
<1>2. e.of \in Item /\ e.at \in 1..MaxClock
  BY <1>0, <1>1, EventTypes
<1>3. PICK there, new :
        /\ S!Apply(e, there, new) /\ there \in BOOLEAN
        /\ there = (mirrored)
        /\ new = S!Without(e.of)
  BY <1>0 DEF S!ApplyMemberGone
<1>4. /\ new \in [Item -> 0..MaxClock]
      /\ \A i \in Item : new[i] = IF i = e.of \/ (Sort[i] = "reaction" /\ On[i] = e.of) THEN 0 ELSE copy[i]
  BY <1>0, <1>1, <1>2, <1>3 DEF S!Without, S!Touched, S!Marks, S!Of
<1>5. /\ copy' = (IF there THEN new ELSE copy) /\ copy' \in S!Snapshot
      /\ seen' \in [Item -> 0..MaxClock] /\ apart' \in SUBSET Item
      /\ events' = events \ {e}
      /\ UNCHANGED <<members, content, made, clock, mirrored, rows, requests, broken>>
      /\ e.what = "create" /\ ~there => e.of \in apart'
      /\ \A i \in Item :
           /\ i \in apart => i \in apart'
           /\ IF e \in S!About(i)
              THEN /\ seen'[i] = S!Later(seen[i], e.at)
                   /\ copy'[i] # copy[i] /\ e.at < seen[i] => i \in apart'
              ELSE /\ seen'[i] = seen[i]
                   /\ copy'[i] = copy[i] => (i \in apart' <=> i \in apart)
  BY <1>0, <1>1, <1>3, <1>4, ApplyEffect
<1>6. \A i \in Item :
        e \in S!About(i) <=>
          i = e.of \/ (e.what = "delete" /\ Sort[i] = "reaction" /\ On[i] = e.of)
  BY <1>1, AboutIs
<1>7. \A i \in Item :
        /\ Sort[i] = "reaction" => On[i] \in Item /\ Sort[On[i]] = "message"
        /\ Sort[i] = "reaction" /\ copy[On[i]] = 0 => copy[i] = 0
        /\ ~mirrored => copy[i] = 0
  BY <1>0, ItemsAssumption DEF MirrorShape
<1>8. ASSUME NEW i \in Item
      PROVE  IF e \in S!About(i)
             THEN \/ copy'[i] = EventValue(e, i) /\ (e.what = "create" => copy'[i] # 0)
                  \/ copy'[i] = copy[i] /\ copy[i] # 0 /\ e.what = "create" /\ Lasting(i)
                  \/ copy'[i] = copy[i] /\ copy[i] = 0 /\ e.what = "update" /\ Lasting(i)
                  \/ copy'[i] = copy[i] /\ e.what = "create" /\ i \in apart'
             ELSE copy'[i] = copy[i]
  BY <1>0, <1>1, <1>2, <1>3, <1>4, <1>5, <1>6, <1>7 DEF EventValue, Lasting
<1>9. Applied(e)
  BY <1>1, <1>5, <1>8 DEF Applied
<1>10. \A i \in Item : Sort[i] = "reaction" /\ copy'[On[i]] = 0 => copy'[i] = 0
  BY <1>0, <1>1, <1>2, <1>3, <1>4, <1>5, <1>7
<1>11. ~mirrored => \A i \in Item : copy'[i] = 0
  BY <1>0, <1>1, <1>2, <1>3, <1>4, <1>5, <1>7
<1> QED
  BY <1>5, <1>9, <1>10, <1>11, ReceiveKeeps

-----------------------------------------------------------------------------
(* The theorem.                                                            *)

LEMMA MirrorInit == ASSUME S!FInit PROVE Mirror
<1>1. 0 \in 0..MaxClock /\ NoRequest \notin S!RequestRecord
  BY ItemsAssumption
<1>2. S!TypeOK
  BY <1>1 DEF S!FInit, S!TypeOK, S!NoSnapshot, S!Snapshot
<1>3. MovesKnown /\ WritesName
  BY DEF S!FInit, MovesKnown, Moving, WritesName
<1>4. MirrorShape
  BY ItemsAssumption DEF S!FInit, MirrorShape, Taken, S!NoSnapshot
<1>5. ASSUME NEW i \in Item PROVE ItemFacts(i, 0, 0)
  <2>1. S!About(i) = {} /\ content[i] = 0 /\ copy[i] = 0 /\ seen[i] = 0
        /\ \A q \in Call : ~Taken(q)
    BY DEF S!FInit, S!About, Taken, S!NoSnapshot
  <2> QED
    BY <2>1 DEF ItemFacts, ToldOf, LastingFacts, WrittenBetween
<1>6. Copies
  <2>1. 0 \in 0..clock
    BY DEF S!FInit
  <2> QED
    BY <1>5, <2>1 DEF Copies
<1> QED
  BY <1>2, <1>3, <1>4, <1>6 DEF Mirror

LEMMA MirrorStutters ==
  ASSUME Mirror, UNCHANGED space
  PROVE  Mirror'
<1>0. S!TypeOK /\ MovesKnown /\ WritesName /\ MirrorShape /\ Copies
  BY DEF Mirror
<1>1. UNCHANGED <<members, content, made, clock, events, mirrored, copy, rows, requests,
                  seen, apart, broken>>
  BY DEF space
<1>2. S!TypeOK'
  BY <1>0, <1>1 DEF S!TypeOK
<1>3. MovesKnown' /\ WritesName'
  BY <1>0, <1>1, MovesStay DEF WritesName
<1>4. CopiesStay
  BY <1>1 DEF CopiesStay, Taken
<1> QED
  BY <1>0, <1>2, <1>3, <1>4, CopiesAreKept DEF Mirror

LEMMA MirrorStep ==
  ASSUME Mirror, S!FNext
  PROVE  Mirror'
<1>1. ASSUME NEW i \in Item, S!Write(i)
      PROVE  Mirror'
  BY <1>1, SpaceWriteAtHomeStep, SpaceBulkDeleteStep
     DEF S!Write, S!CreateMessage, S!UpdateMessage, S!DeleteMessage, S!AddReaction,
         S!RemoveOwnReaction, S!CreateEmoji, S!UpdateEmoji, S!DeleteEmoji, S!JoinSpace,
         S!LeaveSpace
<1>2. ASSUME NEW q \in Call, NEW u \in Fan, NEW i \in Item, S!Forward(q, u, i)
      PROVE  Mirror'
  BY <1>2, SpaceForwardWriteStep
     DEF S!Forward, S!ForwardMessage, S!ForwardEdit, S!ForwardDelete, S!ForwardReaction,
         S!Writes
<1>3. ASSUME NEW q \in Call, S!Serve(q)
      PROVE  Mirror'
  BY <1>3, SpaceRefuseStep, SpaceServeJoinStep, SpaceBuildSnapshotStep, SpaceServeLeaveStep, SpaceServeWriteStep
     DEF S!Serve, S!ServeSend, S!ServeEdit, S!ServeDelete, S!ServeReact, S!Writes
<1>4. ASSUME NEW q \in Call, S!Resume(q)
      PROVE  Mirror'
  BY <1>4, SpaceUnheardStep, SpaceFinishLeaveStep, SpaceApplySpaceStep, SpaceApplyMessagesStep DEF S!Resume
<1>5. ASSUME NEW e \in events, S!Receive(e)
      PROVE  Mirror'
  BY <1>5, SpaceApplyMessageCreateStep, SpaceApplyMessageUpdateStep, SpaceApplyMessageDeleteStep,
     SpaceApplyReactionStep, SpaceApplyEmojiUpsertStep, SpaceApplyEmojiDeleteStep, SpaceApplyMemberJoinStep,
     SpaceApplyMemberGoneStep, SpaceApplyMemberLeaveStep DEF S!Receive
<1> QED
  BY <1>1, <1>2, <1>3, <1>4, <1>5, SpaceKickMemberStep, SpaceCreateBanStep, SpaceInitiateJoinStep,
     SpaceForwardLeaveStep, SpaceGiveUpStep DEF S!FNext

LEMMA MirrorSuffices == Mirror => MirrorHolds
<1> SUFFICES ASSUME Mirror PROVE MirrorHolds
  OBVIOUS
<1>0. S!TypeOK /\ MovesKnown /\ Copies
  BY DEF Mirror
<1>1. S!CopyAgrees
  <2> SUFFICES ASSUME NEW i \in Item, S!About(i) = {}
               PROVE  i \in apart \/ copy[i] = content[i]
    BY DEF S!CopyAgrees
  <2>1. PICK last \in 0..clock, born \in 0..clock : ItemFacts(i, last, born)
    BY <1>0 DEF Copies
  <2> QED
    BY <2>1 DEF ItemFacts, ToldOf
<1>2. S!MembershipAgrees
  <2> SUFFICES ASSUME NEW u \in Fan, S!Moves(u) = {}, u \notin broken
               PROVE  u \in rows <=> u \in members
    BY DEF S!MembershipAgrees
  <2>1. \A q \in Call : ~Moving(q, u)
    BY DEF S!Moves, Moving
  <2> QED
    BY <1>0, <2>1 DEF MovesKnown
<1> QED
  BY <1>0, <1>1, <1>2 DEF MirrorHolds

\* However its events are ordered and wherever a join or a leave breaks off, what
\* the mirror holds of an item no event is under way for is what the home holds,
\* unless the home did not tell it or it was told out of order, and a fan with no
\* request in progress is a member on both servers or on neither (apply_event,
\* apply_snapshot, serve_join, forward_leave).
THEOREM MirrorIsFaithful == S!FSpec => []MirrorHolds
<1>1. [S!FNext]_(S!fvars) /\ Mirror => Mirror'
  BY MirrorStep, MirrorStutters DEF S!fvars, S!home, S!mirror, space
<1>2. S!FSpec => []Mirror
  BY <1>1, MirrorInit, PTL DEF S!FSpec
<1> QED
  BY <1>2, MirrorSuffices, PTL

\* The same of every behaviour of the run (apply_event, apply_snapshot).
THEOREM MirrorKept == MCSpec => []MirrorHolds
<1>1. MCInit => Mirror
  BY MirrorInit DEF MCInit
<1>2. Mirror /\ [MCNext]_<<space, direct, focus>> => Mirror'
  BY MirrorStep, MirrorStutters DEF MCNext
<1> QED
  BY <1>1, <1>2, MirrorSuffices, PTL DEF MCSpec


LEMMA RowsStay ==
  ASSUME S!TypeOK, S!FNext
  PROVE  \A u \in rows \ rows' :
           \E q \in Call : S!Runs(q, {"leave"}, "done") /\ requests[q].who = u
<1>1. ASSUME NEW i \in Item, S!Write(i)
      PROVE  rows' = rows
  BY <1>1 DEF S!Write, S!WriteAtHome, S!CreateMessage, S!UpdateMessage, S!DeleteMessage,
     S!AddReaction, S!RemoveOwnReaction, S!CreateEmoji, S!UpdateEmoji, S!DeleteEmoji,
     S!JoinSpace, S!LeaveSpace, S!BulkDelete, S!mirror
<1>2. ASSUME NEW u \in Fan, S!KickMember(u) \/ S!CreateBan(u)
      PROVE  rows' = rows
  BY <1>2 DEF S!KickMember, S!CreateBan, S!mirror
<1>3. ASSUME NEW q \in Call, NEW u \in Fan,
             \/ S!InitiateJoin(q, u) \/ S!ForwardLeave(q, u)
             \/ \E i \in Item : S!Forward(q, u, i)
      PROVE  rows' = rows
  BY <1>3 DEF S!InitiateJoin, S!ForwardLeave, S!Forward, S!ForwardMessage, S!ForwardEdit,
     S!ForwardDelete, S!ForwardReaction, S!ForwardWrite, S!mirror
<1>4. ASSUME NEW q \in Call, S!Serve(q) \/ S!GiveUp(q)
      PROVE  rows' = rows
  BY <1>4 DEF S!Serve, S!GiveUp, S!Refuse, S!ServeJoin, S!BuildSnapshot, S!ServeLeave,
     S!ServeSend, S!ServeEdit, S!ServeDelete, S!ServeReact, S!ServeWrite, S!mirror
<1>5. ASSUME NEW q \in Call, S!Resume(q), NEW u \in rows \ rows'
      PROVE  S!Runs(q, {"leave"}, "done") /\ requests[q].who = u
  BY <1>5 DEF S!Resume, S!Unheard, S!FinishLeave, S!ApplySpace, S!ApplyMessages, S!mirror
<1>6. ASSUME NEW e \in events, S!Receive(e)
      PROVE  rows' = rows
  <2>1. CASE S!ApplyMemberLeave(e)
    <3>1. e.of \in {S!Qualified(u) : u \in Fan}
      BY <2>1 DEF S!TypeOK, S!Event, S!ApplyMemberLeave
    <3>2. e.of \notin Fan
      BY <3>1, ItemsAssumption
    <3> QED
      BY <2>1, <3>2 DEF S!TypeOK, S!ApplyMemberLeave
  <2>2. CASE ~S!ApplyMemberLeave(e)
    BY <1>6, <2>2 DEF S!Receive, S!ApplyMessageCreate, S!ApplyMessageUpdate,
       S!ApplyMessageDelete, S!ApplyReaction, S!ApplyEmojiUpsert, S!ApplyEmojiDelete,
       S!ApplyMemberJoin, S!ApplyMemberGone, S!Apply
  <2> QED
    BY <2>1, <2>2
<1> QED
  BY <1>1, <1>2, <1>3, <1>4, <1>5, <1>6 DEF S!FNext

\* No announcement of the home takes a fan's row at the mirror, so that a kick does
\* not: only their own leaving does (apply_member_leave, kick_member).
THEOREM RowsEndByLeaving == S!FSpec => S!OnlyLeavingRemoves
<1>1. [S!FNext]_(S!fvars) /\ Mirror => Mirror'
  BY MirrorStep, MirrorStutters DEF S!fvars, S!home, S!mirror, space
<1>2. S!FSpec => []Mirror
  BY <1>1, MirrorInit, PTL DEF S!FSpec
<1>3. Mirror /\ [S!FNext]_(S!fvars) =>
        [\A u \in rows \ rows' :
           \E q \in Call : S!Runs(q, {"leave"}, "done") /\ requests[q].who = u]_(S!fvars)
  BY RowsStay DEF Mirror
<1> QED
  BY <1>2, <1>3, PTL DEF S!FSpec, S!OnlyLeavingRemoves
=============================================================================
