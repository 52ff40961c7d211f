---------------------------- MODULE VoiceAccess ----------------------------
(***************************************************************************)
(* Voice membership (state.voice_states) against the participants of the   *)
(* LiveKit rooms: joins and leaves over REST and the gateway, the removal  *)
(* of a participant from the room they left, revocation of access, the     *)
(* durable queue voice_evictions and the worker that retries it.           *)
(*                                                                         *)
(* A request is a task that runs between the awaits of its handler; what   *)
(* it has read is in its record.  LiveKit is configured; it and the        *)
(* database fail at most MaxFaults times, crashes included.  A client      *)
(* connects to the room of its membership while it holds it: a token that  *)
(* outlives its membership is not modelled.                                *)
(***************************************************************************)
EXTENDS Naturals, FiniteSets

CONSTANTS
  User, Channel,
  Gateway,     \* gateway sessions a user may have
  Worker,      \* requests in flight at once
  Sweeper,     \* reconcile_voice_access, of which try_lock lets one run
  None,        \* no membership
  Idle,        \* a task slot without a request
  Rest,        \* a request that is not of a gateway session
  MaxJoins,    \* bound on joins, which also numbers the REST sessions
  MaxFaults    \* bound on failures and crashes

ASSUME ConstantsAssumption ==
  /\ MaxJoins \in Nat /\ MaxFaults \in Nat
  /\ Sweeper \notin Worker
  /\ Rest \notin Gateway /\ \A n \in 1..MaxJoins : n \notin Gateway

VARIABLES
  allowed,   \* pairs (user, channel) require_channel_permission lets connect
  voice,     \* state.voice_states
  task,      \* what each task does next, and what it has read
  rows,      \* the sweep's result of SELECT .. FROM voice_evictions
  olds,      \* the sweep's copy of state.voice_states, still to be checked
  sweep,     \* "drain", "check" or "idle"
  queue,     \* table voice_evictions
  room,      \* participants of the LiveKit rooms
  joins,     \* joins so far
  faults,    \* failures so far
  stray      \* history: participants the server has lost track of

vars == <<allowed, voice, task, rows, olds, sweep, queue, room, joins, faults,
          stray>>

Task == Worker \cup {Sweeper}
Pair == User \X Channel

\* nth tells one membership from the next; the code compares the other fields.
Membership == [channel : Channel, session : Gateway \cup 1..MaxJoins,
               nth : 1..MaxJoins]

\* A task at "queue", "attempt" or "dequeue" runs evict_voice_participant for
\* its user and channel.  vs is the VoiceState a join will insert, or the one
\* drop_voice_session observed and clears once the eviction is queued; a task
\* that only cleans up a room has none.
Step == {"join", "leave", "remove", "revoke", "queue", "attempt", "dequeue",
         "clear"}
Job(step, u, c, by, vs) ==
  [step |-> step, user |-> u, channel |-> c, by |-> by, vs |-> vs]
Jobs == [step : Step, user : User, channel : Channel, by : Gateway \cup {Rest},
         vs : Membership \cup {None}]

ASSUME SentinelAssumption == None \notin Membership /\ Idle \notin Jobs

Init ==
  /\ allowed = Pair
  /\ voice = [u \in User |-> None]
  /\ task = [t \in Task |-> Idle]
  /\ rows = {} /\ olds = {} /\ sweep = "idle"
  /\ queue = {} /\ room = {}
  /\ joins = 0 /\ faults = 0
  /\ stray = {}

In(u, c) == voice[u] # None /\ voice[u].channel = c

At(t, step) == task[t] # Idle /\ task[t].step = step
Target(t) == <<task[t].user, task[t].channel>>
Run(t, job) == task' = [task EXCEPT ![t] = job]
Finish(t) == Run(t, Idle)
Go(t, step) == task' = [task EXCEPT ![t].step = step]

\* What evict_voice_participant's callers do when it returns Ok.
Evicted(t) == IF task[t].vs = None THEN Finish(t) ELSE Go(t, "clear")

\* A database or LiveKit call fails.
Fault == faults < MaxFaults /\ faults' = faults + 1

\* The participant, if it is in a room its user is not a member of.
Left(t) ==
  IF In(task[t].user, task[t].channel) THEN {} ELSE {Target(t)} \cap room

----------------------------------------------------------------------------
(* Requests.                                                               *)

\* Mutant: the first session has no number.
AskJoinFromZero(t, u, c) ==
  /\ task[t] = Idle /\ joins < MaxJoins
  /\ <<u, c>> \in allowed
  /\ joins' = joins + 1
  /\ Run(t, Job("join", u, c, Rest,
                [channel |-> c, session |-> joins, nth |-> joins']))
  /\ UNCHANGED <<allowed, voice, rows, olds, sweep, queue, room, faults, stray>>

\* join_voice and leave_voice, up to their last await before the state: both
\* ask for the connect permission.
AskJoin(t, u, c) ==
  /\ task[t] = Idle /\ joins < MaxJoins
  /\ <<u, c>> \in allowed
  /\ joins' = joins + 1
  /\ Run(t, Job("join", u, c, Rest,
                [channel |-> c, session |-> joins', nth |-> joins']))
  /\ UNCHANGED <<allowed, voice, rows, olds, sweep, queue, room, faults, stray>>

AskLeave(t, u, c) ==
  /\ task[t] = Idle
  /\ <<u, c>> \in allowed
  /\ Run(t, Job("leave", u, c, Rest, None))
  /\ UNCHANGED <<allowed, voice, rows, olds, sweep, queue, room, joins, faults,
                 stray>>

\* A gateway session handles one message at a time.
Listening(u, g) ==
  \A t \in Worker : task[t] # Idle /\ task[t].user = u => task[t].by # g

\* VOICE_STATE_UPDATE naming a channel the user is not in; in the channel they
\* are in it only changes flags.
AskGatewayJoin(t, u, c, g) ==
  /\ task[t] = Idle /\ joins < MaxJoins /\ Listening(u, g)
  /\ <<u, c>> \in allowed /\ ~In(u, c)
  /\ joins' = joins + 1
  /\ Run(t, Job("join", u, c, g, [channel |-> c, session |-> g, nth |-> joins']))
  /\ UNCHANGED <<allowed, voice, rows, olds, sweep, queue, room, faults, stray>>

\* The room a join leaves behind.  REST compares it with the room joined; the
\* gateway does not look again.
Behind(t) ==
  {c \in Channel : /\ In(task[t].user, c)
                   /\ task[t].by = Rest => c # task[t].channel}

\* join_voice_channel, and the removal from the room left: spawned by REST,
\* evict_voice_participant on the gateway.
Join(t) ==
  LET u == task[t].user  by == task[t].by IN
  /\ At(t, "join")
  /\ voice' = [voice EXCEPT ![u] = task[t].vs]
  /\ \/ \E c \in Behind(t) :
          Run(t, Job(IF by = Rest THEN "remove" ELSE "queue", u, c, by, None))
     \/ Behind(t) = {} /\ Finish(t)
  /\ UNCHANGED <<allowed, rows, olds, sweep, queue, room, joins, faults, stray>>

\* leave_voice_channel_if_current, and the spawned removal.
Leave(t) ==
  LET u == task[t].user  c == task[t].channel IN
  /\ At(t, "leave")
  /\ \/ /\ In(u, c)
        /\ voice' = [voice EXCEPT ![u] = None]
        /\ Run(t, Job("remove", u, c, Rest, None))
     \/ /\ ~In(u, c)
        /\ Finish(t)
        /\ UNCHANGED voice
  /\ UNCHANGED <<allowed, rows, olds, sweep, queue, room, joins, faults, stray>>

\* leave_voice_channel: VOICE_STATE_UPDATE without a channel, and the cleanup
\* of a session that ended.
GatewayLeave(t, u, g) ==
  /\ task[t] = Idle /\ Listening(u, g)
  /\ voice[u] # None
  /\ voice' = [voice EXCEPT ![u] = None]
  /\ Run(t, Job("queue", u, voice[u].channel, g, None))
  /\ UNCHANGED <<allowed, rows, olds, sweep, queue, room, joins, faults, stray>>

\* A kick, ban, DM removal or deletion: access goes first, then the handler
\* looks for the voice session that had it.  refresh_channel_permissions does so
\* too when LiveKit does not take a participant's new grants.
Revoke(t, u, c) ==
  /\ task[t] = Idle
  /\ \/ allowed' = allowed \ {<<u, c>>} /\ UNCHANGED faults
     \/ Fault /\ UNCHANGED allowed
  /\ Run(t, Job("revoke", u, c, Rest, None))
  /\ UNCHANGED <<voice, rows, olds, sweep, queue, room, joins, stray>>

FindSession(t) ==
  LET u == task[t].user  c == task[t].channel IN
  /\ At(t, "revoke")
  /\ IF In(u, c) THEN Run(t, Job("queue", u, c, Rest, voice[u])) ELSE Finish(t)
  /\ UNCHANGED <<allowed, voice, rows, olds, sweep, queue, room, joins, faults,
                 stray>>

\* Access comes and goes without a handler that looks at voice (roles,
\* overwrites, a new membership).
ChangeAccess(u, c) ==
  /\ allowed' = IF <<u, c>> \in allowed THEN allowed \ {<<u, c>>}
                                        ELSE allowed \cup {<<u, c>>}
  /\ UNCHANGED <<voice, task, rows, olds, sweep, queue, room, joins, faults,
                 stray>>

----------------------------------------------------------------------------
(* Removing a participant.                                                 *)

\* The spawned removal of the REST handlers: one attempt, its result ignored.
Remove(t) ==
  /\ At(t, "remove")
  /\ Finish(t)
  /\ \/ /\ room' = room \ {Target(t)} /\ stray' = stray \ {Target(t)}
        /\ UNCHANGED faults
     \/ /\ Fault
        /\ stray' = stray \cup Left(t)
        /\ UNCHANGED room
  /\ UNCHANGED <<allowed, voice, rows, olds, sweep, queue, joins>>

\* INSERT .. ON CONFLICT DO NOTHING; an error ends the task, which leaves the
\* membership it observed in place.
Enqueue(t) ==
  /\ At(t, "queue")
  /\ \/ /\ queue' = queue \cup {Target(t)}
        /\ Go(t, "attempt")
        /\ UNCHANGED <<faults, stray>>
     \/ /\ Fault
        /\ Finish(t)
        /\ stray' = stray \cup Left(t)
        /\ UNCHANGED queue
  /\ UNCHANGED <<allowed, voice, rows, olds, sweep, room, joins>>

\* Mutant: takes any answer of LiveKit for a removal.
EvictAnyway(t) ==
  /\ At(t, "attempt")
  /\ Go(t, "dequeue")
  /\ \/ /\ room' = room \ {Target(t)} /\ stray' = stray \ {Target(t)}
        /\ UNCHANGED faults
     \/ /\ Fault
        /\ UNCHANGED <<room, stray>>
  /\ UNCHANGED <<allowed, voice, rows, olds, sweep, queue, joins>>

\* try_remove_participant: true when LiveKit removed them or has no such
\* participant.  Otherwise the row is meant to stay for the sweep.
Evict(t) ==
  /\ At(t, "attempt")
  /\ \/ /\ room' = room \ {Target(t)} /\ stray' = stray \ {Target(t)}
        /\ Go(t, "dequeue")
        /\ UNCHANGED faults
     \/ /\ Fault
        /\ Evicted(t)
        /\ stray' = stray \cup (({Target(t)} \cap room) \ queue)
        /\ UNCHANGED room
  /\ UNCHANGED <<allowed, voice, rows, olds, sweep, queue, joins>>

\* DELETE of the row.  An error is returned to the caller, which gives up; the
\* drain gives up its other rows too.
Dequeue(t) ==
  /\ At(t, "dequeue")
  /\ \/ /\ queue' = queue \ {Target(t)}
        /\ Evicted(t)
        /\ UNCHANGED <<rows, faults>>
     \/ /\ Fault
        /\ Finish(t)
        /\ rows' = IF t = Sweeper THEN {} ELSE rows
        /\ UNCHANGED queue
  /\ UNCHANGED <<allowed, voice, olds, sweep, room, joins, stray>>

\* remove_if: the entry goes if channel and session are those observed.
Matches(vs, u) ==
  voice[u] # None /\ voice[u].channel = vs.channel /\ voice[u].session = vs.session

Clear(t) ==
  LET u == task[t].user IN
  /\ At(t, "clear")
  /\ Finish(t)
  /\ \/ /\ Matches(task[t].vs, u)
        /\ voice' = [voice EXCEPT ![u] = None]
     \/ /\ ~Matches(task[t].vs, u)
        /\ UNCHANGED voice
  /\ UNCHANGED <<allowed, rows, olds, sweep, queue, room, joins, faults, stray>>

----------------------------------------------------------------------------
(* reconcile_voice_access.                                                 *)

\* Mutant: leaves out the rows of users who are in voice again.
StartSweepOfAbsent ==
  /\ sweep = "idle"
  /\ sweep' = "drain"
  /\ rows' = {p \in queue : voice[p[1]] = None}
  /\ UNCHANGED <<allowed, voice, task, olds, queue, room, joins, faults, stray>>

StartSweep ==
  /\ sweep = "idle"
  /\ sweep' = "drain"
  /\ \/ /\ rows' = queue
        /\ UNCHANGED faults
     \/ /\ Fault
        /\ UNCHANGED rows
  /\ UNCHANGED <<allowed, voice, task, olds, queue, room, joins, stray>>

DrainRow(p) ==
  /\ sweep = "drain" /\ task[Sweeper] = Idle
  /\ p \in rows
  /\ rows' = rows \ {p}
  /\ Run(Sweeper, Job("attempt", p[1], p[2], Rest, None))
  /\ UNCHANGED <<allowed, voice, olds, sweep, queue, room, joins, faults, stray>>

CopyStates ==
  /\ sweep = "drain" /\ task[Sweeper] = Idle /\ rows = {}
  /\ sweep' = "check"
  /\ olds' = {[user |-> u, vs |-> voice[u]] : u \in {v \in User : voice[v] # None}}
  /\ UNCHANGED <<allowed, voice, task, rows, queue, room, joins, faults, stray>>

\* Mutant: only looks at memberships made over REST.
CheckRest(o) ==
  /\ sweep = "check" /\ task[Sweeper] = Idle
  /\ o \in olds
  /\ olds' = olds \ {o}
  /\ \/ /\ <<o.user, o.vs.channel>> \in allowed \/ o.vs.session \in Gateway
        /\ UNCHANGED <<task, faults>>
     \/ /\ <<o.user, o.vs.channel>> \notin allowed /\ o.vs.session \notin Gateway
        /\ Run(Sweeper, Job("queue", o.user, o.vs.channel, Rest, o.vs))
        /\ UNCHANGED faults
  /\ UNCHANGED <<allowed, voice, rows, sweep, queue, room, joins, stray>>

\* A lookup that fails counts as a refusal.
CheckState(o) ==
  /\ sweep = "check" /\ task[Sweeper] = Idle
  /\ o \in olds
  /\ olds' = olds \ {o}
  /\ \/ /\ <<o.user, o.vs.channel>> \in allowed
        /\ UNCHANGED <<task, faults>>
     \/ /\ \/ <<o.user, o.vs.channel>> \notin allowed /\ UNCHANGED faults
           \/ <<o.user, o.vs.channel>> \in allowed /\ Fault
        /\ Run(Sweeper, Job("queue", o.user, o.vs.channel, Rest, o.vs))
  /\ UNCHANGED <<allowed, voice, rows, sweep, queue, room, joins, stray>>

EndSweep ==
  /\ sweep = "check" /\ task[Sweeper] = Idle /\ olds = {}
  /\ sweep' = "idle"
  /\ UNCHANGED <<allowed, voice, task, rows, olds, queue, room, joins, faults,
                 stray>>

----------------------------------------------------------------------------
(* LiveKit's side, and a restart of the server.                            *)

\* An eviction of the participant has had LiveKit's answer and is not over yet.
Ending(p) ==
  \E t \in Task : /\ At(t, "dequeue") \/ At(t, "clear")
                  /\ Target(t) = p

\* A member's client connects, or connects again.
Connect(u) ==
  LET p == <<u, voice[u].channel>> IN
  /\ voice[u] # None
  /\ room' = room \cup {p}
  /\ stray' = IF Ending(p) THEN stray \cup {p} ELSE stray
  /\ UNCHANGED <<allowed, voice, task, rows, olds, sweep, queue, joins, faults>>

Disconnect(p) ==
  /\ p \in room
  /\ room' = room \ {p} /\ stray' = stray \ {p}
  /\ UNCHANGED <<allowed, voice, task, rows, olds, sweep, queue, joins, faults>>

\* The connection of a REST request closes, and its handler is dropped where it
\* waits; so is a sweep that runs after a request.
Abandon(t) ==
  /\ task[t] # Idle /\ task[t].by = Rest
  /\ Fault
  /\ Finish(t)
  /\ stray' = IF task[t].step \in {"remove", "queue", "attempt"}
                THEN stray \cup (Left(t) \ queue) ELSE stray
  /\ \/ t # Sweeper /\ UNCHANGED <<rows, olds, sweep>>
     \/ t = Sweeper /\ rows' = {} /\ olds' = {} /\ sweep' = "idle"
  /\ UNCHANGED <<allowed, voice, queue, room, joins>>

\* Memberships and tasks are in memory, rows and rooms are not.
Crash ==
  /\ Fault
  /\ voice' = [u \in User |-> None]
  /\ task' = [t \in Task |-> Idle]
  /\ rows' = {} /\ olds' = {} /\ sweep' = "idle"
  /\ stray' = stray \cup (room \ queue)
  /\ UNCHANGED <<allowed, queue, room, joins>>

----------------------------------------------------------------------------

Evicting(t) == Enqueue(t) \/ Evict(t) \/ Dequeue(t) \/ Clear(t)
Progress(t) == Join(t) \/ Leave(t) \/ FindSession(t) \/ Remove(t) \/ Evicting(t)

Request(t) ==
  \E u \in User :
    \/ \E c \in Channel : AskJoin(t, u, c) \/ AskLeave(t, u, c) \/ Revoke(t, u, c)
    \/ \E g \in Gateway :
         \/ \E c \in Channel : AskGatewayJoin(t, u, c, g)
         \/ GatewayLeave(t, u, g)

Sweep ==
  \/ StartSweep \/ CopyStates \/ EndSweep
  \/ \E p \in rows : DrainRow(p)
  \/ \E o \in olds : CheckState(o)

Outside ==
  \/ \E u \in User : Connect(u) \/ \E c \in Channel : ChangeAccess(u, c)
  \/ \E p \in room : Disconnect(p)
  \/ \E t \in Task : Abandon(t)
  \/ Crash

Next ==
  \/ \E t \in Worker : Request(t) \/ Progress(t)
  \/ Evicting(Sweeper)
  \/ Sweep
  \/ Outside

Spec == Init /\ [][Next]_vars

\* Handlers and the two-second sweep run on; LiveKit and the database answer,
\* but for MaxFaults times.
Fairness ==
  /\ \A t \in Worker : WF_vars(Progress(t))
  /\ WF_vars(Evicting(Sweeper)) /\ WF_vars(Sweep)

FairSpec == Spec /\ Fairness

----------------------------------------------------------------------------

TypeOK ==
  /\ allowed \subseteq Pair
  /\ voice \in [User -> Membership \cup {None}]
  /\ task \in [Task -> Jobs \cup {Idle}]
  /\ rows \subseteq Pair /\ queue \subseteq Pair /\ room \subseteq Pair
  /\ olds \subseteq [user : User, vs : Membership]
  /\ sweep \in {"idle", "drain", "check"}
  /\ joins \in 0..MaxJoins /\ faults \in 0..MaxFaults
  /\ stray \subseteq Pair

\* Somebody is about to take the participant out of the room.
Leaving(p) ==
  \E t \in Task : /\ task[t] # Idle /\ Target(t) = p
                  /\ task[t].step \in {"remove", "queue", "attempt"}

\* A participant whose user is not a member of the channel has a row in
\* voice_evictions or a task on its way to LiveKit; the exceptions are those a
\* failure or a crash made the server forget, and those who came back while
\* their eviction was ending.
RoomAccounted ==
  \A u \in User, c \in Channel :
    <<u, c>> \in room => \/ In(u, c) \/ Leaving(<<u, c>>)
                         \/ <<u, c>> \in queue \cup stray

\* A user who stays without access to a channel ends up, and stays, out of its
\* voice membership, whatever joins were under way and whatever failed.
RevokedLeaves ==
  \A u \in User, c \in Channel :
    <>[](<<u, c>> \notin allowed) => <>[]~In(u, c)

\* "failed removals retry" (docs/security-operations.md): every row is
\* eventually worked off.
QueueDrains == \A p \in Pair : p \in queue ~> p \notin queue

\* security.rs: "Failed evictions remain in a durable queue for the periodic
\* worker."  When LiveKit does not take a participant out of a room its user has
\* left, the row is there for the sweep.
FailedEvictionsStay ==
  [][\A t \in Task :
       Evict(t) /\ faults' # faults /\ Left(t) # {} => Target(t) \in queue]_vars
=============================================================================
