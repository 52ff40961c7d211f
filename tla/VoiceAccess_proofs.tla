-------------------------- MODULE VoiceAccess_proofs --------------------------
(***************************************************************************)
(* Type correctness and the accounting of LiveKit's participants, for any  *)
(* number of users, channels, requests, joins and failures.  RoomAccounted *)
(* is not inductive alone: a task that deletes a row, or a membership,     *)
(* relies on what its own eviction did before (EvictionDone).              *)
(***************************************************************************)
EXTENDS VoiceAccess, TLAPS

\* A join has the VoiceState to insert, a clear the one it observed, and any
\* VoiceState a task has is of the channel the task is about.
JobsCarryState ==
  /\ \A t \in Task : At(t, "join") \/ At(t, "clear") => task[t].vs # None
  /\ \A t \in Task : task[t] # Idle /\ task[t].vs # None =>
                     task[t].vs.channel = task[t].channel

\* Past the call to LiveKit the participant is out of the room, or came back,
\* or was forgotten, or still has its row.
EvictionDone ==
  \A t \in Task :
    At(t, "dequeue") \/ At(t, "clear") =>
      \/ Target(t) \notin room
      \/ Target(t) \in stray
      \/ At(t, "clear") /\ Target(t) \in queue

IInv == TypeOK /\ JobsCarryState /\ EvictionDone /\ RoomAccounted

\* Nobody is in voice at first.
LEMMA InitIInv == Init => IInv
BY ConstantsAssumption
DEF Init, IInv, TypeOK, JobsCarryState, EvictionDone, RoomAccounted, At, Pair

----------------------------------------------------------------------------
(* A step that only gives a task something to do.                          *)

\* Requests start, and revocations look for their session, without touching
\* rooms, rows or memberships.
LEMMA QuietStep ==
  ASSUME IInv, NEW t \in Task, NEW job \in Jobs \cup {Idle}, Run(t, job),
         task[t] = Idle \/ task[t].step = "revoke",
         job = Idle \/ job.step \in {"join", "leave", "revoke", "queue", "attempt"},
         job # Idle /\ job.step = "join" => job.vs # None,
         job # Idle /\ job.vs # None => job.vs.channel = job.channel,
         UNCHANGED <<voice, room, queue, stray>>
  PROVE  /\ task' \in [Task -> Jobs \cup {Idle}]
         /\ JobsCarryState' /\ EvictionDone' /\ RoomAccounted'
<1> USE DEF IInv, TypeOK, Run
<1>1. task' \in [Task -> Jobs \cup {Idle}] /\ JobsCarryState'
  BY DEF JobsCarryState, At
<1>2. EvictionDone'
  BY DEF EvictionDone, At, Target
<1>3. ASSUME NEW p, Leaving(p) PROVE Leaving(p)'
  BY <1>3 DEF Leaving, Target
<1>4. RoomAccounted'
  BY <1>3 DEF RoomAccounted, In
<1> QED BY <1>1, <1>2, <1>4

\* A handler that has passed its permission check.
LEMMA AskJoinStep ==
  ASSUME IInv, NEW t \in Worker, NEW u \in User, NEW c \in Channel, AskJoin(t, u, c)
  PROVE  IInv'
<1> DEFINE job == Job("join", u, c, Rest,
                      [channel |-> c, session |-> joins', nth |-> joins'])
<1>1. joins' \in 1..MaxJoins /\ joins' \in 0..MaxJoins
  BY ConstantsAssumption DEF AskJoin, IInv, TypeOK
<1>2. job.vs \in Membership /\ job.vs # None /\ job.vs.channel = job.channel
  BY <1>1, SentinelAssumption DEF Job, Membership
<1>3. job \in Jobs /\ job.step = "join" /\ t \in Task
  BY <1>2 DEF Job, Jobs, Step, Task
<1>4. Run(t, job) /\ task[t] = Idle /\ UNCHANGED <<voice, room, queue, stray>>
  BY DEF AskJoin
<1> HIDE DEF job
<1>5. task' \in [Task -> Jobs \cup {Idle}] /\ JobsCarryState' /\ EvictionDone'
      /\ RoomAccounted'
  BY <1>2, <1>3, <1>4, QuietStep
<1> QED BY <1>1, <1>5 DEF AskJoin, IInv, TypeOK

LEMMA AskGatewayJoinStep ==
  ASSUME IInv, NEW t \in Worker, NEW u \in User, NEW c \in Channel,
         NEW g \in Gateway, AskGatewayJoin(t, u, c, g)
  PROVE  IInv'
<1> DEFINE job == Job("join", u, c, g,
                      [channel |-> c, session |-> g, nth |-> joins'])
<1>1. joins' \in 1..MaxJoins /\ joins' \in 0..MaxJoins
  BY ConstantsAssumption DEF AskGatewayJoin, IInv, TypeOK
<1>2. job.vs \in Membership /\ job.vs # None /\ job.vs.channel = job.channel
  BY <1>1, SentinelAssumption DEF Job, Membership
<1>3. job \in Jobs /\ job.step = "join" /\ t \in Task
  BY <1>2 DEF Job, Jobs, Step, Task
<1>4. Run(t, job) /\ task[t] = Idle /\ UNCHANGED <<voice, room, queue, stray>>
  BY DEF AskGatewayJoin
<1> HIDE DEF job
<1>5. task' \in [Task -> Jobs \cup {Idle}] /\ JobsCarryState' /\ EvictionDone'
      /\ RoomAccounted'
  BY <1>2, <1>3, <1>4, QuietStep
<1> QED BY <1>1, <1>5 DEF AskGatewayJoin, IInv, TypeOK

LEMMA AskLeaveStep ==
  ASSUME IInv, NEW t \in Worker, NEW u \in User, NEW c \in Channel, AskLeave(t, u, c)
  PROVE  IInv'
<1> DEFINE job == Job("leave", u, c, Rest, None)
<1>1. job \in Jobs /\ job.step \in {"leave", "revoke"} /\ job.vs = None
      /\ t \in Task
  BY DEF Job, Jobs, Step, Task
<1>2. Run(t, job) /\ task[t] = Idle /\ UNCHANGED <<voice, room, queue, stray>>
  BY DEF AskLeave
<1> HIDE DEF job
<1>3. task' \in [Task -> Jobs \cup {Idle}] /\ JobsCarryState' /\ EvictionDone'
      /\ RoomAccounted'
  BY <1>1, <1>2, QuietStep
<1> QED BY <1>3 DEF AskLeave, IInv, TypeOK

LEMMA RevokeStep ==
  ASSUME IInv, NEW t \in Worker, NEW u \in User, NEW c \in Channel, Revoke(t, u, c)
  PROVE  IInv'
<1> DEFINE job == Job("revoke", u, c, Rest, None)
<1>1. job \in Jobs /\ job.step \in {"leave", "revoke"} /\ job.vs = None
      /\ t \in Task
  BY DEF Job, Jobs, Step, Task
<1>2. Run(t, job) /\ task[t] = Idle /\ UNCHANGED <<voice, room, queue, stray>>
  BY DEF Revoke
<1> HIDE DEF job
<1>3. task' \in [Task -> Jobs \cup {Idle}] /\ JobsCarryState' /\ EvictionDone'
      /\ RoomAccounted'
  BY <1>1, <1>2, QuietStep
<1> QED BY <1>3, ConstantsAssumption DEF Revoke, Fault, IInv, TypeOK

LEMMA FindSessionStep ==
  ASSUME IInv, NEW t \in Worker, FindSession(t)
  PROVE  IInv'
<1> DEFINE u == task[t].user
           job == IF In(u, task[t].channel)
                    THEN Job("queue", u, task[t].channel, Rest, voice[u]) ELSE Idle
<1>1. t \in Task /\ task[t] \in Jobs /\ task[t].step = "revoke"
  BY DEF FindSession, At, IInv, TypeOK, Task
<1>2. /\ job \in Jobs \cup {Idle}
      /\ job # Idle => job.step = "queue" /\ job.vs.channel = job.channel
  BY <1>1 DEF Job, Jobs, Step, IInv, TypeOK, In
<1>3. Run(t, job) /\ UNCHANGED <<voice, room, queue, stray>>
  BY DEF FindSession, Finish, Run
<1> HIDE DEF job
<1>4. task' \in [Task -> Jobs \cup {Idle}] /\ JobsCarryState' /\ EvictionDone'
      /\ RoomAccounted'
  BY <1>1, <1>2, <1>3, QuietStep
<1> QED BY <1>4 DEF FindSession, IInv, TypeOK

\* The sweep takes a row, or a membership it found refused.
LEMMA DrainRowStep ==
  ASSUME IInv, NEW p \in rows, DrainRow(p)
  PROVE  IInv'
<1> DEFINE job == Job("attempt", p[1], p[2], Rest, None)
<1>1. job \in Jobs /\ job.step = "attempt" /\ job.vs = None /\ Sweeper \in Task
  BY DEF Job, Jobs, Step, Task, IInv, TypeOK, Pair
<1>2. Run(Sweeper, job) /\ task[Sweeper] = Idle
      /\ UNCHANGED <<voice, room, queue, stray>>
  BY DEF DrainRow
<1> HIDE DEF job
<1>3. task' \in [Task -> Jobs \cup {Idle}] /\ JobsCarryState' /\ EvictionDone'
      /\ RoomAccounted'
  BY <1>1, <1>2, QuietStep
<1> QED BY <1>3 DEF DrainRow, IInv, TypeOK

LEMMA CheckStateStep ==
  ASSUME IInv, NEW o \in olds, CheckState(o)
  PROVE  IInv'
<1> DEFINE job == Job("queue", o.user, o.vs.channel, Rest, o.vs)
<1>1. job \in Jobs /\ job.step = "queue" /\ job.vs.channel = job.channel
      /\ Sweeper \in Task
  BY DEF Job, Jobs, Step, Task, IInv, TypeOK, Membership
<1>2. /\ (Run(Sweeper, job) \/ UNCHANGED task) /\ task[Sweeper] = Idle
      /\ UNCHANGED <<voice, room, queue, stray>>
  BY DEF CheckState
<1>3. faults' \in 0..MaxFaults
  BY ConstantsAssumption DEF CheckState, Fault, IInv, TypeOK
<1> HIDE DEF job
<1>4. task' \in [Task -> Jobs \cup {Idle}] /\ JobsCarryState' /\ EvictionDone'
      /\ RoomAccounted'
  <2>1. CASE Run(Sweeper, job)
    BY <2>1, <1>1, <1>2, QuietStep
  <2>2. CASE UNCHANGED task
    BY <2>2, <1>2 DEF IInv, TypeOK, JobsCarryState, EvictionDone, RoomAccounted,
                      At, Target, In, Leaving
  <2> QED BY <1>2, <2>1, <2>2
<1> QED BY <1>3, <1>4 DEF CheckState, IInv, TypeOK

----------------------------------------------------------------------------
(* Steps that change a membership.                                         *)

\* A join sends the participant of the room left to be removed; the membership
\* of a room joined again is the same participant's.
LEMMA JoinStep ==
  ASSUME IInv, NEW t \in Worker, Join(t)
  PROVE  IInv'
<1> USE DEF IInv, Join
<1>1. t \in Task /\ task[t] \in Jobs /\ task[t].vs \in Membership
  BY DEF TypeOK, JobsCarryState, At, Task, Jobs
<1>0. PICK u \in User : u = task[t].user
  BY <1>1 DEF Jobs
<1>2. /\ voice' = [voice EXCEPT ![u] = task[t].vs]
      /\ UNCHANGED <<room, queue, stray>>
  BY <1>0
<1>3. PICK job \in Jobs \cup {Idle} : /\ task' = [task EXCEPT ![t] = job]
                                      /\ job # Idle => job.step \in {"remove", "queue"}
                                                      /\ job.vs = None
  BY <1>1 DEF Run, Finish, Job, Jobs, Step, Behind
<1>4. TypeOK' /\ JobsCarryState'
  BY <1>1, <1>2, <1>3 DEF TypeOK, JobsCarryState, At
<1>5. EvictionDone'
  BY <1>1, <1>2, <1>3 DEF TypeOK, EvictionDone, At, Target
<1>6. ASSUME NEW p, Leaving(p) PROVE Leaving(p)'
  BY <1>1, <1>3, <1>6 DEF Leaving, Target, At, TypeOK
<1>7. ASSUME NEW c \in Channel, In(u, c), ~In(u, c)'
      PROVE  Leaving(<<u, c>>)'
  <2>1. voice'[u].channel = task[t].channel /\ voice'[u] # None
    BY <1>1, <1>2, SentinelAssumption DEF TypeOK, JobsCarryState, At
  <2>2. c \in Behind(t) /\ \A d \in Behind(t) : d = c
    BY <1>0, <1>7, <2>1 DEF Behind, In
  <2>3. task' = [task EXCEPT ![t] = Job(IF task[t].by = Rest THEN "remove" ELSE "queue",
                                        u, c, task[t].by, None)]
    BY <1>0, <2>2 DEF Run
  <2>4. Job(IF task[t].by = Rest THEN "remove" ELSE "queue", u, c, task[t].by, None)
          \in Jobs
    BY <1>1, <1>2 DEF Job, Jobs, Step
  <2> QED BY <1>1, <2>3, <2>4, SentinelAssumption DEF Leaving, Target, Job, TypeOK
<1>8. ASSUME NEW v \in User, NEW c \in Channel, v # u, In(v, c) PROVE In(v, c)'
  BY <1>2, <1>8 DEF In, TypeOK
<1>9. RoomAccounted'
  BY <1>2, <1>6, <1>7, <1>8 DEF RoomAccounted
<1> QED BY <1>4, <1>5, <1>9

\* Leaving over REST or the gateway: the membership goes, the task stays behind
\* it with the room.
LEMMA TakenStep ==
  ASSUME IInv, NEW t \in Task, NEW u \in User, NEW c \in Channel, NEW by \in Gateway \cup {Rest},
         NEW step \in {"remove", "queue"},
         task[t] = Idle \/ task[t].step = "leave",
         In(u, c), voice' = [voice EXCEPT ![u] = None],
         Run(t, Job(step, u, c, by, None)),
         UNCHANGED <<room, queue, stray>>
  PROVE  /\ task' \in [Task -> Jobs \cup {Idle}]
         /\ voice' \in [User -> Membership \cup {None}]
         /\ JobsCarryState' /\ EvictionDone' /\ RoomAccounted'
<1> USE DEF IInv
<1>1. Job(step, u, c, by, None) \in Jobs
  BY DEF Job, Jobs, Step
<1>2. task' = [task EXCEPT ![t] = Job(step, u, c, by, None)]
  BY DEF Run
<1>3. /\ task' \in [Task -> Jobs \cup {Idle}]
      /\ voice' \in [User -> Membership \cup {None}] /\ JobsCarryState'
  BY <1>1, <1>2 DEF TypeOK, JobsCarryState, At, Job
<1>4. EvictionDone'
  BY <1>1, <1>2 DEF TypeOK, EvictionDone, At, Target, Job
<1>5. ASSUME NEW p, Leaving(p) PROVE Leaving(p)'
  BY <1>1, <1>2, <1>5 DEF Leaving, Target, TypeOK
<1>6. Leaving(<<u, c>>)'
  BY <1>1, <1>2, SentinelAssumption DEF Leaving, Target, Job, TypeOK
<1>7. ASSUME NEW v \in User, NEW d \in Channel, In(v, d), <<v, d>> # <<u, c>>
      PROVE  In(v, d)'
  BY <1>7 DEF In, TypeOK
<1>8. RoomAccounted'
  BY <1>5, <1>6, <1>7 DEF RoomAccounted
<1> QED BY <1>3, <1>4, <1>8

LEMMA GatewayLeaveStep ==
  ASSUME IInv, NEW t \in Worker, NEW u \in User, NEW g \in Gateway, GatewayLeave(t, u, g)
  PROVE  IInv'
<1>1. PICK c \in Channel : c = voice[u].channel
  BY DEF GatewayLeave, IInv, TypeOK, Membership
<1>2. /\ In(u, c) /\ voice' = [voice EXCEPT ![u] = None] /\ task[t] = Idle
      /\ Run(t, Job("queue", u, c, g, None)) /\ UNCHANGED <<room, queue, stray>>
      /\ t \in Task
  BY <1>1 DEF GatewayLeave, In, Task
<1>3. /\ task' \in [Task -> Jobs \cup {Idle}]
      /\ voice' \in [User -> Membership \cup {None}]
      /\ JobsCarryState' /\ EvictionDone' /\ RoomAccounted'
  BY <1>2, TakenStep
<1> QED BY <1>3 DEF GatewayLeave, IInv, TypeOK

LEMMA LeaveStep ==
  ASSUME IInv, NEW t \in Worker, Leave(t)
  PROVE  IInv'
<1>1. t \in Task /\ task[t] \in Jobs /\ task[t] # Idle /\ task[t].step = "leave"
  BY DEF Leave, At, IInv, TypeOK, Task
<1>2. PICK u \in User, c \in Channel : u = task[t].user /\ c = task[t].channel
  BY <1>1 DEF Jobs
<1>3. CASE In(u, c)
  <2>1. /\ voice' = [voice EXCEPT ![u] = None]
        /\ Run(t, Job("remove", u, c, Rest, None)) /\ UNCHANGED <<room, queue, stray>>
    BY <1>2, <1>3 DEF Leave
  <2>2. /\ task' \in [Task -> Jobs \cup {Idle}]
        /\ voice' \in [User -> Membership \cup {None}]
        /\ JobsCarryState' /\ EvictionDone' /\ RoomAccounted'
    BY <1>1, <1>3, <2>1, TakenStep
  <2> QED BY <2>2 DEF Leave, IInv, TypeOK
<1>4. CASE ~In(u, c)
  <2>1. task' = [task EXCEPT ![t] = Idle] /\ UNCHANGED <<voice, room, queue, stray>>
    BY <1>2, <1>4 DEF Leave, Finish, Run
  <2>2. ASSUME NEW p, Leaving(p) PROVE Leaving(p)'
    BY <1>1, <2>1, <2>2 DEF Leaving, Target, IInv, TypeOK
  <2>3. TypeOK' /\ JobsCarryState' /\ EvictionDone'
    BY <2>1 DEF Leave, IInv, TypeOK, JobsCarryState, EvictionDone, At, Target
  <2>4. RoomAccounted'
    BY <2>1, <2>2 DEF IInv, RoomAccounted, In
  <2> QED BY <2>3, <2>4 DEF IInv
<1> QED BY <1>3, <1>4

\* drop_voice_session clears what it observed, after the eviction: EvictionDone
\* says what is left of the participant.
LEMMA ClearStep ==
  ASSUME IInv, NEW t \in Task, Clear(t)
  PROVE  IInv'
<1> USE DEF IInv
<1>1. task[t] \in Jobs /\ task[t] # Idle /\ task[t].step = "clear"
  BY DEF Clear, At, TypeOK
<1>2. PICK u \in User, c \in Channel : u = task[t].user /\ c = task[t].channel
  BY <1>1 DEF Jobs
<1>3. /\ task' = [task EXCEPT ![t] = Idle] /\ UNCHANGED <<room, queue, stray>>
      /\ \/ voice' = voice
         \/ voice' = [voice EXCEPT ![u] = None]
  BY <1>2 DEF Clear, Finish, Run
<1>4. TypeOK' /\ JobsCarryState'
  BY <1>3 DEF Clear, TypeOK, JobsCarryState, At
<1>5. EvictionDone'
  BY <1>3 DEF EvictionDone, At, Target, TypeOK
<1>6. ASSUME NEW p, Leaving(p) PROVE Leaving(p)'
  BY <1>1, <1>3, <1>6 DEF Leaving, Target, TypeOK
<1>7. ASSUME NEW d \in Channel, Matches(task[t].vs, u), In(u, d) PROVE d = c
  BY <1>1, <1>2, <1>7 DEF Matches, In, JobsCarryState, At
<1>8. <<u, c>> \in room => <<u, c>> \in queue \cup stray
  BY <1>1, <1>2 DEF EvictionDone, At, Target
<1>9. ASSUME NEW v \in User, NEW d \in Channel, In(v, d), <<v, d>> # <<u, c>>
      PROVE  In(v, d)'
  <2>1. CASE voice' = voice
    BY <1>9, <2>1 DEF In
  <2>2. CASE voice' # voice
    <3>1. Matches(task[t].vs, u) /\ voice' = [voice EXCEPT ![u] = None]
      BY <1>2, <2>2 DEF Clear
    <3>2. v # u
      BY <1>7, <1>9, <3>1
    <3> QED BY <1>9, <3>1, <3>2 DEF In, TypeOK
  <2> QED BY <2>1, <2>2
<1>10. RoomAccounted'
  BY <1>3, <1>6, <1>8, <1>9 DEF RoomAccounted
<1> QED BY <1>4, <1>5, <1>10

----------------------------------------------------------------------------
(* Steps that remove a participant, or fail to.                            *)

\* A removal REST spawned is accounted for until its one attempt.
LEMMA RemoveStep ==
  ASSUME IInv, NEW t \in Task, Remove(t)
  PROVE  IInv'
<1> USE ConstantsAssumption DEF IInv
<1>1. task[t] \in Jobs /\ task[t] # Idle
  BY DEF Remove, At, TypeOK
<1>2. PICK u \in User, c \in Channel : u = task[t].user /\ c = task[t].channel
  BY <1>1 DEF Jobs
<1>3. Target(t) = <<u, c>>
  BY <1>2 DEF Target
<1>4. task' = [task EXCEPT ![t] = Idle] /\ UNCHANGED <<voice, queue>>
  BY DEF Remove, Finish, Run
<1>5. \/ room' = room \ {<<u, c>>} /\ stray' = stray \ {<<u, c>>}
      \/ room' = room /\ stray' = stray \cup Left(t)
  BY <1>3 DEF Remove
<1>6. TypeOK' /\ JobsCarryState'
  BY <1>2, <1>4, <1>5 DEF Remove, Fault, Left, Target, TypeOK, JobsCarryState, At, Pair
<1>7. EvictionDone'
  BY <1>4, <1>5 DEF EvictionDone, At, Target, TypeOK
<1>8. ASSUME NEW v \in User, NEW d \in Channel, Leaving(<<v, d>>), <<v, d>> # <<u, c>>
      PROVE  Leaving(<<v, d>>)'
  BY <1>3, <1>4, <1>8 DEF Leaving, Target, TypeOK
<1>9. <<u, c>> \in room' => In(u, c) \/ <<u, c>> \in stray'
  BY <1>2, <1>3, <1>5 DEF Left
<1>10. RoomAccounted'
  BY <1>4, <1>5, <1>8, <1>9 DEF RoomAccounted, In
<1> QED BY <1>6, <1>7, <1>10

\* The row takes over from the task.
LEMMA EnqueueStep ==
  ASSUME IInv, NEW t \in Task, Enqueue(t)
  PROVE  IInv'
<1> USE ConstantsAssumption DEF IInv
<1>1. task[t] \in Jobs /\ task[t] # Idle
  BY DEF Enqueue, At, TypeOK
<1>2. PICK u \in User, c \in Channel : u = task[t].user /\ c = task[t].channel
  BY <1>1 DEF Jobs
<1>3. Target(t) = <<u, c>>
  BY <1>2 DEF Target
<1>4. UNCHANGED <<voice, room>> /\ task[t].step = "queue"
  BY DEF Enqueue, At
<1>5. CASE queue' = queue \cup {<<u, c>>} /\ Go(t, "attempt") /\ UNCHANGED <<faults, stray>>
  <2>1. task' = [task EXCEPT ![t].step = "attempt"] /\ task'[t] \in Jobs
    BY <1>1, <1>5 DEF Go, TypeOK, Jobs, Step
  <2>2. TypeOK' /\ JobsCarryState'
    BY <1>1, <1>4, <1>5, <2>1 DEF Enqueue, TypeOK, JobsCarryState, At, Jobs, Pair
  <2>3. EvictionDone'
    BY <1>1, <1>4, <1>5, <2>1 DEF EvictionDone, At, Target, TypeOK, Jobs
  <2>4. ASSUME NEW p, Leaving(p) PROVE Leaving(p)'
    BY <1>1, <2>1, <2>4, SentinelAssumption DEF Leaving, Target, TypeOK, Jobs
  <2>5. RoomAccounted'
    BY <1>4, <1>5, <2>4 DEF RoomAccounted, In
  <2> QED BY <2>2, <2>3, <2>5
<1>6. CASE Fault /\ Finish(t) /\ stray' = stray \cup Left(t) /\ UNCHANGED queue
  <2>1. task' = [task EXCEPT ![t] = Idle]
    BY <1>6 DEF Finish, Run
  <2>2. TypeOK' /\ JobsCarryState'
    BY <1>4, <1>6, <2>1 DEF Enqueue, Fault, Left, TypeOK, JobsCarryState, At, Pair
  <2>3. EvictionDone'
    BY <1>4, <1>6, <2>1 DEF EvictionDone, At, Target, TypeOK
  <2>4. ASSUME NEW v \in User, NEW d \in Channel, Leaving(<<v, d>>), <<v, d>> # <<u, c>>
        PROVE  Leaving(<<v, d>>)'
    BY <1>3, <2>1, <2>4 DEF Leaving, Target, TypeOK
  <2>5. <<u, c>> \in room => In(u, c) \/ <<u, c>> \in stray'
    BY <1>2, <1>3, <1>6 DEF Left
  <2>6. RoomAccounted'
    BY <1>4, <1>6, <2>4, <2>5 DEF RoomAccounted, In
  <2> QED BY <2>2, <2>3, <2>6
<1> QED BY <1>3, <1>5, <1>6 DEF Enqueue

\* LiveKit took the participant out, or the row is still there.
LEMMA EvictStep ==
  ASSUME IInv, NEW t \in Task, Evict(t)
  PROVE  IInv'
<1> USE ConstantsAssumption DEF IInv
<1>1. task[t] \in Jobs /\ task[t] # Idle
  BY DEF Evict, At, TypeOK
<1>2. PICK u \in User, c \in Channel : u = task[t].user /\ c = task[t].channel
  BY <1>1 DEF Jobs
<1>3. Target(t) = <<u, c>>
  BY <1>2 DEF Target
<1>4. UNCHANGED <<voice, queue>> /\ task[t].step = "attempt"
  BY DEF Evict, At
<1>5. PICK job \in Jobs \cup {Idle} :
        /\ task' = [task EXCEPT ![t] = job]
        /\ job # Idle => /\ job.user = u /\ job.channel = c /\ job.vs = task[t].vs
                         /\ \/ job.step = "dequeue" /\ room' = room \ {<<u, c>>}
                            \/ /\ job.step = "clear" /\ job.vs # None
                               /\ <<u, c>> \in room' => <<u, c>> \in queue \cup stray'
  <2>1. CASE Go(t, "dequeue") /\ room' = room \ {<<u, c>>}
    <3> DEFINE job == [task[t] EXCEPT !.step = "dequeue"]
    <3>1. /\ job \in Jobs /\ job.user = u /\ job.channel = c
          /\ job.vs = task[t].vs /\ job.step = "dequeue"
      BY <1>1, <1>2 DEF Jobs, Step
    <3>2. task' = [task EXCEPT ![t] = job]
      BY <2>1 DEF Go
    <3> HIDE DEF job
    <3> QED BY <2>1, <3>1, <3>2
  <2>2. CASE Evicted(t) /\ stray' = stray \cup (({<<u, c>>} \cap room) \ queue)
             /\ UNCHANGED room
    BY <1>1, <1>2, <2>2 DEF Evicted, Finish, Run, Go, Jobs, Step, TypeOK
  <2> QED BY <1>3, <2>1, <2>2 DEF Evict
<1>6. \/ room' = room \ {<<u, c>>} /\ stray' = stray \ {<<u, c>>}
      \/ room' = room /\ stray' = stray \cup (({<<u, c>>} \cap room) \ queue)
  BY <1>3 DEF Evict
<1>7. TypeOK'
  BY <1>2, <1>5, <1>6 DEF Evict, Fault, TypeOK, Pair
<1>8. JobsCarryState'
  BY <1>1, <1>2, <1>5 DEF JobsCarryState, At, TypeOK
<1>9. ASSUME NEW x \in Task, x # t, At(x, "dequeue") \/ At(x, "clear")
      PROVE  \/ Target(x) \notin room' \/ Target(x) \in stray'
             \/ At(x, "clear") /\ Target(x) \in queue
  BY <1>6, <1>9 DEF EvictionDone
<1>10. EvictionDone'
  BY <1>4, <1>5, <1>9 DEF EvictionDone, At, Target, TypeOK
<1>11. ASSUME NEW v \in User, NEW d \in Channel, Leaving(<<v, d>>), <<v, d>> # <<u, c>>
       PROVE  Leaving(<<v, d>>)'
  BY <1>3, <1>5, <1>11 DEF Leaving, Target, TypeOK
<1>12. <<u, c>> \in room' => <<u, c>> \in queue \cup stray'
  BY <1>6
<1>13. RoomAccounted'
  BY <1>4, <1>6, <1>11, <1>12 DEF RoomAccounted, In
<1> QED BY <1>7, <1>8, <1>10, <1>13

\* Deleting the row forgets nobody its own eviction did not take out.
LEMMA DequeueStep ==
  ASSUME IInv, NEW t \in Task, Dequeue(t)
  PROVE  IInv'
<1> USE ConstantsAssumption DEF IInv
<1>1. task[t] \in Jobs /\ task[t] # Idle
  BY DEF Dequeue, At, TypeOK
<1>2. PICK u \in User, c \in Channel : u = task[t].user /\ c = task[t].channel
  BY <1>1 DEF Jobs
<1>3. Target(t) = <<u, c>>
  BY <1>2 DEF Target
<1>4. /\ UNCHANGED <<voice, room, stray>> /\ task[t].step = "dequeue"
      /\ queue' \in {queue, queue \ {<<u, c>>}}
  BY <1>3 DEF Dequeue, At
<1>5. <<u, c>> \in room => <<u, c>> \in stray
  BY <1>1, <1>3, <1>4 DEF EvictionDone, At
<1>6. PICK job \in Jobs \cup {Idle} :
        /\ task' = [task EXCEPT ![t] = job]
        /\ job # Idle => /\ job.user = u /\ job.channel = c /\ job.vs = task[t].vs
                         /\ job.step = "clear" /\ job.vs # None
  <2>1. CASE Evicted(t)
    BY <1>1, <1>2, <2>1 DEF Evicted, Finish, Run, Go, Jobs, Step, TypeOK
  <2>2. CASE Finish(t)
    BY <2>2 DEF Finish, Run
  <2> QED BY <2>1, <2>2 DEF Dequeue
<1>7. TypeOK'
  BY <1>4, <1>6 DEF Dequeue, Fault, TypeOK
<1>8. JobsCarryState'
  BY <1>1, <1>2, <1>6 DEF JobsCarryState, At, TypeOK
<1>9. ASSUME NEW x \in Task, x # t, At(x, "dequeue") \/ At(x, "clear")
      PROVE  \/ Target(x) \notin room' \/ Target(x) \in stray
             \/ At(x, "clear") /\ Target(x) \in queue'
  BY <1>4, <1>5, <1>9 DEF EvictionDone
<1>10. EvictionDone'
  BY <1>4, <1>5, <1>6, <1>9 DEF EvictionDone, At, Target, TypeOK
<1>11. ASSUME NEW p, Leaving(p) PROVE Leaving(p)'
  BY <1>1, <1>4, <1>6, <1>11 DEF Leaving, Target, TypeOK
<1>12. RoomAccounted'
  BY <1>4, <1>5, <1>11 DEF RoomAccounted, In
<1> QED BY <1>7, <1>8, <1>10, <1>12

----------------------------------------------------------------------------
(* Steps of the sweep and of the outside.                                  *)

LEMMA ConnectStep ==
  ASSUME IInv, NEW u \in User, Connect(u)
  PROVE  IInv'
<1> USE DEF IInv
<1>1. PICK c \in Channel : c = voice[u].channel
  BY DEF Connect, TypeOK, Membership
<1>2. /\ room' = room \cup {<<u, c>>} /\ In(u, c)
      /\ stray' = IF Ending(<<u, c>>) THEN stray \cup {<<u, c>>} ELSE stray
      /\ UNCHANGED <<voice, task, queue>>
  BY <1>1 DEF Connect, In
<1>3. TypeOK' /\ JobsCarryState'
  BY <1>2 DEF Connect, TypeOK, JobsCarryState, At, Pair
<1>4. EvictionDone'
  BY <1>2 DEF EvictionDone, Ending, At, Target
<1>5. RoomAccounted'
  BY <1>2 DEF RoomAccounted, In, Leaving, Target
<1> QED BY <1>3, <1>4, <1>5

LEMMA AbandonStep ==
  ASSUME IInv, NEW t \in Task, Abandon(t)
  PROVE  IInv'
<1> USE DEF IInv
<1>1. /\ task[t] # Idle /\ task[t] \in Jobs /\ Target(t) \in Pair
      /\ task' = [task EXCEPT ![t] = Idle] /\ UNCHANGED <<voice, queue, room>>
  BY DEF Abandon, Finish, Run, TypeOK, Jobs, Target, Pair
<1>2. stray \subseteq stray' /\ stray' \subseteq stray \cup ({Target(t)} \cap room)
  BY DEF Abandon, Left
<1>3. TypeOK'
  BY <1>1, <1>2, ConstantsAssumption DEF Abandon, Fault, TypeOK
<1>4. JobsCarryState' /\ EvictionDone'
  BY <1>1, <1>2 DEF JobsCarryState, EvictionDone, At, Target, TypeOK
<1>5. ASSUME NEW u \in User, NEW c \in Channel, <<u, c>> \in room, ~In(u, c),
             <<u, c>> \notin queue \cup stray'
      PROVE  Leaving(<<u, c>>)'
  <2>1. PICK x \in Task : /\ task[x] # Idle /\ Target(x) = <<u, c>>
                          /\ task[x].step \in {"remove", "queue", "attempt"}
    BY <1>2, <1>5 DEF RoomAccounted, Leaving
  <2>2. x # t
    <3>1. CASE Target(t) = <<u, c>>
      <4>1. task[t].user = u /\ task[t].channel = c
        BY <3>1 DEF Target
      <4>2. Left(t) = {<<u, c>>}
        BY <1>5, <3>1, <4>1 DEF Left
      <4>3. task[t].step \notin {"remove", "queue", "attempt"}
        BY <1>5, <4>2 DEF Abandon
      <4> QED BY <2>1, <4>3
    <3>2. CASE Target(t) # <<u, c>>
      BY <2>1, <3>2
    <3> QED BY <3>1, <3>2
  <2> QED BY <1>1, <2>1, <2>2 DEF Leaving, Target, TypeOK
<1>6. RoomAccounted'
  BY <1>1, <1>5 DEF RoomAccounted, In
<1> QED BY <1>3, <1>4, <1>6

LEMMA OtherSteps ==
  ASSUME IInv,
         \/ \E u \in User, c \in Channel : ChangeAccess(u, c)
         \/ \E p \in room : Disconnect(p)
         \/ Crash \/ StartSweep \/ CopyStates \/ EndSweep \/ UNCHANGED vars
  PROVE  IInv'
<1> USE DEF IInv
<1>1. ASSUME NEW u \in User, NEW c \in Channel, ChangeAccess(u, c) PROVE IInv'
  BY <1>1 DEF ChangeAccess, TypeOK, JobsCarryState, EvictionDone, RoomAccounted,
              At, Target, In, Leaving, Pair
<1>2. ASSUME NEW p \in room, Disconnect(p) PROVE IInv'
  BY <1>2 DEF Disconnect, TypeOK, JobsCarryState, EvictionDone, RoomAccounted,
              At, Target, In, Leaving
<1>3. CASE Crash
  BY <1>3, ConstantsAssumption
  DEF Crash, Fault, TypeOK, JobsCarryState, EvictionDone, RoomAccounted, At
<1>4. CASE StartSweep
  BY <1>4, ConstantsAssumption
  DEF StartSweep, Fault, TypeOK, JobsCarryState, EvictionDone, RoomAccounted,
      At, Target, In, Leaving
<1>5. CASE CopyStates
  <2>1. olds' \subseteq [user : User, vs : Membership]
    BY <1>5 DEF CopyStates, TypeOK
  <2> QED BY <1>5, <2>1 DEF CopyStates, TypeOK, JobsCarryState, EvictionDone,
                            RoomAccounted, At, Target, In, Leaving
<1>6. CASE EndSweep \/ UNCHANGED vars
  BY <1>6 DEF EndSweep, vars, TypeOK, JobsCarryState, EvictionDone,
              RoomAccounted, At, Target, In, Leaving
<1> QED BY <1>1, <1>2, <1>3, <1>4, <1>5, <1>6

----------------------------------------------------------------------------

LEMMA NextIInv == IInv /\ [Next]_vars => IInv'
<1> SUFFICES ASSUME IInv, [Next]_vars PROVE IInv'
  OBVIOUS
<1>1. ASSUME NEW t \in Worker, Request(t) PROVE IInv'
  BY <1>1, AskJoinStep, AskLeaveStep, RevokeStep, AskGatewayJoinStep,
     GatewayLeaveStep DEF Request
<1>2. ASSUME NEW t \in Task, Evicting(t) PROVE IInv'
  BY <1>2, EnqueueStep, EvictStep, DequeueStep, ClearStep DEF Evicting
<1>3. ASSUME NEW t \in Worker, Progress(t) PROVE IInv'
  BY <1>2, <1>3, JoinStep, LeaveStep, FindSessionStep, RemoveStep DEF Progress, Task
<1>4. CASE Sweep
  BY <1>4, DrainRowStep, CheckStateStep, OtherSteps DEF Sweep
<1>5. CASE Outside
  BY <1>5, ConnectStep, AbandonStep, OtherSteps DEF Outside
<1>6. CASE UNCHANGED vars
  BY <1>6, OtherSteps
<1> QED BY <1>1, <1>2, <1>3, <1>4, <1>5, <1>6 DEF Next, Task

\* The inductive invariant of voice membership and its rooms.
THEOREM Invariance == Spec => []IInv
BY InitIInv, NextIInv, PTL DEF Spec

\* Type correctness.
THEOREM TypeCorrect == Spec => []TypeOK
<1>1. IInv => TypeOK BY DEF IInv
<1> QED BY <1>1, Invariance, PTL

\* evict_voice_participant and the REST removals: a participant who should not
\* be in a room is on the way out, save for named failures.
THEOREM RoomsAreAccounted == Spec => []RoomAccounted
<1>1. IInv => RoomAccounted BY DEF IInv
<1> QED BY <1>1, Invariance, PTL
=============================================================================
