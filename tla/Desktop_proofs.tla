---------------------------- MODULE Desktop_proofs ----------------------------
(***************************************************************************)
(* The safety of each of the programs on a host's or a user's machine, for *)
(* any number of checks, tracks, qualities, buffers, frames, attempts and  *)
(* faults.  Each part's invariant says where what its steps rely on is     *)
(* known to hold: which stages of a supervisor have a process, what a      *)
(* check has reported at each stage, what a request on the worker has      *)
(* still to restore, which list each buffer of the queue is in, and which  *)
(* connection a socket may have.                                           *)
(***************************************************************************)
EXTENDS MCDesktop, SequenceTheorems, TLAPS

-----------------------------------------------------------------------------
(* The services.  A process runs only while its supervisor has just        *)
(* spawned it or watches it, and stop() leaves none but one being spawned. *)
Supervised ==
  \A s \in H!Service :
    /\ alive[s] <= 1
    /\ task[s] \notin {"store", "watch"} => alive[s] = 0
    /\ task[s] = "watch" /\ halt[s] # "over" => child[s]
Stopped ==
  /\ \A s \in H!Service :
       /\ halt[s] # "no" => ~wanted[s]
       /\ halt[s] = "over" /\ s \notin missed =>
            alive[s] = 0 /\ task[s] \notin {"spawn", "store"}
  /\ app = "exited" => \A s \in H!Service : halt[s] = "over"
ServiceTypes ==
  /\ wanted \in [H!Service -> BOOLEAN] /\ child \in [H!Service -> BOOLEAN]
  /\ alive \in [H!Service -> 0..2]
  /\ task \in [H!Service ->
                {"waiting", "look", "spawn", "store", "watch", "clear", "sleep", "done"}]
  /\ halt \in [H!Service -> {"no", "cleared", "over"}]
  /\ app \in {"running", "exiting", "exited"}
  /\ missed \subseteq H!Service
Serving == ServiceTypes /\ Supervised /\ Stopped

\* A step of a supervisor's task that neither starts a process nor ends one.
LEMMA SupervisorMoves ==
  ASSUME Serving, NEW s \in H!Service, H!Supervise(s)
  PROVE  Serving'
<1> USE DEF Serving, ServiceTypes, Supervised, Stopped, H!At, H!Goto
<1>1. CASE H!WaitForPort(s)
  BY <1>1 DEF H!WaitForPort
<1>2. CASE H!ReadShouldRun(s)
  BY <1>2 DEF H!ReadShouldRun
<1>3. CASE H!SpawnFails(s)
  BY <1>3 DEF H!SpawnFails
<1>4. CASE H!StoreChild(s)
  BY <1>4 DEF H!StoreChild
<1>5. CASE H!ReceiveTerminated(s)
  BY <1>5 DEF H!ReceiveTerminated
<1>6. CASE H!ForgetChild(s)
  BY <1>6 DEF H!ForgetChild
<1>7. CASE H!BackOff(s)
  BY <1>7 DEF H!BackOff
<1> QED
  BY <1>1, <1>2, <1>3, <1>4, <1>5, <1>6, <1>7 DEF H!Supervise

LEMMA ServiceStep ==
  ASSUME Serving, H!HNext
  PROVE  Serving'
<1> USE DEF Serving, ServiceTypes, Supervised, Stopped, H!At, H!Goto
<1>1. CASE \E s \in H!Service : H!Supervise(s)
  BY <1>1, SupervisorMoves
<1>2. ASSUME NEW s \in H!Service, H!SpawnChild(s) PROVE Serving'
  BY <1>2 DEF H!SpawnChild
<1>3. ASSUME NEW s \in H!Service, H!Crash(s) PROVE Serving'
  BY <1>3 DEF H!Crash
<1>4. ASSUME NEW s \in H!Service, H!StopClear(s) PROVE Serving'
  BY <1>4 DEF H!StopClear
<1>5. ASSUME NEW s \in H!Service, H!StopKill(s) PROVE Serving'
  BY <1>5 DEF H!StopKill
<1>6. CASE H!ExitRequested
  BY <1>6 DEF H!ExitRequested
<1>7. CASE H!Exit
  BY <1>7 DEF H!Exit
<1>8. ASSUME NEW c \in Check,
             \/ H!CheckOnce(c) \/ H!ReportChecking(c) \/ H!UpToDate(c) \/ H!CheckFails(c)
             \/ H!Download(c) \/ H!Install(c) \/ H!InstallFails(c) \/ H!ReportReady(c)
             \/ H!WriteStatus(c)
      PROVE  Serving'
  <2>1. UNCHANGED <<wanted, child, alive, task, halt, app, missed>>
    BY <1>8 DEF H!CheckOnce, H!ReportChecking, H!UpToDate, H!CheckFails, H!Download, H!Install,
       H!InstallFails, H!ReportReady, H!WriteStatus, H!Report, H!services
  <2> QED
    BY <2>1
<1> QED
  BY <1>1, <1>2, <1>3, <1>4, <1>5, <1>6, <1>7, <1>8 DEF H!HNext

-----------------------------------------------------------------------------
(* Updates.  While one check runs alone, its stage says what the status is. *)
Staging(c) ==
  LET stage == checks[c].stage  writes == checks[c].writes IN
  /\ phase = IF writes = "none" THEN file ELSE writes
  /\ stage \in {"begun", "installed"} => writes = "none"
  /\ stage = "begun" => ~staged /\ phase # "ready"
  /\ stage = "asking" => ~staged /\ phase = "checking"
  /\ stage = "installing" => ~staged /\ phase = "downloading"
  /\ stage = "installed" => staged
  /\ stage = "ended" => writes # "none" /\ (staged <=> phase = "ready")
Alone ==
  /\ \A c, d \in Check : checks[c] # NoCheck /\ checks[d] # NoCheck => c = d
  /\ \A c \in Check : checks[c] # NoCheck => Staging(c)
UpdateTypes ==
  /\ checks \in [Check -> H!CheckRecord \cup {NoCheck}]
  /\ phase \in H!Phase /\ file \in H!Phase
  /\ staged \in BOOLEAN /\ crossed \in BOOLEAN
Updating == UpdateTypes /\ (~crossed => Alone) /\ H!StagedIsShown

\* A check reports a status: it shows in memory, and is written later.
LEMMA ReportTypes ==
  ASSUME UpdateTypes, NEW c \in Check, NEW status \in H!Phase,
         NEW stage \in {"asking", "installing", "ended"}, H!Report(c, status, stage),
         staged' \in BOOLEAN
  PROVE  /\ UpdateTypes' /\ checks'[c] = [stage |-> stage, writes |-> status]
         /\ checks'[c] # NoCheck /\ phase' = status /\ file' = file /\ crossed' = crossed
         /\ \A d \in Check : d # c => checks'[d] = checks[d]
<1> DEFINE r == [stage |-> stage, writes |-> status]
<1>1. r \in H!CheckRecord
  BY DEF H!CheckRecord
<1>2. checks' = [checks EXCEPT ![c] = r]
  BY DEF H!Report
<1> HIDE DEF r
<1>3. UpdateTypes' /\ checks'[c] = r /\ \A d \in Check : d # c => checks'[d] = checks[d]
  BY <1>1, <1>2 DEF UpdateTypes, H!Report
<1>4. r # NoCheck
  BY <1>1, DesktopAssumption
<1> QED
  BY <1>3, <1>4 DEF H!Report, r

LEMMA Reports ==
  ASSUME Updating, NEW c \in Check, checks[c] # NoCheck, NEW status \in H!Phase,
         NEW stage \in {"asking", "installing", "ended"}, H!Report(c, status, stage),
         UNCHANGED staged,
         Alone => /\ stage = "asking" => ~staged /\ status = "checking"
                  /\ stage = "installing" => ~staged /\ status = "downloading"
                  /\ stage = "ended" => (staged <=> status = "ready")
  PROVE  Updating'
<1>1. /\ UpdateTypes' /\ checks'[c] = [stage |-> stage, writes |-> status]
      /\ checks'[c] # NoCheck /\ phase' = status /\ file' = file /\ crossed' = crossed
      /\ \A d \in Check : d # c => checks'[d] = checks[d]
  BY ReportTypes DEF Updating, UpdateTypes
<1>2. ~(\A d \in Check : checks'[d] = NoCheck)
  BY <1>1
<1>3. checks'[c].stage = stage /\ checks'[c].writes = status /\ status # "none"
  BY <1>1 DEF H!Phase
<1>4. ASSUME ~crossed PROVE Alone'
  <2>1. Alone
    BY <1>4 DEF Updating
  <2>2. \A d \in Check : d # c => checks'[d] = NoCheck
    BY <1>1, <2>1 DEF Alone
  <2>3. Staging(c)'
    BY <1>1, <1>3, <2>1 DEF Staging
  <2> QED
    BY <2>2, <2>3 DEF Alone
<1> QED
  BY <1>1, <1>2, <1>4 DEF Updating, H!StagedIsShown

\* A check that begins, or goes to another stage: its record changes, and no other.
LEMMA UpdateStep ==
  ASSUME Updating, H!HNext
  PROVE  Updating'
<1>1. CASE UNCHANGED <<checks, phase, file, staged, crossed>>
  BY <1>1 DEF Updating, UpdateTypes, Alone, Staging, H!StagedIsShown
<1>2. ASSUME NEW c \in Check, H!CheckOnce(c) PROVE Updating'
  <2> DEFINE r == [stage |-> "begun", writes |-> "none"]
  <2>1. r \in H!CheckRecord /\ r # NoCheck
    BY DesktopAssumption DEF H!CheckRecord
  <2>2. checks' = [checks EXCEPT ![c] = r] /\ r.stage = "begun" /\ r.writes = "none"
    BY <1>2 DEF H!CheckOnce
  <2> HIDE DEF r
  <2>3. /\ checks'[c] = r /\ \A d \in Check : d # c => checks'[d] = checks[d]
        /\ UpdateTypes'
    BY <1>2, <2>1, <2>2 DEF H!CheckOnce, Updating, UpdateTypes
  <2>4. ASSUME ~crossed' PROVE Alone'
    <3>1. ~crossed /\ \A d \in Check : checks[d] = NoCheck
      BY <1>2, <2>4 DEF H!CheckOnce
    <3>2. phase = file /\ phase # "ready" /\ ~staged
      BY <1>2, <3>1 DEF H!CheckOnce, Updating, H!StagedIsShown
    <3>3. Staging(c)'
      BY <1>2, <2>2, <2>3, <3>2 DEF Staging, H!CheckOnce
    <3> QED
      BY <2>3, <3>1, <3>3 DEF Alone
  <2> QED
    BY <2>1, <2>3, <2>4 DEF Updating, H!StagedIsShown
<1>3. ASSUME NEW c \in Check,
             \/ H!ReportChecking(c) \/ H!UpToDate(c) \/ H!CheckFails(c) \/ H!Download(c)
             \/ H!InstallFails(c) \/ H!ReportReady(c)
      PROVE  Updating'
  <2>1. Alone /\ checks[c] # NoCheck => Staging(c)
    BY DEF Alone
  <2>2. CASE H!ReportChecking(c)
    BY <2>1, <2>2, Reports DEF H!ReportChecking, H!Stage, Staging, H!Phase
  <2>3. CASE H!UpToDate(c)
    BY <2>1, <2>3, Reports DEF H!UpToDate, H!Stage, Staging, H!Phase
  <2>4. CASE H!CheckFails(c)
    BY <2>1, <2>4, Reports DEF H!CheckFails, H!Stage, Staging, H!Phase
  <2>5. CASE H!Download(c)
    BY <2>1, <2>5, Reports DEF H!Download, H!Stage, Staging, H!Phase
  <2>6. CASE H!InstallFails(c)
    BY <2>1, <2>6, Reports DEF H!InstallFails, H!Stage, Staging, H!Phase
  <2>7. CASE H!ReportReady(c)
    BY <2>1, <2>7, Reports DEF H!ReportReady, H!Stage, Staging, H!Phase
  <2> QED
    BY <1>3, <2>2, <2>3, <2>4, <2>5, <2>6, <2>7
<1>4. ASSUME NEW c \in Check, H!Install(c) PROVE Updating'
  <2> DEFINE r == [checks[c] EXCEPT !.stage = "installed"]
  <2>1. checks[c] \in H!CheckRecord /\ checks[c].writes = "none"
    BY <1>4 DEF H!Install, H!Stage, Updating, UpdateTypes
  <2>2. r \in H!CheckRecord /\ r # NoCheck /\ r.stage = "installed" /\ r.writes = "none"
    BY <2>1, DesktopAssumption DEF H!CheckRecord
  <2>3. checks' = [checks EXCEPT ![c] = r]
    BY <1>4 DEF H!Install
  <2> HIDE DEF r
  <2>4. /\ checks'[c] = r /\ \A d \in Check : d # c => checks'[d] = checks[d]
        /\ UpdateTypes'
    BY <1>4, <2>2, <2>3 DEF H!Install, Updating, UpdateTypes
  <2>5. ASSUME ~crossed PROVE Alone'
    <3>1. Alone /\ Staging(c)
      BY <1>4, <2>5 DEF H!Install, H!Stage, Updating, Alone
    <3>2. \A d \in Check : d # c => checks'[d] = NoCheck
      BY <1>4, <2>4, <3>1 DEF Alone, H!Install, H!Stage
    <3>3. Staging(c)'
      BY <1>4, <2>1, <2>2, <2>4, <3>1 DEF Staging, H!Install
    <3> QED
      BY <3>2, <3>3 DEF Alone
  <2> QED
    BY <1>4, <2>2, <2>4, <2>5 DEF Updating, H!StagedIsShown, H!Install
<1>5. ASSUME NEW c \in Check, H!WriteStatus(c) PROVE Updating'
  <2> DEFINE r == IF checks[c].stage = "ended" THEN NoCheck
                  ELSE [checks[c] EXCEPT !.writes = "none"]
  <2>1. checks[c] \in H!CheckRecord /\ checks[c].writes # "none"
    BY <1>5 DEF H!WriteStatus, Updating, UpdateTypes
  <2>2. r \in H!CheckRecord \cup {NoCheck} /\ (checks[c].stage = "ended" => r = NoCheck)
    BY <2>1 DEF H!CheckRecord
  <2>3. checks[c].stage # "ended" =>
          r # NoCheck /\ r.stage = checks[c].stage /\ r.writes = "none"
    BY <2>1, DesktopAssumption DEF H!CheckRecord
  <2>4. checks' = [checks EXCEPT ![c] = r]
    BY <1>5 DEF H!WriteStatus
  <2>5. checks[c].writes \in H!Phase
    BY <2>1 DEF H!CheckRecord
  <2> HIDE DEF r
  <2>6. /\ checks'[c] = r /\ \A d \in Check : d # c => checks'[d] = checks[d]
        /\ UpdateTypes'
    BY <1>5, <2>2, <2>4, <2>5 DEF H!WriteStatus, Updating, UpdateTypes
  <2>7. ASSUME ~crossed
        PROVE  /\ Alone'
               /\ (\A d \in Check : checks'[d] = NoCheck) =>
                    phase = file' /\ (staged <=> phase = "ready")
    <3>1. Alone /\ Staging(c)
      BY <1>5, <2>7 DEF H!WriteStatus, Updating, Alone
    <3>2. \A d \in Check : d # c => checks'[d] = NoCheck
      BY <1>5, <2>6, <3>1 DEF Alone, H!WriteStatus
    <3>3. file' = phase
      BY <1>5, <3>1 DEF Staging, H!WriteStatus
    <3>4. checks'[c] # NoCheck => Staging(c)'
      BY <1>5, <2>1, <2>2, <2>3, <2>6, <3>1, <3>3 DEF Staging, H!WriteStatus
    <3>5. checks'[c] = NoCheck => (staged <=> phase = "ready")
      BY <2>3, <2>6, <3>1 DEF Staging
    <3> QED
      BY <3>2, <3>3, <3>4, <3>5 DEF Alone
  <2> QED
    BY <1>5, <2>6, <2>7 DEF Updating, H!StagedIsShown, H!WriteStatus
<1> QED
  BY <1>1, <1>2, <1>3, <1>4, <1>5 DEF H!HNext, H!Supervise, H!WaitForPort, H!ReadShouldRun,
     H!SpawnFails, H!StoreChild, H!ReceiveTerminated, H!ForgetChild, H!BackOff, H!SpawnChild,
     H!Crash, H!StopClear, H!StopKill, H!ExitRequested, H!Exit, H!updates

HostInv == Serving /\ Updating

LEMMA HostInit == H!HInit => HostInv
<1>1. H!HInit => Serving
  BY DEF H!HInit, Serving, ServiceTypes, Supervised, Stopped, H!Service
<1>2. H!HInit => Updating
  BY DEF H!HInit, Updating, UpdateTypes, Alone, H!StagedIsShown, H!Phase
<1> QED
  BY <1>1, <1>2 DEF HostInv

\* However the supervisors, the exit and the checks for updates interleave: a service is
\* never two processes, none outlives the application unless it was being spawned when
\* it was stopped, and a staged update is shown as ready (run_supervised, check_once).
THEOREM ServicesAreKept == H!HSpec => []HostHolds
<1>1. HostInv /\ [H!HNext]_(H!hvars) => HostInv'
  <2>1. HostInv /\ H!HNext => HostInv'
    BY ServiceStep, UpdateStep DEF HostInv
  <2>2. HostInv /\ UNCHANGED H!hvars => HostInv'
    BY DEF HostInv, Serving, ServiceTypes, Supervised, Stopped, Updating, UpdateTypes, Alone,
       Staging, H!StagedIsShown, H!hvars, H!services, H!updates
  <2> QED
    BY <2>1, <2>2
<1>2. HostInv => HostHolds
  BY DEF HostInv, HostHolds, H!HostHolds, H!TypeOK, Serving, ServiceTypes, Supervised, Stopped,
     Updating, UpdateTypes, H!OneProcess, H!NoneLeftBehind
<1> QED
  BY HostInit, <1>1, <1>2, PTL DEF H!HSpec

-----------------------------------------------------------------------------
(* The media worker.  What the request in progress has still to restore.   *)
WorkerTypes ==
  /\ prefs \in W!Prefs /\ mic \in W!Mic
  /\ loopback \in [muted : BOOLEAN, deafened : BOOLEAN] \cup {None}
  /\ joined \in Quality \cup {None}
  /\ room \in {"none", "open", "lost"}
  /\ deafened \in BOOLEAN /\ reverted \in BOOLEAN
  /\ enabled \cup silenced \cup untold \cup late \subseteq Track
  /\ handling \in Track \cup {None}
  /\ op \in {"idle", "connecting", "publishing", "muting", "deafening", "republishing",
             "remuting", "switching", "restarting", "ended"}

Joining == {"connecting", "publishing", "muting", "deafening"}
\* A join has taken over from what ran, and a change of quality or of deafness
\* has its session.
Progress ==
  /\ W!OneMode
  /\ op \in Joining => loopback = None /\ joined = None
  /\ op \in {"muting", "deafening"} => mic.on
  /\ op \in {"switching", "republishing", "remuting"} => joined # None
  /\ op = "restarting" => joined = None /\ room = "none" /\ ~mic.records
\* The controls as last asked, or kept to be restored.
Controlled ==
  /\ op = "deafening" => mic.muted = prefs.muted
  /\ op = "deafening" \/ joined # None => deafened = prefs.deafened
  /\ joined # None => prefs.muted = IF op = "remuting" THEN mic.before ELSE mic.muted
  /\ op = "republishing" => mic.before = prefs.muted
  /\ loopback # None => loopback = W!Controls
\* A microphone off the room has a quality to come back with.
OnTheRoom ==
  /\ op = "remuting" => mic.on
  /\ op = "republishing" => joined # prefs.quality
  /\ joined # None => mic.on \/ joined # prefs.quality \/ reverted
\* Before there is a session its event task has handled no track.
TracksHandled ==
  /\ untold \subseteq enabled \cup silenced
  /\ joined = None => /\ enabled \subseteq untold /\ silenced = {} /\ late = {}
                      /\ handling = None
  /\ joined # None /\ op # "switching" =>
       /\ ~prefs.deafened => untold \subseteq enabled \cup late
       /\ \A t \in (enabled \cup silenced) \ (untold \cup {handling}) :
            IF prefs.deafened THEN t \in silenced ELSE t \in enabled \cup late
WorkerInv == WorkerTypes /\ Progress /\ Controlled /\ OnTheRoom /\ TracksHandled

LEMMA WorkerInit == W!WInit => WorkerInv
<1> SUFFICES ASSUME W!WInit
             PROVE  WorkerInv
  OBVIOUS
<1>1. prefs \in W!Prefs /\ mic \in W!Mic
  BY DesktopAssumption DEF W!WInit, W!Prefs, W!Mic, W!NoMic
<1>2. WorkerTypes
  BY <1>1, DesktopAssumption DEF W!WInit, WorkerTypes
<1>3. Progress
  BY DEF W!WInit, Progress, W!OneMode, Joining
<1>4. Controlled /\ OnTheRoom /\ TracksHandled
  BY DEF W!WInit, Controlled, OnTheRoom, TracksHandled
<1> QED
  BY <1>2, <1>3, <1>4 DEF WorkerInv

\* A request of join, and the steps it takes.
LEMMA JoinSteps ==
  ASSUME WorkerInv,
         \/ \E new \in W!Prefs : W!Join(new) \/ W!StartLoopback(new)
         \/ W!Connect \/ W!ConnectFails \/ W!PublishTrack \/ W!StartRecording \/ W!SpawnEvents
  PROVE  WorkerInv'
<1> USE DesktopAssumption DEF WorkerInv, WorkerTypes, Progress, Controlled, OnTheRoom, TracksHandled,
        W!Prefs, W!Mic, W!NoMic, W!OneMode, W!Controls, Joining, W!CloseSession, W!Idle, W!Goto,
        W!EnableAll
<1>1. ASSUME NEW new \in W!Prefs, W!Join(new) PROVE WorkerInv'
  BY <1>1 DEF W!Join
<1>2. ASSUME NEW new \in W!Prefs, W!StartLoopback(new) PROVE WorkerInv'
  <2>1. WorkerTypes'
    <3>1. mic' \in W!Mic
      BY <1>2 DEF W!StartLoopback
    <3>2. [muted |-> new.muted, deafened |-> new.deafened] \in [muted : BOOLEAN, deafened : BOOLEAN]
      OBVIOUS
    <3> QED
      BY <1>2, <3>1, <3>2 DEF W!StartLoopback
  <2>2. Progress' /\ Controlled' /\ OnTheRoom' /\ TracksHandled'
    BY <1>2 DEF W!StartLoopback
  <2> QED
    BY <2>1, <2>2
<1>3. CASE W!Connect
  BY <1>3 DEF W!Connect
<1>4. CASE W!ConnectFails
  BY <1>4 DEF W!ConnectFails
<1>5. CASE W!PublishTrack
  BY <1>5 DEF W!PublishTrack
<1>6. CASE W!StartRecording
  BY <1>6 DEF W!StartRecording
<1>7. CASE W!SpawnEvents
  BY <1>7 DEF W!SpawnEvents
<1> QED
  BY <1>1, <1>2, <1>3, <1>4, <1>5, <1>6, <1>7

\* The requests that change what runs.
LEMMA ControlSteps ==
  ASSUME WorkerInv,
         \/ \E on \in BOOLEAN : W!SetMute(on) \/ W!SetDeaf(on)
         \/ W!SwitchTracks \/ \E q \in Quality : W!SetQuality(q)
         \/ W!Republish \/ W!RepublishFails \/ W!KeepQuality
         \/ W!Device \/ W!RestartLoopback \/ W!Leave \/ W!Shutdown
  PROVE  WorkerInv'
<1> USE DesktopAssumption DEF WorkerInv, WorkerTypes, Progress, Controlled, OnTheRoom, TracksHandled,
        W!Prefs, W!Mic, W!NoMic, W!OneMode, W!Controls, Joining, W!CloseSession, W!Idle, W!Goto,
        W!EnableAll, W!Asked, W!media
<1>1. ASSUME NEW on \in BOOLEAN, W!SetMute(on) PROVE WorkerInv'
  BY <1>1 DEF W!SetMute
<1>2. ASSUME NEW on \in BOOLEAN, W!SetDeaf(on) PROVE WorkerInv'
  BY <1>2 DEF W!SetDeaf
<1>3. CASE W!SwitchTracks
  BY <1>3 DEF W!SwitchTracks
<1>4. ASSUME NEW q \in Quality, W!SetQuality(q) PROVE WorkerInv'
  BY <1>4 DEF W!SetQuality
<1>5. CASE W!Republish
  BY <1>5 DEF W!Republish
<1>6. CASE W!RepublishFails
  BY <1>6 DEF W!RepublishFails
<1>7. CASE W!KeepQuality
  BY <1>7 DEF W!KeepQuality
<1>8. CASE W!Device
  BY <1>8 DEF W!Device
<1>9. CASE W!RestartLoopback
  BY <1>9 DEF W!RestartLoopback
<1>10. CASE W!Leave
  BY <1>10 DEF W!Leave
<1>11. CASE W!Shutdown
  BY <1>11 DEF W!Shutdown
<1> QED
  BY <1>1, <1>2, <1>3, <1>4, <1>5, <1>6, <1>7, <1>8, <1>9, <1>10, <1>11

\* The room, and the session's event task.
LEMMA RoomSteps ==
  ASSUME WorkerInv,
         \/ \E t \in Track : W!TrackSubscribed(t) \/ W!TrackGone(t) \/ W!HandleSubscribed(t)
         \/ W!Disconnected \/ W!SilenceTrack
  PROVE  WorkerInv'
<1> USE DesktopAssumption DEF WorkerInv, WorkerTypes, Progress, Controlled, OnTheRoom, TracksHandled,
        W!Prefs, W!Mic, W!OneMode, W!Controls, Joining
<1>1. ASSUME NEW t \in Track, W!TrackSubscribed(t) PROVE WorkerInv'
  BY <1>1 DEF W!TrackSubscribed
<1>2. ASSUME NEW t \in Track, W!TrackGone(t) PROVE WorkerInv'
  BY <1>2 DEF W!TrackGone
<1>3. ASSUME NEW t \in Track, W!HandleSubscribed(t) PROVE WorkerInv'
  <2>1. WorkerTypes' /\ Progress' /\ Controlled' /\ OnTheRoom'
    BY <1>3 DEF W!HandleSubscribed
  <2>2. joined # None /\ deafened = prefs.deafened /\ joined' = joined
    BY <1>3 DEF W!HandleSubscribed
  <2>3. \A x \in (enabled' \cup silenced') \ (untold' \cup {handling'}) :
          \/ x \in (enabled \cup silenced) \ (untold \cup {handling})
          \/ x = t /\ ~deafened
    BY <1>3 DEF W!HandleSubscribed
  <2>4. TracksHandled'
    BY <1>3, <2>2, <2>3 DEF W!HandleSubscribed
  <2> QED
    BY <2>1, <2>4
<1>4. CASE W!Disconnected
  BY <1>4 DEF W!Disconnected
<1>5. CASE W!SilenceTrack
  BY <1>5 DEF W!SilenceTrack
<1> QED
  BY <1>1, <1>2, <1>3, <1>4, <1>5

\* Whatever fails, and however the room's events fall between the steps of a request: the
\* devices serve a session or a loopback, its controls are as last asked, who asked to be
\* deafened hears no track, and the microphone can come back (join, set_deaf, set_quality).
THEOREM SessionIsKept == W!WSpec => []WorkerHolds
<1>1. WorkerInv /\ [W!WNext]_(W!wvars) => WorkerInv'
  <2>1. WorkerInv /\ W!WNext => WorkerInv'
    BY JoinSteps, ControlSteps, RoomSteps DEF W!WNext
  <2>2. WorkerInv /\ UNCHANGED W!wvars => WorkerInv'
    BY DEF WorkerInv, WorkerTypes, Progress, Controlled, OnTheRoom, TracksHandled, W!OneMode, W!Controls,
       W!wvars, W!media
  <2> QED
    BY <2>1, <2>2
<1>2. WorkerInv => WorkerHolds
  BY DEF WorkerHolds, WorkerInv, WorkerTypes, Progress, Controlled, OnTheRoom, TracksHandled, W!TypeOK,
     W!ControlsKept, W!HearingFollows, W!MicrophoneBack, W!Idle
<1> QED
  BY WorkerInit, <1>1, <1>2, PTL DEF W!WSpec

-----------------------------------------------------------------------------
(* The queue.  Each buffer is in one place, in the queue or in the stack.  *)
QueueTypes ==
  /\ queued \in Seq(J!Buffer) /\ free \in Seq(J!Buffer)
  /\ holds \in [J!Buffer -> 0..MaxFrame]
  /\ staging \in 0..MaxFrame /\ playing \in 0..MaxFrame
  /\ lock \in {"free", "input", "output"}
  /\ muted \in BOOLEAN /\ deaf \in BOOLEAN
\* The lists q, of n buffers, and f, of m, part the buffers between them.
Parted(q, n, f, m) ==
  /\ \A i, j \in 1..n : q[i] = q[j] => i = j
  /\ \A i, j \in 1..m : f[i] = f[j] => i = j
  /\ \A i \in 1..n, j \in 1..m : q[i] # f[j]
  /\ \A b \in J!Buffer : (\E i \in 1..n : q[i] = b) \/ (\E i \in 1..m : f[i] = b)
Shared ==
  /\ Len(queued) <= JITTER_FRAMES /\ Len(queued) + Len(free) = JITTER_FRAMES + 1
  /\ Parted(queued, Len(queued), free, Len(free))
\* The frames rise from the one that is played to the last that was put.
Rising(q, n, h, low, high) ==
  \A i \in 1..n : /\ h[q[i]] \in Nat /\ low < h[q[i]] /\ h[q[i]] <= high
                  /\ \A j \in 1..(i - 1) : h[q[j]] < h[q[i]]
\* The frame that is being put is not there yet.
High == IF lock = "input" THEN staging - 1 ELSE staging
Ordered == playing <= High /\ Rising(queued, Len(queued), holds, playing, High)
QueueInv == QueueTypes /\ Shared /\ Ordered

\* The last of f goes to the end of q.
LEMMA PartedPut ==
  ASSUME NEW q, NEW n \in Nat, NEW f, NEW m \in Nat \ {0}, Parted(q, n, f, m),
         NEW q2, NEW f2,
         q2[n + 1] = f[m], \A i \in 1..n : q2[i] = q[i], \A i \in 1..(m - 1) : f2[i] = f[i]
  PROVE  Parted(q2, n + 1, f2, m - 1)
<1>1. \A i, j \in 1..(n + 1) : q2[i] = q2[j] => i = j
  BY DEF Parted
<1>2. \A i, j \in 1..(m - 1) : f2[i] = f2[j] => i = j
  BY DEF Parted
<1>3. \A i \in 1..(n + 1), j \in 1..(m - 1) : q2[i] # f2[j]
  BY DEF Parted
<1>4. \A b \in J!Buffer : (\E i \in 1..(n + 1) : q2[i] = b) \/ (\E i \in 1..(m - 1) : f2[i] = b)
  BY DEF Parted
<1> QED
  BY <1>1, <1>2, <1>3, <1>4 DEF Parted

\* The first of q goes to the end of f.
LEMMA PartedTake ==
  ASSUME NEW q, NEW n \in Nat \ {0}, NEW f, NEW m \in Nat, Parted(q, n, f, m),
         NEW q2, NEW f2,
         \A i \in 1..(n - 1) : q2[i] = q[i + 1], f2[m + 1] = q[1], \A i \in 1..m : f2[i] = f[i]
  PROVE  Parted(q2, n - 1, f2, m + 1)
<1>1. \A i, j \in 1..(n - 1) : q2[i] = q2[j] => i = j
  BY DEF Parted
<1>2. \A i, j \in 1..(m + 1) : f2[i] = f2[j] => i = j
  BY DEF Parted
<1>3. \A i \in 1..(n - 1), j \in 1..(m + 1) : q2[i] # f2[j]
  BY DEF Parted
<1>4. ASSUME NEW b \in J!Buffer
      PROVE  (\E i \in 1..(n - 1) : q2[i] = b) \/ (\E i \in 1..(m + 1) : f2[i] = b)
  <2>1. CASE \E i \in 1..n : q[i] = b
    <3>1. PICK i \in 1..n : q[i] = b
      BY <2>1
    <3>2. CASE i = 1
      BY <3>1, <3>2
    <3>3. CASE i # 1
      <4>1. i - 1 \in 1..(n - 1) /\ q2[i - 1] = q[(i - 1) + 1] /\ (i - 1) + 1 = i
        BY <3>3
      <4> QED
        BY <3>1, <4>1
    <3> QED
      BY <3>2, <3>3
  <2>2. CASE \E i \in 1..m : f[i] = b
    BY <2>2
  <2> QED
    BY <2>1, <2>2 DEF Parted
<1> QED
  BY <1>1, <1>2, <1>3, <1>4 DEF Parted

\* What Head, Tail and Append leave where.
LEMMA Ends ==
  ASSUME NEW S, NEW q \in Seq(S)
  PROVE  /\ Len(q) \in Nat /\ \A i \in 1..Len(q) : q[i] \in S
         /\ q = <<>> <=> Len(q) = 0
         /\ Len(q) # 0 => /\ Tail(q) \in Seq(S) /\ Len(Tail(q)) = Len(q) - 1
                          /\ \A i \in 1..(Len(q) - 1) : Tail(q)[i] = q[i + 1]
                          /\ Head(q) = q[1] /\ q[1] \in S
         /\ \A x \in S : /\ Append(q, x) \in Seq(S) /\ Len(Append(q, x)) = Len(q) + 1
                         /\ \A i \in 1..Len(q) : Append(q, x)[i] = q[i]
                         /\ Append(q, x)[Len(q) + 1] = x
OBVIOUS

LEMMA FrontIs ==
  ASSUME NEW S, NEW q \in Seq(S), Len(q) # 0
  PROVE  /\ J!Front(q) \in Seq(S) /\ Len(J!Front(q)) = Len(q) - 1
         /\ \A i \in 1..(Len(q) - 1) : J!Front(q)[i] = q[i]
         /\ J!Last(q) = q[Len(q)] /\ J!Last(q) \in S
<1>1. Len(q) \in Nat /\ J!Front(q) = SubSeq(q, 1, Len(q) - 1) /\ J!Last(q) = q[Len(q)]
  BY DEF J!Front, J!Last
<1>2. PICK k \in Nat : k = Len(q) - 1
  BY <1>1
<1>3. q[Len(q)] \in S /\ \A i \in 1..k : q[i] \in S
  BY <1>1, <1>2
<1>4. /\ SubSeq(q, 1, k) \in Seq(S)
      /\ Len(SubSeq(q, 1, k)) = IF 1 <= k THEN k - 1 + 1 ELSE 0
      /\ \A i \in 1..(k - 1 + 1) : SubSeq(q, 1, k)[i] = q[1 + i - 1]
  BY <1>2, <1>3, SubSeqProperties
<1>5. /\ Len(SubSeq(q, 1, k)) = k
      /\ \A i \in 1..k : SubSeq(q, 1, k)[i] = q[i]
  BY <1>2, <1>4
<1> QED
  BY <1>1, <1>2, <1>3, <1>4, <1>5

LEMMA QueueInit == J!JInit => QueueInv
<1> SUFFICES ASSUME J!JInit
             PROVE  QueueInv
  OBVIOUS
<1> DEFINE N == JITTER_FRAMES + 1
<1>1. N \in Nat /\ J!Buffer = 1..N
  BY DesktopAssumption DEF J!Buffer
<1>2. free \in Seq(J!Buffer) /\ Len(free) = N /\ \A i \in 1..N : free[i] = i
  BY <1>1 DEF J!JInit
<1>3. QueueTypes
  BY <1>2, DesktopAssumption DEF QueueTypes, J!JInit, J!Silence
<1>4. Shared
  BY <1>1, <1>2, DesktopAssumption DEF Shared, Parted, J!JInit
<1>5. Ordered
  BY DEF Ordered, High, Rising, J!JInit, J!Silence
<1> QED
  BY <1>3, <1>4, <1>5 DEF QueueInv

\* A frame is put: its buffer was free, so that none is allocated.
LEMMA PushKeeps ==
  ASSUME QueueInv, J!PushDropOld
  PROVE  QueueInv'
<1>1. PICK n, m, s : n = Len(queued) /\ m = Len(free) /\ s = free[m]
  OBVIOUS
<1>2. /\ queued \in Seq(J!Buffer) /\ free \in Seq(J!Buffer) /\ n \in Nat /\ m \in Nat
      /\ n <= JITTER_FRAMES /\ n + m = JITTER_FRAMES + 1 /\ Parted(queued, n, free, m)
  BY <1>1, Ends DEF QueueInv, QueueTypes, Shared
<1>3. m \in Nat \ {0} /\ s \in J!Buffer /\ free # <<>>
  BY <1>1, <1>2, Ends, DesktopAssumption
<1>4. J!Slot = s /\ J!Unused = J!Front(free)
  BY <1>1, <1>2, <1>3, FrontIs DEF J!Slot, J!Unused
<1>5. /\ J!Front(free) \in Seq(J!Buffer) /\ Len(J!Front(free)) = m - 1
      /\ \A i \in 1..(m - 1) : J!Front(free)[i] = free[i]
  BY <1>1, <1>2, <1>3, FrontIs
<1>6. PICK waits, unused :
        /\ J!Push(waits, unused)
        /\ n >= JITTER_FRAMES => /\ waits = Tail(queued)
                                 /\ unused = Append(J!Front(free), Head(queued))
        /\ n < JITTER_FRAMES => waits = queued /\ unused = J!Front(free)
  <2>1. J!Full <=> n >= JITTER_FRAMES
    BY <1>1 DEF J!Full
  <2>2. n \in Nat /\ JITTER_FRAMES \in Nat
    BY <1>2, DesktopAssumption
  <2>3. CASE n >= JITTER_FRAMES
    <3>1. J!Push(Tail(queued), Append(J!Front(free), Head(queued)))
      BY <1>4, <2>1, <2>3 DEF J!PushDropOld
    <3>2. ~(n < JITTER_FRAMES)
      BY <2>2, <2>3
    <3> QED
      BY Zenon, <3>1, <3>2
  <2>4. CASE n < JITTER_FRAMES
    <3>1. J!Push(queued, J!Front(free))
      BY <1>4, <2>1, <2>2, <2>4 DEF J!PushDropOld
    <3> QED
      BY <2>2, <2>4, <3>1
  <2> QED
    BY <2>2, <2>3, <2>4
<1>7. /\ lock = "input" /\ lock' = "free" /\ UNCHANGED <<staging, playing, muted, deaf>>
      /\ queued' = Append(waits, s) /\ free' = unused
  BY <1>4, <1>6 DEF J!Push
<1>8. /\ holds' \in [J!Buffer -> 0..MaxFrame] /\ holds'[s] = staging
      /\ \A b \in J!Buffer : b # s => holds'[b] = holds[b]
  <2>1. holds' = [b \in DOMAIN holds \cup {s} |-> IF b = s THEN staging ELSE holds[b]]
    BY <1>4, <1>6 DEF J!Push
  <2> QED
    BY <1>3, <2>1 DEF QueueInv, QueueTypes
<1>9. \A i \in 1..n : /\ queued[i] \in J!Buffer /\ holds'[queued[i]] = holds[queued[i]]
                      /\ holds[queued[i]] \in Nat
                      /\ playing < holds[queued[i]] /\ holds[queued[i]] < staging
                      /\ \A j \in 1..(i - 1) : holds[queued[j]] < holds[queued[i]]
  <2>1. \A i \in 1..n : queued[i] \in J!Buffer /\ queued[i] # s
    BY <1>1, <1>2, <1>3, Ends DEF Parted
  <2>2. staging \in Nat /\ Rising(queued, n, holds, playing, staging - 1)
    BY <1>1, <1>7, DesktopAssumption DEF QueueInv, QueueTypes, Ordered, High
  <2> QED
    BY <1>8, <2>1, <2>2 DEF Rising
<1>10. playing < staging /\ staging \in Nat /\ playing \in Nat
  BY <1>7, DesktopAssumption DEF QueueInv, QueueTypes, Ordered, High
<1>11. CASE n < JITTER_FRAMES
  <2>1. /\ queued' \in Seq(J!Buffer) /\ Len(queued') = n + 1 /\ queued'[n + 1] = s
        /\ \A i \in 1..n : queued'[i] = queued[i]
    BY <1>1, <1>2, <1>3, <1>6, <1>7, <1>11, Ends
  <2>2. /\ free' \in Seq(J!Buffer) /\ Len(free') = m - 1
        /\ \A i \in 1..(m - 1) : free'[i] = free[i]
    BY <1>5, <1>6, <1>7, <1>11
  <2>3. Parted(queued', n + 1, free', m - 1)
    BY <1>1, <1>2, <1>3, <2>1, <2>2, PartedPut
  <2>4. Shared'
    BY <1>2, <1>11, <2>1, <2>2, <2>3, DesktopAssumption DEF Shared
  <2>5. ASSUME NEW i \in 1..(n + 1)
        PROVE  /\ holds'[queued'[i]] \in Nat /\ playing < holds'[queued'[i]]
               /\ holds'[queued'[i]] <= staging
               /\ \A j \in 1..(i - 1) : holds'[queued'[j]] < holds'[queued'[i]]
    <3>1. \A j \in 1..(i - 1) : j \in 1..n
      BY <1>2
    <3>2. CASE i = n + 1
      BY <1>8, <1>9, <1>10, <2>1, <3>1, <3>2
    <3>3. CASE i # n + 1
      <4>1. i \in 1..n
        BY <1>2, <3>3
      <4> QED
        BY <1>9, <1>10, <2>1, <3>1, <4>1
    <3> QED
      BY <3>2, <3>3
  <2>6. Ordered'
    BY <1>7, <1>10, <2>1, <2>5 DEF Ordered, High, Rising
  <2> QED
    BY <1>7, <1>8, <2>1, <2>2, <2>4, <2>6 DEF QueueInv, QueueTypes
<1>12. CASE n >= JITTER_FRAMES
  <2>1. n = JITTER_FRAMES /\ n \in Nat \ {0} /\ m = 1
    BY <1>2, <1>3, <1>12, DesktopAssumption
  <2>2. /\ waits \in Seq(J!Buffer) /\ Len(waits) = n - 1
        /\ \A i \in 1..(n - 1) : waits[i] = queued[i + 1]
        /\ Head(queued) = queued[1] /\ queued[1] \in J!Buffer
    <3>1. /\ Tail(queued) \in Seq(J!Buffer) /\ Len(Tail(queued)) = n - 1
          /\ \A i \in 1..(n - 1) : Tail(queued)[i] = queued[i + 1]
          /\ Head(queued) = queued[1] /\ queued[1] \in J!Buffer
      BY <1>1, <1>2, <2>1, Ends
    <3>2. waits = Tail(queued)
      BY <1>6, <1>12
    <3> QED
      BY <3>1, <3>2
  <2>3. /\ queued' \in Seq(J!Buffer) /\ Len(queued') = n /\ queued'[n] = s
        /\ \A i \in 1..(n - 1) : queued'[i] = queued[i + 1]
    <3>1. /\ Append(waits, s) \in Seq(J!Buffer) /\ Len(Append(waits, s)) = Len(waits) + 1
          /\ \A i \in 1..Len(waits) : Append(waits, s)[i] = waits[i]
          /\ Append(waits, s)[Len(waits) + 1] = s
      BY <1>3, <2>2, Ends
    <3>2. Len(waits) = n - 1 /\ Len(waits) + 1 = n
      BY <1>2, <2>2
    <3>3. queued' = Append(waits, s) /\ \A i \in 1..(n - 1) : waits[i] = queued[i + 1]
      BY <1>7, <2>2
    <3> QED
      BY <3>1, <3>2, <3>3
  <2>4. free' \in Seq(J!Buffer) /\ Len(free') = 1 /\ free'[1] = queued[1]
    <3>1. Len(J!Front(free)) = 0
      BY <1>5, <2>1
    <3>2. free' = Append(J!Front(free), queued[1])
      BY <1>6, <1>7, <1>12, <2>2
    <3> QED
      BY <1>5, <2>2, <3>1, <3>2, Ends
  <2>5. Parted(queued', n, free', 1)
    <3> DEFINE q == [i \in 1..(n + 1) |-> IF i = n + 1 THEN s ELSE queued[i]]
    <3>1. q[n + 1] = s /\ \A i \in 1..n : q[i] = queued[i]
      BY <1>2
    <3>2. \A i \in 1..n : queued'[i] = q[i + 1]
      <4> SUFFICES ASSUME NEW i \in 1..n
                   PROVE  queued'[i] = q[i + 1]
        OBVIOUS
      <4>1. CASE i = n
        BY <2>3, <3>1, <4>1
      <4>2. CASE i # n
        <5>1. i \in 1..(n - 1) /\ i + 1 \in 1..n
          BY <1>2, <4>2
        <5> HIDE DEF q
        <5> QED
          BY <2>3, <3>1, <5>1
      <4> QED
        BY <4>1, <4>2
    <3> HIDE DEF q
    <3>3. Parted(q, n + 1, free, m - 1)
      BY <1>1, <1>2, <1>3, <3>1, PartedPut
    <3>4. m - 1 = 0 /\ n + 1 \in Nat \ {0} /\ (n + 1) - 1 = n /\ q[1] = queued[1]
      BY <2>1, <3>1
    <3>5. Parted(q, n + 1, free, 0)
      BY <3>3, <3>4
    <3>6. Parted(queued', (n + 1) - 1, free', 0 + 1)
      <4>1. \A i \in 1..((n + 1) - 1) : queued'[i] = q[i + 1]
        BY <3>2, <3>4
      <4>2. \A i \in 1..0 : free'[i] = free[i]
        OBVIOUS
      <4>3. free'[0 + 1] = q[1]
        BY <2>4, <3>4
      <4> QED
        BY <3>4, <3>5, <4>1, <4>2, <4>3, PartedTake
    <3> QED
      BY <3>4, <3>6
  <2>6. Shared'
    BY <1>2, <2>1, <2>3, <2>4, <2>5, DesktopAssumption DEF Shared
  <2>7. ASSUME NEW i \in 1..n
        PROVE  /\ holds'[queued'[i]] \in Nat /\ playing < holds'[queued'[i]]
               /\ holds'[queued'[i]] <= staging
               /\ \A j \in 1..(i - 1) : holds'[queued'[j]] < holds'[queued'[i]]
    <3>1. \A j \in 1..(n - 1) : j + 1 \in 1..n /\ queued'[j] = queued[j + 1]
      BY <1>2, <2>3
    <3>2. \A j \in 1..(i - 1) : j \in 1..(n - 1) /\ j + 1 \in 1..((i + 1) - 1)
      BY <1>2
    <3>3. CASE i = n
      <4>1. holds'[queued'[i]] = staging
        BY <1>8, <2>3, <3>3
      <4>2. \A j \in 1..(i - 1) : holds'[queued'[j]] < staging
        BY <1>9, <3>1, <3>2
      <4> QED
        BY <1>10, <4>1, <4>2
    <3>4. CASE i # n
      <4>1. i \in 1..(n - 1)
        BY <1>2, <3>4
      <4> QED
        BY <1>9, <1>10, <3>1, <3>2, <4>1
    <3> QED
      BY <3>3, <3>4
  <2>8. Ordered'
    BY <1>7, <1>10, <2>3, <2>7 DEF Ordered, High, Rising
  <2> QED
    BY <1>7, <1>8, <2>3, <2>4, <2>6, <2>8 DEF QueueInv, QueueTypes
<1> QED
  BY <1>2, <1>11, <1>12, DesktopAssumption

\* A frame is taken out: its buffer is free again.
LEMMA PopKeeps ==
  ASSUME QueueInv, J!Pop
  PROVE  QueueInv'
<1>1. PICK n, m : n = Len(queued) /\ m = Len(free)
  OBVIOUS
<1>2. /\ queued \in Seq(J!Buffer) /\ free \in Seq(J!Buffer) /\ n \in Nat /\ m \in Nat
      /\ n <= JITTER_FRAMES /\ n + m = JITTER_FRAMES + 1 /\ Parted(queued, n, free, m)
      /\ (queued = <<>> <=> n = 0) /\ \A i \in 1..n : queued[i] \in J!Buffer
  BY <1>1, Ends DEF QueueInv, QueueTypes, Shared
<1>3. /\ lock = "output" /\ lock' = "free" /\ UNCHANGED <<holds, staging, muted, deaf>>
      /\ staging \in Nat /\ playing \in Nat
  BY DesktopAssumption DEF J!Pop, QueueInv, QueueTypes
<1>4. Rising(queued, n, holds, playing, staging) /\ playing <= staging
  BY <1>1, <1>3 DEF QueueInv, Ordered, High
<1>5. CASE n = 0
  <2>1. playing' = 0 /\ queued' = queued /\ free' = free
    BY <1>2, <1>5 DEF J!Pop, J!Silence
  <2>2. QueueTypes'
    BY <1>3, <2>1, DesktopAssumption DEF QueueInv, QueueTypes
  <2>3. Shared'
    BY <2>1 DEF QueueInv, Shared
  <2>4. Len(queued') = 0 /\ High' = staging
    BY <1>1, <1>3, <1>5, <2>1 DEF High
  <2>5. Rising(queued', 0, holds', 0, staging)
    BY DEF Rising
  <2>6. Ordered'
    BY <1>3, <2>1, <2>4, <2>5 DEF Ordered
  <2> QED
    BY <2>2, <2>3, <2>6 DEF QueueInv
<1>6. CASE n # 0
  <2>1. /\ queued' = Tail(queued) /\ free' = Append(free, Head(queued))
        /\ playing' = holds[Head(queued)] /\ Head(queued) = queued[1] /\ queued[1] \in J!Buffer
    BY <1>1, <1>2, <1>6, Ends DEF J!Pop
  <2>2. /\ queued' \in Seq(J!Buffer) /\ Len(queued') = n - 1
        /\ \A i \in 1..(n - 1) : queued'[i] = queued[i + 1]
    BY <1>1, <1>2, <1>6, <2>1, Ends
  <2>3. /\ free' \in Seq(J!Buffer) /\ Len(free') = m + 1 /\ free'[m + 1] = queued[1]
        /\ \A i \in 1..m : free'[i] = free[i]
    <3>1. \A x \in J!Buffer : /\ Append(free, x) \in Seq(J!Buffer)
                              /\ Len(Append(free, x)) = m + 1
                              /\ \A i \in 1..m : Append(free, x)[i] = free[i]
                              /\ Append(free, x)[m + 1] = x
      BY <1>1, <1>2, Ends
    <3> QED
      BY <2>1, <3>1
  <2>4. Parted(queued', n - 1, free', m + 1)
    <3>1. n \in Nat \ {0}
      BY <1>2, <1>6
    <3>2. \A i \in 1..(n - 1) : queued'[i] = queued[i + 1]
      BY <2>2
    <3>3. free'[m + 1] = queued[1]
      BY <2>3
    <3>4. \A i \in 1..m : free'[i] = free[i]
      BY <2>3
    <3>5. m \in Nat /\ Parted(queued, n, free, m)
      BY <1>2
    <3> QED
      BY <3>1, <3>2, <3>3, <3>4, <3>5, PartedTake
  <2>5. Shared'
    BY <1>2, <1>6, <2>2, <2>3, <2>4, DesktopAssumption DEF Shared
  <2>6. QueueTypes'
    BY <1>2, <1>3, <1>6, <2>1, <2>2, <2>3 DEF QueueInv, QueueTypes
  <2>7. 1 \in 1..n /\ \A i \in 1..(n - 1) : i + 1 \in 1..n /\ 1 \in 1..((i + 1) - 1)
    BY <1>2, <1>6
  <2>8. ASSUME NEW i \in 1..(n - 1)
        PROVE  /\ holds[queued'[i]] \in Nat /\ playing' < holds[queued'[i]]
               /\ holds[queued'[i]] <= staging
               /\ \A j \in 1..(i - 1) : holds[queued'[j]] < holds[queued'[i]]
    <3>1. \A j \in 1..(i - 1) : j \in 1..(n - 1) /\ j + 1 \in 1..((i + 1) - 1)
      BY <1>2
    <3> QED
      BY <1>4, <2>1, <2>2, <2>7, <3>1 DEF Rising
  <2>9. playing' <= staging
    BY <1>4, <2>1, <2>7 DEF Rising
  <2>10. Ordered'
    BY <1>3, <2>2, <2>8, <2>9 DEF Ordered, High, Rising
  <2> QED
    BY <2>5, <2>6, <2>10 DEF QueueInv
<1> QED
  BY <1>5, <1>6

\* A frame is filled, silence is played or a control is switched: the queue stays.
LEMMA QueueStays ==
  ASSUME QueueInv,
         J!FillStaging \/ J!PlaySilence \/ J!LockOutput \/ J!SetMute \/ J!SetDeaf
  PROVE  QueueInv'
<1>1. queued' = queued /\ free' = free /\ holds' = holds
  BY DEF J!FillStaging, J!PlaySilence, J!LockOutput, J!SetMute, J!SetDeaf
<1>2. Shared'
  BY <1>1 DEF QueueInv, Shared
<1>3. staging' \in 0..MaxFrame /\ playing' \in 0..MaxFrame /\ lock' \in {"free", "input", "output"}
  BY DesktopAssumption DEF QueueInv, QueueTypes, J!Silence, J!FillStaging, J!PlaySilence,
     J!LockOutput, J!SetMute, J!SetDeaf
<1>4. muted' \in BOOLEAN /\ deaf' \in BOOLEAN
  BY Zenon DEF QueueInv, QueueTypes, J!FillStaging, J!PlaySilence, J!LockOutput, J!SetMute,
     J!SetDeaf
<1>5. QueueTypes'
  BY <1>1, <1>3, <1>4 DEF QueueInv, QueueTypes
<1>6. /\ playing' <= playing /\ High <= High' /\ playing' <= High'
      /\ playing \in Nat /\ playing' \in Nat /\ High \in Int /\ High' \in Int
  BY DesktopAssumption DEF QueueInv, QueueTypes, Ordered, High, J!Silence, J!FillStaging,
     J!PlaySilence, J!LockOutput, J!SetMute, J!SetDeaf
<1>7. Ordered'
  BY <1>1, <1>6 DEF QueueInv, Ordered, Rising
<1> QED
  BY <1>2, <1>5, <1>7 DEF QueueInv

\* For any length of the queue, and however the two callbacks interleave: none allocates,
\* no buffer is lost or in two places, and frames are played in the order of their capture
\* whatever was dropped (push_drop_old, pop).
THEOREM QueueIsKept == J!JSpec => []QueueHolds
<1>1. QueueInv /\ [J!JNext]_(J!jvars) => QueueInv'
  <2>1. QueueInv /\ J!JNext => QueueInv'
    BY PushKeeps, PopKeeps, QueueStays DEF J!JNext
  <2>2. QueueInv /\ UNCHANGED J!jvars => QueueInv'
    BY DEF QueueInv, QueueTypes, Shared, Parted, Ordered, Rising, High, J!jvars
  <2> QED
    BY <2>1, <2>2
<1>2. QueueInv => QueueHolds
  <2> SUFFICES ASSUME QueueInv
               PROVE  QueueHolds
    OBVIOUS
  <2>1. /\ J!Range(queued) = {queued[i] : i \in 1..Len(queued)}
        /\ J!Range(free) = {free[i] : i \in 1..Len(free)}
        /\ J!Range(holds) \subseteq 0..MaxFrame
    BY DEF J!Range, QueueInv, QueueTypes
  <2>2. J!Range(queued) \cup J!Range(free) = J!Buffer
    <3>1. /\ \A i \in 1..Len(queued) : queued[i] \in J!Buffer
          /\ \A i \in 1..Len(free) : free[i] \in J!Buffer
      BY Ends DEF QueueInv, QueueTypes
    <3>2. \A b \in J!Buffer : \/ \E i \in 1..Len(queued) : queued[i] = b
                              \/ \E i \in 1..Len(free) : free[i] = b
      BY DEF QueueInv, Shared, Parted
    <3> QED
      BY <2>1, <3>1, <3>2
  <2>3. J!TypeOK
    BY <2>1, <2>2 DEF J!TypeOK, QueueInv, QueueTypes
  <2>4. J!NeverAllocates
    BY <2>2 DEF J!NeverAllocates, QueueInv, QueueTypes, Shared
  <2>5. J!PlaysInOrder
    <3>1. playing \in Nat /\ staging \in Nat /\ High <= staging
      BY DesktopAssumption DEF QueueInv, QueueTypes, High
    <3>2. High \in Int
      BY <3>1 DEF High
    <3> QED
      BY <3>1, <3>2 DEF J!PlaysInOrder, QueueInv, Ordered, Rising
  <2> QED
    BY <2>3, <2>4, <2>5 DEF QueueHolds
<1> QED
  BY QueueInit, <1>1, <1>2, PTL DEF J!JSpec

-----------------------------------------------------------------------------
(* The client's socket.  SocketHolds is inductive once it is known that    *)
(* the only connection of a socket that is disconnected, or was told to    *)
(* be, is one whose session was refused.                                   *)
OfflineIsClosed ==
  /\ cancelled => conn \in {"none", "refused"}
  /\ state = "disconnected" => conn \in {"none", "refused"}
IInv == SocketHolds /\ OfflineIsClosed

\* The flags and the rest are proved apart: the provers that do arithmetic are
\* poor at Boolean variables.
Counts ==
  /\ life \in {"new", "used", "disposed"}
  /\ state \in {"disconnected", "connecting", "connected", "resuming"}
  /\ conn \in {"none", "opening", "open", "identifying", "resuming", "live", "refused"}
  /\ attempts \in Nat /\ backoffs \in Nat /\ invalids \in Nat
  /\ faults \in 0..MaxFaults /\ calls \in 0..MaxCalls
Control ==
  /\ Counts /\ NotStranded /\ LiveIsAnswered /\ Watched /\ ResumeIsHeld
  /\ OfflineIsClosed

LEMMA Split == IInv <=> Flags /\ Control
BY DEF IInv, Control, SocketHolds, TypeOK, Counts

LEMMA InitHolds == GInit => IInv
<1>1. GInit => Flags BY Zenon DEF GInit, Flags
<1>2. GInit => Control
  BY BoundsAssumption DEF GInit, Control, Counts, NotStranded, LiveIsAnswered, Watched,
     ResumeIsHeld, OfflineIsClosed
<1> QED BY <1>1, <1>2, Split

USE DEF wire, watch, budget, session, limits, Fault, Call

LEMMA FlagsHold == ASSUME Flags, [GNext]_gvars PROVE Flags'
<1> USE DEF Flags
<1>1. CASE UNCHANGED gvars BY Zenon, <1>1 DEF gvars
<1>2. CASE CloseArrives BY Zenon, <1>2 DEF CloseArrives, OnClosed
<1>3. CASE ConnectionBreaks BY Zenon, <1>3 DEF ConnectionBreaks, OnClosed
<1>4. CASE GoesSilent BY Zenon, <1>4 DEF GoesSilent
<1>5. CASE WakeBackoff BY Zenon, <1>5 DEF WakeBackoff, OpenConnection
<1>6. CASE WakeInvalid BY Zenon, <1>6 DEF WakeInvalid
<1>7. CASE Ready BY Zenon, <1>7 DEF Ready
<1>8. CASE Hello BY Zenon, <1>8 DEF Hello
<1>9. CASE Accepted BY Zenon, <1>9 DEF Accepted
<1>10. CASE InvalidSession BY Zenon, <1>10 DEF InvalidSession
<1>11. CASE Ack BY Zenon, <1>11 DEF Ack
<1>12. CASE SendHeartbeat BY Zenon, <1>12 DEF SendHeartbeat, CloseConnection
<1>13. CASE EndProbe BY Zenon, <1>13 DEF EndProbe, CloseConnection
<1>14. CASE ConnectToGateway BY Zenon, <1>14 DEF ConnectToGateway, OpenConnection
<1>15. CASE EnsureConnected BY Zenon, <1>15 DEF EnsureConnected, OpenConnection
<1>16. CASE DisconnectFromGateway BY Zenon, <1>16 DEF DisconnectFromGateway
<1>17. CASE Dispose BY Zenon, <1>17 DEF Dispose
<1>18. CASE Update BY Zenon, <1>18 DEF Update
<1> QED
  BY <1>1, <1>2, <1>3, <1>4, <1>5, <1>6, <1>7, <1>8, <1>9, <1>10, <1>11, <1>12,
     <1>13, <1>14, <1>15, <1>16, <1>17, <1>18 DEF GNext, Proceeds

LEMMA ControlHolds == ASSUME Flags, Control, [GNext]_gvars PROVE Control'
<1> USE BoundsAssumption DEF Control, Counts, NotStranded, LiveIsAnswered, Watched,
        ResumeIsHeld, OfflineIsClosed
<1>1. CASE UNCHANGED gvars BY <1>1 DEF gvars
<1>2. CASE CloseArrives BY <1>2 DEF CloseArrives, OnClosed
<1>3. CASE ConnectionBreaks BY <1>3 DEF ConnectionBreaks, OnClosed
<1>4. CASE GoesSilent BY <1>4 DEF GoesSilent
<1>5. CASE WakeBackoff BY <1>5 DEF WakeBackoff, OpenConnection, HandshakeState
<1>6. CASE WakeInvalid BY <1>6 DEF WakeInvalid
<1>7. CASE Ready BY <1>7 DEF Ready
<1>8. CASE Hello BY <1>8 DEF Hello
<1>9. CASE Accepted BY <1>9 DEF Accepted
<1>10. CASE InvalidSession BY <1>10 DEF InvalidSession
<1>11. CASE Ack BY <1>11 DEF Ack
<1>12. CASE SendHeartbeat BY <1>12 DEF SendHeartbeat, CloseConnection, Overdue
<1>13. CASE EndProbe
  <2>1. conn \notin {"none", "refused"} => beating' \/ closing'
    BY Zenon, <1>13 DEF EndProbe, CloseConnection
  <2>2. UNCHANGED <<life, state, cancelled, conn, budget, session, calls>>
    BY <1>13 DEF EndProbe, CloseConnection
  <2>3. faults' \in 0..MaxFaults BY <1>13 DEF EndProbe, Overdue
  <2> QED BY <2>1, <2>2, <2>3
<1>14. CASE ConnectToGateway BY <1>14 DEF ConnectToGateway, OpenConnection
<1>15. CASE EnsureConnected BY <1>15 DEF EnsureConnected, OpenConnection, HandshakeState
<1>16. CASE DisconnectFromGateway BY <1>16 DEF DisconnectFromGateway
<1>17. CASE Dispose BY <1>17 DEF Dispose
<1>18. CASE Update
  <2>1. live => ~pending' BY Zenon, <1>18 DEF Update
  <2> QED BY <1>18, <2>1 DEF Update
<1> QED
  BY <1>1, <1>2, <1>3, <1>4, <1>5, <1>6, <1>7, <1>8, <1>9, <1>10, <1>11, <1>12,
     <1>13, <1>14, <1>15, <1>16, <1>17, <1>18 DEF GNext, Proceeds

\* The client is never stranded offline, sends only where it was answered, notices
\* a connection that went silent, and resumes only a session it holds.
THEOREM SocketIsSafe == GSpec => []SocketHolds
<1>1. IInv /\ [GNext]_gvars => IInv'
  BY FlagsHold, ControlHolds DEF IInv, Control, SocketHolds, TypeOK, Counts
<1>2. IInv => SocketHolds BY DEF IInv
<1> QED BY InitHolds, <1>1, <1>2, PTL DEF GSpec
=============================================================================
