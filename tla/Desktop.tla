------------------------------- MODULE Desktop -------------------------------
(***************************************************************************)
(* The tray application that hosts a server: a task supervises each of its *)
(* two sidecar processes (sidecar.rs), stops them when it exits (main.rs), *)
(* and looks for updates in the background and on a click (updater.rs).    *)
(* The lengths of waits and of backoffs are not modelled.                  *)
(***************************************************************************)
EXTENDS Integers, FiniteSets

CONSTANTS
  Check,   \* checks for an update in progress: the loop's and those of clicks
  NoCheck

Service == {"livekit-server", "accordserver"}

VARIABLES
  wanted,   \* should_run of each supervisor
  child,    \* whether it holds the handle of a child
  alive,    \* its processes the system runs
  task,     \* where run_supervised is
  halt,     \* where stop() of it is
  app,      \* "running", "exiting" or "exited"
  missed,   \* history: services that were stopped while their task was spawning
  checks,
  phase,    \* the status in memory
  file,     \* the status in update_status.json
  staged,   \* pending_restart
  crossed   \* history: two checks ran at once

services == <<wanted, child, alive, task, halt, app, missed>>
updates == <<checks, phase, file, staged, crossed>>
hvars == <<services, updates>>

Phase == {"up_to_date", "checking", "downloading", "ready", "error"}
CheckRecord == [stage : {"begun", "asking", "installing", "installed", "ended"},
                writes : Phase \cup {"none"}]

TypeOK ==
  /\ wanted \in [Service -> BOOLEAN] /\ child \in [Service -> BOOLEAN]
  /\ alive \in [Service -> 0..2]
  /\ task \in [Service -> {"waiting", "look", "spawn", "store", "watch", "clear", "sleep", "done"}]
  /\ halt \in [Service -> {"no", "cleared", "over"}]
  /\ app \in {"running", "exiting", "exited"}
  /\ missed \subseteq Service
  /\ checks \in [Check -> CheckRecord \cup {NoCheck}]
  /\ phase \in Phase /\ file \in Phase
  /\ staged \in BOOLEAN /\ crossed \in BOOLEAN

\* Only the server waits, until the other's port is open or 15 s have passed.
HInit ==
  /\ wanted = [s \in Service |-> TRUE]
  /\ child = [s \in Service |-> FALSE]
  /\ alive = [s \in Service |-> 0]
  /\ task = [s \in Service |-> IF s = "accordserver" THEN "waiting" ELSE "look"]
  /\ halt = [s \in Service |-> "no"]
  /\ app = "running" /\ missed = {}
  /\ checks = [c \in Check |-> NoCheck]
  /\ phase = "up_to_date" /\ file = "up_to_date"
  /\ staged = FALSE /\ crossed = FALSE
-----------------------------------------------------------------------------
(* A supervisor's task.                                                    *)

At(s, stage) == task[s] = stage /\ app # "exited"
Goto(s, stage) == task' = [task EXCEPT ![s] = stage]
WaitForPort(s) ==
  /\ At(s, "waiting")
  /\ Goto(s, "look")
  /\ UNCHANGED <<wanted, child, alive, halt, app, missed, updates>>
ReadShouldRun(s) ==
  /\ At(s, "look")
  /\ Goto(s, IF wanted[s] THEN "spawn" ELSE "done")
  /\ UNCHANGED <<wanted, child, alive, halt, app, missed, updates>>
SpawnChild(s) ==
  /\ At(s, "spawn")
  /\ alive' = [alive EXCEPT ![s] = @ + 1]
  /\ Goto(s, "store")
  /\ UNCHANGED <<wanted, child, halt, app, missed, updates>>
SpawnFails(s) ==
  /\ At(s, "spawn")
  /\ Goto(s, "sleep")
  /\ UNCHANGED <<wanted, child, alive, halt, app, missed, updates>>
StoreChild(s) ==
  /\ At(s, "store")
  /\ child' = [child EXCEPT ![s] = TRUE]
  /\ Goto(s, "watch")
  /\ UNCHANGED <<wanted, alive, halt, app, missed, updates>>
ReceiveTerminated(s) ==
  /\ At(s, "watch") /\ alive[s] = 0
  /\ Goto(s, "clear")
  /\ UNCHANGED <<wanted, child, alive, halt, app, missed, updates>>
\* Mutant: the end of the process ends its supervision.
ForgetChildForGood(s) ==
  /\ At(s, "clear")
  /\ child' = [child EXCEPT ![s] = FALSE]
  /\ Goto(s, "done")
  /\ UNCHANGED <<wanted, alive, halt, app, missed, updates>>
ForgetChild(s) ==
  /\ At(s, "clear")
  /\ child' = [child EXCEPT ![s] = FALSE]
  /\ Goto(s, IF wanted[s] THEN "sleep" ELSE "done")
  /\ UNCHANGED <<wanted, alive, halt, app, missed, updates>>
BackOff(s) ==
  /\ At(s, "sleep")
  /\ Goto(s, "look")
  /\ UNCHANGED <<wanted, child, alive, halt, app, missed, updates>>
Supervise(s) ==
  \/ WaitForPort(s) \/ ReadShouldRun(s) \/ SpawnFails(s) \/ StoreChild(s)
  \/ ReceiveTerminated(s) \/ ForgetChild(s) \/ BackOff(s)

\* A process ends by itself.
Crash(s) ==
  /\ alive[s] > 0
  /\ alive' = [alive EXCEPT ![s] = @ - 1]
  /\ UNCHANGED <<wanted, child, task, halt, app, missed, updates>>
-----------------------------------------------------------------------------
(* The exit: accordserver is stopped, then livekit-server.                 *)

ExitRequested ==
  /\ app = "running"
  /\ app' = "exiting"
  /\ UNCHANGED <<wanted, child, alive, task, halt, missed, updates>>
StopClear(s) ==
  /\ app = "exiting" /\ halt[s] = "no"
  /\ s = "livekit-server" => halt["accordserver"] = "over"
  /\ wanted' = [wanted EXCEPT ![s] = FALSE]
  /\ halt' = [halt EXCEPT ![s] = "cleared"]
  /\ UNCHANGED <<child, alive, task, app, missed, updates>>
\* Mutant: the children are left to end with the application.
StopSparing(s) ==
  /\ halt[s] = "cleared"
  /\ child' = [child EXCEPT ![s] = FALSE]
  /\ halt' = [halt EXCEPT ![s] = "over"]
  /\ UNCHANGED <<wanted, alive, task, app, missed, updates>>
StopKill(s) ==
  /\ halt[s] = "cleared"
  /\ child' = [child EXCEPT ![s] = FALSE]
  /\ alive' = [alive EXCEPT ![s] = IF child[s] /\ @ > 0 THEN @ - 1 ELSE @]
  /\ halt' = [halt EXCEPT ![s] = "over"]
  /\ missed' = missed \cup {x \in {s} : task[s] \in {"spawn", "store"}}
  /\ UNCHANGED <<wanted, task, app, updates>>
Exit ==
  /\ app = "exiting" /\ \A s \in Service : halt[s] = "over"
  /\ app' = "exited"
  /\ UNCHANGED <<wanted, child, alive, task, halt, missed, updates>>
-----------------------------------------------------------------------------
(* Checks for updates.  A status is set in memory, then written.           *)

Stage(c, stage) == checks[c] # NoCheck /\ checks[c].stage = stage /\ checks[c].writes = "none"
Report(c, status, stage) ==
  /\ phase' = status
  /\ checks' = [checks EXCEPT ![c] = [stage |-> stage, writes |-> status]]
  /\ UNCHANGED <<services, file, crossed>>

\* A click on a staged update requests the restart instead (ExitRequested).
CheckOnce(c) ==
  /\ checks[c] = NoCheck /\ ~staged
  /\ checks' = [checks EXCEPT ![c] = [stage |-> "begun", writes |-> "none"]]
  /\ crossed' = (crossed \/ \E d \in Check : checks[d] # NoCheck)
  /\ UNCHANGED <<services, phase, file, staged>>
ReportChecking(c) == Stage(c, "begun") /\ Report(c, "checking", "asking") /\ UNCHANGED staged
UpToDate(c) == Stage(c, "asking") /\ Report(c, "up_to_date", "ended") /\ UNCHANGED staged
CheckFails(c) ==
  Stage(c, "asking") /\ Report(c, "error", "ended") /\ UNCHANGED staged
Download(c) == Stage(c, "asking") /\ Report(c, "downloading", "installing") /\ UNCHANGED staged
Install(c) ==
  /\ Stage(c, "installing")
  /\ staged' = TRUE
  /\ checks' = [checks EXCEPT ![c].stage = "installed"]
  /\ UNCHANGED <<services, phase, file, crossed>>
InstallFails(c) == Stage(c, "installing") /\ Report(c, "error", "ended") /\ UNCHANGED staged
ReportReady(c) == Stage(c, "installed") /\ Report(c, "ready", "ended") /\ UNCHANGED staged
WriteStatus(c) ==
  /\ checks[c] # NoCheck /\ checks[c].writes # "none"
  /\ file' = checks[c].writes
  /\ checks' = [checks EXCEPT ![c] =
       IF @.stage = "ended" THEN NoCheck ELSE [@ EXCEPT !.writes = "none"]]
  /\ UNCHANGED <<services, phase, staged, crossed>>

HNext ==
  \/ \E s \in Service : Supervise(s) \/ SpawnChild(s) \/ Crash(s) \/ StopClear(s) \/ StopKill(s)
  \/ ExitRequested \/ Exit
  \/ app # "exited" /\ \E c \in Check :
       \/ CheckOnce(c) \/ ReportChecking(c) \/ UpToDate(c) \/ CheckFails(c) \/ Download(c)
       \/ Install(c) \/ InstallFails(c) \/ ReportReady(c) \/ WriteStatus(c)
\* The tasks run; a process that is tried again and again starts at last.
HSpec ==
  /\ HInit /\ [][HNext]_hvars
  /\ \A s \in Service : WF_hvars(Supervise(s)) /\ SF_hvars(SpawnChild(s))
-----------------------------------------------------------------------------
(* Properties.                                                             *)

\* Never two processes of one service (run_supervised spawns the next when the
\* one before has terminated).
OneProcess == \A s \in Service : alive[s] <= 1
\* After the exit no sidecar runs (stop: "kills the current child if any"),
\* unless it was being spawned when its supervisor was stopped.
NoneLeftBehind == app = "exited" => \A s \in Service : alive[s] = 0 \/ s \in missed
\* A staged update is what memory and file show once no check runs, unless a
\* click's check overlapped another (check_once).
StagedIsShown ==
  (\A c \in Check : checks[c] = NoCheck) /\ ~crossed =>
    phase = file /\ (staged <=> phase = "ready")
\* A sidecar that ended starts again, while the application runs.
Respawned == \A s \in Service : alive[s] = 0 /\ app = "running" ~> alive[s] > 0 \/ app # "running"

\* The host's own machine: each service is one process, none outlives the
\* application, and an update that is staged is shown as ready.
HostHolds == TypeOK /\ OneProcess /\ NoneLeftBehind /\ StagedIsShown
=============================================================================
