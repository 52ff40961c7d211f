----------------------------- MODULE MCDesktop ------------------------------
(***************************************************************************)
(* The programs that run on a host's or a user's own machine: the desktop  *)
(* server, the client's gateway socket and the media worker.  Each         *)
(* behaviour looks at one of five parts that share no state, the focus:    *)
(* the supervised services, the checks for updates, the socket, the        *)
(* worker's session, or the queue of its loopback.                         *)
(***************************************************************************)
EXTENDS GatewayClient, TLC

CONSTANTS Check, NoCheck, Track, Quality, Default, None, JITTER_FRAMES, MaxFrame
VARIABLES
  focus,
  wanted, child, alive, task, halt, app, missed, checks, phase, file, staged, crossed,
  prefs, loopback, joined, room, mic, deafened, enabled, silenced, untold,
  handling, op, late, reverted,
  queued, free, holds, staging, lock, playing, muted, deaf

host == <<wanted, child, alive, task, halt, app, missed>>
updates == <<checks, phase, file, staged, crossed>>
worker == <<prefs, loopback, joined, room, mic, deafened, enabled, silenced, untold,
            handling, op, late, reverted>>
queue == <<queued, free, holds, staging, lock, playing, muted, deaf>>

H == INSTANCE Desktop
W == INSTANCE MediaWorker WITH deaf <- deafened, session <- joined
J == INSTANCE JitterQueue WITH pending <- queued

ASSUME DesktopAssumption ==
  /\ NoCheck \notin H!CheckRecord
  /\ Default \in Quality /\ None \notin Quality \cup Track
  /\ JITTER_FRAMES \in Nat \ {0} /\ MaxFrame \in Nat

MCInit ==
  /\ H!HInit /\ W!WInit /\ J!JInit /\ GInit
  /\ focus \in {"services", "updates", "media", "queue", "socket"}
  /\ focus # "queue" => ~muted /\ ~deaf
MCNext ==
  /\ UNCHANGED focus
  /\ \/ focus = "services" /\ H!HNext /\ UNCHANGED <<updates, worker, queue, gvars>>
     \/ focus = "updates" /\ H!HNext /\ UNCHANGED <<host, worker, queue, gvars>>
     \/ focus = "media" /\ W!WNext /\ UNCHANGED <<host, updates, queue, gvars>>
     \/ focus = "queue" /\ J!JNext /\ UNCHANGED <<host, updates, worker, gvars>>
     \/ focus = "socket" /\ GNext /\ UNCHANGED <<host, updates, worker, queue>>
\* The fairness of HSpec, where the services are looked at.
Services == focus = "services" /\ UNCHANGED <<focus, updates, worker, queue, gvars>>
\* Dart runs what was woken, its timers fire, and what the network and the server
\* do not do wrong they do in the end.
Socket == focus = "socket" /\ UNCHANGED <<focus, host, updates, worker, queue>>
MCSpec ==
  /\ MCInit /\ [][MCNext]_<<host, updates, worker, queue, gvars, focus>>
  /\ \A s \in H!Service : /\ WF_host(Services /\ H!Supervise(s))
                          /\ SF_host(Services /\ H!SpawnChild(s))
  /\ WF_gvars(Socket /\ Proceeds)
  /\ WF_gvars(Socket /\ Ack) /\ WF_gvars(Socket /\ SendHeartbeat)

\* The services' liveness, where they are looked at: a sidecar that ended is
\* started again, or the application ends.
ServicesRespawned ==
  \A s \in H!Service : focus = "services" /\ alive[s] = 0 /\ app = "running"
                       ~> alive[s] > 0 \/ app # "running"
\* A host's services and updates.
HostHolds == H!HostHolds
\* Two causes of one reconnect, or a stale probe, may end a session that is live,
\* but once failures and calls are over the socket comes to rest: on one live
\* session, offline as it was told, or out of attempts.  The code leaves it on a
\* connection that fell silent before its HELLO.
SocketSettles == <>[](focus = "socket" => Settled)
\* A session of the media worker: one mode at a time, the controls survive a
\* change of quality, who asked to be deafened hears nothing, and a microphone
\* that a failed change of quality took off the room comes back when asked again.
WorkerHolds ==
  W!TypeOK /\ W!OneMode /\ W!ControlsKept /\ W!HearingFollows /\ W!MicrophoneBack
\* The queue to the device callback: buffers go round and none is made, and the
\* frames played are in order.
QueueHolds == J!TypeOK /\ J!NeverAllocates /\ J!PlaysInOrder
=============================================================================
