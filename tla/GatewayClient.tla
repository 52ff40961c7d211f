---------------------------- MODULE GatewayClient ----------------------------
(***************************************************************************)
(* The gateway socket of the client (gateway_socket.dart): one connection, *)
(* its handshake, its heartbeat, and whatever opens the next one.  Dart    *)
(* runs one handler at a time; an action is a handler up to its next       *)
(* await, and the sleeping rest of a handler is a count.  The session's    *)
(* events and numbers are in SessionStream; here a session is held or not. *)
(* A server is one that advertises RESUME in its HELLO, as this one does.  *)
(***************************************************************************)
EXTENDS Integers

CONSTANTS
  maxReconnectAttempts,
  MaxFaults,   \* bounds what the network and the server do wrong
  MaxCalls     \* bounds the calls of the application

ASSUME BoundsAssumption ==
  maxReconnectAttempts \in Nat /\ MaxFaults \in Nat /\ MaxCalls \in Nat

VARIABLES
  life,           \* whether connectToGateway or dispose was called
  state,          \* _state
  cancelled,      \* _reconnectCancelled
  attempts,       \* _reconnectAttempts
  held,           \* _sessionId is not empty
  resumePending,
  live,           \* _sessionLive
  upSince,        \* _sessionStartedAt is set
  pending,        \* _pendingPresence or _pendingVoice is set
  conn,           \* what the connection has come to
  closing,        \* close was called on it and onDone is to come
  silent,         \* the other side is gone and no frame will tell
  beating,        \* the heartbeat timer runs
  acked,          \* _heartbeatAckReceived
  probing,        \* _probeLiveness sleeps
  backoffs,       \* sleeping calls of _attemptReconnect
  invalids,       \* sleeping calls of _handleInvalidSession
  fatal,          \* history: the last close had a code that ends reconnects
  faults, calls

wire == <<conn, closing, silent>>
watch == <<beating, acked, probing>>
budget == <<attempts, backoffs, invalids, fatal>>
session == <<held, resumePending, live, upSince, pending>>
limits == <<faults, calls>>
gvars == <<life, state, cancelled, wire, watch, budget, session, limits>>

Flags ==
  /\ cancelled \in BOOLEAN /\ fatal \in BOOLEAN
  /\ held \in BOOLEAN /\ resumePending \in BOOLEAN /\ live \in BOOLEAN
  /\ upSince \in BOOLEAN /\ pending \in BOOLEAN
  /\ closing \in BOOLEAN /\ silent \in BOOLEAN
  /\ beating \in BOOLEAN /\ acked \in BOOLEAN /\ probing \in BOOLEAN
TypeOK ==
  /\ Flags
  /\ life \in {"new", "used", "disposed"}
  /\ state \in {"disconnected", "connecting", "connected", "resuming"}
  /\ conn \in {"none", "opening", "open", "identifying", "resuming", "live", "refused"}
  /\ attempts \in Nat /\ backoffs \in Nat /\ invalids \in Nat
  /\ faults \in 0..MaxFaults /\ calls \in 0..MaxCalls

GInit ==
  /\ life = "new" /\ state = "disconnected" /\ conn = "none"
  /\ cancelled = FALSE /\ held = FALSE /\ resumePending = FALSE /\ live = FALSE
  /\ upSince = FALSE /\ pending = FALSE /\ closing = FALSE /\ silent = FALSE
  /\ beating = FALSE /\ acked = TRUE /\ probing = FALSE /\ fatal = FALSE
  /\ attempts = 0 /\ backoffs = 0 /\ invalids = 0 /\ faults = 0 /\ calls = 0

Fault == faults < MaxFaults /\ faults' = faults + 1
Call == life # "disposed" /\ calls < MaxCalls /\ calls' = calls + 1
-----------------------------------------------------------------------------
(* Connections.                                                            *)

HandshakeState == IF held THEN "resuming" ELSE "connecting"

\* Mutant: the session of the connection torn down counts as live.
OpenConnectionStillLive(initial) ==
  /\ conn' = "opening" /\ closing' = FALSE /\ silent' = FALSE
  /\ UNCHANGED live
  /\ state' = initial
\* What was open is torn down unheard; its heartbeat is not.
OpenConnection(initial) ==
  /\ conn' = "opening" /\ closing' = FALSE /\ silent' = FALSE
  /\ live' = FALSE
  /\ state' = initial

\* A connection ended.  It is credited when its session was up for long.
OnClosed(fatally) ==
  /\ conn' = "none" /\ closing' = FALSE /\ silent' = FALSE
  /\ held' = (held /\ ~resumePending)
  /\ resumePending' = FALSE /\ live' = FALSE /\ upSince' = FALSE
  /\ beating' = FALSE
  /\ state' = "disconnected"
  /\ fatal' = fatally
  /\ \E before \in {attempts} \cup (IF upSince THEN {0} ELSE {}) :
       IF ~cancelled /\ ~fatally /\ before < maxReconnectAttempts
       THEN attempts' = before + 1 /\ backoffs' = backoffs + 1
       ELSE attempts' = before /\ UNCHANGED backoffs
  /\ UNCHANGED <<life, cancelled, invalids, pending, acked, probing, calls>>

\* The close the client asked for, or the one that follows INVALID_SESSION, or
\* the operating system gives up connecting.
CloseArrives ==
  /\ \/ closing /\ conn # "none"
     \/ conn = "refused" /\ ~silent
     \/ conn = "opening" /\ silent
  /\ OnClosed(FALSE) /\ UNCHANGED faults
ConnectionBreaks ==
  /\ conn # "none" /\ ~silent
  /\ \E fatally \in IF conn = "live" THEN BOOLEAN ELSE {FALSE} : OnClosed(fatally)
  /\ Fault
GoesSilent ==
  /\ conn # "none" /\ ~silent
  /\ silent' = TRUE /\ Fault
  /\ UNCHANGED <<life, state, cancelled, conn, closing, watch, budget, session, calls>>

WakeBackoff ==
  /\ backoffs > 0
  /\ backoffs' = backoffs - 1
  /\ IF cancelled THEN UNCHANGED <<state, wire, live>> ELSE OpenConnection(HandshakeState)
  /\ UNCHANGED <<life, cancelled, attempts, invalids, fatal, watch,
                 held, resumePending, upSince, pending, limits>>
-----------------------------------------------------------------------------
(* Frames of the server.                                                   *)

Heard == ~silent
Ready ==
  /\ conn = "opening" /\ Heard
  /\ conn' = "open"
  /\ state' = IF state = "connecting" THEN "connected" ELSE state
  /\ UNCHANGED <<life, cancelled, closing, silent, watch, budget, session, limits>>

Hello ==
  /\ conn = "open" /\ Heard
  /\ beating' = TRUE /\ acked' = TRUE
  /\ IF held /\ state = "resuming"
     THEN /\ resumePending' = TRUE /\ conn' = "resuming"
          /\ UNCHANGED <<held, state>>
     ELSE /\ held' = FALSE /\ conn' = "identifying"
          /\ state' = IF state = "resuming" THEN "connected" ELSE state
          /\ UNCHANGED resumePending
  /\ UNCHANGED <<life, cancelled, closing, silent, probing, budget, live, upSince,
                 pending, limits>>

\* READY or RESUMED; what waited for it is sent.
Accepted ==
  /\ conn \in {"identifying", "resuming"} /\ Heard
  /\ conn' = "live" /\ held' = TRUE
  /\ live' = TRUE /\ upSince' = TRUE /\ resumePending' = FALSE
  /\ pending' = FALSE
  /\ UNCHANGED <<life, state, cancelled, closing, silent, watch, budget, limits>>

InvalidSession ==
  /\ conn \in {"identifying", "resuming"} /\ Heard /\ Fault
  /\ conn' = "refused" /\ live' = FALSE /\ held' = FALSE
  /\ IF attempts >= maxReconnectAttempts
     THEN /\ state' = "disconnected" /\ beating' = FALSE /\ closing' = TRUE
          /\ UNCHANGED invalids
     ELSE invalids' = invalids + 1 /\ UNCHANGED <<state, beating, closing>>
  /\ UNCHANGED <<life, cancelled, silent, acked, probing, attempts, backoffs, fatal,
                 resumePending, upSince, pending, calls>>
WakeInvalid ==
  /\ invalids > 0
  /\ invalids' = invalids - 1
  /\ IF cancelled THEN UNCHANGED <<attempts, backoffs>>
     ELSE attempts' = attempts + 1 /\ backoffs' = backoffs + 1
  /\ UNCHANGED <<life, state, cancelled, wire, watch, fatal, session, limits>>
-----------------------------------------------------------------------------
(* The heartbeat and the probe.  An answer comes in time, unless the other *)
(* side is gone or it is late, a fault.                                    *)

Ack ==
  /\ conn \in {"identifying", "resuming", "live"} /\ Heard /\ ~acked
  /\ acked' = TRUE
  /\ UNCHANGED <<life, state, cancelled, wire, beating, probing, budget, session, limits>>
Overdue ==
  IF conn \in {"identifying", "resuming", "live"} /\ ~silent /\ ~closing
  THEN Fault ELSE UNCHANGED faults
CloseConnection == closing' = (conn # "none") /\ UNCHANGED <<conn, silent>>

\* Mutant: a heartbeat goes out whether or not the last one was answered.
SendHeartbeatRegardless ==
  /\ beating /\ acked' = FALSE
  /\ UNCHANGED <<life, state, cancelled, beating, probing, wire, budget, session, limits>>
SendHeartbeat ==
  /\ beating
  /\ IF acked THEN acked' = FALSE /\ UNCHANGED <<wire, faults>>
     ELSE CloseConnection /\ Overdue /\ UNCHANGED acked
  /\ UNCHANGED <<life, state, cancelled, beating, probing, budget, session, calls>>
EndProbe ==
  /\ probing /\ probing' = FALSE
  /\ IF acked THEN beating' = TRUE /\ UNCHANGED <<wire, faults>>
     ELSE /\ IF cancelled \/ state = "disconnected"
             THEN UNCHANGED <<wire, faults>> ELSE CloseConnection /\ Overdue
          /\ UNCHANGED beating
  /\ UNCHANGED <<life, state, cancelled, acked, budget, session, calls>>
-----------------------------------------------------------------------------
(* Calls of the application.                                               *)

ConnectToGateway ==
  /\ Call /\ state = "disconnected"
  /\ life' = "used" /\ cancelled' = FALSE /\ attempts' = 0
  /\ OpenConnection("connecting")
  /\ UNCHANGED <<watch, backoffs, invalids, fatal, held, resumePending, upSince,
                 pending, faults>>
EnsureConnected ==
  /\ Call /\ life = "used" /\ ~cancelled
  /\ \/ /\ state = "disconnected"
        /\ attempts' = 0
        /\ OpenConnection(HandshakeState)
        /\ UNCHANGED watch
     \/ /\ state = "connected" /\ ~probing
        /\ probing' = TRUE /\ beating' = FALSE /\ acked' = FALSE
        /\ UNCHANGED <<attempts, state, wire, live>>
  /\ UNCHANGED <<life, cancelled, backoffs, invalids, fatal, held, resumePending,
                 upSince, pending, faults>>
\* The subscription is gone with the call: the connection's end is not heard.
DisconnectFromGateway ==
  /\ Call
  /\ cancelled' = TRUE
  /\ IF state = "disconnected" THEN UNCHANGED <<state, beating, wire>>
     ELSE /\ state' = "disconnected" /\ beating' = FALSE
          /\ conn' = "none" /\ closing' = FALSE /\ silent' = FALSE
  /\ UNCHANGED <<life, acked, probing, budget, session, faults>>
Dispose ==
  /\ Call
  /\ life' = "disposed" /\ cancelled' = TRUE /\ beating' = FALSE
  /\ conn' = "none" /\ closing' = FALSE /\ silent' = FALSE
  /\ UNCHANGED <<state, acked, probing, budget, session, faults>>
\* updatePresence and updateVoiceState.
Update ==
  /\ Call /\ life = "used"
  /\ pending' = ~live
  /\ UNCHANGED <<life, state, cancelled, wire, watch, budget, held, resumePending,
                 live, upSince, faults>>
-----------------------------------------------------------------------------
\* What happens by itself; the heartbeat goes on for ever beside it.
Proceeds ==
  \/ CloseArrives \/ WakeBackoff \/ WakeInvalid \/ EndProbe
  \/ Ready \/ Hello \/ Accepted
GNext ==
  \/ Proceeds \/ Ack \/ SendHeartbeat
  \/ ConnectionBreaks \/ GoesSilent \/ InvalidSession
  \/ ConnectToGateway \/ EnsureConnected \/ DisconnectFromGateway \/ Dispose \/ Update
GSpec == GInit /\ [][GNext]_gvars
-----------------------------------------------------------------------------
\* A client that was not told to be offline is connected or has a reason to be
\* connected again, unless it used up its attempts or was told never to return.
NotStranded ==
  life = "used" /\ ~cancelled =>
    conn # "none" \/ backoffs + invalids > 0 \/ attempts >= maxReconnectAttempts \/ fatal
\* Updates go out after READY or RESUMED of the connection they go to, and those
\* that waited went with it; a disconnect leaves the flag behind.
LiveIsAnswered == live => (conn = "live" /\ ~pending) \/ cancelled
\* Somebody notices when an established connection goes silent.
Watched ==
  conn \in {"identifying", "resuming", "live"} => beating \/ probing \/ closing
\* A resume is awaited only on a connection opened for it, or its successor.
ResumeIsHeld == conn = "resuming" => held /\ resumePending

\* The socket's safety: never stranded, never sending to a connection that has
\* not answered, never unwatched, never resuming what it does not hold.
SocketHolds == TypeOK /\ NotStranded /\ LiveIsAnswered /\ Watched /\ ResumeIsHeld

\* Nothing is open and nothing sleeps: what NotStranded allows.
GaveUp == conn = "none" /\ backoffs + invalids = 0
\* No timer runs before the first HELLO of a connection.
Unwatched == conn = "open" /\ silent /\ ~beating
Settled ==
  \/ live /\ conn = "live" /\ ~silent /\ ~closing
  \/ cancelled \/ GaveUp \/ Unwatched
=============================================================================
