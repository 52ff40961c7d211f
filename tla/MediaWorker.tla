----------------------------- MODULE MediaWorker -----------------------------
(***************************************************************************)
(* The Windows client's media process.  It takes one request at a time     *)
(* from its standard input (main.rs), and holds either a voice session in  *)
(* a LiveKit room (rtc.rs) or a loopback test of the devices (engine.rs).  *)
(* A task of the session handles the room's events meanwhile.  What is     *)
(* asked of a device or of LiveKit may fail.                               *)
(***************************************************************************)
EXTENDS FiniteSets

CONSTANTS
  Track,     \* audio tracks others publish in the room
  Quality,   \* bitrate, DTX and FEC
  Default,   \* the quality the worker starts with
  None       \* no loopback, no session, no track

VARIABLES
  prefs,
  loopback,   \* None or the controls of the running loopback
  session,    \* whether there is one, and the quality it was published with
  room,       \* "none", "open", or "lost" when LiveKit has disconnected
  mic,        \* the publication: in the room, muted, muted before, and recording
  deaf,       \* the flag the event task reads
  enabled,    \* subscribed tracks that are heard
  silenced,   \* and those that are not
  untold,     \* tracks whose TrackSubscribed the event task has not handled
  handling,   \* a track the event task found to be silenced
  op,         \* where the request in progress is
  late,       \* history: tracks silenced by what the event task read before
  reverted    \* history: a quality given up was asked for again

media == <<room, mic, deaf, enabled, silenced, untold, handling, late>>
wvars == <<prefs, loopback, session, op, reverted, media>>

Prefs == [muted : BOOLEAN, deafened : BOOLEAN, quality : Quality]
Mic == [on : BOOLEAN, muted : BOOLEAN, before : BOOLEAN, records : BOOLEAN]
NoMic == [on |-> FALSE, muted |-> FALSE, before |-> FALSE, records |-> FALSE]

TypeOK ==
  /\ prefs \in Prefs
  /\ loopback \in [muted : BOOLEAN, deafened : BOOLEAN] \cup {None}
  /\ session \in Quality \cup {None}
  /\ room \in {"none", "open", "lost"}
  /\ mic \in Mic
  /\ deaf \in BOOLEAN /\ reverted \in BOOLEAN
  /\ enabled \cup silenced \cup untold \cup late \subseteq Track
  /\ handling \in Track \cup {None}
  /\ op \in {"idle", "connecting", "publishing", "muting", "deafening", "republishing",
             "remuting", "switching", "restarting", "ended"}

WInit ==
  /\ prefs = [muted |-> FALSE, deafened |-> FALSE, quality |-> Default]
  /\ loopback = None /\ session = None /\ room = "none"
  /\ mic = NoMic /\ deaf = FALSE /\ reverted = FALSE
  /\ enabled = {} /\ silenced = {} /\ untold = {} /\ late = {}
  /\ handling = None
  /\ op = "idle"

\* Closing the session ends its event task and leaves the room.
CloseSession ==
  /\ session' = None /\ room' = "none"
  /\ mic' = NoMic /\ deaf' = FALSE
  /\ enabled' = {} /\ silenced' = {} /\ untold' = {} /\ late' = {}
  /\ handling' = None
Idle == op = "idle"
Goto(stage) == op' = stage
\* An unknown device fails a request after its other fields were taken over.
Asked(new, quality) == prefs' = [new EXCEPT !.quality = quality]
-----------------------------------------------------------------------------
(* join.                                                                   *)

Join(new) ==
  /\ Idle
  /\ prefs' = new
  /\ loopback' = None
  /\ CloseSession
  /\ reverted' = FALSE
  /\ op' \in {"idle", "connecting"}
Connect ==
  /\ op = "connecting"
  /\ room' = "open"
  /\ Goto("publishing")
  /\ UNCHANGED <<prefs, loopback, session, mic, deaf, enabled, silenced, untold, handling, late, reverted>>
ConnectFails ==
  /\ op \in {"connecting", "publishing"}
  /\ CloseSession
  /\ Goto("idle")
  /\ UNCHANGED <<prefs, loopback, reverted>>
PublishTrack ==
  /\ op = "publishing" /\ room = "open"
  /\ mic' = [NoMic EXCEPT !.on = TRUE]
  /\ Goto("muting")
  /\ UNCHANGED <<prefs, loopback, session, room, deaf, enabled, silenced, untold, handling, late, reverted>>
StartRecording ==
  /\ op = "muting"
  /\ mic' = [mic EXCEPT !.muted = prefs.muted, !.records = TRUE]
  /\ deaf' = prefs.deafened
  /\ Goto("deafening")
  /\ UNCHANGED <<prefs, loopback, session, room, enabled, silenced, untold, handling, late, reverted>>

\* set_remote_audio_enabled
EnableAll(on) ==
  /\ enabled' = IF on THEN enabled \cup silenced ELSE {}
  /\ silenced' = IF on THEN {} ELSE enabled \cup silenced
  /\ late' = {}
SpawnEvents ==
  /\ op = "deafening"
  /\ IF deaf THEN EnableAll(FALSE) ELSE UNCHANGED <<enabled, silenced, late>>
  /\ session' = prefs.quality
  /\ Goto("idle")
  /\ UNCHANGED <<prefs, loopback, room, mic, deaf, untold, handling, reverted>>
-----------------------------------------------------------------------------
(* Requests that change what runs.                                         *)

SetMute(on) ==
  /\ Idle
  /\ prefs' = [prefs EXCEPT !.muted = on]
  /\ loopback' = IF loopback = None THEN loopback ELSE [loopback EXCEPT !.muted = on]
  /\ mic' = IF session = None THEN mic ELSE [mic EXCEPT !.muted = on]
  /\ UNCHANGED <<session, op, room, deaf, enabled, silenced, untold, handling, late, reverted>>
SetDeaf(on) ==
  /\ Idle
  /\ prefs' = [prefs EXCEPT !.deafened = on]
  /\ loopback' = IF loopback = None THEN loopback ELSE [loopback EXCEPT !.deafened = on]
  /\ deaf' = IF session = None THEN deaf ELSE on
  /\ Goto(IF session = None THEN "idle" ELSE "switching")
  /\ UNCHANGED <<session, room, mic, enabled, silenced, untold, handling, late, reverted>>
SwitchTracks ==
  /\ op = "switching"
  /\ EnableAll(~prefs.deafened)
  /\ Goto("idle")
  /\ UNCHANGED <<prefs, loopback, session, room, mic, deaf, untold, handling, reverted>>

SetQuality(q) ==
  /\ Idle
  /\ Asked(prefs, q)
  /\ IF session \in {None, q}
     THEN /\ Goto(IF loopback = None THEN "idle" ELSE "restarting")
          /\ reverted' = (reverted \/ (session = q /\ ~mic.on))
          /\ UNCHANGED mic
     ELSE /\ mic' = [mic EXCEPT !.on = FALSE, !.before = mic.muted]
          /\ Goto("republishing")
          /\ UNCHANGED reverted
  /\ UNCHANGED <<loopback, session, room, deaf, enabled, silenced, untold, handling, late>>
\* The new publication is heard until it is muted like the one before.
Republish ==
  /\ op = "republishing" /\ room = "open"
  /\ mic' = [mic EXCEPT !.on = TRUE, !.muted = FALSE]
  /\ Goto("remuting")
  /\ UNCHANGED <<prefs, loopback, session, room, deaf, enabled, silenced, untold, handling, late, reverted>>
RepublishFails ==
  /\ op = "republishing"
  /\ Goto("idle")
  /\ UNCHANGED <<prefs, loopback, session, reverted, media>>
KeepQuality ==
  /\ op = "remuting"
  /\ session' = prefs.quality
  /\ mic' = [mic EXCEPT !.muted = mic.before]
  /\ reverted' = FALSE
  /\ Goto("idle")
  /\ UNCHANGED <<prefs, loopback, room, deaf, enabled, silenced, untold, handling, late>>

Device ==
  /\ Idle
  /\ Goto(IF loopback = None THEN "idle" ELSE "restarting")
  /\ UNCHANGED <<prefs, loopback, session, reverted, media>>
Controls == [muted |-> prefs.muted, deafened |-> prefs.deafened]
RestartLoopback ==
  /\ op = "restarting"
  /\ loopback' \in {None, Controls}
  /\ Goto("idle")
  /\ UNCHANGED <<prefs, session, reverted, media>>
StartLoopback(new) ==
  /\ Idle
  /\ prefs' = new
  /\ CloseSession
  /\ reverted' = FALSE
  /\ loopback' \in {None, [muted |-> new.muted, deafened |-> new.deafened]}
  /\ UNCHANGED op
Leave ==
  /\ Idle
  /\ loopback' = None
  /\ CloseSession
  /\ reverted' = FALSE
  /\ UNCHANGED <<prefs, op>>
Shutdown ==
  /\ Idle
  /\ loopback' = None
  /\ CloseSession
  /\ reverted' = FALSE
  /\ Goto("ended")
  /\ UNCHANGED prefs
-----------------------------------------------------------------------------
(* The room and the session's event task.                                  *)

TrackSubscribed(t) ==
  /\ room = "open" /\ t \notin enabled \cup silenced
  /\ enabled' = enabled \cup {t}
  /\ untold' = untold \cup {t}
  /\ UNCHANGED <<prefs, loopback, session, op, reverted, room, mic, deaf, silenced, handling, late>>
TrackGone(t) ==
  /\ room = "open" /\ t \in (enabled \cup silenced) \ untold /\ handling # t
  /\ enabled' = enabled \ {t} /\ silenced' = silenced \ {t} /\ late' = late \ {t}
  /\ UNCHANGED <<prefs, loopback, session, op, reverted, room, mic, deaf, untold, handling>>
Disconnected ==
  /\ room = "open"
  /\ room' = "lost"
  /\ UNCHANGED <<prefs, loopback, session, op, reverted, mic, deaf, enabled, silenced, untold, handling, late>>
\* Mutant: a new track is heard, deafened or not.
HandleSubscribedHeard(t) ==
  /\ session # None /\ t \in untold /\ handling = None
  /\ untold' = untold \ {t}
  /\ UNCHANGED <<prefs, loopback, session, op, reverted, room, mic, deaf, enabled, silenced, late, handling>>
HandleSubscribed(t) ==
  /\ session # None /\ t \in untold /\ handling = None
  /\ untold' = untold \ {t}
  /\ handling' = IF deaf THEN t ELSE None
  /\ UNCHANGED <<prefs, loopback, session, op, reverted, room, mic, deaf, enabled, silenced, late>>
SilenceTrack ==
  /\ handling # None
  /\ enabled' = enabled \ {handling} /\ silenced' = silenced \cup {handling}
  /\ late' = IF deaf THEN late ELSE late \cup {handling}
  /\ handling' = None
  /\ UNCHANGED <<prefs, loopback, session, op, reverted, room, mic, deaf, untold>>

WNext ==
  \/ \E new \in Prefs : Join(new) \/ StartLoopback(new)
  \/ Connect \/ ConnectFails \/ PublishTrack \/ StartRecording \/ SpawnEvents
  \/ \E on \in BOOLEAN : SetMute(on) \/ SetDeaf(on)
  \/ SwitchTracks
  \/ \E q \in Quality : SetQuality(q)
  \/ Republish \/ RepublishFails \/ KeepQuality
  \/ Device \/ RestartLoopback \/ Leave \/ Shutdown
  \/ \E t \in Track : TrackSubscribed(t) \/ TrackGone(t) \/ HandleSubscribed(t)
  \/ Disconnected \/ SilenceTrack
WSpec == WInit /\ [][WNext]_wvars
-----------------------------------------------------------------------------
(* Properties.                                                             *)

\* The devices serve a session or a loopback, never both (main).
OneMode == loopback # None => session = None /\ room = "none" /\ ~mic.records

\* Between requests what runs is muted and deafened as last asked.
ControlsKept == Idle =>
  /\ session # None => mic.muted = prefs.muted /\ deaf = prefs.deafened
  /\ loopback # None => loopback = Controls

\* Who asked to be deafened hears no track the event task has handled; and who
\* undid it hears all but those it silenced late (spawn_events, set_deaf).
HearingFollows == Idle /\ session # None =>
  \A t \in (enabled \cup silenced) \ (untold \cup {handling}) :
    IF prefs.deafened THEN t \in silenced ELSE t \in enabled \cup late

\* The microphone is on the room, or asking for the quality that failed again
\* publishes it (set_quality), unless the former quality was asked for instead.
MicrophoneBack == Idle /\ session # None =>
  mic.on \/ session # prefs.quality \/ reverted
=============================================================================
