----------------------------- MODULE JitterQueue ----------------------------
(***************************************************************************)
(* The queue of audio frames between the two device callbacks of the media *)
(* worker's loopback (engine.rs).  The input callback puts the frames it   *)
(* filled into the queue and the output callback plays them; neither waits *)
(* for the other: who finds the queue locked drops the frame, or plays     *)
(* silence.  Frames are numbered as they are captured.                     *)
(***************************************************************************)
EXTENDS Integers, Sequences, FiniteSets, SequencesExt

CONSTANTS
  JITTER_FRAMES,
  MaxFrame        \* bound: frames captured

\* The buffers the queue is made with.
Buffer == 1..(JITTER_FRAMES + 1)
Silence == 0

VARIABLES
  pending,   \* buffers to play, oldest first
  free,      \* the other buffers, a stack
  holds,     \* the frame each buffer holds
  staging,   \* the last frame the input callback filled
  lock,      \* who holds the queue
  playing,   \* the frame the output callback plays
  muted, deaf

jvars == <<pending, free, holds, staging, lock, playing, muted, deaf>>

TypeOK ==
  /\ Range(pending) \cup Range(free) \subseteq DOMAIN holds
  /\ Range(holds) \subseteq 0..MaxFrame
  /\ staging \in 0..MaxFrame /\ playing \in 0..MaxFrame
  /\ lock \in {"free", "input", "output"}
  /\ muted \in BOOLEAN /\ deaf \in BOOLEAN

JInit ==
  /\ pending = <<>> /\ free = [i \in Buffer |-> i]
  /\ holds = [b \in Buffer |-> 0]
  /\ staging = 0 /\ playing = Silence
  /\ lock = "free"
  /\ muted \in BOOLEAN /\ deaf \in BOOLEAN
-----------------------------------------------------------------------------
(* The input callback.                                                     *)

FillStaging ==
  /\ ~muted /\ lock # "input" /\ staging < MaxFrame
  /\ staging' = staging + 1
  /\ lock' = IF lock = "free" THEN "input" ELSE lock
  /\ UNCHANGED <<pending, free, holds, playing, muted, deaf>>

\* The buffer a frame is copied to; it is allocated when none is free.
Slot == IF free = <<>> THEN Cardinality(DOMAIN holds) + 1 ELSE Last(free)
Unused == IF free = <<>> THEN <<>> ELSE Front(free)
Push(waiting, unused) ==
  /\ lock = "input"
  /\ lock' = "free"
  /\ pending' = Append(waiting, Slot)
  /\ free' = unused
  /\ holds' = [b \in DOMAIN holds \cup {Slot} |-> IF b = Slot THEN staging ELSE holds[b]]
  /\ UNCHANGED <<staging, playing, muted, deaf>>
Full == Len(pending) >= JITTER_FRAMES
\* Mutant: the buffer of the dropped frame is not taken back.
PushForgetOld == Push(IF Full THEN Tail(pending) ELSE pending, Unused)
PushDropOld ==
  IF Full THEN Push(Tail(pending), Append(Unused, Head(pending))) ELSE Push(pending, Unused)
-----------------------------------------------------------------------------
(* The output callback, when the frame it played is over.                  *)

PlaySilence ==
  /\ lock # "output" /\ (deaf \/ lock = "input")
  /\ playing # Silence
  /\ playing' = Silence
  /\ UNCHANGED <<pending, free, holds, staging, lock, muted, deaf>>
LockOutput ==
  /\ ~deaf /\ lock = "free"
  /\ lock' = "output"
  /\ UNCHANGED <<pending, free, holds, staging, playing, muted, deaf>>
Pop ==
  /\ lock = "output"
  /\ lock' = "free"
  /\ IF pending = <<>> THEN playing' = Silence /\ UNCHANGED <<pending, free>>
     ELSE /\ playing' = holds[Head(pending)]
          /\ pending' = Tail(pending)
          /\ free' = Append(free, Head(pending))
  /\ UNCHANGED <<holds, staging, muted, deaf>>

SetMute ==
  /\ muted' = ~muted
  /\ UNCHANGED <<pending, free, holds, staging, lock, playing, deaf>>
SetDeaf ==
  /\ deaf' = ~deaf
  /\ UNCHANGED <<pending, free, holds, staging, lock, playing, muted>>

JNext == FillStaging \/ PushDropOld \/ PlaySilence \/ LockOutput \/ Pop \/ SetMute \/ SetDeaf
JSpec == JInit /\ [][JNext]_jvars
-----------------------------------------------------------------------------
(* Properties.                                                             *)

\* The queue never allocates in a callback (unwrap_or_else of push_drop_old),
\* its buffers stay distinct, and the delay stays within JITTER_FRAMES.
NeverAllocates ==
  /\ DOMAIN holds = Buffer
  /\ Len(pending) <= JITTER_FRAMES
  /\ Range(pending) \cup Range(free) = Buffer
  /\ Len(pending) + Len(free) = JITTER_FRAMES + 1

\* Frames are played in the order of capture, whatever was dropped: what waits
\* is older the nearer it is, and later than what is played.
PlaysInOrder ==
  /\ \A i \in 1..Len(pending) :
       /\ playing < holds[pending[i]]
       /\ \A j \in 1..(i - 1) : holds[pending[j]] < holds[pending[i]]
  /\ playing <= staging
=============================================================================
