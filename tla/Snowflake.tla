------------------------------ MODULE Snowflake ------------------------------
(***************************************************************************)
(* snowflake::generate.  LAST_TIMESTAMP and SEQUENCE are two atomics read  *)
(* and written one at a time, by whichever threads of the runtime create   *)
(* an id; the clock is the system's, which may be set back.  An id is its  *)
(* timestamp over its sequence number, of which the order is kept and the  *)
(* bits are not.                                                           *)
(***************************************************************************)
EXTENDS Naturals, Sequences

CONSTANTS
  Thread,
  SeqSize,    \* sequence numbers in a millisecond, 0xFFF + 1
  Setback,    \* how far the clock may be set back, 0 for never
  MaxClock,   \* bound on the clock
  MaxIds      \* bound on the ids created

VARIABLES
  clock,       \* now_ms() - EPOCH
  last,        \* LAST_TIMESTAMP
  sequence,    \* SEQUENCE
  pc,          \* where each thread stands in generate
  timestamp, seen, seq,   \* its locals; seen is the `last` it loaded
  ids          \* the ids returned, in order

vars == <<clock, last, sequence, pc, timestamp, seen, seq, ids>>
locals == <<timestamp, seen, seq>>

Id(time, n) == time * SeqSize + n

Init ==
  /\ clock = 1 /\ last = 0 /\ sequence = 0
  /\ pc = [t \in Thread |-> "start"]
  /\ timestamp = [t \in Thread |-> 0]
  /\ seen = [t \in Thread |-> 0]
  /\ seq = [t \in Thread |-> 0]
  /\ ids = <<>>

Goto(t, label) == pc' = [pc EXCEPT ![t] = label]

ReadClock(t) ==
  /\ pc[t] = "start" /\ Len(ids) < MaxIds
  /\ timestamp' = [timestamp EXCEPT ![t] = clock]
  /\ Goto(t, "load")
  /\ UNCHANGED <<clock, last, sequence, seen, seq, ids>>

Load(t) ==
  /\ pc[t] = "load"
  /\ seen' = [seen EXCEPT ![t] = last]
  /\ Goto(t, IF timestamp[t] = last THEN "add" ELSE "renew")
  /\ UNCHANGED <<clock, last, sequence, timestamp, seq, ids>>

\* Mutant: no wait when the numbers of a millisecond are used up.
AddWithoutWait(t) ==
  /\ pc[t] = "add"
  /\ seq' = [seq EXCEPT ![t] = sequence % SeqSize]
  /\ sequence' = sequence + 1
  /\ Goto(t, "keep")
  /\ UNCHANGED <<clock, last, timestamp, seen, ids>>

\* fetch_add, masked: a second round of the same numbers has to wait.
Add(t) ==
  /\ pc[t] = "add"
  /\ seq' = [seq EXCEPT ![t] = sequence % SeqSize]
  /\ sequence' = sequence + 1
  /\ Goto(t, IF seq'[t] = 0 THEN "spin" ELSE "keep")
  /\ UNCHANGED <<clock, last, timestamp, seen, ids>>

\* The wait for the next millisecond ends with the clock past the one seen.
Spin(t) ==
  /\ pc[t] = "spin"
  /\ clock > seen[t]
  /\ timestamp' = [timestamp EXCEPT ![t] = clock]
  /\ Goto(t, "keep")
  /\ UNCHANGED <<clock, last, sequence, seen, seq, ids>>

Return(t, id) ==
  /\ ids' = Append(ids, id)
  /\ Goto(t, "start")

Keep(t) ==
  /\ pc[t] = "keep"
  /\ last' = timestamp[t]
  /\ Return(t, Id(timestamp[t], seq[t]))
  /\ UNCHANGED <<clock, sequence, locals>>

\* Another millisecond than the last one, be it earlier.
Renew(t) ==
  /\ pc[t] = "renew"
  /\ last' = timestamp[t]
  /\ Goto(t, "reset")
  /\ UNCHANGED <<clock, sequence, locals, ids>>

Reset(t) ==
  /\ pc[t] = "reset"
  /\ sequence' = 1
  /\ Return(t, Id(timestamp[t], 0))
  /\ UNCHANGED <<clock, last, locals>>

\* The system's clock moves on, or is set.
SetClock ==
  /\ clock' \in {n \in 1..MaxClock : n = clock + 1 \/ (n < clock /\ clock - n <= Setback)}
  /\ UNCHANGED <<last, sequence, pc, locals, ids>>

Next ==
  \/ \E t \in Thread : \/ ReadClock(t) \/ Load(t) \/ Add(t) \/ Spin(t)
                       \/ Keep(t) \/ Renew(t) \/ Reset(t)
  \/ SetClock

Spec == Init /\ [][Next]_vars

----------------------------------------------------------------------------

TypeOK ==
  /\ clock \in 1..MaxClock /\ last \in 0..MaxClock /\ sequence \in Nat
  /\ pc \in [Thread -> {"start", "load", "add", "spin", "keep", "renew", "reset"}]
  /\ timestamp \in [Thread -> 0..MaxClock] /\ seen \in [Thread -> 0..MaxClock]
  /\ seq \in [Thread -> 0..(SeqSize - 1)]
  /\ ids \in Seq(Nat)

\* test_monotonically_increasing: "IDs should be monotonically increasing", also
\* across the milliseconds whose numbers are used up.
Increasing == \A i, j \in 1..Len(ids) : i < j => ids[i] < ids[j]

\* README.md: "Snowflake IDs - unique ID generation for all entities".
Unique == \A i, j \in 1..Len(ids) : i # j => ids[i] # ids[j]
=============================================================================
