---------------------------- MODULE EventDelivery ----------------------------
(***************************************************************************)
(* What a gateway session promises its client, without sockets, buffers or *)
(* handovers: events are numbered 1, 2, .. (READY is 1); the client sees   *)
(* them in order, each at most once, and passes over one only if it was    *)
(* dropped when it was numbered.  A client that has to IDENTIFY again      *)
(* starts over.                                                            *)
(***************************************************************************)
EXTENDS Naturals

VARIABLES
  assigned,   \* last number given
  dropped,    \* numbers no client will see
  upto,       \* how far the client has come
  seen        \* what it has seen

vars == <<assigned, dropped, upto, seen>>

Init == assigned = 0 /\ dropped = {} /\ upto = 0 /\ seen = {}

\* The next event is numbered, or numbered and dropped.
Assign ==
  /\ assigned' = assigned + 1
  /\ dropped' \in {dropped, dropped \cup {assigned + 1}}
  /\ UNCHANGED <<upto, seen>>

\* The client moves on to n, having seen everything before it that there is to
\* see; n itself may be a dropped one it is told to count as past.
See(n) ==
  /\ upto < n /\ n <= assigned
  /\ \A m \in (upto + 1)..(n - 1) : m \in dropped
  /\ upto' = n
  /\ seen' = seen \cup ({n} \ dropped)
  /\ UNCHANGED <<assigned, dropped>>

Restart ==
  /\ assigned' = 1
  /\ dropped' = {} /\ upto' = 0 /\ seen' = {}

Next == Assign \/ (\E n \in 1..assigned : See(n)) \/ Restart

Spec == Init /\ [][Next]_vars
=============================================================================
