------------------------- MODULE MCGatewaySession -------------------------
(***************************************************************************)
(* GatewaySession on three sockets: of one user, or two of one user and    *)
(* one of another.  Whichever of k3 and k4 is used first, the other waits. *)
(***************************************************************************)
EXTENDS GatewaySession, TLC

CONSTANTS k1, k2, k3, k4, x, y

TwoUsers == [k \in Conn |-> IF k = k4 THEN y ELSE x]

MCNext == Next /\ (pc'[k3] = "handshake" \/ pc'[k4] = "handshake")
MCSpec == Init /\ [][MCNext]_vars /\ Fairness
=============================================================================
