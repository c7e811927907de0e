---------------------------- MODULE MCMeteredSeat ----------------------------
(* Three dials, two of them by one peer, so that a peer meets both itself  *)
(* and another peer at the seat.                                           *)
EXTENDS MeteredSeat

CONSTANTS d1, d2, d3, p1, p2

MCDials  == {d1, d2, d3}
MCPeers  == {p1, p2}
MCPeerOf == [d \in MCDials |-> IF d = d3 THEN p2 ELSE p1]
=============================================================================
