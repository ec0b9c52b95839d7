--------------------------- MODULE MCConnectionMap ---------------------------
(* Tables of four slots that grow; the first two addresses collide, and the *)
(* third hashes to the last slot, so that probes wrap around.               *)
EXTENDS ConnectionMap, TLC

CONSTANTS a1, a2, a3

MCAddrs == {a1, a2, a3}
MCAddrHash == a1 :> 1 @@ a2 :> 1 @@ a3 :> 7
=============================================================================
