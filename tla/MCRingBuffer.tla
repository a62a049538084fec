----------------------------- MODULE MCRingBuffer -----------------------------
(* Bounds for TLC: two producers, one of which calls once more than the other. *)
EXTENDS RingBuffer, TLC

CONSTANTS p1, p2

FiveCalls == p1 :> 3 @@ p2 :> 2

===============================================================================
