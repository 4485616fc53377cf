--------------------------- MODULE MCRingRuntime ---------------------------
(* A small instance of RingRuntime for TLC: three calls, two slots, so that    *)
(* calls wait, and one slot can be free while the other changes hands.         *)
EXTENDS RingRuntime

CONSTANTS c1, c2, c3

MCCalls == {c1, c2, c3}
=============================================================================
