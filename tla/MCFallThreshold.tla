-------------------------- MODULE MCFallThreshold ---------------------------
(* Readings of a body at rest, which is 1 g, of next to no weight, and of   *)
(* an impact of 3 g.                                                        *)
EXTENDS FallDetection

MCReadings == {2, 10, 30} \X {20, 90}
=============================================================================
