--------------------------- MODULE MCWaterQuality ---------------------------
(* A ring of three, and four pH readings without the two extreme ones. *)
EXTENDS WaterQuality
=============================================================================
