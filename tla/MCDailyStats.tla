---------------------------- MODULE MCDailyStats ----------------------------
(* Two sums and their count, over midnight.                                 *)
EXTENDS DailyStats
=============================================================================
