--------------------------- MODULE MCSimpleTimer ---------------------------
(* SimpleTimer on two slots, a clock of a few milliseconds, and one-shot,   *)
(* twice-shot and interval timers.  With a delay of one millisecond run()   *)
(* can be two periods late and catch up.                                    *)
EXTENDS SimpleTimer

MCDelays    == {1, 2}
MCRunCounts == {0, 1, 2}
MCOneDelay  == {1}
=============================================================================
