---------------------------- MODULE TimerPromise ---------------------------
(***************************************************************************)
(* What SimpleTimer promises the sketch that uses it, without clocks,      *)
(* flags or passes: a table of timers, each owed a number of calls.  A     *)
(* timer leaves the table when the sketch deletes it or when it has been   *)
(* called as often as it was set for, and for no other reason.             *)
(***************************************************************************)
EXTENDS Integers

CONSTANTS
  Slots, Callbacks, RunCounts,
  NoCallback,   (* not a callback                                            *)
  Forever       (* owed calls without end; not a natural number              *)

NoTimer == [fn |-> NoCallback, owed |-> 0]

VARIABLES
  timers,   (* the timer in each slot, or NoTimer                            *)
  event     (* the call made by the sketch or received by it                 *)

Owed(n) == IF n = 0 THEN Forever ELSE n

Init ==
  /\ timers = [i \in Slots |-> NoTimer]
  /\ event = << "none", -1 >>

Set(i) ==
  /\ timers[i] = NoTimer
  /\ \E f \in Callbacks, n \in RunCounts :
       timers' = [timers EXCEPT ![i] = [fn |-> f, owed |-> Owed(n)]]
  /\ event' = << "setTimer", i >>

(* A timer is refused only when there is no room for it. *)
Refuse ==
  /\ \A i \in Slots : timers[i] # NoTimer
  /\ event' = << "setTimer", -1 >>
  /\ UNCHANGED timers

Cancel(i) ==
  /\ timers' = [timers EXCEPT ![i] = NoTimer]
  /\ event' = << "deleteTimer", i >>

(* One of the calls a timer is owed. *)
Call(i) ==
  /\ timers[i] # NoTimer
  /\ timers[i].owed # 0
  /\ timers' = [timers EXCEPT ![i].owed = IF @ = Forever THEN @ ELSE @ - 1]
  /\ event' = << "call", i >>

(* The callback returns; a timer owed nothing more goes. *)
Returned(i) ==
  /\ timers' = [timers EXCEPT ![i] = IF @.owed = 0 THEN NoTimer ELSE @]
  /\ event' = << "return", i >>

(* Everything else a sketch does, setting a null callback included, leaves  *)
(* the promises as they are.                                                *)
Other ==
  /\ event'[1] \in {"none", "setNull", "restartTimer", "enable", "disable"}
  /\ UNCHANGED timers

Next ==
  \/ \E i \in Slots : Set(i) \/ Cancel(i) \/ Call(i) \/ Returned(i)
  \/ Refuse
  \/ Other

Spec == Init /\ [][Next]_<< timers, event >>
=============================================================================
