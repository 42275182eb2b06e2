------------------------------ MODULE MCAlarms ------------------------------
(* The two sketches that raise alarms, one or the other in a behaviour:     *)
(* they share nothing.                                                      *)
(*                                                                          *)
(* The fall detector with a short window, and a memory as long as the       *)
(* longest fall.  Of readings that neither fall nor strike, one turns and   *)
(* one is neither still nor turning: a body lying still shows 1 g, an Amp   *)
(* of 10.                                                                   *)
(*                                                                          *)
(* The car monitor with three holes.  The acceleration at rest, above the   *)
(* threshold on one axis, and at the end of the range, where the sum of     *)
(* squares does not fit.                                                    *)
EXTENDS FallDetection, RoadHoles

MCReadings == ({2, 10} \X {20, 30}) \cup {<< 5, 25 >>, << 5, 30 >>}

MCAxis == {0, 26, 31}

VARIABLE of          (* whose alarms                                         *)

AlarmsInit == of \in {"patient", "car"} /\ Init /\ RoadInit

OfPatient == of = "patient" /\ Next     /\ UNCHANGED << of, roadVars >>
OfCar     == of = "car"     /\ RoadNext /\ UNCHANGED << of, vars >>

AlarmsNext == OfPatient \/ OfCar

AlarmsSpec == AlarmsInit /\ [][AlarmsNext]_<< of, vars, roadVars >>
=============================================================================
