------------------------------ MODULE RoadHoles ------------------------------
(***************************************************************************)
(* The car monitor (ESP8266_ESP32 Projects/CarCrash): loop() looks for     *)
(* crashes and holes in the road with an accelerometer and three sonars,   *)
(* records each hole in a Firebase database under the next number of       *)
(* /count, and raises /Hole and /Crash for six seconds.  No request is     *)
(* checked for success, except that a count that cannot be read leaves the *)
(* variable count as it is.                                                *)
(*                                                                         *)
(* A definition whose comment starts with "Fault" is a mistaken variant of *)
(* the one that follows it and is used by none.                            *)
(*                                                                         *)
(* The names of the specification begin with Road: Alarms_proofs extends   *)
(* this module and FallDetection.                                          *)
(***************************************************************************)
EXTENDS Integers, Sequences

CONSTANTS
  MaxHoles,    (* bound: holes found                                         *)
  Axis         (* readings of one axis of the accelerometer, in units of 1024*)

ASSUME HolesAssumption == MaxHoles \in Nat

ASSUME AxisAssumption == Axis \subseteq -32 .. 32

(* crashThreshold = 25000, squared, and the largest int, in units of 2^20:  *)
(* int is 32 bits wide, and an axis 16.                                     *)
ThresholdSquared == 596
IntMax == 2047

VARIABLES
  roadHole, carCrash,   (* the flags of the sketch                           *)
  count,                (* its copy of /count                                *)
  step,                 (* where loop() is: 0 sensing, else a step of Steps  *)
  dbCount,              (* /count, None if it is not in the database         *)
  holes,                (* /hole_id/<n>: latitude and longitude              *)
  Hole, Crash,          (* the two alarms in the database                    *)
  found,                (* history: how many holes were found                *)
  lost,                 (* history: a write of /count was lost, or a hole    *)
                        (* was numbered without knowing /count               *)
  stuck                 (* history: alarms whose last clearing was lost      *)

sketch == << roadHole, carCrash, count, step >>
base   == << dbCount, holes, Hole, Crash >>
past   == << found, lost, stuck >>
roadVars   == << sketch, base, past >>

None == -1
Fields == {"lat", "long"}

(* Fault: the hole is recorded before its number is taken.                  *)
Steps_RecordFirst == << "get", "lat", "long", "count", "raiseHole", "clearHole", "raiseCrash", "clearCrash" >>

(* The requests of a pass, in the order of the code.                        *)
Steps == << "get", "count", "lat", "long", "raiseHole", "clearHole", "raiseCrash", "clearCrash" >>

HoleSteps  == 1
CrashSteps == 7

RoadTypeOK ==
  /\ roadHole \in {0, 1} /\ carCrash \in {0, 1}
  /\ count \in 0 .. MaxHoles
  /\ step \in 0 .. Len(Steps)
  /\ dbCount \in {None} \cup (1 .. MaxHoles)
  /\ holes \in [1 .. MaxHoles -> [Fields -> 0 .. MaxHoles]]
  /\ Hole \in {0, 1} /\ Crash \in {0, 1}
  /\ found \in 0 .. MaxHoles
  /\ lost \in BOOLEAN
  /\ stuck \subseteq {"Hole", "Crash"}
  /\ step \in HoleSteps .. CrashSteps - 1 => roadHole = 1
  /\ step >= CrashSteps => carCrash = 1

RoadInit ==
  /\ roadHole = 0 /\ carCrash = 0 /\ count = 0 /\ step = 0
  /\ dbCount = None
  /\ holes = [n \in 1 .. MaxHoles |-> [f \in Fields |-> 0]]
  /\ Hole = 0 /\ Crash = 0
  /\ found = 0 /\ lost = FALSE /\ stuck = {}

----------------------------------------------------------------------------
(* sq(ax) + sq(ay) + sq(az)                                                 *)
SumOfSquares(a) == a[1] * a[1] + a[2] * a[2] + a[3] * a[3]

(* totalAcc > crashThreshold, where the sum fits an int.  Where it does not *)
(* the addition is undefined: it may wrap, sqrt gives no number and the     *)
(* comparison fails, or it may not.                                         *)
Detections(a) ==
  IF SumOfSquares(a) <= IntMax
    THEN {SumOfSquares(a) > ThresholdSquared}
    ELSE BOOLEAN

(* Fault: what is not a hole is taken for a crash, whatever carCrash says.  *)
Branch_NoTest(hole, crash) == IF hole = 1 THEN HoleSteps ELSE CrashSteps

(* After sensing: to the holes, to the crash, or round again.               *)
Branch(hole, crash) ==
  CASE hole = 1                -> HoleSteps
    [] hole # 1 /\ crash = 1  -> CrashSteps
    [] hole # 1 /\ crash # 1  -> 0

(* The sensing half of loop(): acceleration a, and whether a sonar sees a   *)
(* crash, and the middle one a hole.                                        *)
Sense(a, sonarCrash, sonarHole) ==
  /\ step = 0
  /\ sonarHole => found < MaxHoles
  /\ \E detected \in Detections(a) :
       carCrash' = IF detected \/ sonarCrash THEN 1 ELSE carCrash
  /\ roadHole' = IF sonarHole THEN 1 ELSE roadHole
  /\ found' = IF sonarHole THEN found + 1 ELSE found
  /\ step' = Branch(roadHole', carCrash')
  /\ UNCHANGED << count, base, lost, stuck >>

(* getInt /count, then count++. *)
GetCount(ok) ==
  /\ step > 0 /\ Steps[step] = "get"
  /\ LET known == IF ok /\ dbCount # None THEN dbCount ELSE count
     IN  /\ known < MaxHoles
         /\ count' = known + 1
         /\ lost' = (lost \/ known < dbCount)
  /\ step' = step + 1
  /\ UNCHANGED << roadHole, carCrash, base, found, stuck >>

(* setInt /count *)
SetCount(ok) ==
  /\ step > 0 /\ Steps[step] = "count"
  /\ dbCount' = IF ok THEN count ELSE dbCount
  /\ lost' = (lost \/ ~ok)
  /\ step' = step + 1
  /\ UNCHANGED << roadHole, carCrash, count, holes, Hole, Crash, found, stuck >>

(* setString /hole_id/<count>/location_lat and location_long.  /hole_id and *)
(* /hole_location are the same at every writing.                            *)
Record(field, ok) ==
  /\ step > 0 /\ Steps[step] = field
  /\ holes' = IF ok THEN [holes EXCEPT ![count][field] = found] ELSE holes
  /\ step' = step + 1
  /\ UNCHANGED << roadHole, carCrash, count, dbCount, Hole, Crash, past >>

(* setInt /Hole, 1, and then six seconds.                                   *)
RaiseHole(ok) ==
  /\ step > 0 /\ Steps[step] = "raiseHole"
  /\ Hole' = IF ok THEN 1 ELSE Hole
  /\ step' = step + 1
  /\ UNCHANGED << roadHole, carCrash, count, dbCount, holes, Crash, past >>

(* Which alarms have a clearing that was lost.                              *)
Clearing(which, ok) == stuck' = IF ok THEN stuck \ {which} ELSE stuck \cup {which}

(* setInt /Hole, 0 *)
ClearHole(ok) ==
  /\ step > 0 /\ Steps[step] = "clearHole"
  /\ Hole' = IF ok THEN 0 ELSE Hole
  /\ Clearing("Hole", ok)
  /\ roadHole' = 0
  /\ step' = Branch(0, carCrash)
  /\ UNCHANGED << carCrash, count, dbCount, holes, Crash, found, lost >>

RaiseCrash(ok) ==
  /\ step > 0 /\ Steps[step] = "raiseCrash"
  /\ Crash' = IF ok THEN 1 ELSE Crash
  /\ step' = step + 1
  /\ UNCHANGED << roadHole, carCrash, count, dbCount, holes, Hole, past >>

(* Fault: the wrong alarm is cleared.                                       *)
ClearCrash_ClearsHole(ok) ==
  /\ step > 0 /\ Steps[step] = "clearCrash"
  /\ Hole' = IF ok THEN 0 ELSE Hole
  /\ Clearing("Crash", ok)
  /\ carCrash' = 0
  /\ step' = 0
  /\ UNCHANGED << roadHole, count, dbCount, holes, Crash, found, lost >>

(* setInt /Crash, 0 *)
ClearCrash(ok) ==
  /\ step > 0 /\ Steps[step] = "clearCrash"
  /\ Crash' = IF ok THEN 0 ELSE Crash
  /\ Clearing("Crash", ok)
  /\ carCrash' = 0
  /\ step' = 0
  /\ UNCHANGED << roadHole, count, dbCount, holes, Hole, found, lost >>

(* The sketch restarts anywhere; the database stays as it is.               *)
Reset ==
  /\ roadHole' = 0 /\ carCrash' = 0 /\ count' = 0 /\ step' = 0
  /\ stuck' = stuck \cup {a \in {"Hole", "Crash"} :
                            (a = "Hole" /\ Hole = 1) \/ (a = "Crash" /\ Crash = 1)}
  /\ UNCHANGED << base, found, lost >>

RoadNext ==
  \/ \E a \in Axis \X Axis \X Axis, c, h \in BOOLEAN : Sense(a, c, h)
  \/ \E ok \in BOOLEAN :
       \/ GetCount(ok) \/ SetCount(ok)
       \/ \E f \in Fields : Record(f, ok)
       \/ RaiseHole(ok) \/ ClearHole(ok) \/ RaiseCrash(ok) \/ ClearCrash(ok)
  \/ Reset

RoadSpec == RoadInit /\ [][RoadNext]_roadVars

----------------------------------------------------------------------------
(* loop() 253-265: no hole takes the place of another in the database, in   *)
(* any order of readings, lost requests and restarts, except where a write  *)
(* of /count was lost or a hole was numbered after a restart without an     *)
(* answer to the question for /count.                                       *)
HolesKept ==
  [][\A n \in 1 .. MaxHoles, f \in Fields :
        (holes[n][f] # 0 /\ ~lost') => holes'[n][f] = holes[n][f]]_roadVars

(* loop() 267-282: an alarm that is up while the sketch is sensing is one   *)
(* whose clearing was lost, or that a restart cut short.                    *)
AlarmsEnd ==
  step = 0 => /\ Hole = 1 => "Hole" \in stuck
              /\ Crash = 1 => "Crash" \in stuck
=============================================================================
