--------------------------- MODULE EnrolmentLedger -------------------------
(***************************************************************************)
(* What the attendance terminal, its sensor and the server are to achieve  *)
(* together: every fingerprint id goes through one life cycle, and a       *)
(* person is registered only after a stored template, and forgotten only   *)
(* through a deletion.                                                     *)
(***************************************************************************)
CONSTANT Ids

VARIABLE status

Status == {"free", "requested", "stored", "registered", "leaving", "orphan"}

(* The steps one id may take.  "orphan" is a template nobody answers for:   *)
(* its deletion got lost.  It can only be taken over by a new request.      *)
Steps ==
  { << "free",       "requested"  >>,   \* the administrator asks
    << "orphan",     "stored"     >>,   \*   ... for an id still in the sensor
    << "requested",  "stored"     >>,   \* the template is in the flash
    << "stored",     "registered" >>,   \* the server has been told
    << "registered", "leaving"    >>,   \* the administrator deletes
    << "leaving",    "free"       >>,   \* the template is gone
    << "leaving",    "orphan"     >>,   \*   ... or its deletion is lost
    << "leaving",    "requested"  >>,   \* the same, for an id asked for again
    << "leaving",    "stored"     >> }  \*   while it was being deleted

Init == status = [i \in Ids |-> "free"]

(* One id takes a step, the others stay where they are. *)
Move(i) ==
  /\ << status[i], status'[i] >> \in Steps
  /\ status' = [status EXCEPT ![i] = status'[i]]

Next == \E i \in Ids : Move(i)

Spec == Init /\ [][Next]_status
=============================================================================
