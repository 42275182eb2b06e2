------------------------ MODULE BioAttendance_proofs -----------------------
(***************************************************************************)
(* Safety of the attendance terminal for any set of ids from 1 to 127, any *)
(* fingers, and every interleaving of the terminal with people, the        *)
(* administrator, the network and resets.                                  *)
(***************************************************************************)
EXTENDS BioAttendance, TLAPS

(* One step of the system is one of these. *)
LEMMA StepCases ==
  ASSUME [Next]_vars
  PROVE  \/ Setup \/ SetupMode \/ RunTimers \/ CallCheckMode \/ CallAdd
         \/ CallDelete \/ RunEnds \/ FirstImage \/ FingerLifted \/ SecondImage
         \/ StoreModel \/ ConfirmAdding \/ DeleteModel \/ CheckWiFi
         \/ CheckFingerprint \/ SendFingerprintID \/ Reset
         \/ PlaceFinger \/ LiftFinger \/ ChangeMode \/ LinkChanges
         \/ (\E i \in Ids : AskToAdd(i)) \/ (\E i \in Ids : AskToDelete(i))
         \/ UNCHANGED vars
BY DEF Next, Terminal, Environment

LEMMA TypeInit == Init => TypeOK
BY DEF Init, TypeOK, TerminalType, IdType, SensorType, TableType, Enrolling

LEMMA TerminalStep == TypeOK /\ [Next]_vars => TerminalType'
<1> SUFFICES ASSUME TypeOK, [Next]_vars PROVE TerminalType'
  OBVIOUS
<1> USE DEF TypeOK, TerminalType, Enrolling, device, history
<1>1. CASE Setup
  BY <1>1 DEF Setup, ConnectToWiFi
<1>2. CASE SetupMode
  BY <1>2 DEF SetupMode, CheckModeBody, ModeAnswer
<1>3. CASE RunTimers
  BY <1>3 DEF RunTimers
<1>4. CASE CallCheckMode
  BY <1>4 DEF CallCheckMode, CheckModeBody, ModeAnswer, Calls
<1>5. CASE CallAdd
  BY <1>5 DEF CallAdd, Calls
<1>6. CASE CallDelete
  BY <1>6 DEF CallDelete, Calls
<1>7. CASE RunEnds
  BY <1>7 DEF RunEnds
<1>8. CASE FirstImage
  BY <1>8 DEF FirstImage, EnrollEnds
<1>9. CASE FingerLifted
  BY <1>9 DEF FingerLifted
<1>10. CASE SecondImage
  BY <1>10 DEF SecondImage, EnrollEnds
<1>11. CASE StoreModel
  BY <1>11 DEF StoreModel, EnrollEnds
<1>12. CASE ConfirmAdding
  BY <1>12 DEF ConfirmAdding, EnrollEnds, ServerConfirms
<1>13. CASE DeleteModel
  BY <1>13 DEF DeleteModel
<1>14. CASE CheckWiFi
  BY <1>14 DEF CheckWiFi, ConnectToWiFi
<1>15. CASE CheckFingerprint
  BY <1>15 DEF CheckFingerprint, Matches, NoMatch
<1>16. CASE SendFingerprintID
  BY <1>16 DEF SendFingerprintID
<1>17. CASE Reset
  BY <1>17 DEF Reset
<1>18. CASE PlaceFinger
  BY <1>18 DEF PlaceFinger
<1>19. CASE LiftFinger
  BY <1>19 DEF LiftFinger
<1>20. CASE ChangeMode
  BY <1>20 DEF ChangeMode
<1>21. CASE LinkChanges
  BY <1>21 DEF LinkChanges
<1>22. ASSUME NEW i \in Ids, AskToAdd(i) \/ AskToDelete(i) PROVE TerminalType'
  BY <1>22 DEF AskToAdd, AskToDelete
<1>23. CASE UNCHANGED vars
  BY <1>23 DEF vars
<1>24. QED
  BY StepCases, <1>1, <1>2, <1>3, <1>4, <1>5, <1>6, <1>7, <1>8, <1>9, <1>10, <1>11, <1>12,
     <1>13, <1>14, <1>15, <1>16, <1>17, <1>18, <1>19, <1>20, <1>21, <1>22, <1>23

LEMMA IdStep == TypeOK /\ [Next]_vars => IdType'
<1> SUFFICES ASSUME TypeOK, [Next]_vars PROVE IdType'
  OBVIOUS
<1> USE DEF TypeOK, IdType, TableType, Enrolling, device
<1>1. CASE Setup
  BY <1>1 DEF Setup, ConnectToWiFi
<1>2. CASE SetupMode
  BY <1>2 DEF SetupMode, CheckModeBody, ModeAnswer
<1>3. CASE RunTimers
  BY <1>3 DEF RunTimers
<1>4. CASE CallCheckMode
  BY <1>4 DEF CallCheckMode, CheckModeBody, ModeAnswer, Calls
<1>5. CASE CallAdd
  BY <1>5 DEF CallAdd, Calls
<1>6. CASE CallDelete
  BY <1>6 DEF CallDelete, Calls
<1>7. CASE RunEnds
  BY <1>7 DEF RunEnds
<1>8. CASE FirstImage
  BY <1>8 DEF FirstImage, EnrollEnds
<1>9. CASE FingerLifted
  BY <1>9 DEF FingerLifted
<1>10. CASE SecondImage
  BY <1>10 DEF SecondImage, EnrollEnds
<1>11. CASE StoreModel
  BY <1>11 DEF StoreModel, EnrollEnds
<1>12. CASE ConfirmAdding
  BY <1>12 DEF ConfirmAdding, EnrollEnds, ServerConfirms
<1>13. CASE DeleteModel
  BY <1>13 DEF DeleteModel
<1>14. CASE CheckWiFi
  BY <1>14 DEF CheckWiFi, ConnectToWiFi
<1>15. CASE CheckFingerprint
  BY <1>15 DEF CheckFingerprint, Matches, NoMatch
<1>16. CASE SendFingerprintID
  BY <1>16 DEF SendFingerprintID
<1>17. CASE Reset
  BY <1>17 DEF Reset
<1>18. CASE PlaceFinger
  BY <1>18 DEF PlaceFinger
<1>19. CASE LiftFinger
  BY <1>19 DEF LiftFinger
<1>20. CASE ChangeMode
  BY <1>20 DEF ChangeMode
<1>21. CASE LinkChanges
  BY <1>21 DEF LinkChanges
<1>22. ASSUME NEW i \in Ids, AskToAdd(i) \/ AskToDelete(i) PROVE IdType'
  BY <1>22 DEF AskToAdd, AskToDelete
<1>23. CASE UNCHANGED vars
  BY <1>23 DEF vars
<1>24. QED
  BY StepCases, <1>1, <1>2, <1>3, <1>4, <1>5, <1>6, <1>7, <1>8, <1>9, <1>10, <1>11, <1>12,
     <1>13, <1>14, <1>15, <1>16, <1>17, <1>18, <1>19, <1>20, <1>21, <1>22, <1>23

LEMMA SensorStep == TypeOK /\ [Next]_vars => SensorType'
<1> SUFFICES ASSUME TypeOK, [Next]_vars PROVE SensorType'
  OBVIOUS
<1> USE DEF TypeOK, IdType, SensorType, Enrolling, history
<1>1. CASE Setup
  BY <1>1 DEF Setup, ConnectToWiFi
<1>2. CASE SetupMode
  BY <1>2 DEF SetupMode, CheckModeBody, ModeAnswer
<1>3. CASE RunTimers
  BY <1>3 DEF RunTimers
<1>4. CASE CallCheckMode
  BY <1>4 DEF CallCheckMode, CheckModeBody, ModeAnswer, Calls
<1>5. CASE CallAdd
  BY <1>5 DEF CallAdd, Calls
<1>6. CASE CallDelete
  BY <1>6 DEF CallDelete, Calls
<1>7. CASE RunEnds
  BY <1>7 DEF RunEnds
<1>8. CASE FirstImage
  BY <1>8 DEF FirstImage, EnrollEnds
<1>9. CASE FingerLifted
  BY <1>9 DEF FingerLifted
<1>10. CASE SecondImage
  BY <1>10 DEF SecondImage, EnrollEnds
<1>11. CASE StoreModel
  BY <1>11 DEF StoreModel, EnrollEnds
<1>12. CASE ConfirmAdding
  BY <1>12 DEF ConfirmAdding, EnrollEnds, ServerConfirms
<1>13. CASE DeleteModel
  BY <1>13 DEF DeleteModel
<1>14. CASE CheckWiFi
  BY <1>14 DEF CheckWiFi, ConnectToWiFi
<1>15. CASE CheckFingerprint
  BY <1>15 DEF CheckFingerprint, Matches, NoMatch
<1>16. CASE SendFingerprintID
  BY <1>16 DEF SendFingerprintID
<1>17. CASE Reset
  BY <1>17 DEF Reset
<1>18. CASE PlaceFinger
  BY <1>18 DEF PlaceFinger
<1>19. CASE LiftFinger
  BY <1>19 DEF LiftFinger
<1>20. CASE ChangeMode
  BY <1>20 DEF ChangeMode
<1>21. CASE LinkChanges
  BY <1>21 DEF LinkChanges
<1>22. ASSUME NEW i \in Ids, AskToAdd(i) \/ AskToDelete(i) PROVE SensorType'
  BY <1>22 DEF AskToAdd, AskToDelete
<1>23. CASE UNCHANGED vars
  BY <1>23 DEF vars
<1>24. QED
  BY StepCases, <1>1, <1>2, <1>3, <1>4, <1>5, <1>6, <1>7, <1>8, <1>9, <1>10, <1>11, <1>12,
     <1>13, <1>14, <1>15, <1>16, <1>17, <1>18, <1>19, <1>20, <1>21, <1>22, <1>23

LEMMA TableStep == TypeOK /\ [Next]_vars => TableType'
<1> SUFFICES ASSUME TypeOK, [Next]_vars PROVE TableType'
  OBVIOUS
<1> USE DEF TypeOK, IdType, TableType, Enrolling, server, history,
          CheckMode, ChecktoAddID, ChecktoDeleteID
<1>1. CASE Setup
  BY <1>1 DEF Setup, ConnectToWiFi
<1>2. CASE SetupMode
  BY <1>2 DEF SetupMode, CheckModeBody, ModeAnswer
<1>3. CASE RunTimers
  BY <1>3 DEF RunTimers
<1>4. CASE CallCheckMode
  BY <1>4 DEF CallCheckMode, CheckModeBody, ModeAnswer, Calls
<1>5. CASE CallAdd
  BY <1>5 DEF CallAdd, Calls
<1>6. CASE CallDelete
  BY <1>6 DEF CallDelete, Calls
<1>7. CASE RunEnds
  BY <1>7 DEF RunEnds
<1>8. CASE FirstImage
  BY <1>8 DEF FirstImage, EnrollEnds
<1>9. CASE FingerLifted
  BY <1>9 DEF FingerLifted
<1>10. CASE SecondImage
  BY <1>10 DEF SecondImage, EnrollEnds
<1>11. CASE StoreModel
  BY <1>11 DEF StoreModel, EnrollEnds
<1>12. CASE ConfirmAdding
  BY <1>12 DEF ConfirmAdding, EnrollEnds, ServerConfirms
<1>13. CASE DeleteModel
  BY <1>13 DEF DeleteModel
<1>14. CASE CheckWiFi
  BY <1>14 DEF CheckWiFi, ConnectToWiFi
<1>15. CASE CheckFingerprint
  BY <1>15 DEF CheckFingerprint, Matches, NoMatch
<1>16. CASE SendFingerprintID
  BY <1>16 DEF SendFingerprintID
<1>17. CASE Reset
  BY <1>17 DEF Reset
<1>18. CASE PlaceFinger
  BY <1>18 DEF PlaceFinger
<1>19. CASE LiftFinger
  BY <1>19 DEF LiftFinger
<1>20. CASE ChangeMode
  BY <1>20 DEF ChangeMode
<1>21. CASE LinkChanges
  BY <1>21 DEF LinkChanges
<1>22. ASSUME NEW i \in Ids, AskToAdd(i) \/ AskToDelete(i) PROVE TableType'
  BY <1>22 DEF AskToAdd, AskToDelete
<1>23. CASE UNCHANGED vars
  BY <1>23 DEF vars
<1>24. QED
  BY StepCases, <1>1, <1>2, <1>3, <1>4, <1>5, <1>6, <1>7, <1>8, <1>9, <1>10, <1>11, <1>12,
     <1>13, <1>14, <1>15, <1>16, <1>17, <1>18, <1>19, <1>20, <1>21, <1>22, <1>23

LEMMA TypeStep == TypeOK /\ [Next]_vars => TypeOK'
BY TerminalStep, IdStep, SensorStep, TableStep DEF TypeOK

(* The terminal's ids, flags and modes and the sensor's and server's tables *)
(* keep their types, and an id the terminal enrols, deletes or reports is   *)
(* always one the server handed out.                                        *)
THEOREM TypeCorrect == Spec => []TypeOK
<1>1. QED
  BY TypeInit, TypeStep, PTL DEF Spec

----------------------------------------------------------------------------
(* Modes and timers.                                                        *)

(* ModeTimersCoupled, with what setup() starts from. *)
ModeInv ==
  /\ ModeTimersCoupled
  /\ pc \in {"setup", "halted"} => ~firstConnect /\ ~device_Mode

(* An answer of CheckMode, the first or a later one, leaves mode and timers *)
(* in agreement.                                                            *)
LEMMA ModeAnswered ==
  ASSUME TypeOK, t1 = t2, t1 = (firstConnect => device_Mode), CheckModeBody
  PROVE  t1' = t2' /\ t1' = (firstConnect' => device_Mode')
<1> USE DEF TypeOK, TerminalType, TableType
<1>1. CASE UNCHANGED << device_Mode, firstConnect, t1, t2 >>
  BY <1>1
<1>2. CASE ModeAnswer(serverMode)
  <2>1. CASE serverMode /\ (firstConnect => device_Mode)
    BY <1>2, <2>1 DEF ModeAnswer
  <2>2. CASE serverMode /\ firstConnect /\ ~device_Mode
    BY <1>2, <2>2 DEF ModeAnswer
  <2>3. CASE ~serverMode /\ firstConnect /\ device_Mode
    BY <1>2, <2>3 DEF ModeAnswer
  <2>4. CASE ~serverMode /\ ~(firstConnect /\ device_Mode)
    BY <1>2, <2>4 DEF ModeAnswer
  <2>5. QED
    BY <2>1, <2>2, <2>3, <2>4
<1>3. QED
  BY <1>1, <1>2 DEF CheckModeBody

LEMMA ModeStep == TypeOK /\ ModeInv /\ [Next]_vars => ModeInv'
<1> SUFFICES ASSUME TypeOK, ModeInv, [Next]_vars PROVE ModeInv'
  OBVIOUS
<1> USE DEF TypeOK, TerminalType, ModeInv, ModeTimersCoupled, Enrolling, device
<1>1. CASE Setup
  BY <1>1 DEF Setup, ConnectToWiFi
<1>2. CASE SetupMode
  BY <1>2, ModeAnswered DEF SetupMode
<1>3. CASE RunTimers
  BY <1>3 DEF RunTimers
<1>4. CASE CallCheckMode
  BY <1>4, ModeAnswered DEF CallCheckMode, Calls
<1>5. CASE CallAdd
  BY <1>5 DEF CallAdd, Calls
<1>6. CASE CallDelete
  BY <1>6 DEF CallDelete, Calls
<1>7. CASE RunEnds
  BY <1>7 DEF RunEnds
<1>8. CASE FirstImage
  BY <1>8 DEF FirstImage, EnrollEnds
<1>9. CASE FingerLifted
  BY <1>9 DEF FingerLifted
<1>10. CASE SecondImage
  BY <1>10 DEF SecondImage, EnrollEnds
<1>11. CASE StoreModel
  BY <1>11 DEF StoreModel, EnrollEnds
<1>12. CASE ConfirmAdding
  BY <1>12 DEF ConfirmAdding, EnrollEnds, ServerConfirms
<1>13. CASE DeleteModel
  BY <1>13 DEF DeleteModel
<1>14. CASE CheckWiFi
  BY <1>14 DEF CheckWiFi, ConnectToWiFi
<1>15. CASE CheckFingerprint
  BY <1>15 DEF CheckFingerprint, Matches, NoMatch
<1>16. CASE SendFingerprintID
  BY <1>16 DEF SendFingerprintID
<1>17. CASE Reset
  BY <1>17 DEF Reset
<1>18. CASE PlaceFinger
  BY <1>18 DEF PlaceFinger
<1>19. CASE LiftFinger
  BY <1>19 DEF LiftFinger
<1>20. CASE ChangeMode
  BY <1>20 DEF ChangeMode
<1>21. CASE LinkChanges
  BY <1>21 DEF LinkChanges
<1>22. ASSUME NEW i \in Ids, AskToAdd(i) \/ AskToDelete(i) PROVE ModeInv'
  BY <1>22 DEF AskToAdd, AskToDelete
<1>23. CASE UNCHANGED vars
  BY <1>23 DEF vars
<1>24. QED
  BY StepCases, <1>1, <1>2, <1>3, <1>4, <1>5, <1>6, <1>7, <1>8, <1>9, <1>10, <1>11, <1>12,
     <1>13, <1>14, <1>15, <1>16, <1>17, <1>18, <1>19, <1>20, <1>21, <1>22, <1>23

(* Polling is enabled exactly when the terminal is in the mode that polls,  *)
(* through every order of answers, lost answers, resets and mode changes.   *)
THEOREM ModeTimersCorrect == Spec => []ModeTimersCoupled
<1>1. Init => ModeInv
  BY DEF Init, ModeInv, ModeTimersCoupled
<1>2. QED
  BY <1>1, ModeStep, TypeCorrect, PTL DEF Spec, ModeInv

(* A polling callback is only marked while polling is enabled, or was until *)
(* the CheckMode of the same timer.run().                                   *)
QuietInv ==
  /\ AttendanceIsQuiet
  /\ toBeCalled \cap {ChecktoAddID, ChecktoDeleteID} # {} => t1 \/ switched
  /\ pc \in {"setup", "halted", "setupMode", "loop", "wifi", "scan", "send"} =>
       toBeCalled = {}

(* CheckMode disables the polling only together with raising switched.      *)
LEMMA PollingKept ==
  ASSUME TypeOK, CheckModeBody, t1 \/ switched PROVE t1' \/ switched'
<1>1. CASE UNCHANGED << t1, switched >>
  BY <1>1
<1>2. CASE ModeAnswer(serverMode)
  <2>1. CASE serverMode
    BY <1>2, <2>1 DEF ModeAnswer, TypeOK, TerminalType
  <2>2. CASE ~serverMode
    BY <1>2, <2>2 DEF ModeAnswer, TypeOK, TerminalType, TableType
  <2>3. QED
    BY <2>1, <2>2
<1>3. QED
  BY <1>1, <1>2 DEF CheckModeBody

LEMMA QuietStep == TypeOK /\ ModeInv /\ QuietInv /\ [Next]_vars => QuietInv'
<1> SUFFICES ASSUME TypeOK, ModeInv, QuietInv, [Next]_vars PROVE QuietInv'
  OBVIOUS
<1> USE DEF QuietInv, AttendanceIsQuiet, ModeInv, ModeTimersCoupled, TypeOK,
        TerminalType, Enrolling, device, history, CheckMode, ChecktoAddID,
        ChecktoDeleteID
<1>1. CASE Setup
  BY <1>1 DEF Setup, ConnectToWiFi
<1>2. CASE SetupMode
  BY <1>2, PollingKept DEF SetupMode, CheckModeBody
<1>3. CASE RunTimers
  BY <1>3 DEF RunTimers
<1>4. CASE CallCheckMode
  BY <1>4, PollingKept DEF CallCheckMode, CheckModeBody, Calls
<1>5. CASE CallAdd
  BY <1>5 DEF CallAdd, Calls
<1>6. CASE CallDelete
  BY <1>6 DEF CallDelete, Calls
<1>7. CASE RunEnds
  BY <1>7 DEF RunEnds
<1>8. CASE FirstImage
  BY <1>8 DEF FirstImage, EnrollEnds
<1>9. CASE FingerLifted
  BY <1>9 DEF FingerLifted
<1>10. CASE SecondImage
  BY <1>10 DEF SecondImage, EnrollEnds
<1>11. CASE StoreModel
  BY <1>11 DEF StoreModel, EnrollEnds
<1>12. CASE ConfirmAdding
  BY <1>12 DEF ConfirmAdding, EnrollEnds, ServerConfirms
<1>13. CASE DeleteModel
  BY <1>13 DEF DeleteModel
<1>14. CASE CheckWiFi
  BY <1>14 DEF CheckWiFi, ConnectToWiFi
<1>15. CASE CheckFingerprint
  BY <1>15 DEF CheckFingerprint, Matches, NoMatch
<1>16. CASE SendFingerprintID
  BY <1>16 DEF SendFingerprintID
<1>17. CASE Reset
  BY <1>17 DEF Reset
<1>18. CASE PlaceFinger
  BY <1>18 DEF PlaceFinger
<1>19. CASE LiftFinger
  BY <1>19 DEF LiftFinger
<1>20. CASE ChangeMode
  BY <1>20 DEF ChangeMode
<1>21. CASE LinkChanges
  BY <1>21 DEF LinkChanges
<1>22. ASSUME NEW i \in Ids, AskToAdd(i) \/ AskToDelete(i) PROVE QuietInv'
  BY <1>22 DEF AskToAdd, AskToDelete
<1>23. CASE UNCHANGED vars
  BY <1>23 DEF vars
<1>24. QED
  BY StepCases, <1>1, <1>2, <1>3, <1>4, <1>5, <1>6, <1>7, <1>8, <1>9, <1>10, <1>11, <1>12,
     <1>13, <1>14, <1>15, <1>16, <1>17, <1>18, <1>19, <1>20, <1>21, <1>22, <1>23

(* In attendance mode the terminal neither enrols nor deletes, beyond the   *)
(* callbacks already marked when the mode was switched.                     *)
THEOREM AttendanceIsQuietCorrect == Spec => []AttendanceIsQuiet
<1>1. Init => ModeInv /\ QuietInv
  BY DEF Init, ModeInv, ModeTimersCoupled, QuietInv, AttendanceIsQuiet, Enrolling
<1>2. QED
  BY <1>1, ModeStep, QuietStep, TypeCorrect, PTL DEF Spec, QuietInv

----------------------------------------------------------------------------
(* Templates and users.                                                     *)

(* An id is in one table of the server at most, and stays requested while   *)
(* the terminal enrols it.                                                  *)
TableInv ==
  /\ users \cap addReq = {} /\ users \cap delReq = {}
  /\ addReq \cap delReq = {}
  /\ pc \in Enrolling => id \in addReq

LEMMA TableInvStep == TypeOK /\ TableInv /\ [Next]_vars => TableInv'
<1> SUFFICES ASSUME TypeOK, TableInv, [Next]_vars PROVE TableInv'
  OBVIOUS
<1> USE DEF TableInv, TypeOK, IdType, TableType, Enrolling, server, device
<1>1. CASE Setup
  BY <1>1 DEF Setup, ConnectToWiFi
<1>2. CASE SetupMode
  BY <1>2 DEF SetupMode, CheckModeBody, ModeAnswer
<1>3. CASE RunTimers
  BY <1>3 DEF RunTimers
<1>4. CASE CallCheckMode
  BY <1>4 DEF CallCheckMode, CheckModeBody, ModeAnswer, Calls
<1>5. CASE CallAdd
  BY <1>5 DEF CallAdd, Calls
<1>6. CASE CallDelete
  BY <1>6 DEF CallDelete, Calls
<1>7. CASE RunEnds
  BY <1>7 DEF RunEnds
<1>8. CASE FirstImage
  BY <1>8 DEF FirstImage, EnrollEnds
<1>9. CASE FingerLifted
  BY <1>9 DEF FingerLifted
<1>10. CASE SecondImage
  BY <1>10 DEF SecondImage, EnrollEnds
<1>11. CASE StoreModel
  BY <1>11 DEF StoreModel, EnrollEnds
<1>12. CASE ConfirmAdding
  BY <1>12 DEF ConfirmAdding, EnrollEnds, ServerConfirms
<1>13. CASE DeleteModel
  BY <1>13 DEF DeleteModel
<1>14. CASE CheckWiFi
  BY <1>14 DEF CheckWiFi, ConnectToWiFi
<1>15. CASE CheckFingerprint
  BY <1>15 DEF CheckFingerprint, Matches, NoMatch
<1>16. CASE SendFingerprintID
  BY <1>16 DEF SendFingerprintID
<1>17. CASE Reset
  BY <1>17 DEF Reset
<1>18. CASE PlaceFinger
  BY <1>18 DEF PlaceFinger
<1>19. CASE LiftFinger
  BY <1>19 DEF LiftFinger
<1>20. CASE ChangeMode
  BY <1>20 DEF ChangeMode
<1>21. CASE LinkChanges
  BY <1>21 DEF LinkChanges
<1>22. ASSUME NEW i \in Ids, AskToAdd(i) \/ AskToDelete(i) PROVE TableInv'
  BY <1>22 DEF AskToAdd, AskToDelete
<1>23. CASE UNCHANGED vars
  BY <1>23 DEF vars
<1>24. QED
  BY StepCases, <1>1, <1>2, <1>3, <1>4, <1>5, <1>6, <1>7, <1>8, <1>9, <1>10, <1>11, <1>12,
     <1>13, <1>14, <1>15, <1>16, <1>17, <1>18, <1>19, <1>20, <1>21, <1>22, <1>23

(* The order of an enrolment: image, template, confirmation, user; and a    *)
(* deletion in progress never names a user.                                 *)
StoreInv ==
  /\ RegisteredHasTemplate
  /\ pc \in {"lift", "image2", "store"} => buffer # None
  /\ pc = "confirm" => templates[id] # None
  /\ pc = "deleting" => del_id \notin users

LEMMA StoreInvStep == TypeOK /\ TableInv /\ StoreInv /\ [Next]_vars => StoreInv'
<1> SUFFICES ASSUME TypeOK, TableInv, StoreInv, [Next]_vars PROVE StoreInv'
  OBVIOUS
<1> USE DEF StoreInv, RegisteredHasTemplate, TableInv, TypeOK, IdType, SensorType,
        TableType, Enrolling, server, device
<1>1. CASE Setup
  BY <1>1 DEF Setup, ConnectToWiFi
<1>2. CASE SetupMode
  BY <1>2 DEF SetupMode, CheckModeBody, ModeAnswer
<1>3. CASE RunTimers
  BY <1>3 DEF RunTimers
<1>4. CASE CallCheckMode
  BY <1>4 DEF CallCheckMode, CheckModeBody, ModeAnswer, Calls
<1>5. CASE CallAdd
  BY <1>5 DEF CallAdd, Calls
<1>6. CASE CallDelete
  BY <1>6 DEF CallDelete, Calls
<1>7. CASE RunEnds
  BY <1>7 DEF RunEnds
<1>8. CASE FirstImage
  BY <1>8 DEF FirstImage, EnrollEnds
<1>9. CASE FingerLifted
  BY <1>9 DEF FingerLifted
<1>10. CASE SecondImage
  BY <1>10 DEF SecondImage, EnrollEnds
<1>11. CASE StoreModel
  BY <1>11 DEF StoreModel, EnrollEnds
<1>12. CASE ConfirmAdding
  BY <1>12 DEF ConfirmAdding, EnrollEnds, ServerConfirms
<1>13. CASE DeleteModel
  BY <1>13 DEF DeleteModel
<1>14. CASE CheckWiFi
  BY <1>14 DEF CheckWiFi, ConnectToWiFi
<1>15. CASE CheckFingerprint
  BY <1>15 DEF CheckFingerprint, Matches, NoMatch
<1>16. CASE SendFingerprintID
  BY <1>16 DEF SendFingerprintID
<1>17. CASE Reset
  BY <1>17 DEF Reset
<1>18. CASE PlaceFinger
  BY <1>18 DEF PlaceFinger
<1>19. CASE LiftFinger
  BY <1>19 DEF LiftFinger
<1>20. CASE ChangeMode
  BY <1>20 DEF ChangeMode
<1>21. CASE LinkChanges
  BY <1>21 DEF LinkChanges
<1>22. ASSUME NEW i \in Ids, AskToAdd(i) \/ AskToDelete(i) PROVE StoreInv'
  BY <1>22 DEF AskToAdd, AskToDelete
<1>23. CASE UNCHANGED vars
  BY <1>23 DEF vars
<1>24. QED
  BY StepCases, <1>1, <1>2, <1>3, <1>4, <1>5, <1>6, <1>7, <1>8, <1>9, <1>10, <1>11, <1>12,
     <1>13, <1>14, <1>15, <1>16, <1>17, <1>18, <1>19, <1>20, <1>21, <1>22, <1>23

SafetyInv == TypeOK /\ TableInv /\ StoreInv

LEMMA SafetyCorrect == Spec => []SafetyInv
<1>1. Init => TableInv /\ StoreInv
  BY DEF Init, TableInv, StoreInv, RegisteredHasTemplate, Enrolling
<1>2. QED
  BY <1>1, TypeInit, TypeStep, TableInvStep, StoreInvStep, PTL
  DEF Spec, SafetyInv

(* Every user the server counts as enrolled has a template in the sensor.   *)
THEOREM RegisteredHasTemplateCorrect == Spec => []RegisteredHasTemplate
<1>1. QED
  BY SafetyCorrect, PTL DEF SafetyInv, StoreInv

(* The two steps that write the sensor's flash spare the registered users.  *)
LEMMA TemplateStep ==
  SafetyInv /\ [Next]_vars =>
    \A i \in users \cap users' : templates'[i] = templates[i]
<1> SUFFICES ASSUME SafetyInv, [Next]_vars, NEW i \in users \cap users'
             PROVE  templates'[i] = templates[i]
  OBVIOUS
<1>1. CASE StoreModel
  <2>1. id # i
    BY <1>1 DEF StoreModel, SafetyInv, TableInv, Enrolling
  <2>2. QED
    BY <1>1, <2>1 DEF StoreModel, SafetyInv, TypeOK, SensorType, TableType
<1>2. CASE DeleteModel
  <2>1. del_id # i
    BY <1>2 DEF DeleteModel, SafetyInv, StoreInv
  <2>2. QED
    BY <1>2, <2>1 DEF DeleteModel, SafetyInv, TypeOK, SensorType, TableType
<1>3. CASE UNCHANGED templates
  BY <1>3
<1>4. QED
  BY <1>1, <1>2, <1>3, StepCases
  DEF Setup, SetupMode, RunTimers, CallCheckMode, CheckModeBody, CallAdd,
      CallDelete, RunEnds, FirstImage, FingerLifted, SecondImage,
      ConfirmAdding, CheckWiFi, CheckFingerprint, SendFingerprintID, Reset,
      PlaceFinger, LiftFinger, ChangeMode, LinkChanges, AskToAdd, AskToDelete,
      vars

(* While a user stays registered no other finger takes the slot.            *)
THEOREM RegisteredTemplateStableCorrect == Spec => RegisteredTemplateStable
<1>1. SafetyInv /\ [Next]_vars =>
        [\A i \in users \cap users' : templates'[i] = templates[i]]_vars
  BY TemplateStep
<1>2. QED
  BY <1>1, SafetyCorrect, PTL DEF Spec, RegisteredTemplateStable

----------------------------------------------------------------------------
(* What is left behind in the sensor.                                       *)

(* The steps that move no id between the server's tables and the sensor:    *)
(* in these a deletion in progress stays one.                               *)
LEMMA QuietCases ==
  ASSUME [Next]_vars
  PROVE  \/ StoreModel \/ ConfirmAdding \/ CallDelete \/ DeleteModel \/ Reset
         \/ \E i \in Ids : AskToAdd(i) \/ AskToDelete(i)
         \/ /\ UNCHANGED << templates, users, addReq, delReq, del_id, lostDeletes >>
            /\ pc = "deleting" <=> pc' = "deleting"
<1> USE DEF device, server, history
<1>1. CASE Setup \/ SetupMode
  BY <1>1 DEF Setup, SetupMode, CheckModeBody
<1>2. CASE RunTimers \/ CallCheckMode \/ CallAdd \/ RunEnds
  BY <1>2 DEF RunTimers, CallCheckMode, CheckModeBody, CallAdd, RunEnds, Calls
<1>3. CASE FirstImage \/ FingerLifted \/ SecondImage
  BY <1>3 DEF FirstImage, FingerLifted, SecondImage, EnrollEnds
<1>4. CASE CheckWiFi \/ CheckFingerprint \/ SendFingerprintID
  BY <1>4 DEF CheckWiFi, CheckFingerprint, Matches, NoMatch,
              SendFingerprintID
<1>5. CASE PlaceFinger \/ LiftFinger \/ ChangeMode \/ LinkChanges
  BY <1>5 DEF PlaceFinger, LiftFinger, ChangeMode, LinkChanges
<1>6. CASE UNCHANGED vars
  BY <1>6 DEF vars
<1> QED
  BY <1>1, <1>2, <1>3, <1>4, <1>5, <1>6, StepCases

LEMMA OrphanStep ==
  SafetyInv /\ OrphansAccounted /\ [Next]_vars => OrphansAccounted'
<1> SUFFICES ASSUME SafetyInv, OrphansAccounted, [Next]_vars
             PROVE  OrphansAccounted'
  OBVIOUS
<1> USE DEF OrphansAccounted, SafetyInv, TypeOK, IdType, SensorType, TableType
<1>1. CASE StoreModel
  <2>1. id \in addReq
    BY <1>1 DEF StoreModel, TableInv, Enrolling
  <2> QED
    BY <1>1, <2>1 DEF StoreModel, server, device
<1>2. CASE ConfirmAdding
  BY <1>2 DEF ConfirmAdding, ServerConfirms, TableInv, Enrolling, device, history
<1>3. CASE CallDelete
  BY <1>3 DEF CallDelete, Calls
<1>4. CASE DeleteModel
  BY <1>4 DEF DeleteModel, server, device
<1>5. CASE Reset
  BY <1>5 DEF Reset, server
<1>6. ASSUME NEW i \in Ids, AskToAdd(i) \/ AskToDelete(i)
      PROVE  OrphansAccounted'
  BY <1>6 DEF AskToAdd, AskToDelete, device, history
<1>7. CASE /\ UNCHANGED << templates, users, addReq, delReq, del_id, lostDeletes >>
           /\ pc = "deleting" <=> pc' = "deleting"
  BY <1>7
<1> QED
  BY <1>1, <1>2, <1>3, <1>4, <1>5, <1>6, <1>7, QuietCases

(* A template that belongs to no user and no request is one whose deletion  *)
(* the server handed out and the terminal did not carry out.                *)
THEOREM OrphansAccountedCorrect == Spec => []OrphansAccounted
<1>1. Init => OrphansAccounted
  BY DEF Init, OrphansAccounted
<1> QED
  BY <1>1, OrphanStep, SafetyCorrect, PTL DEF Spec

----------------------------------------------------------------------------
(* Attendance.                                                              *)

(* What is about to be sent is the id whose template the finger scanned has.*)
(* Nothing but the terminal writes templates, so it still has it.           *)
ScanInv == pc = "send" => templates[FingerID] = scanned /\ scanned # None

LEMMA ScanStep == TypeOK /\ ScanInv /\ [Next]_vars => ScanInv'
<1> SUFFICES ASSUME TypeOK, ScanInv, [Next]_vars, pc' = "send"
             PROVE  templates'[FingerID'] = scanned' /\ scanned' # None
  BY DEF ScanInv
<1> USE DEF ScanInv, device, history
<1>1. CASE CheckFingerprint
  BY <1>1 DEF CheckFingerprint, Matches, NoMatch
<1>2. CASE /\ pc = "send"
           /\ UNCHANGED << templates, FingerID, scanned >>
  BY <1>2
<1>3. CASE Setup \/ SetupMode \/ RunTimers \/ CallCheckMode
           \/ CallAdd \/ CallDelete \/ RunEnds
  BY <1>3 DEF Setup, SetupMode, RunTimers, CallCheckMode, CallAdd, CallDelete,
              RunEnds, Calls
<1>4. CASE FirstImage \/ FingerLifted \/ SecondImage \/ StoreModel
           \/ ConfirmAdding \/ DeleteModel
  BY <1>4 DEF FirstImage, FingerLifted, SecondImage, StoreModel,
              ConfirmAdding, DeleteModel, EnrollEnds
<1>5. CASE CheckWiFi \/ SendFingerprintID \/ Reset
  BY <1>5 DEF CheckWiFi, SendFingerprintID, Reset
<1>6. CASE \/ PlaceFinger \/ LiftFinger \/ ChangeMode \/ LinkChanges
           \/ \E i \in Ids : AskToAdd(i) \/ AskToDelete(i)
  BY <1>2, <1>6 DEF PlaceFinger, LiftFinger, ChangeMode, LinkChanges,
                    AskToAdd, AskToDelete
<1>7. CASE UNCHANGED vars
  BY <1>2, <1>7 DEF vars
<1> QED
  BY <1>1, <1>3, <1>4, <1>5, <1>6, <1>7, StepCases

(* Only sending an id changes the attendance of a user who stays one.       *)
LEMMA ToggleStep ==
  TypeOK /\ ScanInv /\ [Next]_vars =>
    \A i \in users \cap users' :
      present'[i] # present[i] => templates[i] = scanned /\ scanned # None
<1> SUFFICES ASSUME TypeOK, ScanInv, [Next]_vars, NEW i \in users \cap users',
                    present'[i] # present[i]
             PROVE  templates[i] = scanned /\ scanned # None
  OBVIOUS
<1> USE DEF server
<1>1. CASE SendFingerprintID
  <2>1. i = FingerID
    BY <1>1 DEF SendFingerprintID, TypeOK, TableType
  <2> QED
    BY <1>1, <2>1 DEF SendFingerprintID, ScanInv
<1>2. CASE \E k \in Ids : AskToDelete(k)
  BY <1>2 DEF AskToDelete, TypeOK, TableType
<1>3. CASE UNCHANGED present
  BY <1>3
<1> QED
  BY <1>1, <1>2, <1>3, StepCases
  DEF Setup, SetupMode, RunTimers, CallCheckMode, CheckModeBody, CallAdd,
      CallDelete, RunEnds, FirstImage, FingerLifted, SecondImage, StoreModel,
      ConfirmAdding, DeleteModel, CheckWiFi, CheckFingerprint, Reset,
      PlaceFinger, LiftFinger, ChangeMode, LinkChanges, AskToAdd, vars

(* A user is logged in or out by a finger that has the user's template.     *)
THEOREM ToggledByOwnerCorrect == Spec => ToggledByOwner
<1>1. Init => ScanInv
  BY DEF Init, ScanInv
<1>2. TypeOK /\ ScanInv /\ [Next]_vars =>
        [\A i \in users \cap users' :
           present'[i] # present[i] => templates[i] = scanned /\ scanned # None]_vars
  BY ToggleStep
<1> QED
  BY <1>1, <1>2, ScanStep, TypeCorrect, PTL DEF Spec, ToggledByOwner

----------------------------------------------------------------------------
(* The life of an id.                                                       *)

(* The conditions of Stage exclude each other. *)
LEMMA StageIs ==
  ASSUME TableInv, StoreInv, NEW i \in Ids
  PROVE  Stage(i) =
           IF i \in users THEN "registered"
           ELSE IF i \in delReq \/ (pc = "deleting" /\ i = del_id) THEN "leaving"
           ELSE IF i \in addReq
                  THEN IF templates[i] = None THEN "requested" ELSE "stored"
                  ELSE IF templates[i] = None THEN "free" ELSE "orphan"
BY DEF Stage, TableInv, StoreInv

LEMMA StageStep ==
  ASSUME SafetyInv, SafetyInv', [Next]_vars
  PROVE  \/ \A i \in Ids : Stage(i)' = Stage(i)
         \/ \E k \in Ids : /\ << Stage(k), Stage(k)' >> \in Ledger!Steps
                          /\ \A i \in Ids \ {k} : Stage(i)' = Stage(i)
<1> DEFINE Life(i) ==
             IF i \in users THEN "registered"
             ELSE IF i \in delReq \/ (pc = "deleting" /\ i = del_id) THEN "leaving"
             ELSE IF i \in addReq
                    THEN IF templates[i] = None THEN "requested" ELSE "stored"
                    ELSE IF templates[i] = None THEN "free" ELSE "orphan"
           Moves(k) == << Life(k), Life(k)' >> \in Ledger!Steps
           Stays(i) == Life(i)' = Life(i)
<1>0. \A i \in Ids : Stage(i) = Life(i) /\ Stage(i)' = Life(i)'
  <2>1. \A i \in Ids : Stage(i) = Life(i)
    BY StageIs DEF SafetyInv
  <2>2. ASSUME NEW i \in Ids PROVE Stage(i)' = Life(i)'
    BY DEF Stage, TableInv, StoreInv, SafetyInv
  <2> QED BY <2>1, <2>2
<1> DEFINE Goal == \/ \A i \in Ids : Stage(i)' = Stage(i)
                   \/ \E k \in Ids : /\ << Stage(k), Stage(k)' >> \in Ledger!Steps
                                    /\ \A i \in Ids \ {k} : Stage(i)' = Stage(i)
           OneMoves(k) == (Stays(k) \/ Moves(k)) /\ \A i \in Ids \ {k} : Stays(i)
<1>a. ASSUME \A i \in Ids : Stays(i) PROVE Goal
  BY <1>a, <1>0
<1>b. ASSUME NEW k \in Ids, OneMoves(k) PROVE Goal
  <2>1. CASE Stays(k)
    <3>1. \A i \in Ids : Stays(i)
      BY <1>b, <2>1
    <3> QED BY <3>1, <1>a
  <2>2. CASE Moves(k)
    BY <1>b, <2>2, <1>0
  <2> QED BY <1>b, <2>1, <2>2
<1> HIDE DEF Goal
<1> SUFFICES Goal
  BY DEF Goal
<1> USE DEF Ledger!Steps
<1>1. CASE StoreModel
  <2>1. PICK k \in Ids : k = id
    BY <1>1 DEF StoreModel, SafetyInv, TypeOK, IdType, Enrolling
  <2>2. k \in addReq /\ k \notin users \cup delReq /\ pc = "store" /\ buffer # None
    BY <1>1, <2>1 DEF StoreModel, SafetyInv, TableInv, StoreInv, Enrolling
  <2>3. /\ UNCHANGED << users, addReq, delReq, del_id >>
        /\ pc' # "deleting"
        /\ \A i \in Ids \ {k} : templates'[i] = templates[i]
        /\ templates'[k] \in {templates[k], buffer}
    BY <1>1, <2>1 DEF StoreModel, EnrollEnds, server, device, SafetyInv, TypeOK, SensorType
  <2>4. OneMoves(k)
    BY <2>2, <2>3
  <2> QED BY <2>4, <1>b
<1>2. CASE ConfirmAdding
  <2>1. PICK k \in Ids : k = id
    BY <1>2 DEF ConfirmAdding, SafetyInv, TypeOK, IdType, Enrolling
  <2>2. k \in addReq /\ k \notin users \cup delReq /\ pc = "confirm" /\ templates[k] # None
    BY <1>2, <2>1 DEF ConfirmAdding, SafetyInv, TableInv, StoreInv, Enrolling
  <2>3. /\ UNCHANGED << templates, delReq, del_id >>
        /\ pc' # "deleting"
        /\ \/ users' = users \cup {k} /\ addReq' = addReq \ {k}
           \/ UNCHANGED << users, addReq >>
    BY <1>2, <2>1, <2>2 DEF ConfirmAdding, ServerConfirms, EnrollEnds, device
  <2>4. OneMoves(k)
    BY <2>2, <2>3
  <2> QED BY <2>4, <1>b
<1>3. CASE CallDelete
  <2>1. /\ pc = "call"
        /\ UNCHANGED << templates, users, addReq >>
    BY <1>3 DEF CallDelete, Calls
  <2>2. CASE UNCHANGED << delReq, del_id, pc >>
    <3>1. \A i \in Ids : Stays(i)
      BY <2>1, <2>2
    <3> QED BY <3>1, <1>a
  <2>3. ASSUME NEW k \in delReq, delReq' = delReq \ {k},
               \/ del_id' = k /\ pc' = "deleting"
               \/ UNCHANGED << del_id, pc >>
        PROVE  Goal
    <3>1. k \in Ids /\ k \notin users \cup addReq
      BY DEF SafetyInv, TypeOK, TableType, TableInv
    <3>2. OneMoves(k)
      BY <2>1, <2>3, <3>1
    <3> QED BY <3>1, <3>2, <1>b
  <2> QED BY <1>3, <2>2, <2>3 DEF CallDelete
<1>4. CASE DeleteModel
  <2>1. PICK k \in Ids : k = del_id /\ pc = "deleting" /\ k \notin users
    BY <1>4 DEF DeleteModel, SafetyInv, TypeOK, IdType, StoreInv
  <2>2. /\ UNCHANGED << users, addReq, delReq, del_id >>
        /\ pc' # "deleting"
        /\ \A i \in Ids \ {k} : templates'[i] = templates[i]
    BY <1>4, <2>1 DEF DeleteModel, server, device, SafetyInv, TypeOK, SensorType
  <2>3. OneMoves(k)
    BY <2>1, <2>2
  <2> QED BY <2>3, <1>b
<1>5. CASE Reset
  <2>1. UNCHANGED << templates, users, addReq, delReq >> /\ pc' # "deleting"
    BY <1>5 DEF Reset, server
  <2>2. CASE pc = "deleting"
    <3>1. PICK k \in Ids : k = del_id /\ k \notin users
      BY <2>2 DEF SafetyInv, TypeOK, IdType, StoreInv
    <3>2. OneMoves(k)
      BY <2>1, <2>2, <3>1
    <3> QED BY <3>2, <1>b
  <2>3. CASE pc # "deleting"
    <3>1. \A i \in Ids : Stays(i)
      BY <2>1, <2>3
    <3> QED BY <3>1, <1>a
  <2> QED BY <2>2, <2>3
<1>6. ASSUME NEW k \in Ids, AskToAdd(k) PROVE Goal
  <2>1. OneMoves(k)
    BY <1>6 DEF AskToAdd, device
  <2> QED BY <2>1, <1>b
<1>7. ASSUME NEW k \in Ids, AskToDelete(k) PROVE Goal
  <2>1. OneMoves(k)
    BY <1>7 DEF AskToDelete, device, SafetyInv, TableInv, StoreInv
  <2> QED BY <2>1, <1>b
<1>8. CASE /\ UNCHANGED << templates, users, addReq, delReq, del_id, lostDeletes >>
           /\ pc = "deleting" <=> pc' = "deleting"
  <2>1. \A i \in Ids : Stays(i)
    BY <1>8
  <2> QED BY <2>1, <1>a
<1> QED
  BY <1>1, <1>2, <1>3, <1>4, <1>5, <1>6, <1>7, <1>8, QuietCases

(* Terminal, sensor and server implement EnrolmentLedger: at every step one *)
(* id at most goes on in its life, by one of the steps the ledger knows.    *)
THEOREM LedgerKeptCorrect == Spec => LedgerKept
<1>1. Init => Ledger!Init
  <2> SUFFICES ASSUME Init PROVE \A i \in Ids : Stage(i) = "free"
    BY DEF Ledger!Init
  <2> QED BY DEF Init, Stage
<1>2. SafetyInv /\ SafetyInv' /\ [Next]_vars => [Ledger!Next]_[i \in Ids |-> Stage(i)]
  <2> SUFFICES ASSUME SafetyInv, SafetyInv', [Next]_vars
               PROVE  Ledger!Next \/ [i \in Ids |-> Stage(i)]' = [i \in Ids |-> Stage(i)]
    OBVIOUS
  <2>1. CASE \A i \in Ids : Stage(i)' = Stage(i)
    BY <2>1
  <2>2. ASSUME NEW k \in Ids, << Stage(k), Stage(k)' >> \in Ledger!Steps,
               \A i \in Ids \ {k} : Stage(i)' = Stage(i)
        PROVE  Ledger!Move(k)
    BY <2>2 DEF Ledger!Move
  <2> QED BY <2>1, <2>2, StageStep DEF Ledger!Next
<1> QED
  BY <1>1, <1>2, SafetyCorrect, PTL DEF Spec, LedgerKept, Ledger!Spec
=============================================================================
