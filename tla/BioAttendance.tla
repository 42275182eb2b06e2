--------------------------- MODULE BioAttendance ---------------------------
(***************************************************************************)
(* The fingerprint attendance terminal                                     *)
(* (ESP8266_ESP32 Projects/FingerprintBioAttendance), the sensor that      *)
(* keeps the templates in its own flash, and the attendance server.        *)
(*                                                                         *)
(* The terminal is one thread: setup(), then loop() = timer.run(), the     *)
(* WiFi check and one look at the sensor.  A request to the server is one  *)
(* step with three outcomes: it is not processed, it is processed and the  *)
(* answer lost, or it is processed and answered.  Everything that happens  *)
(* between two of the terminal's steps (a finger placed or lifted, the     *)
(* administrator, the WiFi, a reset) is a step of its own.                 *)
(*                                                                         *)
(* Assumed of the sensor: the answer the driver returns is the one to the  *)
(* command just given, or an error.  FingerprintLink shows that the driver *)
(* alone does not see to this after a time-out.                            *)
(*                                                                         *)
(* A definition whose comment starts with "Fault" is a mistaken variant of *)
(* the one that follows it and is used by none.                            *)
(***************************************************************************)
EXTENDS Integers, FiniteSets

CONSTANTS
  Ids,       (* the fingerprint ids the server hands out; they fit uint8_t   *)
  Fingers,   (* the fingers people put on the sensor                         *)
  None       (* no finger, no template                                       *)

ASSUME BioAssumption ==
  /\ Ids \subseteq 1 .. 127   (* "The ID start form 1 to 127" *)
  /\ None \notin Fingers

(* The callbacks of the three timers, in the order of their slots. *)
CheckMode       == 0
ChecktoAddID    == 1
ChecktoDeleteID == 2

VARIABLES
  pc,            (* what the terminal is doing                               *)
  toBeCalled,    (* the callbacks timer.run() has still to call              *)
  device_Mode, firstConnect,
  t1, t2,        (* are the two polling timers enabled?                      *)
  id,            (* the id being enrolled                                    *)
  del_id,        (* the id ChecktoDeleteID was told to delete                *)
  FingerID,      (* the id of the last match                                 *)
  wifi           (* "up", "down" (the station retries) or "off" (WIFI_OFF)   *)

VARIABLES        (* the sensor, and what is on its glass                     *)
  glass, buffer, templates

VARIABLES        (* the server                                               *)
  serverMode,    (* the mode it answers with; TRUE is attendance             *)
  addReq, delReq, users, present

VARIABLES        (* history                                                  *)
  switched,      (* did CheckMode disable the polling in this timer.run()?   *)
  scanned,       (* the finger behind FingerID                               *)
  lostDeletes    (* deletions served by the server and not carried out       *)

device  == << device_Mode, firstConnect, t1, t2, id, del_id, FingerID >>
server  == << serverMode, addReq, delReq, users, present >>
history == << switched, scanned, lostDeletes >>
vars == << pc, toBeCalled, device, wifi, glass, buffer, templates, server,
           history >>

Enrolling == {"image1", "lift", "image2", "store", "confirm"}

----------------------------------------------------------------------------
(* Power-on: the globals of the sketch have their initial values. *)

Init ==
  /\ pc = "setup"
  /\ toBeCalled = {}
  /\ device_Mode = FALSE /\ firstConnect = FALSE
  /\ t1 = FALSE /\ t2 = FALSE
  /\ id = 0 /\ del_id = 0 /\ FingerID = 0
  /\ wifi = "off"
  /\ glass = None /\ buffer = None
  /\ templates = [i \in Ids |-> None]
  /\ serverMode \in BOOLEAN
  /\ addReq = {} /\ delReq = {} /\ users = {}
  /\ present = [i \in Ids |-> FALSE]
  /\ switched = FALSE /\ scanned = None /\ lostDeletes = {}

(* connectToWiFi: the radio is switched off and on, and off again when no   *)
(* connection came up in thirty seconds.                                    *)
ConnectToWiFi == wifi' \in {"up", "off"}

(* setup() up to the call of CheckMode: without a display or a sensor the   *)
(* terminal stops for good; both polling timers start enabled.              *)
Setup ==
  /\ pc = "setup"
  /\ ConnectToWiFi
  /\ \/ pc' = "halted" /\ UNCHANGED << t1, t2 >>
     \/ pc' = "setupMode" /\ t1' = TRUE /\ t2' = TRUE
  /\ UNCHANGED << toBeCalled, device_Mode, firstConnect, id, del_id, FingerID,
                  glass, buffer, templates, server, history >>

(* A reset or a power cycle, at any point; functions that end without the   *)
(* return value they declare (deleteFingerprint, getFingerprintEnroll) may  *)
(* also end this way.  The templates are in the sensor's flash.             *)
Reset ==
  /\ pc # "setup"
  /\ pc' = "setup"
  /\ toBeCalled' = {}
  /\ device_Mode' = FALSE /\ firstConnect' = FALSE
  /\ t1' = FALSE /\ t2' = FALSE
  /\ id' = 0 /\ del_id' = 0 /\ FingerID' = 0
  /\ wifi' = "off"
  /\ buffer' = None
  /\ switched' = FALSE /\ scanned' = None
  /\ lostDeletes' = IF pc = "deleting" THEN lostDeletes \cup {del_id}
                    ELSE lostDeletes
  /\ UNCHANGED << glass, templates, server >>

----------------------------------------------------------------------------
(* timer.run().  Which timers are due is left open; only enabled ones are   *)
(* marked, and the marks are not looked at again before they are acted on.  *)

(* Fault: the enabled flags are not looked at. *)
RunTimers_IgnoresEnabled ==
  /\ pc = "loop"
  /\ toBeCalled' \in SUBSET {CheckMode, ChecktoAddID, ChecktoDeleteID}
  /\ pc' = "call"
  /\ switched' = FALSE
  /\ UNCHANGED << device, wifi, glass, buffer, templates, server, scanned,
                  lostDeletes >>

RunTimers ==
  /\ pc = "loop"
  /\ \E due \in SUBSET {CheckMode, ChecktoAddID, ChecktoDeleteID} :
       toBeCalled' = { c \in due : \/ c = CheckMode
                                   \/ c = ChecktoAddID /\ t1
                                   \/ c = ChecktoDeleteID /\ t2 }
  /\ pc' = "call"
  /\ switched' = FALSE
  /\ UNCHANGED << device, wifi, glass, buffer, templates, server, scanned,
                  lostDeletes >>

Calls(c) ==
  /\ pc = "call"
  /\ c \in toBeCalled
  /\ \A d \in toBeCalled : c <= d

RunEnds ==
  /\ pc = "call"
  /\ toBeCalled = {}
  /\ pc' = "wifi"
  /\ switched' = FALSE
  /\ UNCHANGED << toBeCalled, device, wifi, glass, buffer, templates, server,
                  scanned, lostDeletes >>

----------------------------------------------------------------------------
(* CheckMode, called by setup() and by its timer.  The first answer after   *)
(* power-on is taken over before it is compared; from then on device_Mode   *)
(* is the opposite of the last answer.                                      *)

(* Fault: only one of the two polling timers follows the mode. *)
ModeAnswer_ForgetsDelete(devMode) ==
  LET mode == IF firstConnect THEN device_Mode ELSE devMode IN
  /\ firstConnect' = TRUE
  /\ device_Mode' = IF mode = devMode THEN ~devMode ELSE mode
  /\ t1' = IF mode = devMode THEN ~devMode ELSE t1
  /\ switched' = (switched \/ (mode /\ devMode))
  /\ UNCHANGED t2

ModeAnswer(devMode) ==
  LET mode == IF firstConnect THEN device_Mode ELSE devMode IN
  /\ firstConnect' = TRUE
  /\ device_Mode' = IF mode = devMode THEN ~devMode ELSE mode
  /\ t1' = IF mode = devMode THEN ~devMode ELSE t1
  /\ t2' = IF mode = devMode THEN ~devMode ELSE t2
  /\ switched' = (switched \/ (mode /\ devMode))

CheckModeBody ==
  /\ \/ wifi = "up" /\ ModeAnswer(serverMode)
     \/ UNCHANGED << device_Mode, firstConnect, t1, t2, switched >>
  /\ UNCHANGED << id, del_id, FingerID, wifi, glass, buffer, templates,
                  server, scanned, lostDeletes >>

SetupMode ==
  /\ pc = "setupMode"
  /\ CheckModeBody
  /\ pc' = "loop"
  /\ UNCHANGED toBeCalled

CallCheckMode ==
  /\ Calls(CheckMode)
  /\ CheckModeBody
  /\ toBeCalled' = toBeCalled \ {CheckMode}
  /\ UNCHANGED pc

----------------------------------------------------------------------------
(* ChecktoAddID and the enrolment it runs to the end: two images of one     *)
(* finger, a model, a store and the confirmation.  Nothing bounds the time  *)
(* spent waiting for a finger, and loop() does not go on meanwhile.         *)

(* Fault: the number in the answer is not the one that is kept.             *)
CallAdd_Offset ==
  /\ Calls(ChecktoAddID)
  /\ \/ /\ wifi = "up"
        /\ \E i \in addReq : id' = i + 1
        /\ pc' = "image1"
     \/ UNCHANGED << id, pc >>
  /\ toBeCalled' = toBeCalled \ {ChecktoAddID}
  /\ UNCHANGED << device_Mode, firstConnect, t1, t2, del_id, FingerID, wifi,
                  glass, buffer, templates, server, history >>

(* Fault: the global id is only written while it is still 0. *)
CallAdd_KeepsId ==
  /\ Calls(ChecktoAddID)
  /\ \/ /\ wifi = "up"
        /\ \E i \in addReq : id' = IF id = 0 THEN i ELSE id
        /\ pc' = "image1"
     \/ UNCHANGED << id, pc >>
  /\ toBeCalled' = toBeCalled \ {ChecktoAddID}
  /\ UNCHANGED << device_Mode, firstConnect, t1, t2, del_id, FingerID, wifi,
                  glass, buffer, templates, server, history >>

CallAdd ==
  /\ Calls(ChecktoAddID)
  /\ \/ /\ wifi = "up"
        /\ id' \in addReq
        /\ pc' = "image1"
     \/ UNCHANGED << id, pc >>
  /\ toBeCalled' = toBeCalled \ {ChecktoAddID}
  /\ UNCHANGED << device_Mode, firstConnect, t1, t2, del_id, FingerID, wifi,
                  glass, buffer, templates, server, history >>

(* The end of getFingerprintEnroll, whatever the outcome. *)
EnrollEnds == pc' = "call" /\ buffer' = None

(* getImage answers OK, then image2Tz(1). *)
FirstImage ==
  /\ pc = "image1"
  /\ glass # None
  /\ \/ buffer' = glass /\ pc' = "lift"
     \/ EnrollEnds
  /\ UNCHANGED << toBeCalled, device, wifi, glass, templates, server, history >>

(* getImage answers NOFINGER. *)
FingerLifted ==
  /\ pc = "lift"
  /\ glass = None
  /\ pc' = "image2"
  /\ UNCHANGED << toBeCalled, device, wifi, glass, buffer, templates, server,
                  history >>

(* getImage, image2Tz(2) and createModel: the two images must match. *)
SecondImage ==
  /\ pc = "image2"
  /\ glass # None
  /\ \/ buffer = glass /\ pc' = "store" /\ UNCHANGED buffer
     \/ EnrollEnds
  /\ UNCHANGED << toBeCalled, device, wifi, glass, templates, server, history >>

(* Fault: the confirmation is sent whatever storeModel answers. *)
StoreModel_ConfirmsAnyway ==
  /\ pc = "store"
  /\ \/ /\ templates' = [templates EXCEPT ![id] = buffer]
        /\ lostDeletes' = lostDeletes \ {id}
     \/ UNCHANGED << templates, lostDeletes >>
  /\ pc' = "confirm"
  /\ UNCHANGED << toBeCalled, device, wifi, glass, buffer, server, switched,
                  scanned >>

(* storeModel: the sensor may store and its answer be lost.  An answer of   *)
(* OK is its own: see what is assumed above.                                *)
StoreModel ==
  /\ pc = "store"
  /\ \/ /\ templates' = [templates EXCEPT ![id] = buffer]
        /\ lostDeletes' = lostDeletes \ {id}
        /\ \/ pc' = "confirm" /\ UNCHANGED buffer
           \/ EnrollEnds
     \/ /\ UNCHANGED << templates, lostDeletes >>
        /\ EnrollEnds
  /\ UNCHANGED << toBeCalled, device, wifi, glass, server, switched, scanned >>

(* The server, told that id is stored. *)
ServerConfirms(i) ==
  /\ addReq' = addReq \ {i}
  /\ users' = IF i \in addReq THEN users \cup {i} ELSE users

(* confirmAdding: sent once, and not at all without WiFi. *)
ConfirmAdding ==
  /\ pc = "confirm"
  /\ \/ wifi = "up" /\ ServerConfirms(id)
     \/ UNCHANGED << addReq, users >>
  /\ EnrollEnds
  /\ UNCHANGED << toBeCalled, device, wifi, glass, templates, serverMode,
                  delReq, present, history >>

----------------------------------------------------------------------------
(* ChecktoDeleteID.  The server hands a deletion out once; the terminal     *)
(* never reports what became of it.                                         *)

CallDelete ==
  /\ Calls(ChecktoDeleteID)
  /\ \/ /\ wifi = "up"
        /\ \E i \in delReq :
             /\ delReq' = delReq \ {i}
             /\ \/ /\ del_id' = i
                   /\ pc' = "deleting"
                   /\ UNCHANGED lostDeletes
                \/ /\ lostDeletes' = lostDeletes \cup {i}
                   /\ UNCHANGED << del_id, pc >>
     \/ UNCHANGED << delReq, del_id, pc, lostDeletes >>
  /\ toBeCalled' = toBeCalled \ {ChecktoDeleteID}
  /\ UNCHANGED << device_Mode, firstConnect, t1, t2, id, FingerID, wifi, glass,
                  buffer, templates, serverMode, addReq, users, present,
                  switched, scanned >>

(* Fault: the id enrolled last is deleted instead of the one asked for. *)
DeleteModel_WrongId ==
  /\ pc = "deleting"
  /\ templates' = [i \in Ids |-> IF i = id THEN None ELSE templates[i]]
  /\ pc' = "call"
  /\ UNCHANGED << toBeCalled, device, wifi, glass, buffer, server, history >>

(* deleteFingerprint. *)
DeleteModel ==
  /\ pc = "deleting"
  /\ \/ /\ templates' = [templates EXCEPT ![del_id] = None]
        /\ UNCHANGED lostDeletes
     \/ /\ lostDeletes' = lostDeletes \cup {del_id}
        /\ UNCHANGED templates
  /\ pc' = "call"
  /\ UNCHANGED << toBeCalled, device, wifi, glass, buffer, server, switched,
                  scanned >>

----------------------------------------------------------------------------
(* The rest of loop(). *)

(* Fault: a station that gave up (WIFI_OFF) is not tried again. *)
CheckWiFi_GivesUp ==
  /\ pc = "wifi"
  /\ \/ UNCHANGED wifi
     \/ wifi = "down" /\ ConnectToWiFi
  /\ pc' = "scan"
  /\ UNCHANGED << toBeCalled, device, glass, buffer, templates, server, history >>

(* Not connected and ten seconds since the last attempt: connect again.     *)
CheckWiFi ==
  /\ pc = "wifi"
  /\ \/ UNCHANGED wifi
     \/ wifi # "up" /\ ConnectToWiFi
  /\ pc' = "scan"
  /\ UNCHANGED << toBeCalled, device, glass, buffer, templates, server, history >>

(* getFingerprintID: the slot the search finds, 0 without a finger, -1      *)
(* without a match, -2 after an error.                                      *)
Matches(i) == glass # None /\ templates[i] = glass

NoMatch == IF glass = None THEN {0, -2} ELSE {-1, -2}

(* Fault: an error or a missing match leaves FingerID at the last match,    *)
(* which is sent again.                                                     *)
CheckFingerprint_StaleId ==
  /\ pc = "scan"
  /\ \/ \E i \in Ids : Matches(i) /\ FingerID' = i /\ scanned' = glass
     \/ UNCHANGED FingerID /\ scanned' = glass
  /\ pc' = IF FingerID' \in Ids THEN "send" ELSE "loop"
  /\ UNCHANGED << toBeCalled, device_Mode, firstConnect, t1, t2, id, del_id,
                  wifi, glass, buffer, templates, server, switched, lostDeletes >>

(* CheckFingerprint: a match is sent; no finger, no match and errors are    *)
(* only displayed.                                                          *)
CheckFingerprint ==
  /\ pc = "scan"
  /\ \/ \E i \in Ids :
          /\ Matches(i)
          /\ FingerID' = i /\ scanned' = glass
          /\ pc' = "send"
     \/ /\ FingerID' \in NoMatch
        /\ scanned' = None
        /\ pc' = "loop"
  /\ UNCHANGED << toBeCalled, device_Mode, firstConnect, t1, t2, id, del_id,
                  wifi, glass, buffer, templates, server, switched, lostDeletes >>

(* SendFingerprintID: the server logs the user in, or out. *)
SendFingerprintID ==
  /\ pc = "send"
  /\ \/ wifi = "up" /\ FingerID \in users
          /\ present' = [present EXCEPT ![FingerID] = ~@]
     \/ UNCHANGED present
  /\ pc' = "loop"
  /\ UNCHANGED << toBeCalled, device, wifi, glass, buffer, templates,
                  serverMode, addReq, delReq, users, history >>

Terminal ==
  \/ Setup \/ SetupMode
  \/ RunTimers \/ CallCheckMode \/ CallAdd \/ CallDelete \/ RunEnds
  \/ FirstImage \/ FingerLifted \/ SecondImage \/ StoreModel \/ ConfirmAdding
  \/ DeleteModel
  \/ CheckWiFi \/ CheckFingerprint \/ SendFingerprintID

----------------------------------------------------------------------------
(* People, the administrator and the network. *)

PlaceFinger ==
  /\ glass = None
  /\ glass' \in Fingers
  /\ UNCHANGED << pc, toBeCalled, device, wifi, buffer, templates, server,
                  history >>

LiftFinger ==
  /\ glass # None
  /\ glass' = None
  /\ UNCHANGED << pc, toBeCalled, device, wifi, buffer, templates, server,
                  history >>

AskToAdd(i) ==
  /\ i \notin addReq \cup users \cup delReq
  /\ addReq' = addReq \cup {i}
  /\ UNCHANGED << pc, toBeCalled, device, wifi, glass, buffer, templates,
                  serverMode, delReq, users, present, history >>

AskToDelete(i) ==
  /\ i \in users
  /\ users' = users \ {i}
  /\ delReq' = delReq \cup {i}
  /\ present' = [present EXCEPT ![i] = FALSE]
  /\ UNCHANGED << pc, toBeCalled, device, wifi, glass, buffer, templates,
                  serverMode, addReq, history >>

ChangeMode ==
  /\ serverMode' = ~serverMode
  /\ UNCHANGED << pc, toBeCalled, device, wifi, glass, buffer, templates,
                  addReq, delReq, users, present, history >>

(* The access point goes away; a station that is not off comes back alone.  *)
LinkChanges ==
  /\ \/ wifi = "up" /\ wifi' = "down"
     \/ wifi = "down" /\ wifi' = "up"
  /\ UNCHANGED << pc, toBeCalled, device, glass, buffer, templates, server,
                  history >>

Environment ==
  \/ PlaceFinger \/ LiftFinger \/ ChangeMode \/ LinkChanges
  \/ \E i \in Ids : AskToAdd(i) \/ AskToDelete(i)

Next == Terminal \/ Reset \/ Environment

Spec == Init /\ [][Next]_vars

----------------------------------------------------------------------------
TerminalType ==
  /\ pc \in {"setup", "halted", "setupMode", "loop", "call", "deleting",
             "wifi", "scan", "send"} \cup Enrolling
  /\ device_Mode \in BOOLEAN /\ firstConnect \in BOOLEAN
  /\ t1 \in BOOLEAN /\ t2 \in BOOLEAN /\ switched \in BOOLEAN
  /\ wifi \in {"up", "down", "off"}

IdType ==
  /\ id \in Ids \cup {0} /\ del_id \in Ids \cup {0}
  /\ FingerID \in Ids \cup {0, -1, -2}
  /\ pc \in Enrolling => id \in Ids
  /\ pc = "deleting" => del_id \in Ids
  /\ pc = "send" => FingerID \in Ids

SensorType ==
  /\ glass \in Fingers \cup {None}
  /\ buffer \in Fingers \cup {None}
  /\ scanned \in Fingers \cup {None}
  /\ templates \in [Ids -> Fingers \cup {None}]

TableType ==
  /\ toBeCalled \subseteq {CheckMode, ChecktoAddID, ChecktoDeleteID}
  /\ addReq \subseteq Ids /\ delReq \subseteq Ids /\ users \subseteq Ids
  /\ lostDeletes \subseteq Ids
  /\ serverMode \in BOOLEAN
  /\ present \in [Ids -> BOOLEAN]

(* Types; an id the terminal acts on is one the server handed out.          *)
TypeOK == TerminalType /\ IdType /\ SensorType /\ TableType

(* The two polling timers and the mode never disagree once the server has   *)
(* answered, through resets, lost answers and mode changes; before that the *)
(* terminal polls for enrolments whatever its mode says.                    *)
ModeTimersCoupled ==
  pc \notin {"setup", "halted"} =>
    /\ t1 = t2
    /\ t1 = (firstConnect => device_Mode)

(* In attendance mode the terminal enrols and deletes nothing, except for   *)
(* callbacks that timer.run() had already marked when its own CheckMode     *)
(* switched the mode.                                                       *)
AttendanceIsQuiet ==
  ~t1 /\ ~switched => pc \notin Enrolling \cup {"deleting"}

(* A user the server counts as enrolled has a template in the sensor, so    *)
(* the confirmation never runs ahead of the flash and a late deletion never *)
(* hits a user enrolled since.                                              *)
RegisteredHasTemplate == \A i \in users : templates[i] # None

(* While a user stays registered nobody else's finger takes the slot.       *)
RegisteredTemplateStable ==
  [][ \A i \in users \cap users' : templates'[i] = templates[i] ]_vars

(* A template without a user or a pending request is one whose deletion was *)
(* lost on the way: nothing else leaves templates behind.                   *)
OrphansAccounted ==
  \A i \in Ids : templates[i] # None =>
    \/ i \in users \cup addReq \cup delReq \cup lostDeletes
    \/ pc = "deleting" /\ i = del_id

(* Attendance changes only for the user whose finger was on the glass.      *)
ToggledByOwner ==
  [][ \A i \in users \cap users' :
        present'[i] # present[i] => templates[i] = scanned /\ scanned # None ]_vars

(* Where an id is in its life, read off the server, the sensor and the      *)
(* deletion in progress.                                                    *)
Stage(i) ==
  CASE i \in users -> "registered"
    [] i \in delReq \/ (pc = "deleting" /\ i = del_id) -> "leaving"
    [] i \notin users \cup delReq /\ i \in addReq
         /\ ~(pc = "deleting" /\ i = del_id) ->
         IF templates[i] = None THEN "requested" ELSE "stored"
    [] OTHER -> IF templates[i] = None THEN "free" ELSE "orphan"

(* The life cycle of EnrolmentLedger is respected.                          *)
Ledger == INSTANCE EnrolmentLedger WITH status <- [i \in Ids |-> Stage(i)]

LedgerKept == Ledger!Spec

----------------------------------------------------------------------------
(* Liveness.  The terminal keeps running, people keep touching the sensor,  *)
(* and whatever is retried over and over succeeds in the end: a connection, *)
(* a request, an image, a store.  CheckMode and ChecktoAddID are due again  *)
(* and again because their interval timers are (SimpleTimer,                *)
(* IntervalTimersServed).                                                   *)
Fairness ==
  /\ SF_vars(Terminal)
  /\ WF_vars(PlaceFinger) /\ WF_vars(LiftFinger)
  /\ SF_vars(CheckWiFi /\ wifi' = "up")
  /\ SF_vars(RunTimers /\ toBeCalled' = {CheckMode})
  /\ SF_vars(CallCheckMode /\ wifi = "up" /\ ModeAnswer(serverMode))
  /\ SF_vars(RunTimers /\ toBeCalled' = {ChecktoAddID})
  /\ SF_vars(CallAdd /\ pc' = "image1")
  /\ SF_vars(FirstImage /\ pc' = "lift")
  /\ SF_vars(SecondImage /\ pc' = "store")
  /\ SF_vars(StoreModel /\ pc' = "confirm")
  /\ SF_vars(ConfirmAdding /\ users' # users)

(* The terminal after its last reset: the globals are those of Init, the    *)
(* sensor and the server are as an earlier life of the terminal left them   *)
(* (nobody is logged in: nothing the terminal does depends on it).          *)
Restarted ==
  /\ pc = "setup"
  /\ toBeCalled = {}
  /\ device_Mode = FALSE /\ firstConnect = FALSE
  /\ t1 = FALSE /\ t2 = FALSE
  /\ id = 0 /\ del_id = 0 /\ FingerID = 0
  /\ wifi = "off"
  /\ glass \in Fingers \cup {None} /\ buffer = None
  /\ templates \in [Ids -> Fingers \cup {None}]
  /\ serverMode \in BOOLEAN
  /\ users \in SUBSET { i \in Ids : templates[i] # None }
  /\ addReq \in SUBSET (Ids \ users)
  /\ delReq \in SUBSET (Ids \ (users \cup addReq))
  /\ present = [i \in Ids |-> FALSE]
  /\ switched = FALSE /\ scanned = None
  /\ lostDeletes = { i \in Ids \ (users \cup addReq \cup delReq) :
                       templates[i] # None }

(* No more resets and no loss of a connection once it is up: what is left   *)
(* to happen after the last of them, from every state they can leave.       *)
Steady == (Terminal \/ Environment) /\ ~LinkChanges

SteadySpec == Restarted /\ [][Steady]_vars /\ Fairness

(* The terminal ends up polling for enrolments exactly when the server is   *)
(* not in attendance mode, whatever mode it was in and however many checks  *)
(* failed, although an enrolment may hold the loop up.                      *)
ModeFollowed ==
  \A mode \in BOOLEAN :
    <>[](serverMode = mode /\ pc # "halted") => <>[](t1 = ~mode /\ t2 = ~mode)

(* Once the server stays in enrolment mode, a request for an id ends with a *)
(* registered user, the whole enrolment being repeated after a lost image,  *)
(* store or confirmation.                                                   *)
RequestsServed ==
  <>[](~serverMode /\ pc # "halted") =>
    \A i \in Ids : (i \in addReq) ~> (i \in users)
=============================================================================
