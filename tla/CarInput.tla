------------------------------ MODULE CarInput ------------------------------
(***************************************************************************)
(* The driving side of the car (ESP8266_ESP32 Projects/Car_Cam): the web   *)
(* socket /CarInput, its event handler on the async_tcp task, and the      *)
(* motors and the light that the handler sets.  loop() only asks the       *)
(* oldest driver to leave when there are too many, in the two steps of     *)
(* CameraStream: that this comes to an end is shown there.                 *)
(*                                                                         *)
(* A definition whose comment starts with "Fault" is a mistaken variant of *)
(* the one that follows it and is used by none.                            *)
(***************************************************************************)
EXTENDS AsyncWebSocket

CONSTANTS
  Levels    (* the values a page sends for Speed and Light, 0 among them     *)

ASSUME LevelAssumption == 0 \in Levels

FORWARD == 1
BACKWARD == -1
STOP == 0

(* What a page sends for MoveCar: UP, DOWN, LEFT, RIGHT, STOP, or a value   *)
(* the switch does not know.                                                *)
Commands == 0 .. 5

VARIABLES
  motors,      (* the direction of the RIGHT and of the LEFT motor           *)
  speed, light,
  driver,      (* history: who gave the last MoveCar since the car stopped   *)
  closing      (* loop() has found too many drivers and will close one       *)

car  == << motors, speed, light, driver >>
vars == << socket, car, closing >>

(* moveCar *)
Directions(command) ==
  CASE command = 1 -> << FORWARD,  FORWARD  >>
    [] command = 2 -> << BACKWARD, BACKWARD >>
    [] command = 3 -> << FORWARD,  BACKWARD >>
    [] command = 4 -> << BACKWARD, FORWARD  >>
    [] OTHER       -> << STOP,     STOP     >>

Stopped == << STOP, STOP >>

(* setup() stops the motors before the server starts. *)
Init ==
  /\ InitSocket
  /\ motors = Stopped
  /\ speed = 0 /\ light = 0 /\ driver = 0
  /\ closing = FALSE

Reset ==
  /\ ResetSocket
  /\ motors' = Stopped
  /\ speed' = 0 /\ light' = 0 /\ driver' = 0
  /\ closing' = FALSE

----------------------------------------------------------------------------
(* onCarInputWebSocketEvent *)

OnConnect(c) == Connected(c) /\ UNCHANGED car

(* Fault: the car is left as it is. *)
OnDisconnect_KeepsGoing(c) == Disconnected(c) /\ UNCHANGED car

(* Fault: the light stays on.                                               *)
OnDisconnect_KeepsLight(c) ==
  /\ Disconnected(c)
  /\ motors' = Directions(0)
  /\ driver' = 0
  /\ UNCHANGED << speed, light >>

(* Whichever driver it was, the car stops and the light goes out. *)
OnDisconnect(c) ==
  /\ Disconnected(c)
  /\ motors' = Directions(0)
  /\ light' = 0
  /\ driver' = 0
  /\ UNCHANGED speed

(* A text message of a client in the list, closing or not.  Fragments and   *)
(* other messages are ignored.                                              *)
MoveCar(c, command) ==
  /\ event = NoEvent
  /\ c \in list
  /\ motors' = Directions(command)
  /\ driver' = IF Directions(command) = Stopped THEN 0 ELSE c
  /\ UNCHANGED << socket, speed, light >>

Speed(c, value) ==
  /\ event = NoEvent
  /\ c \in list
  /\ speed' = value
  /\ UNCHANGED << socket, motors, light, driver >>

Light(c, value) ==
  /\ event = NoEvent
  /\ c \in list
  /\ light' = value
  /\ UNCHANGED << socket, motors, speed, driver >>

AsyncTask ==
  \/ AddClient /\ UNCHANGED car
  \/ \E c \in Ids :
       \/ OnConnect(c) \/ OnDisconnect(c)
       \/ \E command \in Commands : MoveCar(c, command)
       \/ \E value \in Levels : Speed(c, value) \/ Light(c, value)
       \/ PeerCloses(c) /\ UNCHANGED car
       \/ CloseAcked(c) /\ UNCHANGED car
       \/ ConnectionLost(c) /\ UNCHANGED car

(* wsCarInput.cleanupClients() in loop(). *)
Cleanup ==
  /\ ~closing
  /\ closing' = TooMany
  /\ UNCHANGED << socket, car >>

CloseOldest ==
  /\ closing
  /\ \/ /\ list # {}
        /\ CloseFront
        /\ closing' = FALSE
        /\ UNCHANGED car
     \/ /\ list = {}
        /\ Reset

Next ==
  \/ AsyncTask /\ UNCHANGED closing
  \/ Cleanup \/ CloseOldest
  \/ Reset

Spec == Init /\ [][Next]_vars

----------------------------------------------------------------------------
TypeOK ==
  /\ SocketType
  /\ motors \in {FORWARD, BACKWARD, STOP} \X {FORWARD, BACKWARD, STOP}
  /\ speed \in Levels /\ light \in Levels
  /\ driver \in Ids \cup {0}
  /\ closing \in BOOLEAN

(* The car drives on nobody's behalf but a driver's who is still there:     *)
(* when the one who set it in motion is gone it has been stopped, also if   *)
(* others are connected, or if the message came while the connection was    *)
(* closing.                                                                 *)
DrivesForPresentDriver ==
  event = NoEvent /\ motors # Stopped => driver \in list

(* With no driver left the car stands still and dark.                       *)
DriverlessIsSafe ==
  event = NoEvent /\ list = {} => motors = Stopped /\ light = 0
=============================================================================
