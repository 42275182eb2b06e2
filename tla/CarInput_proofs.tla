-------------------------- MODULE CarInput_proofs ---------------------------
(***************************************************************************)
(* Proofs about CarInput, for any number of drivers and any limit on them. *)
(*                                                                         *)
(* The invariant says of every state what the two properties say of those  *)
(* between two events: while a deleted client's DISCONNECT event is on its *)
(* way to the handler the car may still be moving, but nobody can send a   *)
(* message then.                                                           *)
(***************************************************************************)
EXTENDS CarInput, TLAPS

----------------------------------------------------------------------------
(* SocketType is kept by every operation of AsyncWebSocket, for any number  *)
(* of connections.                                                          *)

(* An empty socket is well-formed. *)
LEMMA SocketInit == InitSocket => SocketType
BY SocketAssumption DEF InitSocket, SocketType, Ids, NoEvent

(* A reset leaves a well-formed socket. *)
LEMMA SocketReset == ResetSocket => SocketType'
BY SocketAssumption DEF ResetSocket, SocketType, Ids, NoEvent

(* A new client is connected, in the list and next in the order of ids. *)
LEMMA AddKeeps == ASSUME SocketType, AddClient PROVE SocketType'
BY SocketAssumption DEF SocketType, AddClient, Ids, NoEvent

(* A deleted client is out of the list. *)
LEMMA UnlinkKeeps ==
  ASSUME SocketType, NEW c \in list, Unlink(c) PROVE SocketType'
BY SocketAssumption DEF SocketType, Unlink, Ids, NoEvent

(* The event handlers return. *)
LEMMA EventKeeps ==
  ASSUME SocketType, NEW c, Connected(c) \/ Disconnected(c) PROVE SocketType'
BY SocketAssumption DEF SocketType, Connected, Disconnected, Ids, NoEvent

(* A close frame changes one status or ends the connection. *)
LEMMA PeerClosesKeeps ==
  ASSUME SocketType, NEW c \in Ids, PeerCloses(c) PROVE SocketType'
<1>1. CASE Unlink(c)
  BY <1>1, UnlinkKeeps DEF PeerCloses
<1>2. CASE /\ c \in list
           /\ status[c] = "CONNECTED"
           /\ status' = [status EXCEPT ![c] = "DISCONNECTING"]
           /\ UNCHANGED << nextId, list, queue, asked, event >>
  BY <1>2, SocketAssumption DEF SocketType, Ids, NoEvent
<1> QED BY <1>1, <1>2 DEF PeerCloses

(* The other ends of a connection. *)
LEMMA EndKeeps ==
  ASSUME SocketType, NEW c \in Ids, CloseAcked(c) \/ ConnectionLost(c)
  PROVE SocketType'
BY UnlinkKeeps DEF CloseAcked, ConnectionLost

(* Clients asked to leave are clients of the list. *)
LEMMA CloseKeeps == ASSUME SocketType, CloseFront PROVE SocketType'
BY SocketAssumption DEF SocketType, CloseFront, Ids, NoEvent

(* Nothing happens. *)
LEMMA StutterKeeps == ASSUME SocketType, UNCHANGED socket PROVE SocketType'
BY DEF SocketType, socket

----------------------------------------------------------------------------

Leaving == event[1] = "DISCONNECT"

(* The car moves for a driver in the list, or is about to be stopped. *)
MovesForDriver == motors # Stopped => driver \in list \/ Leaving

(* Without drivers the car is safe, or is about to be made so. *)
SafeAlone == list = {} => Leaving \/ (motors = Stopped /\ light = 0)

Inv == TypeOK /\ MovesForDriver /\ SafeAlone

(* Both values of a command are directions. *)
LEMMA DirectionsType ==
  ASSUME NEW command \in Commands
  PROVE  Directions(command) \in {FORWARD, BACKWARD, STOP}
                                   \X {FORWARD, BACKWARD, STOP}
BY DEF Directions, Commands, FORWARD, BACKWARD, STOP

(* The types are kept by every step. *)
LEMMA TypeStep == ASSUME TypeOK, [Next]_vars PROVE TypeOK'
<1> USE DEF TypeOK
<1>1. CASE AddClient /\ UNCHANGED << car, closing >>
  BY <1>1, AddKeeps DEF car
<1>2. ASSUME NEW c \in Ids, OnConnect(c), UNCHANGED closing PROVE TypeOK'
  BY <1>2, EventKeeps DEF OnConnect, car
<1>3. ASSUME NEW c \in Ids, OnDisconnect(c), UNCHANGED closing PROVE TypeOK'
  BY <1>3, EventKeeps, LevelAssumption, DirectionsType
     DEF OnDisconnect, Commands
<1>4. ASSUME NEW c \in Ids, NEW command \in Commands, MoveCar(c, command),
             UNCHANGED closing
      PROVE TypeOK'
  BY <1>4, StutterKeeps, DirectionsType DEF MoveCar
<1>5. ASSUME NEW c \in Ids, NEW value \in Levels,
             Speed(c, value) \/ Light(c, value), UNCHANGED closing
      PROVE TypeOK'
  BY <1>5, StutterKeeps DEF Speed, Light
<1>6. ASSUME NEW c \in Ids, UNCHANGED << car, closing >>,
             PeerCloses(c) \/ CloseAcked(c) \/ ConnectionLost(c)
      PROVE TypeOK'
  BY <1>6, PeerClosesKeeps, EndKeeps DEF car
<1>7. CASE Cleanup
  BY <1>7, StutterKeeps DEF Cleanup, car, TooMany
<1>8. CASE Reset
  BY <1>8, SocketReset, LevelAssumption DEF Reset, Stopped, STOP
<1>10. CASE CloseOldest
  BY <1>8, <1>10, CloseKeeps DEF CloseOldest, car
<1>9. CASE UNCHANGED vars
  BY <1>9, StutterKeeps DEF vars, car
<1> QED
  BY <1>1, <1>2, <1>3, <1>4, <1>5, <1>6, <1>7, <1>8, <1>9, <1>10 DEF Next, AsyncTask

(* The other two parts of the invariant are kept by every step. *)
LEMMA SafetyStep ==
  ASSUME Inv, [Next]_vars PROVE MovesForDriver' /\ SafeAlone'
<1> USE DEF Inv, MovesForDriver, SafeAlone, Leaving
<1>1. CASE AddClient /\ UNCHANGED car
  BY <1>1 DEF AddClient, car, NoEvent
<1>2. ASSUME NEW c \in Ids, OnConnect(c) PROVE MovesForDriver' /\ SafeAlone'
  BY <1>2 DEF OnConnect, Connected, car, NoEvent
<1>3. ASSUME NEW c \in Ids, OnDisconnect(c) PROVE MovesForDriver' /\ SafeAlone'
  BY <1>3 DEF OnDisconnect, Disconnected, Directions, Stopped
<1>4. ASSUME NEW c \in Ids, NEW command \in Commands, MoveCar(c, command)
      PROVE MovesForDriver' /\ SafeAlone'
  BY <1>4 DEF MoveCar, socket
<1>5. ASSUME NEW c \in Ids, NEW value \in Levels,
             Speed(c, value) \/ Light(c, value)
      PROVE MovesForDriver' /\ SafeAlone'
  BY <1>5 DEF Speed, Light, socket
<1>6. ASSUME NEW c \in Ids, UNCHANGED car,
             PeerCloses(c) \/ CloseAcked(c) \/ ConnectionLost(c)
      PROVE MovesForDriver' /\ SafeAlone'
  BY <1>6 DEF PeerCloses, CloseAcked, ConnectionLost, Unlink, car
<1>7. CASE Cleanup
  BY <1>7 DEF Cleanup, socket, car
<1>8. CASE Reset
  BY <1>8 DEF Reset, Stopped
<1>10. CASE CloseOldest
  BY <1>8, <1>10 DEF CloseOldest, CloseFront, car
<1>9. CASE UNCHANGED vars
  BY <1>9 DEF vars, car, socket
<1> QED
  BY <1>1, <1>2, <1>3, <1>4, <1>5, <1>6, <1>7, <1>8, <1>9, <1>10 DEF Next, AsyncTask

(* The invariant holds throughout. *)
LEMMA Invariant == Spec => []Inv
<1>1. Init => Inv
  <2>1. Init => closing \in BOOLEAN
    BY DEF Init
  <2>2. motors = Stopped => motors \in {FORWARD, BACKWARD, STOP}
                                         \X {FORWARD, BACKWARD, STOP}
    BY DEF Stopped
  <2> QED
    BY <2>1, <2>2, SocketInit, LevelAssumption
       DEF Init, Inv, TypeOK, MovesForDriver, SafeAlone
<1>2. Inv /\ [Next]_vars => Inv'
  BY TypeStep, SafetyStep DEF Inv
<1> QED BY <1>1, <1>2, PTL DEF Spec

(* Motors, speed and light hold values that the car has, and the messages   *)
(* and clients waiting are clients of the list's ids, for any number.       *)
THEOREM TypeCorrect == Spec => []TypeOK
<1>1. Inv => TypeOK BY DEF Inv
<1> QED BY <1>1, Invariant, PTL

(* The car never moves for a driver who is gone. *)
THEOREM DrivesForPresentDriverCorrect == Spec => []DrivesForPresentDriver
<1>1. Inv => DrivesForPresentDriver
  BY DEF Inv, MovesForDriver, Leaving, DrivesForPresentDriver, NoEvent
<1> QED BY <1>1, Invariant, PTL

(* Without drivers the car stands still and dark. *)
THEOREM DriverlessIsSafeCorrect == Spec => []DriverlessIsSafe
<1>1. Inv => DriverlessIsSafe
  BY DEF Inv, SafeAlone, Leaving, DriverlessIsSafe, NoEvent
<1> QED BY <1>1, Invariant, PTL
=============================================================================
