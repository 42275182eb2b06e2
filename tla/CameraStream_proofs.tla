------------------------- MODULE CameraStream_proofs ------------------------
(***************************************************************************)
(* Proofs about CameraStream for any number of connections and any limit   *)
(* on the clients.                                                         *)
(*                                                                         *)
(* Why no picture is dropped: a client can only have a picture in its      *)
(* queue while it is the one loop() waits for, or after loop() has turned  *)
(* away from it for good, because cameraClientId is set to a client once,  *)
(* when it connects, with nothing in its queue.                            *)
(***************************************************************************)
EXTENDS CameraStream, TLAPS

----------------------------------------------------------------------------
(* SocketType is kept by every operation of AsyncWebSocket, for any number  *)
(* of connections.                                                          *)

(* An empty socket is well-formed. *)
LEMMA SocketInit == InitSocket => SocketType
BY SocketAssumption DEF InitSocket, SocketType, Ids, NoEvent

(* A reset leaves a well-formed socket. *)
LEMMA SocketReset == ResetSocket => SocketType'
BY SocketAssumption DEF ResetSocket, SocketType, Ids, NoEvent

(* A new client is connected, in the list and next in the order of ids. *)
LEMMA AddKeeps == ASSUME SocketType, AddClient PROVE SocketType'
BY SocketAssumption DEF SocketType, AddClient, Ids, NoEvent

(* A deleted client is out of the list. *)
LEMMA UnlinkKeeps ==
  ASSUME SocketType, NEW c \in list, Unlink(c) PROVE SocketType'
BY SocketAssumption DEF SocketType, Unlink, Ids, NoEvent

(* The event handlers return. *)
LEMMA EventKeeps ==
  ASSUME SocketType, NEW c, Connected(c) \/ Disconnected(c) PROVE SocketType'
BY SocketAssumption DEF SocketType, Connected, Disconnected, Ids, NoEvent

(* A close frame changes one status or ends the connection. *)
LEMMA PeerClosesKeeps ==
  ASSUME SocketType, NEW c \in Ids, PeerCloses(c) PROVE SocketType'
<1>1. CASE Unlink(c)
  BY <1>1, UnlinkKeeps DEF PeerCloses
<1>2. CASE /\ c \in list
           /\ status[c] = "CONNECTED"
           /\ status' = [status EXCEPT ![c] = "DISCONNECTING"]
           /\ UNCHANGED << nextId, list, queue, asked, event >>
  BY <1>2, SocketAssumption DEF SocketType, Ids, NoEvent
<1> QED BY <1>1, <1>2 DEF PeerCloses

(* The other ends of a connection. *)
LEMMA EndKeeps ==
  ASSUME SocketType, NEW c \in Ids, CloseAcked(c) \/ ConnectionLost(c)
  PROVE SocketType'
BY UnlinkKeeps DEF CloseAcked, ConnectionLost

(* Queues hold a message or none. *)
LEMMA QueueKeeps ==
  ASSUME SocketType, NEW c \in Ids, MessageAcked(c) \/ QueueMessage(c)
  PROVE SocketType'
BY SocketAssumption DEF SocketType, MessageAcked, QueueMessage, QueueIsFull,
  Ids, NoEvent

(* Clients asked to leave are clients of the list. *)
LEMMA CloseKeeps == ASSUME SocketType, CloseFront PROVE SocketType'
BY SocketAssumption DEF SocketType, CloseFront, Ids, NoEvent

(* Nothing happens. *)
LEMMA StutterKeeps == ASSUME SocketType, UNCHANGED socket PROVE SocketType'
BY DEF SocketType, socket

----------------------------------------------------------------------------

Waiting == {"wait", "waitLookup", "waitTest"}

(* A connected client whose queue has no room. *)
Busy(c) == c # 0 /\ queue[c] # 0 /\ status[c] = "CONNECTED"

(* The loop's variables, and the queues, know only clients that exist.      *)
Known ==
  /\ cameraClientId < nextId /\ arg < nextId /\ pointer < nextId
  /\ \A c \in Ids : queue[c] # 0 => c < nextId

(* A client about to be announced is new to the loop.                       *)
Announced ==
  \A c \in Ids : event = << "CONNECT", c >> =>
    c \in list /\ queue[c] = 0 /\ cameraClientId # c /\ arg # c /\ pointer # c

(* Where the loop is, and which client may be busy then.                    *)
Progress ==
  /\ pc \notin Waiting => ~Busy(cameraClientId)
  /\ pc = "sendLookup" => ~Busy(arg)
  /\ NoPictureDropped
  /\ pc = "waitLookup" /\ Busy(cameraClientId) => arg = cameraClientId
  /\ pc = "waitTest" /\ Busy(cameraClientId) => pointer = cameraClientId

Inv == TypeOK /\ Known /\ Announced /\ NoGhostViewer /\ Progress

(* One case per step, for a goal that holds in the next state. *)
LEMMA StepCases ==
  ASSUME [Next]_vars, NEW ACTION Goal,
         AddClient /\ UNCHANGED camera => Goal,
         \A c \in Ids : OnConnect(c) => Goal,
         \A c \in Ids : OnDisconnect(c) => Goal,
         \A c \in Ids : PeerCloses(c) /\ UNCHANGED camera => Goal,
         \A c \in Ids : CloseAcked(c) /\ UNCHANGED camera => Goal,
         \A c \in Ids : ConnectionLost(c) /\ UNCHANGED camera => Goal,
         \A c \in Ids : MessageAcked(c) /\ UNCHANGED camera => Goal,
         Cleanup => Goal, CloseOldest => Goal, Capture => Goal, ReadId => Goal, Lookup => Goal,
         QueuePicture => Goal, TestDelivery => Goal,
         Reset => Goal, UNCHANGED vars => Goal
  PROVE  Goal
BY DEF Next, AsyncTask, Loop

(* The types are kept by every step. *)
LEMMA TypeStep == ASSUME TypeOK, [Next]_vars PROVE TypeOK'
<1> USE DEF TypeOK
<1>1. AddClient /\ UNCHANGED camera => TypeOK'
  BY AddKeeps DEF camera
<1>2. ASSUME NEW c \in Ids PROVE OnConnect(c) => TypeOK'
  BY EventKeeps DEF OnConnect
<1>3. ASSUME NEW c \in Ids PROVE OnDisconnect(c) => TypeOK'
  BY EventKeeps DEF OnDisconnect
<1>4. ASSUME NEW c \in Ids PROVE PeerCloses(c) /\ UNCHANGED camera => TypeOK'
  BY PeerClosesKeeps DEF camera
<1>5. ASSUME NEW c \in Ids PROVE CloseAcked(c) /\ UNCHANGED camera => TypeOK'
  BY EndKeeps DEF camera
<1>6. ASSUME NEW c \in Ids
      PROVE ConnectionLost(c) /\ UNCHANGED camera => TypeOK'
  BY EndKeeps DEF camera
<1>7. ASSUME NEW c \in Ids PROVE MessageAcked(c) /\ UNCHANGED camera => TypeOK'
  BY QueueKeeps DEF camera
<1>8. Cleanup => TypeOK'
  BY StutterKeeps DEF Cleanup
<1>9. Capture => TypeOK'
  BY StutterKeeps DEF Capture
<1>10. ReadId => TypeOK'
  BY StutterKeeps DEF ReadId
<1>11. Lookup => TypeOK'
  BY StutterKeeps DEF Lookup
<1>12. QueuePicture => TypeOK'
  BY QueueKeeps, StutterKeeps DEF QueuePicture
<1>13. TestDelivery => TypeOK'
  BY StutterKeeps DEF TestDelivery
<1>14. Reset => TypeOK'
  BY SocketReset DEF Reset
<1>16. CloseOldest => TypeOK'
  BY <1>14, CloseKeeps DEF CloseOldest
<1>15. UNCHANGED vars => TypeOK'
  BY StutterKeeps DEF vars, camera
<1> QED
  BY <1>1, <1>2, <1>3, <1>4, <1>5, <1>6, <1>7, <1>8, <1>9, <1>10, <1>11, <1>12,
     <1>13, <1>14, <1>15, <1>16, StepCases

(* No step lets the loop or a queue know a client that does not exist. *)
LEMMA KnownStep ==
  ASSUME TypeOK, Known, Announced, [Next]_vars PROVE Known' /\ Announced'
<1> DEFINE Goal == Known' /\ Announced'
<1> USE DEF Known, Announced
<1>1. AddClient /\ UNCHANGED camera => Goal
  BY DEF AddClient, camera, TypeOK, SocketType, Ids, NoEvent
<1>2. ASSUME NEW c \in Ids PROVE OnConnect(c) => Goal
  BY DEF OnConnect, Connected, TypeOK, SocketType, Ids, NoEvent
<1>3. ASSUME NEW c \in Ids PROVE OnDisconnect(c) => Goal
  BY SocketAssumption DEF OnDisconnect, Disconnected, TypeOK, SocketType, Ids, NoEvent
<1>4. ASSUME NEW c \in Ids, Unlink(c), event = NoEvent, UNCHANGED camera
      PROVE Goal
  BY <1>4 DEF Unlink, camera, TypeOK, SocketType, NoEvent
<1>5. ASSUME NEW c \in Ids PROVE PeerCloses(c) /\ UNCHANGED camera => Goal
  BY <1>4 DEF PeerCloses, camera, NoEvent
<1>6. ASSUME NEW c \in Ids PROVE CloseAcked(c) /\ UNCHANGED camera => Goal
  BY <1>4 DEF CloseAcked
<1>7. ASSUME NEW c \in Ids PROVE ConnectionLost(c) /\ UNCHANGED camera => Goal
  BY <1>4 DEF ConnectionLost
<1>8. ASSUME NEW c \in Ids PROVE MessageAcked(c) /\ UNCHANGED camera => Goal
  BY DEF MessageAcked, camera, TypeOK, SocketType, NoEvent
<1>9. Cleanup => Goal
  BY DEF Cleanup, socket
<1>10. Capture => Goal
  BY DEF Capture, socket
<1>11. ReadId => Goal
  BY DEF ReadId, socket
<1>12. Lookup => Goal
  BY SocketAssumption DEF Lookup, socket, TypeOK, SocketType, Ids, Found
<1>13. QueuePicture => Goal
  BY DEF QueuePicture, QueueMessage, QueueIsFull, socket, TypeOK, SocketType
<1>14. TestDelivery => Goal
  BY DEF TestDelivery, socket
<1>15. Reset => Goal
  BY DEF Reset, ResetSocket, NoEvent
<1>17. CloseOldest => Goal
  BY <1>15 DEF CloseOldest, CloseFront
<1>16. UNCHANGED vars => Goal
  BY DEF vars, camera, socket
<1> QED
  BY <1>1, <1>2, <1>3, <1>5, <1>6, <1>7, <1>8, <1>9, <1>10, <1>11, <1>12,
     <1>13, <1>14, <1>15, <1>16, <1>17, StepCases

(* No step leaves cameraClientId at a client that has gone, but for the     *)
(* event that will clear it.                                                *)
LEMMA GhostStep == ASSUME Inv, [Next]_vars PROVE NoGhostViewer'
<1> USE DEF Inv, NoGhostViewer
<1>1. AddClient /\ UNCHANGED camera => NoGhostViewer'
  BY DEF AddClient, camera, NoEvent
<1>2. ASSUME NEW c \in Ids PROVE OnConnect(c) => NoGhostViewer'
  BY DEF OnConnect, Connected, Announced
<1>3. ASSUME NEW c \in Ids PROVE OnDisconnect(c) => NoGhostViewer'
  BY DEF OnDisconnect
<1>4. ASSUME NEW c \in Ids, Unlink(c), event = NoEvent, UNCHANGED camera
      PROVE  NoGhostViewer'
  BY <1>4 DEF Unlink, camera, NoEvent
<1>5. ASSUME NEW c \in Ids PROVE PeerCloses(c) /\ UNCHANGED camera => NoGhostViewer'
  BY <1>4 DEF PeerCloses, camera
<1>6. ASSUME NEW c \in Ids PROVE CloseAcked(c) /\ UNCHANGED camera => NoGhostViewer'
  BY <1>4 DEF CloseAcked
<1>7. ASSUME NEW c \in Ids
      PROVE ConnectionLost(c) /\ UNCHANGED camera => NoGhostViewer'
  BY <1>4 DEF ConnectionLost
<1>8. ASSUME NEW c \in Ids PROVE MessageAcked(c) /\ UNCHANGED camera => NoGhostViewer'
  BY DEF MessageAcked, camera
<1>9. CloseOldest => NoGhostViewer'
  BY DEF CloseOldest, CloseFront, Reset
<1>10. Cleanup \/ Capture \/ ReadId \/ Lookup \/ TestDelivery => NoGhostViewer'
  BY DEF Cleanup, Capture, ReadId, Lookup, TestDelivery, socket
<1>11. QueuePicture => NoGhostViewer'
  BY DEF QueuePicture, QueueMessage, socket
<1>12. Reset => NoGhostViewer'
  BY DEF Reset
<1>13. UNCHANGED vars => NoGhostViewer'
  BY DEF vars, camera, socket
<1> QED
  BY <1>1, <1>2, <1>3, <1>5, <1>6, <1>7, <1>8, <1>9, <1>10, <1>11, <1>12,
     <1>13, StepCases

(* The loop turns away from a busy client only when that client is no       *)
(* longer the one in cameraClientId.                                        *)
LEMMA ProgressStep == ASSUME Inv, [Next]_vars PROVE Progress'
<1> USE DEF Inv, Progress, NoPictureDropped, Busy
<1>1. AddClient /\ UNCHANGED camera => Progress'
  BY DEF AddClient, camera, TypeOK, SocketType, Known, Ids
<1>2. ASSUME NEW c \in Ids PROVE OnConnect(c) => Progress'
  BY DEF OnConnect, Connected, Announced
<1>3. ASSUME NEW c \in Ids PROVE OnDisconnect(c) => Progress'
  BY DEF OnDisconnect, Disconnected
<1>4. ASSUME NEW c \in Ids, Unlink(c), UNCHANGED camera PROVE Progress'
  BY <1>4 DEF Unlink, camera, TypeOK, SocketType
<1>5. ASSUME NEW c \in Ids PROVE PeerCloses(c) /\ UNCHANGED camera => Progress'
  BY <1>4 DEF PeerCloses, camera, TypeOK, SocketType
<1>6. ASSUME NEW c \in Ids PROVE CloseAcked(c) /\ UNCHANGED camera => Progress'
  BY <1>4 DEF CloseAcked
<1>7. ASSUME NEW c \in Ids PROVE ConnectionLost(c) /\ UNCHANGED camera => Progress'
  BY <1>4 DEF ConnectionLost
<1>8. ASSUME NEW c \in Ids PROVE MessageAcked(c) /\ UNCHANGED camera => Progress'
  BY DEF MessageAcked, camera, TypeOK, SocketType
<1>9. Cleanup => Progress'
  BY DEF Cleanup, socket, Waiting
<1>10. Capture => Progress'
  BY DEF Capture, socket, Waiting
<1>11. ReadId => Progress'
  BY DEF ReadId, socket, Waiting
<1>12. Lookup => Progress'
  BY DEF Lookup, socket, Waiting, Found, TypeOK, SocketType
<1>13. QueuePicture => Progress'
  BY DEF QueuePicture, Waiting
<1>14. TestDelivery => Progress'
  BY DEF TestDelivery, socket, Waiting, QueueIsFull, Dangling, TypeOK, SocketType
<1>15. Reset => Progress'
  BY DEF Reset
<1>17. CloseOldest => Progress'
  BY <1>15 DEF CloseOldest, CloseFront, Waiting
<1>16. UNCHANGED vars => Progress'
  BY DEF vars, camera, socket, Waiting
<1> QED
  BY <1>1, <1>2, <1>3, <1>5, <1>6, <1>7, <1>8, <1>9, <1>10, <1>11, <1>12,
     <1>13, <1>14, <1>15, <1>16, <1>17, StepCases

(* The invariant holds throughout. *)
LEMMA Invariant == Spec => []Inv
<1>1. Init => Inv
  BY SocketInit DEF Init, InitSocket, Inv, TypeOK, Known, Announced,
     NoGhostViewer, Progress, NoPictureDropped, Busy, NoEvent
<1>2. Inv /\ [Next]_vars => Inv'
  BY TypeStep, KnownStep, GhostStep, ProgressStep DEF Inv
<1> QED BY <1>1, <1>2, PTL DEF Spec

(* The list holds clients with ids of their own, and the two tasks are      *)
(* where the code can be.                                                   *)
THEOREM TypeCorrect == Spec => []TypeOK
<1>1. Inv => TypeOK BY DEF Inv
<1> QED BY <1>1, Invariant, PTL

(* Between handlers cameraClientId names a client of the list. *)
THEOREM NoGhostViewerCorrect == Spec => []NoGhostViewer
<1>1. Inv => NoGhostViewer BY DEF Inv
<1> QED BY <1>1, Invariant, PTL

(* No picture is discarded for want of room in its receiver's queue. *)
THEOREM NoPictureDroppedCorrect == Spec => []NoPictureDropped
<1>1. Inv => NoPictureDropped BY DEF Inv, Progress
<1> QED BY <1>1, Invariant, PTL
=============================================================================
