---------------------------- MODULE CameraStream ----------------------------
(***************************************************************************)
(* The camera of the remote-controlled car (ESP8266_ESP32 Projects/Car_Cam)*)
(* Handlers on the async_tcp task keep cameraClientId, the client to send  *)
(* pictures to; sendCameraPicture(), on the loop() task, reads it again    *)
(* and again while it sends one picture and waits for its delivery.        *)
(*                                                                         *)
(* A definition whose comment starts with "Fault" is a mistaken variant of *)
(* the one that follows it and is used by none.                            *)
(***************************************************************************)
EXTENDS AsyncWebSocket

VARIABLES
  cameraClientId,
  pc,          (* where loop() is                                            *)
  arg,         (* the value of cameraClientId it read last                   *)
  pointer,     (* the client it looked up last; 0 is the null pointer        *)
  sentTo       (* history: the client the last picture was queued for, or 0  *)

camera == << cameraClientId, pc, arg, pointer, sentTo >>
vars   == << socket, camera >>

Init ==
  /\ InitSocket
  /\ cameraClientId = 0
  /\ pc = "cleanup"
  /\ arg = 0 /\ pointer = 0 /\ sentTo = 0

(* A reset; a use of a deleted client, see below, may also end this way. *)
Reset ==
  /\ ResetSocket
  /\ cameraClientId' = 0
  /\ pc' = "cleanup"
  /\ arg' = 0 /\ pointer' = 0 /\ sentTo' = 0

----------------------------------------------------------------------------
(* onCameraWebSocketEvent *)

(* Fault: the number of the next client instead of this one.                *)
OnConnect_NextId(c) ==
  /\ Connected(c)
  /\ cameraClientId' = nextId
  /\ UNCHANGED << pc, arg, pointer, sentTo >>

OnConnect(c) ==
  /\ Connected(c)
  /\ cameraClientId' = c
  /\ UNCHANGED << pc, arg, pointer, sentTo >>

(* Fault: a disconnect is ignored. *)
OnDisconnect_KeepsId(c) ==
  /\ Disconnected(c)
  /\ UNCHANGED camera

(* Whichever client it was: a picture has no receiver until the next one    *)
(* connects.                                                                *)
OnDisconnect(c) ==
  /\ Disconnected(c)
  /\ cameraClientId' = 0
  /\ UNCHANGED << pc, arg, pointer, sentTo >>

AsyncTask ==
  \/ AddClient /\ UNCHANGED camera
  \/ \E c \in Ids :
       \/ OnConnect(c) \/ OnDisconnect(c)
       \/ PeerCloses(c) /\ UNCHANGED camera
       \/ CloseAcked(c) /\ UNCHANGED camera
       \/ ConnectionLost(c) /\ UNCHANGED camera
       \/ MessageAcked(c) /\ UNCHANGED camera

----------------------------------------------------------------------------
(* loop(): cleanupClients, then sendCameraPicture. *)

Cleanup ==
  /\ pc = "cleanup"
  /\ pc' = IF TooMany THEN "close" ELSE "check"
  /\ UNCHANGED << socket, cameraClientId, arg, pointer, sentTo >>

(* Clients may have left since the test: the oldest is not one too many any *)
(* more and is asked to leave all the same, or front() is a null pointer.   *)
CloseOldest ==
  /\ pc = "close"
  /\ \/ /\ list # {}
        /\ CloseFront
        /\ pc' = "check"
        /\ UNCHANGED << cameraClientId, arg, pointer, sentTo >>
     \/ /\ list = {}
        /\ Reset

(* "if (cameraClientId == 0) return", else a frame is captured, or is not. *)
Capture ==
  /\ pc = "check"
  /\ \/ pc' = "cleanup"
     \/ cameraClientId # 0 /\ pc' = "captured"
  /\ sentTo' = 0
  /\ UNCHANGED << socket, cameraClientId, arg, pointer >>

(* Reading the argument of wsCamera.binary, and of wsCamera.client. *)
ReadId ==
  /\ pc \in {"captured", "wait"}
  /\ arg' = cameraClientId
  /\ pc' = IF pc = "captured" THEN "sendLookup" ELSE "waitLookup"
  /\ UNCHANGED << socket, cameraClientId, pointer, sentTo >>

Lookup ==
  /\ pc \in {"sendLookup", "waitLookup"}
  /\ pointer' = IF Found(arg) THEN arg ELSE 0
  /\ pc' = IF pc = "sendLookup" THEN "queue" ELSE "waitTest"
  /\ UNCHANGED << socket, cameraClientId, arg, sentTo >>

Dangling == pointer # 0 /\ status[pointer] = "deleted"

(* binary(): the picture is copied into the client's queue.  A client that  *)
(* was deleted since the lookup is written to all the same.                 *)
QueuePicture ==
  /\ pc = "queue"
  /\ \/ /\ pointer # 0 /\ ~Dangling
        /\ QueueMessage(pointer)
        /\ sentTo' = IF QueueIsFull(pointer) THEN 0 ELSE pointer
     \/ /\ pointer = 0 \/ Dangling
        /\ UNCHANGED << socket, sentTo >>
  /\ pc' = "wait"
  /\ UNCHANGED << cameraClientId, arg, pointer >>

(* Fault: the test for delivery is missing, one picture follows another.    *)
TestDelivery_DoesNotWait ==
  /\ pc = "waitTest"
  /\ pc' = "cleanup"
  /\ UNCHANGED << socket, cameraClientId, arg, pointer, sentTo >>

(* Fault: the client is looked up once, before the waiting loop, and the    *)
(* memory of a deleted one keeps saying what it said.                       *)
TestDelivery_KeepsPointer ==
  /\ pc = "waitTest"
  /\ \/ /\ pointer # 0 => ~QueueIsFull(pointer)
        /\ pc' = "cleanup"
     \/ /\ pointer # 0
        /\ QueueIsFull(pointer)
        /\ pc' = "waitTest"
  /\ UNCHANGED << socket, cameraClientId, arg, pointer, sentTo >>

(* "if (!clientPointer || !clientPointer->queueIsFull()) break", else       *)
(* delay(1) and again.  Asking a deleted client gives any answer.           *)
TestDelivery ==
  /\ pc = "waitTest"
  /\ \/ /\ pointer # 0 => Dangling \/ ~QueueIsFull(pointer)
        /\ pc' = "cleanup"
     \/ /\ pointer # 0
        /\ QueueIsFull(pointer)
        /\ pc' = "wait"
  /\ UNCHANGED << socket, cameraClientId, arg, pointer, sentTo >>

Loop == Cleanup \/ CloseOldest \/ Capture \/ ReadId \/ Lookup \/ QueuePicture
          \/ TestDelivery

Next == AsyncTask \/ Loop \/ Reset

Spec == Init /\ [][Next]_vars

(* Both tasks are scheduled, a connection answers or times out, and a       *)
(* camera that is asked again and again delivers a frame.                   *)
Fairness ==
  /\ WF_vars(Loop)
  /\ SF_vars(Capture /\ pc' = "captured")
  /\ \A c \in Ids : /\ WF_vars(OnConnect(c)) /\ WF_vars(OnDisconnect(c))
                    /\ WF_vars(PeerAnswers(c) /\ UNCHANGED camera)

FairSpec == Spec /\ Fairness

----------------------------------------------------------------------------
(* Types, and the state of the socket: the list holds the clients that have *)
(* connected and are not deleted.                                           *)
TypeOK ==
  /\ SocketType
  /\ cameraClientId \in Ids \cup {0}
  /\ pc \in {"cleanup", "close", "check", "captured", "sendLookup", "queue",
             "wait", "waitLookup", "waitTest"}
  /\ arg \in Ids \cup {0} /\ pointer \in Ids \cup {0} /\ sentTo \in Ids \cup {0}

(* Between handlers cameraClientId names a client of the list: a client     *)
(* that leaves is forgotten by the DISCONNECT event of its own that is on   *)
(* its way, whoever has connected and disconnected in between.  What loop() *)
(* does with the id meanwhile, up to a picture written through a pointer to *)
(* a client deleted since the lookup, is not the subject here.              *)
NoGhostViewer ==
  cameraClientId # 0 =>
    cameraClientId \in list \/ event = << "DISCONNECT", cameraClientId >>

(* No picture is discarded because the one before is still in the queue,    *)
(* although the loop re-reads the receiver between sending and waiting.     *)
NoPictureDropped ==
  pc = "queue" /\ pointer # 0 => queue[pointer] = 0

(* "Wait for message to be delivered": sendCameraPicture returns when the   *)
(* picture has been acknowledged or its receiver is gone.                   *)
WaitDelivers ==
  [][ TestDelivery /\ pc' = "cleanup" /\ sentTo # 0 =>
        queue[sentTo] = 0 \/ status[sentTo] # "CONNECTED" ]_vars

(* loop() always comes round: no viewer, however it behaves, holds the car. *)
LoopReturns == []<>(pc = "cleanup")

(* When viewers stop coming and going, the viewer in cameraClientId gets    *)
(* one picture after another.                                               *)
ViewerServed ==
  <>[][event' = event]_vars /\ <>[][~Reset]_vars =>
    \/ []<>(pc = "queue" /\ pointer # 0 /\ pointer = cameraClientId)
    \/ <>[](cameraClientId = 0)

(* When no more viewers connect, their number falls to the maximum and      *)
(* stays there: loop() keeps asking the oldest one to leave.                *)
ViewersLimited ==
  <>[][nextId' = nextId]_vars => <>[](Count <= MaxClients)
=============================================================================
