--------------------------- MODULE AsyncWebSocket ---------------------------
(***************************************************************************)
(* One web-socket location of libraries/ESPAsyncWebServer-master: the list *)
(* of its clients, as two tasks see it.  The async_tcp task adds clients,  *)
(* runs the protocol and deletes clients; the loop() task looks clients    *)
(* up, queues messages and asks clients to close.  Nothing locks the list. *)
(* A call on either task is a step here, and cleanupClients two; that the  *)
(* calls of the two tasks may overlap inside a step, in the nodes of the   *)
(* list or of a queue, is undefined behaviour that is left out.            *)
(*                                                                         *)
(* An id is given once, in increasing order, and clients are appended: the *)
(* front of the list is the client with the smallest id.                   *)
(*                                                                         *)
(* This module has the operations; CameraStream and CarInput compose them  *)
(* with the event handlers of the car, which run inside them.              *)
(*                                                                         *)
(* A definition whose comment starts with "Fault" is a mistaken variant of *)
(* the one that follows it and is used by none.                            *)
(***************************************************************************)
EXTENDS Integers, FiniteSets

CONSTANTS
  MaxId,       (* bound: connections accepted between two resets             *)
  MaxClients   (* DEFAULT_MAX_WS_CLIENTS                                     *)

ASSUME SocketAssumption == MaxId \in Nat /\ MaxClients \in Nat \ {0}

Ids == 1 .. MaxId

VARIABLES
  nextId,      (* _cNextId                                                   *)
  list,        (* the ids in _clients                                        *)
  status,      (* of each client; "none" before it exists, and "deleted" from
                  the moment it leaves the list                              *)
  queue,       (* the length of its _messageQueue, at most one message       *)
  asked,       (* the clients that have been sent a close frame, or several:
                  close() leaves the status CONNECTED, so that each further
                  call queues another, which changes nothing else            *)
  event        (* what the async_tcp task is about to tell the event handler:
                  <<"CONNECT", c>>, <<"DISCONNECT", c>>, or NoEvent           *)

socket == << nextId, list, status, queue, asked, event >>

NoEvent == << "none", 0 >>

InitSocket ==
  /\ nextId = 1
  /\ list = {}
  /\ status = [c \in Ids |-> "none"]
  /\ queue = [c \in Ids |-> 0]
  /\ asked = {}
  /\ event = NoEvent

(* A reset of the board. *)
ResetSocket ==
  /\ nextId' = 1
  /\ list' = {}
  /\ status' = [c \in Ids |-> "none"]
  /\ queue' = [c \in Ids |-> 0]
  /\ asked' = {}
  /\ event' = NoEvent

SocketType ==
  /\ nextId \in 1 .. (MaxId + 1)
  /\ list \subseteq Ids
  /\ status \in [Ids -> {"none", "CONNECTED", "DISCONNECTING", "deleted"}]
  /\ queue \in [Ids -> {0, 1}]
  /\ asked \subseteq Ids
  /\ event \in ({"CONNECT", "DISCONNECT"} \X Ids) \cup {NoEvent}
  /\ list = { c \in Ids : status[c] \in {"CONNECTED", "DISCONNECTING"} }
  /\ { c \in Ids : status[c] # "none" } = 1 .. (nextId - 1)

----------------------------------------------------------------------------
(* The async_tcp task. *)

(* The constructor of AsyncWebSocketClient up to the CONNECT event. *)
AddClient ==
  /\ event = NoEvent
  /\ nextId \in Ids
  /\ nextId' = nextId + 1
  /\ list' = list \cup {nextId}
  /\ status' = [status EXCEPT ![nextId] = "CONNECTED"]
  /\ event' = << "CONNECT", nextId >>
  /\ UNCHANGED << queue, asked >>

(* The CONNECT handler of the sketch returns. *)
Connected(c) ==
  /\ event = << "CONNECT", c >>
  /\ event' = NoEvent
  /\ UNCHANGED << nextId, list, status, queue, asked >>

(* Fault: the client is deleted and stays in the list.                      *)
Unlink_KeepsEntry(c) ==
  /\ status' = [status EXCEPT ![c] = "deleted"]
  /\ queue' = [queue EXCEPT ![c] = 0]
  /\ event' = << "DISCONNECT", c >>
  /\ UNCHANGED << nextId, list, asked >>

(* _onDisconnect: the client leaves the list, its destructor frees the      *)
(* queues, and the DISCONNECT event is next.  From here on a pointer to the *)
(* client, which the loop() task may hold, points to freed memory.          *)
Unlink(c) ==
  /\ list' = list \ {c}
  /\ status' = [status EXCEPT ![c] = "deleted"]
  /\ queue' = [queue EXCEPT ![c] = 0]
  /\ event' = << "DISCONNECT", c >>
  /\ UNCHANGED << nextId, asked >>

(* The DISCONNECT handler of the sketch returns. *)
Disconnected(c) ==
  /\ event = << "DISCONNECT", c >>
  /\ event' = NoEvent
  /\ UNCHANGED << nextId, list, status, queue, asked >>

(* A close frame of the peer, its own or the answer to ours.  A second one  *)
(* ends the connection.  (_onData goes on with what is left of the packet   *)
(* after it has deleted the client: undefined, and left out.)               *)
PeerCloses(c) ==
  /\ event = NoEvent
  /\ c \in list
  /\ \/ /\ status[c] = "CONNECTED"
        /\ status' = [status EXCEPT ![c] = "DISCONNECTING"]
        /\ UNCHANGED << nextId, list, queue, asked, event >>
     \/ /\ status[c] = "DISCONNECTING"
        /\ Unlink(c)

(* Our close frame, the answer to the peer's, is acknowledged.  While the   *)
(* client is CONNECTED the acknowledgement of one that close() queued only  *)
(* takes it off the control queue.                                          *)
CloseAcked(c) ==
  /\ event = NoEvent
  /\ c \in list
  /\ status[c] = "DISCONNECTING"
  /\ Unlink(c)

(* The connection breaks or times out. *)
ConnectionLost(c) ==
  /\ event = NoEvent
  /\ c \in list
  /\ Unlink(c)

(* _onAck of the last byte: _runQueue removes the message. *)
MessageAcked(c) ==
  /\ event = NoEvent
  /\ c \in list
  /\ queue[c] > 0
  /\ queue' = [queue EXCEPT ![c] = 0]
  /\ UNCHANGED << nextId, list, status, asked, event >>

----------------------------------------------------------------------------
(* The operations the loop() task calls. *)

(* client(id): is there a pointer to return? *)
Found(id) == id \in list /\ status[id] = "CONNECTED"

QueueIsFull(c) == queue[c] >= 1 \/ status[c] # "CONNECTED"

(* _queueMessage: dropped unless the client is connected and has room. *)
QueueMessage(c) ==
  /\ queue' = IF QueueIsFull(c) THEN queue ELSE [queue EXCEPT ![c] = 1]
  /\ UNCHANGED << nextId, list, status, asked, event >>

Count == Cardinality({ c \in list : status[c] = "CONNECTED" })

IsFront(c) == c \in list /\ \A d \in list : c <= d

(* Fault: one client more than the maximum is let be. *)
TooMany_OffByOne == Count > MaxClients + 1

(* The two halves of cleanupClients: the test, and front()->close().        *)
TooMany == Count > MaxClients

(* close() does nothing for a client that is closing already.  The list     *)
(* must not be empty: front() does not look.                                *)
CloseFront ==
  /\ asked' = asked \cup { c \in list : IsFront(c) /\ status[c] = "CONNECTED" }
  /\ UNCHANGED << nextId, list, status, queue, event >>

----------------------------------------------------------------------------
(* What one connection comes to.  TCP has what was sent acknowledged, or    *)
(* the connection times out.  That a close frame of ours is answered by one *)
(* of the peer, or by the end of the connection, is what the protocol of    *)
(* web sockets asks of a peer, and browsers do: nothing in the library      *)
(* drops a client that ignores it.                                          *)
PeerAnswers(c) ==
  \/ MessageAcked(c)
  \/ CloseAcked(c)
  \/ c \in asked /\ PeerCloses(c)
  \/ (queue[c] > 0 \/ c \in asked \/ status[c] = "DISCONNECTING")
       /\ ConnectionLost(c)
=============================================================================
