-------------------------- MODULE FingerprintLink ---------------------------
(***************************************************************************)
(* The driver of the fingerprint sensor of the attendance terminal         *)
(* (libraries/Adafruit_Fingerprint_Sensor_Library): a command is written   *)
(* to a serial line, and the first packet that can be read from it within  *)
(* a second is taken for the answer.  Nothing empties the line before a    *)
(* command, a packet does not say which command it answers, and its        *)
(* checksum is read and not compared.                                      *)
(*                                                                         *)
(* A definition whose comment starts with "Fault" is a mistaken variant of *)
(* the one that follows it and is used by none.                            *)
(***************************************************************************)
EXTENDS Integers, Sequences
LOCAL INSTANCE SequencesExt

CONSTANTS
  DataSize,      (* sizeof(packet->data): 64                                 *)
  Codes,         (* what the sensor answers: 0 (OK), or the number of an error*)
  Matches,       (* the fields of an answer: to a search, the location, two
                    bytes, and the confidence, two bytes                     *)
  MaxCommands,   (* bound: commands                                          *)
  MaxLost,       (* bound: commands that do not reach the sensor             *)
  MaxDropped,    (* bound: bytes lost on the line                            *)
  MaxResets      (* bound: resets of the board                               *)

Byte == 0 .. 255

START_HIGH == 239   (* FINGERPRINT_STARTCODE, 0xEF01                         *)
START_LOW  == 1
COMMANDPACKET == 1
ACKPACKET  == 7

ASSUME LinkAssumption ==
  /\ DataSize \in Nat /\ DataSize > 9
  /\ Codes \subseteq Byte \ {START_HIGH}
  /\ \A match \in Matches : match \in Seq(Byte) /\ Len(match) <= 4
  /\ MaxCommands \in Nat /\ MaxLost \in Nat
  /\ MaxDropped \in Nat /\ MaxResets \in Nat

(* getImage stands for the commands that are answered by a code alone,      *)
(* fingerFastSearch for those whose answer has fields.                      *)
Commands == {"getImage", "fingerFastSearch"}

Checksum(type, length, data) == FoldLeft(+, type + length, data)

(* writeStructuredPacket: start code, address, type, length, data, checksum.*)
Packet(type, data) ==
  LET length == Len(data) + 2
      sum    == Checksum(type, length, data)
  IN  << START_HIGH, START_LOW, 255, 255, 255, 255,
         type, length \div 256, length % 256 >>
      \o data \o << sum \div 256, sum % 256 >>

(* What the sensor answers. *)
Answer(command, code, match) ==
  Packet(ACKPACKET, IF command = "getImage" THEN << code >>
                                            ELSE << code >> \o match)

VARIABLES
  asked,     (* the number of commands written, and so the number of the last*)
  pc,        (* "idle", or "reading" inside getStructuredPacket              *)
  inbox,     (* the commands the sensor has yet to answer                    *)
  line,      (* the answers that are on their way or have arrived: whose
                they are, their bytes, and the place of the next one to read *)
  idx,       (* as in getStructuredPacket                                    *)
  packet,    (* what it has read; as history, which answer that is if it
                began at the beginning of one                                *)
  reply,     (* the packet the last command returned the data of             *)
  failures,  (* history: commands that returned an error                     *)
  lost, dropped, resets

vars == << asked, pc, inbox, line, idx, packet, reply, failures,
           lost, dropped, resets >>

NoPacket == [type |-> COMMANDPACKET, length |-> 0, data |-> << >>, of |-> << >>]

Init ==
  /\ asked = 0
  /\ pc = "idle"
  /\ inbox = << >> /\ line = << >>
  /\ idx = 0 /\ packet = NoPacket /\ reply = NoPacket
  /\ failures = 0 /\ lost = 0 /\ dropped = 0 /\ resets = 0

----------------------------------------------------------------------------
(* GET_CMD_PACKET *)

Ask(command) ==
  /\ pc = "idle"
  /\ asked < MaxCommands
  /\ asked' = asked + 1
  /\ inbox' = Append(inbox, [of |-> asked + 1, command |-> command])
  /\ pc' = "reading"
  /\ reply' = NoPacket
  /\ UNCHANGED << line, idx, packet, failures, lost, dropped, resets >>

(* The variables of getStructuredPacket end with it.                        *)
Leaves == pc' = "idle" /\ idx' = 0 /\ packet' = NoPacket

(* return FINGERPRINT_PACKETRECIEVEERR *)
ReturnsError ==
  /\ Leaves
  /\ reply' = NoPacket
  /\ failures' = failures + 1

(* The type is looked at last.  What a search leaves in fingerID and        *)
(* confidence is in the data, as is the code that is returned.              *)
Returns(p) ==
  \/ /\ p.type = ACKPACKET
     /\ Leaves
     /\ reply' = p
     /\ UNCHANGED failures
  \/ /\ p.type # ACKPACKET
     /\ ReturnsError

----------------------------------------------------------------------------
(* getStructuredPacket *)

(* A line without its first byte.                                           *)
Rest(l) ==
  IF Head(l).at = Len(Head(l).bytes) THEN Tail(l)
                                     ELSE [l EXCEPT ![1].at = @ + 1]

NextByte == [byte |-> Head(line).bytes[Head(line).at],
             of   |-> Head(line).of,
             at   |-> Head(line).at]

(* packet with byte b in its place.                                         *)
Stored(b) ==
  CASE idx = 0 -> [packet EXCEPT !.of = IF b.at = 1 THEN << b.of >> ELSE << >>]
    [] idx = 6 -> [packet EXCEPT !.type = b.byte]
    [] idx = 7 -> [packet EXCEPT !.length = 256 * b.byte]
    [] idx = 8 -> [packet EXCEPT !.length = @ + b.byte]
    [] idx > 8 -> [packet EXCEPT !.data = Append(@, b)]
    [] OTHER   -> packet

(* Fault: the data end one byte further on.                                 *)
Complete_OffByOne == idx >= 9 /\ idx - 9 = packet.length

Complete == idx >= 9 /\ idx - 8 = packet.length

(* Fault: the head is taken off, which is right, and the end of the data is *)
(* one byte further on.                                                     *)
TooLong_OffByOne == (idx + 1) - 9 > DataSize

(* The head is added where it could be taken off: less is read than fits.   *)
TooLong == (idx + 1) + 9 >= DataSize

(* Before a start code a byte is skipped; after half a one the packet is    *)
(* bad.                                                                     *)
Skipped(b) == idx = 0 /\ b.byte # START_HIGH
Bad(b)     == idx = 1 /\ b.byte # START_LOW

ReadByte ==
  /\ pc = "reading"
  /\ line # << >>
  /\ line' = Rest(line)
  /\ \/ /\ Skipped(NextByte)
        /\ UNCHANGED << pc, idx, packet, reply, failures >>
     \/ /\ Bad(NextByte)
        /\ ReturnsError
     \/ /\ ~Skipped(NextByte) /\ ~Bad(NextByte)
        /\ Complete
        /\ Returns(Stored(NextByte))
     \/ /\ ~Skipped(NextByte) /\ ~Bad(NextByte)
        /\ ~Complete /\ TooLong
        /\ ReturnsError
     \/ /\ ~Skipped(NextByte) /\ ~Bad(NextByte)
        /\ ~Complete /\ ~TooLong
        /\ idx' = idx + 1
        /\ packet' = Stored(NextByte)
        /\ UNCHANGED << pc, reply, failures >>
  /\ UNCHANGED << asked, inbox, lost, dropped, resets >>

(* Fault: the time-out is for the first byte only.                          *)
TimeOut_Start ==
  /\ pc = "reading"
  /\ idx = 0
  /\ ReturnsError
  /\ UNCHANGED << asked, inbox, line, lost, dropped, resets >>

(* Fault: the command is written once more when the answer is late.         *)
TimeOut_WritesAgain ==
  /\ pc = "reading"
  /\ lost < MaxLost
  /\ lost' = lost + 1
  /\ inbox' = Append(inbox, [of |-> asked, command |-> "getImage"])
  /\ UNCHANGED << asked, pc, line, idx, packet, reply, failures, dropped, resets >>

(* The milliseconds without a byte have added up to a second: what is on    *)
(* the line is on its way.                                                  *)
TimeOut ==
  /\ pc = "reading"
  /\ ReturnsError
  /\ UNCHANGED << asked, inbox, line, lost, dropped, resets >>

----------------------------------------------------------------------------
(* The sensor, the line, and the power. *)

SensorAnswers ==
  /\ inbox # << >>
  /\ \E code \in Codes, match \in Matches :
       line' = Append(line, [of |-> Head(inbox).of, at |-> 1,
                             bytes |-> Answer(Head(inbox).command, code, match)])
  /\ inbox' = Tail(inbox)
  /\ UNCHANGED << asked, pc, idx, packet, reply, failures, lost, dropped, resets >>

CommandLost ==
  /\ inbox # << >>
  /\ lost < MaxLost
  /\ lost' = lost + 1
  /\ inbox' = Tail(inbox)
  /\ UNCHANGED << asked, pc, line, idx, packet, reply, failures, dropped, resets >>

ByteDropped ==
  /\ line # << >>
  /\ dropped < MaxDropped
  /\ dropped' = dropped + 1
  /\ line' = Rest(line)
  /\ UNCHANGED << asked, pc, inbox, idx, packet, reply, failures, lost, resets >>

(* What is left of a line from byte a of its answer k on.                   *)
From(l, k, a) == [SubSeq(l, k, Len(l)) EXCEPT ![1].at = a]

(* A reset of the board: what had arrived is gone, what is on its way will  *)
(* come, and the sensor knows nothing of it.                                *)
Reset ==
  /\ resets < MaxResets
  /\ resets' = resets + 1
  /\ \/ line' = << >>
     \/ \E k \in 1 .. Len(line) : \E a \in line[k].at .. Len(line[k].bytes) :
          line' = From(line, k, a)
  /\ Leaves
  /\ reply' = NoPacket
  /\ failures' = IF pc = "reading" THEN failures + 1 ELSE failures
  /\ UNCHANGED << asked, inbox, lost, dropped >>

Next ==
  \/ \E command \in Commands : Ask(command)
  \/ ReadByte \/ TimeOut
  \/ SensorAnswers \/ CommandLost \/ ByteDropped
  \/ Reset

Spec == Init /\ [][Next]_vars

(* The driver runs, and milliseconds pass.                                  *)
FairSpec == Spec /\ WF_vars(ReadByte \/ TimeOut)

----------------------------------------------------------------------------
(* The byte that is read next is packet->data[idx - 9], or belongs to the   *)
(* head: it has its place in the buffer, whatever length is announced.      *)
TypeOK ==
  /\ asked \in 0 .. MaxCommands
  /\ pc \in {"idle", "reading"}
  /\ \A i \in DOMAIN inbox : inbox[i] \in [of : 1 .. asked, command : Commands]
  /\ \A i \in DOMAIN line : /\ line[i].of \in 1 .. asked
                            /\ line[i].at \in 1 .. Len(line[i].bytes)
  /\ idx >= 0 /\ Len(packet.data) = (IF idx < 9 THEN 0 ELSE idx - 9)
  /\ idx - 9 < DataSize
  /\ failures \in 0 .. asked /\ lost \in 0 .. MaxLost
  /\ dropped \in 0 .. MaxDropped /\ resets \in 0 .. MaxResets

(* The answers on a line that can still be read from their beginning.       *)
Whole(l) == IF l # << >> /\ Head(l).at > 1 THEN Tail(l) ELSE l

Numbers(s) == [ i \in 1 .. Len(s) |-> s[i].of ]

(* The answers that may come: those on the line and those still to be given,*)
(* and before them the one being read, if from its beginning.               *)
Coming == Numbers(Whole(line)) \o Numbers(inbox)

Due == packet.of \o Coming

(* The data are those of one answer, from the first byte on.                *)
Intact(p) ==
  /\ p.of # << >>
  /\ \A i \in 1 .. Len(p.data) : p.data[i].of = p.of[1] /\ p.data[i].at = i + 9

Queue == INSTANCE AnswerQueue WITH
  busy  <- pc = "reading",
  due   <- Due,
  reply <- IF Intact(reply) THEN reply.of[1] ELSE 0,
  clean <- dropped = 0

(* As long as no byte is lost, the driver takes whole answers in the order  *)
(* in which they were given, each once, whatever packets that came too late *)
(* or came apart leave on the line.                                         *)
QueueKept == Queue!Spec

(* The answer a command gets is at most as many commands old as commands    *)
(* have failed before it.                                                   *)
SlipBounded == Queue!SlipBounded

(* Every command returns: no lost command, broken packet or missing byte    *)
(* holds the terminal.                                                      *)
CommandReturns == pc = "reading" ~> pc = "idle"
=============================================================================
