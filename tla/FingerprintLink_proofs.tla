----------------------- MODULE FingerprintLink_proofs -----------------------
(***************************************************************************)
(* FingerprintLink for any size of the buffer, any fields, and any number  *)
(* of commands, losses and resets.                                         *)
(*                                                                         *)
(* The driver tells where an answer begins by two bytes, and may find them *)
(* inside one.  The argument is that nothing comes of it: a packet that is *)
(* being read either began where an answer begins (Aligned), and then it   *)
(* is that answer so far, or it began elsewhere (Astray), and then the     *)
(* byte in the place of its type is none that passes.  So a command gets   *)
(* data of one answer, whole, or fails; and each byte that is read takes   *)
(* no answer from those that may come, or the first.                       *)
(***************************************************************************)
EXTENDS FingerprintLink, SequenceTheorems, TLAPS

(* Sequences, place by place. *)

LEMMA Joined ==
  ASSUME NEW S, NEW a \in Seq(S), NEW b \in Seq(S)
  PROVE  /\ a \o b \in Seq(S)
         /\ Len(a \o b) = Len(a) + Len(b)
         /\ \A i \in 1 .. Len(a) : (a \o b)[i] = a[i]
         /\ \A i \in 1 .. Len(b) : (a \o b)[Len(a) + i] = b[i]
<1>1. /\ a \o b \in Seq(S)
      /\ Len(a \o b) = Len(a) + Len(b)
      /\ \A i \in 1 .. Len(a) + Len(b) :
           (a \o b)[i] = IF i <= Len(a) THEN a[i] ELSE b[i - Len(a)]
  BY ConcatProperties
<1>2. Len(a) \in Nat /\ Len(b) \in Nat
  OBVIOUS
<1> QED BY <1>1, <1>2

LEMMA SingleJoined ==
  ASSUME NEW S, NEW x \in S, NEW b \in Seq(S)
  PROVE  /\ << x >> \o b \in Seq(S)
         /\ Len(<< x >> \o b) = 1 + Len(b)
         /\ (<< x >> \o b)[1] = x
         /\ \A i \in 1 .. Len(b) : (<< x >> \o b)[i + 1] = b[i]
<1> DEFINE a == << x >>
<1>1. a \in Seq(S) /\ Len(a) = 1 /\ a[1] = x
  OBVIOUS
<1> HIDE DEF a
<1>2. /\ a \o b \in Seq(S)
      /\ Len(a \o b) = Len(a) + Len(b)
      /\ \A i \in 1 .. Len(a) : (a \o b)[i] = a[i]
      /\ \A i \in 1 .. Len(b) : (a \o b)[Len(a) + i] = b[i]
  BY <1>1, Joined
<1>3. PICK n \in Nat : n = Len(a) /\ n = 1
  BY <1>1
<1>4. Len(b) \in Nat
  OBVIOUS
<1>5. Len(a \o b) = 1 + Len(b) /\ (a \o b)[1] = x
  BY <1>1, <1>2, <1>3, <1>4
<1>6. ASSUME NEW i \in 1 .. Len(b)
      PROVE  (a \o b)[i + 1] = b[i]
  <2>1. (a \o b)[n + i] = b[i]
    BY <1>2, <1>3
  <2>2. n + i = i + 1
    BY <1>3, <1>4
  <2> QED BY <2>1, <2>2
<1> QED BY <1>2, <1>5, <1>6 DEF a

----------------------------------------------------------------------------
(* The answers the sensor may give, byte by byte.                           *)
AllAnswers ==
  UNION { UNION { {Answer(command, code, match) : command \in Commands} :
                    code \in Codes} : match \in Matches }

(* All that the proof needs to know of an answer: the head, the length it   *)
(* announces, and that no half of a start code comes before the fields.     *)
LEMMA AnswerShape ==
  ASSUME NEW b \in AllAnswers
  PROVE  /\ Len(b) \in Nat /\ Len(b) >= 12 /\ Len(b) <= 16
         /\ b[1] = START_HIGH /\ b[2] = START_LOW
         /\ b[3] = 255 /\ b[4] = 255 /\ b[5] = 255 /\ b[6] = 255
         /\ b[7] = ACKPACKET
         /\ b[8] = 0 /\ b[9] = Len(b) - 9
         /\ b[10] # START_HIGH
<1>0. PICK match \in Matches, code \in Codes, command \in Commands :
        b = Answer(command, code, match)
  BY DEF AllAnswers
<1> DEFINE data == IF command = "getImage" THEN << code >>
                                           ELSE << code >> \o match
           n == Len(data) + 2
           sum == Checksum(ACKPACKET, n, data)
           head == << START_HIGH, START_LOW, 255, 255, 255, 255,
                      ACKPACKET, n \div 256, n % 256 >>
           tail == << sum \div 256, sum % 256 >>
           S == Int \cup {sum \div 256, sum % 256}
<1>1. b = (head \o data) \o tail
  BY <1>0, Zenon DEF Answer, Packet
<1>2. /\ data \in Seq(Byte)
      /\ Len(data) \in Nat /\ Len(data) >= 1 /\ Len(data) <= 5
      /\ data[1] # START_HIGH
  <2> HIDE DEF n, sum, head, tail, S
  <2>1. code \in Byte /\ code # START_HIGH
    BY LinkAssumption
  <2>2. match \in Seq(Byte) /\ Len(match) <= 4
    BY LinkAssumption
  <2>3. Len(match) \in Nat
    BY <2>2
  <2>4. CASE command = "getImage"
    BY <2>1, <2>4
  <2>5. CASE command # "getImage"
    <3>1. data = << code >> \o match
      BY <2>5, Zenon
    <3> HIDE DEF data
    <3>2. /\ data \in Seq(Byte) /\ Len(data) = 1 + Len(match)
          /\ data[1] = code
      BY <2>1, <2>2, <3>1, SingleJoined
    <3> QED BY <2>1, <2>2, <2>3, <3>2
  <2> QED BY <2>4, <2>5
<1> HIDE DEF data
<1>3. /\ n \in Nat /\ n >= 3 /\ n <= 7 /\ n = Len(data) + 2
      /\ tail \in Seq(S) /\ Len(tail) = 2
  BY <1>2
<1>4. data \in Seq(S)
  <2>1. Byte \subseteq S
    BY DEF Byte
  <2> HIDE DEF S
  <2> QED BY <1>2, <2>1, SeqMonotonic
<1>5. PICK two \in Nat : two = Len(tail) /\ two = 2
  BY <1>3
<1> HIDE DEF n, sum, tail
<1>6. n \div 256 = 0 /\ n % 256 = n /\ n \in Int
  BY <1>3
<1>7. /\ head \in Seq(S) /\ Len(head) = 9
      /\ head[1] = START_HIGH /\ head[2] = START_LOW
      /\ head[3] = 255 /\ head[4] = 255 /\ head[5] = 255 /\ head[6] = 255
      /\ head[7] = ACKPACKET /\ head[8] = 0 /\ head[9] = n
  BY <1>6 DEF START_HIGH, START_LOW, ACKPACKET
<1>8. PICK nine \in Nat : nine = Len(head) /\ nine = 9
  BY <1>7
<1> HIDE DEF head, S
<1>9. /\ head \o data \in Seq(S) /\ Len(head \o data) = nine + Len(data)
      /\ \A i \in 1 .. nine : (head \o data)[i] = head[i]
      /\ \A i \in 1 .. Len(data) : (head \o data)[nine + i] = data[i]
  <2>0. head \in Seq(S)
    BY <1>7
  <2>1. /\ head \o data \in Seq(S)
        /\ Len(head \o data) = Len(head) + Len(data)
        /\ \A i \in 1 .. Len(head) : (head \o data)[i] = head[i]
        /\ \A i \in 1 .. Len(data) : (head \o data)[Len(head) + i] = data[i]
    BY <1>4, <2>0, Joined
  <2> QED BY <2>1, <1>8
<1>10. /\ Len(b) = (nine + Len(data)) + two
       /\ \A i \in 1 .. (nine + Len(data)) : b[i] = (head \o data)[i]
  <2> DEFINE h == head \o data
  <2>1. h \in Seq(S) /\ tail \in Seq(S) /\ b = h \o tail
    BY <1>1, <1>3, <1>9
  <2> HIDE DEF h
  <2>2. /\ Len(h \o tail) = Len(h) + Len(tail)
        /\ \A i \in 1 .. Len(h) : (h \o tail)[i] = h[i]
    BY <2>1, Joined
  <2>3. /\ Len(b) = Len(h) + Len(tail)
        /\ \A i \in 1 .. Len(h) : b[i] = h[i]
    BY <2>1, <2>2
  <2>4. Len(h) = nine + Len(data)
    BY <1>9 DEF h
  <2> QED BY <2>3, <2>4, <1>5 DEF h
<1>11. \A i \in 1 .. nine : b[i] = head[i]
  BY <1>2, <1>9, <1>10
<1>12. b[10] = data[1]
  <2>1. 1 \in 1 .. Len(data)
    BY <1>2
  <2>2. (head \o data)[nine + 1] = data[1]
    BY <2>1, <1>9
  <2>3. nine + 1 \in 1 .. (nine + Len(data)) /\ nine + 1 = 10
    BY <1>2, <1>8
  <2>4. b[nine + 1] = (head \o data)[nine + 1]
    BY <2>3, <1>10
  <2> QED BY <2>2, <2>3, <2>4
<1>13. Len(b) \in Nat /\ Len(b) = n + 9
  BY <1>2, <1>3, <1>5, <1>8, <1>10
<1>14. /\ b[1] = head[1] /\ b[2] = head[2] /\ b[3] = head[3] /\ b[4] = head[4]
       /\ b[5] = head[5] /\ b[6] = head[6] /\ b[7] = head[7] /\ b[8] = head[8]
       /\ b[9] = head[9]
  BY <1>8, <1>11
<1>15. Len(b) >= 12 /\ Len(b) <= 16 /\ n = Len(b) - 9
  <2> HIDE DEF n
  <2> QED BY <1>3, <1>13
<1> QED BY <1>2, <1>7, <1>12, <1>13, <1>14, <1>15

----------------------------------------------------------------------------
(* The numbers of a sequence. *)

LEMMA NumbersSeq ==
  ASSUME NEW R, \A e \in R : e.of \in Nat, NEW s \in Seq(R)
  PROVE  /\ Numbers(s) \in Seq(Nat)
         /\ Len(Numbers(s)) = Len(s)
         /\ \A i \in 1 .. Len(s) : Numbers(s)[i] = s[i].of
<1>1. Len(s) \in Nat
  OBVIOUS
<1>2. \A i \in 1 .. Len(s) : s[i].of \in Nat
  BY ElementOfSeq
<1>3. Numbers(s) \in [1 .. Len(s) -> Nat]
  BY <1>2 DEF Numbers
<1>4. Numbers(s) \in Seq(Nat) /\ Len(Numbers(s)) = Len(s)
  BY <1>1, <1>3
<1>5. \A i \in 1 .. Len(s) : Numbers(s)[i] = s[i].of
  BY DEF Numbers
<1> QED BY <1>4, <1>5

LEMMA NumbersHead ==
  ASSUME NEW R, \A e \in R : e.of \in Nat, NEW s \in Seq(R), s # << >>
  PROVE  /\ Head(s).of \in Nat
         /\ Numbers(s) = << Head(s).of >> \o Numbers(Tail(s))
<1> DEFINE t == Tail(s)
           h == Head(s).of
<1>1. /\ Head(s) \in R /\ Head(s) = s[1] /\ t \in Seq(R)
      /\ Len(t) = Len(s) - 1 /\ Len(s) \in Nat
      /\ \A i \in 1 .. Len(t) : t[i] = s[i + 1]
  BY HeadTailProperties
<1>2. h \in Nat /\ Head(s) = s[1]
  BY <1>1
<1> HIDE DEF t, h
<1>3. /\ Numbers(s) \in Seq(Nat) /\ Len(Numbers(s)) = Len(s)
      /\ \A i \in 1 .. Len(s) : Numbers(s)[i] = s[i].of
  BY NumbersSeq
<1>4. /\ Numbers(t) \in Seq(Nat) /\ Len(Numbers(t)) = Len(t)
      /\ \A i \in 1 .. Len(t) : Numbers(t)[i] = t[i].of
  BY <1>1, NumbersSeq
<1>5. /\ << h >> \o Numbers(t) \in Seq(Nat)
      /\ Len(<< h >> \o Numbers(t)) = 1 + Len(Numbers(t))
      /\ (<< h >> \o Numbers(t))[1] = h
      /\ \A i \in 1 .. Len(Numbers(t)) : (<< h >> \o Numbers(t))[i + 1] = Numbers(t)[i]
  BY <1>2, <1>4, SingleJoined
<1> DEFINE c == << h >> \o Numbers(t)
<1>6. c \in Seq(Nat) /\ Len(c) = Len(s)
  BY <1>1, <1>4, <1>5
<1>7. ASSUME NEW i \in 1 .. Len(s)
      PROVE  c[i] = Numbers(s)[i]
  <2>1. CASE i = 1
    BY <2>1, <1>2, <1>3, <1>5 DEF h
  <2>2. CASE i # 1
    <3>1. i - 1 \in 1 .. Len(t) /\ (i - 1) + 1 = i
      BY <2>2, <1>1
    <3>2. c[(i - 1) + 1] = t[i - 1].of
      BY <3>1, <1>4, <1>5
    <3> QED BY <3>1, <3>2, <1>1, <1>3
  <2> QED BY <2>1, <2>2
<1> HIDE DEF c
<1>8. c = Numbers(s)
  BY <1>3, <1>6, <1>7, SeqEqual
<1> QED BY <1>2, <1>8 DEF c, t, h

LEMMA NumbersAppend ==
  ASSUME NEW R, \A e \in R : e.of \in Nat, NEW s \in Seq(R), NEW e \in R
  PROVE  Numbers(Append(s, e)) = Append(Numbers(s), e.of)
<1> DEFINE a == Append(s, e)
           b == Append(Numbers(s), e.of)
<1>1. e.of \in Nat /\ Len(s) \in Nat
  OBVIOUS
<1>2. /\ a \in Seq(R) /\ Len(a) = Len(s) + 1
      /\ \A i \in 1 .. Len(s) : a[i] = s[i]
      /\ a[Len(s) + 1] = e
  BY AppendProperties
<1> HIDE DEF a
<1>3. /\ Numbers(s) \in Seq(Nat) /\ Len(Numbers(s)) = Len(s)
      /\ \A i \in 1 .. Len(s) : Numbers(s)[i] = s[i].of
  BY NumbersSeq
<1>4. /\ Numbers(a) \in Seq(Nat) /\ Len(Numbers(a)) = Len(a)
      /\ \A i \in 1 .. Len(a) : Numbers(a)[i] = a[i].of
  BY <1>2, NumbersSeq
<1>5. /\ b \in Seq(Nat) /\ Len(b) = Len(Numbers(s)) + 1
      /\ \A i \in 1 .. Len(Numbers(s)) : b[i] = Numbers(s)[i]
      /\ b[Len(Numbers(s)) + 1] = e.of
  BY <1>1, <1>3, AppendProperties
<1> HIDE DEF b
<1>6. ASSUME NEW i \in 1 .. Len(a)
      PROVE  Numbers(a)[i] = b[i]
  <2>1. CASE i = Len(s) + 1
    BY <2>1, <1>2, <1>3, <1>4, <1>5
  <2>2. CASE i # Len(s) + 1
    <3>1. i \in 1 .. Len(s)
      BY <2>2, <1>1, <1>2
    <3> QED BY <3>1, <1>2, <1>3, <1>4, <1>5
  <2> QED BY <2>1, <2>2
<1>7. Len(Numbers(a)) = Len(b)
  BY <1>2, <1>3, <1>4, <1>5
<1>8. Numbers(a) = b
  BY <1>4, <1>5, <1>6, <1>7, SeqEqual
<1> QED BY <1>8 DEF a, b

LEMMA NumbersSuffix ==
  ASSUME NEW R, \A e \in R : e.of \in Nat, NEW s \in Seq(R),
         NEW k \in 1 .. Len(s) + 1
  PROVE  Numbers(SubSeq(s, k, Len(s))) = SubSeq(Numbers(s), k, Len(Numbers(s)))
<1> DEFINE a == SubSeq(s, k, Len(s))
           b == SubSeq(Numbers(s), k, Len(Numbers(s)))
<1>1. Len(s) \in Nat /\ k \in Int /\ Len(s) \in Int
  OBVIOUS
<1>2. /\ Numbers(s) \in Seq(Nat) /\ Len(Numbers(s)) = Len(s)
      /\ \A i \in 1 .. Len(s) : Numbers(s)[i] = s[i].of
  BY NumbersSeq
<1>3. /\ a \in Seq(R)
      /\ Len(a) = (IF k <= Len(s) THEN Len(s) - k + 1 ELSE 0)
      /\ \A i \in 1 .. Len(s) - k + 1 : a[i] = s[k + i - 1]
  <2>1. \A i \in k .. Len(s) : s[i] \in R
    BY <1>1, ElementOfSeq
  <2> QED BY <1>1, <2>1, SubSeqProperties
<1>4. /\ b \in Seq(Nat)
      /\ Len(b) = (IF k <= Len(s) THEN Len(s) - k + 1 ELSE 0)
      /\ \A i \in 1 .. Len(s) - k + 1 : b[i] = Numbers(s)[k + i - 1]
  <2>1. \A i \in k .. Len(Numbers(s)) : Numbers(s)[i] \in Nat
    BY <1>1, <1>2, ElementOfSeq
  <2>2. /\ b \in Seq(Nat)
        /\ Len(b) = (IF k <= Len(Numbers(s)) THEN Len(Numbers(s)) - k + 1 ELSE 0)
        /\ \A i \in 1 .. Len(Numbers(s)) - k + 1 : b[i] = Numbers(s)[k + i - 1]
    BY <1>1, <1>2, <2>1, SubSeqProperties
  <2> QED BY <1>2, <2>2
<1> HIDE DEF a, b
<1>5. /\ Numbers(a) \in Seq(Nat) /\ Len(Numbers(a)) = Len(a)
      /\ \A i \in 1 .. Len(a) : Numbers(a)[i] = a[i].of
  BY <1>3, NumbersSeq
<1>6. ASSUME NEW i \in 1 .. Len(a)
      PROVE  Numbers(a)[i] = b[i]
  <2>1. i \in 1 .. Len(s) - k + 1 /\ k + i - 1 \in 1 .. Len(s)
    BY <1>1, <1>3
  <2> QED BY <2>1, <1>2, <1>3, <1>4, <1>5
<1>7. Len(Numbers(a)) = Len(b)
  BY <1>3, <1>4, <1>5
<1>8. Numbers(a) = b
  BY <1>4, <1>5, <1>6, <1>7, SeqEqual
<1> QED BY <1>8 DEF a, b

----------------------------------------------------------------------------
(* What the variables hold. *)

Entry  == [of : Nat, at : Nat, bytes : AllAnswers]
Wanted == [of : Nat, command : Commands]

(* The bytes of an answer; a checksum is not looked into.                   *)
Values == UNION { {b[i] : i \in 1 .. Len(b)} : b \in AllAnswers }
Mark   == [byte : Values, of : Nat, at : Nat]

(* Only the first answer on the line can be part of one.                    *)
IsLine(l) ==
  /\ l \in Seq(Entry)
  /\ \A i \in 1 .. Len(l) : l[i].at \in 1 .. Len(l[i].bytes)
  /\ \A i \in 1 .. Len(l) : i > 1 => l[i].at = 1

IsPacket(p) ==
  /\ p = [type |-> p.type, length |-> p.length, data |-> p.data, of |-> p.of]
  /\ p.data \in Seq(Mark)
  /\ p.of = << >> \/ \E m \in Nat : p.of = << m >>

(* The place in its answer of the byte that is read next.                   *)
NextAt(l) == IF l = << >> THEN 1 ELSE Head(l).at

LEMMA EntryFields ==
  ASSUME NEW e \in Entry
  PROVE  e.of \in Nat /\ e.at \in Nat /\ e.bytes \in AllAnswers
BY DEF Entry

LEMMA LineElement ==
  ASSUME NEW l, IsLine(l), NEW i \in 1 .. Len(l)
  PROVE  /\ l[i] \in Entry /\ l[i].of \in Nat /\ l[i].bytes \in AllAnswers
         /\ l[i].at \in Int /\ l[i].at >= 1 /\ l[i].at <= Len(l[i].bytes)
         /\ Len(l[i].bytes) \in Nat
         /\ Len(l[i].bytes) >= 12 /\ Len(l[i].bytes) <= 16
         /\ i > 1 => l[i].at = 1
<1>1. l \in Seq(Entry) /\ l[i].at \in 1 .. Len(l[i].bytes) /\ (i > 1 => l[i].at = 1)
  BY DEF IsLine
<1>2. l[i] \in Entry
  BY <1>1, ElementOfSeq
<1>3. l[i].of \in Nat /\ l[i].bytes \in AllAnswers
  BY <1>2, EntryFields
<1>4. /\ Len(l[i].bytes) \in Nat
      /\ Len(l[i].bytes) >= 12 /\ Len(l[i].bytes) <= 16
  BY <1>3, AnswerShape
<1> QED BY <1>1, <1>2, <1>3, <1>4

(* The first answer on the line. *)
LEMMA LineHead ==
  ASSUME NEW l, IsLine(l), l # << >>
  PROVE  /\ Head(l) = l[1] /\ 1 \in 1 .. Len(l) /\ Len(l) \in Nat
         /\ Head(l) \in Entry /\ Head(l).of \in Nat
         /\ Head(l).bytes \in AllAnswers
         /\ Head(l).at \in Int /\ Head(l).at >= 1
         /\ Head(l).at <= Len(Head(l).bytes)
         /\ Len(Head(l).bytes) \in Nat
         /\ Len(Head(l).bytes) >= 12 /\ Len(Head(l).bytes) <= 16
<1>1. l \in Seq(Entry)
  BY DEF IsLine
<1>2. Len(l) \in Nat /\ 1 \in 1 .. Len(l) /\ Head(l) = l[1]
  BY <1>1
<1> QED BY <1>2, LineElement

LEMMA LineTail ==
  ASSUME NEW l, IsLine(l), l # << >>
  PROVE  /\ IsLine(Tail(l)) /\ Len(Tail(l)) = Len(l) - 1
         /\ \A i \in 1 .. Len(Tail(l)) : Tail(l)[i] = l[i + 1]
         /\ Whole(Tail(l)) = Tail(l) /\ NextAt(Tail(l)) = 1
<1> DEFINE t == Tail(l)
<1>1. l \in Seq(Entry) /\ Len(l) \in Nat
  BY DEF IsLine
<1>2. /\ t \in Seq(Entry) /\ Len(t) = Len(l) - 1
      /\ \A i \in 1 .. Len(t) : t[i] = l[i + 1]
  BY <1>1, HeadTailProperties
<1> HIDE DEF t
<1>3. ASSUME NEW i \in 1 .. Len(t)
      PROVE  t[i].at \in 1 .. Len(t[i].bytes) /\ t[i].at = 1
  <2>1. i + 1 \in 1 .. Len(l) /\ i + 1 > 1
    BY <1>1, <1>2
  <2>2. l[i + 1].at \in 1 .. Len(l[i + 1].bytes) /\ l[i + 1].at = 1
    BY <2>1 DEF IsLine
  <2> QED BY <2>2, <1>2
<1>4. IsLine(t)
  BY <1>2, <1>3 DEF IsLine
<1>5. t # << >> => Head(t).at = 1
  BY <1>3, <1>4, LineHead
<1>6. Whole(t) = t /\ NextAt(t) = 1
  BY <1>5 DEF Whole, NextAt
<1> QED BY <1>2, <1>4, <1>6 DEF t

(* The first answer from another place on. *)
LEMMA LineMoved ==
  ASSUME NEW l, IsLine(l), l # << >>,
         NEW a \in Int, a >= Head(l).at, a <= Len(Head(l).bytes)
  PROVE  LET m == [l EXCEPT ![1].at = a]
         IN  /\ IsLine(m) /\ m # << >> /\ Len(m) = Len(l)
             /\ Head(m).of = Head(l).of /\ Head(m).bytes = Head(l).bytes
             /\ Head(m).at = a /\ Tail(m) = Tail(l)
             /\ \A i \in 1 .. Len(l) : m[i].of = l[i].of
<1> DEFINE e == [l[1] EXCEPT !.at = a]
           m == [l EXCEPT ![1] = e]
<1>1. l \in Seq(Entry) /\ Len(l) \in Nat /\ Len(l) >= 1 /\ 1 \in 1 .. Len(l)
  BY LineHead DEF IsLine
<1>2. /\ l[1] = Head(l) /\ l[1] \in Entry
      /\ a \in Nat /\ a >= 1 /\ a <= Len(l[1].bytes)
  BY LineHead
<1>3. /\ e \in Entry /\ e.of = l[1].of /\ e.bytes = l[1].bytes /\ e.at = a
  BY <1>2 DEF Entry
<1>4. [l EXCEPT ![1].at = a] = m
  OBVIOUS
<1> HIDE DEF e
<1>5. /\ m \in Seq(Entry) /\ Len(m) = Len(l)
      /\ \A i \in 1 .. Len(l) : m[i] = IF i = 1 THEN e ELSE l[i]
  BY <1>1, <1>3, ExceptSeq
<1> HIDE DEF m
<1>6. m # << >> /\ Head(m) = m[1] /\ m[1] = e
  BY <1>1, <1>5
<1>7. /\ \A i \in 1 .. Len(m) : m[i].at \in 1 .. Len(m[i].bytes)
      /\ \A i \in 1 .. Len(m) : i > 1 => m[i].at = 1
  <2> SUFFICES ASSUME NEW i \in 1 .. Len(m)
               PROVE  m[i].at \in 1 .. Len(m[i].bytes) /\ (i > 1 => m[i].at = 1)
    OBVIOUS
  <2>1. CASE i = 1
    BY <2>1, <1>2, <1>3, <1>6, LineElement, <1>1
  <2>2. CASE i # 1
    BY <2>2, <1>5 DEF IsLine
  <2> QED BY <2>1, <2>2
<1>8. IsLine(m)
  BY <1>5, <1>7 DEF IsLine
<1>9. Tail(m) = Tail(l)
  <2>1. /\ Tail(m) \in Seq(Entry) /\ Len(Tail(m)) = Len(m) - 1
        /\ \A i \in 1 .. Len(Tail(m)) : Tail(m)[i] = m[i + 1]
    BY <1>5, <1>6, HeadTailProperties
  <2>2. /\ Tail(l) \in Seq(Entry) /\ Len(Tail(l)) = Len(l) - 1
        /\ \A i \in 1 .. Len(Tail(l)) : Tail(l)[i] = l[i + 1]
    BY <1>1, HeadTailProperties
  <2>3. ASSUME NEW i \in 1 .. Len(Tail(m)) PROVE Tail(m)[i] = Tail(l)[i]
    <3>1. i + 1 \in 1 .. Len(l) /\ i + 1 # 1 /\ i \in 1 .. Len(Tail(l))
      BY <1>1, <1>5, <2>1, <2>2
    <3> QED BY <3>1, <1>5, <2>1, <2>2
  <2>4. Len(Tail(m)) = Len(Tail(l))
    BY <1>5, <2>1, <2>2
  <2> QED BY <2>1, <2>2, <2>3, <2>4, SeqEqual
<1>10. \A i \in 1 .. Len(l) : m[i].of = l[i].of
  BY <1>3, <1>5
<1> QED BY <1>2, <1>3, <1>4, <1>5, <1>6, <1>8, <1>9, <1>10

(* Reading or losing a byte. *)
LEMMA LineRest ==
  ASSUME NEW l, IsLine(l), l # << >>
  PROVE  /\ IsLine(Rest(l)) /\ Whole(Rest(l)) = Tail(l)
         /\ Head(l).at = Len(Head(l).bytes) => Rest(l) = Tail(l)
         /\ Head(l).at < Len(Head(l).bytes) =>
              /\ Rest(l) # << >>
              /\ Head(Rest(l)).of = Head(l).of
              /\ Head(Rest(l)).bytes = Head(l).bytes
              /\ Head(Rest(l)).at = Head(l).at + 1
         /\ \A n : (\A i \in 1 .. Len(l) : l[i].of \in 1 .. n) =>
                   (\A i \in 1 .. Len(Rest(l)) : Rest(l)[i].of \in 1 .. n)
<1>1. CASE Head(l).at = Len(Head(l).bytes)
  <2>1. Rest(l) = Tail(l)
    BY <1>1 DEF Rest
  <2>2. /\ IsLine(Tail(l)) /\ Len(Tail(l)) = Len(l) - 1
        /\ \A i \in 1 .. Len(Tail(l)) : Tail(l)[i] = l[i + 1]
        /\ Whole(Tail(l)) = Tail(l) /\ Len(l) \in Nat
    BY LineTail, LineHead
  <2>3. ASSUME NEW n, \A i \in 1 .. Len(l) : l[i].of \in 1 .. n,
               NEW i \in 1 .. Len(Tail(l))
        PROVE  Tail(l)[i].of \in 1 .. n
    <3>1. i + 1 \in 1 .. Len(l) /\ Tail(l)[i] = l[i + 1]
      BY <2>2
    <3> QED BY <2>3, <3>1
  <2> QED BY <1>1, <2>1, <2>2, <2>3
<1>2. CASE Head(l).at # Len(Head(l).bytes)
  <2> DEFINE a == Head(l).at + 1
             m == [l EXCEPT ![1].at = a]
  <2>1. a \in Int /\ a >= Head(l).at /\ a <= Len(Head(l).bytes) /\ a > 1
    BY <1>2, LineHead
  <2>2. Rest(l) = m
    <3>1. l[1] = Head(l)
      BY LineHead
    <3> QED BY <3>1, <1>2 DEF Rest
  <2> HIDE DEF a
  <2>3. /\ IsLine(m) /\ m # << >> /\ Len(m) = Len(l)
        /\ Head(m).of = Head(l).of /\ Head(m).bytes = Head(l).bytes
        /\ Head(m).at = a /\ Tail(m) = Tail(l)
        /\ \A i \in 1 .. Len(l) : m[i].of = l[i].of
    BY <2>1, LineMoved
  <2> HIDE DEF m
  <2>4. Whole(m) = Tail(l)
    BY <2>1, <2>3 DEF Whole
  <2>5. \A n : (\A i \in 1 .. Len(l) : l[i].of \in 1 .. n) =>
               (\A i \in 1 .. Len(m) : m[i].of \in 1 .. n)
    BY <2>3
  <2> QED BY <1>2, <2>2, <2>3, <2>4, <2>5 DEF a
<1> QED BY <1>1, <1>2

(* The byte that is read. *)
LEMMA NextByteFacts ==
  ASSUME IsLine(line), line # << >>
  PROVE  /\ NextByte \in Mark
         /\ NextByte.of = Head(line).of /\ NextByte.at = Head(line).at
         /\ NextByte.byte = Head(line).bytes[Head(line).at]
<1>1. /\ Head(line).of \in Nat /\ Head(line).bytes \in AllAnswers
      /\ Head(line).at \in Int /\ Head(line).at >= 1
      /\ Head(line).at <= Len(Head(line).bytes)
      /\ Len(Head(line).bytes) \in Nat
  BY LineHead
<1>2. Head(line).bytes[Head(line).at] \in Values
  <2>1. Head(line).at \in 1 .. Len(Head(line).bytes)
    BY <1>1
  <2> QED BY <1>1, <2>1 DEF Values
<1> QED BY <1>1, <1>2 DEF NextByte, Mark

(* What is left of the line from one of its answers on. *)
LEMMA LineSuffix ==
  ASSUME NEW l, IsLine(l), NEW k \in 1 .. Len(l) + 1
  PROVE  LET m == SubSeq(l, k, Len(l))
         IN  /\ IsLine(m) /\ Len(m) = Len(l) - k + 1
             /\ \A i \in 1 .. Len(m) : m[i] = l[k + i - 1]
             /\ k <= Len(l) => /\ m # << >> /\ Head(m) = l[k]
                               /\ Tail(m) = SubSeq(l, k + 1, Len(l))
<1> DEFINE m == SubSeq(l, k, Len(l))
<1>1. l \in Seq(Entry) /\ Len(l) \in Nat /\ k \in Int
  BY DEF IsLine
<1>2. /\ m \in Seq(Entry) /\ Len(m) = Len(l) - k + 1
      /\ \A i \in 1 .. Len(m) : m[i] = l[k + i - 1]
  <2>1. \A i \in k .. Len(l) : l[i] \in Entry
    BY <1>1, ElementOfSeq
  <2>2. /\ m \in Seq(Entry)
        /\ Len(m) = (IF k <= Len(l) THEN Len(l) - k + 1 ELSE 0)
        /\ \A i \in 1 .. Len(l) - k + 1 : m[i] = l[k + i - 1]
    BY <1>1, <2>1, SubSeqProperties
  <2> HIDE DEF m
  <2> QED BY <1>1, <2>2
<1>3. k <= Len(l) => Head(m) = l[k] /\ Tail(m) = SubSeq(l, k + 1, Len(l))
  <2>1. k <= Len(l) => k \in 1 .. Len(l) /\ Len(l) \in k .. Len(l)
    BY <1>1
  <2> QED BY <1>1, <2>1, HeadTailOfSubSeq
<1> HIDE DEF m
<1>4. k <= Len(l) => m # << >>
  BY <1>1, <1>2
<1>5. ASSUME NEW i \in 1 .. Len(m)
      PROVE  m[i].at \in 1 .. Len(m[i].bytes) /\ (i > 1 => m[i].at = 1)
  <2>1. k + i - 1 \in 1 .. Len(l) /\ (i > 1 => k + i - 1 > 1)
    BY <1>1, <1>2
  <2> QED BY <2>1, <1>2 DEF IsLine
<1>6. IsLine(m)
  BY <1>2, <1>5 DEF IsLine
<1> QED BY <1>2, <1>3, <1>4, <1>6 DEF m

LEMMA EntriesNumbered == \A e \in Entry : e.of \in Nat
BY DEF Entry

(* A reset leaves on the line the last of the answers.                      *)
LEMMA LineReset ==
  ASSUME NEW l, IsLine(l), NEW k \in 1 .. Len(l),
         NEW a \in l[k].at .. Len(l[k].bytes)
  PROVE  /\ IsLine(From(l, k, a)) /\ Len(From(l, k, a)) = Len(l) - k + 1
         /\ \A i \in 1 .. Len(From(l, k, a)) :
              From(l, k, a)[i].of = l[k + i - 1].of
         /\ Numbers(Whole(From(l, k, a))) =
              Numbers(SubSeq(l, IF a > 1 THEN k + 1 ELSE k, Len(l)))
<1> DEFINE s == SubSeq(l, k, Len(l))
           m == [s EXCEPT ![1].at = a]
<1>1. Len(l) \in Nat /\ k \in 1 .. Len(l) + 1 /\ k <= Len(l)
  BY DEF IsLine
<1>2. /\ IsLine(s) /\ Len(s) = Len(l) - k + 1
      /\ \A i \in 1 .. Len(s) : s[i] = l[k + i - 1]
      /\ s # << >> /\ Head(s) = l[k] /\ Tail(s) = SubSeq(l, k + 1, Len(l))
  BY <1>1, LineSuffix
<1>3. a \in Int /\ a >= 1 /\ a >= Head(s).at /\ a <= Len(Head(s).bytes)
  BY <1>2, LineElement
<1> HIDE DEF s
<1>4. /\ IsLine(m) /\ m # << >> /\ Len(m) = Len(s)
      /\ Head(m).at = a /\ Tail(m) = Tail(s)
      /\ \A i \in 1 .. Len(s) : m[i].of = s[i].of
  BY <1>2, <1>3, LineMoved
<1> HIDE DEF m
<1>5. \A i \in 1 .. Len(m) : m[i].of = l[k + i - 1].of
  BY <1>2, <1>4
<1>6. CASE a > 1
  <2>1. Whole(m) = SubSeq(l, k + 1, Len(l))
    BY <1>2, <1>4, <1>6 DEF Whole
  <2> QED BY <1>2, <1>4, <1>5, <1>6, <2>1 DEF m, s, From
<1>7. CASE ~ (a > 1)
  <2>1. Whole(m) = m
    BY <1>4, <1>7 DEF Whole
  <2>2. m \in Seq(Entry) /\ s \in Seq(Entry)
    BY <1>2, <1>4 DEF IsLine
  <2>3. /\ Numbers(m) \in Seq(Nat) /\ Len(Numbers(m)) = Len(m)
        /\ \A i \in 1 .. Len(m) : Numbers(m)[i] = m[i].of
    BY <2>2, EntriesNumbered, NumbersSeq
  <2>4. /\ Numbers(s) \in Seq(Nat) /\ Len(Numbers(s)) = Len(s)
        /\ \A i \in 1 .. Len(s) : Numbers(s)[i] = s[i].of
    BY <2>2, EntriesNumbered, NumbersSeq
  <2>5. \A i \in 1 .. Len(Numbers(m)) : Numbers(m)[i] = Numbers(s)[i]
    BY <1>4, <2>3, <2>4
  <2>6. Numbers(m) = Numbers(s)
    BY <1>4, <2>3, <2>4, <2>5, SeqEqual
  <2> QED BY <1>2, <1>4, <1>5, <1>7, <2>1, <2>6 DEF m, s, From
<1> QED BY <1>6, <1>7 DEF m, s

(* What a byte makes of the packet. *)
LEMMA StoredShape ==
  ASSUME IsPacket(packet), idx \in Nat, NEW b \in Mark,
         Len(packet.data) = IF idx < 9 THEN 0 ELSE idx - 9
  PROVE  /\ IsPacket(Stored(b))
         /\ Len(Stored(b).data) = IF idx + 1 < 9 THEN 0 ELSE idx + 1 - 9
         /\ idx = 0 => Stored(b).of = IF b.at = 1 THEN << b.of >> ELSE << >>
         /\ idx # 0 => Stored(b).of = packet.of
         /\ idx = 6 => Stored(b).type = b.byte
         /\ idx # 6 => Stored(b).type = packet.type
         /\ idx = 7 => Stored(b).length = 256 * b.byte
         /\ idx = 8 => Stored(b).length = packet.length + b.byte
         /\ idx \notin {7, 8} => Stored(b).length = packet.length
         /\ idx < 9 => Stored(b).data = packet.data
         /\ idx >= 9 => Stored(b).data = Append(packet.data, b)
<1>1. /\ packet = [type |-> packet.type, length |-> packet.length,
                   data |-> packet.data, of |-> packet.of]
      /\ packet.data \in Seq(Mark)
      /\ packet.of = << >> \/ \E m \in Nat : packet.of = << m >>
      /\ b.of \in Nat
  BY DEF IsPacket, Mark
<1>2. CASE idx = 0
  <2>1. Stored(b) = [packet EXCEPT !.of = IF b.at = 1 THEN << b.of >> ELSE << >>]
    BY <1>2 DEF Stored
  <2>2. /\ Stored(b).of = (IF b.at = 1 THEN << b.of >> ELSE << >>)
        /\ Stored(b).type = packet.type /\ Stored(b).length = packet.length
        /\ Stored(b).data = packet.data
        /\ Stored(b) = [type |-> Stored(b).type, length |-> Stored(b).length,
                        data |-> Stored(b).data, of |-> Stored(b).of]
    BY <1>1, <2>1
  <2>3. Stored(b).of = << >> \/ \E m \in Nat : Stored(b).of = << m >>
    BY <1>1, <2>2
  <2> QED BY <1>1, <1>2, <2>2, <2>3 DEF IsPacket
<1>3. CASE idx = 6
  <2>1. Stored(b) = [packet EXCEPT !.type = b.byte]
    BY <1>3 DEF Stored
  <2>2. /\ Stored(b).of = packet.of
        /\ Stored(b).type = b.byte /\ Stored(b).length = packet.length
        /\ Stored(b).data = packet.data
        /\ Stored(b) = [type |-> Stored(b).type, length |-> Stored(b).length,
                        data |-> Stored(b).data, of |-> Stored(b).of]
    BY <1>1, <2>1
  <2> QED BY <1>1, <1>3, <2>2 DEF IsPacket
<1>4. CASE idx = 7
  <2>1. Stored(b) = [packet EXCEPT !.length = 256 * b.byte]
    BY <1>4 DEF Stored
  <2>2. /\ Stored(b).of = packet.of
        /\ Stored(b).type = packet.type /\ Stored(b).length = 256 * b.byte
        /\ Stored(b).data = packet.data
        /\ Stored(b) = [type |-> Stored(b).type, length |-> Stored(b).length,
                        data |-> Stored(b).data, of |-> Stored(b).of]
    BY <1>1, <2>1
  <2> QED BY <1>1, <1>4, <2>2 DEF IsPacket
<1>5. CASE idx = 8
  <2>1. Stored(b) = [packet EXCEPT !.length = packet.length + b.byte]
    BY <1>5 DEF Stored
  <2>2. /\ Stored(b).of = packet.of
        /\ Stored(b).type = packet.type /\ Stored(b).length = packet.length + b.byte
        /\ Stored(b).data = packet.data
        /\ Stored(b) = [type |-> Stored(b).type, length |-> Stored(b).length,
                        data |-> Stored(b).data, of |-> Stored(b).of]
    BY <1>1, <2>1
  <2> QED BY <1>1, <1>5, <2>2 DEF IsPacket
<1>6. CASE idx >= 9
  <2>1. Stored(b) = [packet EXCEPT !.data = Append(packet.data, b)]
    BY <1>6 DEF Stored
  <2>2. /\ Stored(b).of = packet.of
        /\ Stored(b).type = packet.type /\ Stored(b).length = packet.length
        /\ Stored(b).data = Append(packet.data, b)
        /\ Stored(b) = [type |-> Stored(b).type, length |-> Stored(b).length,
                        data |-> Stored(b).data, of |-> Stored(b).of]
    BY <1>1, <2>1
  <2>3. Append(packet.data, b) \in Seq(Mark) /\ Len(Append(packet.data, b)) = Len(packet.data) + 1
    BY <1>1, AppendProperties
  <2>4. IsPacket(Stored(b))
    BY <1>1, <2>2, <2>3 DEF IsPacket
  <2> QED BY <1>6, <2>2, <2>3, <2>4
<1>7. CASE idx \notin {0, 6, 7, 8} /\ idx < 9
  <2>1. Stored(b) = packet
    BY <1>7 DEF Stored
  <2> QED BY <1>1, <1>7, <2>1 DEF IsPacket
<1> QED BY <1>2, <1>3, <1>4, <1>5, <1>6, <1>7

----------------------------------------------------------------------------
(* The types. *)

Counters ==
  /\ asked \in Nat /\ asked <= MaxCommands
  /\ pc \in {"idle", "reading"}
  /\ failures \in Nat
  /\ failures + (IF pc = "reading" THEN 1 ELSE 0) <= asked
  /\ lost \in 0 .. MaxLost /\ dropped \in 0 .. MaxDropped
  /\ resets \in 0 .. MaxResets

Traffic ==
  /\ inbox \in Seq(Wanted)
  /\ \A i \in 1 .. Len(inbox) : inbox[i].of \in 1 .. asked
  /\ IsLine(line)
  /\ \A i \in 1 .. Len(line) : line[i].of \in 1 .. asked

Reading ==
  /\ IsPacket(packet)
  /\ Len(packet.data) = IF idx < 9 THEN 0 ELSE idx - 9
  /\ idx \in Nat /\ idx + 9 < DataSize
  /\ idx = 0 => packet = NoPacket
  /\ pc = "idle" => idx = 0
  /\ pc = "reading" => reply = NoPacket

TypeInv == Counters /\ Traffic /\ Reading

LEMMA NoPacketIsPacket == IsPacket(NoPacket) /\ NoPacket.data = << >> /\ NoPacket.of = << >>
BY EmptySeq DEF IsPacket, NoPacket

LEMMA LeavesReading ==
  ASSUME Leaves PROVE Reading'
<1>1. idx' = 0 /\ packet' = NoPacket /\ pc' = "idle"
  BY DEF Leaves
<1>2. DataSize \in Nat /\ DataSize > 9
  BY LinkAssumption
<1> QED BY <1>1, <1>2, NoPacketIsPacket DEF Reading

(* What ReadByte comes to. *)
Skips ==
  /\ idx = 0 /\ Skipped(NextByte)
  /\ UNCHANGED << pc, idx, packet, reply, failures >>

Takes ==
  /\ Complete /\ Stored(NextByte).type = ACKPACKET
  /\ Leaves
  /\ reply' = Stored(NextByte)
  /\ UNCHANGED failures

Stores ==
  /\ ~Skipped(NextByte) /\ ~Bad(NextByte) /\ ~Complete /\ ~TooLong
  /\ idx' = idx + 1
  /\ packet' = Stored(NextByte)
  /\ UNCHANGED << pc, reply, failures >>

LEMMA ReadByteCases ==
  ASSUME ReadByte
  PROVE  /\ pc = "reading" /\ line # << >> /\ line' = Rest(line)
         /\ UNCHANGED << asked, inbox, lost, dropped, resets >>
         /\ Skips \/ ReturnsError \/ Takes \/ Stores
BY DEF ReadByte, Skips, Takes, Stores, Returns, Skipped

LEMMA TypesKept ==
  ASSUME TypeInv, Next PROVE TypeInv'
<1>1. Counters /\ Traffic /\ Reading
  BY DEF TypeInv
<1>2. ASSUME NEW command \in Commands, Ask(command)
      PROVE  TypeInv'
  <2>1. Counters'
    BY <1>1, <1>2, LinkAssumption DEF Ask, Counters
  <2>2. Traffic'
    <3> DEFINE e == [of |-> asked + 1, command |-> command]
    <3>1. e \in Wanted /\ e.of = asked + 1 /\ asked \in Nat
      BY <1>1 DEF Wanted, Counters
    <3>2. inbox \in Seq(Wanted) /\ inbox' = Append(inbox, e) /\ asked' = asked + 1
          /\ line' = line
      BY <1>1, <1>2 DEF Traffic, Ask
    <3> HIDE DEF e
    <3>3. /\ inbox' \in Seq(Wanted) /\ Len(inbox') = Len(inbox) + 1
          /\ \A i \in 1 .. Len(inbox) : inbox'[i] = inbox[i]
          /\ inbox'[Len(inbox) + 1] = e /\ Len(inbox) \in Nat
      BY <3>1, <3>2, AppendProperties
    <3>4. ASSUME NEW i \in 1 .. Len(inbox') PROVE inbox'[i].of \in 1 .. asked'
      <4>1. CASE i = Len(inbox) + 1
        BY <4>1, <3>1, <3>2, <3>3
      <4>2. CASE i # Len(inbox) + 1
        <5>1. i \in 1 .. Len(inbox)
          BY <4>2, <3>3
        <5>2. inbox[i].of \in 1 .. asked
          BY <5>1, <1>1 DEF Traffic
        <5> QED BY <5>1, <5>2, <3>1, <3>2, <3>3
      <4> QED BY <4>1, <4>2
    <3>5. IsLine(line') /\ \A i \in 1 .. Len(line') : line'[i].of \in 1 .. asked'
      <4>1. IsLine(line) /\ \A i \in 1 .. Len(line) : line[i].of \in 1 .. asked
        BY <1>1 DEF Traffic
      <4> QED BY <4>1, <3>1, <3>2
    <3> QED BY <3>3, <3>4, <3>5 DEF Traffic
  <2>3. Reading'
    BY <1>1, <1>2 DEF Ask, Reading
  <2> QED BY <2>1, <2>2, <2>3 DEF TypeInv
<1>3. CASE ReadByte
  <2>1. /\ pc = "reading" /\ line # << >> /\ line' = Rest(line)
        /\ UNCHANGED << asked, inbox, lost, dropped, resets >>
        /\ Skips \/ ReturnsError \/ Takes \/ Stores
    BY <1>3, ReadByteCases
  <2>2. Counters'
    BY <1>1, <2>1 DEF Counters, Skips, ReturnsError, Takes, Stores, Leaves
  <2>3. Traffic'
    <3>1. IsLine(line) /\ \A i \in 1 .. Len(line) : line[i].of \in 1 .. asked
      BY <1>1 DEF Traffic
    <3>2. IsLine(line') /\ \A i \in 1 .. Len(line') : line'[i].of \in 1 .. asked
      BY <2>1, <3>1, LineRest
    <3> QED BY <1>1, <2>1, <3>2 DEF Traffic
  <2>4. Reading'
    <3>1. CASE Skips
      BY <1>1, <3>1 DEF Skips, Reading
    <3>2. CASE ReturnsError \/ Takes
      BY <3>2, LeavesReading DEF ReturnsError, Takes
    <3>3. CASE Stores
      <4>1. IsPacket(packet) /\ idx \in Nat /\ Len(packet.data) = IF idx < 9 THEN 0 ELSE idx - 9
        BY <1>1 DEF Reading
      <4>2. NextByte \in Mark
        BY <1>1, <2>1, NextByteFacts DEF Traffic
      <4>3. /\ IsPacket(Stored(NextByte))
            /\ Len(Stored(NextByte).data) = IF idx + 1 < 9 THEN 0 ELSE idx + 1 - 9
        BY <4>1, <4>2, StoredShape
      <4>4. /\ idx' = idx + 1 /\ packet' = Stored(NextByte) /\ pc' = pc /\ reply' = reply
            /\ ~TooLong
        BY <3>3 DEF Stores
      <4>5. idx' \in Nat /\ idx' # 0 /\ idx' + 9 < DataSize
        BY <4>1, <4>4, LinkAssumption DEF TooLong
      <4>6. IsPacket(packet')
        BY <4>3, <4>4
      <4>7. Len(packet'.data) = IF idx' < 9 THEN 0 ELSE idx' - 9
        BY <4>1, <4>3, <4>4
      <4>8. pc' = "reading" /\ reply' = NoPacket
        BY <1>1, <2>1, <4>4 DEF Reading
      <4> QED BY <4>5, <4>6, <4>7, <4>8 DEF Reading
    <3> QED BY <2>1, <3>1, <3>2, <3>3
  <2> QED BY <2>2, <2>3, <2>4 DEF TypeInv
<1>4. CASE TimeOut
  <2>1. Counters'
    BY <1>1, <1>4 DEF Counters, TimeOut, ReturnsError, Leaves
  <2>2. Traffic'
    BY <1>1, <1>4 DEF Traffic, TimeOut
  <2>3. Reading'
    BY <1>4, LeavesReading DEF TimeOut, ReturnsError
  <2> QED BY <2>1, <2>2, <2>3 DEF TypeInv
<1>5. CASE SensorAnswers
  <2>1. PICK code \in Codes, match \in Matches :
          line' = Append(line, [of |-> Head(inbox).of, at |-> 1,
                                bytes |-> Answer(Head(inbox).command, code, match)])
    BY <1>5 DEF SensorAnswers
  <2> DEFINE e == [of |-> Head(inbox).of, at |-> 1,
                   bytes |-> Answer(Head(inbox).command, code, match)]
  <2>2. /\ inbox # << >> /\ inbox' = Tail(inbox)
        /\ UNCHANGED << asked, pc, idx, packet, reply, failures, lost, dropped, resets >>
    BY <1>5 DEF SensorAnswers
  <2>3. Counters' /\ Reading'
    BY <1>1, <2>2 DEF Counters, Reading
  <2>4. /\ inbox \in Seq(Wanted) /\ Len(inbox) \in Nat /\ 1 \in 1 .. Len(inbox)
        /\ Head(inbox) \in Wanted /\ Head(inbox) = inbox[1]
        /\ inbox' \in Seq(Wanted) /\ Len(inbox') = Len(inbox) - 1
        /\ \A i \in 1 .. Len(inbox') : inbox'[i] = inbox[i + 1]
    BY <1>1, <2>2, HeadTailProperties DEF Traffic
  <2>5. \A i \in 1 .. Len(inbox') : inbox'[i].of \in 1 .. asked'
    <3> TAKE i \in 1 .. Len(inbox')
    <3>1. i + 1 \in 1 .. Len(inbox)
      BY <2>4
    <3>2. inbox[i + 1].of \in 1 .. asked
      BY <3>1, <1>1 DEF Traffic
    <3> QED BY <3>2, <2>2, <2>4
  <2>6. Answer(Head(inbox).command, code, match) \in AllAnswers /\ Head(inbox).of \in Nat
    <3>1. Head(inbox).command \in Commands /\ Head(inbox).of \in Nat
      BY <2>4 DEF Wanted
    <3> QED BY <3>1 DEF AllAnswers
  <2>7. e \in Entry /\ e.at = 1 /\ e.of = Head(inbox).of /\ e.bytes \in AllAnswers
    BY <2>6 DEF Entry
  <2>8. e.of \in 1 .. asked /\ 1 \in 1 .. Len(e.bytes)
    <3>1. Len(e.bytes) \in Nat /\ Len(e.bytes) >= 12
      BY <2>7, AnswerShape
    <3>2. inbox[1].of \in 1 .. asked
      BY <1>1, <2>4 DEF Traffic
    <3> QED BY <3>1, <3>2, <2>4, <2>7
  <2>9. line' = Append(line, e)
    BY <2>1
  <2> HIDE DEF e
  <2>10. line \in Seq(Entry) /\ Len(line) \in Nat
    BY <1>1 DEF Traffic, IsLine
  <2>11. /\ line' \in Seq(Entry) /\ Len(line') = Len(line) + 1
         /\ \A i \in 1 .. Len(line) : line'[i] = line[i]
         /\ line'[Len(line) + 1] = e
    BY <2>7, <2>9, <2>10, AppendProperties
  <2>12. ASSUME NEW i \in 1 .. Len(line')
         PROVE  /\ line'[i].at \in 1 .. Len(line'[i].bytes)
                /\ i > 1 => line'[i].at = 1
                /\ line'[i].of \in 1 .. asked'
    <3>1. CASE i = Len(line) + 1
      <4>1. line'[i] = e
        BY <3>1, <2>11
      <4> QED BY <4>1, <2>2, <2>7, <2>8
    <3>2. CASE i # Len(line) + 1
      <4>1. i \in 1 .. Len(line) /\ line'[i] = line[i]
        BY <3>2, <2>10, <2>11
      <4>2. /\ line[i].at \in 1 .. Len(line[i].bytes)
            /\ i > 1 => line[i].at = 1
            /\ line[i].of \in 1 .. asked
        BY <4>1, <1>1 DEF Traffic, IsLine
      <4> QED BY <4>1, <4>2, <2>2
    <3> QED BY <3>1, <3>2
  <2>13. IsLine(line')
    BY <2>11, <2>12 DEF IsLine
  <2> QED BY <2>3, <2>4, <2>5, <2>12, <2>13 DEF Traffic, TypeInv
<1>6. CASE CommandLost
  <2>1. Counters'
    BY <1>1, <1>6, LinkAssumption DEF CommandLost, Counters
  <2>2. Reading'
    BY <1>1, <1>6 DEF CommandLost, Reading
  <2>3. /\ inbox \in Seq(Wanted) /\ Len(inbox) \in Nat
        /\ inbox' \in Seq(Wanted) /\ Len(inbox') = Len(inbox) - 1
        /\ \A i \in 1 .. Len(inbox') : inbox'[i] = inbox[i + 1]
    BY <1>1, <1>6, HeadTailProperties DEF Traffic, CommandLost
  <2>4. \A i \in 1 .. Len(inbox') : inbox'[i].of \in 1 .. asked'
    <3> TAKE i \in 1 .. Len(inbox')
    <3>1. i + 1 \in 1 .. Len(inbox)
      BY <2>3
    <3>2. inbox[i + 1].of \in 1 .. asked
      BY <3>1, <1>1 DEF Traffic
    <3> QED BY <3>2, <2>3, <1>6 DEF CommandLost
  <2>5. line' = line /\ asked' = asked
    BY <1>6 DEF CommandLost
  <2> QED BY <1>1, <2>1, <2>2, <2>3, <2>4, <2>5 DEF Traffic, TypeInv
<1>7. CASE ByteDropped
  <2>1. Counters'
    BY <1>1, <1>7, LinkAssumption DEF ByteDropped, Counters
  <2>2. Reading'
    BY <1>1, <1>7 DEF ByteDropped, Reading
  <2>3. IsLine(line) /\ \A i \in 1 .. Len(line) : line[i].of \in 1 .. asked
    BY <1>1 DEF Traffic
  <2>4. IsLine(line') /\ \A i \in 1 .. Len(line') : line'[i].of \in 1 .. asked
    BY <1>7, <2>3, LineRest DEF ByteDropped
  <2> QED BY <1>1, <1>7, <2>1, <2>2, <2>4 DEF ByteDropped, Traffic, TypeInv
<1>8. CASE Reset
  <2>1. Counters'
    BY <1>1, <1>8, LinkAssumption DEF Reset, Leaves, Counters
  <2>2. Reading'
    BY <1>8, LeavesReading DEF Reset
  <2>3. IsLine(line) /\ (\A i \in 1 .. Len(line) : line[i].of \in 1 .. asked)
    BY <1>1 DEF Traffic
  <2>4. IsLine(line') /\ \A i \in 1 .. Len(line') : line'[i].of \in 1 .. asked
    <3>1. CASE line' = << >>
      BY <3>1, EmptySeq DEF IsLine
    <3>2. CASE line' # << >>
      <4>1. PICK k \in 1 .. Len(line) :
              \E a \in line[k].at .. Len(line[k].bytes) :
                line' = From(line, k, a)
        BY <1>8, <3>2 DEF Reset
      <4>2. PICK a \in line[k].at .. Len(line[k].bytes) :
              line' = From(line, k, a)
        BY <4>1
      <4>3. /\ IsLine(line') /\ Len(line') = Len(line) - k + 1
            /\ \A i \in 1 .. Len(line') : line'[i].of = line[k + i - 1].of
        <5>1. IsLine(line)
          BY <2>3
        <5> QED BY <5>1, <4>2, LineReset
      <4>4. ASSUME NEW i \in 1 .. Len(line') PROVE line'[i].of \in 1 .. asked
        <5>1. Len(line) \in Nat /\ k \in Nat
          BY <2>3 DEF IsLine
        <5>2. k + i - 1 \in 1 .. Len(line)
          BY <4>3, <5>1
        <5> QED BY <2>3, <4>3, <5>2
      <4> QED BY <4>3, <4>4
    <3> QED BY <3>1, <3>2
  <2> QED BY <1>1, <1>8, <2>1, <2>2, <2>4 DEF Reset, Traffic, TypeInv
<1> QED BY <1>2, <1>3, <1>4, <1>5, <1>6, <1>7, <1>8 DEF Next

LEMMA TypesStutter ==
  ASSUME TypeInv, UNCHANGED vars PROVE TypeInv'
BY DEF TypeInv, Counters, Traffic, Reading, vars

LEMMA TypesInit ==
  ASSUME Init PROVE TypeInv
<1>1. Counters
  BY LinkAssumption DEF Init, Counters
<1>2. Traffic
  BY EmptySeq DEF Init, Traffic, IsLine
<1>3. Reading
  BY NoPacketIsPacket, LinkAssumption DEF Init, Reading
<1> QED BY <1>1, <1>2, <1>3 DEF TypeInv

LEMMA Typed == Spec => []TypeInv
<1>1. Init => TypeInv
  BY TypesInit
<1>2. TypeInv /\ [Next]_vars => TypeInv'
  BY TypesKept, TypesStutter
<1> QED BY <1>1, <1>2, PTL DEF Spec

(* No length an answer announces, and no byte that is lost or taken for     *)
(* another, leads past the end of packet->data.                             *)
THEOREM TypeCorrect == Spec => []TypeOK
<1>1. TypeInv => TypeOK
  <2> SUFFICES ASSUME TypeInv PROVE TypeOK
    OBVIOUS
  <2>1. Counters /\ Traffic /\ Reading
    BY DEF TypeInv
  <2>2. /\ asked \in 0 .. MaxCommands /\ pc \in {"idle", "reading"}
        /\ failures \in 0 .. asked /\ lost \in 0 .. MaxLost
        /\ dropped \in 0 .. MaxDropped /\ resets \in 0 .. MaxResets
    BY <2>1, LinkAssumption DEF Counters
  <2>3. ASSUME NEW i \in DOMAIN inbox
        PROVE  inbox[i] \in [of : 1 .. asked, command : Commands]
    <3>1. i \in 1 .. Len(inbox) /\ inbox \in Seq(Wanted)
      BY <2>1 DEF Traffic
    <3>2. inbox[i] \in Wanted /\ inbox[i].of \in 1 .. asked
      BY <2>1, <3>1, ElementOfSeq DEF Traffic
    <3> QED BY <3>2 DEF Wanted
  <2>4. ASSUME NEW i \in DOMAIN line
        PROVE  /\ line[i].of \in 1 .. asked
               /\ line[i].at \in 1 .. Len(line[i].bytes)
    <3>1. i \in 1 .. Len(line)
      BY <2>1 DEF Traffic, IsLine
    <3> QED BY <2>1, <3>1 DEF Traffic, IsLine
  <2>5. /\ idx >= 0 /\ Len(packet.data) = (IF idx < 9 THEN 0 ELSE idx - 9)
        /\ idx \in Nat /\ idx + 9 < DataSize
    BY <2>1 DEF Reading
  <2>6. idx - 9 < DataSize
    BY <2>5, LinkAssumption
  <2> QED BY <2>2, <2>3, <2>4, <2>5, <2>6 DEF TypeOK
<1> QED BY <1>1, Typed, PTL

----------------------------------------------------------------------------
(* What the driver has read, as long as no byte is lost. *)

(* The packet began where an answer begins: it is that answer, as far as it *)
(* has been read.                                                           *)
Aligned ==
  /\ idx >= 1
  /\ line # << >>
  /\ Head(line).of = packet.of[1] /\ Head(line).at = idx + 1
  /\ idx >= 7 => packet.type = ACKPACKET
  /\ idx = 8 => packet.length = 0
  /\ idx >= 9 => packet.length = Len(Head(line).bytes) - 9
  /\ \A i \in 1 .. Len(packet.data) :
       packet.data[i].of = packet.of[1] /\ packet.data[i].at = i + 9

(* It began at 239, 1 inside an answer: the type it finds is in the fields  *)
(* or the checksum of that answer, where there is no room for six more      *)
(* bytes, or among the first six bytes of the next.                         *)
Astray ==
  /\ idx >= 7 => packet.type # ACKPACKET
  /\ idx <= 6 => NextAt(line) >= idx + 11 \/ NextAt(line) <= idx

Packets ==
  /\ packet.of # << >> => Aligned
  /\ packet.of = << >> /\ idx > 0 => Astray

LEMMA LeavesPackets ==
  ASSUME Leaves PROVE Packets'
BY NoPacketIsPacket DEF Leaves, Packets

(* Each byte keeps a packet aligned or astray.                              *)
LEMMA StoresPackets ==
  ASSUME TypeInv, Packets, pc = "reading", line # << >>, line' = Rest(line), Stores
  PROVE  Packets'
<1> DEFINE h == Head(line)
           b == NextByte
           p == Stored(NextByte)
<1>1. IsLine(line)
  BY DEF TypeInv, Traffic
<1>2. /\ IsPacket(packet) /\ idx \in Nat
      /\ Len(packet.data) = (IF idx < 9 THEN 0 ELSE idx - 9)
      /\ idx = 0 => packet = NoPacket
  BY DEF TypeInv, Reading
<1>3. /\ h.of \in Nat /\ h.bytes \in AllAnswers /\ h.at \in Int /\ h.at >= 1
      /\ h.at <= Len(h.bytes) /\ Len(h.bytes) \in Nat
      /\ Len(h.bytes) >= 12 /\ Len(h.bytes) <= 16
  BY <1>1, LineHead
<1>4. /\ b \in Mark /\ b.of = h.of /\ b.at = h.at
      /\ b.byte = h.bytes[h.at]
  BY <1>1, NextByteFacts
<1>5. /\ IsPacket(p)
      /\ Len(p.data) = (IF idx + 1 < 9 THEN 0 ELSE idx + 1 - 9)
      /\ idx = 0 => p.of = IF b.at = 1 THEN << b.of >> ELSE << >>
      /\ idx # 0 => p.of = packet.of
      /\ idx = 6 => p.type = b.byte
      /\ idx # 6 => p.type = packet.type
      /\ idx = 7 => p.length = 256 * b.byte
      /\ idx = 8 => p.length = packet.length + b.byte
      /\ idx \notin {7, 8} => p.length = packet.length
      /\ idx < 9 => p.data = packet.data
      /\ idx >= 9 => p.data = Append(packet.data, b)
  BY <1>2, <1>4, StoredShape
<1>6. /\ h.at = Len(h.bytes) => line' = Tail(line)
      /\ h.at < Len(h.bytes) =>
           /\ line' # << >> /\ Head(line').of = h.of
           /\ Head(line').bytes = h.bytes /\ Head(line').at = h.at + 1
  BY <1>1, LineRest
<1>7. /\ idx' = idx + 1 /\ packet' = p
      /\ ~Skipped(b) /\ ~Complete
  BY DEF Stores
<1>8. /\ h.at = Len(h.bytes) => NextAt(line') = 1
      /\ h.at < Len(h.bytes) => NextAt(line') = h.at + 1
  <2>1. NextAt(Tail(line)) = 1
    BY <1>1, LineTail
  <2> QED BY <1>6, <2>1 DEF NextAt
<1>9. /\ h.bytes[1] = START_HIGH /\ h.bytes[2] = START_LOW
      /\ h.bytes[3] = 255 /\ h.bytes[4] = 255 /\ h.bytes[5] = 255 /\ h.bytes[6] = 255
      /\ h.bytes[7] = ACKPACKET
      /\ h.bytes[8] = 0 /\ h.bytes[9] = Len(h.bytes) - 9
      /\ h.bytes[10] # START_HIGH
  BY <1>3, AnswerShape
<1> HIDE DEF h, b, p
<1>10. CASE idx = 0
  <2>1. b.byte = START_HIGH /\ packet = NoPacket
    BY <1>2, <1>7, <1>10 DEF Skipped
  <2>2. CASE h.at = 1
    <3>1. /\ p.of = << b.of >> /\ p.data = << >>
          /\ h.at < Len(h.bytes)
      BY <1>3, <1>4, <1>5, <1>10, <2>1, <2>2, NoPacketIsPacket
    <3>2. /\ idx' >= 1 /\ line' # << >> /\ Head(line').of = packet'.of[1]
          /\ Head(line').at = idx' + 1
      BY <1>4, <1>6, <1>7, <1>10, <2>2, <3>1
    <3>3. Aligned'
      BY <1>7, <1>10, <3>1, <3>2 DEF Aligned
    <3>4. packet'.of # << >>
      BY <1>7, <3>1
    <3> QED BY <3>3, <3>4 DEF Packets
  <2>3. CASE h.at # 1
    <3>1. h.at >= 11
      <4>1. h.bytes[h.at] = START_HIGH /\ START_HIGH = 239 /\ START_LOW = 1 /\ ACKPACKET = 7
        BY <1>4, <2>1 DEF START_HIGH, START_LOW, ACKPACKET
      <4>2. h.at # 2 /\ h.at # 3 /\ h.at # 4 /\ h.at # 5 /\ h.at # 6
        BY <1>9, <4>1
      <4>3. h.at # 7 /\ h.at # 8 /\ h.at # 10
        BY <1>9, <4>1
      <4>4. h.at # 9
        BY <1>3, <1>9, <4>1
      <4> QED BY <1>3, <2>3, <4>2, <4>3, <4>4
    <3>2. p.of = << >>
      BY <1>4, <1>5, <1>10, <2>3
    <3>3. NextAt(line') >= idx' + 11 \/ NextAt(line') <= idx'
      BY <1>3, <1>7, <1>8, <1>10, <3>1
    <3>4. Astray'
      BY <1>7, <1>10, <3>3 DEF Astray
    <3> QED BY <1>7, <3>2, <3>4 DEF Packets
  <2> QED BY <2>2, <2>3
<1>11. CASE idx # 0 /\ packet.of # << >>
  <2>1. /\ h.of = packet.of[1] /\ h.at = idx + 1
        /\ idx >= 7 => packet.type = ACKPACKET
        /\ idx = 8 => packet.length = 0
        /\ idx >= 9 => packet.length = Len(h.bytes) - 9
        /\ \A i \in 1 .. Len(packet.data) :
             packet.data[i].of = packet.of[1] /\ packet.data[i].at = i + 9
    BY <1>11 DEF Packets, Aligned, h
  <2>2. h.at < Len(h.bytes)
    BY <1>2, <1>3, <1>7, <2>1 DEF Complete
  <2>3. packet'.of = packet.of
    BY <1>5, <1>7, <1>11
  <2>4. /\ idx' >= 1 /\ line' # << >> /\ Head(line').of = packet'.of[1]
        /\ Head(line').at = idx' + 1 /\ Head(line').bytes = h.bytes
    BY <1>2, <1>6, <1>7, <2>1, <2>2, <2>3
  <2>5. idx' >= 7 => packet'.type = ACKPACKET
    BY <1>2, <1>4, <1>5, <1>7, <1>9, <2>1
  <2>6. idx' = 8 => packet'.length = 0
    BY <1>2, <1>4, <1>5, <1>7, <1>9, <2>1
  <2>7. idx' >= 9 => packet'.length = Len(h.bytes) - 9
    BY <1>2, <1>3, <1>4, <1>5, <1>7, <1>9, <2>1
  <2>8. ASSUME NEW i \in 1 .. Len(packet'.data)
        PROVE  packet'.data[i].of = packet'.of[1] /\ packet'.data[i].at = i + 9
    <3>1. CASE idx < 9
      BY <1>5, <1>7, <2>1, <2>3, <3>1
    <3>2. CASE idx >= 9
      <4>1. packet.data \in Seq(Mark)
        BY <1>2 DEF IsPacket
      <4>2. /\ Len(Append(packet.data, b)) = Len(packet.data) + 1
            /\ \A j \in 1 .. Len(packet.data) : Append(packet.data, b)[j] = packet.data[j]
            /\ Append(packet.data, b)[Len(packet.data) + 1] = b
        BY <1>4, <4>1, AppendProperties
      <4>3. packet'.data = Append(packet.data, b) /\ Len(packet.data) = idx - 9
        BY <1>2, <1>5, <1>7, <3>2
      <4>4. CASE i = Len(packet.data) + 1
        BY <1>2, <1>4, <2>1, <2>3, <4>2, <4>3, <4>4
      <4>5. CASE i # Len(packet.data) + 1
        <5>1. i \in 1 .. Len(packet.data)
          BY <1>2, <3>2, <4>2, <4>3, <4>5
        <5> QED BY <2>1, <2>3, <4>2, <4>3, <5>1
      <4> QED BY <4>4, <4>5
    <3> QED BY <1>2, <3>1, <3>2
  <2>9. Aligned'
    BY <2>4, <2>5, <2>6, <2>7, <2>8 DEF Aligned
  <2> QED BY <1>11, <2>3, <2>9 DEF Packets
<1>12. CASE idx # 0 /\ packet.of = << >>
  <2>1. idx >= 7 => packet.type # ACKPACKET
    BY <1>2, <1>12 DEF Packets, Astray
  <2>2. idx <= 6 => h.at >= idx + 11 \/ h.at <= idx
    BY <1>2, <1>12 DEF Packets, Astray, NextAt, h
  <2>3. packet'.of = << >>
    BY <1>5, <1>7, <1>12
  <2>4. idx' >= 7 => packet'.type # ACKPACKET
    <3>1. CASE idx = 6
      <4>1. h.at \in 1 .. 6
        BY <1>3, <2>2, <3>1
      <4>2. b.byte # ACKPACKET
        BY <1>4, <1>9, <4>1 DEF START_HIGH, START_LOW, ACKPACKET
      <4> QED BY <1>5, <1>7, <3>1, <4>2
    <3>2. CASE idx # 6
      BY <1>2, <1>5, <1>7, <2>1, <3>2
    <3> QED BY <3>1, <3>2
  <2>5. idx' <= 6 => NextAt(line') >= idx' + 11 \/ NextAt(line') <= idx'
    BY <1>2, <1>3, <1>7, <1>8, <1>12, <2>2
  <2>6. Astray'
    BY <2>4, <2>5 DEF Astray
  <2> QED BY <2>3, <2>6 DEF Packets
<1> QED BY <1>10, <1>11, <1>12

LEMMA PacketsKept ==
  ASSUME TypeInv, dropped = 0 => Packets, Next
  PROVE  (dropped = 0 => Packets)'
<1> SUFFICES ASSUME dropped' = 0 PROVE Packets'
  OBVIOUS
<1>1. /\ pc = "idle" => idx = 0
      /\ idx = 0 => packet = NoPacket
  BY DEF TypeInv, Reading
<1>2. ASSUME NEW command \in Commands, Ask(command)
      PROVE  Packets'
  <2>1. idx' = 0 /\ packet' = NoPacket
    BY <1>1, <1>2 DEF Ask
  <2> QED BY <2>1, NoPacketIsPacket DEF Packets
<1>3. CASE ReadByte
  <2>1. /\ pc = "reading" /\ line # << >> /\ line' = Rest(line)
        /\ UNCHANGED << asked, inbox, lost, dropped, resets >>
        /\ Skips \/ ReturnsError \/ Takes \/ Stores
    BY <1>3, ReadByteCases
  <2>2. CASE Skips
    <3>1. idx' = 0 /\ packet' = NoPacket
      BY <1>1, <2>2 DEF Skips
    <3> QED BY <3>1, NoPacketIsPacket DEF Packets
  <2>3. CASE ReturnsError \/ Takes
    BY <2>3, LeavesPackets DEF ReturnsError, Takes
  <2>4. CASE Stores
    BY <2>1, <2>4, StoresPackets
  <2> QED BY <2>1, <2>2, <2>3, <2>4
<1>4. CASE TimeOut
  BY <1>4, LeavesPackets DEF TimeOut, ReturnsError
<1>5. CASE SensorAnswers
  <2>1. PICK e : line' = Append(line, e) /\ e.at = 1
    <3>1. PICK code \in Codes, match \in Matches :
            line' = Append(line, [of |-> Head(inbox).of, at |-> 1,
                                  bytes |-> Answer(Head(inbox).command, code, match)])
      BY <1>5 DEF SensorAnswers
    <3> QED BY <3>1
  <2>2. line \in Seq(Entry)
    BY DEF TypeInv, Traffic, IsLine
  <2>3. /\ line' # << >>
        /\ Head(line') = IF line = << >> THEN e ELSE Head(line)
    BY <2>1, <2>2
  <2>4. NextAt(line') = NextAt(line)
    BY <2>1, <2>3 DEF NextAt
  <2>5. Packets /\ UNCHANGED << idx, packet >>
    BY <1>5 DEF SensorAnswers
  <2>6. Aligned => Aligned'
    BY <2>3, <2>5 DEF Aligned
  <2>7. Astray => Astray'
    BY <2>4, <2>5 DEF Astray
  <2> QED BY <2>5, <2>6, <2>7 DEF Packets
<1>6. CASE CommandLost
  <2>1. Packets /\ UNCHANGED << idx, packet, line >>
    BY <1>6 DEF CommandLost
  <2> QED BY <2>1 DEF Packets, Aligned, Astray
<1>7. CASE ByteDropped
  <2>1. dropped \in Nat /\ dropped' = dropped + 1
    BY <1>7, LinkAssumption DEF TypeInv, Counters, ByteDropped
  <2> QED BY <2>1
<1>8. CASE Reset
  BY <1>8, LeavesPackets DEF Reset
<1> QED BY <1>2, <1>3, <1>4, <1>5, <1>6, <1>7, <1>8 DEF Next

----------------------------------------------------------------------------
(* The queue. *)

LEMMA SinglePrefix ==
  ASSUME NEW x \in Nat, NEW s \in Seq(Nat)
  PROVE  /\ << x >> \o s \in Seq(Nat) /\ << x >> \o s # << >>
         /\ Head(<< x >> \o s) = x /\ Tail(<< x >> \o s) = s
<1> DEFINE c == << x >> \o s
<1>1. /\ c \in Seq(Nat) /\ Len(c) = 1 + Len(s) /\ c[1] = x
      /\ \A i \in 1 .. Len(s) : c[i + 1] = s[i]
  BY SingleJoined
<1> HIDE DEF c
<1>2. Len(s) \in Nat
  OBVIOUS
<1>3. c # << >> /\ Head(c) = x
  BY <1>1, <1>2
<1>4. /\ Tail(c) \in Seq(Nat) /\ Len(Tail(c)) = Len(c) - 1
      /\ \A i \in 1 .. Len(Tail(c)) : Tail(c)[i] = c[i + 1]
  BY <1>1, <1>3, HeadTailProperties
<1>5. Len(Tail(c)) = Len(s)
  BY <1>1, <1>2, <1>4
<1>6. \A i \in 1 .. Len(s) : Tail(c)[i] = s[i]
  BY <1>1, <1>4, <1>5
<1>7. Tail(c) = s
  BY <1>4, <1>5, <1>6, SeqEqual
<1> QED BY <1>1, <1>3, <1>7 DEF c

LEMMA AppendJoined ==
  ASSUME NEW a \in Seq(Nat), NEW b \in Seq(Nat), NEW x \in Nat
  PROVE  a \o Append(b, x) = Append(a \o b, x)
<1>1. << x >> \in Seq(Nat) /\ a \o b \in Seq(Nat)
  BY Joined
<1>2. Append(b, x) = b \o << x >> /\ Append(a \o b, x) = (a \o b) \o << x >>
  BY <1>1, AppendIsConcat
<1> QED BY <1>1, <1>2, ConcatAssociative

(* Taking an answer out of the middle, and taking answers from the front.   *)
LEMMA RemovedJoined ==
  ASSUME NEW a \in Seq(Nat), NEW b \in Seq(Nat), b # << >>
  PROVE  /\ Len(a) + 1 \in 1 .. Len(a \o b)
         /\ a \o Tail(b) = SubSeq(a \o b, 1, (Len(a) + 1) - 1)
                             \o SubSeq(a \o b, (Len(a) + 1) + 1, Len(a \o b))
<1> DEFINE c == a \o b
<1>1. Len(a) \in Nat /\ Len(b) \in Nat /\ Len(b) >= 1
  OBVIOUS
<1>2. /\ c \in Seq(Nat) /\ Len(c) = Len(a) + Len(b)
      /\ \A i \in 1 .. Len(a) : c[i] = a[i]
      /\ \A i \in 1 .. Len(b) : c[Len(a) + i] = b[i]
  BY Joined
<1> HIDE DEF c
<1>3. SubSeq(c, 1, (Len(a) + 1) - 1) = a
  <2> DEFINE s == SubSeq(c, 1, Len(a))
  <2>1. \A i \in 1 .. Len(a) : c[i] \in Nat
    BY <1>2, ElementOfSeq
  <2>2. /\ s \in Seq(Nat) /\ Len(s) = (IF 1 <= Len(a) THEN Len(a) - 1 + 1 ELSE 0)
        /\ \A i \in 1 .. Len(a) - 1 + 1 : s[i] = c[1 + i - 1]
    BY <1>1, <2>1, SubSeqProperties
  <2> HIDE DEF s
  <2>3. Len(s) = Len(a)
    BY <1>1, <2>2
  <2>4. ASSUME NEW i \in 1 .. Len(s) PROVE s[i] = a[i]
    <3>1. i \in 1 .. Len(a) /\ i \in 1 .. Len(a) - 1 + 1 /\ 1 + i - 1 = i
      BY <1>1, <2>3
    <3> QED BY <3>1, <1>2, <2>2
  <2>5. s = a
    BY <2>2, <2>3, <2>4, SeqEqual
  <2>6. (Len(a) + 1) - 1 = Len(a)
    BY <1>1
  <2> QED BY <2>5, <2>6 DEF s
<1>4. SubSeq(c, (Len(a) + 1) + 1, Len(c)) = Tail(b)
  <2> DEFINE m == (Len(a) + 1) + 1
             s == SubSeq(c, m, Len(c))
             t == Tail(b)
  <2>1. m \in Int /\ m >= 1 /\ m = Len(a) + 2 /\ Len(c) \in Int
    BY <1>1, <1>2
  <2>2. /\ t \in Seq(Nat) /\ Len(t) = Len(b) - 1
        /\ \A i \in 1 .. Len(t) : t[i] = b[i + 1]
    BY HeadTailProperties
  <2> HIDE DEF m, t
  <2>3. \A i \in m .. Len(c) : c[i] \in Nat
    BY <1>2, <2>1, ElementOfSeq
  <2>4. /\ s \in Seq(Nat) /\ Len(s) = (IF m <= Len(c) THEN Len(c) - m + 1 ELSE 0)
        /\ \A i \in 1 .. Len(c) - m + 1 : s[i] = c[m + i - 1]
    BY <2>1, <2>3, SubSeqProperties
  <2> HIDE DEF s
  <2>5. Len(s) = Len(t)
    BY <1>1, <1>2, <2>1, <2>2, <2>4
  <2>6. ASSUME NEW i \in 1 .. Len(s) PROVE s[i] = t[i]
    <3>1. /\ i \in 1 .. Len(t) /\ i \in 1 .. Len(c) - m + 1
          /\ i + 1 \in 1 .. Len(b) /\ m + i - 1 = Len(a) + (i + 1)
      BY <1>1, <1>2, <2>1, <2>2, <2>5
    <3>2. s[i] = c[Len(a) + (i + 1)]
      BY <2>4, <3>1
    <3>3. c[Len(a) + (i + 1)] = b[i + 1]
      BY <1>2, <3>1
    <3> QED BY <2>2, <3>1, <3>2, <3>3
  <2>7. s = t
    BY <2>2, <2>4, <2>5, <2>6, SeqEqual
  <2> QED BY <2>7 DEF s, m, t
<1>5. Len(a) + 1 \in 1 .. Len(c)
  BY <1>1, <1>2
<1> QED BY <1>3, <1>4, <1>5 DEF c

LEMMA SuffixJoined ==
  ASSUME NEW a \in Seq(Nat), NEW b \in Seq(Nat), NEW k \in 1 .. Len(a) + 1
  PROVE  /\ k - 1 \in 0 .. Len(a \o b)
         /\ SubSeq(a, k, Len(a)) \o b = SubSeq(a \o b, (k - 1) + 1, Len(a \o b))
<1> DEFINE c == a \o b
           s == SubSeq(a, k, Len(a))
           d == s \o b
           m == (k - 1) + 1
           e == SubSeq(c, m, Len(c))
<1>1. Len(a) \in Nat /\ Len(b) \in Nat /\ k \in Int /\ k >= 1 /\ k <= Len(a) + 1
  OBVIOUS
<1>2. /\ c \in Seq(Nat) /\ Len(c) = Len(a) + Len(b)
      /\ \A i \in 1 .. Len(a) : c[i] = a[i]
      /\ \A i \in 1 .. Len(b) : c[Len(a) + i] = b[i]
  BY Joined
<1> HIDE DEF c
<1>3. /\ s \in Seq(Nat) /\ Len(s) = (IF k <= Len(a) THEN Len(a) - k + 1 ELSE 0)
      /\ \A i \in 1 .. Len(a) - k + 1 : s[i] = a[k + i - 1]
  <2>1. \A i \in k .. Len(a) : a[i] \in Nat
    BY <1>1, ElementOfSeq
  <2> QED BY <1>1, <2>1, SubSeqProperties
<1> HIDE DEF s
<1>4. Len(s) = Len(a) - k + 1
  BY <1>1, <1>3
<1>5. /\ d \in Seq(Nat) /\ Len(d) = Len(s) + Len(b)
      /\ \A i \in 1 .. Len(s) : d[i] = s[i]
      /\ \A i \in 1 .. Len(b) : d[Len(s) + i] = b[i]
  <2>1. s \in Seq(Nat)
    BY <1>3
  <2> QED BY <2>1, Joined
<1> HIDE DEF d
<1>6. m = k /\ m \in Int
  BY <1>1
<1> HIDE DEF m
<1>7. /\ e \in Seq(Nat) /\ Len(e) = (IF m <= Len(c) THEN Len(c) - m + 1 ELSE 0)
      /\ \A i \in 1 .. Len(c) - m + 1 : e[i] = c[m + i - 1]
  <2>1. Len(c) \in Int
    BY <1>1, <1>2
  <2>2. \A i \in m .. Len(c) : c[i] \in Nat
    BY <1>1, <1>2, <1>6, ElementOfSeq
  <2> QED BY <1>6, <2>1, <2>2, SubSeqProperties
<1> HIDE DEF e
<1>8. Len(d) = Len(e)
  BY <1>1, <1>2, <1>4, <1>5, <1>6, <1>7
<1>9. ASSUME NEW i \in 1 .. Len(d) PROVE d[i] = e[i]
  <2>1. i \in Nat /\ i >= 1 /\ i <= Len(a) - k + 1 + Len(b)
    BY <1>1, <1>4, <1>5
  <2>2. i \in 1 .. Len(c) - m + 1 /\ m + i - 1 = k + i - 1
    BY <1>1, <1>2, <1>6, <2>1
  <2>3. e[i] = c[k + i - 1]
    BY <1>7, <2>2
  <2>4. CASE i <= Len(s)
    <3>1. i \in 1 .. Len(s) /\ i \in 1 .. Len(a) - k + 1 /\ k + i - 1 \in 1 .. Len(a)
      BY <1>1, <1>4, <2>1, <2>4
    <3> QED BY <1>2, <1>3, <1>5, <2>3, <3>1
  <2>5. CASE ~ (i <= Len(s))
    <3> DEFINE j == i - Len(s)
    <3>1. j \in 1 .. Len(b) /\ Len(s) + j = i /\ k + i - 1 = Len(a) + j
      BY <1>1, <1>4, <2>1, <2>5
    <3> HIDE DEF j
    <3>2. d[Len(s) + j] = b[j] /\ c[Len(a) + j] = b[j]
      BY <1>2, <1>5, <3>1
    <3> QED BY <2>3, <3>1, <3>2
  <2> QED BY <2>4, <2>5
<1>10. d = e
  BY <1>5, <1>7, <1>8, <1>9, SeqEqual
<1>11. k - 1 \in 0 .. Len(c)
  BY <1>1, <1>2
<1> QED BY <1>10, <1>11 DEF c, d, s, e, m

LEMMA HeadAndTail ==
  ASSUME NEW s \in Seq(Nat), s # << >>
  PROVE  << Head(s) >> \o Tail(s) = s
<1> DEFINE x == Head(s)
           t == Tail(s)
           c == << x >> \o t
<1>1. /\ x \in Nat /\ x = s[1] /\ t \in Seq(Nat) /\ Len(t) = Len(s) - 1
      /\ \A i \in 1 .. Len(t) : t[i] = s[i + 1]
      /\ Len(s) \in Nat
  BY HeadTailProperties
<1> HIDE DEF x, t
<1>2. /\ c \in Seq(Nat) /\ Len(c) = 1 + Len(t) /\ c[1] = x
      /\ \A i \in 1 .. Len(t) : c[i + 1] = t[i]
  BY <1>1, SingleJoined
<1> HIDE DEF c
<1>3. Len(c) = Len(s)
  BY <1>1, <1>2
<1>4. ASSUME NEW i \in 1 .. Len(c) PROVE c[i] = s[i]
  <2>1. CASE i = 1
    BY <2>1, <1>1, <1>2
  <2>2. CASE i # 1
    <3>1. i - 1 \in 1 .. Len(t) /\ (i - 1) + 1 = i
      BY <1>1, <1>3, <2>2
    <3> QED BY <1>1, <1>2, <3>1
  <2> QED BY <2>1, <2>2
<1> QED BY <1>2, <1>3, <1>4, SeqEqual DEF c, x, t

LEMMA FirstRemoved ==
  ASSUME NEW s \in Seq(Nat), s # << >>
  PROVE  /\ 1 \in DOMAIN s
         /\ Tail(s) = SubSeq(s, 1, 1 - 1) \o SubSeq(s, 1 + 1, Len(s))
<1>1. Len(s) \in Nat /\ 1 \in DOMAIN s
  OBVIOUS
<1>2. Tail(s) = SubSeq(s, 2, Len(s)) /\ Tail(s) \in Seq(Nat)
  BY TailIsSubSeq, HeadTailProperties
<1>3. 1 - 1 = 0 /\ 1 + 1 = 2
  OBVIOUS
<1>4. SubSeq(s, 1, 0) = << >>
  BY SubSeqEmpty
<1>5. << >> \o Tail(s) = Tail(s)
  BY <1>2, ConcatEmptySeq
<1> QED BY <1>1, <1>2, <1>3, <1>4, <1>5

LEMMA SuffixAfter ==
  ASSUME NEW p \in Seq(Nat), NEW c \in Seq(Nat), NEW i \in 1 .. Len(c) + 1
  PROVE  \E k \in 0 .. Len(p \o c) :
           SubSeq(c, i, Len(c)) = SubSeq(p \o c, k + 1, Len(p \o c))
<1> DEFINE d == p \o c
           k == Len(p) + i - 1
           m == k + 1
           s == SubSeq(c, i, Len(c))
           t == SubSeq(d, m, Len(d))
<1>1. Len(p) \in Nat /\ Len(c) \in Nat /\ i \in Int /\ i >= 1 /\ i <= Len(c) + 1
  OBVIOUS
<1>2. /\ d \in Seq(Nat) /\ Len(d) = Len(p) + Len(c)
      /\ \A j \in 1 .. Len(c) : d[Len(p) + j] = c[j]
  BY Joined
<1> HIDE DEF d
<1>3. k \in 0 .. Len(d) /\ m \in Int /\ m = Len(p) + i /\ m >= 1
  BY <1>1, <1>2
<1>4. /\ s \in Seq(Nat) /\ Len(s) = (IF i <= Len(c) THEN Len(c) - i + 1 ELSE 0)
      /\ \A j \in 1 .. Len(c) - i + 1 : s[j] = c[i + j - 1]
  <2>1. \A j \in i .. Len(c) : c[j] \in Nat
    BY <1>1, ElementOfSeq
  <2> QED BY <1>1, <2>1, SubSeqProperties
<1> HIDE DEF s, m
<1>5. /\ t \in Seq(Nat) /\ Len(t) = (IF m <= Len(d) THEN Len(d) - m + 1 ELSE 0)
      /\ \A j \in 1 .. Len(d) - m + 1 : t[j] = d[m + j - 1]
  <2>1. Len(d) \in Int /\ m \in Int
    BY <1>1, <1>2, <1>3
  <2>2. \A j \in m .. Len(d) : d[j] \in Nat
    BY <1>2, <1>3, ElementOfSeq
  <2> QED BY <2>1, <2>2, SubSeqProperties
<1> HIDE DEF t
<1>6. Len(s) = Len(t)
  BY <1>1, <1>2, <1>3, <1>4, <1>5
<1>7. ASSUME NEW j \in 1 .. Len(s) PROVE s[j] = t[j]
  <2>1. /\ j \in 1 .. Len(c) - i + 1 /\ j \in 1 .. Len(d) - m + 1
        /\ i + j - 1 \in 1 .. Len(c) /\ m + j - 1 = Len(p) + (i + j - 1)
    BY <1>1, <1>2, <1>3, <1>4
  <2>2. s[j] = c[i + j - 1] /\ t[j] = d[Len(p) + (i + j - 1)]
    BY <1>4, <1>5, <2>1
  <2>3. d[Len(p) + (i + j - 1)] = c[i + j - 1]
    BY <1>2, <2>1
  <2> QED BY <2>2, <2>3
<1>8. s = t
  BY <1>4, <1>5, <1>6, <1>7, SeqEqual
<1> HIDE DEF k
<1>9. s = SubSeq(d, k + 1, Len(d))
  BY <1>8 DEF t, m
<1> QED BY <1>3, <1>9 DEF s, d

LEMMA Numbered ==
  ASSUME TypeInv
  PROVE  /\ \A e \in Entry : e.of \in Nat
         /\ \A e \in Wanted : e.of \in Nat
         /\ inbox \in Seq(Wanted) /\ Numbers(inbox) \in Seq(Nat)
         /\ Whole(line) \in Seq(Entry) /\ Numbers(Whole(line)) \in Seq(Nat)
         /\ Coming \in Seq(Nat)
<1>1. (\A e \in Entry : e.of \in Nat) /\ (\A e \in Wanted : e.of \in Nat)
  BY DEF Entry, Wanted
<1>2. inbox \in Seq(Wanted) /\ IsLine(line)
  BY DEF TypeInv, Traffic
<1>3. Whole(line) \in Seq(Entry)
  <2>1. line \in Seq(Entry)
    BY <1>2 DEF IsLine
  <2>2. line # << >> => Tail(line) \in Seq(Entry)
    BY <2>1, HeadTailProperties
  <2> QED BY <2>1, <2>2 DEF Whole
<1>4. Numbers(inbox) \in Seq(Nat) /\ Numbers(Whole(line)) \in Seq(Nat)
  BY <1>1, <1>2, <1>3, NumbersSeq
<1>5. Coming \in Seq(Nat)
  BY <1>4, Joined DEF Coming
<1> QED BY <1>1, <1>2, <1>3, <1>4, <1>5

LEMMA DueCases ==
  ASSUME TypeInv
  PROVE  /\ packet.of = << >> => Due = Coming
         /\ packet.of # << >> =>
              /\ Due # << >> /\ Tail(Due) = Coming /\ Head(Due) = packet.of[1]
<1>1. Coming \in Seq(Nat)
  BY Numbered
<1>2. packet.of = << >> => Due = Coming
  BY <1>1, ConcatEmptySeq DEF Due
<1>3. ASSUME packet.of # << >>
      PROVE  Due # << >> /\ Tail(Due) = Coming /\ Head(Due) = packet.of[1]
  <2>1. PICK m \in Nat : packet.of = << m >>
    BY <1>3 DEF TypeInv, Reading, IsPacket
  <2>2. Due = << m >> \o Coming /\ packet.of[1] = m
    BY <2>1 DEF Due
  <2> HIDE <2>1
  <2> QED BY <1>1, <2>2, SinglePrefix
<1> QED BY <1>2, <1>3

(* A byte that is read takes the answer it belongs to out of those that     *)
(* may come from their beginning.                                           *)
LEMMA ReadComing ==
  ASSUME TypeInv, line # << >>, line' = Rest(line), inbox' = inbox
  PROVE  /\ Head(line).at # 1 => Coming' = Coming
         /\ Head(line).at = 1 =>
              /\ Coming # << >>
              /\ Head(Coming) = Head(line).of /\ Coming' = Tail(Coming)
<1>1. IsLine(line) /\ line \in Seq(Entry)
  BY DEF TypeInv, Traffic, IsLine
<1>2. Whole(line') = Tail(line)
  BY <1>1, LineRest
<1>3. Coming' = Numbers(Tail(line)) \o Numbers(inbox)
  BY <1>2 DEF Coming
<1>4. Head(line).at >= 1 /\ Head(line).at \in Int
  BY <1>1, LineHead
<1>5. CASE Head(line).at # 1
  <2>1. Whole(line) = Tail(line)
    BY <1>4, <1>5 DEF Whole
  <2>2. Coming = Numbers(Tail(line)) \o Numbers(inbox)
    BY <2>1 DEF Coming
  <2> QED BY <1>3, <1>5, <2>2
<1>6. CASE Head(line).at = 1
  <2> DEFINE x == Head(line).of
             t == Numbers(Tail(line))
             n == Numbers(inbox)
  <2>1. Whole(line) = line
    BY <1>6 DEF Whole
  <2>2. x \in Nat /\ Numbers(line) = << x >> \o t
    BY <1>1, Numbered, NumbersHead
  <2>3. t \in Seq(Nat) /\ n \in Seq(Nat)
    <3>1. Tail(line) \in Seq(Entry)
      BY <1>1, HeadTailProperties
    <3> QED BY <3>1, Numbered, NumbersSeq
  <2>4. Coming = (<< x >> \o t) \o n /\ Coming' = t \o n
    BY <1>3, <2>1, <2>2 DEF Coming
  <2> HIDE DEF x, t, n
  <2>5. << x >> \in Seq(Nat) /\ t \o n \in Seq(Nat)
    BY <2>2, <2>3, Joined
  <2>6. Coming = << x >> \o (t \o n)
    BY <2>3, <2>4, <2>5, ConcatAssociative
  <2>7. Coming # << >> /\ Head(Coming) = x /\ Tail(Coming) = t \o n
    BY <2>2, <2>5, <2>6, SinglePrefix
  <2> QED BY <1>6, <2>4, <2>7 DEF x
<1> QED BY <1>5, <1>6

----------------------------------------------------------------------------
(* The refinement. *)

LEMMA NoReply ==
  /\ NoPacket.of = << >>
  /\ ~ Intact(NoPacket)
BY DEF NoPacket, Intact

(* A command that returns an error, whatever it has read.                   *)
LEMMA Failing ==
  ASSUME pc = "reading", ReturnsError, asked' = asked, dropped' = dropped,
         Due' = Due \/ (Due # << >> /\ Due' = Tail(Due))
  PROVE  Queue!Next
<1>1. /\ reply' = NoPacket /\ pc' # "reading" /\ failures' = failures + 1
  BY DEF ReturnsError, Leaves
<1>2. (IF Intact(reply) THEN reply.of[1] ELSE 0)' = Queue!NoAnswer
  BY <1>1, NoReply DEF Queue!NoAnswer
<1>3. Queue!Fail
  BY <1>1, <1>2 DEF Queue!Fail
<1> QED BY <1>3 DEF Queue!Next

(* A byte is read. *)
LEMMA ReadByteRefines ==
  ASSUME TypeInv, Packets, ReadByte
  PROVE  [Queue!Next]_Queue!vars
<1>1. /\ pc = "reading" /\ line # << >> /\ line' = Rest(line)
      /\ UNCHANGED << asked, inbox, lost, dropped, resets >>
      /\ Skips \/ ReturnsError \/ Takes \/ Stores
  BY ReadByteCases
<1>2. /\ IsPacket(packet) /\ idx \in Nat
      /\ Len(packet.data) = (IF idx < 9 THEN 0 ELSE idx - 9)
      /\ idx = 0 => packet = NoPacket
      /\ reply = NoPacket
  BY <1>1 DEF TypeInv, Reading
<1>3. /\ Head(line).at # 1 => Coming' = Coming
      /\ Head(line).at = 1 =>
           /\ Coming # << >>
           /\ Head(Coming) = Head(line).of /\ Coming' = Tail(Coming)
  BY <1>1, ReadComing
<1>4. /\ packet.of = << >> => Due = Coming
      /\ packet.of # << >> =>
           /\ Due # << >> /\ Tail(Due) = Coming /\ Head(Due) = packet.of[1]
  BY DueCases
<1>5. packet.of # << >> => idx >= 1 /\ Head(line).at = idx + 1 /\ Head(line).at # 1
  BY <1>2 DEF Packets, Aligned
<1>6. NextByte \in Mark /\ NextByte.of = Head(line).of /\ NextByte.at = Head(line).at
  BY <1>1, NextByteFacts DEF TypeInv, Traffic
<1>7. Coming \in Seq(Nat) /\ Coming' \in Seq(Nat)
  <2>1. Coming \in Seq(Nat)
    BY Numbered
  <2> QED BY <1>3, <2>1, HeadTailProperties
<1>8. packet'.of = << >> => Due' = Coming'
  BY <1>7, ConcatEmptySeq DEF Due
<1>13. LET p == Stored(NextByte)
       IN  /\ idx = 0 => p.of = IF NextByte.at = 1 THEN << NextByte.of >> ELSE << >>
           /\ idx # 0 => p.of = packet.of
           /\ idx # 6 => p.type = packet.type
           /\ idx >= 9 => p.data = Append(packet.data, NextByte)
  BY <1>2, <1>6, StoredShape
<1>9. CASE Skips
  <2>1. /\ idx = 0 /\ packet' = packet /\ packet = NoPacket
        /\ UNCHANGED << pc, reply, failures >>
    BY <1>2, <1>9 DEF Skips
  <2>2. packet.of = << >> /\ packet'.of = << >>
    BY <2>1, NoReply
  <2>3. Due = Coming /\ Due' = Coming'
    BY <1>4, <1>8, <2>2
  <2>4. CASE Head(line).at # 1
    BY <1>1, <1>3, <2>1, <2>3, <2>4 DEF Queue!vars
  <2>5. CASE Head(line).at = 1
    <3>1. NextByte.byte = START_HIGH
      <4>1. IsLine(line)
        BY DEF TypeInv, Traffic
      <4>2. Head(line).bytes \in AllAnswers /\ NextByte.byte = Head(line).bytes[1]
        BY <1>1, <2>5, <4>1, LineHead, NextByteFacts
      <4> QED BY <4>2, AnswerShape
    <3> QED BY <1>9, <3>1 DEF Skips, Skipped
  <2> QED BY <2>4, <2>5
<1>10. CASE ReturnsError
  <2>1. packet'.of = << >>
    BY <1>10, NoReply DEF ReturnsError, Leaves
  <2>2. Due' = Due \/ (Due # << >> /\ Due' = Tail(Due))
    BY <1>3, <1>4, <1>5, <1>8, <2>1
  <2>3. Queue!Next
    BY <1>1, <1>10, <2>2, Failing
  <2> QED BY <2>3
<1>11. CASE Takes
  <2> DEFINE p == Stored(NextByte)
  <2>1. /\ Complete /\ p.type = ACKPACKET /\ reply' = p
        /\ failures' = failures /\ pc' # "reading" /\ packet'.of = << >>
    BY <1>11, NoReply DEF Takes, Leaves
  <2>2. idx >= 9
    BY <2>1 DEF Complete
  <2>3. /\ p.of = packet.of /\ p.type = packet.type
        /\ p.data = Append(packet.data, NextByte)
    BY <1>2, <1>13, <2>2
  <2> HIDE DEF p
  <2>4. packet.of # << >>
    BY <1>2, <2>1, <2>2, <2>3 DEF Packets, Astray
  <2>5. /\ Head(line).of = packet.of[1] /\ Head(line).at = idx + 1
        /\ \A i \in 1 .. Len(packet.data) :
             packet.data[i].of = packet.of[1] /\ packet.data[i].at = i + 9
    BY <2>4 DEF Packets, Aligned
  <2>6. Intact(p)
    <3>1. packet.data \in Seq(Mark) /\ Len(packet.data) = idx - 9
      BY <1>2, <2>2 DEF IsPacket
    <3>2. /\ Len(p.data) = Len(packet.data) + 1
          /\ \A i \in 1 .. Len(packet.data) : p.data[i] = packet.data[i]
          /\ p.data[Len(packet.data) + 1] = NextByte
      BY <1>6, <2>3, <3>1, AppendProperties
    <3>3. ASSUME NEW i \in 1 .. Len(p.data)
          PROVE  p.data[i].of = p.of[1] /\ p.data[i].at = i + 9
      <4>1. CASE i = Len(packet.data) + 1
        BY <1>2, <1>6, <2>3, <2>5, <3>1, <3>2, <4>1
      <4>2. CASE i # Len(packet.data) + 1
        <5>1. i \in 1 .. Len(packet.data)
          BY <1>2, <2>2, <3>1, <3>2, <4>2
        <5> QED BY <2>3, <2>5, <3>2, <5>1
      <4> QED BY <4>1, <4>2
    <3> QED BY <2>3, <2>4, <3>3 DEF Intact
  <2>7. (IF Intact(reply) THEN reply.of[1] ELSE 0)' = Head(Due)
    <3>1. Intact(reply)' /\ reply'.of[1] = packet.of[1]
      BY <2>1, <2>3, <2>6
    <3> QED BY <3>1, <1>4, <2>4
  <2>8. Due # << >> /\ Due' = Tail(Due)
    BY <1>3, <1>4, <1>5, <1>8, <2>1, <2>4
  <2>9. Queue!Take
    BY <1>1, <2>1, <2>7, <2>8 DEF Queue!Take
  <2> QED BY <1>1, <2>9 DEF Queue!Next
<1>12. CASE Stores
  <2>1. UNCHANGED << pc, reply, failures >> /\ packet' = Stored(NextByte)
    BY <1>12 DEF Stores
  <2>2. CASE packet.of # << >>
    <3>1. packet'.of = packet.of /\ Coming' = Coming
      BY <1>2, <1>3, <1>5, <1>13, <2>1, <2>2
    <3>2. Due' = Due
      BY <3>1 DEF Due
    <3> QED BY <1>1, <2>1, <3>2 DEF Queue!vars
  <2>3. CASE packet.of = << >> /\ Head(line).at # 1
    <3>1. packet'.of = << >>
      BY <1>2, <1>6, <1>13, <2>1, <2>3
    <3>2. Due' = Due
      BY <1>3, <1>4, <1>8, <2>3, <3>1
    <3> QED BY <1>1, <2>1, <3>2 DEF Queue!vars
  <2>4. CASE packet.of = << >> /\ Head(line).at = 1 /\ idx = 0
    <3>1. packet'.of = << Head(line).of >>
      BY <1>2, <1>6, <1>13, <2>1, <2>4
    <3>2. Due = Coming /\ Due' = << Head(Coming) >> \o Tail(Coming) /\ Coming # << >>
      BY <1>3, <1>4, <2>4, <3>1 DEF Due
    <3>3. << Head(Coming) >> \o Tail(Coming) = Coming
      BY <1>7, <3>2, HeadAndTail
    <3>4. Due' = Due
      BY <3>2, <3>3
    <3> QED BY <1>1, <2>1, <3>4 DEF Queue!vars
  <2>5. CASE packet.of = << >> /\ Head(line).at = 1 /\ idx # 0
    <3>1. packet'.of = << >>
      BY <1>2, <1>6, <1>13, <2>1, <2>5
    <3>2. Due = Coming /\ Due # << >> /\ Due' = Tail(Due)
      BY <1>3, <1>4, <1>8, <2>5, <3>1
    <3>3. /\ 1 \in DOMAIN Due
          /\ Due' = SubSeq(Due, 1, 1 - 1) \o SubSeq(Due, 1 + 1, Len(Due))
      BY <1>7, <3>2, FirstRemoved
    <3>4. Queue!Lose
      BY <1>1, <2>1, <3>3 DEF Queue!Lose
    <3> QED BY <1>1, <3>4 DEF Queue!Next
  <2> QED BY <2>2, <2>3, <2>4, <2>5
<1> QED BY <1>1, <1>9, <1>10, <1>11, <1>12

LEMMA AskRefines ==
  ASSUME TypeInv, NEW command \in Commands, Ask(command)
  PROVE  [Queue!Next]_Queue!vars
<1>1. /\ pc = "idle" /\ pc' = "reading" /\ asked' = asked + 1
      /\ reply' = NoPacket /\ asked \in Nat
      /\ inbox' = Append(inbox, [of |-> asked + 1, command |-> command])
      /\ UNCHANGED << line, packet, failures, dropped >>
  BY DEF Ask, TypeInv, Counters
<1>2. Numbers(inbox') = Append(Numbers(inbox), asked + 1)
  <2> DEFINE e == [of |-> asked + 1, command |-> command]
  <2>1. e \in Wanted /\ e.of = asked + 1
    BY <1>1 DEF Wanted
  <2> HIDE DEF e
  <2>2. Numbers(Append(inbox, e)) = Append(Numbers(inbox), e.of)
    BY <2>1, Numbered, NumbersAppend
  <2>3. inbox' = Append(inbox, e)
    BY <1>1 DEF e
  <2> QED BY <2>1, <2>2, <2>3
<1>3. Coming' = Append(Coming, asked + 1)
  <2>1. Numbers(Whole(line)) \in Seq(Nat) /\ Numbers(inbox) \in Seq(Nat) /\ asked + 1 \in Nat
    BY <1>1, Numbered
  <2>2. Coming' = Numbers(Whole(line)) \o Append(Numbers(inbox), asked + 1)
    BY <1>1, <1>2 DEF Coming
  <2> QED BY <2>1, <2>2, AppendJoined DEF Coming
<1>4. packet.of = << >> /\ packet'.of = << >>
  BY <1>1, NoReply DEF TypeInv, Reading
<1>5. Due' = Append(Due, asked + 1)
  <2>1. Coming \in Seq(Nat) /\ asked + 1 \in Nat
    BY <1>1, Numbered
  <2>2. Coming' \in Seq(Nat)
    BY <1>3, <2>1, AppendProperties
  <2>3. Due' = Coming'
    BY <1>4, <2>2, ConcatEmptySeq DEF Due
  <2>4. Due = Coming
    BY <1>4, DueCases
  <2> QED BY <1>3, <2>3, <2>4
<1>6. (IF Intact(reply) THEN reply.of[1] ELSE 0)' = Queue!NoAnswer
  BY <1>1, NoReply DEF Queue!NoAnswer
<1>7. Queue!Ask
  BY <1>1, <1>5, <1>6 DEF Queue!Ask
<1> QED BY <1>1, <1>7 DEF Queue!Next

LEMMA TimeOutRefines ==
  ASSUME TypeInv, TimeOut
  PROVE  [Queue!Next]_Queue!vars
<1>1. /\ pc = "reading" /\ ReturnsError
      /\ UNCHANGED << asked, inbox, line, dropped >>
  BY DEF TimeOut
<1>2. packet'.of = << >> /\ Coming' = Coming
  BY <1>1, NoReply DEF ReturnsError, Leaves, Coming
<1>3. Due' = Coming
  BY <1>2, Numbered, ConcatEmptySeq DEF Due
<1>4. Due' = Due \/ (Due # << >> /\ Due' = Tail(Due))
  BY <1>3, DueCases
<1> QED BY <1>1, <1>4, Failing

LEMMA SensorAnswersRefines ==
  ASSUME TypeInv, SensorAnswers
  PROVE  [Queue!Next]_Queue!vars
<1>1. /\ inbox # << >> /\ inbox' = Tail(inbox)
      /\ UNCHANGED << asked, pc, packet, reply, failures, dropped >>
  BY DEF SensorAnswers
<1>2. PICK e \in Entry : /\ line' = Append(line, e)
                         /\ e.at = 1 /\ e.of = Head(inbox).of
  <2>1. PICK code \in Codes, match \in Matches :
          line' = Append(line, [of |-> Head(inbox).of, at |-> 1,
                                bytes |-> Answer(Head(inbox).command, code, match)])
    BY DEF SensorAnswers
  <2>2. Head(inbox) \in Wanted
    BY <1>1, HeadTailProperties DEF TypeInv, Traffic
  <2>3. Head(inbox).of \in Nat /\ Head(inbox).command \in Commands
    BY <2>2 DEF Wanted
  <2>4. Answer(Head(inbox).command, code, match) \in AllAnswers
    BY <2>3 DEF AllAnswers
  <2>5. [of |-> Head(inbox).of, at |-> 1,
         bytes |-> Answer(Head(inbox).command, code, match)] \in Entry
    BY <2>3, <2>4 DEF Entry
  <2> QED BY <2>1, <2>5
<1>3. /\ line \in Seq(Entry) /\ Whole(line) \in Seq(Entry)
  BY Numbered DEF TypeInv, Traffic, IsLine
<1>4. Whole(line') = Append(Whole(line), e)
  <2>1. /\ line' # << >>
        /\ Head(line') = IF line = << >> THEN e ELSE Head(line)
        /\ Tail(line') = IF line = << >> THEN << >> ELSE Append(Tail(line), e)
    BY <1>2, <1>3, HeadTailAppend
  <2> QED BY <1>2, <2>1 DEF Whole
<1> DEFINE w == Numbers(Whole(line))
           x == Head(inbox).of
           t == Numbers(Tail(inbox))
<1>5. Numbers(Whole(line')) = Append(w, x)
  BY <1>2, <1>3, <1>4, Numbered, NumbersAppend
<1>6. x \in Nat /\ Numbers(inbox) = << x >> \o t
  BY <1>1, Numbered, NumbersHead
<1>7. w \in Seq(Nat) /\ t \in Seq(Nat)
  <2>1. Tail(inbox) \in Seq(Wanted)
    BY <1>1, Numbered, HeadTailProperties
  <2> QED BY <2>1, Numbered, NumbersSeq
<1>8. Coming = w \o (<< x >> \o t) /\ Coming' = Append(w, x) \o t
  BY <1>1, <1>5, <1>6 DEF Coming
<1> HIDE DEF w, x, t
<1>9. Append(w, x) = w \o << x >> /\ << x >> \in Seq(Nat)
  BY <1>6, <1>7, AppendIsConcat
<1>10. Coming' = Coming
  BY <1>7, <1>8, <1>9, ConcatAssociative
<1>11. Due' = Due
  BY <1>1, <1>10 DEF Due
<1> QED BY <1>1, <1>11 DEF Queue!vars

LEMMA CommandLostRefines ==
  ASSUME TypeInv, CommandLost
  PROVE  [Queue!Next]_Queue!vars
<1>1. /\ inbox # << >> /\ inbox' = Tail(inbox)
      /\ UNCHANGED << asked, pc, line, packet, reply, failures, dropped >>
  BY DEF CommandLost
<1> DEFINE p == packet.of
           w == Numbers(Whole(line))
           n == Numbers(inbox)
           q == p \o w
           k == Len(q) + 1
<1>2. p \in Seq(Nat)
  <2>1. packet.of = << >> \/ \E m \in Nat : packet.of = << m >>
    BY DEF TypeInv, Reading, IsPacket
  <2>2. << >> \in Seq(Nat) /\ \A m \in Nat : << m >> \in Seq(Nat)
    BY EmptySeq
  <2> QED BY <2>1, <2>2
<1>3. w \in Seq(Nat) /\ n \in Seq(Nat)
  BY Numbered
<1>4. n # << >> /\ Numbers(Tail(inbox)) = Tail(n)
  <2>1. Head(inbox).of \in Nat /\ n = << Head(inbox).of >> \o Numbers(Tail(inbox))
    BY <1>1, Numbered, NumbersHead
  <2>2. Numbers(Tail(inbox)) \in Seq(Nat)
    <3>1. Tail(inbox) \in Seq(Wanted)
      BY <1>1, Numbered, HeadTailProperties
    <3> QED BY <3>1, Numbered, NumbersSeq
  <2> HIDE DEF n
  <2> QED BY <2>1, <2>2, SinglePrefix
<1>5. Tail(n) \in Seq(Nat)
  BY <1>3, <1>4, HeadTailProperties
<1>6. Due = p \o (w \o n) /\ Due' = p \o (w \o Tail(n))
  BY <1>1, <1>4 DEF Due, Coming
<1> HIDE DEF p, w, n
<1>7. q \in Seq(Nat)
  BY <1>2, <1>3, Joined
<1>8. Due = q \o n /\ Due' = q \o Tail(n)
  <2>1. (p \o w) \o n = p \o (w \o n)
    BY <1>2, <1>3, ConcatAssociative
  <2>2. (p \o w) \o Tail(n) = p \o (w \o Tail(n))
    BY <1>2, <1>3, <1>5, ConcatAssociative
  <2> QED BY <1>6, <2>1, <2>2
<1> HIDE DEF q
<1>9. /\ k \in 1 .. Len(Due)
      /\ Due' = SubSeq(Due, 1, k - 1) \o SubSeq(Due, k + 1, Len(Due))
  BY <1>3, <1>4, <1>7, <1>8, RemovedJoined
<1>10. DOMAIN Due = 1 .. Len(Due)
  <2>1. Due \in Seq(Nat)
    BY <1>3, <1>7, <1>8, Joined
  <2> QED BY <2>1
<1> HIDE DEF k
<1>11. \E i \in DOMAIN Due :
         Due' = SubSeq(Due, 1, i - 1) \o SubSeq(Due, i + 1, Len(Due))
  BY <1>9, <1>10
<1>12. Queue!Lose
  BY <1>1, <1>11 DEF Queue!Lose
<1> QED BY <1>1, <1>12 DEF Queue!Next

LEMMA ResetRefines ==
  ASSUME TypeInv, Reset
  PROVE  [Queue!Next]_Queue!vars
<1>1. /\ UNCHANGED << asked, inbox, dropped >>
      /\ pc' # "reading" /\ packet'.of = << >> /\ reply' = NoPacket
      /\ failures' = IF pc = "reading" THEN failures + 1 ELSE failures
      /\ failures \in Nat
  BY NoReply DEF Reset, Leaves, TypeInv, Counters
<1>2. IsLine(line) /\ line \in Seq(Entry) /\ Len(line) \in Nat
  BY DEF TypeInv, Traffic, IsLine
<1> DEFINE w == Whole(line)
           n == Numbers(inbox)
<1>3. w \in Seq(Entry) /\ Numbers(w) \in Seq(Nat) /\ n \in Seq(Nat)
  BY Numbered
<1>4. PICK j \in 1 .. Len(Numbers(w)) + 1 :
        Numbers(Whole(line')) = SubSeq(Numbers(w), j, Len(Numbers(w)))
  <2>1. Len(Numbers(w)) \in Nat /\ Len(Numbers(w)) = Len(w)
    <3>1. w \in Seq(Entry) /\ \A e \in Entry : e.of \in Nat
      BY <1>3, Numbered
    <3> HIDE DEF w
    <3>2. Len(Numbers(w)) = Len(w)
      BY <3>1, NumbersSeq
    <3> QED BY <3>1, <3>2
  <2>2. CASE line' = << >>
    <3>1. Whole(line') = << >>
      BY <2>2 DEF Whole
    <3>2. Numbers(<< >>) = << >>
      <4>1. << >> \in Seq(Entry) /\ Len(<< >>) = 0
        BY EmptySeq
      <4>2. Numbers(<< >>) \in Seq(Nat) /\ Len(Numbers(<< >>)) = 0
        BY <4>1, Numbered, NumbersSeq
      <4> QED BY <4>2
    <3> DEFINE j == Len(Numbers(w)) + 1
    <3>3. /\ j \in 1 .. Len(Numbers(w)) + 1 /\ j \in Int
          /\ Len(Numbers(w)) \in Int /\ Len(Numbers(w)) < j
      BY <2>1
    <3> HIDE DEF j
    <3>4. SubSeq(Numbers(w), j, Len(Numbers(w))) = << >>
      BY <3>3, SubSeqEmpty
    <3> QED BY <3>1, <3>2, <3>3, <3>4
  <2>3. CASE line' # << >>
    <3>1. PICK k \in 1 .. Len(line) :
            \E a \in line[k].at .. Len(line[k].bytes) : line' = From(line, k, a)
      BY <2>3 DEF Reset
    <3>2. PICK a \in line[k].at .. Len(line[k].bytes) : line' = From(line, k, a)
      BY <3>1
    <3> DEFINE m == IF a > 1 THEN k + 1 ELSE k
    <3>3. Numbers(Whole(line')) = Numbers(SubSeq(line, m, Len(line)))
      BY <1>2, <3>2, LineReset
    <3>4. /\ k \in Nat /\ k >= 1 /\ k <= Len(line)
          /\ a \in Int /\ a >= line[k].at /\ line[k].at >= 1 /\ line[k].at \in Int
      BY <1>2, LineElement
    <3>5. m \in 1 .. Len(line) + 1 /\ m \in Nat /\ (a > 1 => m >= 2) /\ (k > 1 => m >= 2)
      BY <1>2, <3>4
    <3> HIDE DEF m
    <3>6. CASE w = line
      <4>1. /\ m \in 1 .. Len(Numbers(w)) + 1
            /\ Numbers(SubSeq(line, m, Len(line)))
                 = SubSeq(Numbers(line), m, Len(Numbers(line)))
        BY <1>2, <2>1, <3>5, <3>6, Numbered, NumbersSuffix
      <4> QED BY <3>3, <3>6, <4>1
    <3>7. CASE w # line
      <4>1. line # << >> /\ w = Tail(line) /\ Head(line).at > 1 /\ Head(line) = line[1]
        BY <1>2, <3>7, LineHead DEF Whole
      <4>2. m >= 2 /\ m - 1 \in Int
        BY <3>4, <3>5, <4>1
      <4>3. Len(w) = Len(line) - 1 /\ w = SubSeq(line, 2, Len(line))
        BY <1>2, <4>1, TailIsSubSeq, HeadTailProperties
      <4>4. SubSeq(line, m, Len(line)) = SubSeq(w, m - 1, Len(w))
        <5>1. /\ IsLine(SubSeq(line, m, Len(line)))
              /\ Len(SubSeq(line, m, Len(line))) = Len(line) - m + 1
              /\ \A i \in 1 .. Len(SubSeq(line, m, Len(line))) :
                   SubSeq(line, m, Len(line))[i] = line[m + i - 1]
          BY <1>2, <3>5, LineSuffix
        <5>2. IsLine(w) /\ \A i \in 1 .. Len(w) : w[i] = line[i + 1]
          BY <1>2, <4>1, LineTail
        <5> DEFINE l == m - 1
        <5>3. l \in 1 .. Len(w) + 1 /\ l = m - 1
          BY <1>2, <3>5, <4>2, <4>3
        <5> HIDE DEF l, w
        <5>4. /\ IsLine(SubSeq(w, l, Len(w)))
              /\ Len(SubSeq(w, l, Len(w))) = Len(w) - l + 1
              /\ \A i \in 1 .. Len(SubSeq(w, l, Len(w))) :
                   SubSeq(w, l, Len(w))[i] = w[l + i - 1]
          BY <5>2, <5>3, LineSuffix
        <5> DEFINE a1 == SubSeq(line, m, Len(line))
                   a2 == SubSeq(w, l, Len(w))
        <5>5. a1 \in Seq(Entry) /\ a2 \in Seq(Entry)
          BY <5>1, <5>4 DEF IsLine
        <5> HIDE DEF a1, a2
        <5>6. Len(a1) = Len(a2) /\ Len(a1) = Len(line) - m + 1
          BY <1>2, <3>5, <4>3, <5>1, <5>3, <5>4 DEF a1, a2
        <5>7. ASSUME NEW i \in 1 .. Len(a1) PROVE a1[i] = a2[i]
          <6>1. /\ i \in Nat /\ i \in 1 .. Len(a2)
                /\ l + i - 1 \in 1 .. Len(w) /\ (l + i - 1) + 1 = m + i - 1
            BY <1>2, <3>5, <4>2, <4>3, <5>3, <5>6
          <6>2. a1[i] = line[m + i - 1] /\ a2[i] = w[l + i - 1]
            BY <5>1, <5>4, <6>1 DEF a1, a2
          <6>3. w[l + i - 1] = line[(l + i - 1) + 1]
            BY <5>2, <6>1
          <6> QED BY <6>1, <6>2, <6>3
        <5>8. a1 = a2
          BY <5>5, <5>6, <5>7, SeqEqual
        <5> QED BY <5>8 DEF a1, a2, l
      <4> DEFINE l == m - 1
      <4>5. l \in 1 .. Len(w) + 1
        BY <1>2, <3>5, <4>2, <4>3
      <4> HIDE DEF l, w
      <4>6. Numbers(SubSeq(w, l, Len(w))) = SubSeq(Numbers(w), l, Len(Numbers(w)))
        BY <1>3, <4>5, Numbered, NumbersSuffix
      <4>7. Numbers(Whole(line')) = SubSeq(Numbers(w), l, Len(Numbers(w)))
        BY <3>3, <4>4, <4>6 DEF l
      <4> QED BY <2>1, <4>5, <4>7
    <3> QED BY <3>6, <3>7
  <2> QED BY <2>2, <2>3
<1> DEFINE s == SubSeq(Numbers(w), j, Len(Numbers(w)))
<1>5. Coming = Numbers(w) \o n /\ Coming' = s \o n
  BY <1>1, <1>4 DEF Coming
<1>6. /\ j - 1 \in 0 .. Len(Coming)
      /\ Coming' = SubSeq(Coming, (j - 1) + 1, Len(Coming))
  <2> HIDE DEF w, n
  <2>1. /\ j - 1 \in 0 .. Len(Numbers(w) \o n)
        /\ s \o n = SubSeq(Numbers(w) \o n, (j - 1) + 1, Len(Numbers(w) \o n))
    BY <1>3, SuffixJoined
  <2> QED BY <1>5, <2>1
<1> HIDE DEF w, n, s
<1>7. \E k \in 0 .. Len(Due) : Due' = SubSeq(Due, k + 1, Len(Due))
  <2>1. Coming \in Seq(Nat)
    BY Numbered
  <2>2. Due' = Coming'
    <3>1. j - 1 + 1 \in Int /\ j - 1 + 1 >= 1 /\ Len(Coming) \in Int
      BY <2>1, <1>6
    <3>2. \A i \in (j - 1) + 1 .. Len(Coming) : Coming[i] \in Nat
      BY <2>1, <3>1, ElementOfSeq
    <3>3. Coming' \in Seq(Nat)
      BY <1>6, <3>1, <3>2, SubSeqProperties
    <3> QED BY <1>1, <3>3, ConcatEmptySeq DEF Due
  <2>3. CASE packet.of = << >>
    <3>1. Due = Coming
      BY <2>3, DueCases
    <3> QED BY <1>6, <2>2, <3>1
  <2>4. CASE packet.of # << >>
    <3>1. PICK m \in Nat : packet.of = << m >>
      BY <2>4 DEF TypeInv, Reading, IsPacket
    <3> DEFINE p == packet.of
               i == (j - 1) + 1
    <3>2. p \in Seq(Nat) /\ Due = p \o Coming
      BY <3>1 DEF Due
    <3>3. i \in 1 .. Len(Coming) + 1 /\ j \in Int
      BY <1>6, <2>1
    <3> QED BY <1>6, <2>1, <2>2, <3>2, <3>3, SuffixAfter
  <2> QED BY <2>3, <2>4
<1>8. (IF Intact(reply) THEN reply.of[1] ELSE 0)' = Queue!NoAnswer
  BY <1>1, NoReply DEF Queue!NoAnswer
<1>9. failures' = failures + (IF pc = "reading" THEN 1 ELSE 0)
  BY <1>1
<1>10. Queue!Restart
  BY <1>1, <1>7, <1>8, <1>9 DEF Queue!Restart
<1> QED BY <1>1, <1>10 DEF Queue!Next

LEMMA Inductive == Spec => [](TypeInv /\ (dropped = 0 => Packets))
<1>1. Init => TypeInv /\ (dropped = 0 => Packets)
  BY TypesInit, NoReply DEF Init, Packets
<1>2. TypeInv /\ (dropped = 0 => Packets) /\ [Next]_vars
        => (TypeInv /\ (dropped = 0 => Packets))'
  <2> SUFFICES ASSUME TypeInv, dropped = 0 => Packets, [Next]_vars
               PROVE  TypeInv' /\ (dropped = 0 => Packets)'
    OBVIOUS
  <2>1. CASE Next
    BY <2>1, TypesKept, PacketsKept
  <2>2. CASE UNCHANGED vars
    <3>1. (dropped = 0 => Packets)'
      BY <2>2 DEF vars, Packets, Aligned, Astray
    <3> QED BY <2>2, <3>1, TypesStutter
  <2> QED BY <2>1, <2>2
<1> QED BY <1>1, <1>2, PTL DEF Spec

(* The driver keeps the queue: as long as no byte is lost, what it does to  *)
(* bytes and packets is what AnswerQueue does to whole answers.             *)
THEOREM QueueKeptCorrect == Spec => QueueKept
<1>1. Init => Queue!Init
  <2> SUFFICES ASSUME Init PROVE Queue!Init
    OBVIOUS
  <2>1. Numbers(Whole(line)) = << >> /\ Numbers(inbox) = << >> /\ packet.of = << >>
    <3>1. Whole(line) = << >> /\ inbox = << >> /\ packet.of = << >>
      BY NoReply DEF Init, Whole
    <3>2. << >> \in Seq(Nat \X Nat) /\ Len(<< >>) = 0
      BY EmptySeq
    <3>3. Numbers(<< >>) = << >>
      BY <3>2 DEF Numbers
    <3> QED BY <3>1, <3>3
  <2>2. Due = << >>
    BY <2>1, EmptySeq, ConcatEmptySeq DEF Due, Coming
  <2>3. (IF Intact(reply) THEN reply.of[1] ELSE 0) = Queue!NoAnswer
    BY NoReply DEF Init, Queue!NoAnswer
  <2> QED BY <2>2, <2>3 DEF Init, Queue!Init
<1>2. TypeInv /\ (dropped = 0 => Packets) /\ TypeInv' /\ [Next]_vars
        => [Queue!Next]_Queue!vars
  <2> SUFFICES ASSUME TypeInv, dropped = 0 => Packets, TypeInv', [Next]_vars
               PROVE  [Queue!Next]_Queue!vars
    OBVIOUS
  <2>1. CASE UNCHANGED vars
    BY <2>1 DEF vars, Queue!vars, Due, Coming
  <2>2. CASE dropped' # 0
    BY <2>2 DEF Queue!Next
  <2>3. CASE Next /\ dropped' = 0
    <3>1. dropped = 0 \/ ByteDropped
      BY <2>3 DEF Next, Ask, ReadByte, TimeOut, SensorAnswers, CommandLost, Reset
    <3>2. ~ ByteDropped
      BY <2>3, LinkAssumption DEF ByteDropped, TypeInv, Counters
    <3>3. Packets
      BY <3>1, <3>2
    <3>4. ASSUME NEW command \in Commands, Ask(command)
          PROVE  [Queue!Next]_Queue!vars
      BY <3>4, AskRefines
    <3>5. ReadByte => [Queue!Next]_Queue!vars
      BY <3>3, ReadByteRefines
    <3>6. TimeOut \/ SensorAnswers \/ CommandLost \/ Reset => [Queue!Next]_Queue!vars
      BY TimeOutRefines, SensorAnswersRefines, CommandLostRefines, ResetRefines
    <3> QED BY <2>3, <3>2, <3>4, <3>5, <3>6 DEF Next
  <2> QED BY <2>1, <2>2, <2>3
<1> QED BY <1>1, <1>2, Inductive, PTL DEF Spec, QueueKept, Queue!Spec

(* The promise of AnswerQueue, of the driver. *)
Promise == INSTANCE AnswerQueue_proofs WITH
  busy  <- pc = "reading",
  due   <- Due,
  reply <- IF Intact(reply) THEN reply.of[1] ELSE 0,
  clean <- dropped = 0

(* No command gets an answer that is older than the failures so far         *)
(* explain, however many commands, resets and lost commands there are.      *)
THEOREM SlipBoundedCorrect == Spec => []SlipBounded
<1>1. Queue!Init => Promise!Init
  BY DEF Queue!Init, Promise!Init, Queue!NoAnswer, Promise!NoAnswer
<1>2. [Queue!Next]_Queue!vars => [Promise!Next]_Promise!vars
  BY Zenon DEF Queue!Next, Promise!Next, Queue!vars, Promise!vars,
               Queue!Ask, Promise!Ask, Queue!Take, Promise!Take,
               Queue!Fail, Promise!Fail, Queue!Lose, Promise!Lose,
               Queue!Restart, Promise!Restart, Queue!NoAnswer, Promise!NoAnswer
<1>3. Promise!SlipBounded => SlipBounded
  BY DEF Promise!SlipBounded, SlipBounded, Queue!SlipBounded
<1> QED BY <1>1, <1>2, <1>3, QueueKeptCorrect, Promise!SlipBoundedCorrect, PTL
        DEF QueueKept, Queue!Spec, Promise!Spec
=============================================================================
