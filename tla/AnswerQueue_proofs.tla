------------------------- MODULE AnswerQueue_proofs -------------------------
(***************************************************************************)
(* SlipBounded for any number of commands, failures and restarts.          *)
(*                                                                         *)
(* An answer that is due was asked for by a command after which others     *)
(* have ended.  Each of these failed, or took one of the answers in front  *)
(* of it.  So the commands ended since then, and the answers still in      *)
(* front, are together no more than the failures so far: ended commands    *)
(* that took an answer make the queue in front of it shorter.              *)
(***************************************************************************)
EXTENDS AnswerQueue, SequenceTheorems, TLAPS

TypeInv ==
  /\ asked \in Nat /\ failures \in Nat
  /\ due \in Seq(Int)
  /\ reply \in Int

(* How many of the commands from this number on have ended. *)
EndedSince(n) == asked - n + (IF busy THEN 0 ELSE 1)

QueueBounded ==
  \A i \in 1 .. Len(due) :
    due[i] <= asked /\ EndedSince(due[i]) + i - 1 <= failures

IInv == clean => TypeInv /\ QueueBounded /\ SlipBounded

(* Taking the first k answers out moves the others to the front. *)
LEMMA SuffixBounded ==
  ASSUME NEW s \in Seq(Int), NEW k \in 0 .. Len(s)
  PROVE  LET t == SubSeq(s, k + 1, Len(s))
         IN  /\ t \in Seq(Int)
             /\ Len(t) = Len(s) - k
             /\ \A i \in 1 .. Len(t) : t[i] = s[i + k]
  OBVIOUS

(* And taking one out of the middle moves those behind it. *)
LEMMA RemovalBounded ==
  ASSUME NEW s \in Seq(Int), NEW k \in 1 .. Len(s)
  PROVE  LET t == SubSeq(s, 1, k - 1) \o SubSeq(s, k + 1, Len(s))
         IN  /\ t \in Seq(Int)
             /\ Len(t) = Len(s) - 1
             /\ \A i \in 1 .. Len(t) : t[i] = IF i < k THEN s[i] ELSE s[i + 1]
<1> DEFINE a == SubSeq(s, 1, k - 1)
           b == SubSeq(s, k + 1, Len(s))
<1>1. a \in Seq(Int) /\ Len(a) = k - 1 /\ \A i \in 1 .. (k - 1) : a[i] = s[i]
  OBVIOUS
<1>2. /\ b \in Seq(Int) /\ Len(b) = Len(s) - k
      /\ \A i \in 1 .. (Len(s) - k) : b[i] = s[i + k]
  OBVIOUS
<1> HIDE DEF a, b
<1>3. /\ a \o b \in Seq(Int)
      /\ Len(a \o b) = Len(s) - 1
      /\ \A i \in 1 .. (Len(s) - 1) : (a \o b)[i] = IF i < k THEN a[i] ELSE b[i - (k - 1)]
  <2>1. a \o b \in Seq(Int) /\ Len(a \o b) = Len(a) + Len(b)
    BY <1>1, <1>2, ConcatProperties
  <2>2. \A i \in 1 .. Len(a) + Len(b) :
          (a \o b)[i] = IF i <= Len(a) THEN a[i] ELSE b[i - Len(a)]
    BY <1>1, <1>2, ConcatProperties
  <2>3. Len(a) = k - 1 /\ Len(a) + Len(b) = Len(s) - 1
    BY <1>1, <1>2
  <2>4. ASSUME NEW i \in 1 .. (Len(s) - 1)
        PROVE  (a \o b)[i] = IF i < k THEN a[i] ELSE b[i - (k - 1)]
    BY <2>2, <2>3
  <2> QED BY <2>1, <2>3, <2>4
<1>4. \A i \in 1 .. (Len(s) - 1) : (a \o b)[i] = IF i < k THEN s[i] ELSE s[i + 1]
  <2> TAKE i \in 1 .. (Len(s) - 1)
  <2>1. CASE i < k
    BY <2>1, <1>1, <1>3
  <2>2. CASE ~ (i < k)
    <3>1. i - (k - 1) \in 1 .. (Len(s) - k) /\ (i - (k - 1)) + k = i + 1
      BY <2>2
    <3> QED BY <2>2, <3>1, <1>2, <1>3
  <2> QED BY <2>1, <2>2
<1> QED BY <1>3, <1>4 DEF a, b

(* The invariant holds at first and is kept by every step.                  *)
LEMMA Inductive == Spec => []IInv
<1>1. Init => IInv
  <2> SUFFICES ASSUME Init PROVE TypeInv /\ QueueBounded /\ SlipBounded
    BY DEF IInv
  <2>1. TypeInv
    BY DEF Init, TypeInv, NoAnswer
  <2>2. QueueBounded
    BY DEF Init, QueueBounded
  <2>3. SlipBounded
    BY DEF Init, SlipBounded, NoAnswer
  <2> QED BY <2>1, <2>2, <2>3
<1>2. IInv /\ [Next]_vars => IInv'
  <2> SUFFICES ASSUME IInv, [Next]_vars, clean'
               PROVE  (TypeInv /\ QueueBounded /\ SlipBounded)'
    BY DEF IInv
  <2>1. CASE UNCHANGED vars
    BY <2>1 DEF vars, IInv, TypeInv, QueueBounded, EndedSince, SlipBounded
  <2>2. CASE Ask /\ UNCHANGED clean
    <3>1. TypeInv /\ QueueBounded /\ clean
      BY <2>2 DEF IInv
    <3>2. TypeInv'
      BY <2>2, <3>1 DEF Ask, TypeInv, NoAnswer
    <3>3. Len(due) <= failures
      <4>1. CASE due = << >>
        BY <4>1, <3>1 DEF TypeInv
      <4>2. CASE due # << >>
        <5>1. Len(due) \in 1 .. Len(due) /\ due[Len(due)] \in Int
          BY <4>2, <3>1 DEF TypeInv
        <5>2. due[Len(due)] <= asked /\ EndedSince(due[Len(due)]) + Len(due) - 1 <= failures
          BY <5>1, <3>1 DEF QueueBounded
        <5> QED BY <5>1, <5>2, <3>1, <2>2 DEF EndedSince, TypeInv, Ask
      <4> QED BY <4>1, <4>2
    <3>4. QueueBounded'
      BY <2>2, <3>1, <3>3 DEF Ask, TypeInv, QueueBounded, EndedSince
    <3> QED BY <2>2, <3>2, <3>4 DEF Ask, SlipBounded, NoAnswer
  <2>3. CASE Take /\ UNCHANGED clean
    <3>1. TypeInv /\ QueueBounded /\ clean
      BY <2>3 DEF IInv
    <3>2. TypeInv'
      BY <2>3, <3>1, HeadTailProperties DEF Take, TypeInv
    <3>3. QueueBounded'
      BY <2>3, <3>1 DEF Take, TypeInv, QueueBounded, EndedSince
    <3>4. SlipBounded'
      BY <2>3, <3>1 DEF Take, TypeInv, QueueBounded, EndedSince, SlipBounded
    <3> QED BY <3>2, <3>3, <3>4
  <2>4. CASE Fail /\ UNCHANGED clean
    <3>1. TypeInv /\ QueueBounded /\ clean
      BY <2>4 DEF IInv
    <3>2. PICK k \in 0 .. Len(due) :
            /\ due' \in Seq(Int)
            /\ Len(due') = Len(due) - k
            /\ \A i \in 1 .. Len(due') : due'[i] = due[i + k]
      <4>1. CASE due' = due
        BY <4>1, <3>1 DEF TypeInv
      <4>2. CASE due # << >> /\ due' = Tail(due)
        <5>1. /\ 1 \in 0 .. Len(due) /\ due' \in Seq(Int)
              /\ Len(due') = Len(due) - 1
              /\ \A i \in 1 .. Len(due') : due'[i] = due[i + 1]
          BY <4>2, <3>1, HeadTailProperties DEF TypeInv
        <5> QED BY <5>1
      <4> QED BY <4>1, <4>2, <2>4 DEF Fail
    <3>3. TypeInv'
      BY <2>4, <3>1, <3>2 DEF Fail, TypeInv, NoAnswer
    <3>4. QueueBounded'
      <4> SUFFICES ASSUME NEW i \in 1 .. Len(due')
                   PROVE  (due[i] <= asked /\ EndedSince(due[i]) + i - 1 <= failures)'
        BY DEF QueueBounded
      <4>1. i + k \in 1 .. Len(due) /\ k \in Nat /\ i \in Nat
        BY <3>1, <3>2 DEF TypeInv
      <4>2. due[i + k] \in Int /\ due[i + k] <= asked /\ due'[i] = due[i + k]
        BY <4>1, <3>1, <3>2 DEF TypeInv, QueueBounded
      <4>3. asked - due[i + k] + (i + k) - 1 <= failures
        BY <4>1, <3>1, <2>4 DEF QueueBounded, EndedSince, Fail, TypeInv
      <4>4. asked' = asked /\ failures' = failures + 1 /\ ~busy'
        BY <2>4 DEF Fail
      <4> QED BY <4>1, <4>2, <4>3, <4>4, <3>1 DEF TypeInv, EndedSince
    <3> QED BY <2>4, <3>3, <3>4 DEF Fail, SlipBounded, NoAnswer
  <2>5. CASE Lose /\ UNCHANGED clean
    <3>1. TypeInv /\ QueueBounded /\ SlipBounded /\ clean
      BY <2>5 DEF IInv
    <3>2. PICK k \in 1 .. Len(due) :
            due' = SubSeq(due, 1, k - 1) \o SubSeq(due, k + 1, Len(due))
      <4>1. DOMAIN due = 1 .. Len(due)
        BY <3>1 DEF TypeInv
      <4> QED BY <4>1, <2>5, Zenon DEF Lose
    <3>3. /\ due' \in Seq(Int)
          /\ Len(due') = Len(due) - 1
          /\ \A i \in 1 .. Len(due') : due'[i] = IF i < k THEN due[i] ELSE due[i + 1]
      BY <3>1, <3>2, RemovalBounded DEF TypeInv
    <3>4. TypeInv'
      BY <2>5, <3>1, <3>3 DEF Lose, TypeInv
    <3>5. QueueBounded'
      <4> SUFFICES ASSUME NEW i \in 1 .. Len(due')
                   PROVE  (due[i] <= asked /\ EndedSince(due[i]) + i - 1 <= failures)'
        BY DEF QueueBounded
      <4>1. i \in 1 .. Len(due) /\ i + 1 \in 1 .. Len(due)
        BY <3>1, <3>3 DEF TypeInv
      <4> DEFINE j == IF i < k THEN i ELSE i + 1
      <4>2. j \in 1 .. Len(due) /\ i <= j /\ i \in Nat /\ due'[i] = due[j]
        BY <4>1, <3>3
      <4>3. due[j] \in Int /\ due[j] <= asked /\ EndedSince(due[j]) + j - 1 <= failures
        BY <4>2, <3>1 DEF TypeInv, QueueBounded
      <4>4. asked' = asked /\ failures' = failures /\ busy' = busy
        BY <2>5 DEF Lose
      <4> HIDE DEF j
      <4> QED BY <4>2, <4>3, <4>4, <3>1 DEF TypeInv, EndedSince
    <3> QED BY <2>5, <3>1, <3>4, <3>5 DEF Lose, SlipBounded
  <2>6. CASE Restart /\ UNCHANGED clean
    <3>1. TypeInv /\ QueueBounded /\ clean
      BY <2>6 DEF IInv
    <3>2. PICK k \in 0 .. Len(due) : due' = SubSeq(due, k + 1, Len(due))
      BY <2>6 DEF Restart
    <3>3. /\ due' \in Seq(Int)
          /\ Len(due') = Len(due) - k
          /\ \A i \in 1 .. Len(due') : due'[i] = due[i + k]
      BY <3>1, <3>2, SuffixBounded DEF TypeInv
    <3>4. TypeInv'
      BY <2>6, <3>1, <3>3 DEF Restart, TypeInv, NoAnswer
    <3>5. QueueBounded'
      <4> SUFFICES ASSUME NEW i \in 1 .. Len(due')
                   PROVE  (due[i] <= asked /\ EndedSince(due[i]) + i - 1 <= failures)'
        BY DEF QueueBounded
      <4>1. i + k \in 1 .. Len(due) /\ k \in Nat /\ i \in Nat
        BY <3>1, <3>3 DEF TypeInv
      <4>2. due[i + k] \in Int /\ due[i + k] <= asked /\ due'[i] = due[i + k]
        BY <4>1, <3>1, <3>3 DEF TypeInv, QueueBounded
      <4>3. EndedSince(due[i + k]) + (i + k) - 1 <= failures
        BY <4>1, <3>1 DEF QueueBounded
      <4>4. asked' = asked /\ ~busy' /\ failures' = failures + (IF busy THEN 1 ELSE 0)
        BY <2>6 DEF Restart
      <4> QED BY <4>1, <4>2, <4>3, <4>4, <3>1 DEF TypeInv, EndedSince
    <3> QED BY <2>6, <3>4, <3>5 DEF Restart, SlipBounded, NoAnswer
  <2> QED BY <2>1, <2>2, <2>3, <2>4, <2>5, <2>6 DEF Next
<1> QED BY <1>1, <1>2, PTL DEF Spec

(* No answer is older than the failures so far explain.                     *)
THEOREM SlipBoundedCorrect == Spec => []SlipBounded
<1>1. IInv => SlipBounded
  BY DEF IInv, SlipBounded
<1> QED BY <1>1, Inductive, PTL
=============================================================================
