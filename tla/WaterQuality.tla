----------------------------- MODULE WaterQuality -----------------------------
(***************************************************************************)
(* The water quality station (ESP8266_ESP32 Projects/pH_TDS_Turbidity):    *)
(* every pass of loop() publishes the turbidity, puts a sample of the      *)
(* dissolved solids (TDS) in a ring, publishes their median from time to   *)
(* time, and publishes the mean of ten pH readings without the two         *)
(* smallest and the two largest.  The formulas from voltages to units are  *)
(* left out, and with them the turbidity, a formula of a single reading:   *)
(* what is published is the number they are applied to.                    *)
(*                                                                         *)
(* A definition whose comment starts with "Fault" is a mistaken variant of *)
(* the one that follows it and is used by none.                            *)
(***************************************************************************)
EXTENDS Integers, Sequences, FiniteSets

CONSTANTS
  SCOUNT,      (* samples in the ring: 3                                     *)
  PhCount,     (* pH readings in a pass: 10                                  *)
  PhTrim,      (* pH readings left out on either side: 2                     *)
  Samples,     (* values of the TDS pin: 0 .. 4095                           *)
  PhSamples    (* values of the pH pin: 0 .. 4095                            *)

ASSUME CountAssumption ==
  /\ SCOUNT \in Nat \ {0}
  /\ PhTrim \in Nat /\ PhCount \in Nat /\ PhCount > 2 * PhTrim
  /\ Samples \subseteq Nat /\ PhSamples \subseteq Nat

VARIABLES
  analogBuffer, analogBufferIndex, analogBufferTemp, copyIndex,
  tds,                   (* the median behind the TDS value published last   *)
  ph,                    (* the six readings behind the pH value             *)
  buf,                   (* the ten readings of the pass                     *)
  step,                  (* where loop() is                                  *)
  recent                 (* history: the samples taken, the last SCOUNT      *)

ring == << analogBuffer, analogBufferIndex >>
copy == << analogBufferTemp, copyIndex, tds >>
acid == << ph, buf >>
vars == << ring, copy, acid, step, recent >>

Ring == 0 .. SCOUNT - 1

----------------------------------------------------------------------------
(* if (a[p] > a[q]) swap                                                    *)
CompareAndSwap(a, p) ==
  IF a[p[1]] > a[p[2]]
    THEN [a EXCEPT ![p[1]] = a[p[2]], ![p[2]] = a[p[1]]]
    ELSE a

(* A round of comparisons, one after the other. *)
Compared(a, pairs) ==
  LET s[k \in 0 .. Len(pairs)] ==
        IF k = 0 THEN a ELSE CompareAndSwap(s[k - 1], pairs[k])
  IN  s[Len(pairs)]

(* Fault: every round stops one short.                                      *)
Bubbles_TooFew(n) ==
  [j \in 1 .. n - 1 |-> [i \in 1 .. n - 1 - j |-> << i, i + 1 >>]]

(* The rounds of getMedianNum, in the order of the code: neighbours, up to  *)
(* a point that comes down.                                                 *)
Bubbles(n) == [j \in 1 .. n - 1 |-> [i \in 1 .. n - j |-> << i, i + 1 >>]]

(* Fault: the outer loop stops at the smallest reading.                     *)
Exchanges_First(n) == << [j \in 1 .. n - 1 |-> << 1, j + 1 >>] >>

(* The rounds of the pH readings: every one is compared with all after it.  *)
Exchanges(n) == [i \in 1 .. n - 1 |-> [j \in 1 .. n - i |-> << i, i + j >>]]

Sorted(a, rounds) ==
  LET s[j \in 0 .. Len(rounds)] ==
        IF j = 0 THEN a ELSE Compared(s[j - 1], rounds[j])
  IN  s[Len(rounds)]

(* The int division of two positive numbers. *)
getMedianNum(bArray) ==
  LET n == Len(bArray)
      t == Sorted(bArray, Bubbles(n))
  IN  IF n % 2 = 1 THEN t[(n + 1) \div 2]
                   ELSE (t[n \div 2 + 1] + t[n \div 2]) \div 2

AsSeq(ringOf) == [i \in 1 .. SCOUNT |-> ringOf[i - 1]]

Trimmed(a) ==
  SubSeq(Sorted(a, Exchanges(PhCount)), PhTrim + 1, PhCount - PhTrim)

Init ==
  /\ tds = 0
  /\ analogBuffer = [i \in Ring |-> 0] /\ analogBufferTemp = [i \in Ring |-> 0]
  /\ analogBufferIndex = 0 /\ copyIndex = 0
  /\ buf = [i \in 1 .. PhCount |-> 0]
  /\ ph = [i \in 1 .. PhCount - 2 * PhTrim |-> 0]
  /\ step = "turbidity" /\ recent = << >>

(* The turbidity has been published. *)
Turbidity ==
  /\ step = "turbidity"
  /\ step' = "sample"
  /\ UNCHANGED << ring, copy, acid, recent >>

(* Fault: the first place of the ring is passed over.                       *)
NextIndex_SkipsFirst(i) == IF i + 1 = SCOUNT THEN SCOUNT - 1 ELSE i + 1

(* analogBufferIndex++, and back to 0.                                      *)
NextIndex(i) == IF i + 1 = SCOUNT THEN 0 ELSE i + 1

(* Forty milliseconds after the last sample, and then, if it is time, on to *)
(* the copy.                                                                *)
Sample(v, timeToPrint) ==
  /\ step = "sample"
  /\ analogBuffer' = [analogBuffer EXCEPT ![analogBufferIndex] = v]
  /\ analogBufferIndex' = NextIndex(analogBufferIndex)
  /\ recent' = IF Len(recent) < SCOUNT THEN Append(recent, v) ELSE Append(Tail(recent), v)
  /\ copyIndex' = IF timeToPrint THEN 0 ELSE copyIndex
  /\ step' = IF timeToPrint THEN "copy" ELSE "ph"
  /\ UNCHANGED << analogBufferTemp, tds, acid >>

(* The first pass only starts the two clocks.                               *)
NoSample ==
  /\ step = "sample" /\ recent = << >>
  /\ step' = "ph"
  /\ UNCHANGED << ring, copy, acid, recent >>

(* Fault: the last place is not copied.                                     *)
Copy_StopsShort ==
  /\ step = "copy"
  /\ analogBufferTemp' = [analogBufferTemp EXCEPT ![copyIndex] = analogBuffer[copyIndex]]
  /\ tds' = getMedianNum(AsSeq(analogBufferTemp'))
  /\ copyIndex' = copyIndex + 1
  /\ step' = IF copyIndex' < SCOUNT - 1 THEN "copy" ELSE "ph"
  /\ UNCHANGED << ring, acid, recent >>

(* One value is copied, and the median of what has been copied by now and   *)
(* what is left of the last time is published.                              *)
Copy ==
  /\ step = "copy"
  /\ analogBufferTemp' = [analogBufferTemp EXCEPT ![copyIndex] = analogBuffer[copyIndex]]
  /\ tds' = getMedianNum(AsSeq(analogBufferTemp'))
  /\ copyIndex' = copyIndex + 1
  /\ step' = IF copyIndex' < SCOUNT THEN "copy" ELSE "ph"
  /\ UNCHANGED << ring, acid, recent >>

(* Ten readings, sorted, and the middle ones added up. *)
PH(readings) ==
  /\ step = "ph"
  /\ buf' = readings
  /\ ph' = Trimmed(readings)
  /\ step' = "turbidity"
  /\ UNCHANGED << ring, copy, recent >>

Next ==
  \/ Turbidity
  \/ \E v \in Samples, time \in BOOLEAN : Sample(v, time)
  \/ NoSample \/ Copy
  \/ \E readings \in [1 .. PhCount -> PhSamples] : PH(readings)

Spec == Init /\ [][Next]_vars

----------------------------------------------------------------------------
Smaller(m, a) == Cardinality({i \in DOMAIN a : a[i] < m})
Larger(m, a)  == Cardinality({i \in DOMAIN a : a[i] > m})

(* getMedianNum 56-77 with the ring 213-221 and the copying 224-232: once   *)
(* the ring is full, every value published while the ring is copied is off  *)
(* the median of the last SCOUNT samples by no more ranks than places are   *)
(* still to be copied, whatever was in the copy before and whatever place   *)
(* of the ring was written last; the value that a round of copying ends     *)
(* with is their median.                                                    *)
MedianOfRecent ==
  [][(copyIndex' > copyIndex /\ Len(recent) = SCOUNT) =>
       LET missing == IF step' = "copy" THEN SCOUNT - copyIndex' ELSE 0
       IN  /\ 2 * Smaller(tds', recent) <= SCOUNT + 2 * missing
           /\ 2 * Larger(tds', recent) <= SCOUNT + 2 * missing]_vars

(* loop() 265-284: of the readings of a pass up to PhTrim may be wrong by   *)
(* any amount, and every one that goes into the mean still lies between     *)
(* right ones.                                                              *)
SpikesTrimmed ==
  \A wrong \in SUBSET (1 .. PhCount) :
    Cardinality(wrong) <= PhTrim =>
      \A i \in DOMAIN ph :
        /\ \E j \in (1 .. PhCount) \ wrong : buf[j] <= ph[i]
        /\ \E j \in (1 .. PhCount) \ wrong : buf[j] >= ph[i]
=============================================================================
