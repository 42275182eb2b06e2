-------------------------- MODULE Stations_proofs --------------------------
(***************************************************************************)
(* The two stations that publish what they have measured: water quality,   *)
(* for rings and series of readings of any length, and air quality, for    *)
(* any number of sums, days and readings.                                  *)
(*                                                                         *)
(* Two loops of the water station sort.  What a recursive function is, and *)
(* that a statement which every round keeps holds after all rounds, is     *)
(* proved here by induction over a set of numbers, as the least number     *)
(* outside of it (WFMin) would have one before it.  A sorting moves values *)
(* to other places one-to-one (Rearranged), so how many lie on one side of *)
(* a sorted value follows from its place.                                  *)
(***************************************************************************)
EXTENDS WaterQuality, DailyStats, FiniteSetTheorems, WellFoundedInduction, TLAPS

----------------------------------------------------------------------------
(* Induction over the numbers, with a set in the place of the formula, and  *)
(* the functions that a recursion over them defines.                        *)

(* What holds of 0 and passes on to the next number holds of every number. *)
LEMMA SetInduction ==
  ASSUME NEW S, 0 \in S, \A n \in Nat : n \in S => n + 1 \in S
  PROVE  Nat \subseteq S
<1> SUFFICES ASSUME Nat \ S # {} PROVE FALSE
  OBVIOUS
<1> DEFINE R == OpToRel(<, Nat)
<1>1. IsWellFoundedOn(R, Nat)
  BY NatLessThanWellFounded
<1> HIDE DEF R
<1>2. PICK n \in Nat \ S : \A k \in Nat \ S : ~ (<< k, n >> \in R)
  BY <1>1, WFMin
<1>3. \A k \in Nat \ S : ~ (k < n)
  BY <1>2 DEF R, OpToRel
<1>4. n # 0 /\ n - 1 \in Nat /\ n - 1 < n /\ (n - 1) + 1 = n
  OBVIOUS
<1> QED BY <1>3, <1>4

(* What holds before the first of L steps, and after a step if before it,   *)
(* holds after the last.                                                    *)
LEMMA AllSteps ==
  ASSUME NEW L \in Nat, NEW S, 0 \in S, \A k \in 1 .. L : k - 1 \in S => k \in S
  PROVE  L \in S
<1> DEFINE T == {k \in Nat : k <= L => k \in S}
<1>1. 0 \in T
  OBVIOUS
<1>2. ASSUME NEW k \in Nat, k \in T PROVE k + 1 \in T
  <2> SUFFICES ASSUME k + 1 <= L PROVE k + 1 \in S
    OBVIOUS
  <2>1. k + 1 \in 1 .. L /\ (k + 1) - 1 = k /\ k \in S
    BY <1>2
  <2> QED BY <2>1
<1> HIDE DEF T
<1>3. Nat \subseteq T
  BY <1>1, <1>2, SetInduction
<1> QED BY <1>3 DEF T

(* A function on 1 .. L is a sequence. *)
LEMMA IsSequence ==
  ASSUME NEW T, NEW L \in Nat, NEW q, q = [j \in 1 .. L |-> q[j]], \A j \in 1 .. L : q[j] \in T
  PROVE  q \in Seq(T) /\ Len(q) = L
OBVIOUS

(* L steps in a row, the k-th by the function f[k]. *)
InARow(A, a, L, f) ==
  \E g \in [0 .. L -> A] : g[0] = a /\ \A k \in 1 .. L : g[k] = f[k][g[k - 1]]

(* Steps that can be taken one by one can be taken in a row.                *)
LEMMA Recursion ==
  ASSUME NEW A, NEW a \in A, NEW L \in Nat, NEW f \in [1 .. L -> [A -> A]]
  PROVE  InARow(A, a, L, f)
<1> DEFINE Upto(n, g) == g[0] = a /\ \A k \in 1 .. n : g[k] = f[k][g[k - 1]]
           S == {n \in Nat : n <= L => \E g \in [0 .. n -> A] : Upto(n, g)}
<1>1. 0 \in S
  <2> DEFINE g == [k \in 0 .. 0 |-> a]
  <2>1. g \in [0 .. 0 -> A] /\ Upto(0, g)
    OBVIOUS
  <2> QED BY <2>1
<1>2. ASSUME NEW n \in Nat, n \in S
      PROVE  n + 1 \in S
  <2> SUFFICES ASSUME n + 1 <= L
               PROVE  \E g \in [0 .. n + 1 -> A] : Upto(n + 1, g)
    OBVIOUS
  <2>1. PICK h \in [0 .. n -> A] : Upto(n, h)
    BY <1>2
  <2>2. n + 1 \in 1 .. L /\ f[n + 1] \in [A -> A] /\ h[n] \in A
    OBVIOUS
  <2> DEFINE g == [k \in 0 .. n + 1 |-> IF k = n + 1 THEN f[n + 1][h[n]] ELSE h[k]]
  <2>3. g \in [0 .. n + 1 -> A]
    BY <2>2
  <2>4. g[n + 1] = f[n + 1][h[n]] /\ \A k \in 0 .. n : g[k] = h[k]
    OBVIOUS
  <2> HIDE DEF g
  <2>5. ASSUME NEW k \in 1 .. n + 1 PROVE g[k] = f[k][g[k - 1]]
    <3>1. CASE k = n + 1
      BY <2>4, <3>1
    <3>2. CASE k # n + 1
      <4>1. k \in 1 .. n /\ k \in 0 .. n /\ k - 1 \in 0 .. n
        BY <3>2
      <4> QED BY <2>1, <2>4, <4>1
    <3> QED BY <3>1, <3>2
  <2> QED BY <2>1, <2>3, <2>4, <2>5
<1> HIDE DEF S
<1>3. L \in S
  BY <1>1, <1>2, SetInduction
<1> QED BY <1>3 DEF S, InARow

----------------------------------------------------------------------------
(* The sorting of the two kinds of reading. *)

Arrays(n) == [1 .. n -> Int]

(* Two places to compare. *)
Pairs(n) == {p \in (1 .. n) \X (1 .. n) : p[1] < p[2]}

(* b holds the values of a, in other places. *)
Rearranged(n, a, b) ==
  \E h \in [1 .. n -> 1 .. n] :
    /\ \A x \in 1 .. n, y \in 1 .. n : h[x] = h[y] => x = y
    /\ \A k \in 1 .. n : a[k] = b[h[k]]

(* Every value in its own place. *)
LEMMA RearrangedSame == ASSUME NEW n \in Nat, NEW a PROVE Rearranged(n, a, a)
<1> DEFINE h == [k \in 1 .. n |-> k]
<1>1. /\ h \in [1 .. n -> 1 .. n]
      /\ \A x \in 1 .. n, y \in 1 .. n : h[x] = h[y] => x = y
      /\ \A k \in 1 .. n : a[k] = a[h[k]]
  OBVIOUS
<1> QED BY <1>1 DEF Rearranged

(* A value moved twice has been moved. *)
LEMMA RearrangedTwice ==
  ASSUME NEW n \in Nat, NEW a, NEW b, NEW c, Rearranged(n, a, b), Rearranged(n, b, c)
  PROVE  Rearranged(n, a, c)
<1>1. PICK h \in [1 .. n -> 1 .. n] :
        /\ \A x \in 1 .. n, y \in 1 .. n : h[x] = h[y] => x = y
        /\ \A k \in 1 .. n : a[k] = b[h[k]]
  BY DEF Rearranged
<1>2. PICK g \in [1 .. n -> 1 .. n] :
        /\ \A x \in 1 .. n, y \in 1 .. n : g[x] = g[y] => x = y
        /\ \A k \in 1 .. n : b[k] = c[g[k]]
  BY DEF Rearranged
<1> DEFINE f == [k \in 1 .. n |-> g[h[k]]]
<1>3. \A k \in 1 .. n : h[k] \in 1 .. n /\ f[k] = g[h[k]] /\ g[h[k]] \in 1 .. n
  BY <1>1, <1>2
<1>4. f \in [1 .. n -> 1 .. n]
  BY <1>3
<1> HIDE DEF f
<1>5. ASSUME NEW x \in 1 .. n, NEW y \in 1 .. n, f[x] = f[y]
      PROVE  x = y
  BY <1>1, <1>2, <1>3, <1>5
<1>6. ASSUME NEW k \in 1 .. n
      PROVE  a[k] = c[f[k]]
  <2>1. h[k] \in 1 .. n /\ f[k] = g[h[k]] /\ a[k] = b[h[k]]
    BY <1>1, <1>3
  <2>2. b[h[k]] = c[g[h[k]]]
    BY <1>2, <2>1
  <2> QED BY <2>1, <2>2
<1> QED BY <1>4, <1>5, <1>6 DEF Rearranged

(* A comparison puts the smaller value first and moves nothing else.        *)
LEMMA CompareStep ==
  ASSUME NEW n \in Nat, NEW a \in Arrays(n), NEW p \in Pairs(n)
  PROVE  LET b == CompareAndSwap(a, p)
         IN  /\ b \in Arrays(n)
             /\ Rearranged(n, a, b)
             /\ \A k \in 1 .. n : k # p[1] /\ k # p[2] => b[k] = a[k]
             /\ \/ b[p[1]] = a[p[1]] /\ b[p[2]] = a[p[2]]
                \/ b[p[1]] = a[p[2]] /\ b[p[2]] = a[p[1]]
             /\ b[p[1]] <= b[p[2]]
<1> DEFINE b == CompareAndSwap(a, p)
<1>1. p[1] \in 1 .. n /\ p[2] \in 1 .. n /\ p[1] < p[2]
  BY DEF Pairs
<1>2. \A k \in 1 .. n : a[k] \in Int
  BY DEF Arrays
<1>3. CASE a[p[1]] > a[p[2]]
  <2>1. b = [a EXCEPT ![p[1]] = a[p[2]], ![p[2]] = a[p[1]]]
    BY <1>3 DEF CompareAndSwap
  <2> HIDE DEF b
  <2>2. /\ b \in Arrays(n) /\ b[p[1]] = a[p[2]] /\ b[p[2]] = a[p[1]]
        /\ \A k \in 1 .. n : k # p[1] /\ k # p[2] => b[k] = a[k]
    BY <1>1, <1>2, <2>1 DEF Arrays
  <2>3. b[p[1]] <= b[p[2]]
    BY <1>1, <1>2, <1>3, <2>2
  <2> DEFINE h == [k \in 1 .. n |-> IF k = p[1] THEN p[2] ELSE IF k = p[2] THEN p[1] ELSE k]
  <2>4. h \in [1 .. n -> 1 .. n]
    BY <1>1
  <2>5. /\ \A x \in 1 .. n, y \in 1 .. n : h[x] = h[y] => x = y
        /\ \A k \in 1 .. n : a[k] = b[h[k]]
    BY <1>1, <2>2
  <2>6. Rearranged(n, a, b)
    BY <2>4, <2>5 DEF Rearranged
  <2> QED BY <2>2, <2>3, <2>6 DEF b
<1>4. CASE a[p[1]] <= a[p[2]]
  <2>1. b = a
    BY <1>1, <1>2, <1>4 DEF CompareAndSwap
  <2> QED BY <1>4, <2>1, RearrangedSame
<1>5. a[p[1]] > a[p[2]] \/ a[p[1]] <= a[p[2]]
  BY <1>1, <1>2
<1> QED BY <1>3, <1>4, <1>5

(* The comparisons of a round, step by step. *)
RoundSteps(n, a, pairs) ==
  \E s \in [0 .. Len(pairs) -> Arrays(n)] :
    /\ s[0] = a
    /\ \A k \in 1 .. Len(pairs) : s[k] = CompareAndSwap(s[k - 1], pairs[k])
    /\ Compared(a, pairs) = s[Len(pairs)]

(* Compared, one comparison at a time. *)
LEMMA ComparedSteps ==
  ASSUME NEW n \in Nat, NEW a \in Arrays(n), NEW pairs \in Seq(Pairs(n))
  PROVE  RoundSteps(n, a, pairs)
<1>1. PICK L \in Nat : L = Len(pairs)
  OBVIOUS
<1>2. \A k \in 1 .. L : pairs[k] \in Pairs(n)
  BY <1>1
<1> DEFINE f == [k \in 1 .. L |-> [b \in Arrays(n) |-> CompareAndSwap(b, pairs[k])]]
<1>3. \A k \in 1 .. L, b \in Arrays(n) : CompareAndSwap(b, pairs[k]) \in Arrays(n)
  BY <1>2, CompareStep
<1>4. f \in [1 .. L -> [Arrays(n) -> Arrays(n)]]
  BY <1>3
<1>5. \A k \in 1 .. L, b \in Arrays(n) : f[k][b] = CompareAndSwap(b, pairs[k])
  OBVIOUS
<1> HIDE DEF f
<1>6. \E s \in [0 .. L -> Arrays(n)] : s[0] = a /\ \A k \in 1 .. L : s[k] = f[k][s[k - 1]]
  <2> DEFINE A == Arrays(n)
  <2>1. a \in A /\ f \in [1 .. L -> [A -> A]]
    BY <1>4
  <2> HIDE DEF A
  <2>2. InARow(A, a, L, f)
    BY <1>1, <2>1, Recursion
  <2> QED BY <2>2 DEF A, InARow
<1>7. PICK s \in [0 .. L -> Arrays(n)] : s[0] = a /\ \A k \in 1 .. L : s[k] = f[k][s[k - 1]]
  BY <1>6
<1>8. \A k \in 1 .. L : s[k] = CompareAndSwap(s[k - 1], pairs[k])
  <2> TAKE k \in 1 .. L
  <2>1. k - 1 \in 0 .. L
    OBVIOUS
  <2> QED BY <2>1, <1>5, <1>7
<1> DEFINE Fixed(g) == g = [k \in 0 .. L |-> IF k = 0 THEN a ELSE CompareAndSwap(g[k - 1], pairs[k])]
<1>9. Fixed(s)
  BY <1>7, <1>8
<1>10. ASSUME NEW g, Fixed(g) PROVE g[L] = s[L]
  <2> DEFINE S == {k \in 0 .. L : g[k] = s[k]}
  <2>1. 0 \in S
    BY <1>1, <1>7, <1>10
  <2>2. ASSUME NEW k \in 1 .. L, k - 1 \in S PROVE k \in S
    <3>1. k \in 0 .. L /\ k # 0
      OBVIOUS
    <3>2. g[k] = CompareAndSwap(g[k - 1], pairs[k])
      BY <1>10, <3>1
    <3>3. g[k - 1] = s[k - 1]
      BY <2>2
    <3> QED BY <1>8, <3>1, <3>2, <3>3
  <2> HIDE DEF S, Fixed
  <2>3. L \in S
    BY <1>1, <2>1, <2>2, AllSteps
  <2> QED BY <2>3 DEF S
<1>11. Compared(a, pairs) = (CHOOSE g : Fixed(g))[L]
  BY <1>1 DEF Compared
<1> HIDE DEF Fixed
<1>12. Fixed(CHOOSE g : Fixed(g))
  BY <1>9
<1>13. Compared(a, pairs) = s[L]
  BY <1>10, <1>11, <1>12
<1> QED BY <1>1, <1>7, <1>8, <1>13 DEF RoundSteps

(* The rounds of a sorting, step by step. *)
SortSteps(n, a, rounds) ==
  \E s \in [0 .. Len(rounds) -> Arrays(n)] :
    /\ s[0] = a
    /\ \A j \in 1 .. Len(rounds) : s[j] = Compared(s[j - 1], rounds[j])
    /\ Sorted(a, rounds) = s[Len(rounds)]

(* Sorted, one round at a time. *)
LEMMA SortedSteps ==
  ASSUME NEW n \in Nat, NEW a \in Arrays(n), NEW rounds \in Seq(Seq(Pairs(n)))
  PROVE  SortSteps(n, a, rounds)
<1>1. PICK L \in Nat : L = Len(rounds)
  OBVIOUS
<1>2. \A j \in 1 .. L : rounds[j] \in Seq(Pairs(n))
  BY <1>1
<1> DEFINE f == [j \in 1 .. L |-> [b \in Arrays(n) |-> Compared(b, rounds[j])]]
<1>3. ASSUME NEW j \in 1 .. L, NEW b \in Arrays(n)
      PROVE  Compared(b, rounds[j]) \in Arrays(n)
  <2>1. rounds[j] \in Seq(Pairs(n))
    BY <1>2
  <2>2. RoundSteps(n, b, rounds[j])
    BY <2>1, ComparedSteps
  <2>3. Len(rounds[j]) \in Nat
    BY <2>1
  <2> QED BY <2>2, <2>3 DEF RoundSteps
<1>4. f \in [1 .. L -> [Arrays(n) -> Arrays(n)]]
  BY <1>3
<1>5. \A j \in 1 .. L, b \in Arrays(n) : f[j][b] = Compared(b, rounds[j])
  OBVIOUS
<1> HIDE DEF f
<1>6. \E s \in [0 .. L -> Arrays(n)] : s[0] = a /\ \A j \in 1 .. L : s[j] = f[j][s[j - 1]]
  <2> DEFINE A == Arrays(n)
  <2>1. a \in A /\ f \in [1 .. L -> [A -> A]]
    BY <1>4
  <2> HIDE DEF A
  <2>2. InARow(A, a, L, f)
    BY <1>1, <2>1, Recursion
  <2> QED BY <2>2 DEF A, InARow
<1>7. PICK s \in [0 .. L -> Arrays(n)] : s[0] = a /\ \A j \in 1 .. L : s[j] = f[j][s[j - 1]]
  BY <1>6
<1>8. \A j \in 1 .. L : s[j] = Compared(s[j - 1], rounds[j])
  <2> TAKE j \in 1 .. L
  <2>1. j - 1 \in 0 .. L
    OBVIOUS
  <2> QED BY <2>1, <1>5, <1>7
<1> DEFINE Fixed(g) == g = [j \in 0 .. L |-> IF j = 0 THEN a ELSE Compared(g[j - 1], rounds[j])]
<1>9. Fixed(s)
  BY <1>7, <1>8
<1>10. ASSUME NEW g, Fixed(g) PROVE g[L] = s[L]
  <2> DEFINE S == {j \in 0 .. L : g[j] = s[j]}
  <2>1. 0 \in S
    BY <1>1, <1>7, <1>10
  <2>2. ASSUME NEW j \in 1 .. L, j - 1 \in S PROVE j \in S
    <3>1. j \in 0 .. L /\ j # 0
      OBVIOUS
    <3>2. g[j] = Compared(g[j - 1], rounds[j])
      BY <1>10, <3>1
    <3>3. g[j - 1] = s[j - 1]
      BY <2>2
    <3> QED BY <1>8, <3>1, <3>2, <3>3
  <2> HIDE DEF S, Fixed
  <2>3. L \in S
    BY <1>1, <2>1, <2>2, AllSteps
  <2> QED BY <2>3 DEF S
<1>11. Sorted(a, rounds) = (CHOOSE g : Fixed(g))[L]
  BY <1>1 DEF Sorted
<1> HIDE DEF Fixed
<1>12. Fixed(CHOOSE g : Fixed(g))
  BY <1>9
<1>13. Sorted(a, rounds) = s[L]
  BY <1>10, <1>11, <1>12
<1> QED BY <1>1, <1>7, <1>8, <1>13 DEF SortSteps

(* A round only moves values, and so does a sorting. *)
LEMMA RoundKeeps ==
  ASSUME NEW n \in Nat, NEW a \in Arrays(n), NEW pairs \in Seq(Pairs(n))
  PROVE  Compared(a, pairs) \in Arrays(n) /\ Rearranged(n, a, Compared(a, pairs))
<1>1. PICK L \in Nat : L = Len(pairs)
  OBVIOUS
<1>2. PICK s \in [0 .. L -> Arrays(n)] :
        /\ s[0] = a
        /\ \A k \in 1 .. L : s[k] = CompareAndSwap(s[k - 1], pairs[k])
        /\ Compared(a, pairs) = s[L]
  BY <1>1, ComparedSteps DEF RoundSteps
<1> DEFINE S == {k \in 0 .. L : Rearranged(n, a, s[k])}
<1>3. 0 \in S
  BY <1>1, <1>2, RearrangedSame
<1>4. ASSUME NEW k \in 1 .. L, k - 1 \in S PROVE k \in S
  <2>1. pairs[k] \in Pairs(n) /\ s[k - 1] \in Arrays(n) /\ k \in 0 .. L
    BY <1>1, <1>2
  <2>2. Rearranged(n, s[k - 1], s[k])
    BY <1>2, <2>1, CompareStep
  <2>3. Rearranged(n, a, s[k - 1])
    BY <1>4
  <2> QED BY <2>1, <2>2, <2>3, RearrangedTwice
<1> HIDE DEF S
<1>5. L \in S
  BY <1>1, <1>3, <1>4, AllSteps
<1> QED BY <1>1, <1>2, <1>5 DEF S

(* All rounds together only move values. *)
LEMMA SortKeeps ==
  ASSUME NEW n \in Nat, NEW a \in Arrays(n), NEW rounds \in Seq(Seq(Pairs(n)))
  PROVE  Sorted(a, rounds) \in Arrays(n) /\ Rearranged(n, a, Sorted(a, rounds))
<1>1. PICK L \in Nat : L = Len(rounds)
  OBVIOUS
<1>2. PICK s \in [0 .. L -> Arrays(n)] :
        /\ s[0] = a
        /\ \A j \in 1 .. L : s[j] = Compared(s[j - 1], rounds[j])
        /\ Sorted(a, rounds) = s[L]
  BY <1>1, SortedSteps DEF SortSteps
<1> DEFINE S == {j \in 0 .. L : Rearranged(n, a, s[j])}
<1>3. 0 \in S
  BY <1>1, <1>2, RearrangedSame
<1>4. ASSUME NEW j \in 1 .. L, j - 1 \in S PROVE j \in S
  <2>0. rounds[j] \in Seq(Pairs(n))
    BY <1>1
  <2>1. s[j - 1] \in Arrays(n) /\ j \in 0 .. L
    BY <1>2
  <2>2. Rearranged(n, s[j - 1], s[j])
    BY <1>2, <2>0, <2>1, RoundKeeps
  <2>3. Rearranged(n, a, s[j - 1])
    BY <1>4
  <2> QED BY <2>1, <2>2, <2>3, RearrangedTwice
<1> HIDE DEF S
<1>5. L \in S
  BY <1>1, <1>3, <1>4, AllSteps
<1> QED BY <1>1, <1>2, <1>5 DEF S

Ordered(n, b) == \A p \in 1 .. n, q \in 1 .. n : p <= q => b[p] <= b[q]

(* A round of getMedianNum carries the largest of the first m + 1 values to *)
(* place m + 1.                                                             *)
Bubbled(n, m, a, b) ==
  /\ b \in Arrays(n)
  /\ \A q \in m + 2 .. n : b[q] = a[q]
  /\ \A p \in 1 .. m + 1 : b[p] <= b[m + 1]
  /\ \A v \in Int : (\A p \in 1 .. m + 1 : a[p] <= v) => \A p \in 1 .. m + 1 : b[p] <= v

(* A round of neighbours brings the largest value to its end. *)
LEMMA BubbleRound ==
  ASSUME NEW n \in Nat, NEW a \in Arrays(n), NEW m \in 1 .. n - 1,
         NEW pairs, pairs = [i \in 1 .. m |-> << i, i + 1 >>]
  PROVE  Bubbled(n, m, a, Compared(a, pairs))
<1>1. pairs \in Seq(Pairs(n)) /\ Len(pairs) = m
  <2>1. \A i \in 1 .. m : << i, i + 1 >> \in Pairs(n)
    BY DEF Pairs
  <2>2. m \in Nat
    OBVIOUS
  <2> QED BY <2>1, <2>2
<1>2. PICK s \in [0 .. m -> Arrays(n)] :
        /\ s[0] = a
        /\ \A k \in 1 .. m : s[k] = CompareAndSwap(s[k - 1], pairs[k])
        /\ Compared(a, pairs) = s[m]
  <2>1. RoundSteps(n, a, pairs)
    BY <1>1, ComparedSteps
  <2> QED BY <1>1, <2>1 DEF RoundSteps
<1> DEFINE Good(k) ==
             /\ \A q \in m + 2 .. n : s[k][q] = a[q]
             /\ \A p \in 1 .. k + 1 : s[k][p] <= s[k][k + 1]
             /\ \A v \in Int : (\A p \in 1 .. m + 1 : a[p] <= v) => \A p \in 1 .. m + 1 : s[k][p] <= v
           S == {k \in 0 .. m : Good(k)}
<1>3. 0 \in S
  <2>1. s[0] = a /\ a[1] \in Int
    BY <1>2 DEF Arrays
  <2> QED BY <2>1
<1>4. ASSUME NEW k \in 1 .. m, k - 1 \in S PROVE k \in S
  <2> DEFINE c == s[k - 1]
             d == s[k]
  <2>1. pairs[k] = << k, k + 1 >> /\ pairs[k] \in Pairs(n) /\ c \in Arrays(n)
    BY <1>1, <1>2 DEF Pairs
  <2>2. d = CompareAndSwap(c, pairs[k])
    BY <1>2
  <2>3. Good(k - 1)
    BY <1>4
  <2>4. /\ \A q \in m + 2 .. n : c[q] = a[q]
        /\ \A p \in 1 .. k : c[p] <= c[k]
        /\ \A v \in Int : (\A p \in 1 .. m + 1 : a[p] <= v) => \A p \in 1 .. m + 1 : c[p] <= v
    BY <2>3
  <2> HIDE DEF c, d
  <2>5. /\ d \in Arrays(n)
        /\ \A j \in 1 .. n : j # k /\ j # k + 1 => d[j] = c[j]
        /\ \/ d[k] = c[k] /\ d[k + 1] = c[k + 1]
           \/ d[k] = c[k + 1] /\ d[k + 1] = c[k]
        /\ d[k] <= d[k + 1]
    BY <2>1, <2>2, CompareStep
  <2>6. \A j \in 1 .. n : c[j] \in Int /\ d[j] \in Int
    BY <2>1, <2>5 DEF Arrays
  <2>7. \A q \in m + 2 .. n : d[q] = a[q]
    BY <2>4, <2>5
  <2>8. \A p \in 1 .. k + 1 : d[p] <= d[k + 1]
    BY <2>4, <2>5, <2>6
  <2>9. ASSUME NEW v \in Int, \A p \in 1 .. m + 1 : a[p] <= v, NEW p \in 1 .. m + 1
        PROVE  d[p] <= v
    <3>1. \A j \in 1 .. m + 1 : c[j] <= v
      BY <2>4, <2>9
    <3>2. c[p] <= v /\ c[k] <= v /\ c[k + 1] <= v /\ p \in 1 .. n
      BY <3>1
    <3> QED BY <2>5, <3>2
  <2> QED BY <2>7, <2>8, <2>9 DEF d
<1> HIDE DEF S
<1>5. m \in S
  BY <1>3, <1>4, AllSteps
<1>6. Good(m)
  BY <1>5 DEF S
<1>7. s[m] \in Arrays(n)
  BY <1>2
<1> QED BY <1>2, <1>6, <1>7 DEF Bubbled

(* A round of the pH readings puts the smallest from place m on at m.       *)
Exchanged(n, m, a, b) ==
  /\ b \in Arrays(n)
  /\ \A q \in 1 .. m - 1 : b[q] = a[q]
  /\ \A p \in m .. n : b[m] <= b[p]
  /\ \A v \in Int : (\A p \in m .. n : v <= a[p]) => \A p \in m .. n : v <= b[p]

(* A round of one place against all after it leaves the smallest there. *)
LEMMA ExchangeRound ==
  ASSUME NEW n \in Nat, NEW a \in Arrays(n), NEW m \in 1 .. n - 1,
         NEW pairs, pairs = [j \in 1 .. n - m |-> << m, m + j >>]
  PROVE  Exchanged(n, m, a, Compared(a, pairs))
<1>1. PICK L \in Nat : L = n - m
  OBVIOUS
<1>2. pairs \in Seq(Pairs(n)) /\ Len(pairs) = L
  <2>1. \A j \in 1 .. L : << m, m + j >> \in Pairs(n)
    BY <1>1 DEF Pairs
  <2>2. pairs = [j \in 1 .. L |-> << m, m + j >>]
    BY <1>1
  <2>3. pairs = [j \in 1 .. L |-> pairs[j]] /\ \A j \in 1 .. L : pairs[j] \in Pairs(n)
    BY <2>1, <2>2
  <2> QED BY <1>1, <2>3, IsSequence
<1>3. PICK s \in [0 .. L -> Arrays(n)] :
        /\ s[0] = a
        /\ \A k \in 1 .. L : s[k] = CompareAndSwap(s[k - 1], pairs[k])
        /\ Compared(a, pairs) = s[L]
  <2>1. RoundSteps(n, a, pairs)
    BY <1>2, ComparedSteps
  <2> QED BY <1>1, <1>2, <2>1 DEF RoundSteps
<1> DEFINE Good(k) ==
             /\ \A q \in 1 .. m - 1 : s[k][q] = a[q]
             /\ \A p \in m .. m + k : s[k][m] <= s[k][p]
             /\ \A v \in Int : (\A p \in m .. n : v <= a[p]) => \A p \in m .. n : v <= s[k][p]
           S == {k \in 0 .. L : Good(k)}
<1>4. 0 \in S
  <2>1. s[0] = a /\ a[m] \in Int
    BY <1>3 DEF Arrays
  <2> QED BY <1>1, <2>1
<1>5. ASSUME NEW k \in 1 .. L, k - 1 \in S PROVE k \in S
  <2> DEFINE c == s[k - 1]
             d == s[k]
  <2>1. pairs[k] = << m, m + k >> /\ pairs[k] \in Pairs(n) /\ c \in Arrays(n)
    BY <1>1, <1>2, <1>3 DEF Pairs
  <2>2. d = CompareAndSwap(c, pairs[k])
    BY <1>3
  <2>3. Good(k - 1)
    BY <1>5
  <2>4. /\ \A q \in 1 .. m - 1 : c[q] = a[q]
        /\ \A p \in m .. m + (k - 1) : c[m] <= c[p]
        /\ \A v \in Int : (\A p \in m .. n : v <= a[p]) => \A p \in m .. n : v <= c[p]
    BY <2>3
  <2> HIDE DEF c, d
  <2>5. /\ d \in Arrays(n)
        /\ \A j \in 1 .. n : j # m /\ j # m + k => d[j] = c[j]
        /\ \/ d[m] = c[m] /\ d[m + k] = c[m + k]
           \/ d[m] = c[m + k] /\ d[m + k] = c[m]
        /\ d[m] <= d[m + k]
    <3> DEFINE p == pairs[k]
    <3>1. p \in Pairs(n) /\ d = CompareAndSwap(c, p) /\ p[1] = m /\ p[2] = m + k
      <4>1. p = << m, m + k >> /\ p \in Pairs(n)
        BY <2>1
      <4>2. p[1] = m /\ p[2] = m + k
        BY <4>1
      <4> QED BY <2>2, <4>1, <4>2
    <3> HIDE DEF p
    <3>2. /\ d \in Arrays(n)
          /\ \A j \in 1 .. n : j # p[1] /\ j # p[2] => d[j] = c[j]
          /\ \/ d[p[1]] = c[p[1]] /\ d[p[2]] = c[p[2]]
             \/ d[p[1]] = c[p[2]] /\ d[p[2]] = c[p[1]]
          /\ d[p[1]] <= d[p[2]]
      BY <2>1, <3>1, CompareStep
    <3> QED BY <3>1, <3>2
  <2>6. \A j \in 1 .. n : c[j] \in Int /\ d[j] \in Int
    BY <2>1, <2>5 DEF Arrays
  <2>7. \A q \in 1 .. m - 1 : d[q] = a[q]
    BY <1>1, <2>4, <2>5
  <2>0. m + k \in 1 .. n /\ m + k # m /\ m \in 1 .. n
    BY <1>1
  <2>8. ASSUME NEW p \in m .. m + k PROVE d[m] <= d[p]
    <3>1. d[m] <= d[m] /\ d[m] <= d[m + k]
      BY <2>0, <2>5, <2>6
    <3>2. CASE p # m /\ p # m + k
      <4>1. p \in 1 .. n /\ p \in m .. m + (k - 1) /\ m \in m .. m + (k - 1)
        BY <1>1, <3>2
      <4>2. d[p] = c[p] /\ c[m] <= c[p]
        BY <2>4, <2>5, <3>2, <4>1
      <4>3. d[m] <= c[m]
        BY <2>0, <2>5, <2>6
      <4> QED BY <2>0, <2>6, <4>1, <4>2, <4>3
    <3> QED BY <3>1, <3>2
  <2>9. ASSUME NEW v \in Int, \A p \in m .. n : v <= a[p], NEW p \in m .. n
        PROVE  v <= d[p]
    <3>1. \A j \in m .. n : v <= c[j]
      BY <2>4, <2>9
    <3>2. v <= c[p] /\ v <= c[m] /\ v <= c[m + k] /\ p \in 1 .. n
      BY <1>1, <2>0, <3>1
    <3> QED BY <2>5, <3>2
  <2> QED BY <1>1, <2>7, <2>8, <2>9 DEF d
<1> HIDE DEF S
<1>6. L \in S
  BY <1>1, <1>4, <1>5, AllSteps
<1>7. Good(L) /\ s[L] \in Arrays(n)
  BY <1>1, <1>3, <1>6 DEF S
<1>8. m + L = n
  BY <1>1
<1> QED BY <1>3, <1>7, <1>8 DEF Exchanged

(* getMedianNum sorts. *)
LEMMA BubblesSort ==
  ASSUME NEW n \in Nat \ {0}, NEW a \in Arrays(n)
  PROVE  LET b == Sorted(a, Bubbles(n))
         IN  b \in Arrays(n) /\ Rearranged(n, a, b) /\ Ordered(n, b)
<1> DEFINE rounds == Bubbles(n)
<1>1. PICK L \in Nat : L = n - 1
  OBVIOUS
<1>2. ASSUME NEW j \in 1 .. L
      PROVE  /\ rounds[j] = [i \in 1 .. n - j |-> << i, i + 1 >>]
             /\ rounds[j] \in Seq(Pairs(n))
  <2>1. rounds[j] = [i \in 1 .. n - j |-> << i, i + 1 >>]
    BY <1>1 DEF Bubbles
  <2>2. \A i \in 1 .. n - j : << i, i + 1 >> \in Pairs(n)
    BY <1>1 DEF Pairs
  <2>3. n - j \in Nat
    BY <1>1
  <2> QED BY <2>1, <2>2, <2>3
<1>3. rounds \in Seq(Seq(Pairs(n))) /\ Len(rounds) = L
  <2>1. rounds = [j \in 1 .. L |-> rounds[j]]
    BY <1>1 DEF Bubbles
  <2> HIDE DEF rounds
  <2> QED BY <1>1, <1>2, <2>1
<1> HIDE DEF rounds
<1>4. PICK s \in [0 .. L -> Arrays(n)] :
        /\ s[0] = a
        /\ \A j \in 1 .. L : s[j] = Compared(s[j - 1], rounds[j])
        /\ Sorted(a, rounds) = s[L]
  <2>1. SortSteps(n, a, rounds)
    BY <1>3, SortedSteps
  <2> QED BY <1>1, <1>3, <2>1 DEF SortSteps
<1> DEFINE S == {j \in 0 .. L : \A q \in n - j + 1 .. n, p \in 1 .. n : p <= q => s[j][p] <= s[j][q]}
<1>5. 0 \in S
  BY <1>1
<1>6. ASSUME NEW j \in 1 .. L, j - 1 \in S PROVE j \in S
  <2> DEFINE c == s[j - 1]
             d == s[j]
             m == n - j
  <2>1. /\ c \in Arrays(n) /\ d = Compared(c, rounds[j])
        /\ rounds[j] = [i \in 1 .. m |-> << i, i + 1 >>]
    <3>1. j - 1 \in 0 .. L
      OBVIOUS
    <3> QED BY <1>2, <1>4, <3>1
  <2>10. m \in 1 .. n - 1
    BY <1>1
  <2>2. \A q \in n - (j - 1) + 1 .. n, p \in 1 .. n : p <= q => c[p] <= c[q]
    BY <1>6
  <2> HIDE DEF c, d
  <2>3. \A q \in m + 2 .. n, p \in 1 .. n : p <= q => c[p] <= c[q]
    BY <1>1, <2>2
  <2>4. /\ d \in Arrays(n)
        /\ \A q \in m + 2 .. n : d[q] = c[q]
        /\ \A p \in 1 .. m + 1 : d[p] <= d[m + 1]
        /\ \A v \in Int : (\A p \in 1 .. m + 1 : c[p] <= v) => \A p \in 1 .. m + 1 : d[p] <= v
    <3>1. Bubbled(n, m, c, d)
      BY <2>1, <2>10, BubbleRound
    <3> QED BY <3>1 DEF Bubbled
  <2>5. \A k \in 1 .. n : c[k] \in Int /\ d[k] \in Int
    BY <2>1, <2>4 DEF Arrays
  <2>6. ASSUME NEW q \in n - j + 1 .. n, NEW p \in 1 .. n, p <= q PROVE d[p] <= d[q]
    <3>1. CASE q = m + 1
      BY <2>4, <2>6, <3>1
    <3>2. CASE q # m + 1
      <4>1. q \in m + 2 .. n /\ q \in 1 .. n
        BY <1>1, <3>2
      <4>2. d[q] = c[q] /\ d[q] \in Int
        BY <2>4, <2>5, <4>1
      <4>3. CASE p \in m + 2 .. n
        BY <2>3, <2>4, <2>6, <4>1, <4>3
      <4>4. CASE p \in 1 .. m + 1
        <5>1. \A k \in 1 .. m + 1 : c[k] <= d[q]
          BY <1>1, <2>3, <4>1, <4>2
        <5> QED BY <2>4, <4>2, <4>4, <5>1
      <4> QED BY <2>10, <4>3, <4>4
    <3> QED BY <3>1, <3>2
  <2> QED BY <1>1, <2>6 DEF d
<1> HIDE DEF S
<1>7. L \in S
  BY <1>1, <1>5, <1>6, AllSteps
<1>8. \A q \in n - L + 1 .. n, p \in 1 .. n : p <= q => s[L][p] <= s[L][q]
  BY <1>7 DEF S
<1>9. Ordered(n, s[L])
  <2>1. s[L] \in Arrays(n)
    BY <1>1, <1>4
  <2>2. \A k \in 1 .. n : s[L][k] \in Int
    BY <2>1 DEF Arrays
  <2>3. ASSUME NEW p \in 1 .. n, NEW q \in 1 .. n, p <= q PROVE s[L][p] <= s[L][q]
    <3>1. CASE q = 1
      BY <2>2, <2>3, <3>1
    <3>2. CASE q # 1
      BY <1>1, <1>8, <2>3, <3>2
    <3> QED BY <3>1, <3>2
  <2> QED BY <2>3 DEF Ordered
<1>10. Sorted(a, rounds) \in Arrays(n) /\ Rearranged(n, a, Sorted(a, rounds))
  BY <1>3, SortKeeps
<1> QED BY <1>4, <1>9, <1>10 DEF rounds

(* The loops over the pH readings sort. *)
LEMMA ExchangesSort ==
  ASSUME NEW n \in Nat \ {0}, NEW a \in Arrays(n)
  PROVE  LET b == Sorted(a, Exchanges(n))
         IN  b \in Arrays(n) /\ Rearranged(n, a, b) /\ Ordered(n, b)
<1> DEFINE rounds == Exchanges(n)
<1>1. PICK L \in Nat : L = n - 1
  OBVIOUS
<1>2. ASSUME NEW j \in 1 .. L
      PROVE  /\ rounds[j] = [i \in 1 .. n - j |-> << j, j + i >>]
             /\ rounds[j] \in Seq(Pairs(n))
  <2>1. rounds[j] = [i \in 1 .. n - j |-> << j, j + i >>]
    BY <1>1 DEF Exchanges
  <2>2. \A i \in 1 .. n - j : << j, j + i >> \in Pairs(n)
    BY <1>1 DEF Pairs
  <2>3. n - j \in Nat
    BY <1>1
  <2> HIDE DEF rounds
  <2>4. /\ rounds[j] = [i \in 1 .. n - j |-> rounds[j][i]]
        /\ \A i \in 1 .. n - j : rounds[j][i] \in Pairs(n)
    BY <2>1, <2>2
  <2>5. rounds[j] \in Seq(Pairs(n))
    BY <2>3, <2>4, IsSequence
  <2> QED BY <2>1, <2>5
<1>3. rounds \in Seq(Seq(Pairs(n))) /\ Len(rounds) = L
  <2>1. rounds = [j \in 1 .. L |-> rounds[j]]
    BY <1>1 DEF Exchanges
  <2> HIDE DEF rounds
  <2> QED BY <1>1, <1>2, <2>1, IsSequence
<1> HIDE DEF rounds
<1>4. PICK s \in [0 .. L -> Arrays(n)] :
        /\ s[0] = a
        /\ \A j \in 1 .. L : s[j] = Compared(s[j - 1], rounds[j])
        /\ Sorted(a, rounds) = s[L]
  <2>1. SortSteps(n, a, rounds)
    BY <1>3, SortedSteps
  <2> QED BY <1>1, <1>3, <2>1 DEF SortSteps
<1> DEFINE S == {j \in 0 .. L : \A p \in 1 .. j, q \in 1 .. n : p <= q => s[j][p] <= s[j][q]}
<1>5. 0 \in S
  BY <1>1
<1>6. ASSUME NEW j \in 1 .. L, j - 1 \in S PROVE j \in S
  <2> DEFINE c == s[j - 1]
             d == s[j]
  <2>1. /\ c \in Arrays(n) /\ d = Compared(c, rounds[j])
        /\ rounds[j] = [i \in 1 .. n - j |-> << j, j + i >>]
    <3>1. j - 1 \in 0 .. L
      OBVIOUS
    <3> QED BY <1>2, <1>4, <3>1
  <2>2. j \in 1 .. n - 1
    BY <1>1
  <2>3. \A p \in 1 .. j - 1, q \in 1 .. n : p <= q => c[p] <= c[q]
    BY <1>6
  <2> HIDE DEF c, d
  <2>4. /\ d \in Arrays(n)
        /\ \A q \in 1 .. j - 1 : d[q] = c[q]
        /\ \A p \in j .. n : d[j] <= d[p]
        /\ \A v \in Int : (\A p \in j .. n : v <= c[p]) => \A p \in j .. n : v <= d[p]
    <3>1. Exchanged(n, j, c, d)
      BY <2>1, <2>2, ExchangeRound
    <3> QED BY <3>1 DEF Exchanged
  <2>5. \A k \in 1 .. n : c[k] \in Int /\ d[k] \in Int
    BY <2>1, <2>4 DEF Arrays
  <2>6. ASSUME NEW p \in 1 .. j, NEW q \in 1 .. n, p <= q PROVE d[p] <= d[q]
    <3>1. CASE p = j
      BY <2>2, <2>4, <2>6, <3>1
    <3>2. CASE p # j
      <4>1. p \in 1 .. j - 1 /\ p \in 1 .. n
        BY <2>2, <3>2
      <4>2. d[p] = c[p] /\ d[p] \in Int
        BY <2>4, <2>5, <4>1
      <4>3. CASE q \in 1 .. j - 1
        BY <2>3, <2>4, <2>6, <4>1, <4>3
      <4>4. CASE q \in j .. n
        <5>1. \A k \in j .. n : d[p] <= c[k]
          BY <2>2, <2>3, <4>1, <4>2
        <5> QED BY <2>4, <4>2, <4>4, <5>1
      <4> QED BY <2>2, <4>3, <4>4
    <3> QED BY <3>1, <3>2
  <2> QED BY <2>6 DEF d
<1> HIDE DEF S
<1>7. L \in S
  BY <1>1, <1>5, <1>6, AllSteps
<1>8. \A p \in 1 .. L, q \in 1 .. n : p <= q => s[L][p] <= s[L][q]
  BY <1>7 DEF S
<1>9. Ordered(n, s[L])
  <2>1. s[L] \in Arrays(n)
    BY <1>1, <1>4
  <2>2. \A k \in 1 .. n : s[L][k] \in Int
    BY <2>1 DEF Arrays
  <2>3. ASSUME NEW p \in 1 .. n, NEW q \in 1 .. n, p <= q PROVE s[L][p] <= s[L][q]
    <3>1. CASE p = n
      BY <2>2, <2>3, <3>1
    <3>2. CASE p # n
      BY <1>1, <1>8, <2>3, <3>2
    <3> QED BY <3>1, <3>2
  <2> QED BY <2>3 DEF Ordered
<1>10. Sorted(a, rounds) \in Arrays(n) /\ Rearranged(n, a, Sorted(a, rounds))
  BY <1>3, SortKeeps
<1> QED BY <1>4, <1>9, <1>10 DEF rounds

----------------------------------------------------------------------------
(* What the sorted values say of the others. *)

(* Places that one-to-one h takes to different places of lo .. hi are no    *)
(* more than those.                                                         *)
LEMMA Crowded ==
  ASSUME NEW n \in Nat, NEW h \in [1 .. n -> 1 .. n],
         \A x \in 1 .. n, y \in 1 .. n : h[x] = h[y] => x = y,
         NEW X \in SUBSET (1 .. n), NEW lo \in Int, NEW hi \in Int, lo <= hi + 1,
         \A x \in X : h[x] \in lo .. hi
  PROVE  IsFiniteSet(X) /\ Cardinality(X) \in Nat /\ Cardinality(X) <= hi - lo + 1
<1>1. IsFiniteSet(1 .. n) /\ IsFiniteSet(lo .. hi)
  BY FS_Interval
<1>2. IsFiniteSet(X)
  BY <1>1, FS_Subset
<1>3. Cardinality(lo .. hi) = hi - lo + 1
  <2>1. Cardinality(lo .. hi) = IF lo > hi THEN 0 ELSE hi - lo + 1
    BY FS_Interval
  <2> QED BY <2>1
<1> DEFINE g == [x \in X |-> h[x]]
<1>4. g \in Injection(X, lo .. hi)
  BY DEF Injection, IsInjective
<1> HIDE DEF g
<1>5. Cardinality(X) <= Cardinality(lo .. hi)
  BY <1>1, <1>4, FS_Injection
<1>6. Cardinality(X) \in Nat
  BY <1>2, FS_CardinalityType
<1> QED BY <1>2, <1>3, <1>5, <1>6

(* getMedianNum answers a median, of the values it is given and of the same *)
(* values in other places, by which the samples will be known.              *)
LEMMA MedianRight ==
  ASSUME NEW n \in Nat \ {0}, NEW a \in Arrays(n), NEW b \in Arrays(n), Rearranged(n, a, b)
  PROVE  2 * Smaller(getMedianNum(b), a) <= n /\ 2 * Larger(getMedianNum(b), a) <= n
<1> DEFINE t == Sorted(b, Bubbles(n))
           v == getMedianNum(b)
<1>1. t \in Arrays(n) /\ Rearranged(n, b, t) /\ Ordered(n, t)
  BY BubblesSort
<1>2. v = IF n % 2 = 1 THEN t[(n + 1) \div 2] ELSE (t[n \div 2 + 1] + t[n \div 2]) \div 2
  <2>1. Len(b) = n
    BY DEF Arrays
  <2> QED BY <2>1 DEF getMedianNum
<1> HIDE DEF t, v
<1>3. PICK h \in [1 .. n -> 1 .. n] :
        /\ \A x \in 1 .. n, y \in 1 .. n : h[x] = h[y] => x = y
        /\ \A k \in 1 .. n : a[k] = t[h[k]]
  <2>1. Rearranged(n, a, t)
    BY <1>1, RearrangedTwice
  <2> QED BY <2>1 DEF Rearranged
<1>4. PICK c \in Nat : c = n \div 2
  OBVIOUS
<1>5. \A k \in 1 .. n : a[k] \in Int /\ t[k] \in Int
  BY <1>1 DEF Arrays
<1>6. 2 * c <= n /\ v \in Int /\ \A k \in 1 .. n : (t[k] < v => k <= c) /\ (t[k] > v => k >= n - c + 1)
  <2>1. CASE n % 2 = 1
    <3>1. n = 2 * c + 1 /\ (n + 1) \div 2 = c + 1 /\ c + 1 \in 1 .. n
      BY <1>4, <2>1
    <3>2. v = t[c + 1]
      BY <1>2, <2>1, <3>1
    <3>3. \A k \in 1 .. n : (k <= c + 1 => t[k] <= v) /\ (k >= c + 1 => v <= t[k])
      BY <1>1, <3>1, <3>2 DEF Ordered
    <3> QED BY <1>4, <1>5, <3>1, <3>2, <3>3
  <2>2. CASE n % 2 # 1
    <3>1. n = 2 * c /\ c \in 1 .. n /\ c + 1 \in 1 .. n
      BY <1>4, <2>2
    <3>2. v = (t[c + 1] + t[c]) \div 2 /\ t[c] \in Int /\ t[c + 1] \in Int /\ t[c] <= t[c + 1]
      BY <1>1, <1>2, <1>4, <1>5, <2>2, <3>1 DEF Ordered
    <3>3. v \in Int /\ t[c] \in Int /\ t[c + 1] \in Int /\ t[c] <= v /\ v <= t[c + 1]
      BY <3>2
    <3>4. \A k \in 1 .. n : (k <= c => t[k] <= t[c]) /\ (k >= c + 1 => t[c + 1] <= t[k])
      BY <1>1, <3>1 DEF Ordered
    <3>5. ASSUME NEW k \in 1 .. n PROVE (t[k] < v => k <= c) /\ (t[k] > v => k >= n - c + 1)
      <4>1. t[k] \in Int /\ (k <= c \/ k >= c + 1) /\ n - c + 1 = c + 1
        BY <1>4, <1>5, <3>1
      <4>2. \A x \in Int, y \in Int, z \in Int : x <= y /\ y <= z => x <= z
        OBVIOUS
      <4>3. ASSUME k <= c PROVE t[k] <= v
        <5>1. t[k] <= t[c]
          BY <3>4, <4>3
        <5> QED BY <3>3, <4>1, <4>2, <5>1
      <4>4. ASSUME k >= c + 1 PROVE v <= t[k]
        <5>1. t[c + 1] <= t[k]
          BY <3>4, <4>4
        <5> QED BY <3>3, <4>1, <4>2, <5>1
      <4> QED BY <3>3, <4>1, <4>3, <4>4
    <3> QED BY <3>1, <3>3, <3>5
  <2> QED BY <2>1, <2>2
<1> DEFINE Low  == {i \in DOMAIN a : a[i] < v}
           High == {i \in DOMAIN a : a[i] > v}
<1>7. DOMAIN a = 1 .. n
  BY DEF Arrays
<1>8. Cardinality(Low) \in Nat /\ Cardinality(Low) <= c
  <2>1. Low \in SUBSET (1 .. n) /\ \A x \in Low : h[x] \in 1 .. c
    BY <1>3, <1>4, <1>6, <1>7
  <2> HIDE DEF Low
  <2>2. 1 \in Int /\ c \in Int /\ 1 <= c + 1
    BY <1>4
  <2>3. Cardinality(Low) \in Nat /\ Cardinality(Low) <= c - 1 + 1
    BY <1>3, <2>1, <2>2, Crowded
  <2> QED BY <1>4, <2>3
<1>9. Cardinality(High) \in Nat /\ Cardinality(High) <= c
  <2>1. High \in SUBSET (1 .. n) /\ \A x \in High : h[x] \in n - c + 1 .. n
    BY <1>3, <1>4, <1>6, <1>7
  <2> HIDE DEF High
  <2>2. n - c + 1 \in Int /\ n \in Int /\ n - c + 1 <= n + 1
    BY <1>4
  <2>3. Cardinality(High) \in Nat /\ Cardinality(High) <= n - (n - c + 1) + 1
    BY <1>3, <2>1, <2>2, Crowded
  <2> QED BY <1>4, <2>3
<1>10. Smaller(v, a) = Cardinality(Low) /\ Larger(v, a) = Cardinality(High)
  BY DEF Smaller, Larger
<1> HIDE DEF Low, High
<1> QED BY <1>4, <1>6, <1>8, <1>9, <1>10 DEF v

(* Places of X that one-to-one h takes to Y, or to one of the last n - k    *)
(* places, are no more than Y and those.                                    *)
LEMMA Displaced ==
  ASSUME NEW n \in Nat, NEW k \in 0 .. n, NEW h \in [1 .. n -> 1 .. n],
         \A x \in 1 .. n, y \in 1 .. n : h[x] = h[y] => x = y,
         NEW X \in SUBSET (1 .. n), NEW Y \in SUBSET (1 .. n),
         \A x \in X : h[x] <= k => h[x] \in Y
  PROVE  Cardinality(X) \in Nat /\ Cardinality(X) <= Cardinality(Y) + (n - k)
<1> DEFINE X1 == {x \in X : h[x] <= k}
           X2 == {x \in X : h[x] > k}
           g == [x \in X1 |-> h[x]]
<1>1. IsFiniteSet(1 .. n)
  BY FS_Interval
<1>2. IsFiniteSet(X1) /\ IsFiniteSet(X2) /\ IsFiniteSet(Y)
  BY <1>1, FS_Subset
<1>0. \A x \in X : h[x] \in Int /\ h[x] <= n /\ (h[x] <= k \/ h[x] > k)
  OBVIOUS
<1>3. X = X1 \cup X2
  BY <1>0
<1>4. g \in Injection(X1, Y)
  BY DEF Injection, IsInjective
<1>5. X2 \in SUBSET (1 .. n) /\ \A x \in X2 : h[x] \in k + 1 .. n
  <2>1. \A x \in X2 : x \in X /\ h[x] > k
    OBVIOUS
  <2> HIDE DEF X2
  <2>2. ASSUME NEW x \in X2 PROVE h[x] \in k + 1 .. n
    <3>1. x \in X /\ h[x] > k
      BY <2>1
    <3>2. h[x] \in Int /\ h[x] <= n /\ k \in Int
      BY <1>0, <3>1
    <3> DEFINE y == h[x]
    <3> HIDE DEF y
    <3>3. y \in Int /\ y <= n /\ y > k
      BY <3>1, <3>2 DEF y
    <3>4. y \in k + 1 .. n
      BY <3>2, <3>3
    <3> QED BY <3>4 DEF y
  <2>3. X2 \in SUBSET (1 .. n)
    BY <2>1
  <2> QED BY <2>2, <2>3
<1> HIDE DEF X1, X2, g
<1>6. Cardinality(X1) <= Cardinality(Y)
  BY <1>2, <1>4, FS_Injection
<1>7. Cardinality(X2) <= n - k
  <2>1. k + 1 \in Int /\ n \in Int /\ k + 1 <= n + 1
    OBVIOUS
  <2>2. Cardinality(X2) <= n - (k + 1) + 1
    BY <1>5, <2>1, Crowded
  <2> QED BY <2>2, <1>2, FS_CardinalityType
<1>8. /\ Cardinality(X1) \in Nat /\ Cardinality(X2) \in Nat /\ Cardinality(Y) \in Nat
      /\ Cardinality(X1 \cap X2) \in Nat
  <2>1. IsFiniteSet(X1 \cap X2)
    BY <1>2, FS_Intersection
  <2> QED BY <1>2, <2>1, FS_CardinalityType
<1>9. Cardinality(X) = Cardinality(X1) + Cardinality(X2) - Cardinality(X1 \cap X2)
  BY <1>2, <1>3, FS_Union
<1>10. Cardinality(X) \in Nat
  <2>1. IsFiniteSet(X)
    BY <1>1, FS_Subset
  <2> QED BY <2>1, FS_CardinalityType
<1> QED BY <1>6, <1>7, <1>8, <1>9, <1>10

(* An array t that holds the first k values of b, a in other places, has a  *)
(* median that is off that of a by the n - k values that t may miss.        *)
LEMMA MedianNear ==
  ASSUME NEW n \in Nat \ {0}, NEW k \in 0 .. n,
         NEW a \in Arrays(n), NEW b \in Arrays(n), NEW t \in Arrays(n),
         Rearranged(n, a, b), \A i \in 1 .. k : t[i] = b[i]
  PROVE  /\ 2 * Smaller(getMedianNum(t), a) <= n + 2 * (n - k)
         /\ 2 * Larger(getMedianNum(t), a) <= n + 2 * (n - k)
<1> DEFINE v == getMedianNum(t)
<1>1. 2 * Smaller(v, t) <= n /\ 2 * Larger(v, t) <= n
  BY RearrangedSame, MedianRight
<1>2. PICK h \in [1 .. n -> 1 .. n] :
        /\ \A x \in 1 .. n, y \in 1 .. n : h[x] = h[y] => x = y
        /\ \A x \in 1 .. n : a[x] = b[h[x]]
  BY DEF Rearranged
<1> HIDE DEF v
<1>3. DOMAIN a = 1 .. n /\ DOMAIN t = 1 .. n
  BY DEF Arrays
<1>4. ASSUME NEW x \in 1 .. n, h[x] <= k
      PROVE  h[x] \in 1 .. n /\ t[h[x]] = a[x]
  <2>1. h[x] \in 1 .. k /\ h[x] \in 1 .. n
    BY <1>2, <1>4
  <2> QED BY <1>2, <2>1
<1>5. IsFiniteSet(1 .. n)
  BY FS_Interval
<1>6. Smaller(v, a) \in Nat /\ Smaller(v, t) \in Nat /\ Smaller(v, a) <= Smaller(v, t) + (n - k)
  <2> DEFINE X == {i \in 1 .. n : a[i] < v}
             Y == {i \in 1 .. n : t[i] < v}
  <2>1. X \in SUBSET (1 .. n) /\ Y \in SUBSET (1 .. n) /\ \A x \in X : h[x] <= k => h[x] \in Y
    BY <1>4
  <2>2. Smaller(v, a) = Cardinality(X) /\ Smaller(v, t) = Cardinality(Y)
    BY <1>3 DEF Smaller
  <2> HIDE DEF X, Y
  <2>3. Cardinality(X) \in Nat /\ Cardinality(X) <= Cardinality(Y) + (n - k)
    BY <1>2, <2>1, Displaced
  <2>4. Cardinality(Y) \in Nat
    BY <1>5, <2>1, FS_Subset, FS_CardinalityType
  <2> QED BY <2>2, <2>3, <2>4
<1>7. Larger(v, a) \in Nat /\ Larger(v, t) \in Nat /\ Larger(v, a) <= Larger(v, t) + (n - k)
  <2> DEFINE X == {i \in 1 .. n : a[i] > v}
             Y == {i \in 1 .. n : t[i] > v}
  <2>1. X \in SUBSET (1 .. n) /\ Y \in SUBSET (1 .. n) /\ \A x \in X : h[x] <= k => h[x] \in Y
    BY <1>4
  <2>2. Larger(v, a) = Cardinality(X) /\ Larger(v, t) = Cardinality(Y)
    BY <1>3 DEF Larger
  <2> HIDE DEF X, Y
  <2>3. Cardinality(X) \in Nat /\ Cardinality(X) <= Cardinality(Y) + (n - k)
    BY <1>2, <2>1, Displaced
  <2>4. Cardinality(Y) \in Nat
    BY <1>5, <2>1, FS_Subset, FS_CardinalityType
  <2> QED BY <2>2, <2>3, <2>4
<1>8. \A p \in Nat, q \in Nat : 2 * q <= n /\ p <= q + (n - k) => 2 * p <= n + 2 * (n - k)
  OBVIOUS
<1>9. 2 * Smaller(v, a) <= n + 2 * (n - k)
  BY <1>1, <1>6, <1>8
<1>10. 2 * Larger(v, a) <= n + 2 * (n - k)
  BY <1>1, <1>7, <1>8
<1> QED BY <1>9, <1>10 DEF v

(* How many readings are left. *)
LEMMA TrimmedPlaces ==
  ASSUME NEW a \in Arrays(PhCount)
  PROVE  DOMAIN Trimmed(a) = 1 .. PhCount - 2 * PhTrim
<1> DEFINE t == Sorted(a, Exchanges(PhCount))
<1>1. t \in Arrays(PhCount)
  BY CountAssumption, ExchangesSort
<1> HIDE DEF t
<1>2. t \in Seq(Int) /\ Len(t) = PhCount
  BY <1>1, CountAssumption DEF Arrays
<1>3. DOMAIN SubSeq(t, PhTrim + 1, PhCount - PhTrim) = 1 .. PhCount - 2 * PhTrim
  BY <1>2, CountAssumption
<1> QED BY <1>3 DEF Trimmed, t

(* Not all the readings on one side of a trimmed one are wrong.             *)
LEMMA TrimmedRight ==
  ASSUME NEW a \in Arrays(PhCount), NEW wrong \in SUBSET (1 .. PhCount),
         Cardinality(wrong) <= PhTrim, NEW i \in 1 .. PhCount - 2 * PhTrim
  PROVE  /\ \E j \in (1 .. PhCount) \ wrong : a[j] <= Trimmed(a)[i]
         /\ \E j \in (1 .. PhCount) \ wrong : a[j] >= Trimmed(a)[i]
<1> DEFINE n == PhCount
           t == Sorted(a, Exchanges(n))
           m == PhTrim + i
           X == (1 .. n) \ wrong
<1>1. n \in Nat \ {0} /\ PhTrim \in Nat /\ n > 2 * PhTrim /\ m \in PhTrim + 1 .. n - PhTrim /\ m \in 1 .. n
  BY CountAssumption
<1>2. t \in Arrays(n) /\ Rearranged(n, a, t) /\ Ordered(n, t)
  BY <1>1, ExchangesSort
<1>3. Trimmed(a)[i] = t[m]
  <2>1. t \in Seq(Int) /\ Len(t) = n
    BY <1>1, <1>2 DEF Arrays
  <2> HIDE DEF t
  <2>2. SubSeq(t, PhTrim + 1, n - PhTrim)[i] = t[PhTrim + i]
    BY <1>1, <2>1
  <2> QED BY <2>2 DEF Trimmed, t
<1> HIDE DEF t, n, m
<1>4. PICK h \in [1 .. n -> 1 .. n] :
        /\ \A x \in 1 .. n, y \in 1 .. n : h[x] = h[y] => x = y
        /\ \A k \in 1 .. n : a[k] = t[h[k]]
  BY <1>2 DEF Rearranged
<1>5. \A k \in 1 .. n : a[k] \in Int /\ t[k] \in Int
  BY <1>2 DEF Arrays, n
<1>6. Cardinality(X) \in Nat /\ Cardinality(X) >= n - PhTrim
  <2>1. IsFiniteSet(1 .. n) /\ Cardinality(1 .. n) = n
    BY <1>1, FS_Interval
  <2>2. (1 .. n) \cap wrong = wrong
    BY DEF n
  <2>3. IsFiniteSet(X) /\ Cardinality(X) = n - Cardinality(wrong)
    <3>1. /\ IsFiniteSet((1 .. n) \ wrong)
          /\ Cardinality((1 .. n) \ wrong) = Cardinality(1 .. n) - Cardinality((1 .. n) \cap wrong)
      BY <2>1, FS_Difference
    <3> QED BY <2>1, <2>2, <3>1
  <2>4. IsFiniteSet(wrong)
    BY <2>1, FS_Subset DEF n
  <2>5. Cardinality(X) \in Nat /\ Cardinality(wrong) \in Nat
    BY <2>3, <2>4, FS_CardinalityType
  <2> QED BY <1>1, <2>3, <2>5
<1> HIDE DEF X
<1>7. X \in SUBSET (1 .. n)
  BY DEF X
<1>8. t[m] \in Int /\ \A j \in X : j \in 1 .. n /\ a[j] = t[h[j]] /\ h[j] \in 1 .. n /\ t[h[j]] \in Int
  BY <1>1, <1>4, <1>5, <1>7
<1>9. \E j \in X : a[j] <= t[m]
  <2> SUFFICES ASSUME \A j \in X : a[j] > t[m] PROVE FALSE
    BY <1>8
  <2>1. \A x \in X : h[x] \in m + 1 .. n
    <3> TAKE x \in X
    <3>1. h[x] <= m => t[h[x]] <= t[m]
      BY <1>1, <1>2, <1>8 DEF Ordered
    <3>2. a[x] > t[m] /\ a[x] = t[h[x]]
      BY <1>8
    <3>3. ~(h[x] <= m)
      BY <1>8, <3>1, <3>2
    <3> QED BY <1>1, <1>8, <3>3
  <2>2. m + 1 \in Int /\ n \in Int /\ m + 1 <= n + 1 /\ n \in Nat
    BY <1>1
  <2>3. Cardinality(X) <= n - (m + 1) + 1
    BY <1>4, <1>7, <2>1, <2>2, Crowded
  <2> QED BY <1>1, <1>6, <2>3
<1>10. \E j \in X : a[j] >= t[m]
  <2> SUFFICES ASSUME \A j \in X : a[j] < t[m] PROVE FALSE
    BY <1>8
  <2>1. \A x \in X : h[x] \in 1 .. m - 1
    <3> TAKE x \in X
    <3>1. h[x] >= m => t[m] <= t[h[x]]
      BY <1>1, <1>2, <1>8 DEF Ordered
    <3>2. a[x] < t[m] /\ a[x] = t[h[x]]
      BY <1>8
    <3>3. ~(h[x] >= m)
      BY <1>8, <3>1, <3>2
    <3> QED BY <1>1, <1>8, <3>3
  <2>2. 1 \in Int /\ m - 1 \in Int /\ 1 <= (m - 1) + 1 /\ n \in Nat
    BY <1>1
  <2>3. Cardinality(X) <= (m - 1) - 1 + 1
    BY <1>4, <1>7, <2>1, <2>2, Crowded
  <2> QED BY <1>1, <1>6, <2>3
<1> QED BY <1>3, <1>9, <1>10 DEF X, n

----------------------------------------------------------------------------
(* The station. *)

(* Where the k-th of a full round of samples is in the ring.                *)
Place(k) ==
  IF analogBufferIndex + k - 1 < SCOUNT THEN analogBufferIndex + k - 1
                                        ELSE analogBufferIndex + k - 1 - SCOUNT

(* The ring holds the last samples: until it is full from its first place   *)
(* on, and then from the place that is written next.                        *)
RingInv ==
  /\ analogBuffer \in [Ring -> Int] /\ analogBufferTemp \in [Ring -> Int]
  /\ analogBufferIndex \in Ring
  /\ recent \in Seq(Int) /\ Len(recent) <= SCOUNT
  /\ Len(recent) < SCOUNT =>
       /\ analogBufferIndex = Len(recent)
       /\ \A k \in 1 .. Len(recent) : recent[k] = analogBuffer[k - 1]
  /\ Len(recent) = SCOUNT => \A k \in 1 .. SCOUNT : recent[k] = analogBuffer[Place(k)]

(* While the ring is copied it does not change: what has been copied is     *)
(* what it holds.                                                           *)
CopyInv ==
  /\ copyIndex \in 0 .. SCOUNT
  /\ step = "copy" =>
       /\ copyIndex < SCOUNT
       /\ \A i \in 0 .. copyIndex - 1 : analogBufferTemp[i] = analogBuffer[i]

WaterInv == RingInv /\ CopyInv /\ SpikesTrimmed

(* The assumptions, as arithmetic. *)
LEMMA WaterConstants ==
  /\ SCOUNT \in Nat \ {0} /\ 0 \in Ring /\ \A i \in Ring : i \in 0 .. SCOUNT - 1
  /\ PhTrim \in Nat /\ PhCount \in Nat /\ PhCount > 2 * PhTrim
BY CountAssumption DEF Ring

(* The ring of a sample more. *)
LEMMA SampleStep ==
  ASSUME RingInv, NEW v \in Samples, NEW timeToPrint \in BOOLEAN, Sample(v, timeToPrint)
  PROVE  RingInv'
<1>1. PICK n \in Nat : n = Len(recent)
  BY DEF RingInv
<1>2. PICK c \in Nat : c = SCOUNT /\ c > 0 /\ Ring = 0 .. c - 1
  BY WaterConstants DEF Ring
<1>3. PICK i \in 0 .. c - 1 : i = analogBufferIndex
  BY <1>2 DEF RingInv
<1>4. v \in Int
  BY CountAssumption
<1>5. /\ analogBuffer' \in [Ring -> Int] /\ analogBufferTemp' \in [Ring -> Int]
      /\ analogBuffer'[i] = v /\ \A j \in 0 .. c - 1 : j # i => analogBuffer'[j] = analogBuffer[j]
  BY <1>2, <1>3, <1>4 DEF Sample, RingInv
<1>6. analogBufferIndex' = (IF i + 1 = c THEN 0 ELSE i + 1) /\ analogBufferIndex' \in Ring
  BY <1>2, <1>3 DEF Sample, NextIndex
<1>7. CASE n < c
  <2>1. i = n /\ \A k \in 1 .. n : recent[k] = analogBuffer[k - 1]
    BY <1>1, <1>2, <1>3, <1>7 DEF RingInv
  <2>2. recent' = Append(recent, v)
    BY <1>1, <1>2, <1>7 DEF Sample
  <2>3. /\ recent' \in Seq(Int) /\ Len(recent') = n + 1 /\ recent'[n + 1] = v
        /\ \A k \in 1 .. n : recent'[k] = recent[k]
    BY <1>1, <1>4, <2>2 DEF RingInv
  <2>4. ASSUME NEW k \in 1 .. n + 1 PROVE recent'[k] = analogBuffer'[k - 1]
    <3>1. CASE k = n + 1
      BY <1>5, <2>1, <2>3, <3>1
    <3>2. CASE k # n + 1
      <4>1. k \in 1 .. n /\ k - 1 \in 0 .. c - 1 /\ k - 1 # i
        BY <1>7, <2>1, <3>2
      <4> QED BY <1>5, <2>1, <2>3, <4>1
    <3> QED BY <3>1, <3>2
  <2>5. CASE n + 1 < c
    <3>1. analogBufferIndex' = n + 1
      BY <1>6, <2>1, <2>5
    <3>2. Len(recent') <= SCOUNT /\ Len(recent') # SCOUNT /\ analogBufferIndex' = Len(recent')
      BY <1>2, <2>3, <2>5, <3>1
    <3>3. \A k \in 1 .. Len(recent') : recent'[k] = analogBuffer'[k - 1]
      BY <2>3, <2>4
    <3> QED BY <1>5, <1>6, <2>3, <3>2, <3>3 DEF RingInv
  <2>6. CASE n + 1 = c
    <3>1. analogBufferIndex' = 0
      BY <1>6, <2>1, <2>6
    <3>2. \A k \in 1 .. c : Place(k)' = k - 1
      BY <1>2, <3>1 DEF Place
    <3>3. Len(recent') = SCOUNT
      BY <1>2, <2>3, <2>6
    <3>4. \A k \in 1 .. SCOUNT : recent'[k] = analogBuffer'[Place(k)']
      BY <1>2, <2>4, <2>6, <3>2
    <3>5. Len(recent') <= SCOUNT /\ ~(Len(recent') < SCOUNT)
      BY <1>2, <3>3
    <3> QED BY <1>5, <1>6, <2>3, <3>3, <3>4, <3>5 DEF RingInv
  <2> QED BY <1>7, <1>2, <2>5, <2>6
<1>8. CASE n = c
  <2>1. \A k \in 1 .. c : recent[k] = analogBuffer[Place(k)]
    BY <1>1, <1>2, <1>8 DEF RingInv
  <2>2. recent' = Append(Tail(recent), v)
    BY <1>1, <1>2, <1>8 DEF Sample
  <2>3. recent \in Seq(Int) /\ recent # << >>
    <3>1. recent \in Seq(Int)
      BY DEF RingInv
    <3>2. Len(recent) > 0
      BY <1>1, <1>2, <1>8
    <3> QED BY <3>1, <3>2
  <2>4. /\ Tail(recent) \in Seq(Int) /\ Len(Tail(recent)) = n - 1
        /\ \A k \in 1 .. n - 1 : Tail(recent)[k] = recent[k + 1]
    BY <1>1, <2>3
  <2>5. /\ recent' \in Seq(Int) /\ Len(recent') = c /\ recent'[c] = v
        /\ \A k \in 1 .. c - 1 : recent'[k] = recent[k + 1]
    BY <1>2, <1>4, <1>8, <2>2, <2>4
  <2>6. ASSUME NEW k \in 1 .. c PROVE recent'[k] = analogBuffer'[Place(k)']
    <3>1. Place(k)' = IF k = c THEN i ELSE Place(k + 1)
      BY <1>2, <1>3, <1>6 DEF Place
    <3>2. CASE k = c
      BY <1>5, <2>5, <3>1, <3>2
    <3>3. CASE k # c
      <4>1. k + 1 \in 1 .. c /\ Place(k + 1) \in 0 .. c - 1 /\ Place(k + 1) # i
        BY <1>2, <1>3, <3>3 DEF Place
      <4>2. k \in 1 .. c - 1 /\ Place(k)' = Place(k + 1)
        BY <3>1, <3>3
      <4>3. recent'[k] = recent[k + 1] /\ recent[k + 1] = analogBuffer[Place(k + 1)]
        BY <2>1, <2>5, <4>1, <4>2
      <4> DEFINE p == Place(k + 1)
      <4>4. analogBuffer'[p] = analogBuffer[p]
        BY <1>5, <4>1
      <4> HIDE DEF p
      <4> QED BY <4>2, <4>3, <4>4 DEF p
    <3> QED BY <3>2, <3>3
  <2>7. Len(recent') = SCOUNT
    BY <1>2, <2>5
  <2>8. Len(recent') <= SCOUNT /\ ~(Len(recent') < SCOUNT)
    BY <1>2, <2>7
  <2>9. \A k \in 1 .. SCOUNT : recent'[k] = analogBuffer'[Place(k)']
    BY <1>2, <2>6
  <2> QED BY <1>5, <1>6, <2>5, <2>7, <2>8, <2>9 DEF RingInv
<1>9. n <= c
  BY <1>1, <1>2 DEF RingInv
<1> QED BY <1>2, <1>7, <1>8, <1>9

(* What MedianOfRecent says of a step.                                      *)
NearMedian ==
  LET missing == IF step' = "copy" THEN SCOUNT - copyIndex' ELSE 0
  IN  /\ 2 * Smaller(tds', recent) <= SCOUNT + 2 * missing
      /\ 2 * Larger(tds', recent) <= SCOUNT + 2 * missing

(* A full ring is the last samples in another order.                        *)
LEMMA RingIsRecent ==
  ASSUME RingInv, Len(recent) = SCOUNT
  PROVE  /\ recent \in Arrays(SCOUNT) /\ AsSeq(analogBuffer) \in Arrays(SCOUNT)
         /\ Rearranged(SCOUNT, recent, AsSeq(analogBuffer))
<1> DEFINE a == AsSeq(analogBuffer)
<1>1. PICK c \in Nat \ {0} : c = SCOUNT /\ Ring = 0 .. c - 1
  BY WaterConstants DEF Ring
<1>2. PICK i \in 0 .. c - 1 : i = analogBufferIndex
  BY <1>1 DEF RingInv
<1>4. a \in Arrays(c) /\ \A k \in 1 .. c : a[k] = analogBuffer[k - 1]
  BY <1>1 DEF RingInv, AsSeq, Arrays
<1>5. recent \in Arrays(c)
  BY <1>1 DEF RingInv, Arrays
<1> HIDE DEF a
<1>6. Rearranged(c, recent, a)
  <2> DEFINE h == [k \in 1 .. c |-> Place(k) + 1]
  <2>1. \A k \in 1 .. c : Place(k) = IF i + k - 1 < c THEN i + k - 1 ELSE i + k - 1 - c
    BY <1>1, <1>2 DEF Place
  <2>2. \A k \in 1 .. c : Place(k) \in 0 .. c - 1
    BY <1>1, <1>2, <2>1
  <2>3. h \in [1 .. c -> 1 .. c]
    BY <2>2
  <2>4. ASSUME NEW x \in 1 .. c, NEW y \in 1 .. c, h[x] = h[y] PROVE x = y
    <3>1. Place(x) = Place(y)
      BY <2>2, <2>4
    <3> QED BY <1>1, <1>2, <2>1, <3>1
  <2>5. ASSUME NEW k \in 1 .. c PROVE recent[k] = a[h[k]]
    <3>1. h[k] = Place(k) + 1 /\ h[k] \in 1 .. c /\ h[k] - 1 = Place(k)
      BY <2>2
    <3>2. recent[k] = analogBuffer[Place(k)]
      BY <1>1 DEF RingInv
    <3> QED BY <1>4, <3>1, <3>2
  <2> HIDE DEF h
  <2> QED BY <2>3, <2>4, <2>5 DEF Rearranged
<1> QED BY <1>1, <1>4, <1>5, <1>6 DEF a

(* A value that is published has the copied part of the ring in it.         *)
LEMMA CopyStep ==
  ASSUME RingInv, CopyInv, Copy, Len(recent) = SCOUNT
  PROVE  NearMedian
<1> DEFINE t == AsSeq(analogBufferTemp')
           b == AsSeq(analogBuffer)
<1>1. PICK c \in Nat \ {0} : c = SCOUNT /\ Ring = 0 .. c - 1
  BY WaterConstants DEF Ring
<1>2. PICK k \in 0 .. c - 1 : k = copyIndex
  BY <1>1 DEF Copy, CopyInv
<1>3. /\ tds' = getMedianNum(t) /\ copyIndex' = k + 1
      /\ step' = (IF k + 1 < c THEN "copy" ELSE "ph")
      /\ analogBufferTemp' = [analogBufferTemp EXCEPT ![k] = analogBuffer[k]]
  BY <1>1, <1>2 DEF Copy
<1>4. /\ analogBufferTemp' \in [Ring -> Int]
      /\ \A i \in 0 .. k : analogBufferTemp'[i] = analogBuffer[i]
  <2>1. \A i \in 0 .. k - 1 : analogBufferTemp[i] = analogBuffer[i]
    BY <1>2 DEF Copy, CopyInv
  <2> QED BY <1>1, <1>3, <2>1 DEF RingInv
<1>5. t \in Arrays(c)
  BY <1>1, <1>4 DEF AsSeq, Arrays
<1>6. \A i \in 1 .. k + 1 : t[i] = b[i]
  <2> TAKE i \in 1 .. k + 1
  <2>1. i - 1 \in 0 .. k /\ i \in 1 .. c
    BY <1>2
  <2>2. t[i] = analogBufferTemp'[i - 1] /\ b[i] = analogBuffer[i - 1]
    BY <1>1, <2>1 DEF AsSeq
  <2> QED BY <1>4, <2>1, <2>2
<1>7. recent \in Arrays(c) /\ b \in Arrays(c) /\ Rearranged(c, recent, b)
  BY <1>1, RingIsRecent
<1> HIDE DEF t, b
<1>8. k + 1 \in 0 .. c
  BY <1>2
<1>9. /\ 2 * Smaller(tds', recent) <= c + 2 * (c - (k + 1))
      /\ 2 * Larger(tds', recent) <= c + 2 * (c - (k + 1))
  BY <1>3, <1>5, <1>6, <1>7, <1>8, MedianNear
<1>10. (IF step' = "copy" THEN SCOUNT - copyIndex' ELSE 0) = c - (k + 1)
  BY <1>1, <1>2, <1>3
<1> QED BY <1>1, <1>9, <1>10 DEF NearMedian

(* Only Copy moves copyIndex on.                                            *)
LEMMA MedianStep ==
  ASSUME RingInv, CopyInv, Next, copyIndex' > copyIndex, Len(recent) = SCOUNT
  PROVE  NearMedian
<1>1. copyIndex \in Int /\ copyIndex >= 0
  BY WaterConstants DEF CopyInv
<1>2. CASE Turbidity BY <1>1, <1>2 DEF Turbidity, copy
<1>3. CASE \E v \in Samples, time \in BOOLEAN : Sample(v, time)
  BY <1>1, <1>3 DEF Sample
<1>4. CASE NoSample BY <1>1, <1>4 DEF NoSample, copy
<1>5. CASE Copy BY <1>5, CopyStep
<1>6. CASE \E readings \in [1 .. PhCount -> PhSamples] : PH(readings)
  BY <1>1, <1>6 DEF PH, copy
<1> QED BY <1>2, <1>3, <1>4, <1>5, <1>6 DEF Next

(* The station starts with an empty ring and readings of 0. *)
LEMMA WaterInit == Init => WaterInv
<1> SUFFICES ASSUME Init PROVE WaterInv
  OBVIOUS
<1>1. RingInv
  <2>1. recent \in Seq(Int) /\ Len(recent) = 0
    BY DEF Init
  <2>2. /\ analogBuffer \in [Ring -> Int] /\ analogBufferTemp \in [Ring -> Int]
        /\ analogBufferIndex = 0 /\ analogBufferIndex \in Ring
    BY WaterConstants DEF Init
  <2> QED BY <2>1, <2>2, WaterConstants DEF RingInv
<1>2. CopyInv
  BY WaterConstants DEF Init, CopyInv
<1>3. SpikesTrimmed
  <2> SUFFICES ASSUME NEW wrong \in SUBSET (1 .. PhCount), Cardinality(wrong) <= PhTrim,
                      NEW i \in DOMAIN ph
               PROVE  /\ \E j \in (1 .. PhCount) \ wrong : buf[j] <= ph[i]
                      /\ \E j \in (1 .. PhCount) \ wrong : buf[j] >= ph[i]
    BY DEF SpikesTrimmed
  <2>1. ph[i] = 0 /\ \A j \in 1 .. PhCount : buf[j] = 0
    BY DEF Init
  <2>2. (1 .. PhCount) \ wrong # {}
    <3> SUFFICES ASSUME wrong = 1 .. PhCount PROVE FALSE
      OBVIOUS
    <3>1. Cardinality(1 .. PhCount) = PhCount
      BY WaterConstants, FS_Interval
    <3> QED BY <3>1, WaterConstants
  <2> QED BY <2>1, <2>2
<1> QED BY <1>1, <1>2, <1>3 DEF WaterInv

(* Every step of loop() keeps the invariant. *)
LEMMA WaterStep == ASSUME WaterInv, [Next]_vars PROVE WaterInv'
<1> USE DEF WaterInv
<1>1. CASE Turbidity
  <2>1. RingInv'
    BY <1>1 DEF Turbidity, ring, copy, RingInv, Place
  <2>2. CopyInv'
    BY <1>1 DEF Turbidity, ring, copy, CopyInv
  <2>3. SpikesTrimmed'
    BY <1>1 DEF Turbidity, acid, SpikesTrimmed
  <2> QED BY <2>1, <2>2, <2>3
<1>2. ASSUME NEW v \in Samples, NEW time \in BOOLEAN, Sample(v, time) PROVE WaterInv'
  <2>1. RingInv'
    BY <1>2, SampleStep
  <2>2. CopyInv'
    BY <1>2, WaterConstants DEF Sample, CopyInv
  <2>3. SpikesTrimmed'
    BY <1>2 DEF Sample, acid, SpikesTrimmed
  <2> QED BY <2>1, <2>2, <2>3
<1>3. CASE NoSample
  <2>1. RingInv'
    BY <1>3 DEF NoSample, ring, copy, RingInv, Place
  <2>2. CopyInv'
    BY <1>3 DEF NoSample, ring, copy, CopyInv
  <2>3. SpikesTrimmed'
    BY <1>3 DEF NoSample, acid, SpikesTrimmed
  <2> QED BY <2>1, <2>2, <2>3
<1>4. CASE Copy
  <2>0. copyIndex \in Ring /\ copyIndex \in 0 .. SCOUNT - 1
    BY <1>4, WaterConstants DEF Copy, CopyInv, Ring
  <2>1. RingInv'
    <3>1. analogBufferTemp' \in [Ring -> Int]
      BY <1>4, <2>0 DEF Copy, RingInv
    <3> QED BY <1>4, <3>1 DEF Copy, ring, RingInv, Place
  <2>2. CopyInv'
    <3>1. copyIndex' = copyIndex + 1 /\ (step' = "copy" => copyIndex' < SCOUNT)
      BY <1>4 DEF Copy
    <3>2. \A i \in 0 .. copyIndex : analogBufferTemp'[i] = analogBuffer'[i]
      <4>1. \A i \in 0 .. copyIndex - 1 : analogBufferTemp[i] = analogBuffer[i]
        BY <1>4 DEF Copy, CopyInv
      <4>2. /\ analogBufferTemp' = [analogBufferTemp EXCEPT ![copyIndex] = analogBuffer[copyIndex]]
            /\ analogBuffer' = analogBuffer
        BY <1>4 DEF Copy, ring
      <4>3. analogBufferTemp \in [0 .. SCOUNT - 1 -> Int]
        BY DEF RingInv, Ring
      <4> QED BY <2>0, <4>1, <4>2, <4>3
    <3> QED BY <2>0, <3>1, <3>2, WaterConstants DEF CopyInv
  <2>3. SpikesTrimmed'
    BY <1>4 DEF Copy, acid, SpikesTrimmed
  <2> QED BY <2>1, <2>2, <2>3
<1>5. ASSUME NEW readings \in [1 .. PhCount -> PhSamples], PH(readings) PROVE WaterInv'
  <2>1. RingInv'
    BY <1>5 DEF PH, ring, copy, RingInv, Place
  <2>2. CopyInv'
    BY <1>5 DEF PH, ring, copy, CopyInv
  <2>3. SpikesTrimmed'
    <3>1. buf' = readings /\ ph' = Trimmed(readings)
      BY <1>5 DEF PH
    <3>2. readings \in Arrays(PhCount)
      <4>1. ASSUME NEW k \in 1 .. PhCount PROVE readings[k] \in Int
        <5>1. readings[k] \in PhSamples
          BY <1>5
        <5>2. \A x \in PhSamples : x \in Int
          BY CountAssumption
        <5> QED BY <5>1, <5>2
      <4> QED BY <4>1 DEF Arrays
    <3>3. DOMAIN ph' = 1 .. PhCount - 2 * PhTrim
      BY <3>1, <3>2, TrimmedPlaces
    <3>4. ASSUME NEW wrong \in SUBSET (1 .. PhCount), Cardinality(wrong) <= PhTrim,
                 NEW i \in DOMAIN ph'
          PROVE  /\ \E j \in (1 .. PhCount) \ wrong : buf'[j] <= ph'[i]
                 /\ \E j \in (1 .. PhCount) \ wrong : buf'[j] >= ph'[i]
      <4>1. i \in 1 .. PhCount - 2 * PhTrim
        BY <3>3
      <4>2. /\ \E j \in (1 .. PhCount) \ wrong : readings[j] <= Trimmed(readings)[i]
            /\ \E j \in (1 .. PhCount) \ wrong : readings[j] >= Trimmed(readings)[i]
        BY <3>2, <3>4, <4>1, TrimmedRight
      <4> QED BY <3>1, <4>2
    <3> QED BY <3>4 DEF SpikesTrimmed
  <2> QED BY <2>1, <2>2, <2>3
<1>6. CASE UNCHANGED vars
  <2>1. RingInv'
    BY <1>6 DEF vars, ring, copy, RingInv, Place
  <2>2. CopyInv'
    BY <1>6 DEF vars, ring, copy, CopyInv
  <2>3. SpikesTrimmed'
    BY <1>6 DEF vars, acid, SpikesTrimmed
  <2> QED BY <2>1, <2>2, <2>3
<1> QED BY <1>1, <1>2, <1>3, <1>4, <1>5, <1>6 DEF Next

(* Once the ring is full, what is published while it is copied is off the   *)
(* median of the last SCOUNT samples by the places not copied yet, and the  *)
(* last is their median, for rings of any size.                             *)
THEOREM MedianOfRecentCorrect == Spec => MedianOfRecent
<1>1. WaterInv /\ [Next]_vars =>
        [(copyIndex' > copyIndex /\ Len(recent) = SCOUNT) =>
          LET missing == IF step' = "copy" THEN SCOUNT - copyIndex' ELSE 0
          IN  /\ 2 * Smaller(tds', recent) <= SCOUNT + 2 * missing
              /\ 2 * Larger(tds', recent) <= SCOUNT + 2 * missing]_vars
  BY MedianStep DEF WaterInv, NearMedian
<1> QED BY <1>1, WaterInit, WaterStep, PTL DEF Spec, MedianOfRecent

(* Up to PhTrim wrong readings of any size leave every reading that goes    *)
(* into the pH value between right ones: the loops sort, and PhTrim wrong   *)
(* ones cannot fill a side of a reading that has PhTrim others before and   *)
(* after it.                                                                *)
THEOREM SpikesTrimmedCorrect == Spec => []SpikesTrimmed
<1>1. WaterInv => SpikesTrimmed
  BY DEF WaterInv
<1> QED BY <1>1, WaterInit, WaterStep, PTL DEF Spec

----------------------------------------------------------------------------
(* The air quality station: the sums of a day stay in step with its count.  *)
(* DayConsistent is inductive once it is known what loop() is about to      *)
(* write, one reading more than the database holds (PendingInv), and that a *)
(* pass that has come to its end has counted itself (CountedInv).           *)

PendingInv ==
  (pc = "set" /\ << date, key >> \notin failed) => value = db[date][key] + 1

CountedInv ==
  (pc = "publish" /\ << date, Count >> \notin failed) => published[date] <= db[date][Count]

AirInv == DayTypeOK /\ PendingInv /\ CountedInv /\ DayConsistent /\ PublishedIsCounted

(* The first pass starts from an empty database and no history.             *)
LEMMA AirInit == DayInit => AirInv
BY SumsAssumption DEF DayInit, AirInv, DayTypeOK, PendingInv, CountedInv, DayConsistent, PublishedIsCounted,
       Ahead, Days, Keys, Count, Missing

(* The keys loop() comes to.                                                *)
LEMMA KeyFacts ==
  /\ 1 \in Keys
  /\ Count \in Keys
  /\ \A k \in Keys : k # Count => k + 1 \in Keys
  /\ \A k \in Keys : k \in Nat
  /\ Count \in Nat
BY SumsAssumption DEF Keys, Count

(* A write puts one value in the place of another.                          *)
LEMMA WriteFacts ==
  ASSUME DayTypeOK, NEW v \in Nat, db' = [db EXCEPT ![date][key] = v]
  PROVE  /\ db' \in [Days -> [Keys -> Int]]
         /\ \A d \in Days, k \in Keys :
              db'[d][k] = IF d = date /\ k = key THEN v ELSE db[d][k]
BY DEF DayTypeOK

(* A pass that is shown is counted under its date.                          *)
LEMMA ShownFacts ==
  ASSUME DayTypeOK, NEW some \in BOOLEAN, Publish(some)
  PROVE  /\ pc = "publish" /\ pc' = "idle" /\ UNCHANGED << today, db, date, key, value, failed, resets >>
         /\ published' \in [Days -> Nat]
         /\ \A d \in Days : \/ published'[d] = published[d]
                            \/ d = date /\ published'[d] = published[d] + 1
<1>1. CASE some
  BY <1>1 DEF Publish, ShownMore, DayTypeOK
<1>2. CASE ~some
  BY <1>2 DEF Publish, DayTypeOK
<1> QED BY <1>1, <1>2

(* Every step keeps the types and the bounds of the key.                    *)
LEMMA AirTypeStep == DayTypeOK /\ [DayNext]_dayVars => DayTypeOK'
<1> SUFFICES ASSUME DayTypeOK, [DayNext]_dayVars PROVE DayTypeOK'
  OBVIOUS
<1> USE SumsAssumption, KeyFacts DEF DayTypeOK, pass
<1>1. CASE Midnight
  <2>1. today + 1 \in Days /\ date <= today + 1 BY <1>1 DEF Midnight, Days
  <2> QED BY <1>1, <2>1 DEF Midnight
<1>2. CASE Start
  <2>1. today <= today BY DEF Days
  <2> QED BY <1>2, <2>1 DEF Start
<1>3. CASE Reset BY <1>3 DEF Reset
<1>4. CASE GetSucceeds
  <2>1. db[date][key] + 1 \in Nat BY <1>4 DEF GetSucceeds
  <2> QED BY <1>4, <2>1 DEF GetSucceeds
<1>5. CASE GetFails BY <1>5 DEF GetFails
<1>6. CASE SetSucceeds
  <2>1. db' \in [Days -> [Keys -> Int]] /\ \A d \in Days, k \in Keys : db'[d][k] >= Missing
    BY <1>6, WriteFacts DEF SetSucceeds, Missing
  <2> QED BY <1>6, <2>1 DEF SetSucceeds, NextKey
<1>7. CASE SetFails BY <1>7 DEF SetFails, NextKey
<1>8. ASSUME NEW some \in BOOLEAN, Publish(some) PROVE DayTypeOK'
  BY <1>8, ShownFacts
<1>9. CASE UNCHANGED dayVars BY <1>9 DEF dayVars
<1> QED BY <1>1, <1>2, <1>3, <1>4, <1>5, <1>6, <1>7, <1>8, <1>9 DEF DayNext

(* What loop() is about to write is one reading more than what is stored.   *)
LEMMA PendingStep == AirInv /\ [DayNext]_dayVars => PendingInv' /\ CountedInv'
<1> SUFFICES ASSUME AirInv, [DayNext]_dayVars PROVE PendingInv' /\ CountedInv'
  OBVIOUS
<1> USE KeyFacts DEF AirInv, DayTypeOK, PendingInv, CountedInv, Missing, pass
<1>1. CASE Midnight BY <1>1 DEF Midnight
<1>2. CASE Start BY <1>2 DEF Start
<1>3. CASE Reset BY <1>3 DEF Reset
<1>4. CASE GetSucceeds BY <1>4 DEF GetSucceeds
<1>5. CASE GetFails BY <1>5 DEF GetFails
<1>6. CASE SetSucceeds
  <2>1. /\ pc' # "set" /\ date' = date /\ failed' = failed /\ published' = published
        /\ pc' = "publish" => db'[date][Count] = value /\ key = Count
    BY <1>6, WriteFacts DEF SetSucceeds, NextKey
  <2>2. pc' = "publish" /\ << date, Count >> \notin failed => value = db[date][Count] + 1
    BY <1>6, <2>1 DEF SetSucceeds
  <2>3. << date, Count >> \notin failed => published[date] <= db[date][Count] + 1
    BY DEF PublishedIsCounted
  <2> QED BY <2>1, <2>2, <2>3
<1>7. CASE SetFails BY <1>7 DEF SetFails, NextKey
<1>8. CASE \E some \in BOOLEAN : Publish(some) BY <1>8 DEF Publish
<1>9. CASE UNCHANGED dayVars BY <1>9 DEF dayVars
<1> QED BY <1>1, <1>2, <1>3, <1>4, <1>5, <1>6, <1>7, <1>8, <1>9 DEF DayNext

(* A write moves the sum, or the count, and the place of the pass with it;  *)
(* a reset gives up the place and is counted.                               *)
LEMMA ConsistentStep == AirInv /\ [DayNext]_dayVars => DayConsistent'
<1> SUFFICES ASSUME AirInv, [DayNext]_dayVars,
                    NEW d \in Days, NEW k \in 1 .. NSums,
                    << d, k >> \notin failed', << d, Count >> \notin failed'
             PROVE  db'[d][k] - db'[d][Count] - Ahead(d, k)' \in 0 .. resets'[d]
  BY DEF DayConsistent
<1> USE KeyFacts DEF AirInv, DayTypeOK, Ahead, pass
<1>k. k \in Keys /\ k < Count /\ k \in Nat
  BY SumsAssumption DEF Keys, Count
<1>h. failed \subseteq failed' =>
        db[d][k] - db[d][Count] - Ahead(d, k) \in 0 .. resets[d]
  BY DEF DayConsistent
<1>1. CASE Midnight BY <1>1, <1>h DEF Midnight
<1>2. CASE Start BY <1>2, <1>h DEF Start
<1>3. CASE Reset
  <2>1. resets'[d] = (IF d = date THEN resets[d] + 1 ELSE resets[d]) /\ resets[d] \in Nat
    BY <1>3 DEF Reset
  <2>2. db[d][k] \in Int /\ db[d][Count] \in Int
    BY <1>k
  <2> QED BY <1>3, <1>h, <2>1, <2>2 DEF Reset
<1>4. CASE GetSucceeds BY <1>4, <1>h DEF GetSucceeds
<1>5. CASE GetFails BY <1>5, <1>h DEF GetFails
<1>6. CASE SetSucceeds
  <2>1. value = db[date][key] + 1 \/ << date, key >> \in failed
    BY <1>6 DEF SetSucceeds, PendingInv
  <2>2. /\ db'[d][k] = IF d = date /\ k = key THEN value ELSE db[d][k]
        /\ db'[d][Count] = IF d = date /\ Count = key THEN value ELSE db[d][Count]
        /\ failed' = failed /\ resets' = resets /\ date' = date /\ pc = "set"
        /\ IF key = Count THEN pc' = "publish" /\ key' = key ELSE pc' = "get" /\ key' = key + 1
    BY <1>6, <1>k, WriteFacts DEF SetSucceeds, NextKey
  <2>3. key \in Nat /\ resets[d] \in Nat /\ db[d][k] \in Int /\ db[d][Count] \in Int
    BY <1>k
  <2>4. CASE date # d
    BY <1>h, <2>2, <2>3, <2>4
  <2>5. CASE date = d /\ key = k
    BY <1>h, <1>k, <2>1, <2>2, <2>3, <2>5
  <2>6. CASE date = d /\ key = Count
    BY <1>h, <1>k, <2>1, <2>2, <2>3, <2>6
  <2>7. CASE date = d /\ key # k /\ key # Count
    BY <1>h, <1>k, <2>2, <2>3, <2>7
  <2> QED BY <2>4, <2>5, <2>6, <2>7
<1>7. CASE SetFails BY <1>7, <1>h, <1>k DEF SetFails, NextKey
<1>8. CASE \E some \in BOOLEAN : Publish(some) BY <1>8, <1>h DEF Publish
<1>9. CASE UNCHANGED dayVars BY <1>9, <1>h DEF dayVars
<1> QED BY <1>1, <1>2, <1>3, <1>4, <1>5, <1>6, <1>7, <1>8, <1>9 DEF DayNext

(* Publish comes after the write of Count, and no write lowers a count.     *)
LEMMA PublishedStep == AirInv /\ [DayNext]_dayVars => PublishedIsCounted'
<1> SUFFICES ASSUME AirInv, [DayNext]_dayVars PROVE PublishedIsCounted'
  OBVIOUS
<1> USE KeyFacts DEF AirInv, DayTypeOK, CountedInv, PublishedIsCounted, Missing, pass
<1>1. CASE Midnight BY <1>1 DEF Midnight
<1>2. CASE Start BY <1>2 DEF Start
<1>3. CASE Reset BY <1>3 DEF Reset
<1>4. CASE GetSucceeds BY <1>4 DEF GetSucceeds
<1>5. CASE GetFails BY <1>5 DEF GetFails
<1>6. CASE SetSucceeds
  <2>1. \A d \in Days : db'[d][Count] = IF d = date /\ key = Count THEN value ELSE db[d][Count]
    BY <1>6, WriteFacts DEF SetSucceeds
  <2>2. failed' = failed /\ published' = published
    BY <1>6 DEF SetSucceeds
  <2>3. key = Count /\ << date, Count >> \notin failed => value = db[date][Count] + 1
    BY <1>6 DEF SetSucceeds, PendingInv
  <2> TAKE d \in Days
  <2>4. db[d][Count] \in Int /\ published[d] \in Nat
    OBVIOUS
  <2> QED BY <2>1, <2>2, <2>3, <2>4
<1>7. CASE SetFails BY <1>7 DEF SetFails, NextKey
<1>8. ASSUME NEW some \in BOOLEAN, Publish(some) PROVE PublishedIsCounted'
  <2> SUFFICES ASSUME NEW d \in Days, << d, Count >> \notin failed
               PROVE  published'[d] <= db[d][Count] + 1
    BY <1>8, ShownFacts
  <2>1. published[d] <= db[d][Count] + 1 /\ published[d] \in Nat /\ db[d][Count] \in Int
    OBVIOUS
  <2>2. d = date => published[d] <= db[d][Count]
    BY <1>8, ShownFacts
  <2> QED BY <1>8, <2>1, <2>2, ShownFacts
<1>9. CASE UNCHANGED dayVars BY <1>9 DEF dayVars
<1> QED BY <1>1, <1>2, <1>3, <1>4, <1>5, <1>6, <1>7, <1>8, <1>9 DEF DayNext

(* The inductive invariant.                                                 *)
LEMMA AirInvCorrect == DaySpec => []AirInv
<1>1. AirInv /\ [DayNext]_dayVars => AirInv'
  BY AirTypeStep, PendingStep, ConsistentStep, PublishedStep DEF AirInv
<1> QED BY AirInit, <1>1, PTL DEF DaySpec

(* The sums of a day and its count tell of the same readings, up to one for *)
(* each reset, whatever the number of sums (eight in loop()).               *)
THEOREM DayConsistentCorrect == DaySpec => []DayConsistent
<1>1. AirInv => DayConsistent BY DEF AirInv
<1> QED BY AirInvCorrect, <1>1, PTL

(* The count of a day is behind the passes that have shown readings of it   *)
(* by one at most, the first.                                               *)
THEOREM PublishedIsCountedCorrect == DaySpec => []PublishedIsCounted
<1>1. AirInv => PublishedIsCounted BY DEF AirInv
<1> QED BY AirInvCorrect, <1>1, PTL

(* A write is one reading more than what stands at its place, over midnight *)
(* and resets: what the pass is about to write keeps to its date.           *)
THEOREM WritesAddOneCorrect == DaySpec => WritesAddOne
<1>1. AirInv /\ [DayNext]_dayVars =>
        [\A d \in Days, k \in Keys :
           (db'[d][k] # db[d][k] /\ << d, k >> \notin failed)
             => db'[d][k] = db[d][k] + 1]_dayVars
  <2> SUFFICES ASSUME AirInv, DayNext,
                      NEW d \in Days, NEW k \in Keys,
                      db'[d][k] # db[d][k], << d, k >> \notin failed
               PROVE  db'[d][k] = db[d][k] + 1
    OBVIOUS
  <2>1. SetSucceeds
    BY DEF DayNext, Midnight, Start, Reset, GetSucceeds, GetFails, SetFails, Publish
  <2>2. db'[d][k] = IF d = date /\ k = key THEN value ELSE db[d][k]
    BY <2>1, WriteFacts DEF AirInv, DayTypeOK, SetSucceeds
  <2>3. d = date /\ k = key
    BY <2>2
  <2> QED BY <2>1, <2>2, <2>3 DEF AirInv, PendingInv, SetSucceeds
<1> QED BY AirInvCorrect, <1>1, PTL DEF DaySpec, WritesAddOne
=============================================================================
