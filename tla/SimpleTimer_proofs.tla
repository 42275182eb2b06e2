------------------------- MODULE SimpleTimer_proofs ------------------------
(***************************************************************************)
(* Safety of SimpleTimer for every table size, clock width, set of delays  *)
(* and run counts, and for callbacks that delete their own timers or not;  *)
(* and for those that do not, the refinement of TimerPromise.              *)
(***************************************************************************)
EXTENDS SimpleTimer, FiniteSetTheorems, WellFoundedInduction, TLAPS

(* The slots in use form a finite set, so counting them makes sense. *)
LEMMA UsedFinite == IsFiniteSet(Used) /\ Cardinality(Used) \in Nat
<1>1. IsFiniteSet(Slots)
  BY TimerAssumption, FS_Interval DEF Slots
<1>2. Used \in SUBSET Slots
  BY DEF Used
<1>3. QED
  BY <1>1, <1>2, FS_Subset, FS_CardinalityType

(* Type correctness: the constructor establishes it and every operation    *)
(* and both passes of run() keep it, provided numTimers is the count of    *)
(* the slots in use, so that deleting never takes it below zero.           *)
Inv == TypeOK /\ SlotCount

(* The constructor leaves a table that satisfies the invariant. *)
LEMMA InitInv == Init => Inv
<1> SUFFICES ASSUME Init PROVE Inv
  OBVIOUS
<1>1. TypeOK
  BY TimerAssumption DEF Init, TypeOK, Slots
<1>2. Used = {}
  BY DEF Init, Used, Slots
<1>3. QED
  BY <1>1, <1>2, FS_EmptySet DEF Init, Inv, SlotCount

(* Only a counted slot can be deleted: a slot in use makes numTimers        *)
(* positive.                                                                *)
LEMMA UsedPositive ==
  ASSUME Inv, NEW i \in Used PROVE numTimers \in Nat \ {0}
<1>1. Cardinality(Used) # 0
  BY UsedFinite, FS_EmptySet
<1>2. QED
  BY <1>1, UsedFinite DEF Inv, SlotCount

(* What Delete(i) does to the table, whichever of its branches is taken.    *)
LEMMA DeleteStep ==
  ASSUME Inv, NEW i \in Slots, Delete(i)
  PROVE  \/ /\ i \in Used
            /\ Free(i)
         \/ /\ i \notin Used
            /\ UNCHANGED << now, table, prevMillis, toBeCalled, age >>
<1>1. CASE i \in Used
  BY <1>1, UsedPositive DEF Delete, Used
<1>2. CASE i \notin Used
  BY <1>2 DEF Delete, Used
<1>3. QED
  BY <1>1, <1>2

(* deleteTimer keeps the types. *)
LEMMA DeleteType ==
  ASSUME Inv, NEW i \in Slots, Delete(i), UNCHANGED at,
         phase' \in {"loop", "scan", "RUNONLY", "RUNANDDEL"}
  PROVE  TypeOK'
<1>1. CASE i \in Used /\ Free(i)
  <2>1. numTimers' \in Nat
    BY <1>1, UsedPositive DEF Free
  <2>2. QED
    BY <1>1, <2>1 DEF Free, Inv, TypeOK
<1>2. CASE UNCHANGED << now, table, prevMillis, toBeCalled, age >>
  BY <1>2 DEF Inv, TypeOK, table
<1>3. QED
  BY <1>1, <1>2, DeleteStep

(* deleteTimer keeps the counter in step with the slots. *)
LEMMA DeleteCount ==
  ASSUME Inv, NEW i \in Slots, Delete(i)
  PROVE  SlotCount'
<1>1. CASE i \in Used /\ Free(i)
  <2>1. Used' = Used \ {i}
    BY <1>1 DEF Used, Free, Inv, TypeOK
  <2>2. Cardinality(Used \ {i}) = Cardinality(Used) - 1
    BY <1>1, UsedFinite, FS_RemoveElement
  <2>3. QED
    BY <1>1, <2>1, <2>2 DEF Free, Inv, SlotCount
<1>2. CASE UNCHANGED << now, table, prevMillis, toBeCalled, age >>
  BY <1>2 DEF Inv, SlotCount, Used, table
<1>3. QED
  BY <1>1, <1>2, DeleteStep

(* Readings of the clock stay below Wrap. *)
LEMMA WrapRange == \A x \in Int : x % Wrap \in 0 .. (Wrap - 1)
BY TimerAssumption

(* The second pass stays inside the table. *)
LEMMA SlotRange ==
  /\ 0 \in Slots
  /\ \A i \in Slots : i + 1 < MaxTimers => i + 1 \in Slots
BY TimerAssumption DEF Slots

(* Every step keeps the invariant. *)
LEMMA NextInv == Inv /\ [Next]_vars => Inv'
<1> SUFFICES ASSUME Inv, [Next]_vars PROVE Inv'
  OBVIOUS
<1> USE TimerAssumption DEF RUN_FOREVER
<1>1. CASE RunStart
  <2> USE DEF RunStart, Inv, TypeOK
  <2>a. prevMillis' \in [Slots -> 0 .. (Wrap - 1)]
    <3>1. ASSUME NEW i \in Slots
          PROVE  (prevMillis[i] + delays[i]) % Wrap \in 0 .. (Wrap - 1)
      <4>1. prevMillis[i] + delays[i] \in Int
        OBVIOUS
      <4>2. QED
        BY <4>1, WrapRange
    <3>2. QED
      BY <1>1, <3>1
  <2>b. numRuns' \in [Slots -> Nat] /\ age' \in [Slots -> Int]
    BY <1>1
  <2>c. toBeCalled' \in [Slots -> {"DONTRUN", "RUNONLY", "RUNANDDEL"}]
    BY <1>1
  <2>1. TypeOK'
    BY <1>1, <2>a, <2>b, <2>c, SlotRange
  <2>2. SlotCount'
    BY <1>1 DEF RunStart, Inv, SlotCount, Used
  <2>3. QED
    BY <2>1, <2>2 DEF Inv
<1>2. CASE Skip
  <2>a. at' \in Slots /\ phase' \in {"loop", "scan"}
    BY <1>2, SlotRange DEF Skip, NextSlot, Inv, TypeOK
  <2>1. TypeOK'
    BY <1>2, <2>a DEF Skip, Inv, TypeOK, table
  <2>2. SlotCount'
    BY <1>2 DEF Skip, Inv, SlotCount, Used, table
  <2>3. QED
    BY <2>1, <2>2 DEF Inv
<1>3. CASE Invoke
  <2>1. TypeOK'
    BY <1>3 DEF Invoke, Inv, TypeOK, Slots, table
  <2>2. SlotCount'
    BY <1>3 DEF Invoke, Inv, SlotCount, Used, table
  <2>3. QED
    BY <2>1, <2>2 DEF Inv
<1>4. CASE Return
  <2>1. at' \in Slots /\ phase' \in {"loop", "scan"}
    BY <1>4, SlotRange DEF Return, NextSlot, Inv, TypeOK
  <2>2. CASE UNCHANGED << now, table, prevMillis, toBeCalled, age >>
    BY <2>1, <2>2 DEF Inv, TypeOK, SlotCount, Used, table
  <2>3. CASE Delete(at)
    <3>1. at \in Slots
      BY DEF Inv, TypeOK
    <3>2. CASE at \in Used /\ Free(at)
      <4>1. numTimers' \in Nat
        BY <3>2, UsedPositive DEF Free
      <4>2. TypeOK'
        BY <3>2, <4>1, <2>1 DEF Free, Inv, TypeOK
      <4>3. QED
        BY <2>3, <3>1, <4>2, DeleteCount DEF Inv
    <3>3. QED
      BY <2>2, <2>3, <3>1, <3>2, DeleteStep
  <2>4. QED
    BY <1>4, <2>2, <2>3 DEF Return
<1>5. CASE Client
  <2>1. ASSUME NEW i \in Slots, NEW d \in Delays, NEW f \in Callbacks,
               NEW n \in RunCounts, SetTimer(i, d, f, n)
        PROVE  Inv'
    <3>1. TypeOK'
      BY <2>1 DEF SetTimer, Inv, TypeOK
    <3>2. Used' = Used \cup {i} /\ i \notin Used
      BY <2>1 DEF SetTimer, FirstFreeSlot, Used, Inv, TypeOK
    <3>3. Cardinality(Used \cup {i}) = Cardinality(Used) + 1
      BY <3>2, UsedFinite, FS_AddElement
    <3>4. QED
      BY <2>1, <3>1, <3>2, <3>3 DEF SetTimer, Inv, SlotCount
  <2>2. CASE SetTimerRefused
    BY <2>2 DEF SetTimerRefused, Inv, TypeOK, SlotCount, Used, table
  <2>3. ASSUME NEW i \in Slots, DeleteTimer(i) PROVE Inv'
    BY <2>3, DeleteType, DeleteCount DEF DeleteTimer, Inv, TypeOK
  <2>4. ASSUME NEW i \in Slots, RestartTimer(i) PROVE Inv'
    BY <2>4 DEF RestartTimer, Inv, TypeOK, SlotCount, Used, table
  <2>5. ASSUME NEW i \in Slots, NEW e \in BOOLEAN, SetEnabled(i, e)
        PROVE  Inv'
    BY <2>5 DEF SetEnabled, Inv, TypeOK, SlotCount, Used
  <2>6. ASSUME NEW i \in Slots, Toggle(i) PROVE Inv'
    BY <2>6 DEF Toggle, SetEnabled, Inv, TypeOK, SlotCount, Used
  <2>7. QED
    BY <1>5, <2>1, <2>2, <2>3, <2>4, <2>5, <2>6 DEF Client, Enable, Disable
<1>6. CASE Tick
  <2>1. TypeOK'
    BY <1>6 DEF Tick, Inv, TypeOK, table
  <2>2. SlotCount'
    BY <1>6 DEF Tick, Inv, SlotCount, Used, table
  <2>3. QED
    BY <2>1, <2>2 DEF Inv
<1>7. CASE UNCHANGED vars
  BY <1>7 DEF vars, Inv, TypeOK, SlotCount, Used
<1>8. QED
  BY <1>1, <1>2, <1>3, <1>4, <1>5, <1>6, <1>7 DEF Next

(* The arrays keep their types and numTimers counts the slots in use in     *)
(* every reachable state: creation, deletion, self-deletion and expiry      *)
(* never lose or leak a slot.                                               *)
THEOREM SlotCountCorrect == Spec => [](TypeOK /\ SlotCount)
<1>1. QED
  BY InitInv, NextInv, PTL DEF Spec, Inv

(* The invariant holds in every reachable state. *)
LEMMA InvCorrect == Spec => []Inv
<1>1. QED
  BY InitInv, NextInv, PTL DEF Spec

(* The arrays of the table keep their types, and the second pass stays      *)
(* within the slots, whatever the callbacks called from it do: run().       *)
THEOREM TypeCorrect == Spec => []TypeOK
<1>1. QED
  BY InvCorrect, PTL DEF Inv

----------------------------------------------------------------------------
(* The calls decided by the first pass.                                     *)

(* When the second pass moves on, the calls still pending were pending      *)
(* before, and none is after the last slot.                                 *)
LEMMA PendingShrinks ==
  ASSUME Inv, NextSlot, phase # "loop", NEW i \in Slots, Pending(i)',
         toBeCalled'[i] # "DONTRUN" => toBeCalled'[i] = toBeCalled[i]
  PROVE  Pending(i) /\ i > at /\ toBeCalled'[i] = toBeCalled[i]
<1>1. phase' = "scan" /\ at' = at + 1
  BY DEF NextSlot, Pending
<1>2. i > at
  <2>1. at \in Int /\ i \in Int
    BY TimerAssumption DEF Inv, TypeOK, Slots
  <2>2. QED
    BY <1>1, <2>1 DEF Pending
<1>3. toBeCalled'[i] = toBeCalled[i] /\ toBeCalled[i] # "DONTRUN"
  BY DEF Pending
<1>4. QED
  BY <1>2, <1>3 DEF Pending

(* The second pass never finds an empty slot to call through: a callback    *)
(* that deletes another timer also withdraws its pending call, and a slot   *)
(* refilled during the pass has no call pending.                            *)
THEOREM NoNullCallCorrect == Spec => []NoNullCall
<1>1. Init => NoNullCall
  BY DEF Init, NoNullCall, Pending
<1>2. Inv /\ NoNullCall /\ [Next]_vars => NoNullCall'
  <2> SUFFICES ASSUME Inv, NoNullCall, [Next]_vars,
                      NEW i \in Slots, Pending(i)'
               PROVE  callbacks'[i] # NoCallback
    BY DEF NoNullCall
  <2> USE DEF NoNullCall
  <2>1. CASE RunStart
    <3>1. Fires(i)
      BY <2>1 DEF RunStart, Pending
    <3>2. QED
      BY <2>1, <3>1 DEF RunStart, Fires, Due
  <2>2. CASE Skip
    BY <2>2, PendingShrinks DEF Skip, table
  <2>3. CASE Invoke
    BY <2>3 DEF Invoke, Pending, table, Inv, TypeOK
  <2>4. CASE Return
    <3>1. phase # "loop" /\ at \in Slots /\ NextSlot
      BY <2>4 DEF Return, Inv, TypeOK
    <3>2. CASE UNCHANGED << now, table, prevMillis, toBeCalled, age >>
      BY <3>1, <3>2, PendingShrinks DEF table
    <3>3. CASE Free(at)
      <4>1. toBeCalled'[i] # "DONTRUN" => toBeCalled'[i] = toBeCalled[i]
        BY <3>3 DEF Free, Inv, TypeOK
      <4>2. Pending(i) /\ i # at
        BY <3>1, <4>1, PendingShrinks DEF Slots
      <4>3. QED
        BY <3>3, <4>2 DEF Free, Inv, TypeOK
    <3>4. QED
      BY <2>4, <3>1, <3>2, <3>3, DeleteStep DEF Return
  <2>5. CASE Client
    <3>1. ASSUME NEW k \in Slots, NEW d \in Delays, NEW f \in Callbacks,
                 NEW n \in RunCounts, SetTimer(k, d, f, n)
          PROVE  callbacks'[i] # NoCallback
      BY <3>1, TimerAssumption DEF SetTimer, Pending, Inv, TypeOK
    <3>2. CASE SetTimerRefused
      BY <3>2 DEF SetTimerRefused, Pending, table
    <3>3. ASSUME NEW k \in Slots, DeleteTimer(k)
          PROVE  callbacks'[i] # NoCallback
      <4>1. CASE Free(k)
        BY <3>3, <4>1 DEF DeleteTimer, Free, Pending, Inv, TypeOK
      <4>2. CASE UNCHANGED << now, table, prevMillis, toBeCalled, age >>
        BY <3>3, <4>2 DEF DeleteTimer, Pending, table
      <4>3. QED
        BY <3>3, <4>1, <4>2, DeleteStep DEF DeleteTimer
    <3>4. ASSUME NEW k \in Slots, RestartTimer(k)
          PROVE  callbacks'[i] # NoCallback
      BY <3>4 DEF RestartTimer, Pending, table
    <3>5. ASSUME NEW k \in Slots, NEW e, SetEnabled(k, e)
          PROVE  callbacks'[i] # NoCallback
      BY <3>5 DEF SetEnabled, Pending
    <3>6. QED
      BY <2>5, <3>1, <3>2, <3>3, <3>4, <3>5
      DEF Client, Enable, Disable, Toggle
  <2>6. CASE Tick
    BY <2>6 DEF Tick, Pending, table
  <2>7. CASE UNCHANGED vars
    BY <2>7 DEF vars, Pending
  <2>8. QED
    BY <2>1, <2>2, <2>3, <2>4, <2>5, <2>6, <2>7 DEF Next
<1>3. QED
  BY <1>1, <1>2, InvCorrect, PTL DEF Spec

(* Moving on to the next slot keeps the calls that come later.              *)
LEMMA PendingKept ==
  ASSUME Inv, NextSlot, NEW i \in Slots, Pending(i), i # at,
         toBeCalled'[i] = toBeCalled[i]
  PROVE  Pending(i)'
<1>1. i \in Int /\ at \in Int /\ i < MaxTimers /\ i > at
  BY TimerAssumption DEF Inv, TypeOK, Slots, Pending
<1>2. at' = at + 1 /\ phase' = "scan"
  BY <1>1, TimerAssumption DEF NextSlot
<1>3. QED
  BY <1>1, <1>2 DEF Pending

(* A timer set for n runs is called n times and no more, and whoever gets   *)
(* its slot next starts from zero.                                          *)
THEOREM RunBudgetCorrect == Spec => []RunBudget
<1>1. Init => RunBudget
  BY DEF Init, RunBudget, Used
<1>2. Inv /\ RunBudget /\ [Next]_vars => RunBudget'
  <2> DEFINE Spent(i) == \/ Pending(i) /\ toBeCalled[i] = "RUNANDDEL"
                         \/ phase = "RUNANDDEL" /\ i = at
             Budget(i) ==
               /\ i \notin Used => numRuns[i] = 0
               /\ i \in Used /\ maxNumRuns[i] # RUN_FOREVER =>
                    /\ numRuns[i] <= maxNumRuns[i]
                    /\ numRuns[i] = maxNumRuns[i] => Spent(i)
  <2> SUFFICES ASSUME Inv, RunBudget, [Next]_vars, NEW i \in Slots
               PROVE  Budget(i)'
    BY DEF RunBudget
  <2>0. Budget(i) /\ numRuns[i] \in Nat /\ maxNumRuns[i] \in Nat
    BY DEF RunBudget, Inv, TypeOK
  <2> USE DEF RUN_FOREVER
  (* Steps that leave slot i alone and keep its last call due. *)
  <2>A. ASSUME UNCHANGED << callbacks[i], numRuns[i], maxNumRuns[i] >>,
               Spent(i) => Spent(i)'
        PROVE  Budget(i)'
    BY <2>0, <2>A DEF Used
  <2>1. CASE RunStart
    <3>1. ~Spent(i)
      BY <2>1 DEF RunStart, Pending
    <3>2. CASE ~(Fires(i) /\ maxNumRuns[i] # RUN_FOREVER)
      BY <2>1, <3>1, <3>2, <2>0 DEF RunStart, Used
    <3>3. CASE Fires(i) /\ maxNumRuns[i] # RUN_FOREVER
      <4>1. /\ i \in Used
            /\ numRuns'[i] = numRuns[i] + 1
            /\ numRuns[i] < maxNumRuns[i]
            /\ UNCHANGED << callbacks, maxNumRuns >>
        BY <2>1, <3>3 DEF RunStart, Fires, Due, Used
      <4>2. CASE numRuns[i] + 1 < maxNumRuns[i]
        BY <4>1, <4>2, <2>0 DEF Used
      <4>3. CASE numRuns[i] + 1 >= maxNumRuns[i]
        <5>1. toBeCalled'[i] = "RUNANDDEL"
          BY <2>1, <3>3, <4>3 DEF RunStart, LastRun
        <5>2. Pending(i)'
          BY <2>1, <5>1 DEF RunStart, Pending, Slots
        <5>3. QED
          BY <4>1, <4>3, <5>1, <5>2, <2>0 DEF Used
      <4>4. QED
        BY <4>2, <4>3, <2>0
    <3>4. QED
      BY <3>2, <3>3
  <2>2. CASE Skip
    <3>1. Spent(i) => Spent(i)'
      BY <2>2, PendingKept DEF Skip, Pending
    <3>2. QED
      BY <2>2, <2>A, <3>1 DEF Skip, table
  <2>3. CASE Invoke
    <3>1. Spent(i) => Spent(i)'
      BY <2>3 DEF Invoke, Pending, Inv, TypeOK
    <3>2. QED
      BY <2>3, <2>A, <3>1 DEF Invoke, table
  <2>4. CASE Return
    <3>1. at \in Slots /\ NextSlot /\ phase \in {"RUNONLY", "RUNANDDEL"}
      BY <2>4 DEF Return, Inv, TypeOK
    <3>2. CASE phase = "RUNANDDEL" /\ Delete(at)
      <4>1. CASE at \in Used /\ Free(at)
        <5>1. CASE i = at
          BY <4>1, <5>1 DEF Free, Used, Inv, TypeOK
        <5>2. CASE i # at
          <6>1. UNCHANGED << callbacks[i], numRuns[i], maxNumRuns[i], toBeCalled[i] >>
            BY <4>1, <5>2 DEF Free, Inv, TypeOK
          <6>2. Spent(i) => Spent(i)'
            BY <3>1, <5>2, <6>1, PendingKept
          <6>3. QED
            BY <2>A, <6>1, <6>2
        <5>3. QED
          BY <5>1, <5>2
      <4>2. CASE at \notin Used
                 /\ UNCHANGED << now, table, prevMillis, toBeCalled, age >>
        <5>1. CASE i = at
          BY <4>2, <5>1, <2>0 DEF table, Used
        <5>2. CASE i # at
          <6>1. Spent(i) => Spent(i)'
            BY <3>1, <4>2, <5>2, PendingKept
          <6>2. QED
            BY <2>A, <4>2, <6>1 DEF table
        <5>3. QED
          BY <5>1, <5>2
      <4>3. QED
        BY <3>1, <3>2, <4>1, <4>2, DeleteStep
    <3>3. CASE phase = "RUNONLY"
               /\ UNCHANGED << now, table, prevMillis, toBeCalled, age >>
      <4>1. Spent(i) => Spent(i)'
        <5>1. Pending(i) => i # at
          BY <3>3 DEF Pending, Inv, TypeOK, Slots
        <5>2. QED
          BY <3>1, <3>3, <5>1, PendingKept
      <4>2. QED
        BY <3>3, <2>A, <4>1 DEF table
    <3>4. QED
      BY <2>4, <3>2, <3>3 DEF Return
  <2>5. CASE Client
    <3>1. ASSUME NEW k \in Slots, NEW d \in Delays, NEW f \in Callbacks,
                 NEW n \in RunCounts, SetTimer(k, d, f, n)
          PROVE  Budget(i)'
      <4>1. CASE i = k
        <5>1. numRuns'[i] = 0 /\ maxNumRuns'[i] = n /\ n \in Nat
          BY <3>1, <4>1, <2>0, TimerAssumption
          DEF SetTimer, FirstFreeSlot, Inv, TypeOK
        <5>2. n # RUN_FOREVER => numRuns'[i] < n
          BY <5>1
        <5>3. QED
          BY <5>1, <5>2
      <4>2. CASE i # k
        BY <3>1, <4>2, <2>A DEF SetTimer, Pending, Inv, TypeOK
      <4>3. QED
        BY <4>1, <4>2
    <3>2. CASE SetTimerRefused
      BY <3>2, <2>A DEF SetTimerRefused, Pending, table
    <3>3. ASSUME NEW k \in Slots, DeleteTimer(k) PROVE Budget(i)'
      <4>1. CASE Free(k) /\ i = k
        BY <4>1 DEF Free, Used, Inv, TypeOK
      <4>2. CASE Free(k) /\ i # k
        BY <3>3, <4>2, <2>A DEF DeleteTimer, Free, Pending, Inv, TypeOK
      <4>3. CASE UNCHANGED << now, table, prevMillis, toBeCalled, age >>
        BY <3>3, <4>3, <2>A DEF DeleteTimer, Pending, table
      <4>4. QED
        BY <3>3, <4>1, <4>2, <4>3, DeleteStep DEF DeleteTimer
    <3>4. ASSUME NEW k \in Slots, RestartTimer(k) PROVE Budget(i)'
      BY <3>4, <2>A DEF RestartTimer, Pending, table
    <3>5. ASSUME NEW k \in Slots, NEW e, SetEnabled(k, e) PROVE Budget(i)'
      BY <3>5, <2>A DEF SetEnabled, Pending
    <3>6. QED
      BY <2>5, <3>1, <3>2, <3>3, <3>4, <3>5
      DEF Client, Enable, Disable, Toggle
  <2>6. CASE Tick
    BY <2>6, <2>A DEF Tick, Pending, table
  <2>7. CASE UNCHANGED vars
    BY <2>7, <2>A DEF vars, Pending
  <2>8. QED
    BY <2>1, <2>2, <2>3, <2>4, <2>5, <2>6, <2>7 DEF Next
<1>3. QED
  BY <1>1, <1>2, InvCorrect, PTL DEF Spec

----------------------------------------------------------------------------
(* The clock.                                                               *)

(* Differences of two readings, and sums of a reading and a delay, modulo   *)
(* Wrap.                                                                    *)
LEMMA WrapSmall ==
  \A x \in Int :
    /\ 0 <= x /\ x < Wrap => x % Wrap = x
    /\ -Wrap < x /\ x < 0 => x % Wrap = x + Wrap
    /\ Wrap <= x /\ x < 2 * Wrap => x % Wrap = x - Wrap
BY TimerAssumption

(* age is what millis() - prev_millis computes, although both wrap.         *)
AgeInv ==
  \A i \in Slots :
    /\ delays[i] < Wrap
    /\ i \in Used => age[i] \in 0 .. (Wrap - 1) /\ age[i] = Elapsed(i)

(* The periods a timer has been served never exceed the true time since it  *)
(* was set or restarted, also across the wrap of millis().                  *)
THEOREM NeverEarlyCorrect == Spec => []NeverEarly
<1> USE TimerAssumption
<1>1. Init => AgeInv
  BY DEF Init, AgeInv, Used
<1>2. Inv /\ AgeInv /\ [Next]_vars => AgeInv'
  <2> DEFINE Age(i) == /\ delays[i] < Wrap
                       /\ i \in Used => /\ age[i] \in 0 .. (Wrap - 1)
                                        /\ age[i] = Elapsed(i)
  <2> SUFFICES ASSUME Inv, AgeInv, [Next]_vars, NEW i \in Slots
               PROVE  Age(i)'
    BY DEF AgeInv
  <2>0. /\ Age(i)
        /\ now \in 0 .. (Wrap - 1) /\ prevMillis[i] \in 0 .. (Wrap - 1)
        /\ delays[i] \in Nat /\ age[i] \in Int
    BY DEF AgeInv, Inv, TypeOK
  (* Steps that touch neither the slot nor the clock. *)
  <2>A. ASSUME UNCHANGED << callbacks[i], delays[i], now, prevMillis[i],
                            age[i] >>
        PROVE  Age(i)'
    BY <2>0, <2>A DEF Used, Elapsed
  <2>1. CASE RunStart
    <3>1. CASE i \in Used /\ Due(i)
      <4>1. /\ age'[i] = age[i] - delays[i]
            /\ prevMillis'[i] = (prevMillis[i] + delays[i]) % Wrap
            /\ UNCHANGED << now, callbacks, delays >>
        BY <2>1, <3>1 DEF RunStart
      <4>2. age[i] >= delays[i]
        BY <2>0, <3>1 DEF Due
      <4>3. Elapsed(i)' = age'[i]
        <5>1. age[i] = IF now >= prevMillis[i] THEN now - prevMillis[i]
                       ELSE now - prevMillis[i] + Wrap
          BY <2>0, <3>1, WrapSmall DEF Elapsed
        <5>2. prevMillis'[i] = IF prevMillis[i] + delays[i] < Wrap
                               THEN prevMillis[i] + delays[i]
                               ELSE prevMillis[i] + delays[i] - Wrap
          BY <2>0, <4>1, WrapSmall
        <5> DEFINE p == prevMillis'[i]
        <5>3. Elapsed(i)' = (now - p) % Wrap
          BY <4>1 DEF Elapsed
        <5>4. p \in Int /\ -Wrap < now - p /\ now - p < Wrap
          BY <2>0, <5>2
        <5>5. (now - p) % Wrap = IF now >= p THEN now - p ELSE now - p + Wrap
          BY <2>0, <5>4, WrapSmall
        <5>6. QED
          BY <2>0, <4>1, <4>2, <5>1, <5>2, <5>3, <5>5
      <4>4. QED
        BY <2>0, <3>1, <4>1, <4>2, <4>3 DEF Used
    <3>2. CASE ~(i \in Used /\ Due(i))
      <4>1. ~Due(i)
        BY <3>2 DEF Due, Used
      <4>2. QED
        BY <2>1, <4>1, <2>A DEF RunStart
    <3>3. QED
      BY <3>1, <3>2
  <2>2. CASE Skip
    BY <2>2, <2>A DEF Skip, table
  <2>3. CASE Invoke
    BY <2>3, <2>A DEF Invoke, table
  <2>D. ASSUME NEW k \in Slots, Delete(k) PROVE Age(i)'
    <3>1. CASE Free(k) /\ i = k
      BY <3>1 DEF Free, Used, Inv, TypeOK
    <3>2. CASE Free(k) /\ i # k
      BY <3>2, <2>A DEF Free, Inv, TypeOK
    <3>3. CASE UNCHANGED << now, table, prevMillis, toBeCalled, age >>
      BY <3>3, <2>A DEF table
    <3>4. QED
      BY <2>D, <3>1, <3>2, <3>3, DeleteStep
  <2>4. CASE Return
    BY <2>4, <2>A, <2>D DEF Return, table, Inv, TypeOK
  <2>5. CASE Client
    <3>1. ASSUME NEW k \in Slots, NEW d \in Delays, NEW f \in Callbacks,
                 NEW n \in RunCounts, SetTimer(k, d, f, n)
          PROVE  Age(i)'
      <4>1. CASE i = k
        <5>1. age'[i] = 0 /\ delays'[i] = d /\ now' - prevMillis'[i] = 0
          BY <3>1, <4>1, <2>0 DEF SetTimer, Inv, TypeOK
        <5>2. Elapsed(i)' = 0 /\ d < Wrap
          BY <5>1, WrapSmall DEF Elapsed
        <5>3. QED
          BY <5>1, <5>2
      <4>2. CASE i # k
        BY <3>1, <4>2, <2>A DEF SetTimer, Inv, TypeOK
      <4>3. QED
        BY <4>1, <4>2
    <3>2. CASE SetTimerRefused
      BY <3>2, <2>A DEF SetTimerRefused, table
    <3>3. ASSUME NEW k \in Slots, DeleteTimer(k) PROVE Age(i)'
      BY <3>3, <2>D DEF DeleteTimer
    <3>4. ASSUME NEW k \in Slots, RestartTimer(k) PROVE Age(i)'
      <4>1. CASE i = k
        <5>1. /\ age'[i] = 0 /\ now' - prevMillis'[i] = 0
              /\ UNCHANGED << callbacks, delays >>
          BY <3>4, <4>1, <2>0 DEF RestartTimer, table, Inv, TypeOK
        <5>2. Elapsed(i)' = 0
          BY <5>1, WrapSmall DEF Elapsed
        <5>3. QED
          BY <2>0, <5>1, <5>2
      <4>2. CASE i # k
        BY <3>4, <4>2, <2>A DEF RestartTimer, table, Inv, TypeOK
      <4>3. QED
        BY <4>1, <4>2
    <3>5. ASSUME NEW k \in Slots, NEW e, SetEnabled(k, e) PROVE Age(i)'
      BY <3>5, <2>A DEF SetEnabled
    <3>6. QED
      BY <2>5, <3>1, <3>2, <3>3, <3>4, <3>5
      DEF Client, Enable, Disable, Toggle
  <2>6. CASE Tick
    <3>1. CASE i \in Used
      <4>1. /\ age'[i] = age[i] + 1 /\ age[i] < Wrap - 1
            /\ now' = (now + 1) % Wrap
            /\ UNCHANGED << callbacks, delays, prevMillis >>
        BY <2>6, <3>1 DEF Tick, table
      <4>2. age[i] = IF now >= prevMillis[i] THEN now - prevMillis[i]
                     ELSE now - prevMillis[i] + Wrap
        BY <2>0, <3>1, WrapSmall DEF Elapsed
      <4>3. now' = IF now + 1 < Wrap THEN now + 1 ELSE 0
        BY <2>0, <4>1, WrapSmall
      <4> DEFINE m == now'
      <4>4. Elapsed(i)' = (m - prevMillis[i]) % Wrap
        BY <4>1 DEF Elapsed
      <4>5. (m - prevMillis[i]) % Wrap =
              IF m >= prevMillis[i] THEN m - prevMillis[i]
              ELSE m - prevMillis[i] + Wrap
        BY <2>0, <4>3, WrapSmall
      <4>6. Elapsed(i)' = age'[i]
        BY <2>0, <4>1, <4>2, <4>3, <4>4, <4>5
      <4>7. QED
        BY <2>0, <3>1, <4>1, <4>6
    <3>2. CASE i \notin Used
      BY <2>6, <3>2, <2>0 DEF Tick, table, Used
    <3>3. QED
      BY <3>1, <3>2
  <2>7. CASE UNCHANGED vars
    BY <2>7, <2>A DEF vars
  <2>8. QED
    BY <2>1, <2>2, <2>3, <2>4, <2>5, <2>6, <2>7 DEF Next
<1>3. AgeInv => NeverEarly
  BY DEF AgeInv, NeverEarly, Used
<1>4. QED
  BY <1>1, <1>2, <1>3, InvCorrect, PTL DEF Spec
----------------------------------------------------------------------------
(* The promise.                                                             *)

(* A set of slots that is not empty has a first one: what findFirstFreeSlot *)
(* looks for exists.                                                        *)
LEMMA FirstSlot ==
  ASSUME NEW S, S \subseteq Slots, S # {}
  PROVE  \E i \in S : \A j \in S : i <= j
<1> DEFINE R == OpToRel(<, Nat)
<1>1. S \subseteq Nat
  BY TimerAssumption DEF Slots
<1>2. \E i \in S : \A j \in S : ~ (<< j, i >> \in R)
  <2>1. IsWellFoundedOn(R, Nat)
    BY NatLessThanWellFounded
  <2> HIDE DEF R
  <2>2. QED
    BY <1>1, <2>1, WFMin
<1>3. \A i, j \in Nat : ~ (<< j, i >> \in R) => i <= j
  BY DEF OpToRel
<1>4. QED
  BY <1>1, <1>2, <1>3

(* setTimer finds a slot unless every slot is in use. *)
LEMMA RoomUnlessFull ==
  ASSUME Inv, ~ \E i \in Slots : FirstFreeSlot(i)
  PROVE  \A i \in Slots : callbacks[i] # NoCallback
<1> SUFFICES ASSUME NEW j \in Slots, callbacks[j] = NoCallback PROVE FALSE
  OBVIOUS
<1>1. j \in Slots \ Used
  BY DEF Used
<1>2. PICK i \in Slots \ Used : \A k \in Slots \ Used : i <= k
  <2>1. Slots \ Used \subseteq Slots /\ Slots \ Used # {}
    BY <1>1
  <2>2. QED
    BY <2>1, FirstSlot
<1>3. numTimers < MaxTimers
  <2>1. IsFiniteSet(Slots) /\ Cardinality(Slots) = MaxTimers
    <3>1. 0 \in Int /\ MaxTimers - 1 \in Int
      BY TimerAssumption
    <3>2. IsFiniteSet(0 .. (MaxTimers - 1))
          /\ Cardinality(0 .. (MaxTimers - 1)) =
               IF 0 > MaxTimers - 1 THEN 0 ELSE (MaxTimers - 1) - 0 + 1
      BY <3>1, FS_Interval
    <3>3. QED
      BY <3>2, TimerAssumption DEF Slots
  <2>2. Used \in SUBSET Slots /\ Used # Slots
    BY <1>1 DEF Used
  <2>3. Cardinality(Used) <= Cardinality(Slots)
        /\ Cardinality(Used) # Cardinality(Slots)
    BY <2>1, <2>2, FS_Subset
  <2>4. QED
    BY <2>1, <2>3, UsedFinite, TimerAssumption DEF Inv, SlotCount
<1>4. QED
  BY <1>2, <1>3 DEF FirstFreeSlot

(* A last call, decided or being made, is the one that brings numRuns to    *)
(* maxNumRuns.                                                              *)
LastCall ==
  \A i \in Slots :
    \/ Pending(i) /\ toBeCalled[i] = "RUNANDDEL"
    \/ phase = "RUNANDDEL" /\ i = at
    => /\ i \in Used
       /\ maxNumRuns[i] # RUN_FOREVER
       /\ numRuns[i] = maxNumRuns[i]

(* A timer set for its last call keeps to it. *)
LEMMA LastCallCorrect == ASSUME DeletesItself = FALSE PROVE Spec => []LastCall
<1>1. Init => LastCall
  BY DEF Init, LastCall, Pending
<1>2. Inv /\ NoNullCall /\ LastCall /\ [Next]_vars => LastCall'
  <2> DEFINE Last(i) == \/ Pending(i) /\ toBeCalled[i] = "RUNANDDEL"
                        \/ phase = "RUNANDDEL" /\ i = at
             Spent(i) == /\ i \in Used
                         /\ maxNumRuns[i] # RUN_FOREVER
                         /\ numRuns[i] = maxNumRuns[i]
  <2> SUFFICES ASSUME Inv, NoNullCall, LastCall, [Next]_vars,
                      NEW i \in Slots, Last(i)'
               PROVE  Spent(i)'
    BY DEF LastCall
  <2>0. Last(i) => Spent(i)
    BY DEF LastCall
  (* Steps that leave slot i alone. *)
  <2>A. ASSUME UNCHANGED << callbacks[i], numRuns[i], maxNumRuns[i] >>, Last(i)
        PROVE  Spent(i)'
    BY <2>0, <2>A DEF Used
  <2>1. CASE RunStart
    <3>1. Fires(i) /\ maxNumRuns[i] # RUN_FOREVER /\ numRuns[i] + 1 >= maxNumRuns[i]
      BY <2>1 DEF RunStart, Pending, LastRun
    <3>2. numRuns'[i] = numRuns[i] + 1 /\ numRuns[i] < maxNumRuns[i]
      BY <2>1, <3>1 DEF RunStart, Fires
    <3>3. numRuns[i] \in Nat /\ maxNumRuns[i] \in Nat
      BY DEF Inv, TypeOK
    <3>4. numRuns'[i] = maxNumRuns[i]
      BY <3>1, <3>2, <3>3
    <3>5. QED
      BY <2>1, <3>1, <3>4 DEF RunStart, Fires, Due, Used
  <2>2. CASE Skip
    <3>1. Pending(i)' /\ toBeCalled'[i] = toBeCalled[i]
          /\ toBeCalled'[i] = "RUNANDDEL"
      BY <2>2 DEF Skip, NextSlot
    <3>2. NextSlot /\ phase # "loop"
      BY <2>2 DEF Skip
    <3>3. Pending(i)
      BY <3>1, <3>2, PendingShrinks
    <3>4. Last(i)
      BY <3>1, <3>3
    <3>5. QED
      BY <2>2, <2>A, <3>4 DEF Skip, table
  <2>3. CASE Invoke
    <3>1. Last(i)
      BY <2>3 DEF Invoke, Pending, Inv, TypeOK
    <3>2. QED
      BY <2>3, <2>A, <3>1 DEF Invoke, table
  <2>4. CASE Return
    <3>1. phase # "loop" /\ at \in Slots /\ NextSlot /\ Pending(i)'
          /\ toBeCalled'[i] = "RUNANDDEL"
      BY <2>4 DEF Return, NextSlot, Inv, TypeOK
    <3>2. CASE UNCHANGED << now, table, prevMillis, toBeCalled, age >>
      BY <3>1, <3>2, <2>A, PendingShrinks DEF table
    <3>3. CASE Free(at)
      <4>1. toBeCalled'[i] = toBeCalled[i]
        BY <3>1, <3>3 DEF Free, Inv, TypeOK
      <4>2. Pending(i) /\ i # at
        BY <3>1, <4>1, PendingShrinks DEF Slots
      <4>3. QED
        BY <3>1, <3>3, <4>1, <4>2, <2>A DEF Free, Inv, TypeOK
    <3>4. QED
      BY <2>4, <3>1, <3>2, <3>3, DeleteStep DEF Return
  <2>5. CASE Client
    <3>1. ASSUME NEW k \in Slots, NEW d \in Delays, NEW f \in Callbacks,
                 NEW n \in RunCounts, SetTimer(k, d, f, n)
          PROVE  Spent(i)'
      <4>1. Last(i)
        BY <3>1 DEF SetTimer, Pending
      <4>2. i # k
        BY <3>1, <4>1, <2>0 DEF SetTimer, FirstFreeSlot
      <4>3. QED
        BY <3>1, <4>1, <4>2, <2>A DEF SetTimer, Inv, TypeOK
    <3>2. CASE SetTimerRefused
      BY <3>2, <2>A DEF SetTimerRefused, Pending, table
    <3>3. ASSUME NEW k \in Slots, DeleteTimer(k) PROVE Spent(i)'
      <4>1. CASE Free(k)
        <5>1. ~ (phase = "RUNANDDEL" /\ k = at)
          BY <3>3 DEF DeleteTimer
        <5>2. Last(i) /\ i # k
          BY <3>3, <4>1, <5>1 DEF DeleteTimer, Free, Pending, Inv, TypeOK
        <5>3. QED
          BY <4>1, <5>2, <2>A DEF Free, Inv, TypeOK
      <4>2. CASE UNCHANGED << now, table, prevMillis, toBeCalled, age >>
        BY <3>3, <4>2, <2>A DEF DeleteTimer, Pending, table
      <4>3. QED
        BY <3>3, <4>1, <4>2, DeleteStep DEF DeleteTimer
    <3>4. ASSUME NEW k \in Slots, RestartTimer(k) PROVE Spent(i)'
      BY <3>4, <2>A DEF RestartTimer, Pending, table
    <3>5. ASSUME NEW k \in Slots, NEW e, SetEnabled(k, e) PROVE Spent(i)'
      BY <3>5, <2>A DEF SetEnabled, Pending
    <3>6. QED
      BY <2>5, <3>1, <3>2, <3>3, <3>4, <3>5
      DEF Client, Enable, Disable, Toggle
  <2>6. CASE Tick
    BY <2>6, <2>A DEF Tick, Pending, table
  <2>7. CASE UNCHANGED vars
    BY <2>7, <2>A DEF vars, Pending
  <2>8. QED
    BY <2>1, <2>2, <2>3, <2>4, <2>5, <2>6, <2>7 DEF Next
<1>3. QED
  BY <1>1, <1>2, InvCorrect, NoNullCallCorrect, PTL DEF Spec

(* A pass moving on to the next slot decides nothing about the others.      *)
LEMMA PendingElsewhere ==
  ASSUME Inv, NextSlot, phase # "loop", NEW i \in Slots, i # at,
         toBeCalled'[i] = toBeCalled[i]
  PROVE  Pending(i)' = Pending(i)
<1>1. Pending(i)' => Pending(i)
  BY PendingShrinks
<1>2. Pending(i) => Pending(i)'
  BY PendingKept
<1>3. Pending(i) \in BOOLEAN /\ Pending(i)' \in BOOLEAN
  BY DEF Pending
<1>4. QED
  BY <1>1, <1>2, <1>3

(* A slot the second pass has left has no call pending.                     *)
LEMMA PassedSlot ==
  ASSUME Inv, NextSlot, phase # "loop", NEW i \in Slots, i = at
  PROVE  ~ Pending(i)'
<1>1. i \in Int
  BY DEF Slots
<1>2. \/ at' = i + 1 /\ phase' = "scan"
      \/ phase' = "loop"
  BY DEF NextSlot
<1>3. QED
  BY <1>1, <1>2 DEF Pending

(* What the entry of a slot depends on. *)
LEMMA EntryKept ==
  ASSUME NEW i \in Slots, Pending(i)' = Pending(i),
         UNCHANGED << callbacks[i], maxNumRuns[i], numRuns[i] >>
  PROVE  Entry(i)' = Entry(i)
BY DEF Entry

(* An entry of the table is a record, owed as many calls as Entry says.     *)
LEMMA EntryFields ==
  ASSUME Inv, NEW i \in Slots
  PROVE  /\ callbacks[i] = NoCallback <=> Entry(i) = [fn |-> NoCallback, owed |-> 0]
         /\ callbacks[i] # NoCallback =>
              Entry(i) = [fn |-> callbacks[i],
                          owed |-> IF maxNumRuns[i] = RUN_FOREVER THEN -1
                                   ELSE (maxNumRuns[i] - numRuns[i])
                                          + (IF Pending(i) THEN 1 ELSE 0)]
<1>1. callbacks[i] # NoCallback => Entry(i).fn = callbacks[i]
  BY DEF Entry
<1>2. QED
  BY <1>1 DEF Entry

(* An empty table is an empty promise. *)
LEMMA PromiseInit == Init => Promise!Init
<1>1. SUFFICES ASSUME Init PROVE Promise!Init
  OBVIOUS
<1>2. ASSUME NEW i \in Slots PROVE Entry(i) = [fn |-> NoCallback, owed |-> 0]
  BY <1>1 DEF Init, Entry
<1>3. QED
  BY <1>1, <1>2 DEF Init, NoEvent, Promise!Init, Promise!NoTimer

(* Every step of the library keeps the promise.                             *)
LEMMA PromiseNext ==
  ASSUME DeletesItself = FALSE, Inv, NoNullCall, RunBudget, LastCall,
         [Next]_vars
  PROVE  [Promise!Next]_<< [i \in Slots |-> Entry(i)], event >>
<1> DEFINE T == [i \in Slots |-> Entry(i)]
<1> USE DEF RUN_FOREVER
<1>0. \A i \in Slots : /\ numRuns[i] \in Nat /\ maxNumRuns[i] \in Nat
                       /\ toBeCalled[i] \in {"DONTRUN", "RUNONLY", "RUNANDDEL"}
  BY DEF Inv, TypeOK
<1>A. ASSUME \A i \in Slots : Entry(i)' = Entry(i) PROVE T' = T
  BY <1>A
<1>B. ASSUME NEW i \in Slots, NEW x, Entry(i)' = x,
             \A j \in Slots \ {i} : Entry(j)' = Entry(j)
      PROVE  T' = [T EXCEPT ![i] = x]
  BY <1>B
<1>C. ASSUME \A i \in Slots : Entry(i)' = Entry(i),
             event'[1] \in {"none", "restartTimer", "enable", "disable"}
      PROVE  Promise!Next
  <2>1. T' = T
    BY <1>A, <1>C
  <2>2. QED
    BY <1>C, <2>1 DEF Promise!Next, Promise!Other
<1> SUFFICES ASSUME Next PROVE Promise!Next
  <2>1. ASSUME UNCHANGED vars PROVE UNCHANGED << T, event >>
    <3>1. \A i \in Slots : Entry(i)' = Entry(i)
      BY <2>1 DEF vars, Entry, Pending
    <3>2. QED
      BY <1>A, <2>1, <3>1 DEF vars
  <2>2. QED
    BY <2>1
<1>1. CASE RunStart
  <2>1. ASSUME NEW i \in Slots PROVE Entry(i)' = Entry(i)
    <3>1. ~ Pending(i) /\ UNCHANGED << callbacks, maxNumRuns >>
      BY <1>1 DEF RunStart, Pending
    <3>2. CASE ~ Fires(i)
      <4>1. numRuns'[i] = numRuns[i] /\ ~ Pending(i)'
        BY <1>1, <3>2 DEF RunStart, Pending
      <4>2. QED
        BY <3>1, <4>1 DEF Entry
    <3>3. CASE Fires(i) /\ maxNumRuns[i] = RUN_FOREVER
      BY <3>1, <3>3 DEF Entry
    <3>4. CASE Fires(i) /\ maxNumRuns[i] # RUN_FOREVER
      <4>1. numRuns'[i] = numRuns[i] + 1 /\ Pending(i)'
        BY <1>1, <3>4 DEF RunStart, Pending, Slots
      <4>2. (maxNumRuns[i] - (numRuns[i] + 1)) + 1
              = (maxNumRuns[i] - numRuns[i]) + 0
        BY <1>0
      <4>3. QED
        BY <3>1, <3>4, <4>1, <4>2 DEF Entry
    <3>5. QED
      BY <3>2, <3>3, <3>4
  <2>2. QED
    BY <1>1, <1>C, <2>1 DEF RunStart, NoEvent
<1>2. CASE Skip
  <2>1. ASSUME NEW i \in Slots PROVE Entry(i)' = Entry(i)
    <3>1. NextSlot /\ phase # "loop" /\ UNCHANGED << table, toBeCalled >>
      BY <1>2 DEF Skip
    <3>2. Pending(i)' = Pending(i)
      <4>1. CASE i = at
        BY <1>2, <3>1, <4>1 DEF Skip, Pending
      <4>2. CASE i # at
        BY <3>1, <4>2, PendingElsewhere
      <4>3. QED
        BY <4>1, <4>2
    <3>3. QED
      BY <3>1, <3>2, EntryKept DEF table
  <2>2. QED
    BY <1>2, <1>C, <2>1 DEF Skip, NoEvent
<1>3. CASE Invoke
  <2>1. PICK k \in Slots : k = at
    BY DEF Inv, TypeOK
  <2>2. /\ Pending(k) /\ ~ Pending(k)'
        /\ \A i \in Slots \ {k} : Pending(i)' = Pending(i)
    <3>1. /\ phase = "scan" /\ phase' \in {"RUNONLY", "RUNANDDEL"}
          /\ at' = k /\ toBeCalled' = toBeCalled /\ toBeCalled[k] # "DONTRUN"
      BY <1>0, <1>3, <2>1 DEF Invoke
    <3>2. k \in Int
      BY DEF Slots
    <3>3. Pending(k) /\ ~ Pending(k)'
      BY <2>1, <3>1, <3>2 DEF Pending
    <3>4. ASSUME NEW i \in Slots \ {k} PROVE Pending(i)' = Pending(i)
      BY <2>1, <3>1, <3>4 DEF Pending
    <3>5. QED
      BY <3>3, <3>4
  <2>3. \A i \in Slots \ {k} : Entry(i)' = Entry(i)
    BY <1>3, <2>2, EntryKept DEF Invoke, table
  <2>4. callbacks[k] # NoCallback
    BY <2>2 DEF NoNullCall
  <2>5. UNCHANGED << callbacks, maxNumRuns, numRuns >>
    BY <1>3 DEF Invoke, table
  <2>6. maxNumRuns[k] # RUN_FOREVER =>
          /\ numRuns[k] <= maxNumRuns[k]
          /\ Entry(k).owed = (maxNumRuns[k] - numRuns[k]) + 1
          /\ Entry(k)' = [fn |-> callbacks[k],
                          owed |-> (maxNumRuns[k] - numRuns[k]) + 0]
    BY <2>2, <2>4, <2>5 DEF Entry, RunBudget, Used
  <2>7. Entry(k).fn = callbacks[k]
    BY <2>4 DEF Entry
  <2>8. Entry(k)' = [Entry(k) EXCEPT !.owed = IF @ = -1 THEN @ ELSE @ - 1]
        /\ Entry(k).owed # 0
    <3>1. CASE maxNumRuns[k] = RUN_FOREVER
      BY <2>4, <2>5, <3>1 DEF Entry
    <3>2. CASE maxNumRuns[k] # RUN_FOREVER
      <4> DEFINE n == (maxNumRuns[k] - numRuns[k]) + 1
      <4>1. n \in Nat \ {0} /\ n - 1 = (maxNumRuns[k] - numRuns[k]) + 0
            /\ n # -1
        BY <1>0, <2>6, <3>2
      <4>2. Entry(k) = [fn |-> callbacks[k], owed |-> n]
        BY <2>2, <2>4, <3>2 DEF Entry
      <4>3. Entry(k)' = [fn |-> callbacks[k], owed |-> n - 1]
        BY <2>6, <3>2, <4>1
      <4> HIDE DEF n
      <4>4. QED
        BY <4>1, <4>2, <4>3
    <3>3. QED
      BY <3>1, <3>2
  <2>9. T' = [T EXCEPT ![k].owed = IF @ = -1 THEN @ ELSE @ - 1]
    BY <1>B, <2>3, <2>8
  <2>10. T[k] # Promise!NoTimer /\ T[k].owed # 0
    BY <2>8 DEF Promise!NoTimer
  <2>11. event' = << "call", k >>
    BY <1>3, <2>1 DEF Invoke
  <2>12. QED
    BY <2>9, <2>10, <2>11 DEF Promise!Next, Promise!Call
<1>4. CASE Return
  <2>1. PICK k \in Slots : k = at
    BY DEF Inv, TypeOK
  <2>2. NextSlot /\ phase \in {"RUNONLY", "RUNANDDEL"} /\ event' = << "return", k >>
    BY <1>4, <2>1 DEF Return
  <2>3. ~ Pending(k) /\ ~ Pending(k)'
    <3>1. ~ Pending(k)
      BY <2>1, <2>2 DEF Pending, Slots
    <3>2. QED
      BY <2>1, <2>2, <3>1, PassedSlot
  <2>4. ASSUME Entry(k)' = IF Entry(k).owed = 0 THEN Promise!NoTimer ELSE Entry(k),
               \A j \in Slots \ {k} : Entry(j)' = Entry(j)
        PROVE  Promise!Next
    <3>1. T' = [T EXCEPT ![k] = IF @.owed = 0 THEN Promise!NoTimer ELSE @]
      BY <1>B, <2>4
    <3>2. QED
      BY <2>2, <3>1 DEF Promise!Next, Promise!Returned
  <2>5. CASE UNCHANGED << now, table, prevMillis, toBeCalled, age >>
             /\ (callbacks[k] = NoCallback \/ phase = "RUNONLY")
    <3>1. ASSUME NEW j \in Slots PROVE Pending(j)' = Pending(j)
      <4>1. CASE j = k
        BY <2>3, <4>1 DEF Pending
      <4>2. CASE j # k
        <5>1. j # at /\ NextSlot /\ phase # "loop" /\ toBeCalled'[j] = toBeCalled[j]
          BY <2>1, <2>2, <2>5, <4>2
        <5>2. QED
          BY <5>1, PendingElsewhere
      <4>3. QED
        BY <4>1, <4>2
    <3>2. \A j \in Slots : Entry(j)' = Entry(j)
      BY <2>5, <3>1, EntryKept DEF table
    <3>3. CASE callbacks[k] = NoCallback
      <4>1. Entry(k) = Promise!NoTimer
        BY <3>3 DEF Entry, Promise!NoTimer
      <4>2. QED
        BY <2>4, <3>2, <4>1
    <3>4. CASE callbacks[k] # NoCallback /\ maxNumRuns[k] = RUN_FOREVER
      <4>1. Entry(k).owed # 0
        BY <3>4 DEF Entry
      <4>2. QED
        BY <2>4, <3>2, <4>1
    <3>5. CASE callbacks[k] # NoCallback /\ maxNumRuns[k] # RUN_FOREVER
      <4>1. numRuns[k] <= maxNumRuns[k] /\ numRuns[k] # maxNumRuns[k]
        BY <2>3, <2>5, <3>5 DEF RunBudget, Used
      <4>2. Entry(k).owed = (maxNumRuns[k] - numRuns[k]) + 0
        BY <2>3, <3>5 DEF Entry
      <4>3. (maxNumRuns[k] - numRuns[k]) + 0 # 0
        BY <1>0, <4>1
      <4>4. QED
        BY <2>4, <3>2, <4>2, <4>3
    <3>6. QED
      BY <3>3, <3>4, <3>5
  <2>6. CASE Free(k) /\ phase = "RUNANDDEL"
    <3>1. k \in Used /\ maxNumRuns[k] # RUN_FOREVER /\ numRuns[k] = maxNumRuns[k]
      BY <2>1, <2>6 DEF LastCall
    <3>2. Entry(k).owed = (maxNumRuns[k] - numRuns[k]) + 0
      BY <2>3, <3>1 DEF Entry, Used
    <3>3. Entry(k).owed = 0
      BY <1>0, <3>1, <3>2
    <3>4. Entry(k)' = Promise!NoTimer
      BY <2>6 DEF Free, Entry, Promise!NoTimer, Inv, TypeOK
    <3>5. ASSUME NEW j \in Slots \ {k} PROVE Entry(j)' = Entry(j)
      <4>1. UNCHANGED << callbacks[j], maxNumRuns[j], numRuns[j], toBeCalled[j] >>
        BY <2>6, <3>5 DEF Free, Inv, TypeOK
      <4>2. Pending(j)' = Pending(j)
        BY <2>1, <2>2, <3>5, <4>1, PendingElsewhere
      <4>3. QED
        BY <4>1, <4>2, EntryKept
    <3>6. QED
      BY <2>4, <3>3, <3>4, <3>5
  <2>7. QED
    <3>1. CASE phase = "RUNONLY"
      BY <1>4, <2>5, <3>1 DEF Return
    <3>2. CASE phase = "RUNANDDEL"
      <4>1. Delete(k)
        BY <1>4, <2>1, <3>2 DEF Return
      <4>2. QED
        BY <2>5, <2>6, <3>2, <4>1, DeleteStep DEF Used
    <3>3. QED
      BY <2>2, <3>1, <3>2
<1>5. CASE Client
  <2>1. ASSUME NEW i \in Slots, NEW d \in Delays, NEW f \in Callbacks,
               NEW n \in RunCounts, SetTimer(i, d, f, n)
        PROVE  Promise!Next
    <3>1. /\ callbacks[i] = NoCallback /\ numRuns[i] = 0
          /\ callbacks'[i] = f /\ maxNumRuns'[i] = n /\ numRuns'[i] = 0
      BY <2>1 DEF SetTimer, FirstFreeSlot, Used, RunBudget, Inv, TypeOK
    <3>2. UNCHANGED << toBeCalled, phase, at, numRuns >> /\ event' = << "setTimer", i >>
      BY <2>1 DEF SetTimer
    <3>3. \A j \in Slots : Pending(j)' = Pending(j)
      BY <3>2 DEF Pending
    <3>4. ~ Pending(i)'
      BY <3>1, <3>3 DEF NoNullCall
    <3>5. f # NoCallback /\ n \in Nat
      BY TimerAssumption
    <3>6. Entry(i)' = [fn |-> f, owed |-> IF n = 0 THEN -1 ELSE n]
      <4>1. (n - 0) + 0 = n
        BY <3>5
      <4>2. QED
        BY <3>1, <3>4, <3>5, <4>1 DEF Entry
    <3>7. ASSUME NEW j \in Slots \ {i} PROVE Entry(j)' = Entry(j)
      <4>1. UNCHANGED << callbacks[j], maxNumRuns[j], numRuns[j] >>
        BY <2>1, <3>7 DEF SetTimer, Inv, TypeOK
      <4>2. QED
        BY <3>3, <4>1, EntryKept
    <3>8. T' = [T EXCEPT ![i] = [fn |-> f, owed |-> IF n = 0 THEN -1 ELSE n]]
      BY <1>B, <3>6, <3>7
    <3>9. T[i] = Promise!NoTimer
      BY <3>1 DEF Entry, Promise!NoTimer
    <3>10. Promise!Set(i)
      BY <3>2, <3>8, <3>9 DEF Promise!Set, Promise!Owed
    <3>11. QED
      BY <3>10 DEF Promise!Next
  <2>2. CASE SetTimerRefused
    <3>1. ASSUME NEW i \in Slots PROVE Entry(i)' = Entry(i)
      BY <2>2 DEF SetTimerRefused, table, Entry, Pending
    <3>2. ASSUME ~ \E i \in Slots : FirstFreeSlot(i)
          PROVE  \A i \in Slots : T[i] # Promise!NoTimer
      <4>1. \A i \in Slots : callbacks[i] # NoCallback
        BY <3>2, RoomUnlessFull
      <4>2. \A i \in Slots : Entry(i).fn # NoCallback
        BY <4>1 DEF Entry
      <4>3. QED
        BY <4>2 DEF Promise!NoTimer
    <3>3. T' = T
      BY <1>A, <3>1
    <3>4. CASE event' = << "setNull", -1 >>
      BY <3>3, <3>4 DEF Promise!Next, Promise!Other
    <3>5. CASE event' # << "setNull", -1 >>
      BY <2>2, <3>2, <3>3, <3>5 DEF SetTimerRefused, Promise!Next, Promise!Refuse
    <3>6. QED
      BY <3>4, <3>5
  <2>3. ASSUME NEW i \in Slots, DeleteTimer(i) PROVE Promise!Next
    <3>1. UNCHANGED << phase, at >> /\ event' = << "deleteTimer", i >> /\ Delete(i)
      BY <2>3 DEF DeleteTimer
    <3>2. Entry(i)' = Promise!NoTimer /\ \A j \in Slots \ {i} : Entry(j)' = Entry(j)
      <4>1. CASE Free(i)
        <5>1. Entry(i)' = Promise!NoTimer
          BY <4>1 DEF Free, Entry, Promise!NoTimer, Inv, TypeOK
        <5>2. ASSUME NEW j \in Slots \ {i} PROVE Entry(j)' = Entry(j)
          <6>1. UNCHANGED << callbacks[j], maxNumRuns[j], numRuns[j], toBeCalled[j] >>
            BY <4>1, <5>2 DEF Free, Inv, TypeOK
          <6>2. Pending(j)' = Pending(j)
            BY <3>1, <6>1 DEF Pending
          <6>3. QED
            BY <6>1, <6>2, EntryKept
        <5>3. QED
          BY <5>1, <5>2
      <4>2. CASE i \notin Used
                 /\ UNCHANGED << now, table, prevMillis, toBeCalled, age >>
        <5>1. \A j \in Slots : Entry(j)' = Entry(j)
          BY <3>1, <4>2 DEF table, Entry, Pending
        <5>2. Entry(i) = Promise!NoTimer
          BY <4>2 DEF Used, Entry, Promise!NoTimer
        <5>3. QED
          BY <5>1, <5>2
      <4>3. QED
        BY <3>1, <4>1, <4>2, DeleteStep
    <3>3. T' = [T EXCEPT ![i] = Promise!NoTimer]
      BY <1>B, <3>2
    <3>4. QED
      BY <3>1, <3>3 DEF Promise!Next, Promise!Cancel
  <2>4. ASSUME NEW i \in Slots, RestartTimer(i) PROVE Promise!Next
    <3>1. ASSUME NEW j \in Slots PROVE Entry(j)' = Entry(j)
      BY <2>4 DEF RestartTimer, table, Entry, Pending
    <3>2. QED
      BY <2>4, <1>C, <3>1 DEF RestartTimer
  <2>5. ASSUME NEW i \in Slots, NEW e, SetEnabled(i, e) PROVE Promise!Next
    <3>1. ASSUME NEW j \in Slots PROVE Entry(j)' = Entry(j)
      BY <2>5 DEF SetEnabled, Entry, Pending
    <3>2. QED
      BY <2>5, <1>C, <3>1 DEF SetEnabled
  <2>6. QED
    BY <1>5, <2>1, <2>2, <2>3, <2>4, <2>5 DEF Client, Enable, Disable, Toggle
<1>6. CASE Tick
  <2>1. ASSUME NEW i \in Slots PROVE Entry(i)' = Entry(i)
    BY <1>6 DEF Tick, table, Entry, Pending
  <2>2. QED
    BY <1>6, <1>C, <2>1 DEF Tick, NoEvent
<1>7. QED
  BY <1>1, <1>2, <1>3, <1>4, <1>5, <1>6 DEF Next

(* SimpleTimer implements TimerPromise, as long as no callback deletes its  *)
(* own timer in its last run: every timer is called as often as it was set  *)
(* for, and leaves the table by deletion or after its last call only.       *)
THEOREM PromiseKeptCorrect == ASSUME DeletesItself = FALSE PROVE Spec => PromiseKept
<1>1. Inv /\ NoNullCall /\ RunBudget /\ LastCall /\ [Next]_vars
        => [Promise!Next]_<< [i \in Slots |-> Entry(i)], event >>
  BY PromiseNext
<1>2. Spec => []LastCall
  BY LastCallCorrect
<1>3. QED
  BY <1>1, <1>2, PromiseInit, InvCorrect, NoNullCallCorrect, RunBudgetCorrect,
     PTL DEF Spec, PromiseKept, Promise!Spec

(* A setInterval timer leaves the table by deleteTimer on it only, as long  *)
(* as no callback deletes its own timer in its last run: without that, the  *)
(* slot freed twice by run() may by then belong to an interval timer.       *)
THEOREM IntervalTimersSurviveCorrect ==
  ASSUME DeletesItself = FALSE PROVE Spec => IntervalTimersSurvive
<1> DEFINE Stays(i) ==
      /\ callbacks[i] # NoCallback /\ maxNumRuns[i] = RUN_FOREVER
      /\ callbacks'[i] = NoCallback
      => event' = << "deleteTimer", i >>
<1>1. ASSUME Inv, LastCall, Next, NEW i \in Slots PROVE Stays(i)
  <2> SUFFICES ASSUME callbacks[i] # NoCallback, maxNumRuns[i] = RUN_FOREVER,
                      callbacks'[i] = NoCallback
               PROVE  event' = << "deleteTimer", i >>
    OBVIOUS
  <2>1. ASSUME NEW k \in Slots, Delete(k) PROVE k = i
    BY <1>1, <2>1, DeleteStep DEF Free, table, Inv, TypeOK
  <2>2. CASE RunStart \/ Skip \/ Invoke \/ Tick
    BY <2>2 DEF RunStart, Skip, Invoke, Tick, table
  <2>3. CASE Return
    <3>1. phase = "RUNANDDEL" /\ Delete(at) /\ at \in Slots
      BY <1>1, <2>3 DEF Return, table, Inv, TypeOK
    <3>2. at = i
      BY <3>1, <2>1
    <3> QED BY <1>1, <3>1, <3>2 DEF LastCall
  <2>4. CASE Client
    <3>1. ASSUME NEW k \in Slots, NEW d \in Delays, NEW f \in Callbacks,
                 NEW n \in RunCounts, SetTimer(k, d, f, n)
          PROVE  FALSE
      BY <1>1, <3>1, TimerAssumption DEF SetTimer, Inv, TypeOK
    <3>2. ASSUME NEW k \in Slots, DeleteTimer(k)
          PROVE  event' = << "deleteTimer", i >>
      BY <2>1, <3>2 DEF DeleteTimer
    <3>3. ASSUME NEW k \in Slots, RestartTimer(k)
          PROVE  FALSE
      BY <3>3 DEF RestartTimer, table
    <3>4. ASSUME NEW k \in Slots, Enable(k) \/ Disable(k) \/ Toggle(k)
          PROVE  FALSE
      BY <1>1, <3>4 DEF Enable, Disable, Toggle, SetEnabled
    <3> QED
      BY <2>4, <3>1, <3>2, <3>3, <3>4 DEF Client, SetTimerRefused, table
  <2> QED BY <1>1, <2>2, <2>3, <2>4 DEF Next
<1>2. Inv /\ LastCall /\ [Next]_vars => [\A i \in Slots : Stays(i)]_vars
  BY <1>1
<1>3. Spec => []LastCall
  BY LastCallCorrect
<1> QED BY <1>2, <1>3, InvCorrect, PTL DEF Spec, IntervalTimersSurvive
=============================================================================
