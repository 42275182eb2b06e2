--------------------------- MODULE Alarms_proofs ----------------------------
(***************************************************************************)
(* The two sketches that raise an alarm: the fall detector, for windows    *)
(* and delays of any length, and the car monitor, for any number of holes. *)
(*                                                                         *)
(* The fall detector's two properties speak of the readings of a whole     *)
(* fall, its state is three triggers and their counts.  The proof of "no   *)
(* false alarm" keeps, for every trigger that is on, the readings that     *)
(* made it so, as places in the log that move towards its beginning; that  *)
(* of "no missed alarm" keeps, for every fall that has come so far, the    *)
(* trigger that is on for it.                                              *)
(***************************************************************************)
EXTENDS FallDetection, RoadHoles, SequenceTheorems, TLAPS

----------------------------------------------------------------------------
(***************************************************************************)
(* The fall detector: every pass as what it does to the triggers, and to   *)
(* the log as one entry more at its end.                                   *)
(***************************************************************************)

(* The assumptions, as arithmetic. *)
LEMMA FallConstants ==
  /\ Window \in Nat /\ Window >= 1
  /\ Hold \in Nat /\ Hold >= 1
  /\ Remembered \in Nat /\ Remembered >= 2 * Window + Hold - 2
  /\ Remembered >= 1
BY WindowAssumption, RememberedAssumption

(* What has to have been so for a trigger to be on after a pass.            *)
LEMMA PassBefore ==
  ASSUME TypeOK, NEW amp \in Nat, NEW turn \in Nat, Pass(amp, turn)
  PROVE  /\ trigger1' => /\ trigger1 \/ (Falls(amp) /\ ~trigger2 /\ trigger1count = 0)
                         /\ ~Strikes(amp)
                         /\ trigger1count' = trigger1count + 1
                         /\ trigger1count' < Window
         /\ trigger2' => /\ trigger2 \/ (trigger1 /\ Strikes(amp) /\ trigger2count = 0)
                         /\ trigger2count' = trigger2count + 1
                         /\ trigger2count' < Window
         /\ trigger3' => /\ \/ trigger3
                            \/ /\ Turns(turn) /\ trigger3count = 0
                               /\ trigger2 \/ (trigger1 /\ Strikes(amp))
                         /\ trigger3count' = trigger3count + 1
                         /\ trigger3count' < Hold
         /\ alarm' => trigger3 /\ trigger3count + 1 = Hold /\ Still(turn)
<1> USE DEF TypeOK, triggers, Falls, Strikes, Turns, Still
<1>0. /\ trigger1count \in Nat /\ trigger2count \in Nat /\ trigger3count \in Nat
      /\ ~trigger1 => trigger1count = 0
      /\ ~trigger2 => trigger2count = 0
      /\ ~trigger3 => trigger3count = 0
      /\ trigger3 => trigger3count + 1 <= Hold
  BY FallConstants
<1>1. ASSUME trigger1'
      PROVE  /\ trigger1 \/ (Falls(amp) /\ ~trigger2 /\ trigger1count = 0)
             /\ ~Strikes(amp)
             /\ trigger1count' = trigger1count + 1
             /\ trigger1count' < Window
  BY <1>0, <1>1, FallConstants DEF Pass, Trigger1, Expired, Impact
<1>2. ASSUME trigger2'
      PROVE  /\ trigger2 \/ (trigger1 /\ Strikes(amp) /\ trigger2count = 0)
             /\ trigger2count' = trigger2count + 1
             /\ trigger2count' < Window
  BY <1>0, <1>2, FallConstants DEF Pass, Trigger1, Trigger2, Expired, Impact
<1>3. Trigger3(amp, turn).on =>
        /\ \/ trigger3
           \/ /\ Turns(turn) /\ trigger3count = 0
              /\ trigger2 \/ (trigger1 /\ Strikes(amp))
        /\ Trigger3(amp, turn).count = trigger3count + 1
  BY <1>0 DEF Trigger1, Trigger2, Trigger3, Impact, Turned
<1>4. ASSUME trigger3'
      PROVE  /\ \/ trigger3
                \/ /\ Turns(turn) /\ trigger3count = 0
                   /\ trigger2 \/ (trigger1 /\ Strikes(amp))
             /\ trigger3count' = trigger3count + 1
             /\ trigger3count' < Hold
  BY <1>0, <1>3, <1>4, FallConstants DEF Pass, Decided
<1>5. ASSUME alarm'
      PROVE  trigger3 /\ trigger3count + 1 = Hold /\ Still(turn)
  <2>1. Trigger3(amp, turn).on /\ Trigger3(amp, turn).count >= Hold /\ Still(turn)
    BY <1>5 DEF Pass, Decided
  <2> QED BY <2>1, <1>0, <1>3, FallConstants
<1> QED BY <1>1, <1>2, <1>4, <1>5

(* What makes a trigger be on, or the alarm be sent, after a pass.          *)
LEMMA PassAfter ==
  ASSUME TypeOK, NEW amp \in Nat, NEW turn \in Nat, Pass(amp, turn)
  PROVE  /\ /\ trigger1 \/ (Falls(amp) /\ ~trigger2)
            /\ ~Strikes(amp) /\ trigger1count + 1 < Window
            => trigger1' /\ trigger1count' = trigger1count + 1
         /\ /\ trigger2 \/ (trigger1 /\ Strikes(amp))
            /\ ~Turns(turn) /\ trigger2count + 1 < Window
            => trigger2' /\ trigger2count' = trigger2count + 1
         /\ LET on == trigger3 \/ (Turns(turn) /\ (trigger2 \/ (trigger1 /\ Strikes(amp))))
            IN  /\ on /\ trigger3count + 1 < Hold =>
                     trigger3' /\ trigger3count' = trigger3count + 1
                /\ on /\ trigger3count + 1 = Hold /\ Still(turn) => alarm'
                /\ ~trigger2 /\ ~Strikes(amp) /\ ~trigger3 => ~trigger3'
                /\ ~Turns(turn) /\ ~trigger3 => ~trigger3'
<1> USE DEF TypeOK, triggers, Falls, Strikes, Turns, Still
<1>0. /\ trigger1count \in Nat /\ trigger2count \in Nat /\ trigger3count \in Nat
  BY FallConstants
<1>1. ASSUME trigger1 \/ (Falls(amp) /\ ~trigger2), ~Strikes(amp), trigger1count + 1 < Window
      PROVE  trigger1' /\ trigger1count' = trigger1count + 1
  <2>1. Trigger1(amp).on /\ Trigger1(amp).count = trigger1count + 1
    BY <1>1 DEF Trigger1
  <2>2. ~Impact(amp) /\ ~Expired(Trigger1(amp).count)
    BY <1>0, <1>1, <2>1, FallConstants DEF Impact, Expired
  <2> QED BY <2>1, <2>2 DEF Pass
<1>2. ASSUME trigger2 \/ (trigger1 /\ Strikes(amp)), ~Turns(turn), trigger2count + 1 < Window
      PROVE  trigger2' /\ trigger2count' = trigger2count + 1
  BY <1>0, <1>2, FallConstants DEF Pass, Trigger1, Trigger2, Expired, Impact, Turned
<1>3. ASSUME trigger3 \/ (Turns(turn) /\ (trigger2 \/ (trigger1 /\ Strikes(amp))))
      PROVE  /\ trigger3count + 1 < Hold => trigger3' /\ trigger3count' = trigger3count + 1
             /\ trigger3count + 1 = Hold /\ Still(turn) => alarm'
  <2>1. Trigger3(amp, turn).on /\ Trigger3(amp, turn).count = trigger3count + 1
    BY <1>3 DEF Trigger1, Trigger2, Trigger3, Impact, Turned
  <2>2. ASSUME trigger3count + 1 < Hold
        PROVE  trigger3' /\ trigger3count' = trigger3count + 1
    <3>1. ~Decided(amp, turn)
      BY <1>0, <2>1, <2>2, FallConstants DEF Decided
    <3> QED BY <2>1, <3>1 DEF Pass
  <2>3. ASSUME trigger3count + 1 = Hold, Still(turn)
        PROVE  alarm'
    <3>1. Decided(amp, turn)
      BY <1>0, <2>1, <2>3, FallConstants DEF Decided
    <3> QED BY <2>3, <3>1 DEF Pass
  <2> QED BY <2>2, <2>3
<1>4. ASSUME ~trigger3, ~Turns(turn) \/ (~trigger2 /\ ~Strikes(amp))
      PROVE  ~trigger3'
  BY <1>4 DEF Pass, Trigger1, Trigger2, Trigger3, Impact, Turned
<1> QED BY <1>1, <1>2, <1>3, <1>4

(* A reading more at the end of the log, and one less at its beginning if   *)
(* it was full: what is at i now was at i or i + 1.                         *)
LEMMA LogStep ==
  ASSUME TypeOK, NEW amp \in Nat, NEW turn \in Nat, Pass(amp, turn)
  PROVE  \E n \in Nat, m \in Nat, d \in {0, 1} :
           /\ n = Len(log) /\ m = Len(log')
           /\ 1 <= m /\ m <= Remembered /\ m + d = n + 1
           /\ d = 1 => m = Remembered
           /\ log' \in Seq(Reading)
           /\ log'[m].amp = amp /\ log'[m].turn = turn
           /\ log'[m].idle => ~trigger1 /\ ~trigger2 /\ ~trigger3
           /\ \A i \in 1 .. m - 1 : log'[i] = log[i + d]
<1> DEFINE entry == [amp |-> amp, turn |-> turn, idle |-> TRUE \notin {trigger1, trigger2, trigger3}]
           longer == Append(log, entry)
<1>1. entry \in Reading
  BY DEF Reading
<1>2. /\ entry.amp = amp /\ entry.turn = turn
      /\ entry.idle => ~trigger1 /\ ~trigger2 /\ ~trigger3
  BY DEF TypeOK, triggers
<1>3. log \in Seq(Reading) /\ Len(log) \in Nat /\ Len(log) <= Remembered
  BY DEF TypeOK
<1>4. log' = IF Len(longer) <= Remembered THEN longer ELSE Tail(longer)
  BY DEF Pass
<1> HIDE DEF entry
<1>5. /\ longer \in Seq(Reading) /\ Len(longer) = Len(log) + 1
      /\ \A i \in 1 .. Len(log) : longer[i] = log[i]
      /\ longer[Len(log) + 1] = entry
  BY <1>1, <1>3, AppendProperties
<1> HIDE DEF longer
<1>6. PICK n \in Nat : n = Len(log)
  BY <1>3
<1>7. CASE n + 1 <= Remembered
  <2>1. log' = longer
    BY <1>4, <1>5, <1>6, <1>7
  <2>2. /\ n + 1 = Len(log') /\ log' \in Seq(Reading)
        /\ log'[n + 1] = entry
        /\ \A i \in 1 .. n : log'[i] = log[i + 0]
    BY <2>1, <1>5, <1>6
  <2>3. n + 1 \in Nat /\ 1 <= n + 1 /\ (n + 1) + 0 = n + 1 /\ (n + 1) - 1 = n
    OBVIOUS
  <2> WITNESS n \in Nat, n + 1 \in Nat, 0 \in {0, 1}
  <2> QED BY <1>2, <1>6, <1>7, <2>2, <2>3
<1>8. CASE n + 1 > Remembered
  <2>1. log' = Tail(longer) /\ longer # << >>
    BY <1>4, <1>5, <1>6, <1>8, FallConstants
  <2>2. /\ Tail(longer) \in Seq(Reading)
        /\ Len(Tail(longer)) = Len(longer) - 1
        /\ \A i \in 1 .. Len(Tail(longer)) : Tail(longer)[i] = longer[i + 1]
    BY <2>1, <1>5, HeadTailProperties
  <2>3. n = Remembered /\ n >= 1
    BY <1>3, <1>6, <1>8, FallConstants
  <2>4. n = Len(log') /\ log' \in Seq(Reading)
    BY <2>1, <2>2, <1>5, <1>6
  <2>5. \A i \in 1 .. n : log'[i] = longer[i + 1]
    BY <2>1, <2>2, <2>4
  <2>6. log'[n] = entry
    BY <2>3, <2>5, <1>5, <1>6
  <2>7. \A i \in 1 .. n - 1 : log'[i] = log[i + 1]
    BY <2>3, <2>5, <1>5, <1>6
  <2> WITNESS n \in Nat, n \in Nat, 1 \in {0, 1}
  <2> QED BY <1>2, <1>6, <2>3, <2>4, <2>6, <2>7
<1>9. n + 1 <= Remembered \/ n + 1 > Remembered
  BY FallConstants
<1> QED BY <1>7, <1>8, <1>9

(* TypeOK is inductive: triggers 1 and 2 stay apart because an impact ends  *)
(* trigger 1, and trigger 1 does not begin while trigger 2 is on.           *)
LEMMA TypeStep ==
  ASSUME TypeOK, NEW amp \in Nat, NEW turn \in Nat, Pass(amp, turn)
  PROVE  TypeOK'
<1>0. /\ trigger1count \in Nat /\ trigger2count \in Nat /\ trigger3count \in Nat
      /\ trigger1 \in BOOLEAN /\ trigger2 \in BOOLEAN /\ trigger3 \in BOOLEAN
      /\ ~(trigger1 /\ trigger2)
  BY FallConstants DEF TypeOK, triggers
<1>1. /\ trigger1' \in BOOLEAN /\ trigger2' \in BOOLEAN /\ trigger3' \in BOOLEAN
      /\ alarm' \in BOOLEAN
  BY Zenon DEF Pass
<1>2. triggers' \in BOOLEAN \X BOOLEAN \X BOOLEAN
  BY <1>1 DEF triggers
<1>3. trigger1count' \in (IF trigger1' THEN 1 .. Window - 1 ELSE {0})
  <2>1. CASE trigger1'
    BY <2>1, <1>0, PassBefore, FallConstants
  <2>2. CASE ~trigger1'
    BY <2>2 DEF Pass
  <2> QED BY <2>1, <2>2
<1>4. trigger2count' \in (IF trigger2' THEN 1 .. Window - 1 ELSE {0})
  <2>1. CASE trigger2'
    BY <2>1, <1>0, PassBefore, FallConstants
  <2>2. CASE ~trigger2'
    BY <2>2 DEF Pass
  <2> QED BY <2>1, <2>2
<1>5. trigger3count' \in (IF trigger3' THEN 1 .. Hold - 1 ELSE {0})
  <2>1. CASE trigger3'
    BY <2>1, <1>0, PassBefore, FallConstants
  <2>2. CASE ~trigger3'
    BY <2>2 DEF Pass
  <2> QED BY <2>1, <2>2
<1>6. ~(trigger1' /\ trigger2')
  BY <1>0, PassBefore
<1>7. log' \in Seq(Reading) /\ Len(log') <= Remembered
  BY LogStep
<1> QED BY <1>1, <1>2, <1>3, <1>4, <1>5, <1>6, <1>7 DEF TypeOK

(* The sketch starts with its triggers off and nothing read. *)
LEMMA FallInit == Init => TypeOK
<1> SUFFICES ASSUME Init PROVE TypeOK
  OBVIOUS
<1>1. log \in Seq(Reading) /\ Len(log) <= Remembered
  BY FallConstants DEF Init
<1> QED BY <1>1 DEF Init, TypeOK, triggers

(* Steps are passes with a reading. *)
LEMMA FallNext ==
  ASSUME Next
  PROVE  \E amp \in Nat, turn \in Nat : Pass(amp, turn)
BY ReadingAssumption DEF Next

----------------------------------------------------------------------------
(* No false alarm: what a trigger that is on still knows of the past.       *)

Low(t)    == Falls(log[t].amp)
High(t)   == Strikes(log[t].amp)
TurnAt(t) == Turns(log[t].turn)

(* How many passes ago t was, the last one being 1. *)
Ago(t) == Len(log) + 1 - t

Hit(t1, t2) == Low(t1) /\ High(t2) /\ t2 < t1 + Window

Remembers1 ==
  trigger1 => \E t1 \in 1 .. Len(log) : Low(t1) /\ Ago(t1) = trigger1count

Remembers2 ==
  trigger2 =>
    \E t2 \in 1 .. Len(log) : \E t1 \in 1 .. t2 - 1 :
      Hit(t1, t2) /\ Ago(t2) = trigger2count

Remembers3 ==
  trigger3 =>
    \E t3 \in 1 .. Len(log) : \E t2 \in 1 .. t3 : \E t1 \in 1 .. t2 - 1 :
      Hit(t1, t2) /\ TurnAt(t3) /\ t3 < t2 + Window /\ Ago(t3) = trigger3count

AlarmInv == TypeOK /\ Remembers1 /\ Remembers2 /\ Remembers3 /\ AlarmIsFall

(* Every pass keeps what the triggers stand for. *)
LEMMA AlarmStep ==
  ASSUME AlarmInv, NEW amp \in Nat, NEW turn \in Nat, Pass(amp, turn)
  PROVE  AlarmInv'
<1> USE DEF Ago
<1>1. TypeOK
  BY DEF AlarmInv
<1>2. PICK n \in Nat, m \in Nat, d \in {0, 1} :
        /\ n = Len(log) /\ m = Len(log')
        /\ 1 <= m /\ m <= Remembered /\ m + d = n + 1
        /\ d = 1 => m = Remembered
        /\ log'[m].amp = amp /\ log'[m].turn = turn
        /\ \A i \in 1 .. m - 1 : log'[i] = log[i + d]
  BY <1>1, LogStep
<1>3. /\ trigger1count \in Nat /\ trigger2count \in Nat /\ trigger3count \in Nat
  BY <1>1, FallConstants DEF TypeOK
(* A place not long ago is still there, one step nearer to the beginning.   *)
<1>4. ASSUME NEW t \in 1 .. n, n + 1 - t <= 2 * Window + Hold - 3
      PROVE  /\ t - d \in 1 .. m - 1
             /\ log'[t - d] = log[t]
             /\ m + 1 - (t - d) = (n + 1 - t) + 1
  <2>1. t - d \in 1 .. m - 1
    BY <1>2, <1>4, FallConstants
  <2>2. /\ (t - d) + d = t
        /\ m + 1 - (t - d) = (n + 1 - t) + 1
    <3>1. t \in Int /\ d \in Int /\ m \in Int /\ n \in Int /\ m + d = n + 1
      BY <1>2
    <3> QED BY <3>1
  <2>3. log'[t - d] = log[(t - d) + d]
    BY <1>2, <2>1
  <2> QED BY <2>1, <2>2, <2>3
(* A free fall with its impact moves as a whole. *)
<1>5. ASSUME NEW t2 \in 1 .. n, NEW t1 \in 1 .. t2 - 1, Hit(t1, t2),
             n + 1 - t2 <= Window + Hold - 2
      PROVE  /\ t2 - d \in 1 .. m - 1 /\ t1 - d \in 1 .. (t2 - d) - 1
             /\ Falls(log'[t1 - d].amp) /\ Strikes(log'[t2 - d].amp)
             /\ (t2 - d) < (t1 - d) + Window
  <2>1. t1 \in 1 .. n /\ n + 1 - t1 <= 2 * Window + Hold - 3
    BY <1>5, FallConstants DEF Hit
  <2>2. /\ t1 - d \in 1 .. m - 1 /\ log'[t1 - d] = log[t1]
    BY <2>1, <1>4
  <2>3. /\ t2 - d \in 1 .. m - 1 /\ log'[t2 - d] = log[t2]
    BY <1>5, <1>4, FallConstants
  <2> QED BY <2>2, <2>3, <1>5, FallConstants DEF Hit, Low, High
<1>6. Remembers1'
  <2> SUFFICES ASSUME trigger1'
               PROVE  \E t1 \in 1 .. m : Falls(log'[t1].amp) /\ m + 1 - t1 = trigger1count'
    BY <1>2 DEF Remembers1, Low
  <2>1. CASE trigger1
    <3>1. PICK t1 \in 1 .. n : Low(t1) /\ n + 1 - t1 = trigger1count
      BY <2>1, <1>2 DEF AlarmInv, Remembers1
    <3>2. trigger1count' = trigger1count + 1 /\ trigger1count' < Window
      BY <1>1, PassBefore
    <3>3. /\ t1 - d \in 1 .. m - 1 /\ log'[t1 - d] = log[t1]
          /\ m + 1 - (t1 - d) = (n + 1 - t1) + 1
      BY <1>3, <1>4, <3>1, <3>2, FallConstants
    <3> QED BY <3>1, <3>2, <3>3 DEF Low
  <2>2. CASE Falls(amp) /\ trigger1count = 0
    BY <2>2, <1>1, <1>2, PassBefore
  <2> QED BY <2>1, <2>2, <1>1, PassBefore
(* The impact that ends trigger 1 is its first. *)
<1>7. ASSUME trigger1, Strikes(amp)
      PROVE  \E t1 \in 1 .. m - 1 : Falls(log'[t1].amp) /\ m < t1 + Window
  <2>1. PICK t1 \in 1 .. n : Low(t1) /\ n + 1 - t1 = trigger1count
    BY <1>7, <1>2 DEF AlarmInv, Remembers1
  <2>2. trigger1count < Window
    BY <1>1, <1>7, FallConstants DEF TypeOK
  <2>3. /\ t1 - d \in 1 .. m - 1 /\ log'[t1 - d] = log[t1]
        /\ m + 1 - (t1 - d) = (n + 1 - t1) + 1
    BY <1>3, <1>4, <2>1, <2>2, FallConstants
  <2> QED BY <2>1, <2>2, <2>3, <1>3, FallConstants DEF Low
<1>8. Remembers2'
  <2> SUFFICES ASSUME trigger2'
               PROVE  \E t2 \in 1 .. m : \E t1 \in 1 .. t2 - 1 :
                        /\ Falls(log'[t1].amp) /\ Strikes(log'[t2].amp)
                        /\ t2 < t1 + Window /\ m + 1 - t2 = trigger2count'
    BY <1>2 DEF Remembers2, Hit, Low, High
  <2>0. trigger2count' = trigger2count + 1 /\ trigger2count' < Window
    BY <1>1, PassBefore
  <2>1. CASE trigger2
    <3>1. PICK t2 \in 1 .. n : \E t1 \in 1 .. t2 - 1 : Hit(t1, t2) /\ n + 1 - t2 = trigger2count
      BY <2>1, <1>2 DEF AlarmInv, Remembers2
    <3>2. PICK t1 \in 1 .. t2 - 1 : Hit(t1, t2) /\ n + 1 - t2 = trigger2count
      BY <3>1
    <3>3. t2 \in 1 .. n /\ n + 1 - t2 <= Window + Hold - 2
      BY <2>0, <3>1, <3>2, FallConstants
    <3>4. /\ t2 - d \in 1 .. m - 1 /\ t1 - d \in 1 .. (t2 - d) - 1
          /\ Falls(log'[t1 - d].amp) /\ Strikes(log'[t2 - d].amp)
          /\ (t2 - d) < (t1 - d) + Window
      BY <1>5, <3>2, <3>3
    <3>5. m + 1 - (t2 - d) = trigger2count'
      BY <1>2, <2>0, <3>2
    <3> QED BY <3>4, <3>5
  <2>2. CASE trigger1 /\ Strikes(amp) /\ trigger2count = 0
    <3>1. PICK t1 \in 1 .. m - 1 : Falls(log'[t1].amp) /\ m < t1 + Window
      BY <2>2, <1>7
    <3>2. m \in 1 .. m /\ Strikes(log'[m].amp) /\ m + 1 - m = trigger2count'
      BY <2>0, <2>2, <1>2
    <3> QED BY <3>1, <3>2
  <2> QED BY <2>1, <2>2, <1>1, PassBefore
(* A turn later moves as well, until it is decided. *)
<1>9. ASSUME trigger3
      PROVE  \E t3 \in 1 .. m - 1 : \E t2 \in 1 .. t3 : \E t1 \in 1 .. t2 - 1 :
               /\ Falls(log'[t1].amp) /\ Strikes(log'[t2].amp)
               /\ t2 < t1 + Window /\ Turns(log'[t3].turn)
               /\ t3 < t2 + Window /\ m + 1 - t3 = trigger3count + 1
  <2>1. PICK t3 \in 1 .. n : \E t2 \in 1 .. t3 : \E t1 \in 1 .. t2 - 1 :
          Hit(t1, t2) /\ TurnAt(t3) /\ t3 < t2 + Window /\ n + 1 - t3 = trigger3count
    BY <1>2, <1>9 DEF AlarmInv, Remembers3
  <2>2. PICK t2 \in 1 .. t3 : \E t1 \in 1 .. t2 - 1 :
          Hit(t1, t2) /\ TurnAt(t3) /\ t3 < t2 + Window /\ n + 1 - t3 = trigger3count
    BY <2>1
  <2>3. PICK t1 \in 1 .. t2 - 1 :
          Hit(t1, t2) /\ TurnAt(t3) /\ t3 < t2 + Window /\ n + 1 - t3 = trigger3count
    BY <2>2
  <2>4. trigger3count <= Hold - 1
    BY <1>1, <1>9, FallConstants DEF TypeOK
  <2>5. t2 \in 1 .. n /\ n + 1 - t2 <= Window + Hold - 2
    BY <2>3, <2>4, <1>3, FallConstants
  <2>6. /\ t2 - d \in 1 .. m - 1 /\ t1 - d \in 1 .. (t2 - d) - 1
        /\ Falls(log'[t1 - d].amp) /\ Strikes(log'[t2 - d].amp)
        /\ (t2 - d) < (t1 - d) + Window
    BY <2>3, <2>5, <1>5
  <2>7. /\ t3 - d \in 1 .. m - 1 /\ log'[t3 - d] = log[t3]
        /\ m + 1 - (t3 - d) = (n + 1 - t3) + 1
    BY <2>3, <2>4, <1>3, <1>4, FallConstants
  <2>8. t2 - d \in 1 .. t3 - d /\ t3 - d < (t2 - d) + Window
    BY <2>3, <2>6, FallConstants
  <2> QED BY <2>3, <2>6, <2>7, <2>8 DEF TurnAt
(* Where a new turn finds its impact. *)
<1>10. ASSUME Turns(turn), trigger2 \/ (trigger1 /\ Strikes(amp))
       PROVE  \E t2 \in 1 .. m : \E t1 \in 1 .. t2 - 1 :
                /\ Falls(log'[t1].amp) /\ Strikes(log'[t2].amp)
                /\ t2 < t1 + Window /\ m < t2 + Window
  <2>1. CASE trigger2
    <3>1. PICK t2 \in 1 .. n : \E t1 \in 1 .. t2 - 1 : Hit(t1, t2) /\ n + 1 - t2 = trigger2count
      BY <2>1, <1>2 DEF AlarmInv, Remembers2
    <3>2. PICK t1 \in 1 .. t2 - 1 : Hit(t1, t2) /\ n + 1 - t2 = trigger2count
      BY <3>1
    <3>3. trigger2count <= Window - 1
      BY <1>1, <2>1, FallConstants DEF TypeOK
    <3>4. t2 \in 1 .. n /\ n + 1 - t2 <= Window + Hold - 2
      BY <3>1, <3>2, <3>3, FallConstants
    <3>5. /\ t2 - d \in 1 .. m - 1 /\ t1 - d \in 1 .. (t2 - d) - 1
          /\ Falls(log'[t1 - d].amp) /\ Strikes(log'[t2 - d].amp)
          /\ (t2 - d) < (t1 - d) + Window
      BY <1>5, <3>2, <3>4
    <3>6. m < (t2 - d) + Window
      BY <1>2, <1>3, <3>1, <3>2, <3>3, FallConstants
    <3> QED BY <3>5, <3>6
  <2>2. CASE trigger1 /\ Strikes(amp)
    <3>1. PICK t1 \in 1 .. m - 1 : Falls(log'[t1].amp) /\ m < t1 + Window
      BY <2>2, <1>7
    <3>2. m \in 1 .. m /\ m < m + Window /\ Strikes(log'[m].amp)
      BY <1>2, <2>2, FallConstants
    <3> QED BY <3>1, <3>2
  <2> QED BY <2>1, <2>2, <1>10
<1>11. Remembers3'
  <2> SUFFICES ASSUME trigger3'
               PROVE  \E t3 \in 1 .. m : \E t2 \in 1 .. t3 : \E t1 \in 1 .. t2 - 1 :
                        /\ Falls(log'[t1].amp) /\ Strikes(log'[t2].amp)
                        /\ t2 < t1 + Window /\ Turns(log'[t3].turn)
                        /\ t3 < t2 + Window /\ m + 1 - t3 = trigger3count'
    BY <1>2 DEF Remembers3, Hit, Low, High, TurnAt
  <2>0. trigger3count' = trigger3count + 1
    BY <1>1, PassBefore
  <2>1. CASE trigger3
    BY <2>0, <2>1, <1>2, <1>9
  <2>2. CASE /\ Turns(turn) /\ trigger3count = 0
             /\ trigger2 \/ (trigger1 /\ Strikes(amp))
    <3>1. PICK t2 \in 1 .. m : \E t1 \in 1 .. t2 - 1 :
            /\ Falls(log'[t1].amp) /\ Strikes(log'[t2].amp)
            /\ t2 < t1 + Window /\ m < t2 + Window
      BY <2>2, <1>10
    <3>2. m \in 1 .. m /\ Turns(log'[m].turn) /\ m + 1 - m = trigger3count'
      BY <2>0, <2>2, <1>2
    <3> QED BY <3>1, <3>2
  <2> QED BY <2>1, <2>2, <1>1, PassBefore
<1>12. AlarmIsFall'
  <2> SUFFICES ASSUME alarm'
               PROVE  /\ Still(log'[m].turn)
                      /\ Turns(log'[m - Hold + 1].turn)
                      /\ \E t2 \in 1 .. m - Hold + 1 : \E t1 \in 1 .. t2 - 1 :
                           /\ Falls(log'[t1].amp) /\ Strikes(log'[t2].amp)
                           /\ t2 < t1 + Window /\ m - Hold + 1 < t2 + Window
    BY <1>2 DEF AlarmIsFall, IsFall, TurnTime
  <2>1. trigger3 /\ trigger3count + 1 = Hold /\ Still(turn)
    BY <1>1, PassBefore
  <2>2. PICK t3 \in 1 .. m - 1 : \E t2 \in 1 .. t3 : \E t1 \in 1 .. t2 - 1 :
          /\ Falls(log'[t1].amp) /\ Strikes(log'[t2].amp)
          /\ t2 < t1 + Window /\ Turns(log'[t3].turn)
          /\ t3 < t2 + Window /\ m + 1 - t3 = trigger3count + 1
    BY <2>1, <1>9
  <2>3. t3 = m - Hold + 1
    BY <2>1, <2>2, FallConstants
  <2> QED BY <2>1, <2>2, <2>3, <1>2
<1> QED BY <1>1, <1>6, <1>8, <1>11, <1>12, TypeStep DEF AlarmInv

(* No false alarm, for windows and delays of any length.                    *)
THEOREM AlarmIsFallCorrect == Spec => []AlarmIsFall
<1>1. Init => AlarmInv
  BY FallInit DEF Init, AlarmInv, Remembers1, Remembers2, Remembers3, AlarmIsFall
<1>2. AlarmInv /\ [Next]_vars => AlarmInv'
  <2> SUFFICES ASSUME AlarmInv, [Next]_vars PROVE AlarmInv'
    OBVIOUS
  <2>1. CASE Next
    BY <2>1, FallNext, AlarmStep
  <2>2. CASE UNCHANGED vars
    BY <2>2 DEF vars, triggers, counts, AlarmInv, TypeOK, Remembers1, Remembers2, Remembers3,
      AlarmIsFall, IsFall, TurnTime, Hit, Low, High, TurnAt, Ago
  <2> QED BY <2>1, <2>2
<1>3. AlarmInv => AlarmIsFall
  BY DEF AlarmInv
<1> QED BY <1>1, <1>2, <1>3, PTL DEF Spec

(* The counts run with the triggers and the triggers exclude each other as  *)
(* TypeOK says.                                                             *)
THEOREM FallTypeCorrect == Spec => []TypeOK
<1>1. TypeOK /\ [Next]_vars => TypeOK'
  <2> SUFFICES ASSUME TypeOK, [Next]_vars PROVE TypeOK'
    OBVIOUS
  <2>1. CASE Next
    BY <2>1, FallNext, TypeStep
  <2>2. CASE UNCHANGED vars
    BY <2>2 DEF vars, triggers, counts, TypeOK
  <2> QED BY <2>1, <2>2
<1> QED BY <1>1, FallInit, PTL DEF Spec

----------------------------------------------------------------------------
(* No missed alarm: what has happened since a fall makes a trigger be on,   *)
(* with the count of the passes since.                                      *)

(* A free fall at t1, all triggers off before it, and no impact until t.    *)
Begins(t1, t) == log[t1].idle /\ Low(t1) /\ \A i \in t1 .. t : ~High(i)

(* Its impact at t2, and no turn until t. *)
GoesOn(t1, t2, t) ==
  Begins(t1, t2 - 1) /\ High(t2) /\ t2 < t1 + Window /\ \A i \in t2 .. t : ~TurnAt(i)

Falling ==
  \A t1 \in 1 .. Len(log) :
    Begins(t1, Len(log)) /\ Ago(t1) < Window =>
      trigger1 /\ trigger1count = Ago(t1) /\ ~trigger3

Struck ==
  \A t2 \in 1 .. Len(log) : \A t1 \in 1 .. t2 - 1 :
    GoesOn(t1, t2, Len(log)) /\ Ago(t2) < Window =>
      trigger2 /\ trigger2count = Ago(t2) /\ ~trigger3

Turning ==
  \A t3 \in 1 .. Len(log) : \A t2 \in 1 .. t3 : \A t1 \in 1 .. t2 - 1 :
    GoesOn(t1, t2, t3 - 1) /\ TurnAt(t3) /\ t3 < t2 + Window /\ Ago(t3) < Hold =>
      trigger3 /\ trigger3count = Ago(t3)

NoticeInv == TypeOK /\ Falling /\ Struck /\ Turning /\ FallIsNoticed

(* Every pass keeps what a fall under way has set. *)
LEMMA NoticeStep ==
  ASSUME NoticeInv, NEW amp \in Nat, NEW turn \in Nat, Pass(amp, turn)
  PROVE  NoticeInv'
<1> USE DEF Ago
<1>1. TypeOK
  BY DEF NoticeInv
<1>2. PICK n \in Nat, m \in Nat, d \in {0, 1} :
        /\ n = Len(log) /\ m = Len(log')
        /\ 1 <= m /\ m + d = n + 1
        /\ log'[m].amp = amp /\ log'[m].turn = turn
        /\ log'[m].idle => ~trigger1 /\ ~trigger2 /\ ~trigger3
        /\ \A i \in 1 .. m - 1 : log'[i] = log[i + d]
  BY <1>1, LogStep
<1>3. /\ trigger1count \in Nat /\ trigger2count \in Nat /\ trigger3count \in Nat
      /\ ~trigger1 => trigger1count = 0
      /\ ~trigger2 => trigger2count = 0
      /\ ~trigger3 => trigger3count = 0
      /\ trigger1 => ~trigger2
  BY <1>1, FallConstants DEF TypeOK
(* What is in the log now, but for its end, was in it before.               *)
<1>4. ASSUME NEW t \in 1 .. m - 1
      PROVE  /\ t + d \in 1 .. n /\ log'[t] = log[t + d]
             /\ n + 1 - (t + d) = m - t
  <2>1. t + d \in 1 .. n /\ n + 1 - (t + d) = m - t
    BY <1>2
  <2>2. log'[t] = log[t + d]
    BY <1>2
  <2> QED BY <2>1, <2>2
<1>5. ASSUME NEW t1 \in 1 .. m - 1, NEW t \in 0 .. m - 1, Begins(t1, t)'
      PROVE  Begins(t1 + d, t + d)
  <2>1. log[t1 + d].idle /\ Low(t1 + d)
    BY <1>4, <1>5 DEF Begins, Low
  <2>2. ASSUME NEW i \in t1 + d .. t + d
        PROVE  ~High(i)
    <3>1. i - d \in t1 .. t /\ i - d \in 1 .. m - 1 /\ (i - d) + d = i
      BY <1>2
    <3>2. log'[i - d] = log[i]
      BY <1>4, <3>1
    <3> QED BY <1>5, <3>1, <3>2 DEF Begins, High
  <2> QED BY <2>1, <2>2 DEF Begins
<1>6. ASSUME NEW t2 \in 1 .. m - 1, NEW t1 \in 1 .. t2 - 1, NEW t \in 0 .. m - 1, GoesOn(t1, t2, t)'
      PROVE  GoesOn(t1 + d, t2 + d, t + d)
  <2>1. Begins(t1 + d, (t2 - 1) + d)
    BY <1>5, <1>6 DEF GoesOn
  <2>2. (t2 - 1) + d = (t2 + d) - 1 /\ t2 + d < (t1 + d) + Window
    BY <1>6, <1>2, FallConstants DEF GoesOn
  <2>3. High(t2 + d)
    BY <1>4, <1>6 DEF GoesOn, High
  <2>4. ASSUME NEW i \in t2 + d .. t + d
        PROVE  ~TurnAt(i)
    <3>1. i - d \in t2 .. t /\ i - d \in 1 .. m - 1 /\ (i - d) + d = i
      BY <1>2
    <3>2. log'[i - d] = log[i]
      BY <1>4, <3>1
    <3> QED BY <1>6, <3>1, <3>2 DEF GoesOn, TurnAt
  <2> QED BY <2>1, <2>2, <2>3, <2>4 DEF GoesOn
(* Before this pass, with a free fall at t1 and no impact since.            *)
<1>7. ASSUME NEW t1 \in 1 .. m - 1, Begins(t1, m - 1)', m - t1 < Window
      PROVE  trigger1 /\ trigger1count = m - t1 /\ ~trigger2 /\ ~trigger3
  <2>1. Begins(t1 + d, n)
    <3>1. (m - 1) + d = n /\ m - 1 \in 0 .. m - 1
      BY <1>2
    <3> QED BY <1>5, <1>7, <3>1
  <2>2. t1 + d \in 1 .. n /\ n + 1 - (t1 + d) = m - t1
    BY <1>4
  <2> QED BY <2>1, <2>2, <1>2, <1>3, <1>7 DEF NoticeInv, Falling
(* With an impact as well and no turn since.                                *)
<1>8. ASSUME NEW t2 \in 1 .. m - 1, NEW t1 \in 1 .. t2 - 1, GoesOn(t1, t2, m - 1)', m - t2 < Window
      PROVE  trigger2 /\ trigger2count = m - t2 /\ ~trigger3
  <2>1. GoesOn(t1 + d, t2 + d, n)
    <3>1. (m - 1) + d = n /\ m - 1 \in 0 .. m - 1
      BY <1>2
    <3> QED BY <1>6, <1>8, <3>1
  <2>2. /\ t2 + d \in 1 .. n /\ n + 1 - (t2 + d) = m - t2
        /\ t1 + d \in 1 .. (t2 + d) - 1
    BY <1>2, <1>4
  <2> QED BY <2>1, <2>2, <1>2, <1>8 DEF NoticeInv, Struck
(* An impact or a turn in this pass, with all that it takes before it.      *)
<1>9. ASSUME NEW t2 \in 1 .. m, NEW t1 \in 1 .. t2 - 1, GoesOn(t1, t2, m - 1)', m < t2 + Window
      PROVE  /\ trigger2 \/ (trigger1 /\ Strikes(amp))
             /\ trigger2count = m - t2
             /\ ~trigger3 /\ trigger3count = 0
  <2>1. CASE t2 = m
    <3>1. t1 \in 1 .. m - 1 /\ m - t1 < Window
      BY <2>1, <1>9, FallConstants DEF GoesOn
    <3>2. Begins(t1, m - 1)' /\ Strikes(amp)
      BY <2>1, <1>2, <1>9 DEF GoesOn, High
    <3> QED BY <2>1, <3>1, <3>2, <1>3, <1>7
  <2>2. CASE t2 # m
    <3>1. t2 \in 1 .. m - 1 /\ m - t2 < Window
      BY <2>2, <1>9, FallConstants
    <3> QED BY <3>1, <1>3, <1>8, <1>9
  <2> QED BY <2>1, <2>2
(* A turn in this pass or before it, not decided before it.                 *)
<1>10. ASSUME NEW t3 \in 1 .. m, NEW t2 \in 1 .. t3, NEW t1 \in 1 .. t2 - 1,
              GoesOn(t1, t2, t3 - 1)', TurnAt(t3)', t3 < t2 + Window, m + 1 - t3 <= Hold
       PROVE  /\ trigger3 \/ (Turns(turn) /\ (trigger2 \/ (trigger1 /\ Strikes(amp))))
              /\ trigger3count + 1 = m + 1 - t3
  <2>1. CASE t3 = m
    <3>1. Turns(turn)
      BY <2>1, <1>2, <1>10 DEF TurnAt
    <3>2. /\ trigger2 \/ (trigger1 /\ Strikes(amp))
          /\ ~trigger3 /\ trigger3count = 0
      BY <2>1, <1>9, <1>10
    <3> QED BY <2>1, <3>1, <3>2
  <2>2. CASE t3 # m
    <3>1. t3 \in 1 .. m - 1 /\ t2 \in 1 .. m - 1 /\ t3 - 1 \in 0 .. m - 1
      BY <2>2
    <3>2. GoesOn(t1 + d, t2 + d, (t3 - 1) + d)
      BY <3>1, <1>6, <1>10
    <3>3. (t3 - 1) + d = (t3 + d) - 1 /\ t3 + d < (t2 + d) + Window
      BY <1>2, <1>10, FallConstants
    <3>4. TurnAt(t3 + d)
      BY <3>1, <1>4, <1>10 DEF TurnAt
    <3>5. /\ t3 + d \in 1 .. n /\ n + 1 - (t3 + d) = m - t3
          /\ t2 + d \in 1 .. t3 + d /\ t1 + d \in 1 .. (t2 + d) - 1
      BY <3>1, <1>2, <1>4
    <3>6. m - t3 < Hold
      BY <1>10, FallConstants
    <3>7. trigger3 /\ trigger3count = m - t3
      BY <3>2, <3>3, <3>4, <3>5, <3>6, <1>2 DEF NoticeInv, Turning
    <3> QED BY <3>7
  <2> QED BY <2>1, <2>2
<1>11. Falling'
  <2> SUFFICES ASSUME NEW t1 \in 1 .. m, Begins(t1, m)', m + 1 - t1 < Window
               PROVE  trigger1' /\ trigger1count' = m + 1 - t1 /\ ~trigger3'
    BY <1>2 DEF Falling
  <2>1. ~Strikes(amp)
    BY <1>2 DEF Begins, High
  <2>2. CASE t1 = m
    <3>1. ~trigger1 /\ ~trigger2 /\ ~trigger3 /\ Falls(amp)
      BY <2>2, <1>2 DEF Begins, Low
    <3> QED BY <2>1, <2>2, <3>1, <1>1, <1>3, PassAfter
  <2>3. CASE t1 # m
    <3>1. t1 \in 1 .. m - 1 /\ m - t1 < Window
      BY <2>3, FallConstants
    <3>2. Begins(t1, m - 1)'
      BY DEF Begins
    <3>3. trigger1 /\ trigger1count = m - t1 /\ ~trigger2 /\ ~trigger3
      BY <3>1, <3>2, <1>7
    <3>4. trigger1count + 1 = m + 1 - t1
      BY <3>3
    <3> QED BY <2>1, <3>3, <3>4, <1>1, PassAfter
  <2> QED BY <2>2, <2>3
<1>12. Struck'
  <2> SUFFICES ASSUME NEW t2 \in 1 .. m, NEW t1 \in 1 .. t2 - 1, GoesOn(t1, t2, m)', m + 1 - t2 < Window
               PROVE  trigger2' /\ trigger2count' = m + 1 - t2 /\ ~trigger3'
    BY <1>2 DEF Struck
  <2>1. ~Turns(turn)
    BY <1>2 DEF GoesOn, TurnAt
  <2>2. GoesOn(t1, t2, m - 1)' /\ m < t2 + Window
    BY FallConstants DEF GoesOn
  <2>3. /\ trigger2 \/ (trigger1 /\ Strikes(amp))
        /\ trigger2count + 1 = m + 1 - t2
        /\ ~trigger3
    BY <2>2, <1>9
  <2> QED BY <2>1, <2>3, <1>1, PassAfter
<1>13. Turning'
  <2> SUFFICES ASSUME NEW t3 \in 1 .. m, NEW t2 \in 1 .. t3, NEW t1 \in 1 .. t2 - 1,
                      GoesOn(t1, t2, t3 - 1)', TurnAt(t3)', t3 < t2 + Window, m + 1 - t3 < Hold
               PROVE  trigger3' /\ trigger3count' = m + 1 - t3
    BY <1>2 DEF Turning
  <2>1. /\ trigger3 \/ (Turns(turn) /\ (trigger2 \/ (trigger1 /\ Strikes(amp))))
        /\ trigger3count + 1 = m + 1 - t3
    BY <1>10, FallConstants
  <2> QED BY <2>1, <1>1, PassAfter
<1>14. FallIsNoticed'
  <2> DEFINE t3 == m - Hold + 1
  <2> SUFFICES ASSUME t3 > 0, TurnAt(t3)', Still(log'[m].turn),
                      NEW t2 \in 1 .. t3, NEW t1 \in 1 .. t2 - 1,
                      GoesOn(t1, t2, t3 - 1)', t3 < t2 + Window
               PROVE  alarm'
    BY <1>2 DEF FallIsNoticed, IsFall, TurnTime, GoesOn, Begins, Low, High, TurnAt
  <2>1. t3 \in 1 .. m /\ m + 1 - t3 = Hold /\ m + 1 - t3 <= Hold
    BY FallConstants
  <2> HIDE DEF t3
  <2>2. /\ trigger3 \/ (Turns(turn) /\ (trigger2 \/ (trigger1 /\ Strikes(amp))))
        /\ trigger3count + 1 = Hold
    BY <2>1, <1>10
  <2> QED BY <2>2, <1>1, <1>2, PassAfter
<1> QED BY <1>1, <1>11, <1>12, <1>13, <1>14, TypeStep DEF NoticeInv

(* No fall goes unnoticed, for windows and delays of any length.            *)
THEOREM FallIsNoticedCorrect == Spec => []FallIsNoticed
<1>1. Init => NoticeInv
  <2> SUFFICES ASSUME Init PROVE NoticeInv
    OBVIOUS
  <2>1. TypeOK
    BY FallInit
  <2>2. PICK n \in Nat : n = 0 /\ n = Len(log)
    BY DEF Init
  <2>3. Falling /\ Struck /\ Turning
    BY <2>2 DEF Falling, Struck, Turning
  <2>4. FallIsNoticed
    BY <2>2, FallConstants DEF FallIsNoticed, TurnTime
  <2> QED BY <2>1, <2>3, <2>4 DEF NoticeInv
<1>2. NoticeInv /\ [Next]_vars => NoticeInv'
  <2> SUFFICES ASSUME NoticeInv, [Next]_vars PROVE NoticeInv'
    OBVIOUS
  <2>1. CASE Next
    BY <2>1, FallNext, NoticeStep
  <2>2. CASE UNCHANGED vars
    <3>1. /\ UNCHANGED << trigger1, trigger2, trigger3, trigger1count, trigger2count,
                          trigger3count, alarm, log >>
      BY <2>2 DEF vars, triggers, counts
    <3>2. TypeOK'
      BY <3>1 DEF NoticeInv, TypeOK, triggers
    <3>3. Falling'
      BY <3>1 DEF NoticeInv, Falling, Begins, Low, High, Ago
    <3>4. Struck'
      BY <3>1 DEF NoticeInv, Struck, Begins, GoesOn, Low, High, TurnAt, Ago
    <3>5. Turning'
      BY <3>1 DEF NoticeInv, Turning, Begins, GoesOn, Low, High, TurnAt, Ago
    <3>6. FallIsNoticed'
      BY <3>1 DEF NoticeInv, FallIsNoticed, IsFall, TurnTime
    <3> QED BY <3>2, <3>3, <3>4, <3>5, <3>6 DEF NoticeInv
  <2> QED BY <2>1, <2>2
<1>3. NoticeInv => FallIsNoticed
  BY DEF NoticeInv
<1> QED BY <1>1, <1>2, <1>3, PTL DEF Spec

----------------------------------------------------------------------------
(* The car monitor. *)

(* RoadTypeOK, with the steps by their numbers.  Past the question for        *)
(* /count the sketch has a number for the hole.                             *)
RoadType ==
  /\ roadHole \in {0, 1} /\ carCrash \in {0, 1}
  /\ count \in 0 .. MaxHoles
  /\ step \in 0 .. 8
  /\ dbCount \in {-1} \cup (1 .. MaxHoles)
  /\ holes \in [1 .. MaxHoles -> [{"lat", "long"} -> 0 .. MaxHoles]]
  /\ Hole \in {0, 1} /\ Crash \in {0, 1}
  /\ found \in 0 .. MaxHoles
  /\ lost \in BOOLEAN
  /\ stuck \subseteq {"Hole", "Crash"}
  /\ step \in 1 .. 6 => roadHole = 1
  /\ step >= 7 => carCrash = 1
  /\ step \in 2 .. 6 => count > 0

(* Which request each step stands for. *)
LEMMA StepNames ==
  \A s \in 1 .. 8 :
    /\ Steps[s] = "get" => s = 1
    /\ Steps[s] = "count" => s = 2
    /\ Steps[s] = "lat" => s = 3
    /\ Steps[s] = "long" => s = 4
    /\ Steps[s] = "raiseHole" => s = 5
    /\ Steps[s] = "clearHole" => s = 6
    /\ Steps[s] = "raiseCrash" => s = 7
    /\ Steps[s] = "clearCrash" => s = 8
<1>1. /\ Steps[1] = "get" /\ Steps[2] = "count"
      /\ Steps[3] = "lat" /\ Steps[4] = "long"
      /\ Steps[5] = "raiseHole" /\ Steps[6] = "clearHole"
      /\ Steps[7] = "raiseCrash" /\ Steps[8] = "clearCrash"
  BY DEF Steps
<1> TAKE s \in 1 .. 8
<1>2. s = 1 \/ s = 2 \/ s = 3 \/ s = 4 \/ s = 5 \/ s = 6 \/ s = 7 \/ s = 8
  OBVIOUS
<1> QED BY <1>1, <1>2

(* loop() has eight requests. *)
LEMMA StepCount == Len(Steps) = 8
BY DEF Steps

(* Where a pass goes after sensing and after a hole. *)
LEMMA BranchType ==
  ASSUME NEW h \in {0, 1}, NEW c \in {0, 1}
  PROVE  /\ Branch(h, c) \in {0, 1, 7}
         /\ Branch(h, c) = 1 <=> h = 1
         /\ Branch(h, c) = 7 <=> h = 0 /\ c = 1
<1>1. CASE h = 1
  BY <1>1 DEF Branch, HoleSteps
<1>2. CASE h = 0 /\ c = 1
  BY <1>2 DEF Branch, CrashSteps
<1>3. CASE h = 0 /\ c = 0
  BY <1>3 DEF Branch
<1> QED BY <1>1, <1>2, <1>3

(* Which alarms hang: one that is up is being raised, is about to be        *)
(* cleared, or has lost its clearing.                                       *)
RaisedInv ==
  /\ Hole = 1 => "Hole" \in stuck \/ step = 6
  /\ Crash = 1 => "Crash" \in stuck \/ step = 8

(* As long as no number was lost, /count is the last number given, places   *)
(* above it are empty, and so is the part of the place that is being        *)
(* written.                                                                 *)
NumberInv ==
  ~lost =>
    /\ \A n \in 1 .. MaxHoles, f \in {"lat", "long"} : holes[n][f] # 0 => n <= dbCount
    /\ step = 2 => dbCount < count
    /\ step \in {3, 4} => dbCount = count
    /\ step = 3 => holes[count]["lat"] = 0
    /\ step \in {3, 4} => holes[count]["long"] = 0

RoadInv == RoadType /\ RaisedInv /\ NumberInv

(* HolesKept, of one step. *)
HoleStep ==
  \A n \in 1 .. MaxHoles, f \in {"lat", "long"} :
    (holes[n][f] # 0 /\ ~lost') => holes'[n][f] = holes[n][f]

(* The monitor starts without holes and with both alarms down. *)
LEMMA RoadStart == ASSUME RoadInit PROVE RoadInv
<1> USE HolesAssumption
<1>1. RoadType
  <2>1. holes \in [1 .. MaxHoles -> [{"lat", "long"} -> 0 .. MaxHoles]]
    <3>1. [f \in {"lat", "long"} |-> 0] \in [{"lat", "long"} -> 0 .. MaxHoles]
      OBVIOUS
    <3> QED BY <3>1 DEF RoadInit, Fields
  <2>2. stuck \subseteq {"Hole", "Crash"} /\ lost \in BOOLEAN
    BY DEF RoadInit
  <2> QED BY <2>1, <2>2 DEF RoadInit, RoadType, None
<1>2. RaisedInv
  BY DEF RoadInit, RaisedInv
<1>3. NumberInv
  BY DEF RoadInit, NumberInv, Fields
<1> QED BY <1>1, <1>2, <1>3 DEF RoadInv

(* Every request, pass and restart keeps the invariant. *)
LEMMA RoadStep ==
  ASSUME RoadInv, [RoadNext]_roadVars
  PROVE  RoadInv' /\ HoleStep
<1> USE HolesAssumption DEF RoadInv, base, past, sketch, None
<1>1. ASSUME NEW a \in Axis \X Axis \X Axis, NEW c \in BOOLEAN, NEW h \in BOOLEAN,
           Sense(a, c, h)
    PROVE  RoadInv' /\ HoleStep
  <2>1. /\ step' \in {0, 1, 7} /\ (step' = 1 <=> roadHole' = 1)
        /\ step' = 7 => carCrash' = 1
        /\ roadHole' \in {0, 1} /\ carCrash' \in {0, 1}
    BY <1>1, BranchType DEF Sense, RoadType
  <2>2. RoadType'
    BY <1>1, <2>1 DEF Sense, RoadType
  <2>3. RaisedInv'
    BY <1>1, <2>1 DEF Sense, RaisedInv, RoadType
  <2>4. NumberInv'
    BY <1>1, <2>1 DEF Sense, NumberInv, RoadType
  <2>6. HoleStep
    BY <1>1, <2>1 DEF Sense, NumberInv, HoleStep, RoadType
  <2> QED BY <2>2, <2>3, <2>4, <2>6
<1>2. ASSUME NEW ok \in BOOLEAN, GetCount(ok) PROVE RoadInv' /\ HoleStep
  <2>1. step = 1
    BY <1>2, StepNames DEF GetCount, RoadType
  <2>2. RoadType'
    BY <1>2, <2>1 DEF GetCount, RoadType
  <2>3. RaisedInv'
    BY <1>2, <2>1 DEF GetCount, RaisedInv, RoadType
  <2>4. NumberInv'
    <3>1. ASSUME ~lost' PROVE ~lost /\ dbCount < count'
      <4> DEFINE known == IF ok /\ dbCount # None THEN dbCount ELSE count
      <4>1. known \in Int /\ dbCount \in Int
        BY DEF RoadType, None
      <4>2. count' = known + 1 /\ ~(known < dbCount) /\ ~lost
        BY <1>2, <3>1 DEF GetCount
      <4> HIDE DEF known
      <4> QED BY <4>1, <4>2
    <3>2. step' = 2 /\ UNCHANGED << dbCount, holes >>
      BY <1>2, <2>1 DEF GetCount
    <3> QED BY <3>1, <3>2 DEF NumberInv
  <2>6. HoleStep
    BY <1>2, <2>1 DEF GetCount, NumberInv, HoleStep, RoadType
  <2> QED BY <2>2, <2>3, <2>4, <2>6
<1>3. ASSUME NEW ok \in BOOLEAN, SetCount(ok) PROVE RoadInv' /\ HoleStep
  <2>1. step = 2
    BY <1>3, StepNames DEF SetCount, RoadType
  <2>2. RoadType'
    BY <1>3, <2>1 DEF SetCount, RoadType
  <2>3. RaisedInv'
    BY <1>3, <2>1 DEF SetCount, RaisedInv, RoadType
  <2>4. NumberInv'
    <3>1. ASSUME ~lost'
          PROVE  /\ ~lost /\ dbCount' = count /\ dbCount < count
                 /\ UNCHANGED << count, holes >> /\ step' = 3
      <4>1. ~lost /\ ok
        BY <1>3, <3>1 DEF SetCount
      <4> QED BY <1>3, <2>1, <4>1 DEF SetCount, NumberInv
    <3>2. ASSUME ~lost', NEW f \in {"lat", "long"}
          PROVE  holes[count][f] = 0
      BY <2>1, <3>1, <3>2 DEF NumberInv, RoadType
    <3>3. ASSUME ~lost', NEW n \in 1 .. MaxHoles, NEW f \in {"lat", "long"}, holes[n][f] # 0
          PROVE  n <= count
      <4>1. n <= dbCount /\ dbCount < count
        BY <3>1, <3>3 DEF NumberInv
      <4>2. n \in Int /\ dbCount \in Int /\ count \in Int
        BY DEF RoadType
      <4> QED BY <4>1, <4>2
    <3> QED BY <3>1, <3>2, <3>3 DEF NumberInv
  <2>6. HoleStep
    BY <1>3, <2>1 DEF SetCount, NumberInv, HoleStep, RoadType
  <2> QED BY <2>2, <2>3, <2>4, <2>6
<1>4. ASSUME NEW ok \in BOOLEAN, NEW f \in Fields, Record(f, ok) PROVE RoadInv' /\ HoleStep
  <2>1. (f = "lat" /\ step = 3) \/ (f = "long" /\ step = 4)
    BY <1>4, StepNames DEF Record, Fields, RoadType
  <2>2. RoadType'
    BY <1>4, <2>1 DEF Record, RoadType
  <2>3. RaisedInv'
    BY <1>4, <2>1 DEF Record, RaisedInv, RoadType
  <2>4. NumberInv'
    BY <1>4, <2>1 DEF Record, NumberInv, RoadType
  <2>6. HoleStep
    BY <1>4, <2>1 DEF Record, NumberInv, HoleStep, RoadType
  <2> QED BY <2>2, <2>3, <2>4, <2>6
<1>5. ASSUME NEW ok \in BOOLEAN, RaiseHole(ok) PROVE RoadInv' /\ HoleStep
  <2>1. step = 5
    BY <1>5, StepNames DEF RaiseHole, RoadType
  <2>2. RoadType'
    BY <1>5, <2>1 DEF RaiseHole, RoadType
  <2>3. RaisedInv'
    BY <1>5, <2>1 DEF RaiseHole, RaisedInv, RoadType
  <2>4. NumberInv'
    BY <1>5, <2>1 DEF RaiseHole, NumberInv, RoadType
  <2>6. HoleStep
    BY <1>5, <2>1 DEF RaiseHole, NumberInv, HoleStep, RoadType
  <2> QED BY <2>2, <2>3, <2>4, <2>6
<1>6. ASSUME NEW ok \in BOOLEAN, ClearHole(ok) PROVE RoadInv' /\ HoleStep
  <2>1. step = 6
    BY <1>6, StepNames DEF ClearHole, RoadType
  <2>5. step' \in {0, 7} /\ (step' = 7 => carCrash' = 1)
    BY <1>6, BranchType DEF ClearHole, RoadType
  <2>2. RoadType'
    BY <1>6, <2>1, <2>5 DEF ClearHole, RoadType, Clearing
  <2>3. RaisedInv'
    BY <1>6, <2>1, <2>5 DEF ClearHole, RaisedInv, RoadType, Clearing
  <2>4. NumberInv'
    BY <1>6, <2>1, <2>5 DEF ClearHole, NumberInv, RoadType
  <2>6. HoleStep
    BY <1>6, <2>1, <2>5 DEF ClearHole, NumberInv, HoleStep, RoadType
  <2> QED BY <2>2, <2>3, <2>4, <2>6
<1>7. ASSUME NEW ok \in BOOLEAN, RaiseCrash(ok) PROVE RoadInv' /\ HoleStep
  <2>1. step = 7
    BY <1>7, StepNames DEF RaiseCrash, RoadType
  <2>2. RoadType'
    BY <1>7, <2>1 DEF RaiseCrash, RoadType
  <2>3. RaisedInv'
    BY <1>7, <2>1 DEF RaiseCrash, RaisedInv, RoadType
  <2>4. NumberInv'
    BY <1>7, <2>1 DEF RaiseCrash, NumberInv, RoadType
  <2>6. HoleStep
    BY <1>7, <2>1 DEF RaiseCrash, NumberInv, HoleStep, RoadType
  <2> QED BY <2>2, <2>3, <2>4, <2>6
<1>8. ASSUME NEW ok \in BOOLEAN, ClearCrash(ok) PROVE RoadInv' /\ HoleStep
  <2>1. step = 8
    BY <1>8, StepNames DEF ClearCrash, RoadType
  <2>2. RoadType'
    BY <1>8, <2>1 DEF ClearCrash, RoadType, Clearing
  <2>3. RaisedInv'
    BY <1>8, <2>1 DEF ClearCrash, RaisedInv, RoadType, Clearing
  <2>4. NumberInv'
    BY <1>8, <2>1 DEF ClearCrash, NumberInv, RoadType
  <2>6. HoleStep
    BY <1>8, <2>1 DEF ClearCrash, NumberInv, HoleStep, RoadType
  <2> QED BY <2>2, <2>3, <2>4, <2>6
<1>9. CASE Reset
  <2>1. stuck' \subseteq {"Hole", "Crash"}
    BY <1>9 DEF Reset, RoadType
  <2>2. RoadType'
    BY <1>9, <2>1 DEF Reset, RoadType
  <2>3. RaisedInv'
    BY <1>9 DEF Reset, RaisedInv, RoadType
  <2>4. NumberInv'
    BY <1>9 DEF Reset, NumberInv, RoadType
  <2>6. HoleStep
    BY <1>9 DEF Reset, NumberInv, HoleStep, RoadType
  <2> QED BY <2>2, <2>3, <2>4, <2>6
<1>10. CASE UNCHANGED roadVars
  <2>2. RoadType'
    BY <1>10 DEF roadVars, RoadType
  <2>3. RaisedInv'
    BY <1>10 DEF roadVars, RaisedInv, RoadType
  <2>4. NumberInv'
    BY <1>10 DEF roadVars, NumberInv, RoadType
  <2>6. HoleStep
    BY <1>10 DEF roadVars, NumberInv, HoleStep, RoadType
  <2> QED BY <2>2, <2>3, <2>4, <2>6
<1> QED
  BY <1>1, <1>2, <1>3, <1>4, <1>5, <1>6, <1>7, <1>8, <1>9, <1>10 DEF RoadNext

(* The steps of loop() stay within the requests of a pass, the number of a  *)
(* hole within the holes found, and a pass that records a hole or a crash   *)
(* has the flag for it set: loop() 247-283.                                 *)
THEOREM RoadTypeCorrect == RoadSpec => []RoadTypeOK
<1>1. RoadInv => RoadTypeOK
  <2>1. ASSUME NEW n, n = 8, RoadType
        PROVE  step \in 0 .. n
    BY <2>1 DEF RoadType
  <2>2. RoadType => step \in 0 .. Len(Steps)
    BY <2>1, StepCount
  <2> QED BY <2>2 DEF RoadInv, RoadType, RoadTypeOK, None, Fields, HoleSteps, CrashSteps
<1> QED BY <1>1, RoadStart, RoadStep, PTL DEF RoadSpec

(* An alarm that is up in the database while the sketch is sensing is one   *)
(* whose clearing was lost or cut short by a restart: loop() 267-282.       *)
THEOREM AlarmsEndCorrect == RoadSpec => []AlarmsEnd
<1>1. RoadInv => AlarmsEnd
  BY DEF RoadInv, RaisedInv, AlarmsEnd
<1> QED BY <1>1, RoadStart, RoadStep, PTL DEF RoadSpec

(* A hole once recorded under a number is never written over, as long as no *)
(* write of /count was lost and no hole was numbered without an answer to   *)
(* the question for it: loop() 253-265.                                     *)
THEOREM HolesKeptCorrect == RoadSpec => HolesKept
<1>1. RoadInv /\ [RoadNext]_roadVars =>
        [\A n \in 1 .. MaxHoles, f \in Fields :
           (holes[n][f] # 0 /\ ~lost') => holes'[n][f] = holes[n][f]]_roadVars
  BY RoadStep DEF HoleStep, Fields
<1>2. RoadInv /\ [RoadNext]_roadVars => RoadInv'
  BY RoadStep
<1> QED BY <1>1, <1>2, RoadStart, PTL DEF RoadSpec, HolesKept
=============================================================================
