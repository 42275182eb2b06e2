---------------------------- MODULE FallDetection ----------------------------
(***************************************************************************)
(* The fall detector (ESP8266_ESP32 Projects/PatientFallDetection): every  *)
(* pass of loop() takes one reading and moves three triggers on: free fall *)
(* (trigger1), impact (trigger2), a turn of the body (trigger3), each      *)
(* given up after a number of passes, and an alarm if the body lies still. *)
(* A reading is the two numbers that loop() compares: Amp, the length of   *)
(* the acceleration in tenths of g, and angleChange, the rate of turning   *)
(* in degrees per second.  The body temperature, which the mail quotes, is *)
(* left out.                                                               *)
(*                                                                         *)
(* A definition whose comment starts with "Fault" is a mistaken variant of *)
(* the one that follows it and is used by none.                            *)
(***************************************************************************)
EXTENDS Integers, Sequences

CONSTANTS
  Window,      (* passes that triggers 1 and 2 live: 20                      *)
  Hold,        (* passes until trigger 3 is decided: 5                       *)
  Readings,    (* the pairs of Amp and angleChange that occur                *)
  Remembered   (* how many readings log keeps                                *)

ASSUME WindowAssumption == Window \in Nat \ {0} /\ Hold \in Nat \ {0}

(* The longest fall that raises an alarm: an impact and a turn as late as   *)
(* they may come, and the passes until the turn is decided.                 *)
ASSUME RememberedAssumption ==
  Remembered \in Nat /\ Remembered >= 2 * Window + Hold - 2

ASSUME ReadingAssumption == Readings \subseteq Nat \X Nat

VARIABLES
  trigger1, trigger2, trigger3,
  trigger1count, trigger2count, trigger3count,
  alarm,       (* whether the last pass sent the notification                *)
  log          (* history: the last readings, and whether the triggers were  *)
               (* all off before them                                        *)

triggers == << trigger1, trigger2, trigger3 >>
counts   == << trigger1count, trigger2count, trigger3count >>
vars     == << triggers, counts, alarm, log >>

Reading == [amp : Nat, turn : Nat, idle : BOOLEAN]

(* A count is running exactly while its trigger is on, and never reaches    *)
(* the end of its time between two passes; triggers 1 and 2 exclude each    *)
(* other.                                                                   *)
TypeOK ==
  /\ triggers \in BOOLEAN \X BOOLEAN \X BOOLEAN
  /\ trigger1count \in (IF trigger1 THEN 1 .. Window - 1 ELSE {0})
  /\ trigger2count \in (IF trigger2 THEN 1 .. Window - 1 ELSE {0})
  /\ trigger3count \in (IF trigger3 THEN 1 .. Hold - 1 ELSE {0})
  /\ ~ (trigger1 /\ trigger2)
  /\ alarm \in BOOLEAN
  /\ log \in Seq(Reading) /\ Len(log) <= Remembered

Init ==
  /\ trigger1 = FALSE /\ trigger2 = FALSE /\ trigger3 = FALSE
  /\ trigger1count = 0 /\ trigger2count = 0 /\ trigger3count = 0
  /\ alarm = FALSE
  /\ log = << >>

----------------------------------------------------------------------------
(* What loop() asks of a reading, lines 86, 92, 101 and 115.                *)
Falls(amp)   == amp <= 2
Strikes(amp) == amp >= 10
Turns(turn)  == turn >= 30 /\ turn <= 400
Still(turn)  == turn >= 0 /\ turn <= 20

(* The blocks of loop(), each as what it makes of a trigger and its count.  *)

(* Fault: the impact alone is enough.                                       *)
Trigger1_NoFall(amp) ==
  LET on == trigger1 \/ (Strikes(amp) /\ ~trigger2)
  IN  [on |-> on, count |-> IF on THEN trigger1count + 1 ELSE 0]

(* lines 86-91 *)
Trigger1(amp) ==
  LET on == trigger1 \/ (Falls(amp) /\ ~trigger2)
  IN  [on |-> on, count |-> IF on THEN trigger1count + 1 ELSE 0]

(* line 92: the impact ends trigger 1 and begins trigger 2.                 *)
Impact(amp) == Trigger1(amp).on /\ Strikes(amp)

(* lines 98-100 *)
Trigger2(amp) ==
  LET on == trigger2 \/ Impact(amp)
  IN  [on |-> on, count |-> IF on THEN trigger2count + 1 ELSE 0]

(* line 101: the turn ends trigger 2 and begins trigger 3.                  *)
Turned(amp, turn) == Trigger2(amp).on /\ Turns(turn)

(* lines 109-110 *)
Trigger3(amp, turn) ==
  LET on == trigger3 \/ Turned(amp, turn)
  IN  [on |-> on, count |-> IF on THEN trigger3count + 1 ELSE 0]

(* line 111 *)
Decided(amp, turn) ==
  Trigger3(amp, turn).on /\ Trigger3(amp, turn).count >= Hold

(* Fault: one pass fewer.                                                   *)
Expired_Early(count) == count >= Window - 1

(* Fault: one pass more.                                                    *)
Expired_Late(count) == count > Window

(* lines 138, 142 *)
Expired(count) == count >= Window

(* A pass of loop(). *)
Pass(amp, turn) ==
  LET one == Trigger1(amp)
      two == Trigger2(amp)
      keep1 == one.on /\ ~Impact(amp) /\ ~Expired(one.count)
      keep2 == two.on /\ ~Turned(amp, turn) /\ ~Expired(two.count)
      keep3 == Trigger3(amp, turn).on /\ ~Decided(amp, turn)
      entry == [amp |-> amp, turn |-> turn, idle |-> TRUE \notin {trigger1, trigger2, trigger3}]
      longer == Append(log, entry)
  IN  /\ trigger1' = keep1 /\ trigger1count' = IF keep1 THEN one.count ELSE 0
      /\ trigger2' = keep2 /\ trigger2count' = IF keep2 THEN two.count ELSE 0
      /\ trigger3' = keep3
      /\ trigger3count' = IF keep3 THEN Trigger3(amp, turn).count ELSE 0
      /\ alarm' = (Decided(amp, turn) /\ Still(turn))
      /\ log' = IF Len(longer) <= Remembered THEN longer ELSE Tail(longer)

Next == \E r \in Readings : Pass(r[1], r[2])

Spec == Init /\ [][Next]_vars

----------------------------------------------------------------------------
(* The pass whose turn is decided at the end of log.                        *)
TurnTime == Len(log) - Hold + 1

(* Free fall and impact, at t1 and t2, before a turn at TurnTime.           *)
IsFall(t1, t2) ==
  /\ Falls(log[t1].amp)
  /\ Strikes(log[t2].amp) /\ t2 < t1 + Window
  /\ TurnTime < t2 + Window

(* loop() 86-137: an alarm is sent only for what the sketch tests for, in   *)
(* its order and times: Amp at most 2, then at least 10 within Window       *)
(* passes, a turn within Window of that, and a body that lies still Hold    *)
(* passes later.  No leftover of an older trigger counts.  Whether that is  *)
(* a fall is another question: an Amp of 10 is 1 g, a body at rest.         *)
AlarmIsFall ==
  alarm =>
    /\ Still(log[Len(log)].turn)
    /\ Turns(log[TurnTime].turn)
    /\ \E t2 \in 1 .. TurnTime : \E t1 \in 1 .. t2 - 1 : IsFall(t1, t2)

(* line 92, "if AM breaks upper threshold (3g)": no alarm without a reading *)
(* of 3 g or more.                                                          *)
AlarmNeedsImpact ==
  alarm => \E t \in 1 .. Len(log) : log[t].amp >= 30

(* loop() 86-137: a fall that begins with all triggers off, and whose       *)
(* impact and turn are the first after it, is sent, whatever the readings   *)
(* between: none of the other triggers' time running out takes it back.     *)
FallIsNoticed ==
  (/\ TurnTime > 0
   /\ Turns(log[TurnTime].turn)
   /\ Still(log[Len(log)].turn)
   /\ \E t2 \in 1 .. TurnTime :
        /\ \A t \in t2 .. TurnTime - 1 : ~Turns(log[t].turn)
        /\ \E t1 \in 1 .. t2 - 1 :
             /\ log[t1].idle
             /\ IsFall(t1, t2)
             /\ \A t \in t1 .. t2 - 1 : ~Strikes(log[t].amp))
    => alarm
=============================================================================
