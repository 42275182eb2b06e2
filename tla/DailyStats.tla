----------------------------- MODULE DailyStats -----------------------------
(***************************************************************************)
(* The air quality station (ESP8266_ESP32 Projects/AirQMonitoring): every  *)
(* pass of loop() adds the readings to eight running sums of the day in a  *)
(* Firebase database and then counts the pass, one read and one write at a *)
(* time, none of them checked.  Whoever reads the database divides a sum   *)
(* by the count.  Readings are abstracted to their number: a sum is how    *)
(* many readings it holds.                                                 *)
(*                                                                         *)
(* A definition whose comment starts with "Fault" is a mistaken variant of *)
(* the one that follows it and is used by none.                            *)
(*                                                                         *)
(* The names of the specification begin with Day: Stations_proofs extends  *)
(* this module and WaterQuality.                                           *)
(***************************************************************************)
EXTENDS Integers

CONSTANTS
  NSums,       (* COSum, CO2Sum, ... PM_10_0_Sum: eight of them              *)
  LastDay,     (* bound: days                                                *)
  MaxPasses,   (* bound: readings in a sum, and passes shown of a day        *)
  MaxResets    (* bound: resets in the middle of the passes of a day         *)

ASSUME SumsAssumption ==
  /\ NSums \in Nat \ {0}
  /\ LastDay \in Nat /\ MaxPasses \in Nat /\ MaxResets \in Nat

Days  == 0 .. LastDay
Count == NSums + 1
Keys  == 1 .. Count           (* in the order loop() comes to them           *)

(* A key that is not in the database.                                       *)
Missing == -1

VARIABLES
  today,       (* the date the DS3231 gives                                  *)
  db,          (* the database: day, key -> value                            *)
  pc,          (* loop(): idle, get, set, or publish                         *)
  date, key,   (* the String date of the pass, and the key it has come to    *)
  value,       (* what it will write: the sum read plus the reading          *)
  published,   (* history: day -> passes that showed readings of their own   *)
  failed,      (* history: day and key of reads and writes that failed       *)
  resets       (* history: day -> resets in the middle of a pass             *)

pass == << pc, date, key, value >>
dayVars == << today, db, pass, published, failed, resets >>

DayTypeOK ==
  /\ today \in Days
  /\ db \in [Days -> [Keys -> Int]]
  /\ \A d \in Days, k \in Keys : db[d][k] >= Missing
  /\ pc \in {"idle", "get", "set", "publish"}
  /\ date \in Days
  /\ date <= today
  /\ key \in Keys
  /\ value \in Nat
  /\ published \in [Days -> Nat]
  /\ failed \in SUBSET (Days \X Keys)
  /\ resets \in [Days -> Nat]

DayInit ==
  /\ today = 0
  /\ db = [d \in Days |-> [k \in Keys |-> Missing]]
  /\ pc = "idle" /\ date = 0 /\ key = 1 /\ value = 0
  /\ failed = {}
  /\ published = [d \in Days |-> 0]
  /\ resets = [d \in Days |-> 0]

----------------------------------------------------------------------------
(* Midnight, at any point of a pass.                                        *)
Midnight ==
  /\ today < LastDay
  /\ today' = today + 1
  /\ UNCHANGED << db, pass, published, failed, resets >>

(* The sensors are read, the date string is built, and Firebase is ready.   *)
Start ==
  /\ pc = "idle"
  /\ pc' = "get" /\ date' = today /\ key' = 1 /\ value' = 0
  /\ UNCHANGED << today, db, published, failed, resets >>

(* getFloat finds the key; a sum at the bound is not read again.            *)
GetSucceeds ==
  /\ pc = "get"
  /\ db[date][key] \in 0 .. MaxPasses - 1
  /\ value' = db[date][key] + 1
  /\ pc' = "set"
  /\ UNCHANGED << today, db, date, key, published, failed, resets >>

(* Fault: a pass that finds no value counts its reading.                    *)
GetFails_CountsFirst ==
  /\ pc = "get"
  /\ value' = IF key = Count THEN 1 ELSE 0
  /\ pc' = "set"
  /\ failed' = IF db[date][key] = Missing THEN failed ELSE failed \cup {<< date, key >>}
  /\ UNCHANGED << today, db, date, key, published, resets >>

(* getFloat fails, for want of the key or of an answer: the sum starts from *)
(* nothing, without this reading.                                           *)
GetFails ==
  /\ pc = "get"
  /\ value' = 0
  /\ pc' = "set"
  /\ failed' = IF db[date][key] = Missing THEN failed ELSE failed \cup {<< date, key >>}
  /\ UNCHANGED << today, db, date, key, published, resets >>

(* After a key the next, and after Count the latest readings.               *)
NextKey ==
  IF key = Count
    THEN pc' = "publish" /\ UNCHANGED key
    ELSE pc' = "get" /\ key' = key + 1

(* Fault: the write asks the clock for the date once more.                  *)
SetSucceeds_DateNow ==
  /\ pc = "set"
  /\ db' = [db EXCEPT ![today][key] = value]
  /\ NextKey
  /\ UNCHANGED << today, date, value, published, failed, resets >>

(* setFloat reaches the database, whether or not its answer comes back.     *)
SetSucceeds ==
  /\ pc = "set"
  /\ db' = [db EXCEPT ![date][key] = value]
  /\ NextKey
  /\ UNCHANGED << today, date, value, published, failed, resets >>

SetFails ==
  /\ pc = "set"
  /\ failed' = failed \cup {<< date, key >>}
  /\ NextKey
  /\ UNCHANGED << today, db, date, value, published, resets >>

(* The passes shown have the bound of the readings in a sum.                *)
ShownMore(d) ==
  /\ published[d] < MaxPasses
  /\ published' = [published EXCEPT ![d] = @ + 1]

(* Fault: the latest readings go to the date the clock shows now.           *)
Publish_NextDay(some) ==
  /\ pc = "publish"
  /\ pc' = "idle"
  /\ IF some THEN ShownMore(today) ELSE UNCHANGED published
  /\ UNCHANGED << today, db, date, key, value, failed, resets >>

(* The readings themselves, under the date of the pass; some or none of the *)
(* writes succeed.                                                          *)
Publish(some) ==
  /\ pc = "publish"
  /\ pc' = "idle"
  /\ IF some THEN ShownMore(date) ELSE UNCHANGED published
  /\ UNCHANGED << today, db, date, key, value, failed, resets >>

(* The station restarts in the middle of a pass: setup() brings it back to  *)
(* loop() with nothing but the clock.                                       *)
Reset ==
  /\ pc # "idle"
  /\ resets[date] < MaxResets
  /\ pc' = "idle"
  /\ resets' = [resets EXCEPT ![date] = @ + 1]
  /\ UNCHANGED << today, db, date, key, value, published, failed >>

DayNext ==
  \/ Midnight \/ Start \/ Reset
  \/ GetSucceeds \/ GetFails \/ SetSucceeds \/ SetFails
  \/ \E some \in BOOLEAN : Publish(some)

DaySpec == DayInit /\ [][DayNext]_dayVars

----------------------------------------------------------------------------
(* The pass under way has written sum k of day d but not yet its Count.     *)
Ahead(d, k) ==
  IF /\ pc \in {"get", "set"}
     /\ date = d
     /\ key > k
    THEN 1 ELSE 0

(* loop() 238-359: unless a request for the sum or for Count failed, every  *)
(* reset puts a sum at most one reading ahead of the count it is divided    *)
(* by, a pass under way exactly one more, and no sum is ever behind;        *)
(* midnight between a read and its write moves no reading to another day.   *)
DayConsistent ==
  \A d \in Days, k \in 1 .. NSums :
    ({<< d, k >>, << d, Count >>} \cap failed = {})
      => db[d][k] - db[d][Count] - Ahead(d, k) \in 0 .. resets[d]

(* loop() 346-432: the count of a day is behind the passes that have shown  *)
(* readings of that day by one at most: by the first, which finds no Count  *)
(* and writes 0, so that until the second there is nothing to divide by.    *)
(* That is so over midnight too, and over resets, unless a request for the  *)
(* count failed.                                                            *)
PublishedIsCounted ==
  \A d \in Days :
    (<< d, Count >> \notin failed) => published[d] <= db[d][Count] + 1

(* loop() 238-359: what a pass writes is one reading more than what stands  *)
(* at that place when the write arrives (from Missing, the 0 a sum starts   *)
(* with), although it was read before, perhaps on the day before: no        *)
(* readings come over from another day and none are written over, unless a  *)
(* request for that key failed.                                             *)
WritesAddOne ==
  [][\A d \in Days, k \in Keys :
        (db'[d][k] # db[d][k] /\ << d, k >> \notin failed)
          => db'[d][k] = db[d][k] + 1]_dayVars
=============================================================================
