---------------------------- MODULE SimpleTimer ----------------------------
(***************************************************************************)
(* The SimpleTimer library (libraries/SimpleTimer): a fixed table of       *)
(* MAX_TIMERS slots polled by run() from the sketch's loop().              *)
(*                                                                         *)
(* run() works in two passes.  The first pass decides, for all slots at    *)
(* once, which callbacks are to be called (toBeCalled); the second pass    *)
(* calls them in slot order.  A callback may call every operation of the   *)
(* library, so the table can change between the decision and the call.     *)
(*                                                                         *)
(* A definition whose comment starts with "Fault" is a mistaken variant of *)
(* the one that follows it.  Nothing uses it; put in the place of the      *)
(* original, it makes one of the properties fail.                          *)
(***************************************************************************)
EXTENDS Integers, FiniteSets

CONSTANTS
  MaxTimers,        (* MAX_TIMERS, the number of slots                       *)
  Callbacks,        (* the callback functions a sketch registers             *)
  NoCallback,       (* the null callback: the slot is free                   *)
  Wrap,             (* millis() counts modulo Wrap (2^32 on the board)       *)
  Delays,           (* the delays given to setTimer, in milliseconds         *)
  RunCounts,        (* the n given to setTimer; 0 is RUN_FOREVER             *)
  DeletesItself     (* may a callback that runs for the last time delete its
                       own timer with deleteTimer?                           *)

RUN_FOREVER == 0

ASSUME TimerAssumption ==
  /\ MaxTimers \in Nat \ {0}
  /\ NoCallback \notin Callbacks
  /\ Wrap \in Nat \ {0, 1}
  /\ Delays \subseteq 1 .. (Wrap - 1)
  /\ RunCounts \subseteq Nat
  /\ DeletesItself \in BOOLEAN

Slots == 0 .. (MaxTimers - 1)

VARIABLES
  now,              (* millis()                                              *)
  callbacks, delays, maxNumRuns, numRuns, enabled, prevMillis, toBeCalled,
  numTimers,
  phase,            (* "loop": outside run(); "scan": in the second pass, the
                       switch of slot "at" not yet taken; "RUNONLY" and
                       "RUNANDDEL": inside the callback of slot "at", the
                       name being the case label that called it              *)
  at,               (* the index i of the second pass                        *)
  event,            (* history: the last call made or received, <<name, slot>>*)
  age               (* history: true time since prevMillis, which does not wrap*)

table == << callbacks, delays, maxNumRuns, numRuns, enabled, numTimers >>
vars  == << now, callbacks, delays, maxNumRuns, numRuns, enabled, prevMillis,
            toBeCalled, numTimers, phase, at, event, age >>

NoEvent == << "none", -1 >>

Used == { i \in Slots : callbacks[i] # NoCallback }

----------------------------------------------------------------------------
(* The constructor. *)

Init ==
  /\ now = 0
  /\ callbacks  = [i \in Slots |-> NoCallback]
  /\ delays     = [i \in Slots |-> 0]
  /\ maxNumRuns = [i \in Slots |-> 0]
  /\ numRuns    = [i \in Slots |-> 0]
  /\ enabled    = [i \in Slots |-> FALSE]
  /\ prevMillis = [i \in Slots |-> now]
  /\ toBeCalled = [i \in Slots |-> "DONTRUN"]
  /\ numTimers = 0
  /\ phase = "loop"
  /\ at = 0
  /\ event = NoEvent
  /\ age = [i \in Slots |-> 0]

----------------------------------------------------------------------------
(* run(), first pass: one decision for every slot, on one reading of the   *)
(* clock.  A due period is consumed whether or not the timer is enabled,   *)
(* and only one per call of run(): missed periods are caught up later.     *)

Elapsed(i) == (now - prevMillis[i]) % Wrap

(* Fault: the usual overflow mistake, comparing two times instead of a      *)
(* difference with the delay.                                               *)
Due_ComparesTimes(i) ==
  callbacks[i] # NoCallback /\ now >= (prevMillis[i] + delays[i]) % Wrap

Due(i) == callbacks[i] # NoCallback /\ Elapsed(i) >= delays[i]

(* Fault: RUN_FOREVER compared as if it were a number of runs.              *)
Fires_CountsForever(i) == Due(i) /\ enabled[i] /\ numRuns[i] < maxNumRuns[i]

Fires(i) ==
  /\ Due(i)
  /\ enabled[i]
  /\ maxNumRuns[i] = RUN_FOREVER \/ numRuns[i] < maxNumRuns[i]

(* Fault: one run too late. *)
LastRun_OffByOne(i) == maxNumRuns[i] # RUN_FOREVER /\ numRuns[i] + 1 > maxNumRuns[i]

LastRun(i) == maxNumRuns[i] # RUN_FOREVER /\ numRuns[i] + 1 >= maxNumRuns[i]

RunStart ==
  /\ phase = "loop"
  /\ prevMillis' = [i \in Slots |->
       IF Due(i) THEN (prevMillis[i] + delays[i]) % Wrap ELSE prevMillis[i]]
  /\ numRuns' = [i \in Slots |->
       IF Fires(i) /\ maxNumRuns[i] # RUN_FOREVER
         THEN numRuns[i] + 1 ELSE numRuns[i]]
  /\ toBeCalled' = [i \in Slots |->
       IF ~Fires(i) THEN "DONTRUN"
       ELSE IF LastRun(i) THEN "RUNANDDEL" ELSE "RUNONLY"]
  /\ phase' = "scan"
  /\ at' = 0
  /\ event' = NoEvent
  /\ age' = [i \in Slots |-> IF Due(i) THEN age[i] - delays[i] ELSE age[i]]
  /\ UNCHANGED << now, callbacks, delays, maxNumRuns, enabled, numTimers >>

(* Fault: the loop bound <= instead of <. *)
NextSlot_OffByOne ==
  IF at + 1 <= MaxTimers
    THEN at' = at + 1 /\ phase' = "scan"
    ELSE at' = 0 /\ phase' = "loop"

(* The end of one iteration of the second pass, and of run() after the last *)
NextSlot ==
  IF at + 1 < MaxTimers
    THEN at' = at + 1 /\ phase' = "scan"
    ELSE at' = 0 /\ phase' = "loop"

(* run(), second pass: case DEFCALL_DONTRUN. *)
Skip ==
  /\ phase = "scan"
  /\ toBeCalled[at] = "DONTRUN"
  /\ NextSlot
  /\ event' = NoEvent
  /\ UNCHANGED << now, table, prevMillis, toBeCalled, age >>

(* run(), second pass: the callback is entered. *)
Invoke ==
  /\ phase = "scan"
  /\ toBeCalled[at] # "DONTRUN"
  /\ phase' = toBeCalled[at]
  /\ event' = << "call", at >>
  /\ UNCHANGED << now, table, prevMillis, toBeCalled, at, age >>

(* Fault: the pending call is not withdrawn. *)
Free_KeepsCall(i) ==
  /\ callbacks'  = [callbacks  EXCEPT ![i] = NoCallback]
  /\ enabled'    = [enabled    EXCEPT ![i] = FALSE]
  /\ delays'     = [delays     EXCEPT ![i] = 0]
  /\ numRuns'    = [numRuns    EXCEPT ![i] = 0]
  /\ numTimers'  = numTimers - 1
  /\ age'        = [age        EXCEPT ![i] = 0]
  /\ UNCHANGED << now, maxNumRuns, prevMillis, toBeCalled >>

(* Fault: the run counter is left to the next user of the slot. *)
Free_KeepsRuns(i) ==
  /\ callbacks'  = [callbacks  EXCEPT ![i] = NoCallback]
  /\ enabled'    = [enabled    EXCEPT ![i] = FALSE]
  /\ toBeCalled' = [toBeCalled EXCEPT ![i] = "DONTRUN"]
  /\ delays'     = [delays     EXCEPT ![i] = 0]
  /\ numTimers'  = numTimers - 1
  /\ age'        = [age        EXCEPT ![i] = 0]
  /\ UNCHANGED << now, maxNumRuns, numRuns, prevMillis >>

(* The state deleteTimer leaves when slot i is in use. *)
Free(i) ==
  /\ callbacks'  = [callbacks  EXCEPT ![i] = NoCallback]
  /\ enabled'    = [enabled    EXCEPT ![i] = FALSE]
  /\ toBeCalled' = [toBeCalled EXCEPT ![i] = "DONTRUN"]
  /\ delays'     = [delays     EXCEPT ![i] = 0]
  /\ numRuns'    = [numRuns    EXCEPT ![i] = 0]
  /\ numTimers'  = numTimers - 1
  /\ age'        = [age        EXCEPT ![i] = 0]
  /\ UNCHANGED << now, maxNumRuns, prevMillis >>

(* Fault: an empty slot is deleted, and counted, again. *)
Delete_Twice(i) ==
  IF numTimers # 0
    THEN Free(i)
    ELSE UNCHANGED << now, table, prevMillis, toBeCalled, age >>

(* The body of deleteTimer(i), 0 <= i < MAX_TIMERS. *)
Delete(i) ==
  IF numTimers # 0 /\ callbacks[i] # NoCallback
    THEN Free(i)
    ELSE UNCHANGED << now, table, prevMillis, toBeCalled, age >>

(* The callback returns; in case DEFCALL_RUNANDDEL the slot is deleted. *)
Return ==
  /\ \/ /\ phase = "RUNONLY"
        /\ UNCHANGED << now, table, prevMillis, toBeCalled, age >>
     \/ /\ phase = "RUNANDDEL"
        /\ Delete(at)
  /\ NextSlot
  /\ event' = << "return", at >>

----------------------------------------------------------------------------
(* The operations, called from loop() or from inside a callback.  A slot    *)
(* number at or above MAX_TIMERS is ignored by the library.  A negative one *)
(* is not, though setTimer answers -1 when it refuses: it indexes in front  *)
(* of the arrays, which is undefined, and the operations below require that *)
(* a sketch does not pass it.                                               *)

InClientCode == phase \in {"loop", "RUNONLY", "RUNANDDEL"}

(* findFirstFreeSlot answers i; it answers -1 when there is no such i. *)
FirstFreeSlot(i) ==
  /\ numTimers < MaxTimers
  /\ i \in Slots \ Used
  /\ \A j \in Slots \ Used : i <= j

(* setTimer, and through it setInterval (n = RUN_FOREVER) and setTimeout    *)
(* (n = 1).  numRuns is not written: it is what the last user left.         *)
SetTimer(i, d, f, n) ==
  /\ InClientCode
  /\ FirstFreeSlot(i)
  /\ delays'     = [delays     EXCEPT ![i] = d]
  /\ callbacks'  = [callbacks  EXCEPT ![i] = f]
  /\ maxNumRuns' = [maxNumRuns EXCEPT ![i] = n]
  /\ enabled'    = [enabled    EXCEPT ![i] = TRUE]
  /\ prevMillis' = [prevMillis EXCEPT ![i] = now]
  /\ age'        = [age        EXCEPT ![i] = 0]
  /\ event'      = << "setTimer", i >>
  /\ numTimers' = numTimers + 1
  /\ UNCHANGED << now, numRuns, toBeCalled, phase, at >>

(* setTimer when there is no free slot, or when f is NULL: the caller gets  *)
(* -1.                                                                      *)
SetTimerRefused ==
  /\ InClientCode
  /\ \/ /\ ~ \E i \in Slots : FirstFreeSlot(i)
        /\ event' = << "setTimer", -1 >>
     \/ event' = << "setNull", -1 >>
  /\ UNCHANGED << now, table, prevMillis, toBeCalled, phase, at, age >>

DeleteTimer(i) ==
  /\ InClientCode
  /\ phase = "RUNANDDEL" /\ i = at => DeletesItself
  /\ Delete(i)
  /\ event' = << "deleteTimer", i >>
  /\ UNCHANGED << phase, at >>

RestartTimer(i) ==
  /\ InClientCode
  /\ prevMillis' = [prevMillis EXCEPT ![i] = now]
  /\ age' = [age EXCEPT ![i] = 0]
  /\ event' = << "restartTimer", i >>
  /\ UNCHANGED << now, table, toBeCalled, phase, at >>

(* enable, disable and toggle: e is the new value of the flag. *)
SetEnabled(i, e) ==
  /\ InClientCode
  /\ enabled' = [enabled EXCEPT ![i] = e]
  /\ event' = << IF e THEN "enable" ELSE "disable", i >>
  /\ UNCHANGED << now, callbacks, delays, maxNumRuns, numRuns, numTimers,
                  prevMillis, toBeCalled, phase, at, age >>

Enable(i)  == SetEnabled(i, TRUE)
Disable(i) == SetEnabled(i, FALSE)
Toggle(i)  == SetEnabled(i, ~enabled[i])

(* A millisecond passes, anywhere.  Bound: run() is called often enough for *)
(* no slot to fall a whole turn of the clock behind (49 days on the board). *)
Tick ==
  /\ \A i \in Used : age[i] < Wrap - 1
  /\ now' = (now + 1) % Wrap
  /\ age' = [i \in Slots |-> IF i \in Used THEN age[i] + 1 ELSE age[i]]
  /\ event' = NoEvent
  /\ UNCHANGED << table, prevMillis, toBeCalled, phase, at >>

Client ==
  \/ \E i \in Slots, d \in Delays, f \in Callbacks, n \in RunCounts :
       SetTimer(i, d, f, n)
  \/ SetTimerRefused
  \/ \E i \in Slots : \/ DeleteTimer(i) \/ RestartTimer(i)
                      \/ Enable(i) \/ Disable(i) \/ Toggle(i)

Next == RunStart \/ Skip \/ Invoke \/ Return \/ Client \/ Tick

Spec == Init /\ [][Next]_vars

(* loop() keeps calling run(), callbacks return and time passes; nothing is *)
(* assumed of the operations a sketch calls.                                *)
Fairness ==
  /\ WF_vars(RunStart) /\ WF_vars(Skip) /\ WF_vars(Invoke)
  /\ WF_vars(Return) /\ WF_vars(Tick)

FairSpec == Spec /\ Fairness

----------------------------------------------------------------------------
(* Type invariant: every array keeps its type, a flagged slot is only seen  *)
(* through its three deferred-call codes.                                   *)
TypeOK ==
  /\ now \in 0 .. (Wrap - 1)
  /\ callbacks \in [Slots -> Callbacks \cup {NoCallback}]
  /\ delays \in [Slots -> Nat]
  /\ maxNumRuns \in [Slots -> Nat]
  /\ numRuns \in [Slots -> Nat]
  /\ enabled \in [Slots -> BOOLEAN]
  /\ prevMillis \in [Slots -> 0 .. (Wrap - 1)]
  /\ toBeCalled \in [Slots -> {"DONTRUN", "RUNONLY", "RUNANDDEL"}]
  /\ numTimers \in Nat
  /\ phase \in {"loop", "scan", "RUNONLY", "RUNANDDEL"}
  /\ at \in Slots
  /\ age \in [Slots -> Int]

(* A slot whose callback is still to be called by the run() in progress. *)
Pending(i) ==
  /\ phase # "loop"
  /\ toBeCalled[i] # "DONTRUN"
  /\ i > at \/ (i = at /\ phase = "scan")

(* numTimers counts the slots in use, whatever sequence of creations,       *)
(* deletions and self-deletions led here: setTimer refuses a timer exactly  *)
(* when the table is full, and no slot leaks.                               *)
SlotCount == numTimers = Cardinality(Used)

(* The second pass never calls through an empty slot, although callbacks    *)
(* called before it may have deleted the timer it is about to call.         *)
NoNullCall == \A i \in Slots : Pending(i) => callbacks[i] # NoCallback

(* No timer is served before its time: in true time, the periods consumed   *)
(* since setTimer or restartTimer never exceed the time elapsed, also when  *)
(* millis() has wrapped to zero in between.                                 *)
NeverEarly == \A i \in Used : age[i] >= 0

(* A timer set with n runs gets n and no more, and the next user of its     *)
(* slot starts from zero.                                                   *)
RunBudget ==
  \A i \in Slots :
    /\ i \notin Used => numRuns[i] = 0
    /\ i \in Used /\ maxNumRuns[i] # RUN_FOREVER =>
         /\ numRuns[i] <= maxNumRuns[i]
         /\ numRuns[i] = maxNumRuns[i] =>
              \/ Pending(i) /\ toBeCalled[i] = "RUNANDDEL"
              \/ phase = "RUNANDDEL" /\ i = at

(* "call function f every d milliseconds": a setInterval timer stays until  *)
(* deleteTimer is called on it.                                             *)
IntervalTimersSurvive ==
  [][ \A i \in Slots :
        /\ callbacks[i] # NoCallback /\ maxNumRuns[i] = RUN_FOREVER
        /\ callbacks'[i] = NoCallback
        => event' = << "deleteTimer", i >> ]_vars

(* A timer as TimerPromise knows it: the calls it is still owed are those   *)
(* that run() has not counted and the one it has counted and not yet made.  *)
Entry(i) ==
  IF callbacks[i] = NoCallback THEN [fn |-> NoCallback, owed |-> 0]
  ELSE [fn |-> callbacks[i],
        owed |-> IF maxNumRuns[i] = RUN_FOREVER THEN -1
                 ELSE (maxNumRuns[i] - numRuns[i])
                        + (IF Pending(i) THEN 1 ELSE 0)]

Promise == INSTANCE TimerPromise WITH
  Forever <- -1, timers <- [i \in Slots |-> Entry(i)]

(* The promise of TimerPromise is kept: a timer is called as often as it is *)
(* owed, and disappears by deletion or after its last call only.            *)
PromiseKept == Promise!Spec

(* An enabled interval timer keeps being called until a sketch disables,    *)
(* restarts or deletes it, however its callbacks interleave with others.    *)
IntervalTimersServed ==
  \A i \in Slots :
    (enabled[i] /\ callbacks[i] # NoCallback /\ maxNumRuns[i] = RUN_FOREVER)
      ~> (\/ event = << "call", i >> \/ event = << "restartTimer", i >>
          \/ ~enabled[i] \/ callbacks[i] = NoCallback)
=============================================================================
