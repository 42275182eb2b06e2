# A TLA+ model of the ESP32-Projects sketches

The repository is a collection of independent Arduino sketches for ESP32 and
ESP8266 boards (`ESP8266_ESP32 Projects/`) and a copy of about a hundred
Arduino libraries (`libraries/`), nearly all of them third-party code. What is
worth verifying is the sketches' own control logic: each is a small embedded
program with a loop, some timers or callbacks, sensors, and often a server at
the other end of an unreliable network. Of the libraries three are modelled:
`SimpleTimer`, which schedules the most complex sketch, the packets of its
fingerprint sensor's driver, and the part of `ESPAsyncWebServer` that the robot
car shares with a second task.

Paths below are relative to `src/ESP8266_ESP32 Projects/` unless they begin
with `libraries/`.

## The system's parts

| Part | State it keeps | Operations | Talks to | What is hard | What makes it correct |
|---|---|---|---|---|---|
| `libraries/SimpleTimer` | a table of ten timers: callback, delay, runs, flag, last period, pending call | `run`, `setTimer`, `deleteTimer`, `restartTimer`, `enable`, `disable`, `toggle` | calls the sketch's callbacks, which call it back | the table changes between the decision to call and the call; `millis()` wraps | every timer gets the calls it is owed, none early; slots do not leak |
| `FingerprintBioAttendance` | mode, polling timers, the id being enrolled or deleted | `setup`, `loop`, `CheckMode`, `ChecktoAddID`, `ChecktoDeleteID`, `getFingerprintEnroll`, `confirmAdding`, `deleteFingerprint`, `SendFingerprintID` | the sensor and its flash, a PHP server, WiFi, SimpleTimer | three stores of the truth, lost requests and answers, resets anywhere | whoever is registered has a print, and keeps it; attendance is its owner's |
| `libraries/Adafruit_Fingerprint_Sensor_Library` | none between commands but the line's bytes | `GET_CMD_PACKET`, `writeStructuredPacket`, `getStructuredPacket` | the sensor, over a serial line | nothing empties the line or tells answers apart; a time-out leaves an answer to come, and the rest of one may look like the start of another | the answer a command gets is one answer, whole, and no older than failures explain |
| its clock | the time read for the display | the last branch of `loop` | NTPClient | three readings of a running clock | the display tells the time |
| `Car_Cam` | id of the camera's viewer, motors, light | two web-socket handlers, `sendCameraPicture`, `moveCar`, `loop` | the socket's task, browsers | two tasks on two cores share the viewer's id and the client list | pictures go to somebody who is there; the car does not drive for somebody who is not |
| `libraries/ESPAsyncWebServer` | client list, connection states, queues | handlers of the TCP task, `cleanupClients`, `client`, `_queueMessage` | AsyncTCP | a client object is freed on one task while another holds a pointer to it | |
| `AirQMonitoring` | none that lasts: sums and counts of a day are in Firebase | `setup`, `loop` | Firebase, RTC, sensors | nine read-modify-writes over an unreliable link, midnight, resets | a sum and the count it is divided by tell of the same readings |
| `CarCrash` | hole and crash flags, a copy of `/count` | `setup`, `loop` | Firebase, accelerometer, three sonars | numbering in a remote counter, alarms that are set and cleared by two writes | no hole overwrites another; alarms end |
| `PatientFallDetection` | three triggers and their counts | `loop`, `SendTemps`, `mpu_read` | MPU6050, Blynk | triggers that run side by side and time out | an alarm is a fall, a fall an alarm |
| `pH_TDS_Turbidity` | a ring of samples and its copy, a reading buffer | `loop`, `getMedianNum` | ADC, Firebase | hand-written sorts; a median of a half-made copy | spikes do not reach what is published |
| `Waterflow_Reading` | pulse count, totals | interrupt `pulseCounter`, `loop` | flow sensor | the interrupt may come between any two lines | every pulse is counted once |
| `Smart_Plant_Watering` | the relay | `loop` | soil probe | the direction of a comparison | dry soil is watered |
| `WaterPumpAutomation` | flag `c`, relay | `loop` | two float switches | decisions made twice, seconds apart; the board resets itself | the pump starts when empty, stops when full |
| `StepperMotor` | notes asked for and gone | `loop` | serial line, stepper, two infrared sensors | a wait that reads one of the two pins it tests | the number of notes that was asked for |
| `DigiBin` | none | `loop`, `sens_loop`, `PostToFirebase` | sonar, GSM modem, Firebase | 16-bit arithmetic, a connection that drops | the level is right |
| `KY-038 Sound Analyze Frq dB` | sample buffers | `loop` | microphone | a search for extremes in one pass | the level is right |
| `RC_CameraDolly`, `AS601FingerDelete`, `ESP32_WiFi_Connect_no_HardCoding`, `InternetTimeDate`, `Json_Response_URL`, `HomeAutoRelay`, `NodeMCU_RFID`, `GPS_NEO6M`, `Bluetooth_DHT22`, `Dot_Matrix`, `MLX90614_demo`, `MPU6050`, `PMS5003`, `SW-10180P_Vibration` | little or none | read a sensor and print, or one assignment per command | | | |

`PROJECT.json` lists them all under `components`, with the reason where one is
not modelled, and under `hazards` what can go wrong at which line. The sketches
do not interact with each other. Inside one, `SimpleTimer` calls the
terminal's three callbacks (the liveness of `BioAttendance` assumes of it what
`SimpleTimer`'s run `timer` checks, and its sensor steps assume the answers that
`FingerprintLink` shows to come as long as no command has failed), and `CameraStream` and `CarInput`
both extend `AsyncWebSocket`.

## Conventions

One action stands for one operation as the rest of the system sees it: what
other tasks, interrupts, peers or resets can come between is a step of its own.
The exception are the two tasks of the car: a call of the socket library
(`client()`, `_queueMessage`, `close`) is one step, although no lock keeps the
other task out of it; what two calls that overlap make of the nodes of a list is
undefined and left out. `cleanupClients` is two steps, the count and the close.
A request over the network is one step with its outcomes (not processed;
processed and the answer lost; processed and answered) when the sketch does one
thing with it, and several steps when reads and writes are separate requests.
A reset may come before any step unless the module says otherwise. Variables
marked *history* are never read by a guard; they let a property speak of the
past. A definition whose comment begins with *Fault* is a mistaken variant of
the definition below it. No specification uses it; each shows that a property
would notice that mistake.

Where the code's behaviour is undefined the model allows what the build can
do. `ChecktoAddID` and others return no value from a non-void function, which
ends in a reset; `sendCameraPicture` uses a pointer to a client that the other
task may have freed, which gives any answer or a reset; `cleanupClients` takes
the front of a list that may have become empty, which is a reset; the overflow of a sum
of ints in `CarCrash` either wraps or does not.

## Modules

**SimpleTimer** (`libraries/SimpleTimer/SimpleTimer.cpp`). `run()` is split
where a callback can run: `RunStart` decides for every slot (lines 49-92),
`Skip` and `Invoke` walk the second pass, and between `Invoke` and `Return` the
callback may use every operation of the class. `Tick` is the clock, modulo
`Wrap`. `age` (history) is the true time since a timer's last period.
**TimerPromise** says in a page what the class promises: a timer is called as
often as it is owed and leaves only by deletion or after its last call. `Entry`
maps a slot to it: what a timer is owed are the calls not counted yet and the
one counted and not yet made. Slot numbers are 0 to `MAX_TIMERS` - 1: the library
ignores larger ones, and a negative one is undefined and left to the sketch to
avoid.

**BioAttendance** (`FingerprintBioAttendance/BioAttendance.ino`). The terminal,
the sensor's flash and buffer, the finger on the glass and the server's tables.
`pc` is where the one thread is; the enrolment takes five steps because people,
the network and the power may intervene in each. The server's side is external,
modelled from the requests and the answers the sketch reads. **EnrolmentLedger**
is the life of one id: free, requested, stored, registered, leaving, orphan;
`Stage` reads it off the server's tables, the sensor's flash and the deletion in
progress.

**FingerprintLink** (`libraries/Adafruit_Fingerprint_Sensor_Library/Adafruit_Fingerprint.cpp`).
`Ask` writes a command; `ReadByte` is one pass of the loop in
`getStructuredPacket` with a byte to read, `TimeOut` the pass in which the
second is over. Answers are their real bytes, checksum included, since whether
a start code can turn up inside one is the question; `Answer`, the sensor, is
external. A command may be lost, a byte may be dropped, the board may be reset
at any byte, and what is then still on its way arrives later. **AnswerQueue**
is what is left of this for the sketch: the answers wait in a queue, a command
takes the first one or fails, and nothing says whose answer it is.

What it means for `BioAttendance`: every one of that module's sensor steps gets
the answer to its own command, or an error; this is an assumption of all its
properties. `SlipBounded` says when that is right: as long as no command
has failed since the sensor was powered up (a reset of the board does not empty
the sensor's side). After a time-out answers may be off by one, and the OK of a
`storeModel` may be another command's.

**AsyncWebSocket**, **CameraStream**, **CarInput** (`Car_Cam/car_cam.ino` and
`libraries/ESPAsyncWebServer-master/src/AsyncWebSocket.cpp`). The first is the
client list with its connection states and the one-message queue; the other two
are the sockets `/Camera` and `/CarInput`, each its own server socket.
`sendCameraPicture` is split at each reading of `cameraClientId` and each look-up
of the client, and `cleanupClients` between the count and the close, since the
handlers run on the other core. `asked` holds the clients that have been sent a
close frame; `close()` leaves a client CONNECTED, so that it may be sent several,
which makes no difference to it. `_onData`, which goes on with a packet after its
second close frame has deleted the client, is cut off there.

**DailyStats** (`AirQMonitoring/backup.ino`). `GetSucceeds`, `GetFails`,
`SetSucceeds` and `SetFails` are the two requests of a key, for the eight sums
and then the count in the order of the code. A sum is how many readings it
holds; a missing key is -1, so that the code's *"not there: write 0"* is one
more, like every other pass.

**RoadHoles** (`CarCrash/CarCrash.ino`). `Steps` is the order of the requests;
each may be lost. Accelerations are in units of 1024, squares in units of 2^20,
and an int holds 2047 of these. `lost` and `stuck` record the failures that the
properties excuse.

**FallDetection** (`PatientFallDetection/FallDetection.ino`). `Pass` is one
pass of `loop`; the operators before it are its blocks in order. A reading is the two
numbers that are compared, `Amp` in tenths of g and `angleChange` in degrees per
second.

**WaterQuality** (`pH_TDS_Turbidity/WaterQuality.ino`). `getMedianNum` and the
pH sort are recursive functions over the rounds of their loops and the
comparisons of a round, in the code's order; the ring, the copy in steps and the
publishing are actions.

## What the runs check

| Run | Properties | Instance, and why it is enough |
|---|---|---|
| `timer` | `SlotCount`, `NoNullCall`, `NeverEarly`, `RunBudget`, `PromiseKept`, `IntervalTimersServed` | two slots, a clock of three values, a delay of one, so that `run()` can be two periods late and catch up, one, two or endless runs: every pair of slots in every phase, with wraps, and a fair clock. Callbacks do not delete their own timer in its last run (`DeletesItself`); the theorems cover the callbacks that do, and other sizes and delays |
| `timer_survive` | `IntervalTimersSurvive` (violated) | a last-run callback deletes its own timer and sets another |
| `terminal` | `ModeTimersCoupled`, `AttendanceIsQuiet`, `RegisteredHasTemplate`, `OrphansAccounted`, `RegisteredTemplateStable`, `ToggledByOwner`, `LedgerKept` | two ids and two fingers: an id beside the one in progress, and a stranger's finger. Fingers are symmetric: no property is of liveness |
| `terminal_live` | `ModeFollowed`, `RequestsServed` | one id, one finger, from every state in which a reset can leave sensor and server (`Restarted`), without further resets and without the loss of a connection once it is up |
| `link` | `SlipBounded`, `QueueKept`, `CommandReturns` | three commands (one before and one after the one that fails), one of them lost, one byte dropped, one reset; codes 0 and 2; fields all zero, or location 3 with confidence 239, whose answer contains a start code; a buffer of 28 bytes in place of 64, large enough for every answer, as 64 is, and small enough for a false length to fill it. Commands are bounded, so the system may stop; the proof has no bounds |
| `camera` | `NoGhostViewer`, `NoPictureDropped`, `LoopReturns`, `ViewerServed`, `ViewersLimited` | four viewers in a life of the board, of which one is permitted: two can queue up while another closes, or leave between the count and the close |
| `camera_wait` | `WaitDelivers` (violated) | two viewers |
| `car` | `DrivesForPresentDriver`, `DriverlessIsSafe` | four drivers, two of them permitted |
| `daily_stats` | `DayConsistent`, `PublishedIsCounted`, `WritesAddOne` | two sums and a count, two days, one reset in a pass per day, any request lost |
| `alarms` | `AlarmIsFall`, `FallIsNoticed`, `HolesKept`, `AlarmsEnd` | the fall detector or the car monitor, which share nothing. The first with a window of three passes, a hold of three: events at the first, middle and last pass, a second turn while `trigger3` counts; the memory is as long as the longest fall, and runs have no end. The second with three holes: overwriting needs two; axes at rest, above the threshold, and where the sum of squares overflows |
| `fall_threshold` | `AlarmNeedsImpact` (violated) | readings of a weightless body, of one at rest, and of an impact of 3 g |
| `water` | `SpikesTrimmed`, `MedianOfRecent` | the ring of three with three values; four pH readings, one trimmed on either side, of two values: a network of comparisons that sorts these sorts every input of that length; the code has ten, two trimmed |

Type invariants are checked in the same runs; those of `CarInput` and
`DailyStats` are part of their proofs' invariants, and `WaterQuality` has none. Bounds that the code does
not have are constants or guards marked *bound*: ids of web-socket clients
(`MaxId`), readings and resets (`MaxPasses`, `MaxResets`), holes (`MaxHoles`),
commands and what happens to them on the line (`MaxCommands`, `MaxLost`,
`MaxDropped`).

### What the violated runs show

- `timer_survive`: `SimpleTimer.cpp:105` deletes a slot by number after the
  callback returns; if the callback freed the slot and a new timer took it, the
  new timer goes. No sketch of the repository does this; the header promises it.
- `camera_wait`: `car_cam.ino:438` looks up whoever is the viewer now, so a
  second viewer ends the wait for the first one's picture, against the comment
  *"Wait for message to be delivered"*.
- `fall_threshold`: `FallDetection.ino:92` says *"upper threshold (3g)"* and tests
  `Amp >= 10`, where `Amp` is ten times the acceleration in g: a body at rest
  passes. The comments on the other limits (0.4 g at line 86, 80-100 degrees at
  101, 0-10 degrees at 115, 0.5 s at 138 and 142) are not the limits of the code
  either: 0.2 g, 30 to 400 and up to 20 degrees per second, and twenty passes of
  90 ms and more. `AlarmIsFall` and `FallIsNoticed` are about the code's limits.

### What was met on the way and is not a run

- `Adafruit_Fingerprint.cpp:606-611` reads a packet's checksum as data and never
  compares it: after a lost byte an answer may be returned with its fields
  shifted. `AnswerQueue` promises nothing from then on.
- `CarCrash.ino:157` adds three squares of 16-bit numbers in an int; the hardest
  crash overflows it, and `RoadHoles` lets such a reading count or not.
- `AirQMonitoring/backup.ino:357`: the first pass of a day writes a count of 0, so
  that whoever divides by it before the second pass divides by zero;
  `PublishedIsCounted` allows that one pass.
- `SimpleTimer.cpp:169` and the other operations check a slot number from above
  only: the -1 of a refused `setTimer` would index in front of the arrays.
- `waterflow.ino:46-47` reads the pulse count and then zeroes it with interrupts
  on: a pulse between the two lines is in no total.
- `BioAttendance.ino:616-664` asks a running clock for hours, minutes and
  seconds one after the other, and shows noon as 12 AM and midnight as 00 AM.
- `Smart_agriculture.ino:61` starts the motor, by the sketch's own formula for
  moisture, when the soil is wet.

## Fairness

`SimpleTimer`: `loop()` calls `run()` again and again, callbacks return, time
passes. `FingerprintLink`: the driver runs and milliseconds pass, so that it
reads a byte or counts down to its time-out; nothing is assumed of the sensor.
`BioAttendance`: the thread runs, and what is retried for ever (a
connection, a request, an image, a store) succeeds when tried again and again:
strong fairness, because each attempt is preceded by a state in which it is not
enabled. People put fingers on the sensor and lift them again.
`ModeFollowed` and `RequestsServed` are about the time after the last
reset and the last loss of a connection: `SteadySpec` starts in every state that
a reset can leave behind, and takes all other steps, mode changes included;
`ModeFollowed` asks for the timers to settle once the mode is left alone.
`CameraStream`: FreeRTOS schedules both tasks, TCP acknowledges or times out
(AsyncTCP's acknowledgement time-out), and a camera asked again and again gives
a frame. That a peer answers a close frame, or goes, is what the web-socket
protocol (RFC 6455) asks of it and browsers do; it is an assumption about the
peer, which `ViewersLimited` needs: `close()` leaves the client CONNECTED, and the
library has no timer for a peer that ignores the frame. The other modules have
safety properties only and assume nothing.

## Proofs

Eight `_proofs` modules hold theorems, for every value of the constants:

- `SimpleTimer_proofs`: `SlotCount` is inductive with the types (a deletion
  must find a used slot, so that the count stays a cardinality). `NoNullCall`
  and `RunBudget` follow from it step by step. `NeverEarly` needs `AgeInv`: as
  long as less than one wrap has passed, the difference that `run()` computes
  modulo `Wrap` is the true age. `PromiseKept`, the refinement of
  `TimerPromise`, is proved where `DeletesItself` is FALSE (where it is TRUE
  the run `timer_survive` refutes it): besides the invariants above it needs
  `LastCall`, that a last call, from the decision to the return, belongs to a
  timer that has used up its runs. That a refused `setTimer` found the table
  full is counting: a free slot would make `numTimers` smaller than the table,
  and among free slots there is a first.
- `BioAttendance_proofs`: types; `ModeTimersCoupled` with the fact that a
  terminal that has not finished setup has had no answer; `AttendanceIsQuiet`
  with what is still marked to be called; `RegisteredHasTemplate` with two
  strengthenings: no id is in two of the server's tables and the one being
  enrolled is still requested (`TableInv`), and what the steps of an enrolment
  and a deletion know (`StoreInv`). `RegisteredTemplateStable` and
  `OrphansAccounted` follow. `ToggledByOwner` needs `ScanInv`: between the
  search and the request the sensor's flash does not change. `LedgerKept`, the
  refinement of `EnrolmentLedger`, shows of each action what it does to the
  `Stage` of each id, and that no action moves two of them.
- `AnswerQueue_proofs`: `SlipBounded` of the queue. An answer that is due has
  behind its back commands that ended without taking it; each failed, or took
  one in front of it. Ended commands and the answers in front are together no
  more than the failures (`QueueBounded`).
- `FingerprintLink_proofs`: `TypeOK` (no announced length leads past the
  buffer), `QueueKept` (the refinement of `AnswerQueue`) and `SlipBounded`,
  which the refinement carries over. The invariant says of the packet being
  read that it began where an answer begins and is that answer so far
  (`Aligned`), or began elsewhere and has a byte in the place of its type that
  is not accepted (`Astray`); from `AnswerShape`, what is known of an answer's
  bytes, each byte read keeps one of the two. It needs answers of at most four
  bytes of fields and codes other than 239, the start code's first byte; the
  driver's error codes are far from it.
- `CameraStream_proofs` (types, `NoGhostViewer`, `NoPictureDropped`: the id that
  `sendCameraPicture` holds, its pointer and its queue, place by place) and
  `CarInput_proofs` (types, `DrivesForPresentDriver`, `DriverlessIsSafe`). Each
  begins with the facts about the socket operations that it needs.
- `Alarms_proofs`, the fall detector. The properties speak of the readings of a
  whole fall, the sketch has three triggers and three counts. *No false alarm*
  (`AlarmIsFall`) is inductive with `Remembers1` to `Remembers3`: a trigger that
  is on has behind it the readings that turned it on, exactly as many passes
  back as its count says. *No missed alarm* (`FallIsNoticed`) is inductive with
  the converse: a fall that has come as far as the impact, the turn or the wait
  has that trigger on, with that count (`Falling`, `Struck`, `Turning`). Both
  need the types, which say that the first two triggers are never on together.
  The log is only long enough to be right if it holds the longest fall:
  `RememberedAssumption` says so.
- `Alarms_proofs`, the car monitor. `AlarmsEnd`: an alarm that is up has had its
  clearing lost, or the clearing is the request that comes next (`RaisedInv`).
  `HolesKept`: as long as no number was lost, `/count` is the last number given
  and no place above it is written, and the part of a place that is being
  written is empty (`NumberInv`).
- `Stations_proofs`, the water station. Both sorts are shown to sort, for every
  length: a round of neighbours leaves the largest of its values at its end
  (`Bubbled`), a round of one place against those after it the smallest there
  (`Exchanged`), and what is in order stays so. Every comparison moves values to
  other places one-to-one (`Rearranged`), so that the number of values below a
  sorted one follows from its place (`Crowded`, a pigeonhole). `MedianOfRecent`
  then needs where the last samples are in the ring (`RingInv`), what part of the
  copy is from them already (`CopyInv`), and that each value of the copy that is
  not moves the median by one rank at most (`MedianNear`). That the recursive
  functions have values, and that what every round keeps holds after the last,
  is induction over a set of numbers (`SetInduction`, from the least element of
  its complement).
- `Stations_proofs`, the air station: `DayConsistent`, `PublishedIsCounted` and
  `WritesAddOne`, with the types of the state, what `loop()` is about to write (`PendingInv`) and
  what a finished pass has written (`CountedInv`).

Of `SimpleTimer` also `IntervalTimersSurvive` is a theorem where `DeletesItself`
is FALSE: the run `timer_survive` has it TRUE, so the two together say which
callbacks a sketch must not write.

They rest on the assumptions named in the modules (`TimerAssumption`,
`BioAssumption`, `LinkAssumption`, `WindowAssumption`, `CountAssumption` and so
on), which TLC evaluates in the runs. `Alarms_proofs` and `Stations_proofs` each
extend two specifications, which is why those of `RoadHoles` and `DailyStats` have
names of their own (`RoadSpec`, `DaySpec`, `RoadTypeOK` and so on).

Every invariant and every property of steps that a run checks is proved, the
three refinements included (`WaitDelivers`, `AlarmNeedsImpact` and,
with such callbacks, `IntervalTimersSurvive` are violated). Only model-checked are the properties
of liveness: `IntervalTimersServed`, `ModeFollowed`, `RequestsServed`,
`CommandReturns`, `LoopReturns`, `ViewerServed`, and `ViewersLimited`, which
says that the limit holds again once no more come. They need fairness, which the prover cannot use.

## Plan

In the order of importance: `SimpleTimer` with `TimerPromise`, `BioAttendance`
with `EnrolmentLedger` and, below it, `FingerprintLink` with `AnswerQueue`, the
car's three modules, then the sketches that keep state in a database or count
time, `DailyStats`, `RoadHoles`, `FallDetection`, then the small ones. That much
is done. What could follow, the most useful first:

1. `BioAttendance` over `AnswerQueue` instead of a sensor that always answers the
   command it was given: which of its properties survive a failed command
   (`RegisteredHasTemplate` is in doubt, as the OK of another command may stand for
   `storeModel`'s).
2. The frame parser and the broadcast of `AsyncWebSocket`.
3. The small sketches: the flow meter (the interrupt against the reading and
   zeroing of the count, no pulse counted twice), the water pump (the switches
   read twice; tank filled and pump stopped, as liveness), the note dispenser
   (notes fed against notes asked for: the wait of `Stepper.ino:64` has no end if
   neither sensor sees a note, and the count uses the pin's value from before),
   the waste bin (reconnection; at line 157 a level, and at line 93 a pause, too
   large for the 16-bit types of the boards with its pins), the sound level
   (peak and trough against their definition: in a rising signal the trough is
   never looked for).

## What is not modelled

Wording, layout and logging; the formulas from volts to units; the web pages;
the HTTP server; sensors other than as a choice of readings; of the fingerprint
driver `getParameters`, the one command with sixteen bytes of answer, and the
parameters of commands, which only the sensor reads; the small sketches of
item 3 of the plan, whose loops stand alone; the sketches in the
last rows of the table, which keep no state, do not compile as they are
(`HomeAutoRelay`, `Json_Response_URL`) or consist of two calls of a library;
and the third-party libraries, except as the sketches use them.
