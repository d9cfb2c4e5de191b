# Verification of host-monitor

`host_monitor` runs on a Raspberry Pi beside a terminal: it reads a modem (SMS,
calls, GPS, LTE quality) and a scale, sends telemetry packets and events to two
HTTP endpoints, keeps what it cannot send in SQLite, and may reboot the host or
reset the modem when it is stuck. This directory holds TLA+ models of the parts
whose correctness depends on the order in which things happen, the TLC runs
that check them, and proofs about the outbox, the reboot watchdog and the GPS reader.

`PROJECT.json` is the index: which definition models which lines, what each run
checks, for each property a plausible bug that breaks it, the hazards of the
code and the properties that watch them.

    tlc -config TelemetryOutbox_safety.cfg TelemetryCadence    # one run
    tlapm TelemetryOutbox_proofs.tla                            # proofs of one module

## 1. Inventory of the system

All threads live in one process, started by systemd with `Restart=always`.

| Component | State | Operations | Talks to |
|---|---|---|---|
| Main loop (`main.py`) | weights, GPS and status of one iteration, movement and sending times | collect, decide whether a packet is due, put, notify, drain and submit events, observe the watchdog | all of the others |
| Telemetry outbox (`buffer.py` table `telemetry`, `workers.py` `TelemetryOutboxWorker`, `sender.py`) | rows with AUTOINCREMENT ids, an event, the announced id, a retry delay | put, notify, peek fresh first, post, delete acknowledged rows, back off | main loop (shared variables), server (HTTP), disk |
| Event delivery (`OutboundDispatcher`, table `events`, dead letters, `BufferFlusher`) | reader's queue, bounded queue, rows, dead letters | drain, submit, send, put and trim, flush, reject | modem reader (queue), server, disk; three SQLite connections |
| Recovery watchdog (`recovery_watchdog.py`) | two "since" times, a latch in memory, a latch file | observe, persist, load, reboot | weight sampler, acknowledgement times, systemd |
| Modem reader (`modem_events.py`) | SMS parts, pending call, SIM failure time, reset history, reboot flag | poll, assemble, delete, dispatch, RING/CLIP, confirm SIM failure, reset | serial port, main loop (queue), systemd |
| GPS reader (`gps_reader.py`) | stream parser's buffer, read window, last position, times of fix, source and speed | frame, parse, merge, publish, discard a backlog, invalidate, latest | serial port, main loop (a lock) |
| Weight sampler and reader (`WeightSampler`, `weight_reader.py`) | median window, smoothed weight, reseeding count, latest weight and its time | sample, filter, forget at an invalid value, reseed | ADC, main loop, watchdog |
| Wi-Fi clients (`wifi_clients.py`) | last list and its time | scan, expire | hostapd, neighbour table, main loop |
| PPP watchdog (`systemd/simcom-ppp-watchdog`) | stamp files of failures and resets | check link, restart pppd, power cycle USB | systemd, modem |
| Configuration, models, tools, diagnostics, installation, remote access | none that changes at run time | | |

What is hard, and what makes each component correct:

* **Outbox.** The commit, the announcement and the event are three steps of one
  thread against clear, read and query of another; replies are lost, late or
  partial; the process ends anywhere. Correct: nothing committed is lost, no
  wake-up is missed, a failure is retried, the backlog drains although fresh
  rows go first, a backlog makes no flood of requests.
* **Events.** Two send paths (direct and through the table), three connections,
  a two-step trim, rejections, a queue that fills up. Correct: every event is
  accounted for, no event is sent twice without a cause, the table is bounded, a
  rejected row does not block the others.
* **Watchdog.** Inputs read at different moments, times that restart, a latch
  that must survive the reboot it allows. Correct: at most one reboot per
  outage, one reboot for an outage that lasts, re-armed by a lasting recovery.
* **Modem reader.** Multipart messages over several polls, deletion from the SIM
  before an event is stored, rate-limited resets.
* **GPS.** A serial buffer in which data waits and looks recent when it arrives,
  fields merged from sentences of different moments, a reader with two locks, a
  stream of two protocols with noise in it. Correct: a valid position was measured
  recently, a speed expires by its own time, whole frames are found, and stale
  data is not discarded for ever.
* **Scheduler, weight, Wi-Fi.** Confirmation times sampled by iterations of varying
  length, a send decision with a tolerance, a filter with memory, answers that
  are stamped when they arrive. Correct: packets keep coming, a driven machine
  does not sleep and a standing one does, nothing in a packet is of an earlier
  time than it may be.
* **PPP watchdog.** A script killed half-way, with only its files to remember.

## 2. Modules and how they correspond to the code

The convention throughout: one action is what a thread does between two points
at which another thread, the server, the modem or a crash can come in. A
history variable records what happened for the sake of a property and guards
nothing. A definition introduced as a *mutant* is a plausible bug; no action
uses it.

**`TelemetryDelivery`** is the abstract promise: packets are numbered once, held
until the receiver has them, delivered at least once. **`TelemetryOutbox`**
implements it. `rows` and `lastId` are the SQLite table and its AUTOINCREMENT
sequence (durable); `wake`, `latestLive` the two variables shared by main loop
and worker; `pc`, `liveSeen`, `head`, `batch`, `acked`, `backoff` the worker's
locals. Main loop: `Put`, `NotifyLive`, `NotifyWake`. Worker: `TakeWake`,
`ReadLive`, `PeekEmpty`/`PeekBatch`/`PeekRaises`, then the exchange with the
server (`ServerTakes`, `ReplyArrives`, `RequestFails`), `DeleteAcked`,
`RetryDue`. `Crash` keeps the disk only. `TelemetryCadence` adds a counter that
says what each request is owed to; `MCTelemetryOutbox` adds a device that never
stops producing packets, and fairness.

**`EventDelivery`** is the abstract promise of the event path: an event is held until
the server has it or has refused it, unless it is knowingly dropped, and what is no
longer held never comes back. **`EventsPipeline`** implements it; held are the events in
memory and the rows of the table, dropped those a trim removed or that were in memory
that was lost. Its actions are the reader's queue and `drain`, `Submit`/`Overflow` of the main
loop, the dispatcher (`TakePending` to `DispatchBuffers`), the flusher
(`PeekRows` to `MoveToDeadLetter`), and the trim that follows each put as its two
transactions `CountRows`, `DeleteOldest` (or `TrimFails`), per writer.

**`RecoveryWatchdog`**: `PublishWeight` (sampler), `Acknowledge` (outbox worker),
`TakeSnapshot` and `Observe` (one iteration of the main loop: the weight is copied
early, its age read late), `RequestReboot`, the latch file with `RotFile`,
`Crash`, `Restart`.

**`ModemSimRecovery`**: the CPIN probe with each outcome (`OtherAnswer`,
`FailureSuppressed`, `ResetRejected`, `ResetDone`, `ResetUnanswered`), the port
(`OpenPort`, `PortVanishes`), the SIM's own changes.

**`SmsInbox`**: the SIM's storage (`unread`, `read`), a poll as its AT commands
(`List`/`ListRefused`/`ListRaises`, `DeleteProcessed`, `ClearStorage`, second
listing), the immediate clear `FullUrc`, the reading by index for +CMTI without polling
with what its two commands may do (`ReadByIndex`; `ReadFails` leaves the message on the
SIM; `DeleteRaises` is an AT+CMGD that raises after the modem has done it), and the
dispatch: event, reboot command, refused or ignored command. Its queued
events are `EventsPipeline`'s `Report`.

**`PppWatchdog`**: the script as one action per decision and one per external
effect (`StopLte` ... `StartHostMonitor`), since systemd may kill it between any
two (`Killed`); the operator, the link, the device and a host reboot around it. A
run reads the clock once (line 159) and stamps that reading when it is already old
(`Stamp`, line 111, after the checks of the hub); the capture, the stops and the cut
take time as well, so `Tick` may come before every step of a run, `runAge` being the age
of its reading, up to `RunLimit` (`TimeoutStartSec`). There the run ends at once or is killed.

**`GpsReader`** is the reader thread and the main loop's use of it. `uart` holds the
ages of unread sentences; the reader goes through `OpenSerial`, `DiscardBacklog` or
`BeginWindow`, `ReadSentence`, and at the end of the window `Publish` or
`DiscardStale`; `PortFails` is the `except` branch of `_run`. What a sentence says
is a record of its type and of what can be read from it (`Parsed`), so that fixes
without time, places without fix and unreadable qualities occur. A coordinate *is*
the age of its measurement: age_s can be compared with the truth. `latest()` is
two actions, one per lock (`TakePosition`, `BuildPacket`). **`GnssFraming`** is
`_GnssStreamParser`: every branch of `feed` is an action, the buffer is the part of
the stream that has come in and is not yet deleted. Reports of `GnssFraming` are
`GpsReader`'s sentences. **`GnssTime`** is the date that `_parse_nmea_utc_s` gives to a
sentence without one.

**`TelemetryCapture`** is the main loop as a scheduler, an iteration being `Capture`,
`Sleep`, `Wake` and as much time as its work takes. It extends the two threads it
reads: **`WeightFilter`** (`ReadInvalid`, `Reseed`, `Filter`, `ReadFails`: the paths of
`read_weight`) and **`WifiMonitor`** (`ScanAnswers`, `ScanFails`, and `WifiClients`, which
is `latest()`). A scan is one step at its end, so a stalled one is a scan that does
not come. The packet that `Capture` decides to send is `TelemetryOutbox`'s `Put`.

A module **`<name>_proofs`** holds the theorems about the module it names:
`TelemetryOutbox_proofs` those about `TelemetryCadence`, too, `GpsReader_proofs` those about
`GnssTime` and `GnssFraming`, `TelemetryCapture_proofs` those about `WeightFilter` and
`WifiMonitor`. Every component with a run has one.

### Time

No clock counts up. A moment is kept as its age, up to the first value that no
comparison of the code tells from a larger one, and `Tick` adds one to all ages;
so time goes on for ever in a finite state space. The outbox has no time: the
length of a backoff is kept, its end is `RetryDue`.

## 3. Runs

| Run | Module, cfg | Question | Bounds |
|---|---|---|---|
| `outbox_safety` | `TelemetryCadence`, `TelemetryOutbox_safety` | types, loss, wake-ups, retries, live label, flood, refinement of `TelemetryDelivery` | 4 packets, batches of 3, delay cap 3, credit remembered up to 2 |
| `outbox_drain` | `MCTelemetryOutbox`, `TelemetryOutbox_drain` | does the backlog drain under a flow of fresh rows | ids 1..4, the last standing for all later packets; batches of 2 |
| `outbox_poison` | same, `TelemetryOutbox_poison` | disagreement 1 | 3 packets, one refused |
| `watchdog` | `RecoveryWatchdog` | one reboot per outage, durable latch, a recent weight behind a request, both confirmations end | windows of 6/3/4 ticks, weight and acknowledgement fresh for 1 |
| `events` | `EventsPipeline` | refinement of `EventDelivery`, duplicates, dead letters, table bound, progress | 3 events, one rejected; dispatcher's queue and table of 1, flush and drain 2 |
| `simrec` | `ModemSimRecovery` | only explicit failure resets, cooldown and limit, persistence | confirm 2, cooldown 4, two resets in 9 |
| `simrec_loop` | same, `_loop` | disagreement 2 | same |
| `sms` | `SmsInbox` | parts accounted for, nothing twice, nothing in part, nothing waits for ever | a long message, a command, an undecodable one; a SIM for 2 |
| `ppp` | `PppWatchdog` | distance of power cuts, restored services, both recoveries go on | grace 2, modem grace 3, cooldowns 2 and 4, a run of at most 2 |
| `gps` | `GpsReader` | recent positions and speeds, recovery from faults | fix age 1, two sentences in the buffer, backlog limit 1 |
| `framing` | `GnssFraming` | frames found, buffer bounded, `feed` returns | streams of three items out of nine kinds, payload up to 2, lines up to 3 |
| `capture` | `TelemetryCapture` (cfg of the same name) | cadence, sleep, weight and Wi-Fi of now | intervals 1 and 3, idle after 3, confirm 1, work 1; readings 1 and 3, window 4, deadband 1; Wi-Fi age 1, command 1 |

Why the bounds are enough. Four packets are a row in flight, one that is
announced while it is, and a backlog of two behind a batch that takes only part
of it. Three events fill a dispatcher queue of one with one in hand and one that
overflows, so that both writers put and trim at once; the second is rejected,
with a neighbour on each side. The thresholds of the watchdogs are small but
different from each other, so that no two confirmations coincide, and each
window is long enough for a second and third occurrence within it. A SIM for two
messages of four parts is full in the middle of a long message. Two sentences in
the serial buffer exceed its limit of one, and an age of two is already stale; three
items of a stream are a frame with a neighbour on each side, or one behind two
kinds of noise, and "binary" has a dollar and a line end inside. With a median
window of four and two readings the deadband, a median of an even number and a
window that has dropped its oldest value all occur, and an idle interval of three
lets the tolerance of 5 % skip captures. The runs'
mutants are evidence that the cases happen: each property is broken by a
plausible bug within the very bounds of its run.

What must be said of the properties themselves:

* `ImplementsEventDelivery` has `NoSilentLoss` (every reported event is on the server, in a
  table, dropped, or in memory) as a consequence and says more: an event is given up by the
  step that settles it, and no settled one is taken up again. A dropped event may still be
  delivered or refused: the flusher has peeked its row before the trim.
* `SettledOnce` allows a second copy of an event when its answer was lost
  or the process ended before the delete; events carry no id, the code can do no
  better.
* `TableBounded` counts the puts whose trim a fault or a crash ended. Two writers
  can also trim *too much*: both count, both delete for the same surplus. That
  costs a row more than needed; `trimmed` records it and no text promises otherwise.
* `OneRebootPerOutage` takes "acknowledgements keep coming" as no gap above the
  healthy age by more than one iteration of the main loop.
* `OutageGetsItsReboot` promises the latch, not the reboot: a crash between
  `_persist_latch` and the request, or a systemctl that fails, leaves the latch
  without a reboot, which the code prefers to two reboots.
* `RebootWeightIsRecent`: "A stale or missing weight can never authorize reboot"
  (INCIDENT_2026-07-19_20.md:64). The main loop copies the weight at `main.py:197` and
  asks for its age at `main.py:266`, so a single observation may take an old value with
  a new sample's age; the confirmation of the off state makes the next one correct
  it. What is left, and is stated, is one iteration more than allowed.
* `ResetsAreLimited` speaks of resets after *recorded* ones; `ResetLimitKept` speaks of
  all and is violated. Both hold within one life of the process: the history is in
  memory.
* `NoPartVanishes` accounts for parts lost from memory by a crash and deleted by a
  clear; it says that there is no other way.
* `ValidPositionIsRecent` speaks of fixes that carry their time, with
  `validate_source_time`. Without a source time the arrival is all the code knows,
  and data from a buffer passes for new.
* `SpeedIsRecent` excepts a packet between whose two locks a speed was published:
  the second lock then reads a newer time than the speed under the first has.
* `FrameIsFound` excepts a frame that began within the length a torn UBX header
  announced: the parser takes it for payload, as it must.
* `PacketsKeepComing` allows one capture without a packet: with the tolerance of 5 %
  a capture a little early is skipped, and the next is an iteration later.
* `NoPartVanishes` names the losses the code has. A clear, an expiry and a crash are one
  kind; the other is a message read by its index whose `AT+CMGD` raises, because the
  port fails while the answer is read, when the modem has already deleted it: the call
  is outside any `try` (`modem_events.py:545`), the exception takes the decoded text
  with it, and the reader goes on (line 799). `dropped` holds exactly these parts. A poll
  has no such loss, it ignores what its deletions raise (`modem_events.py:706-710`).
* `CycleLimitBetweenBoots` says what the script keeps of "one per 30 minutes"
  (README.md:293-294). The cooldown lies between two clock readings, and the first cut
  comes later than the reading of its run: two cuts are at least the cooldown *less
  the time of one run* apart. That is the exact bound: with the run's bounds a cut at a
  distance of `CycleCooldown - RunLimit` occurs.
* `WeightIsOfNow` says that a shown weight lies between valid readings since the last
  invalid one. A failed read shows nothing and leaves the filter alone, so the
  readings before it count on.

### Fairness

* Threads of the running process, the systemd restart (`Restart=always`), the
  timer of the PPP watchdog, and time: weak fairness.
* The server, the modem: strong fairness of the good outcome of a request that is
  made again and again (a taken batch and its reply; an event taken or, if bad,
  rejected; a power cut), never that any given attempt succeeds. Where strong
  fairness would be awkward the disturbance ends instead (`<>[][~...]`,
  `FaultsEnd`): a port that vanishes before every confirmation, a modem that
  rejects every reset, a receiver that sends garbage, or a process that crashes
  before it does anything, defeats any program. For `PositionRecovers` the end of the
  disturbance also means a reader that is not overrun: the receiver goes on sending
  fixes with time, and the thread reads them before they age.
* One iteration of `feed` follows another (`FeedReturns`): nothing else runs in it.
* Nothing is assumed of the device's environment (packets, weights, messages,
  SIM, link) except what a property names on the left of its implication.

## 4. What is proved

`TelemetryOutbox_proofs`, for every number of packets, batch size and delay cap,
from `OutboxAssumption` alone (the batch size is in 1..50 because the worker
clamps it, `workers.py:230`):

* `TypeCorrect`: `TypeOK`, the cap of the retry delay included.
* `AlwaysConsistent`: `Consistent`, the strengthening the others rest on. `NoLoss`
  is not inductive: `DeleteAcked` removes `acked`, about which `NoLoss` says
  nothing. `Consistent` adds what each stage of the worker knows: a request in
  flight names rows of the outbox that have been attempted, an acknowledgement
  names ids that the server has, announced ids exist.
* `NothingLost` (`NoLoss`), `OutboxImplementsDelivery` (`ImplementsDelivery`: every
  step is `Create`, `Deliver`, `Release` or a stutter of `TelemetryDelivery`),
  `FailuresAreRetried` (`NoForgottenFailure`).
* `LiveLabelsAreHonest` (`LiveLabelHonest`), from `NoLoss` and the lemma
  `FreshRowIsNewest`: if the announced row is gone, the newest row is chosen, and
  what is newer than that is not in the outbox, hence on the server.
* `NoWakeupMissed` (`NoMissedWakeup`). Its invariant `Announcing` follows the
  newest packet through the race: while the main loop is at rest and no wake-up is
  pending, a worker about to peek has read the latest announcement
  (`liveSeen = latestLive`), and a newest packet that no request has carried has the
  worker still before its query (or dead). The orders clear, read, query in the worker and
  commit, announce, set in the main loop are what makes it inductive.
* `RequestsAreOwed` (`NoRequestFlood`), with the invariant `Earned`: the event that is set
  and the worker that is awake are each worth one request that has been earned, and
  both at once are worth two. So the history must be able to count to 2
  (`CreditCap >= 2` in `CadenceAssumption`; with 1 the property is false, which the proof
  found and no run with a larger cap had). `HistoryOnly`: the history does not change
  what the threads do, so every theorem about `Spec` holds of the checked `CadenceSpec`.

`EventsPipeline_proofs`, for any number of events, and any sizes of queues, batches and
table, from `PipelineAssumption`: all from `AlwaysAccounted`, whose parts are

* `OneHolder`: an event is in one queue, once, or in the dispatcher's hand, or on disk; the
  sequences have no repetitions.
* `BatchKnown`: a row the flusher has peeked is in the table unless a trim has dropped it.
  With `OneHolder` it gives `PipelineImplementsDelivery` (`ImplementsEventDelivery`): by
  `EventDeliveryStep` every step is `Report`, `Deliver`, `Refuse` or `LetGo` of `EventDelivery`
  or a stutter. What leaves one place is nowhere else, so passing an event on
  (`PassedOn`) leaves what is held as it is. `NothingLostSilently` (`NoSilentLoss`) follows:
  no step of `EventDelivery` loses an event.
* `Explained`: a copy of an event the server has is kept only where the device could
  not know of the delivery, or could not record it. `EventsSettleOnce` (`SettledOnce`) needs
  it: whether a repetition is excusable is decided when the first answer is
  lost, long before the second copy is sent.
* `TrimsSuffice`: two writers count and delete in separate transactions; the excess one has
  counted is enough for the rows that were there then, and each row since then has
  a trim of its own that is due or was interrupted. That gives `TableStaysBounded`
  (`TableBounded`).
* `Counted`: puts without a trim and events in memory together do not exceed the
  arrivals, which bounds the type of `untrimmed` (`TypeCorrect`).

The lemmas `ElemsAppend`, `ElemsTail`, `ElemsSplit` say of a sequence only which elements it
has and that they are distinct; the steps of the pipeline are stated in these terms.

`SmsInbox_proofs`, for any messages and any size of the SIM's storage, from
`InboxAssumption`: all from `AlwaysInPlace`. `OnePlace` says that a part is unread, or kept, or
in one waiting event, or in one that is done; `AtStage` that the events a poll has
assembled are dispatched before the next, and that what it is about to delete is kept or in one of
them. `NothingIsRepeated` (`NothingTwice`) needs both: a part that is listed again
because its deletion failed must be in no event yet. `NoPartIsLost` (`NoPartVanishes`, with
the losses it names), `MessagesStayWhole` (`EventsAreWhole`).

`PppWatchdog_proofs`, for any periods, from `PppAssumption`: all from `AlwaysOnRecord`.

* `CutsAreLimited` (`CycleLimitBetweenBoots`) from `CutOnRecord`: while the host is up and
  the last cut is within the cooldown, an epoch is in the file, whoever was killed since,
  and it is older than the cut by no more than `RunLimit`. So what passes the
  cooldown of the file is at least the cooldown less `RunLimit` from the cut.
  `CutPermitted` carries that, and that the stamp is not older than the run's own
  reading, over the steps between the decision and the cut, in which time passes.
* `ServicesComeBack` (`ServicesRestored`) from `LteAccounted` and `HmAccounted`: which steps of a
  run may find a service inactive that nobody else has stopped.

`TelemetryCapture_proofs`, for any intervals, confirmation times, work of an iteration,
readings and window, from the three modules' assumptions: all from `AlwaysInTime`.

* `PacketsComeInTime` (`PacketsKeepComing`) and `SleepIsRight` (`SleepFollowsMovement`). Neither is
  inductive, since what the loop knows dates from its last capture. `Since`
  bounds how long ago that was, `Gap` bounds `Since`, and each conjunct says what the last
  capture has made of an age: a packet was due by then (`SentInTime`); a machine
  that moves has its candidate taken up (`CandidateTaken`), then confirmed
  (`MovementConfirmed`), one that stands has not (`StillUnconfirmed`, `AwakeForAReason`).
* `WeightsAreOfNow` (`WeightIsOfNow`): `FilterIsOfNow` says of the filtered value what the property
  says of the weight, which a failed read hides. It rests on `RankExists`, that a
  sequence of integers has a value of every rank, hence the median of any window lies
  between its readings (`MedianBetween`); and on `ZeroBetween`: a median near zero has a reading
  near zero, or readings on either side.
* `ClientsAreRecent` (`WifiIsRecent`): a list is at most a command's timeout older than its stamp.

`ModemSimRecovery_proofs`, for any times and limits, from `SimRecoveryAssumption`: all from
`AlwaysOnRecord`. `OnlyFailuresReset` (`OnlyExplicitFailureResets`) from `FailureIsUnbroken`, that a
noted failure is no older than the last other answer, whatever happens to the port;
`AnsweredResetsLimit` (`ResetsAreLimited`) from `AnsweredOnRecord`: the deque holds every
reset whose answer was read, though it drops what leaves the window, and the last
reset is no older than any of them. `ResetLimitKept`, of all resets, is false (section 5):
the invariant has nothing to say of the unanswered.

`RecoveryWatchdog_proofs`, for every threshold, from `WatchdogAssumption`:

* `TypeCorrect`: `TypeOK`, every age within its cap.
* `OneRebootOnly` (`OneRebootPerOutage`) and `LatchSurvives` (`LatchIsDurable`). The
  first is not inductive: that a request finds the last outage over depends on the
  latch, which depends on the file after a restart and on the time of health before
  it is cleared. `LatchInv` says all three: latched in memory implies latched in the
  file; while the recovery is not complete the file is set or damaged and a running
  watchdog is latched; the time of health never exceeds the time for which
  acknowledgements have really kept coming, because the last one is at most
  `HealthyAge` and the time since the last observation old. Both assume
  `HealthyConfirm > 0`: with 0 one acknowledgement clears the latch.
* `RebootsAreOnRecentWeight` (`RebootWeightIsRecent`), from `OffIsRecent`: while a
  confirmation is under way both the latest sample and the one the loop has copied
  are at most the allowed age and the time since the last observation old.

`GpsReader_proofs`, for every fix age, backlog limit and buffer size, from
`GpsAssumption`:

* `TypeCorrect` (`TypeOK`), `SpeedKeepsItsTime` (`SpeedHasItsTime`, which is only proved) and
  `PositionsAreRecent` (`ValidPositionIsRecent`), all from `AlwaysInOrder`: the buffer
  is in the order of time, so that what waits in it is no older than any source time
  read before it, and coordinates, in the window or merged, are never older than the
  source time they are judged by. That is what a merge of sentences of different moments, a
  discarded window or a lost port must keep. Place and validity of a packet
  are read under one lock, and no time passes before it is built; a fix without a source
  time has no such bound, and the property excepts it.
* `SpeedsAreRecent` (`SpeedIsRecent`), from `SnapshotSpeed`: between the two locks of `latest()` the
  speed that was taken still has its time, unless that is gone or a new one has come.

`GnssTime`, for every pair of times: `RolloverIsHarmless`, the nearest of the three
days is the right one whenever the clocks of satellites and device differ by less
than half a day, on whichever side of midnight they are. It rests on the division
of a time into days (`DayAndTime`) and on the true time being among the three
candidates (`NearDay`); the other two are a whole day away from it.

`GnssFraming`, for streams of any length of its kinds of items, from `FramingAssumption` (a line has
room for a frame, `MaxLine >= 3`; `MaxPayload` lies in 2..8, between the longest payload of a
shape and the length that "huge" announces): `FramingTypeCorrect` (`FramingTypeOK`) and `FramesAreFound` (`FrameIsFound`), both from `AlwaysFramed`.

* `Laid` says that the stream is its items put together. That item i occupies its own bytes
  from `Offset(i)` on (`LaidTo`) takes an induction, `Offset` being a fold over the items before it. The library's induction theorems are out of the prover's reach (they
  have an operator as a parameter); `CountingUp` does without: were the set of numbers it
  speaks of not all of them, it would lack a least one (`LeastPosition`, from the well-foundedness
  of proper inclusion on finite sets). `FlattenExists`, `FlattenUnique` and `FlattenLast` say
  what the recursive function inside the library's `FlattenSeq` is, one item at a time.
* With the layout, a byte tells its item: what looks like the beginning of a packet is the
  beginning of an item (`SyncAt`), a frame's bytes are where its item is (`NmeaAt`, `UbxAt`),
  and the parser sees it there as soon as it has come in (`FrameSeen`).
* `Unconsumed` is what makes the property inductive: a frame not yet reported that no torn
  packet swallows is still entirely in the buffer. Every deletion ends at or before its
  start (`FurtherBefore` and the `Keeps` lemmas), except the one that reports it.
  `NoneWaits`: when `feed` returns no whole frame is left.

Model-checked only:

* every liveness property (`BacklogDrains`, `OutageGetsItsReboot`, `LastingRecoveryUnlatches`,
  `QueueIsNotBlocked`, `PersistentFailureIsReset`, `MessageIsReported`, `RecoveriesGoOn`,
  `PositionRecovers`, `FeedReturns`): fairness and ENABLED are out of the prover's reach.

## 5. Disagreements between code and documentation

Each is a run of its own with a counterexample.

1. `outbox_poison`: README.md:543-545 promises dead letters for rejected telemetry; the
   worker retries the same batch for ever (`workers.py:303`) and the row blocks all.
2. `simrec_loop`: "A cooldown and rolling reset limit prevent a reset loop"
   (INCIDENT_2026-07-19_20.md:103-104); a reset whose answer is lost with the port is not
   recorded (`modem_events.py:665`).

Met while modelling and kept as notes only: the docstring of
`TelemetryOutboxWorker` (`workers.py:211`, "One notification produces at most one
HTTP request") does not hold for retries; a lost port does not clear the failure
time of the SIM recovery; `+CMS ERROR: 322` clears the SIM without a listing
first, against the comment at `modem_events.py:804-806`; with
`sms_poll_interval_s` 0 a part of a long message is reported alone, and a message is
lost when the deletion that `modem_events.py:544` calls "Best effort" raises once it is
done (line 545); a batch size of 1,
which the clamp permits, sends fresh rows only and never drains the backlog; the
epoch of the last power cycle is under `/run`, so a reboot of the host forgets "one per
30 minutes" (README.md:293-294), and two cycles may be closer than that by the time from
a run's clock reading (simcom-ppp-watchdog:159) to its cut (line 120), up to
`TimeoutStartSec=150`; a run of the PPP watchdog that systemd kills half-way
leaves `lte.service` inactive, which later runs take for "deliberate maintenance"
(simcom-ppp-watchdog:152-153); a weight has no expiry in packets when the sampler's
thread hangs (`workers.py:63`); after commands of 12 s or more a call may be reported
twice, without and with its number (`modem_events.py:779`).

## 6. What is left out, and why

* Of the outbox: status fields and latencies; the graceful stop (it ends in the
  state of `Crash`); a request the server processes after the client's timeout (it
  then stores rows the device still holds, as a lost reply does); the durations of
  backoffs. The server's idempotence by stream and id is external.
* Of event delivery: a power cut of the host. `Crash` ends the process, after which
  SQLite has every committed row; the table `events` runs with `synchronous=NORMAL`
  (`buffer.py:40`), so a power cut may also undo its last commits. The telemetry
  table runs with `FULL`.
* Of the watchdog: that the directory is not synced after `os.replace` (a power cut
  may undo the last latch write); the few lines between the reading of the two
  ages (`main.py:266-268`) are one step.
* Of the SIM recovery: status fields, LTE metrics; the modem's own delays.
* Of SMS: two messages of one sender with the same reference (their parts would
  mix); the half hour after which parts expire (any incomplete message may);
  redelivery by the network.
* Of the PPP watchdog: a system clock that is set, forward or back (`date +%s` is wall
  time, the model's ages are not); a `systemctl start` that fails; log marker files. `lte.service` and pppd are external.
* Of the GPS reader: satellites and status fields; the choice of port and baud rate;
  clocks of device and satellites that disagree; the parser's cap of 131072 bytes
  (`gps_reader.py:266`, more than a frame and a read of the kernel buffer together); the
  part of a frame that stays in the parser when a backlog is discarded (it joins what
  comes next, which is `GnssFraming`'s torn frame). One coordinate stands for latitude and
  longitude, which every sentence reports together.
* Of the weight reader: ADC access, tare and calibration; smoothing is any value
  between the old weight and the median, and means are rounded to whole readings.
* Of the parser: among the kinds of noise of `GnssFraming` there is no bare sync pair that is
  cut before its length; like the torn header, which is among them, it waits for bytes
  that belong to the next frame.
* Of the scheduler: LTE metrics, status and the log line, whose time the sleep does not
  subtract (`main.py:274`; the bound on the work of an iteration stands for it); that the position behind a
  movement sample is `GpsReader`'s (only whether it is one is kept).
* Calls and LTE metrics: a RING that waits for its +CLIP is one variable of one thread,
  and no text says how often a call is reported; the metrics are an overwritten
  snapshot.
* Parsing and formatting (NMEA, PDU, AT, JSON), configuration, calibration tools,
  diagnostics, installation and remote access scripts: no state machine.

## 7. Plan

Done, in the order of importance:

1. `TelemetryDelivery`, `TelemetryOutbox`, `TelemetryCadence`
2. `RecoveryWatchdog`; 3. `EventsPipeline`, `EventDelivery`; 4. `ModemSimRecovery`; 5. `SmsInbox`;
   6. `PppWatchdog`
7. `GpsReader`, `GnssTime`, `GnssFraming`
8. `WeightFilter`, `WifiMonitor`, `TelemetryCapture`

Every part with state of its own but calls has a module; every safety property that a
passing run checks is proved, and so are both refinements.

Considered and left: a rate limiter implemented by the answered resets of `ModemSimRecovery`
and by the cuts of `PppWatchdog`, and a one-shot alarm implemented by `RecoveryWatchdog`. The step
properties `ResetsAreLimited`, `CycleLimitBetweenBoots` and `OneRebootPerOutage`, all proved,
already say of every step what such a specification would allow.
