# A TLA+ model of the ias-client measurement client

`src/` is the client of a broadband measurement: an executable on Linux and
macOS, a library in an Android and an iOS app. It measures, one after the
other, the client's address (IP), round trip times (RTT), download and upload
against a peer, and tells the app about progress, results and failures. This
directory models its threads, checks the model with TLC on small instances and
proves the most important properties with TLAPS for every instance.

## Inventory

### Components

| component | source | state | operations |
|---|---|---|---|
| session | `src/ias_client.cpp` | the process globals: `RUNNING`, `hasError`, the failure flags, `PERFORMED_*`, `currentTestPhase`, the set of enabled test cases | `measurementStart`, `startTestCase`, `measurementStop`, `shutdown`, `signal_handler` |
| measurement | `src/measurement.cpp` | one `CMeasurement` per test case: its timer, its workers | constructor (starts the timer), `startMeasurement` |
| timer thread | `src/timer.cpp` | `TIMER_ACTIVE/RUNNING/STOPPED`, `TIMER_INDEX`, `TIMER_DURATION`, `MEASUREMENT_DURATION` | `CTimer()` resets them, `run` |
| callback | `src/callback.cpp` | pointers to the workers, the JSON results | `callback`, `callbackToPlatform`, the four handlers, executed by the timer thread |
| workers | `src/tests/{ip,ping,download,upload}.cpp` | `mResponse`, results per half second, ping counters, the entry in `syncing_threads` | `run` |
| upload sender | `src/tests/upload_sender.cpp` | `nPointer`, `m_fStop` | `run` |
| Android connector | `src/android_connector.*` | JNI references, `speedTaskDesc` | `jniLoad`, `registerSharedObject`, `setSpeedSettings`, `startMeasurement`, `stopMeasurement`, `callback`, `callbackFinished`, `unregisterSharedObject` |
| iOS connector | `src/ios_connector.*` | the app's block | `start`, `stop` |
| ias-libtool | (git submodule, empty) | sockets, threads, tools | external |

### Who talks to whom

The caller of `measurementStart` is the *main thread*. It builds a
`CMeasurement` per test case, which starts the *timer thread*; then it starts
the *workers*, hands their pointers to the callback object, joins them, polls
`PERFORMED_<test>`, `hasError` and `RUNNING`, deletes the workers and joins the
timer. The workers report that they are synced in `syncing_threads`, report
failures in the flags `UNREACHABLE`, `FORBIDDEN`, `TLS_PARAMETERS_MISSING` and
then in `hasError`, and stop when `RUNNING`, `TIMER_ACTIVE` or `TIMER_STOPPED`
tells them to. The timer thread polls the flags, waits until all workers are
synced, and calls `CCallback::callback` every half second and at the end; the
handlers read the workers' fields directly. An upload worker owns a sender
thread. On mobile the app may call `measurementStop` on another thread.

Nearly all of this goes through plain global variables; two mutexes guard
`syncing_threads` and the handlers, and only `hasError` is atomic.

### What is hard

* a failure is published in two writes (flag, `hasError`), read in two places;
* three parties decide that a test case ends (timer, workers, main thread), and
  each waits for the others;
* objects are deleted by one thread while another may use them;
* globals survive a measurement, and `measurementStop` acts a second late;
* half seconds and seconds are mixed at the end of the measurement;
* exceptions clear `RUNNING` and skip what follows.

`PROJECT.json` lists the hazards line by line with the properties that cover
them.

### What makes each component correct

* session: the platform sees a message order it can rely on
  (`MeasurementProtocol`), every measurement ends, a measurement does not end
  without a result or an error, nothing of an earlier one shows in a
  later one but in its refusal;
* streams: every byte is reported once, in the half second it belongs to, and
  what was reported is not taken back;
* RTT: a round trip is timed by its own answer, and the parts of a report agree;
* measurement: workers live as long as a handler may use them; the waits end;
* timer: starts only when all streams deliver and the duration is known,
  finishes only what was measured, reports every failure it is told of;
* callback: always has a result to read, completes exactly with the last test;
* workers: no exit leaves the timer waiting; upload leaves no sender behind;
* upload sender: reads inside its buffer and stops within a packet;
* Android connector: no dead reference is used, none leaks, and threads leave
  the Java VM as they found it.

## Modules

| module | models | notes |
|---|---|---|
| `Globals` | the shared variables and constants of the source | |
| `Callback` | `callback.cpp` | steps of the timer thread |
| `Timer` | `timer.cpp` | extends `Callback`, which it calls |
| `Worker` | what the four `run` functions share | |
| `Ip`, `Ping`, `Download`, `Upload` | `src/tests` | each extends `Worker` |
| `Measurement` | `measurement.cpp` | main thread during a test case |
| `Session` | `ias_client.cpp` | main thread around the test cases, `measurementStop` |
| `IasClient` | the composition, its fairness and properties | |
| `MeasurementProtocol` | what an app may rely on | abstract; `IasClient` and `AndroidConnector` implement it |
| `UploadSender` | `upload_sender.cpp` in detail | |
| `DownloadStream` | the bytes of `download.cpp`, the report of `callback.cpp` | with the clock and the index of `timer.cpp` |
| `UploadReports` | the reports `upload.cpp` receives and books | with the filter of `callback.cpp:433` |
| `RttPings` | pings, answers and counters of `ping.cpp`, `rttUdpCallback` | with the network between |
| `AndroidConnector` | `android_connector.*`, the attaching of threads | with the message sequence of a measurement |
| `MCIasClient` | instances for TLC | |
| `IasClientProofs` | theorems about `IasClient`: types, life of the workers, start of the timer, that it implements `MeasurementProtocol` | |
| `IasClientOutcomes` | theorems about how tests and measurements end | extends `IasClientProofs` |
| `SumTheorems` | lemmas about sums over finite sets (`SumFunctionOnSet`) | for the proofs of `DownloadStream` and `UploadReports` |
| `UploadSenderProofs`, `DownloadStreamProofs`, `UploadReportsProofs`, `RttPingsProofs`, `AndroidConnectorProofs` | theorems about the module they are named after | |

The project looks at the program from two distances. `IasClient` composes all
threads and knows of data only whether it is there. The four modules after
`UploadSender` each take one flow of data, with every access to shared state a
step of its own, and only as much of the other threads as touches it: what they
assume of those (that the timer starts when all streams have synced, that
`RUNNING` and `hasError` change in one direction within a measurement, that an
error message may come before `hasError`) is what `IasClient` shows.

A thread's position is a variable named after it: `mpc` (main), `tpc` (timer),
`wpc[i]` (workers), `sender[i]`. A position stands between two accesses to
shared state, so the interleavings of the code are those of the model.
Variables have the names of the source; `raised` is the set of failure flags
that are true, `PERFORMED` the set of `t` for which `PERFORMED_<t>` is true.
`finished`, `errors`, `completed` and `delivered` record what the platform has
been told, `attached` and `freed` the life of the worker objects.

Where reads are merged it is because nothing can tell: within a measurement
`hasError`, the failure flags, `TIMER_STOPPED` and the end of `RUNNING` only
ever change in one direction, so the last of several reads in a condition is
the one that counts. The same holds for the loop over the streams in
`calculateMeasurementResultsDownloadUpload`: a stream that has gone stays gone.

Undefined behaviour is a choice of outcomes: an uninitialised pointer or an
index of -1 kills the process (`crashed`), a deleted worker kills it or yields
any value. `crashed` freezes the model.

* `DownloadStream` follows a stream from `receive` to the slow start
  (`download.cpp:174-208`) in seven steps, so that `TIMER_INDEX` may move between
  its two reads and a report may be computed between any two of them. The
  callback copies one stream at a time (`callback.cpp:384`), once for every step
  of the report: `copied`, `at`, `steps` and `sums` are its locals. `early` and
  `due` are history: what a stream received before the measurement, and what it
  had received of it when the report began.
* `UploadReports` keeps the map `results` with its growing domain, as
  `callback.cpp` filters by key. A receive may end anywhere within a report;
  `rest` is what the next receive begins with. Its first field is read as bytes
  (`upload.cpp:221`), whichever field of the report that is the end of.
* `RttPings` identifies an answer with the ping it answers, which is what the
  comparison of the random payload tells apart. `network` holds the copies on
  their way, `socket` those that have arrived.
* `AndroidConnector` numbers references by the call that made them; `held` is
  what the fields contain and `live` what the VM keeps. A message is the list of
  fields it uses, in the order of the code, each read and then handed over in
  two steps. `callbackFinished` checks only one of them for `nullptr`
  (`IfNotNull`), and `passJniSpeedState` takes `uploadMeasurementState` where
  `downloadMeasurementState` is null (`OrUpload`). `finished`,
  `errors` and `completed` record what the app has been told: a message counts
  when all of it has been handed over (`Told`).
* In `MeasurementProtocol` every message names `testCase`, as `callbackToPlatform`
  does with `conf.sTestName` (`callback.cpp:117`). It is set when a test case begins
  (`Start`) and never reset: an error (`Fail`) is of the test case being measured,
  the refusal of a measurement (`Refuse`) names the last test case of an earlier
  one, or none.
* `MeasurementProtocol` is implemented twice. In `IasClient` a message is sent in one
  step and everything else is interleaved: the protocol's `completed` comes with the
  last finish, as nothing lies between the two calls. In `AndroidConnector` a message
  takes many steps, and `completed` is a message after that of the last finish;
  which errors there are is left to `IasClient`, so it has one error code. Neither
  returns from a measurement between the two (`End`).

Several definitions have a *fault variant* beside them (`MayFinishAnyway` beside
`MayFinish`, `KeptSync` beside `ClearedSync`): the mistake a change to that
line could make. `PROJECT.json` names for each property a variant that breaks it.

## Abstractions and bounds

* Time is counted in half seconds from the start of the measurement and stops
  at its end (`Clock`): later instants are the same for the timer (it stops) and
  the callback (its steps are limited). The initial delay is not timed: any
  number of steps of other threads fit into it, and none.
* Opening a connection succeeds, fails, is refused or throws; receiving yields
  data, nothing (connection gone or timed out) or throws. Before its loop a
  worker touches no shared state but its own sync entry, so opening is one step.
* Durations are one or two seconds (two to four half-second steps) instead of
  60, 10 and 12: the loops of timer and callback have a first, a last and an
  inner iteration. Two download streams show every disagreement between
  streams that the flags can express; one counted ping and the uncounted one.
* `MaxSessions` bounds how often the app measures: two on Android, for what the
  first leaves to the second. The app is assumed not to start a measurement
  before `measurementStart` has returned; `measurementStop` may come at any time,
  and is pending at most once at a time.
* `DownloadStream`: a receive is one unit of bytes, so that a count of receives
  is a count of bytes. Three receives per stream (`MaxReceives`) are one before
  the measurement, one in its first half second and one that crosses the end; one
  second of measurement has a report in the middle and the last one. Copying a
  map is one step: that it is read and written without a lock is undefined
  behaviour the model does not follow into.
* `UploadReports`: keys count half seconds (the code's steps of five), streams may
  be one half second apart (`FirstKeys`), a key cut short may read as an earlier
  one, the same or a later one (`Misread`). Three reports per stream
  (`MaxReports`) and one torn (`MaxTorn`) reach every branch of the loop before,
  at and after the first key. A whole report tells of one unit of bytes
  (`Reported`); the remainder of a torn one begins with any of 0 to 2 (`MostBytes`),
  less, as much or more than its report told. Keys do not wrap.
* `RttPings`: three counted pings, each answered up to twice (`MaxCopies`), so that
  one late answer meets two later pings and an answer may overtake another. Time
  is counted as the worker waits: a receive takes at most the second it may.
* `AndroidConnector`: two shares and two measurements (`MaxShares`, `MaxSessions`)
  and one report per test case before its last messages (`MaxMessages`). `Plans`
  has a measurement without a test case, which is refused, one with RTT, and one
  with download and upload, so that a test case is the only one, the first or the
  last. Of the list of server addresses only whether there is one is kept. The app
  shares a state and gives an address before it starts, and not from two threads
  at once. Each kind of result is there or not, in any combination.
* A sender orphaned by an exception is not followed into later test cases.
* Creating a thread does not fail, parameters parse and name at least one
  stream per direction, no signal is received.

## Runs

| run | instance | states | question |
|---|---|---|---|
| `desktop` | one measurement, every plan, 2 download streams, TLS | 165 331 | safety of one measurement and its message order |
| `mobile` | two measurements and `measurementStop` | 485 463 | what one measurement or a stop leaves to the next, and to a handler |
| `desktop_liveness` | as `desktop`, fair | 165 331 | the executable exits |
| `stop_liveness` | one measurement and `measurementStop`, fair | 286 073 | a stop ends a measurement |
| `upload_sender` | packets of 7 in a buffer of 50 | 1 038 | pointer arithmetic and stop of the sender |
| `download_stream` | two streams, one second, three receives each | 7 043 000 | what is booked late, twice or never, and is a report up to date |
| `upload_reports` | two streams, three reports each, one torn | 7 291 000 | which keys count, and what is lost of them |
| `rtt_pings` | three pings, answers up to twice | 3 190 000 | who is timed by what, and do reports agree |
| `android_connector` | two shares, two measurements, three plans | 1 589 000 | references, attached threads, what the app is told |

### What they show of the code

Most properties hold as one would hope. Where the code does less, the property
says exactly how much less:

* **An error may be followed by finish, even by completed.** A worker sets its
  flag, then `hasError` (`download.cpp:73-74`); if the timer thread reports in
  between, it also finishes the test case (`timer.cpp:170`). `FinishAfterError`
  shows that this gap is the only way, `MeasurementProtocol` that no *other*
  test case finishes after an error. In download or upload the handler of that
  finish has no result to read (`callback.cpp:534`, index -1): `ResultThere`.
* **Two failures are never reported**: missing TLS parameters noticed when the
  reporting loop already runs, and streams found dropped while the finish is
  computed. `FailureReported` and `NoSilentEnd` allow these two and no others.
* **Two failures wedge the measurement**: a UDP socket that cannot be opened
  (`ping.cpp:110`) and a refused IP request (`ip.cpp:117`) leave the timer
  waiting for a sync that never comes; `Terminates` says it ends or is `Wedged`,
  `StopEndsMeasurement` that `measurementStop` still gets it out.
* **Workers are deleted under a running handler** after an error or a stop
  (`measurement.cpp:150-160`); `HandlerSafe` shows that there is no other way,
  but for the moment before the pointers are handed over.
* **A refused measurement delivers a final result** if one ran before, because
  `currentTestPhase` is still `END`: the exception in `DeliveredComplete`. Its error
  names the last test case of that measurement, or none (`callback.cpp:117`):
  `Refuse` in `MeasurementProtocol`.
* **A late `measurementStop` ends the next measurement.** The message order of
  that one is intact, it just ends early.
* **An exception in an upload worker orphans its sender**, but only with
  `hasError` set and `RUNNING` cleared, which end it: `SenderOutlived`.

* **Reports change after the fact, by at most one receive per stream.** A receive
  that has read `TIMER_INDEX` is booked under it however late, also into a half
  second that was reported: `ReportsGrowSlowly` bounds the difference between two
  reports, `StepsAddUp` that within one (each step copies the streams anew), and
  `FinalReportComplete` what the last report misses.
* **A report is up to date all the same.** `max_steps` is computed from
  `TIMER_DURATION` and the bookings are spread over `TIMER_INDEX` (`callback.cpp:323`,
  `timer.cpp:145`), which stops moving before the duration does. `ReportsFresh` says that
  the last element of a report has every byte of the measurement that had been
  received when the report began, but for one receive per stream, and no byte
  that has not been received. It says nothing after an error, when bytes are dropped.
* **A stream that had received nothing counts its first receive twice**: 0 stands
  for "slow start not known" (`download.cpp:205`), so the slow start becomes the
  bytes just booked, and `bytes_total` adds both. `SlowStartIsEarly` and
  `ReportedOnce` except that stream and no other. It needs a stream that synced
  on a receive whose bytes are counted only after the timer has started.
* **An upload stream ahead of the others loses its slow start.** If it has passed
  the first key when another stream chooses it, it never runs the branch at
  `upload.cpp:239`: `CountedExactly` says that this is all that is ever lost. A
  stream behind it is aligned to the wrong half second, the exception in
  `StepsAligned`.
* **A report torn by a receive is booked twice or under another key.** The end of
  the field it was torn in is read as a number of bytes (`upload.cpp:221`), added to
  the total and booked; a scrap too short to be read books what was read last once
  more (`:247`). `CountedOnce` says what is left of the account: without torn
  reports a stream counts at most what it has read, otherwise at most twice that and
  one reading for each torn report. Torn in the key, a report ends the measurement.
* **A late answer is never taken for another ping's**, but shifts all later ones:
  each ping then reads the answer of the one before and counts an error
  (`TimedByOwnAnswer`).
* **Round trips carry the time stamp of an earlier ping or none**
  (`callback.cpp:277` counts from 1, results start at 2): `StampsLagBehind`.
* **The duration of the RTT test is enough for every ping to time out**, rounding
  down included: `FinalReportComplete` is checked for three pings and proved for
  any number. With two counted pings nothing is left to spare.
* **The leak of `registerSharedObject` is what keeps a message alive** that is
  being sent while the app shares a new state: were the old references deleted,
  it would use a dead one. `LeaksOnlyByRepeatedShare` says that nothing else
  leaks, `CallbacksUseLiveRefs` that only `unregisterSharedObject` breaks a
  message - and every later one, since it deletes what only `jniLoad` makes.
* **Timer threads end attached to the Java VM** unless theirs was the last test
  case or they reported an error (`EndsAttached`), and **the app's own thread is
  detached** when a measurement is refused (`AppStaysAttached`).

No comment, document or test of the repository promises otherwise, so these are
descriptions and not recorded as contradictions.

### Fairness

Weak fairness of the main thread, the timer thread, every worker, the clock, a
sender that has to end, and a `measurementStop` that has begun: the operating
system schedules every thread, and the code bounds every wait in a worker by a
socket timeout (10 s, for pings 1 s) and polls everywhere else. Nothing is
assumed of the peer, of the app, or of a sender that need not end.

## Proofs

TLAPS proves every safety property that a run checks, action properties and the
refinement included, for every value of the constants:

| theorem | property | for every |
|---|---|---|
| `SendsInsideBuffer` | `SendInsideBuffer` | packet size, buffer of two packets or more (`BufferAssumption`) |
| `OneLatePacketAtMost` | `AtMostOneLatePacket` | the same |
| `TypesKept` | `TypeOK` | number of streams (at least one), pings and measurements, durations (`ConstantsAssumption`), desktop and mobile |
| `HandlersSafe` | `HandlerSafe` | the same |
| `StreamsDeliver` | `AllStreamsDeliver` | the same |
| `DurationsKnown` | `DurationKnown` | the same |
| `FinishesAfterError` | `FinishAfterError` (action property) | the same |
| `DeliveredWhenComplete` | `DeliveredComplete` | the same |
| `Implements` | `FollowsProtocol` (refinement) | the same |
| `FailuresReported` | `FailureReported` | the same |
| `EndsNotSilently` | `NoSilentEnd` | the same |
| `FinishesEarned` | `FinishEarned` | the same |
| `ResultsThere` | `ResultThere` | the same |
| `SendersJoined` | `SenderOutlived` | the same |
| `DownloadTypesKept` | `TypeOK` | number of streams and receives, duration (`DownloadAssumption`) |
| `SlowStartsAreEarly` | `SlowStartIsEarly` | the same |
| `ReportsAddUp` | `StepsAddUp` | the same |
| `ReportsOnlyGrow` | `ReportsGrowSlowly` (action property) | the same |
| `ReportsUpToDate` | `ReportsFresh` | the same |
| `NothingUnreported` | `FinalReportComplete` | the same |
| `NothingReportedTwice` | `ReportedOnce` | the same |
| `UploadTypesKept` | `TypeOK` | number of streams and reports, torn or not, keys, duration (`UploadAssumption`) |
| `OneFirstKey` | `FirstChosenOnce` (action property) | the same |
| `ReportsAligned` | `StepsAligned` | the same |
| `BytesCountedOnce` | `CountedOnce` | the same |
| `BytesCountedExactly` | `CountedExactly` | the same |
| `RttTypesKept` | `TypeOK` | number of pings and of copies of an answer (`PingAssumption`) |
| `OwnAnswers` | `TimedByOwnAnswer` | the same |
| `ReportsConsistent` | `ReportConsistent` | the same |
| `LastReportComplete` | `FinalReportComplete` | the same |
| `StampsLag` | `StampsLagBehind` | the same |
| `AndroidTypesKept` | `TypeOK` | plans, number of shares, measurements and messages (`AndroidAssumption`) |
| `MessagesUseLiveRefs` | `CallbacksUseLiveRefs` | the same |
| `OnlySharesLeak` | `LeaksOnlyByRepeatedShare` | the same |
| `AppsStayAttached` | `AppStaysAttached` | the same |
| `TimersEndAttached` | `EndsAttached` (action property) | the same |
| `AndroidImplements` | `FollowsProtocol` (refinement) | the same |

The assumptions are those of the constants only. `ConstantsAssumption` asks for
at least one stream, which the code does not check: with none the count of
synced threads is complete before anything runs (`timer.cpp:113`).

**`UploadSender`.** `PointerInv` adds to the property that the pointer stays in
`0..BUFFER_SIZE`; lemma `WrappedFits` is the arithmetic of
`upload_sender.cpp:45-49`. `LateInv` ties a late packet to the position of the
sender and to the stop it did not see.

**`IasClient`.** None of the properties is inductive: each compares threads
that a single step moves one at a time. The invariant is built in three layers,
each of which uses those before.

* `TypeInv` is `TypeOK` with `ThreadsInv`: the timer thread is not "ended" only
  while a test case runs, a worker is alive only between `create` and `join`.
  Without it `test` could leave its range under a running thread.
* `LifeInv` is what `HandlerSafe` rests on. `ObjectsInv`: workers are freed only
  behind the wait of `CMeasurement`, which a finish, an error or a stop has
  ended. `PerformedInv`: a finish is the last thing the timer thread does with
  the workers, so a wait ended by a finish leaves no handler running.
  `RaisedInv` and `FreshInv`: when a test case starts no failure flag is set,
  so the timer thread has nothing to call before the workers exist; this is
  where the order of flag and `hasError` matters.
* `SyncInv`: entries of `syncing_threads` are of the running test case
  (`SyncedInv`), a synced stream has an `mResponse` (`ResponseInv`), and the
  duration is set before a worker can sync (`DurationInv`). Lemma
  `CountedIsAll` is the step from the count in `timer.cpp:113` to "all of
  them": a subset of a finite set with as many elements.

`ErrorInv`, that an error reported is an error raised, gives
`FinishesAfterError` together with `RaisedInv`. Steps of the workers are first
brought into a few forms (`WorkerSteps`), then each layer has one lemma for the
main thread, the timer thread and the workers.

**That `IasClient` implements `MeasurementProtocol`** (`IasClientProofs`).
Most steps stutter; what is to be shown is that each message is one the
protocol allows. `ProtocolInv` says why: tests finish in the order of the plan
(`PlanInv`, `OrderInv`), the measurement is complete as soon as all of the plan
has finished (`PlanInv`), a refused measurement runs no test and no other is
refused (`RefuseInv`), after an error the timer thread looks at no flag any more,
and the error is of its own test case (`ErrorsInv`), and phase `END` begins with `completed` or is a
leftover (`EndInv`). Lemma `RunsCurrent` brings the steps of the timer thread that tell
the platform something to the test the protocol is at, which is the one `sTestName`
names; `StartStep` is the beginning of a test case, and `FailStep` maps every error
the timer reports. The main thread, the timer thread and the rest have
one lemma each (`ImplementsMain`, `ImplementsTimer`, `ImplementsStep`).

**How tests and measurements end** (`IasClientOutcomes`) needs to know why the
timer was stopped and who raised what:

* `PositionInv`, `IndexInv` and `StoppedInv` tie the position of the timer thread
  to `TIMER_INDEX`, `TIMER_DURATION` and the reason why `TIMER_STOPPED` is set:
  the time is over, the IP result is there, the RTT worker has ended, or an error
  was reported. They give `FinishEarned` and, with `DurationKnown`, `ResultThere`.
* `FlagInv`, `HasErrorInv`, `CodeInv` and `DroppedInv` say of each failure flag
  who may have raised it, which worker still stands between flag and `hasError`,
  and where the timer thread must be if it has not reported it. `EndedReports` is
  the consequence for a timer thread that has ended: `FailureReported`.
* `OutcomeInv` carries this over the test cases to the end of the measurement:
  behind a test case with `hasError` set an error has been reported or one of the
  two unreported failures is raised, unless `RUNNING` is cleared; and when the
  whole plan has been performed the measurement is complete. `OrderInv` says that
  it has been performed if there was no error. At the end that is `NoSilentEnd`.
* `SenderInv` follows a sender along the positions of its worker.

**`DownloadStream`.** `TypeInv` adds that a stream that books has received
something (`ReceivedInv`), without which a slow start could be negative.
`SlowStartInv` says that the index does not run ahead of the clock and so never
returns to 0 (`ClockInv`), that before the measurement all bytes are early and
there is no slow start (`BeforeInv`, `EarlyInv`), and that in the first half second
a stream with early bytes and no slow start has booked nothing yet (`FirstInv`):
the next receive it books is its first, so the slow start it takes is exactly
what was early.

What the reports say needs four invariants more. `PositionInv` ties the report in
progress to the timer: which steps it has, and that the index has reached
`TIMER_DURATION`. `CountInv` gives every step of every report a witness per stream:
what that stream had booked when it was copied. A witness stays good because, once
a half second is over, a stream can book there only what was on its way (`Near`,
lemma `BookedSettles`), and that is at most one receive; so two reports, or two
steps of one, differ by at most one receive per stream (`Counted`,
`CountedSoFar`, `Follows`). `ReportsGrowSlowly` and `StepsAddUp` follow from it.
`BalanceInv` is the account of a stream: what it has received is early, booked, on
its way or, after an error, dropped. With `CountInv` it bounds what the last report
misses (`FinalReportComplete`), and `TotalInv` carries it into the sums of the
reports for `ReportedOnce`.

`ReportsFresh` bounds a report from both sides. That it says no more than has been
received is `CountInv` and `BalanceInv` (`CountedReceived`). That it says no less than was
due takes two more invariants. `FutureInv`: nothing is booked under an index that
`TIMER_INDEX` has not reached; so when a report begins, all that is booked lies in the
half seconds it adds up (`BookedAll`), and `BalanceInv` puts what is due there, but for
the receive on its way. `FreshInv` carries that through the report as long as there is
no error: bookings stay (`DueBooked`), the copy has them (`DueCopied`), the last step adds
the copies up (`DueAdded`), and the report ends with that step (`DueReported`). The steps
before the last cannot have it all, so the invariant speaks of the last one only.

**`SumTheorems`.** The community modules define `SumFunctionOnSet` by a fold that
takes out chosen elements one by one. The module proves what the other proofs need
of it: that any element can be taken out, what happens when a value changes or
is added, that sums are monotonic, add up, split and stay within `0..n` of each
other. The proofs go by induction on the subsets of a finite set, with a set of
subsets in the place of the induction hypothesis (`SubsetInduction`), since a
hypothesis that is an operator cannot be instantiated.

**`UploadReports`.** `KeysInv` says which keys a stream has as long as none of its
reports was torn: those of its own reports, which have no gap, and, if it has
zeroed them, those of the grid that starts with the first key. The first key lies
within its own, because zeroing happens at that key; so the union has no gap
either. `FirstKept` is what keeps the grid in place. An error of another stream
makes it lose keys of its own, never of the grid.

`SumsInv` is the account of the bytes. `Bounded` holds for every stream: what is
booked, what is about to be (`Coming`), and what a scrap may still book again
(`Outstanding`) is at most what it has read and `MostBytes` for each torn report
(`Granted`), as a torn report makes one reading be booked twice at most. `BooksBalance` is for a stream without torn reports: every report is booked
once, and if it has zeroed its keys, slow start and kept keys make up all it was
told of. Between zeroing and the booking of the first key that is not so; there
the kept keys are all 0 and the slow start is not set, so that this booking sets
it to just what is missing (`FirstPending`, lemma `SumsBook`). That nothing booked
before is zeroed away rests on `KeysInv`: all of it lies before the first key
(lemma `SumsZero`).

**`RttPings`.** `CountInv` counts the pings by position of the worker, `ResultInv`
says that a counted reply has a round trip, or is about to, and `ElapsedInv`
bounds the time the worker has used. Lemma `DurationSuffices` is the arithmetic
of `ping.cpp:104`; with it a stopped timer means that all pings are counted
(`StoppedCounts`) and none is being stored. `HandlerInv` and `FinishInv` keep that for the
handler, whose copies and counters are of different moments. `StampsLag` counts:
the pings up to `p` that have round trips are among `2..p`.

**`AndroidConnector`.** `SharedInv` says that what the fields hold is live until
`unregisterSharedObject`, and complete once an address has been given, which
a measurement needs (`StartedInv`). A share may replace the fields in the middle of
a message: what the message has read is then no longer held but, since the old
references are never deleted, still live (`ReadInv`).

`TypeInv` adds to the types where the two loops over the fields are
(`PositionInv`). `LeakInv` orders references by the call that made them: no field
holds one from a later share than the last, the fields a share has still to set
hold older ones, and a field about to be cleared has had its reference deleted
(`ShareInv`); so what is live and not held is older than the last share.
`AttachInv` says on which thread a message is sent, and where in a measurement
(`AppInv`), and that a timer thread is attached from its first message on,
between messages if the last one was a report or a finish (`TimerInv`).

That it implements `MeasurementProtocol` rests on the join of the timer thread
(`measurement.cpp:209`) and on `MessageOver`: a message is over before its thread is.
`ProtocolInv` says which test case the measurement is at and that messages name it, that
a refused measurement is at none (`SessionInv`), that none is left behind, and that a test case has finished exactly when its finish message is
over (`FinishedInv`); that the app is told of one error at most, by the first error
message of the measurement (`ErrorsInv`); and that with the
last finish the measurement does not go on without its completed message
(`CompletedInv`). There is one lemma for each message that is over (`FinishTold`,
`ErrorTold`, `CompletedTold`, `OtherTold`) and one each for what the app does
meanwhile (`QuietProtocol`) and for the rest of the measurement, whose steps send but
tell nothing yet (`MeasuringProtocol`).

**Model-checked only** are the liveness properties, `Terminates` and
`StopEndsMeasurement`: the provers have no rules for fairness and `ENABLED`.

## Plan

1. (done) threads and message order: `Globals` to `IasClient`, the abstract
   protocol, `UploadSender`.
2. (done) `DownloadStream`: bytes booked per timer index against the reports the
   callback computes from them; slow start, late and lost bytes.
3. (done) `UploadReports`: the server's reports, torn ones included, and
   `TIMER_INDEX_UPLOAD_FIRST`.
4. (dropped, see below) thread creation that fails, reuse of thread ids.
5. (done) `AndroidConnector`: references, settings, attached threads.
6. (done) `RttPings`: replies, missing and errors against requests and progress.
7. (done) Proofs: every safety property and action property the runs check, and
   that `IasClient` and `AndroidConnector` implement `MeasurementProtocol`.
8. (done) What a download report promises whenever it is delivered: `ReportsFresh`.
9. Open: the same of the reports of the upload, and an abstract specification of the
   reports that both modules implement.

## Not modelled

* Command line, JSON and JNI conversion of parameters and results, the statistics
  of `CTool::calculateResults` and everything else in ias-libtool (absent from
  the repository), logging, build files. The throughputs and times of the
  reports are arithmetic on the sums that are modelled.
* Threads that cannot be created (`measurement.cpp:64`, `:133`, `:176`) and thread
  ids that are used again (`download.cpp:96`): `startMeasurement` returns with
  threads running whose objects are destroyed or leaked, and everything after
  that is decided by `CBasisThread` of ias-libtool, which is not there to read.
* Senders orphaned by an exception in test cases after theirs: they use a
  connection that has been deleted.
* The iOS connector beyond its `start` and `stop`, which are those of `Session` on
  mobile: it only converts parameters and messages.
* The `catch` in the Android connector's `startMeasurement`
  (`android_connector.cpp:786`), which calls `shutdown`: nothing that is modelled
  throws out of `measurementStart`.
* Signals (`ias_client.cpp:391`): whether a send raises one is decided in
  ias-libtool.
