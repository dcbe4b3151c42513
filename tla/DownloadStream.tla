--------------------------- MODULE DownloadStream ---------------------------
(***************************************************************************)
(* The bytes of the download test: what the streams book per half second   *)
(* (tests/download.cpp) while the timer thread moves TIMER_INDEX           *)
(* (timer.cpp), and what the reports make of it (callback.cpp).            *)
(*                                                                         *)
(* pc[s] is the position of stream s: "open", "loop" (its condition),      *)
(* "recv", "add", "check" (TIMER_RUNNING and hasError), "index" (reading   *)
(* TIMER_INDEX), "book", "slow" and "ended".  tpc is that of the timer     *)
(* thread: "sync", "tick", "copy" and "start" (a step of a report, reading *)
(* the results and the slow start of stream `at'), "tail" and "ended".     *)
(* A receive counts for one unit of bytes; copying a map is atomic.        *)
(***************************************************************************)
EXTENDS Integers, Sequences, FiniteSets, Functions

CONSTANTS
  DL_STREAMS,
  MEASUREMENT_DURATION,   \* seconds
  MaxReceives             \* bound: receives of one stream

ASSUME DownloadAssumption ==
  /\ DL_STREAMS \in Nat \ {0}
  /\ MEASUREMENT_DURATION \in Nat \ {0}
  /\ MaxReceives \in Nat

Streams == 1..DL_STREAMS

\* The half seconds of the measurement, and the keys run sets to zero
HalfSeconds == 2 * MEASUREMENT_DURATION
Keys == 0..HalfSeconds

VARIABLES
  TIMER_RUNNING, TIMER_STOPPED, TIMER_INDEX, TIMER_DURATION, hasError,
  clock,                 \* half seconds since the timer took time1
  tpc,
  finishing,             \* the report is that of callback("finish", ...)
  at,                    \* the stream the callback looks at
  copied,                \* its copy of the results of that stream
  steps,                 \* the steps of the report computed so far
  sums,                  \* and the sums of the step it is computing
  reported,              \* jMeasurementResultsDownload
  due,                   \* history: bytes of the measurement when the report began
  pc, syncing_threads, results, datasize_total, datasize_slow_start,
  index,                 \* TIMER_INDEX as the stream has read it for booking
  early                  \* history: bytes received before the measurement

timerVars  == <<TIMER_RUNNING, TIMER_STOPPED, TIMER_INDEX, TIMER_DURATION, clock, tpc>>
reportVars == <<finishing, at, copied, steps, sums, reported, due>>
streamVars == <<pc, syncing_threads, results, datasize_total, datasize_slow_start, index,
                early>>
vars == <<timerVars, reportVars, streamVars, hasError>>

Nothing == [bytes |-> 0, distinct |-> 0, total |-> 0]

Init ==
  /\ TIMER_RUNNING = FALSE /\ TIMER_STOPPED = FALSE /\ hasError = FALSE
  /\ TIMER_INDEX = 0 /\ TIMER_DURATION = 0 /\ clock = 0 /\ tpc = "sync"
  /\ finishing = FALSE /\ at = 1 /\ copied = [k \in Keys |-> 0]
  /\ steps = <<>> /\ sums = Nothing /\ reported = <<>> /\ due = [s \in Streams |-> 0]
  /\ pc = [s \in Streams |-> "open"]
  /\ syncing_threads = {}
  /\ results = [s \in Streams |-> << >>]
  /\ datasize_total = [s \in Streams |-> 0]
  /\ datasize_slow_start = [s \in Streams |-> 0]
  /\ index = [s \in Streams |-> 0]
  /\ early = [s \in Streams |-> 0]

-----------------------------------------------------------------------------
(* The streams *)

Goto(s, from, to) == pc[s] = from /\ pc' = [pc EXCEPT ![s] = to]

\* The connection is open and requested; every key the measurement can need
\* is set to zero
Open(s) ==
  /\ Goto(s, "open", "loop")
  /\ results' = [results EXCEPT ![s] = [k \in Keys |-> 0]]
  /\ UNCHANGED <<timerVars, reportVars, hasError, syncing_threads, datasize_total,
                 datasize_slow_start, index, early>>

\* while (RUNNING && TIMER_ACTIVE && !TIMER_STOPPED && !m_fStop); the other
\* conditions are those of IasClient, and end the loop like a lost connection
MayReceiveAnyway == TRUE
MayReceive == ~TIMER_STOPPED

Loop(s) ==
  /\ Goto(s, "loop", IF MayReceive THEN "recv" ELSE "ended")
  /\ UNCHANGED <<timerVars, reportVars, hasError, syncing_threads, results, datasize_total,
                 datasize_slow_start, index, early>>

\* receive returns bytes, or nothing more; the first time syncs the stream
Receive(s) ==
  /\ \/ datasize_total[s] < MaxReceives /\ Goto(s, "recv", "add")
     \/ Goto(s, "recv", "ended")
  /\ syncing_threads' = syncing_threads \cup {s}
  /\ UNCHANGED <<timerVars, reportVars, hasError, results, datasize_total,
                 datasize_slow_start, index, early>>

Add(s) ==
  /\ Goto(s, "add", "check")
  /\ datasize_total' = [datasize_total EXCEPT ![s] = @ + 1]
  /\ UNCHANGED <<timerVars, reportVars, hasError, syncing_threads, results,
                 datasize_slow_start, index, early>>

\* if (TIMER_RUNNING && !hasError)
Check(s) ==
  /\ Goto(s, "check", IF TIMER_RUNNING /\ ~hasError THEN "index" ELSE "loop")
  /\ early' = [early EXCEPT ![s] = IF TIMER_RUNNING THEN @ ELSE @ + 1]
  /\ UNCHANGED <<timerVars, reportVars, hasError, syncing_threads, results, datasize_total,
                 datasize_slow_start, index>>

\* results[TIMER_INDEX] += mResponse: the index is read ...
ReadIndex(s) ==
  /\ Goto(s, "index", "book")
  /\ index' = [index EXCEPT ![s] = TIMER_INDEX]
  /\ UNCHANGED <<timerVars, reportVars, hasError, syncing_threads, results, datasize_total,
                 datasize_slow_start, early>>

\* ... and the bytes are added there, however late
Book(s) ==
  /\ Goto(s, "book", "slow")
  /\ results' = [results EXCEPT ![s][index[s]] = @ + 1]
  /\ UNCHANGED <<timerVars, reportVars, hasError, syncing_threads, datasize_total,
                 datasize_slow_start, index, early>>

\* datasize_slow_start == 0 && TIMER_INDEX == 0, which is read once more
TakesSlowStartAgain(s) == TIMER_INDEX = 0
TakesSlowStart(s) == datasize_slow_start[s] = 0 /\ TIMER_INDEX = 0

\* datasize_total - mResponse
SlowStartWithCurrent(s) == datasize_total[s]
SlowStartBytes(s) == datasize_total[s] - 1

SlowStart(s) ==
  /\ Goto(s, "slow", "loop")
  /\ datasize_slow_start' =
       [datasize_slow_start EXCEPT ![s] = IF TakesSlowStart(s) THEN SlowStartBytes(s) ELSE @]
  /\ UNCHANGED <<timerVars, reportVars, hasError, syncing_threads, results, datasize_total,
                 index, early>>

Stream(s) ==
  \/ Open(s) \/ Loop(s) \/ Receive(s) \/ Add(s) \/ Check(s)
  \/ ReadIndex(s) \/ Book(s) \/ SlowStart(s)

-----------------------------------------------------------------------------
(* The timer thread and the callback it makes *)

\* sync_counter == mInstances; the initial delay is not timed
TimerStart ==
  /\ tpc = "sync" /\ syncing_threads = Streams
  /\ TIMER_RUNNING' = TRUE
  /\ tpc' = "tick"
  /\ UNCHANGED <<TIMER_STOPPED, TIMER_INDEX, TIMER_DURATION, clock, reportVars, streamVars,
                 hasError>>

Clock ==
  /\ TIMER_RUNNING /\ clock < HalfSeconds
  /\ clock' = clock + 1
  /\ UNCHANGED <<TIMER_RUNNING, TIMER_STOPPED, TIMER_INDEX, TIMER_DURATION, tpc, reportVars,
                 streamVars, hasError>>

MeasurementOver == clock >= HalfSeconds

\* TIMER_INDEX moves on while the measurement lasts
IndexAtEnd == clock
NextIndex == IF MeasurementOver THEN TIMER_INDEX ELSE clock

\* What callback("report" or "finish", ...) starts with
BeginReport ==
  /\ tpc' = "copy" /\ at' = 1
  /\ steps' = <<>> /\ sums' = Nothing
  /\ due' = [s \in Streams |-> datasize_total[s] - early[s]]

TimerTick ==
  /\ tpc = "tick" /\ ~TIMER_STOPPED
  /\ TIMER_DURATION' = clock
  /\ TIMER_STOPPED' = MeasurementOver
  /\ TIMER_INDEX' = NextIndex
  /\ IF TIMER_INDEX' # TIMER_INDEX
       THEN BeginReport /\ finishing' = FALSE
       ELSE UNCHANGED <<tpc, at, steps, sums, due, finishing>>
  /\ UNCHANGED <<TIMER_RUNNING, clock, copied, reported, streamVars, hasError>>

\* The finish of the test case, if there was no error
TimerTail ==
  /\ tpc = "tick" /\ TIMER_STOPPED
  /\ IF hasError THEN tpc' = "ended" /\ UNCHANGED <<at, steps, sums, due, finishing>>
                 ELSE BeginReport /\ finishing' = TRUE
  /\ UNCHANGED <<TIMER_RUNNING, TIMER_STOPPED, TIMER_INDEX, TIMER_DURATION, clock, copied,
                 reported, streamVars, hasError>>

\* max_steps, never 0: there is no report in the first half second
MaxStepsRoundedUp == IF TIMER_DURATION + 1 > HalfSeconds THEN HalfSeconds ELSE TIMER_DURATION + 1
MaxStepsByIndex == TIMER_INDEX
MaxSteps == IF TIMER_DURATION > HalfSeconds THEN HalfSeconds ELSE TIMER_DURATION

\* mResults = mDownload
CopyResults ==
  /\ tpc = "copy"
  /\ copied' = results[at]
  /\ tpc' = "start"
  /\ UNCHANGED <<TIMER_RUNNING, TIMER_STOPPED, TIMER_INDEX, TIMER_DURATION, clock,
                 finishing, at, steps, sums, reported, due, streamVars, hasError>>

\* The keys that step k adds up: results are numbered from 1
KeysUpToOneMore(k) == 0..k
KeysUpTo(k) == 0..(k - 1)

\* bytes_slow_start is read after the copy; the stream is added to the step
AddStream ==
  LET step  == Len(steps) + 1
      bytes == SumFunctionOnSet(copied, KeysUpTo(step))
      added == [bytes    |-> sums.bytes + bytes,
                distinct |-> sums.distinct + copied[step - 1],
                total    |-> sums.total + bytes + datasize_slow_start[at]]
  IN  /\ tpc = "start"
      /\ IF at < DL_STREAMS
           THEN /\ at' = at + 1 /\ sums' = added /\ tpc' = "copy"
                /\ UNCHANGED <<steps, reported>>
           ELSE /\ at' = 1 /\ sums' = Nothing
                /\ steps' = Append(steps, added)
                /\ IF step < MaxSteps
                     THEN tpc' = "copy" /\ UNCHANGED reported
                     ELSE /\ reported' = steps'
                          /\ tpc' = IF finishing THEN "ended" ELSE "tick"
      /\ UNCHANGED <<TIMER_RUNNING, TIMER_STOPPED, TIMER_INDEX, TIMER_DURATION, clock,
                     finishing, copied, due, streamVars, hasError>>

Timer == TimerStart \/ TimerTick \/ TimerTail \/ CopyResults \/ AddStream

\* Any other thread, or the callback itself, sets hasError (see IasClient)
Fail ==
  /\ ~hasError /\ hasError' = TRUE
  /\ UNCHANGED <<timerVars, reportVars, streamVars>>

Done ==
  /\ tpc = "ended" /\ \A s \in Streams : pc[s] = "ended"
  /\ UNCHANGED vars

Next == Timer \/ Clock \/ Fail \/ Done \/ \E s \in Streams : Stream(s)

Spec == Init /\ [][Next]_vars
-----------------------------------------------------------------------------
(* Properties *)

BooleansOK ==
  /\ TIMER_RUNNING \in BOOLEAN /\ TIMER_STOPPED \in BOOLEAN
  /\ hasError \in BOOLEAN /\ finishing \in BOOLEAN

TimerOK ==
  /\ TIMER_INDEX \in 0..(HalfSeconds - 1) /\ TIMER_DURATION \in Keys /\ clock \in Keys
  /\ tpc \in {"sync", "tick", "copy", "start", "ended"}
  /\ at \in Streams

StreamsOK ==
  /\ pc \in [Streams -> {"open", "loop", "recv", "add", "check", "index", "book", "slow",
                         "ended"}]
  /\ syncing_threads \subseteq Streams
  /\ results \in [Streams -> {<< >>} \cup [Keys -> Nat]]
  /\ \A s \in Streams : pc[s] # "open" => results[s] \in [Keys -> Nat]
  /\ datasize_total \in [Streams -> Nat] /\ datasize_slow_start \in [Streams -> Nat]
  /\ index \in [Streams -> 0..(HalfSeconds - 1)]
  /\ early \in [Streams -> Nat]

\* Every variable keeps its type.  The index a stream books under is one of
\* the half seconds a report adds up: TIMER_INDEX stays below the end
\* (timer.cpp:145-150), and run has zeroed that key
TypeOK == BooleansOK /\ TimerOK /\ StreamsOK /\ due \in [Streams -> Int]

\* The slow start of a stream, if it is known, is what the stream had received
\* before the measurement (download.cpp:205-208), although TIMER_INDEX is read
\* twice and may move in between.  The code takes 0 for "not known": a stream
\* that had received nothing yet takes the bytes it has just booked
SlowStartIsEarly ==
  \A s \in Streams :
    datasize_slow_start[s] # 0 => datasize_slow_start[s] = early[s] \/ early[s] = 0

\* Slow start and half seconds together count no byte twice (callback.cpp:467),
\* but for a stream that had received nothing when the measurement started
ReportedOnce ==
  (\A s \in Streams : early[s] # 0) =>
    \A k \in DOMAIN reported : reported[k].total <= SumFunctionOnSet(datasize_total, Streams)

\* Within a report each step adds its own half second to the step before, and
\* besides at most one receive per stream: those that were booked late, in an
\* earlier half second, while the report was computed
StepsAddUp ==
  \A k \in 2..Len(reported) :
    reported[k].bytes - reported[k - 1].bytes - reported[k].distinct \in 0..DL_STREAMS

\* What a report has said of a half second, a later report never takes back;
\* it adds at most one receive per stream, the one that was on its way when
\* TIMER_INDEX moved on or the measurement ended
ReportsGrowSlowly ==
  [][\A k \in DOMAIN reported :
       /\ k \in DOMAIN reported'
       /\ reported'[k].bytes - reported[k].bytes \in 0..DL_STREAMS]_reported

\* A report is up to date: without an error it has every byte of the measurement
\* that had been received when it was begun, but for the last receive of each
\* stream, and none that has not been received (timer.cpp:145-166,
\* callback.cpp:323-340)
ReportsFresh ==
  tpc \in {"tick", "ended"} /\ ~hasError /\ reported # << >> =>
    LET bytes == reported[Len(reported)].bytes
    IN  /\ SumFunctionOnSet(due, Streams) - bytes <= DL_STREAMS
        /\ bytes <= SumFunctionOnSet(datasize_total, Streams) - SumFunctionOnSet(early, Streams)

\* When the timer has finished and the streams have ended without an error,
\* every byte is in the last report, was received before the measurement, or
\* is the last receive of a stream
FinalReportComplete ==
  tpc = "ended" /\ ~hasError /\ (\A s \in Streams : pc[s] = "ended") =>
    SumFunctionOnSet(datasize_total, Streams) - SumFunctionOnSet(early, Streams)
      - reported[Len(reported)].bytes \in 0..DL_STREAMS
=============================================================================
