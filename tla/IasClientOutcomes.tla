------------------------- MODULE IasClientOutcomes --------------------------
(***************************************************************************)
(* Proofs about what a test case and a measurement end with: a finish that *)
(* has been earned, an error that has been reported, no silent end and no  *)
(* sender left behind, for every number of streams, pings and measurements *)
(* and every duration.                                                     *)
(***************************************************************************)
EXTENDS IasClientProofs

-----------------------------------------------------------------------------
(* The timer thread's position and why TIMER_STOPPED is set *)

\* The callback runs inside the reporting loop or, for the finish, after both
Reporting == tpc \in {"inner", "again"} \/ (tpc \in {"call", "post"} /\ cmd = "report")
Finishing == tpc \in {"call", "post"} /\ cmd = "finish"
Waiting   == tpc \in Checks \cup {"sync", "delay"}

\* The reporting loop is entered when the measurement runs; while RUNNING is
\* set the thread leaves its loops only with TIMER_STOPPED set
PositionInv ==
  TestRuns =>
    /\ Reporting => TIMER_RUNNING
    /\ Finishing => TIMER_STOPPED
    /\ tpc \in {"tail", "off", "ended"} /\ RUNNING => TIMER_STOPPED

\* The reporting loop is entered once, so its index is the global one, and
\* nobody but the RTT worker stops the timer under it.  A report of streams
\* has at least one half second to tell of
IndexInv ==
  TestRuns =>
    /\ TIMER_INDEX <= clock /\ TIMER_DURATION <= clock
    /\ Waiting \/ (tpc = "while" /\ MayPoll) => TIMER_INDEX = 0 /\ TIMER_DURATION = 0
    /\ Reporting => current_index = TIMER_INDEX
    /\ test # RTT /\ (Waiting \/ tpc = "inner") => ~TIMER_STOPPED
    /\ test \in {DOWNLOAD, UPLOAD} /\ tpc \in {"call", "post"} /\ cmd = "report" =>
         ~TIMER_STOPPED /\ TIMER_DURATION > 0

\* What FinishEarned asks for, or an error
Earned ==
  \/ errors # {}
  \/ 2 * MEASUREMENT_DURATION <= TIMER_DURATION /\ TIMER_RUNNING
  \/ test = IP /\ ipResult
  \/ test = RTT /\ wpc[1] = "ended"

\* The RTT worker has sent its pings
RttDone == test = RTT /\ wpc[1] = "ended" /\ syncing_threads # {}

\* Who has stopped the timer: an exception or a stop aside it was an error, the
\* end of the time, the result of the IP test or the RTT worker
StoppedInv ==
  TestRuns =>
    /\ TIMER_STOPPED /\ RUNNING => errors # {} \/ TIMER_RUNNING \/ RttDone
    /\ TIMER_STOPPED /\ RUNNING /\ ~hasError => Earned
    /\ Finishing => Earned
    /\ test = RTT /\ (pings > 0 \/ wpc[1] = "recv") => syncing_threads # {}

-----------------------------------------------------------------------------
(* What has been raised, and by whom *)

\* UNREACHABLE and FORBIDDEN come from workers that never sync, so that the
\* timer never measures; TLS_PARAMETERS_MISSING from the only worker of the IP
\* test; STREAMS_DROPPED from the callback.  hasError without a flag is that
\* of an exception, which clears RUNNING next, or of a refused IP request
FlagInv ==
  TestRuns =>
    /\ \A i \in Workers : wpc[i] \in {"none", "open"} => <<test, i>> \notin syncing_threads
    /\ raised \cap {"UNREACHABLE", "FORBIDDEN"} # {} =>
         \E i \in Workers : wpc[i] \in {"gap", "ended"} /\ <<test, i>> \notin syncing_threads
    /\ "TLS_PARAMETERS_MISSING" \in raised => test = IP /\ raised = {"TLS_PARAMETERS_MISSING"}
    /\ "STREAMS_DROPPED" \in raised => test \in {DOWNLOAD, UPLOAD}
    /\ test = IP /\ wpc[1] \notin {"gap", "ended"} => raised = {}

HasErrorInv ==
  /\ TestRuns =>
       /\ \A i \in Workers : wpc[i] = "gap" =>
            raised # {} \/ (test = IP /\ syncing_threads = {})
       /\ hasError /\ RUNNING =>
            \/ raised # {}
            \/ \E i \in Workers : wpc[i] = "unwind"
            \/ test = IP /\ wpc[1] = "ended" /\ syncing_threads = {}
  /\ mpc \in {"refuse", "phase"} /\ test = IP => ~hasError

\* The error that has been sent is that of a raised flag
CodeInv ==
  TestRuns /\ errors # {} =>
    \E f \in raised : /\ errors = {<<test, ErrorCode[f]>>}
                      /\ f = "STREAMS_DROPPED" => TIMER_RUNNING

\* Dropped streams are on their way to the platform as long as RUNNING is set
DroppedInv ==
  TestRuns /\ "STREAMS_DROPPED" \in raised /\ RUNNING =>
    \/ Finishing
    \/ Reporting /\ ~TIMER_STOPPED
    \/ <<test, ErrorCode["STREAMS_DROPPED"]>> \in errors
    \/ test \in finished

-----------------------------------------------------------------------------
(* How a measurement ends *)

OutcomeInv ==
  /\ mpc \notin {"idle", "exited"} => plan # {}
  /\ PERFORMED \subseteq plan
  /\ plan # {} /\ PERFORMED = plan => completed
  /\ mpc \in {"phase", "shutdown"} /\ RUNNING /\ hasError =>
       errors # {} \/ raised \cap {"TLS_PARAMETERS_MISSING", "STREAMS_DROPPED"} # {}
  /\ mpc = "shutdown" /\ RUNNING /\ ~hasError => completed

\* A worker of the upload test leaves its sender behind only in its catch block
SenderInv ==
  TestRuns /\ test = UPLOAD =>
    \A i \in Streams :
      /\ wpc[i] \in {"none", "open", "gap"} => sender[i] = "none"
      /\ wpc[i] = "unwind" => hasError
      /\ wpc[i] = "ended" /\ sender[i] \in {"sending", "stopping"} => hasError /\ ~RUNNING

-----------------------------------------------------------------------------
(* What the steps of the other threads leave alone *)

\* The main thread while a test case runs
LEMMA MainSteps ==
  ASSUME MeasurementStart \/ MainThread
  PROVE  \/ ~TestRuns'
         \/ StartTestCase
         \/ /\ TestRuns /\ MainFrame
            /\ UNCHANGED <<test, mResponse, syncing_threads, ipResult, pings, sender>>
            /\ SetDuration \/ UNCHANGED MEASUREMENT_DURATION
            /\ UNCHANGED wpc \/ \E i \in Streams : CreateWorker(i)
<1> USE DEF TestRuns, workerVars
<1>1. CASE MeasurementStart \/ Refuse \/ SkipTestCase \/ EndPhase \/ Shutdown \/ JoinTimer
  BY <1>1 DEF MeasurementStart, Refuse, SkipTestCase, EndPhase, Shutdown, JoinTimer
<1>2. CASE SetDuration \/ Publish \/ JoinWorkers \/ DestroyWorkers
  BY <1>2 DEF SetDuration, Publish, JoinWorkers, DestroyWorkers
<1>3. ASSUME NEW i \in Streams, CreateWorker(i)
      PROVE  /\ TestRuns /\ MainFrame
             /\ UNCHANGED <<test, mResponse, syncing_threads, ipResult, pings, sender,
                            MEASUREMENT_DURATION>>
  BY <1>3 DEF CreateWorker
<1> QED BY <1>1, <1>2, <1>3 DEF MainThread, MeasurementStep

\* A worker or sender neither takes back hasError, a result or an entry of
\* syncing_threads, nor comes back when it has ended.  Only the RTT worker
\* sets its own duration and stops the timer
LEMMA WorkerKeeps ==
  ASSUME NEW i \in Streams, TypeInv,
         WorkerThread(i) \/ SenderStops(i) \/ SenderDropped(i)
  PROVE  /\ hasError => hasError'
         /\ ipResult => ipResult'
         /\ syncing_threads \subseteq syncing_threads'
         /\ \A j \in Streams : wpc[j] = "ended" => wpc'[j] = "ended"
         /\ UNCHANGED TIMER_STOPPED \/ PingDone(i)
         /\ UNCHANGED MEASUREMENT_DURATION \/ PingOpen(i)
         /\ UNCHANGED pings \/ PingAnswer(i)
<1> USE DEF At, Goto
<1>a. wpc \in [Streams -> {"none", "open", "loop", "recv", "gap", "tls", "unwind",
                           "stop", "join", "ended"}]
  BY DEF TypeInv, TypeOK, WorkersOK
<1>1. CASE \E t \in Tests : CommonWorkerStep(t, i)
  BY <1>1, <1>a DEF CommonWorkerStep, Flag, SetHasError, Throw, Unwind
<1>2. CASE \E t \in Tests \ {RTT} : ReceiveStep(t, i) \/ Opened(t, i)
  BY <1>2, <1>a DEF ReceiveStep, Loop, Receive, Opened, flagVars
<1>3. CASE OwnWorkerStep(i)
  BY <1>3, <1>a DEF OwnWorkerStep, IpRefused, PingOpen, PingLoop, PingAnswer, PingDone,
    UploadStop, UploadJoin, flagVars
<1>4. CASE SenderStops(i) \/ SenderDropped(i)
  BY <1>4 DEF SenderStops, SenderDropped, SenderEnds, flagVars
<1> QED BY <1>1, <1>2, <1>3, <1>4, WorkerSteps

\* measurementStop, waiting and stuttering touch nothing but RUNNING
LEMMA OtherSteps ==
  ASSUME StopCalled \/ StopTakesEffect \/ Halted \/ UNCHANGED vars
  PROVE  /\ RUNNING' => RUNNING
         /\ UNCHANGED <<hasError, raised, resultVars, timerFlags, MEASUREMENT_DURATION, clock,
                        timerVars, mainVars, workerVars, platformVars>>
BY DEF StopCalled, StopTakesEffect, Halted, vars, flagVars, resultVars, timerFlags,
  timerVars, mainVars, workerVars, platformVars

-----------------------------------------------------------------------------
(* The timer thread's position *)

LEMMA PositionTimer ==
  TypeInv /\ PositionInv /\ (TimerThread \/ Clock) => PositionInv'
<1> SUFFICES ASSUME TypeInv, PositionInv, TimerThread \/ Clock PROVE PositionInv'
  OBVIOUS
<1> USE DEF PositionInv, Reporting, Finishing, TestRuns, TimerFrame, mainVars
<1>1. CASE TimerWhile \/ TimerSync \/ TimerAgain
  BY <1>1 DEF TimerWhile, TimerSync, TimerAgain, MayPoll, timerFlags
<1>2. CASE TimerCheck
  BY <1>2 DEF TimerCheck, AfterCheck, Checks
<1>3. CASE TimerStart \/ TimerDropped
  BY <1>3 DEF TimerStart, TimerDropped
<1>4. CASE TimerTick
  BY <1>4 DEF TimerTick
<1>5. CASE TimerTail \/ TimerOff
  BY <1>5 DEF TimerTail, MayFinish, TimerOff, timerFlags
<1>6. CASE Misuse \/ RttUdpCallback \/ CalculateStep \/ CalculateEnd
  BY <1>6 DEF Misuse, RttUdpCallback, CalculateStep, CalculateEnd, HandlerFrame
<1>7. CASE IpCallback
  <2>1. TIMER_STOPPED => TIMER_STOPPED'
    BY <1>7, Zenon DEF IpCallback
  <2>2. tpc = "call" /\ tpc' = "post" /\ HandlerFrame
    BY <1>7 DEF IpCallback
  <2> QED BY <2>1, <2>2 DEF HandlerFrame
<1>8. CASE ReportDone \/ FinishDone
  BY <1>8 DEF ReportDone, FinishDone, timerFlags
<1>9. CASE Clock
  BY <1>9 DEF Clock, flagVars, timerFlags, timerVars
<1> QED
  BY <1>1, <1>2, <1>3, <1>4, <1>5, <1>6, <1>7, <1>8, <1>9 DEF TimerThread, CallbackStep

LEMMA PositionStep == TypeInv /\ PositionInv /\ [Next]_vars => PositionInv'
<1> SUFFICES ASSUME TypeInv, PositionInv, [Next]_vars PROVE PositionInv'
  OBVIOUS
<1> USE DEF PositionInv, Reporting, Finishing, TestRuns
<1>1. CASE MeasurementStart \/ MainThread
  BY <1>1, MainSteps DEF StartTestCase, MainFrame, flagVars, timerVars
<1>2. CASE TimerThread \/ Clock
  BY <1>2, PositionTimer
<1>3. ASSUME NEW i \in Streams, WorkerThread(i) \/ SenderStops(i) \/ SenderDropped(i)
      PROVE  PositionInv'
  BY <1>3, WorkerChanges, StoppedStays DEF WorkerFrame, timerVars, mainVars
<1>4. CASE StopCalled \/ StopTakesEffect \/ Halted \/ UNCHANGED vars
  BY <1>4, OtherSteps DEF timerFlags, timerVars, mainVars
<1> QED BY <1>1, <1>2, <1>3, <1>4 DEF Next

LEMMA IndexTimer ==
  TypeInv /\ LifeInv /\ IndexInv /\ (TimerThread \/ Clock) => IndexInv'
<1> SUFFICES ASSUME TypeInv, LifeInv, IndexInv, TimerThread \/ Clock PROVE IndexInv'
  OBVIOUS
<1> USE DEF IndexInv, Reporting, Waiting, TestRuns, MayPoll, TimerFrame, mainVars
<1>a. TIMER_INDEX \in Nat /\ clock \in Nat /\ TIMER_DURATION \in Nat
  BY DEF TypeInv, TypeOK, TimerOK
<1>1. CASE TimerWhile \/ TimerSync \/ TimerAgain
  BY <1>1 DEF TimerWhile, TimerSync, TimerAgain, Checks, timerFlags
<1>2. CASE TimerCheck
  BY <1>2 DEF TimerCheck, AfterCheck, Checks
<1>3. CASE TimerStart \/ TimerDropped
  BY <1>3 DEF TimerStart, TimerDropped, Checks
<1>4. CASE TimerTick
  <2>1. /\ tpc = "inner" /\ tpc' \in {"call", "again"} /\ TIMER_DURATION' = clock
        /\ tpc' = "call" => TIMER_INDEX' # current_index
        /\ current_index' = TIMER_INDEX' /\ UNCHANGED <<clock, mainVars, RUNNING>>
    BY <1>4 DEF TimerTick
  <2>2. \/ TIMER_INDEX' = TIMER_INDEX
        \/ TIMER_INDEX' = clock /\ TIMER_STOPPED' = TIMER_STOPPED
    <3>1. CASE MeasurementOver
      BY <1>4, <3>1 DEF TimerTick
    <3>2. CASE ~MeasurementOver
      <4>1. TIMER_STOPPED' = TIMER_STOPPED
        <5>1. TIMER_STOPPED' = (TIMER_STOPPED \/ MeasurementOver)
          BY <1>4 DEF TimerTick
        <5>2. TIMER_STOPPED \in BOOLEAN
          BY DEF TypeInv, TypeOK, BooleansOK
        <5> QED BY <3>2, <5>1, <5>2, Zenon
      <4> QED BY <1>4, <3>2, <4>1 DEF TimerTick
    <3> QED BY <3>1, <3>2
  <2> QED BY <1>a, <2>1, <2>2 DEF Checks, RTT, DOWNLOAD, UPLOAD
<1>5. CASE TimerTail \/ TimerOff
  BY <1>5 DEF TimerTail, TimerOff, Checks, timerFlags
<1>6. CASE Misuse \/ RttUdpCallback \/ CalculateStep \/ CalculateEnd
  BY <1>6 DEF Misuse, RttUdpCallback, CalculateStep, CalculateEnd, HandlerFrame, Checks
<1>7. CASE IpCallback
  <2>1. tpc = "call" /\ tpc' = "post" /\ test = IP /\ HandlerFrame
    BY <1>7 DEF IpCallback
  <2> QED BY <2>1 DEF HandlerFrame, Checks, IP, DOWNLOAD, UPLOAD
<1>8. CASE ReportDone \/ FinishDone
  BY <1>8 DEF ReportDone, FinishDone, timerFlags, Checks
<1>9. CASE Clock
  BY <1>9, <1>a DEF Clock, flagVars, timerFlags, timerVars
<1> QED
  BY <1>1, <1>2, <1>3, <1>4, <1>5, <1>6, <1>7, <1>8, <1>9 DEF TimerThread, CallbackStep

LEMMA IndexStep == TypeInv /\ LifeInv /\ IndexInv /\ [Next]_vars => IndexInv'
<1> SUFFICES ASSUME TypeInv, LifeInv, IndexInv, [Next]_vars PROVE IndexInv'
  OBVIOUS
<1> USE DEF IndexInv, Reporting, Waiting, TestRuns, MayPoll
<1>1. CASE MeasurementStart \/ MainThread
  <2>1. CASE StartTestCase
    <3>1. /\ TIMER_INDEX' = 0 /\ TIMER_DURATION' = 0
          /\ TIMER_STOPPED' = FALSE /\ tpc' = "while"
          /\ clock' = clock /\ clock \in Nat
      BY <2>1 DEF StartTestCase, TypeInv, TypeOK, TimerOK
    <3> QED BY <3>1 DEF Checks
  <2>2. CASE TestRuns /\ MainFrame /\ UNCHANGED test
    BY <2>2 DEF MainFrame, flagVars, timerVars
  <2> QED BY <1>1, <2>1, <2>2, MainSteps
<1>2. CASE TimerThread \/ Clock
  BY <1>2, IndexTimer
<1>3. ASSUME NEW i \in Streams, WorkerThread(i) \/ SenderStops(i) \/ SenderDropped(i)
      PROVE  IndexInv'
  <2>1. WorkerFrame /\ (RUNNING' => RUNNING)
    BY <1>3, WorkerChanges
  <2>2. UNCHANGED TIMER_STOPPED \/ test = RTT
    BY <1>3, WorkerKeeps DEF PingDone, At
  <2>3. TIMER_STOPPED => TIMER_STOPPED'
    BY <1>3, StoppedStays
  <2> QED BY <2>1, <2>2, <2>3 DEF WorkerFrame, timerVars, mainVars, RTT, DOWNLOAD, UPLOAD
<1>4. CASE StopCalled \/ StopTakesEffect \/ Halted \/ UNCHANGED vars
  BY <1>4, OtherSteps DEF timerFlags, timerVars, mainVars
<1> QED BY <1>1, <1>2, <1>3, <1>4 DEF Next

-----------------------------------------------------------------------------
(* Why the timer has been stopped *)

LEMMA StoppedMain ==
  TypeInv /\ LifeInv /\ StoppedInv /\ (MeasurementStart \/ MainThread) => StoppedInv'
<1> SUFFICES ASSUME TypeInv, LifeInv, StoppedInv, MeasurementStart \/ MainThread
             PROVE  StoppedInv'
  OBVIOUS
<1> USE DEF StoppedInv, Earned, RttDone, Finishing, TestRuns
<1>1. CASE StartTestCase
  <2>1. /\ TIMER_STOPPED' = FALSE /\ tpc' = "while" /\ pings' = 0
        /\ wpc' = [i \in Streams |-> "none"] /\ test' = test
    BY <1>1 DEF StartTestCase
  <2>2. test = RTT => 1 \in Streams
    BY TestData DEF Tests, RTT
  <2> QED BY <2>1, <2>2
<1>2. CASE /\ TestRuns /\ MainFrame
           /\ UNCHANGED <<test, mResponse, syncing_threads, ipResult, pings, sender>>
           /\ SetDuration \/ UNCHANGED MEASUREMENT_DURATION
           /\ UNCHANGED wpc \/ \E i \in Streams : CreateWorker(i)
  <2> USE DEF MainFrame, flagVars, timerVars, platformVars
  <2>1. wpc \in [Streams -> {"none", "open", "loop", "recv", "gap", "tls", "unwind",
                             "stop", "join", "ended"}]
    BY DEF TypeInv, TypeOK, WorkersOK
  <2>2. test = RTT => /\ wpc[1] = "ended" => wpc'[1] = "ended"
                      /\ wpc'[1] = "recv" => wpc[1] = "recv"
    <3>1. test = RTT => 1 \in Streams
      BY TestData DEF Tests, RTT
    <3> QED BY <1>2, <2>1, <3>1 DEF CreateWorker
  <2>3. CASE UNCHANGED MEASUREMENT_DURATION
    BY <1>2, <2>2, <2>3
  <2>4. CASE SetDuration
    <3>1. ~TIMER_STOPPED /\ ~Finishing
      BY <2>4 DEF LifeInv, FreshInv, SetDuration, Checks
    <3> QED BY <1>2, <2>2, <3>1
  <2> QED BY <1>2, <2>3, <2>4
<1> QED BY <1>1, <1>2, MainSteps

LEMMA StoppedTimer ==
  TypeInv /\ LifeInv /\ PositionInv /\ IndexInv /\ StoppedInv /\ (TimerThread \/ Clock)
    => StoppedInv'
<1> SUFFICES ASSUME TypeInv, LifeInv, PositionInv, IndexInv, StoppedInv, TimerThread \/ Clock
             PROVE  StoppedInv'
  OBVIOUS
<1> USE DEF StoppedInv, Earned, RttDone, Finishing, TestRuns, TimerFrame, mainVars, workerVars
<1>a. /\ TIMER_DURATION \in Nat /\ clock \in Nat /\ MEASUREMENT_DURATION \in Nat
      /\ TIMER_STOPPED \in BOOLEAN
  BY DEF TypeInv, TypeOK, TimerOK, BooleansOK
<1>1. CASE TimerWhile \/ TimerSync \/ TimerAgain \/ TimerOff
  BY <1>1 DEF TimerWhile, TimerSync, TimerAgain, TimerOff, Checks, Quiet, timerFlags, platformVars
<1>2. CASE TimerCheck
  <2>1. tpc' \notin {"call", "post"} /\ UNCHANGED <<mainVars, workerVars, RUNNING>>
    BY <1>2 DEF TimerCheck, AfterCheck, Checks
  <2>2. CASE tpc \in raised
    <3>1. errors' # {}
      BY <1>2, <2>2 DEF TimerCheck, ReportError
    <3> QED BY <2>1, <3>1
  <2>3. CASE tpc \notin raised
    BY <1>2, <2>1, <2>3 DEF TimerCheck, platformVars
  <2> QED BY <2>2, <2>3
<1>3. CASE TimerStart
  BY <1>3 DEF TimerStart, Quiet, platformVars
<1>4. CASE TimerDropped
  <2>1. errors' # {} /\ UNCHANGED <<mainVars, workerVars>>
    BY <1>4 DEF TimerDropped, ReportError
  <2>2. tpc' = "while" /\ UNCHANGED pings
    BY <1>4 DEF TimerDropped
  <2> QED BY <2>1, <2>2
<1>5. CASE TimerTick
  <2>1. /\ tpc = "inner" /\ TIMER_DURATION' = clock
        /\ UNCHANGED <<TIMER_RUNNING, mainVars, workerVars, errors, RUNNING, hasError,
                       MEASUREMENT_DURATION>>
        /\ tpc' = "again" \/ (tpc' = "call" /\ cmd' = "report")
    BY <1>5 DEF TimerTick, Quiet, platformVars
  <2>2. TestRuns => TIMER_RUNNING /\ TIMER_DURATION <= TIMER_DURATION'
    BY <2>1 DEF PositionInv, IndexInv, Reporting
  <2>3. TIMER_STOPPED' => TIMER_STOPPED \/ 2 * MEASUREMENT_DURATION <= clock
    BY <1>5, Zenon DEF TimerTick, MeasurementOver
  <2> QED BY <1>a, <2>1, <2>2, <2>3
<1>6. CASE TimerTail
  <2>1. TestRuns /\ RUNNING => TIMER_STOPPED
    BY <1>6 DEF TimerTail, PositionInv
  <2> QED BY <1>6, <2>1 DEF TimerTail, MayFinish, Quiet, timerFlags, platformVars
<1>7. CASE Misuse \/ RttUdpCallback \/ CalculateEnd
  BY <1>7 DEF Misuse, RttUdpCallback, CalculateEnd, HandlerFrame, platformVars
<1>8. CASE CalculateStep
  <2>1. hasError => hasError'
    BY <1>8, Zenon DEF CalculateStep
  <2>2. UNCHANGED <<TIMER_STOPPED, TIMER_RUNNING, TIMER_DURATION, MEASUREMENT_DURATION,
                    RUNNING, mainVars, workerVars, errors, tpc, cmd>>
    BY <1>8 DEF CalculateStep, HandlerFrame, platformVars
  <2> QED BY <2>1, <2>2
<1>9. CASE IpCallback
  <2>1. /\ tpc = "call" /\ tpc' = "post" /\ test = IP
        /\ UNCHANGED <<TIMER_RUNNING, TIMER_DURATION, MEASUREMENT_DURATION, RUNNING, hasError,
                       mainVars, workerVars, errors, cmd>>
    BY <1>9 DEF IpCallback, HandlerFrame, platformVars
  <2>2. TestRuns /\ cmd = "report" => TIMER_RUNNING
    BY <2>1 DEF PositionInv, Reporting
  <2>3. TestRuns /\ cmd = "finish" => TIMER_STOPPED
    BY <2>1 DEF PositionInv
  <2>4. TestRuns /\ freed /\ RUNNING => hasError
    BY <2>1 DEF LifeInv, ObjectsInv, PerformedInv, MayLeave
  <2>5. TIMER_STOPPED' => TIMER_STOPPED \/ ipResult \/ freed
    <3>1. PICK received \in (IF freed THEN BOOLEAN ELSE {ipResult}) :
            TIMER_STOPPED' = (TIMER_STOPPED \/ received)
      BY <1>9 DEF IpCallback
    <3>2. ~freed => received = ipResult
      OBVIOUS
    <3> QED BY <3>1, <3>2, Zenon
  <2>6. cmd \in {"report", "finish"}
    BY DEF TypeInv, TypeOK, TimerOK
  <2> QED BY <2>1, <2>2, <2>3, <2>4, <2>5, <2>6
<1>10. CASE ReportDone \/ FinishDone
  BY <1>10 DEF ReportDone, FinishDone, timerFlags
<1>11. CASE Clock
  BY <1>11 DEF Clock, flagVars, timerFlags, timerVars, platformVars
<1> QED
  BY <1>1, <1>2, <1>3, <1>4, <1>5, <1>6, <1>7, <1>8, <1>9, <1>10, <1>11
  DEF TimerThread, CallbackStep

LEMMA StoppedWorker ==
  ASSUME NEW i \in Streams, TypeInv, SyncInv, StoppedInv,
         WorkerThread(i) \/ SenderStops(i) \/ SenderDropped(i)
  PROVE  StoppedInv'
<1> USE DEF StoppedInv, Earned, RttDone, Finishing, TestRuns
<1>1. /\ UNCHANGED <<TIMER_RUNNING, TIMER_DURATION, tpc, cmd, mpc, test, errors>>
      /\ RUNNING' => RUNNING
  BY WorkerChanges DEF WorkerFrame, timerVars, mainVars, platformVars
<1>2. /\ hasError => hasError'
      /\ ipResult => ipResult'
      /\ syncing_threads \subseteq syncing_threads'
      /\ \A j \in Streams : wpc[j] = "ended" => wpc'[j] = "ended"
      /\ UNCHANGED TIMER_STOPPED \/ PingDone(i)
      /\ UNCHANGED MEASUREMENT_DURATION \/ PingOpen(i)
      /\ UNCHANGED pings \/ PingAnswer(i)
  BY WorkerKeeps
<1>3. test = RTT => 1 \in Streams /\ Workers = {1}
  BY TestData DEF Tests, RTT, Workers, Instances, DOWNLOAD, UPLOAD
<1>4. TestRuns /\ TIMER_RUNNING => UNCHANGED MEASUREMENT_DURATION
  <2> SUFFICES ASSUME TestRuns, TIMER_RUNNING, PingOpen(i) PROVE UNCHANGED MEASUREMENT_DURATION
    BY <1>2
  <2>1. test = RTT /\ MEASUREMENT_DURATION' = PingDuration
    BY DEF PingOpen, PingMeasurementDuration, At
  <2>2. <<test, 1>> \in syncing_threads
    BY <1>3, <2>1 DEF SyncInv, SyncedInv
  <2> QED BY <2>1, <2>2 DEF SyncInv, DurationInv
<1>5. PingDone(i) => test = RTT /\ wpc'[1] = "ended" /\ (RUNNING => pings > 0)
  <2> SUFFICES ASSUME PingDone(i) PROVE test = RTT /\ wpc'[1] = "ended" /\ (RUNNING => pings > 0)
    OBVIOUS
  <2>1. test = RTT /\ i = 1
    BY DEF PingDone, At, Instances, Tests, RTT, DOWNLOAD, UPLOAD
  <2>2. wpc'[1] = "ended"
    BY <1>3, <2>1 DEF PingDone, Goto, TypeInv, TypeOK, WorkersOK
  <2>3. RUNNING => pings > 0
    BY ConstantsAssumption DEF PingDone, MayPing, TypeInv, TypeOK, WorkersOK
  <2> QED BY <2>1, <2>2, <2>3
<1>6. test = RTT /\ (wpc'[1] = "recv" \/ pings' > 0)
        => wpc[1] = "recv" \/ pings > 0 \/ syncing_threads' # {}
  <2> SUFFICES ASSUME test = RTT, wpc'[1] = "recv" \/ pings' > 0
               PROVE  wpc[1] = "recv" \/ pings > 0 \/ syncing_threads' # {}
    OBVIOUS
  <2> USE DEF At, Goto
  <2>a. wpc \in [Streams -> {"none", "open", "loop", "recv", "gap", "tls", "unwind",
                             "stop", "join", "ended"}]
    BY DEF TypeInv, TypeOK, WorkersOK
  <2>1. CASE \E t \in Tests : CommonWorkerStep(t, i)
    BY <2>1, <2>a, <1>3 DEF CommonWorkerStep, Flag, SetHasError, Throw, Unwind
  <2>2. CASE \E t \in Tests \ {RTT} : ReceiveStep(t, i) \/ Opened(t, i)
    BY <2>2 DEF ReceiveStep, Loop, Receive, Opened
  <2>3. CASE OwnWorkerStep(i)
    <3>1. i = 1 \/ UploadStop(i) \/ UploadJoin(i) \/ IpRefused(i)
      BY <2>3 DEF OwnWorkerStep, PingOpen, PingLoop, PingAnswer, PingDone, Instances, Tests,
        RTT, DOWNLOAD, UPLOAD
    <3>2. ~UploadStop(i) /\ ~UploadJoin(i) /\ ~IpRefused(i)
      BY DEF UploadStop, UploadJoin, IpRefused, RTT, UPLOAD, IP
    <3> QED BY <2>3, <2>a, <1>3, <3>1, <3>2
      DEF OwnWorkerStep, PingOpen, PingLoop, PingAnswer, PingDone
  <2>4. CASE SenderStops(i) \/ SenderDropped(i)
    BY <2>4 DEF SenderStops, SenderDropped, SenderEnds
  <2> QED BY <2>1, <2>2, <2>3, <2>4, WorkerSteps
<1>7. TestRuns /\ Earned => Earned'
  BY <1>1, <1>2, <1>3, <1>4
<1>8. TestRuns /\ PingDone(i) /\ RUNNING => syncing_threads # {}
  BY <1>5
<1> QED BY <1>1, <1>2, <1>3, <1>5, <1>6, <1>7, <1>8

LEMMA StoppedStep ==
  TypeInv /\ LifeInv /\ SyncInv /\ PositionInv /\ IndexInv /\ StoppedInv /\ [Next]_vars
    => StoppedInv'
<1> SUFFICES ASSUME TypeInv, LifeInv, SyncInv, PositionInv, IndexInv, StoppedInv, [Next]_vars
             PROVE  StoppedInv'
  OBVIOUS
<1>1. CASE MeasurementStart \/ MainThread
  BY <1>1, StoppedMain
<1>2. CASE TimerThread \/ Clock
  BY <1>2, StoppedTimer
<1>3. CASE \E i \in Streams : WorkerThread(i) \/ SenderStops(i) \/ SenderDropped(i)
  BY <1>3, StoppedWorker
<1>4. CASE StopCalled \/ StopTakesEffect \/ Halted \/ UNCHANGED vars
  BY <1>4, OtherSteps DEF StoppedInv, Earned, RttDone, Finishing, TestRuns, timerFlags,
    timerVars, mainVars, workerVars, platformVars
<1> QED BY <1>1, <1>2, <1>3, <1>4 DEF Next

-----------------------------------------------------------------------------
(* How flags and hasError come about *)

\* The timer thread raises a flag and sets hasError in CalculateStep only
LEMMA TimerKeeps ==
  ASSUME TimerThread \/ Clock
  PROVE  /\ UNCHANGED <<RUNNING, mainVars, workerVars>>
         /\ hasError => hasError'
         /\ UNCHANGED <<hasError, raised>> \/ CalculateStep
<1> USE DEF TimerFrame
<1>1. CASE TimerWhile \/ TimerSync \/ TimerStart \/ TimerTick \/ TimerAgain \/ TimerTail
           \/ TimerOff
  BY <1>1 DEF TimerWhile, TimerSync, TimerStart, TimerTick, TimerAgain, TimerTail,
    TimerOff, Quiet
<1>2. CASE TimerCheck \/ TimerDropped
  BY <1>2 DEF TimerCheck, TimerDropped
<1>3. CASE Misuse \/ IpCallback \/ RttUdpCallback \/ CalculateEnd
  BY <1>3 DEF Misuse, IpCallback, RttUdpCallback, CalculateEnd, HandlerFrame
<1>4. CASE CalculateStep
  <2>1. hasError => hasError'
    BY <1>4, Zenon DEF CalculateStep
  <2>2. HandlerFrame
    BY <1>4 DEF CalculateStep
  <2> QED BY <1>4, <2>1, <2>2 DEF HandlerFrame
<1>5. CASE ReportDone \/ FinishDone
  BY <1>5 DEF ReportDone, FinishDone
<1>6. CASE Clock
  BY <1>6 DEF Clock, flagVars
<1> QED BY <1>1, <1>2, <1>3, <1>4, <1>5, <1>6 DEF TimerThread, CallbackStep

\* A step of the callback over the streams: without any stream it raises
\* STREAMS_DROPPED together with hasError
LEMMA StreamsStep ==
  ASSUME CalculateStep
  PROVE  /\ test \in {DOWNLOAD, UPLOAD} /\ tpc = "call"
         /\ UNCHANGED <<tpc, cmd, TIMER_STOPPED, TIMER_RUNNING, PERFORMED, finished, errors>>
         /\ \/ UNCHANGED raised /\ (hasError' => hasError)
            \/ raised' = raised \cup {"STREAMS_DROPPED"}
<1>1. PICK streams \in StreamsSeen :
        /\ hasError' = (hasError \/ streams = {})
        /\ raised' = IF streams = {} THEN raised \cup {"STREAMS_DROPPED"} ELSE raised
  BY DEF CalculateStep
<1>2. streams # {} => UNCHANGED raised /\ (hasError' => hasError)
  BY <1>1, Zenon
<1>3. streams = {} => raised' = raised \cup {"STREAMS_DROPPED"}
  BY <1>1
<1>4. HandlerFrame /\ test \in {DOWNLOAD, UPLOAD} /\ tpc = "call"
      /\ UNCHANGED <<tpc, TIMER_STOPPED>>
  BY DEF CalculateStep
<1> QED BY <1>2, <1>3, <1>4 DEF HandlerFrame, resultVars, platformVars

\* Where a worker can be after a step, and what it has raised on the way
WorkerMove(i) ==
  /\ \A j \in Streams \ {i} : wpc'[j] = wpc[j]
  /\ wpc'[i] # wpc[i] => /\ i \in Workers /\ wpc'[i] \notin {"none", "open"}
                         /\ wpc[i] \notin {"none", "ended"}
  /\ wpc[i] = "gap" => wpc'[i] \in {"gap", "ended"}
  /\ wpc[i] = "unwind" => wpc'[i] = "unwind" \/ ~RUNNING'

WorkerSync(i) ==
  \/ UNCHANGED syncing_threads
  \/ /\ syncing_threads' = syncing_threads \cup {<<test, i>>}
     /\ i \in Workers /\ wpc[i] \in {"loop", "recv"}
     /\ wpc'[i] \notin {"none", "open", "gap"}

WorkerRaise(i) ==
  /\ \/ UNCHANGED raised
     \/ /\ i \in Workers /\ wpc'[i] = "gap" /\ UNCHANGED syncing_threads
        /\ \/ wpc[i] = "open" /\ \E f \in {"UNREACHABLE", "FORBIDDEN"} : raised' = raised \cup {f}
           \/ test = IP /\ wpc[i] = "tls" /\ raised' = raised \cup {"TLS_PARAMETERS_MISSING"}
  /\ wpc'[i] = "gap" => wpc[i] = "gap" \/ raised' # {} \/ (test = IP /\ wpc[i] = "open")
  /\ \/ UNCHANGED hasError
     \/ wpc[i] = "gap" /\ wpc'[i] = "ended"
     \/ wpc'[i] = "unwind" /\ i \in Workers

LEMMA WorkerMoves ==
  ASSUME NEW i \in Streams, TypeInv, WorkerThread(i) \/ SenderStops(i) \/ SenderDropped(i)
  PROVE  WorkerMove(i) /\ WorkerSync(i) /\ WorkerRaise(i)
<1> USE DEF At, Goto, Workers, WorkerMove, WorkerSync, WorkerRaise
<1>a. wpc \in [Streams -> {"none", "open", "loop", "recv", "gap", "tls", "unwind",
                           "stop", "join", "ended"}]
  BY DEF TypeInv, TypeOK, WorkersOK
<1>1. ASSUME NEW t \in Tests, Unreachable(t, i)
      PROVE  WorkerMove(i) /\ WorkerSync(i) /\ WorkerRaise(i)
  BY <1>1, <1>a DEF Unreachable, Flag
<1>2. ASSUME NEW t \in Tests, Flag(t, i, "open", "FORBIDDEN")
      PROVE  WorkerMove(i) /\ WorkerSync(i) /\ WorkerRaise(i)
  BY <1>2, <1>a DEF Flag
<1>3. CASE IpTlsMissing(i)
  BY <1>3, <1>a DEF IpTlsMissing, Flag
<1>4. ASSUME NEW t \in Tests, SetHasError(t, i) \/ Throw(t, i) \/ Unwind(t, i)
      PROVE  WorkerMove(i) /\ WorkerSync(i) /\ WorkerRaise(i)
  BY <1>4, <1>a DEF SetHasError, Throw, Unwind
<1>5. ASSUME NEW t \in Tests, ReceiveStep(t, i) \/ Opened(t, i)
      PROVE  WorkerMove(i) /\ WorkerSync(i) /\ WorkerRaise(i)
  <2>1. CASE Loop(t, i, IF t = UPLOAD THEN "stop" ELSE "ended")
    BY <2>1, <1>a DEF Loop, flagVars
  <2>2. ASSUME NEW response \in {"data", "gone"},
               NEW to \in {"loop", "ended", "stop", "tls"},
               Receive(t, i, response, to)
        PROVE  WorkerMove(i) /\ WorkerSync(i) /\ WorkerRaise(i)
    BY <2>2, <1>a DEF Receive, flagVars
  <2>3. CASE Opened(t, i)
    BY <2>3, <1>a DEF Opened, flagVars
  <2> QED BY <1>5, <2>1, <2>2, <2>3 DEF ReceiveStep
<1>6. CASE OwnWorkerStep(i)
  BY <1>6, <1>a DEF OwnWorkerStep, IpRefused, PingOpen, PingLoop, PingAnswer, PingDone,
    UploadStop, UploadJoin, flagVars
<1>7. CASE SenderStops(i) \/ SenderDropped(i)
  BY <1>7, <1>a DEF SenderStops, SenderDropped, SenderEnds, flagVars
<1> HIDE DEF At, Goto, Workers, WorkerMove, WorkerSync, WorkerRaise
<1>8. /\ IP \in Tests /\ RTT \in Tests /\ DOWNLOAD \in Tests /\ UPLOAD \in Tests
      /\ IP # UPLOAD /\ DOWNLOAD # UPLOAD
  BY DEF Tests, IP, RTT, DOWNLOAD, UPLOAD
<1>9. CASE IpThread(i)
  <2>1. \/ Unreachable(IP, i) \/ SetHasError(IP, i) \/ Throw(IP, i) \/ Unwind(IP, i)
        \/ ReceiveStep(IP, i) \/ Opened(IP, i) \/ IpTlsMissing(i) \/ IpRefused(i)
    BY <1>8, <1>9 DEF IpThread, WorkerFailure, IpReceive, IpReport, ReceiveStep, Loop
  <2> QED BY <1>1, <1>3, <1>4, <1>5, <1>6, <1>8, <2>1 DEF OwnWorkerStep
<1>10. CASE PingThread(i)
  BY <1>1, <1>4, <1>6, <1>8, <1>10 DEF PingThread, WorkerFailure, OwnWorkerStep
<1>11. CASE DownloadThread(i)
  <2>1. \/ Unreachable(DOWNLOAD, i) \/ SetHasError(DOWNLOAD, i) \/ Throw(DOWNLOAD, i)
        \/ Unwind(DOWNLOAD, i) \/ ReceiveStep(DOWNLOAD, i) \/ Opened(DOWNLOAD, i)
        \/ Flag(DOWNLOAD, i, "open", "FORBIDDEN")
    BY <1>8, <1>11 DEF DownloadThread, DownloadForbidden, DownloadReceive, DownloadDropped,
      WorkerFailure, ReceiveStep, Loop
  <2> QED BY <1>1, <1>2, <1>4, <1>5, <1>8, <2>1
<1>12. CASE UploadThread(i)
  <2>1. \/ Unreachable(UPLOAD, i) \/ SetHasError(UPLOAD, i) \/ Throw(UPLOAD, i)
        \/ Unwind(UPLOAD, i) \/ ReceiveStep(UPLOAD, i) \/ Opened(UPLOAD, i)
        \/ Flag(UPLOAD, i, "open", "FORBIDDEN") \/ UploadStop(i) \/ UploadJoin(i)
    BY <1>8, <1>12 DEF UploadThread, UploadForbidden, UploadReceive, UploadDropped,
      WorkerFailure, ReceiveStep, Loop
  <2> QED BY <1>1, <1>2, <1>4, <1>5, <1>6, <1>8, <2>1 DEF OwnWorkerStep
<1> QED BY <1>7, <1>9, <1>10, <1>11, <1>12 DEF WorkerThread

-----------------------------------------------------------------------------
(* Flags, errors and the steps between them *)

\* The IP test has a single worker
LEMMA OneIpWorker == test = IP => Workers = {1} /\ 1 \in Streams
BY TestData DEF Workers, Instances, Tests, IP, DOWNLOAD, UPLOAD

LEMMA FlagMain ==
  TypeInv /\ LifeInv /\ FlagInv /\ (MeasurementStart \/ MainThread) => FlagInv'
<1> SUFFICES ASSUME TypeInv, LifeInv, FlagInv, MeasurementStart \/ MainThread PROVE FlagInv'
  OBVIOUS
<1> USE DEF FlagInv, TestRuns, Workers
<1>a. wpc \in [Streams -> {"none", "open", "loop", "recv", "gap", "tls", "unwind",
                           "stop", "join", "ended"}]
  BY DEF TypeInv, TypeOK, WorkersOK
<1>1. CASE StartTestCase
  <2>1. raised' = {} /\ syncing_threads' = {}
    BY <1>1, StartsWithoutFlag DEF StartTestCase, flagVars, ClearedSync
  <2> QED BY <2>1
<1>2. CASE /\ TestRuns /\ MainFrame
           /\ UNCHANGED <<test, mResponse, syncing_threads, ipResult, pings, sender>>
           /\ UNCHANGED wpc \/ \E i \in Streams : CreateWorker(i)
  <2>1. UNCHANGED <<raised, test, syncing_threads>>
    BY <1>2 DEF MainFrame, flagVars
  <2>2. CASE UNCHANGED wpc
    BY <1>2, <2>1, <2>2
  <2>3. ASSUME NEW i \in Streams, CreateWorker(i) PROVE FlagInv'
    <3>1. wpc[i] = "none" /\ wpc' = [wpc EXCEPT ![i] = "open"]
      BY <2>3 DEF CreateWorker
    <3> QED BY <1>2, <1>a, <2>1, <3>1, OneIpWorker
  <2> QED BY <1>2, <2>2, <2>3
<1> QED BY <1>1, <1>2, MainSteps

LEMMA FlagWorker ==
  ASSUME NEW i \in Streams, TypeInv, SyncInv, FlagInv,
         WorkerThread(i) \/ SenderStops(i) \/ SenderDropped(i)
  PROVE  FlagInv'
<1> SUFFICES ASSUME TestRuns' PROVE FlagInv'
  BY DEF FlagInv
<1>1. UNCHANGED <<mpc, test>> /\ raised \subseteq raised' /\ UNCHANGED Workers
  BY WorkerChanges DEF WorkerFrame, mainVars, Workers
<1>2. TestRuns
  BY <1>1 DEF TestRuns
<1>3. WorkerMove(i) /\ WorkerSync(i) /\ WorkerRaise(i)
  BY WorkerMoves
<1>4. Workers \subseteq Streams
  BY <1>2, TestData DEF TypeInv, ThreadsInv, Workers
<1>5. ASSUME NEW j \in Workers, wpc'[j] \in {"none", "open"}
      PROVE  <<test, j>> \notin syncing_threads'
  <2>1. wpc[j] = wpc'[j]
    BY <1>3, <1>4, <1>5 DEF WorkerMove
  <2>2. <<test, j>> \notin syncing_threads
    BY <1>2, <1>5, <2>1 DEF FlagInv
  <2> QED BY <1>3, <1>5, <2>1, <2>2 DEF WorkerSync
<1>6. ASSUME raised' \cap {"UNREACHABLE", "FORBIDDEN"} # {}
      PROVE  \E w \in Workers : wpc'[w] \in {"gap", "ended"} /\ <<test, w>> \notin syncing_threads'
  <2>1. CASE raised \cap {"UNREACHABLE", "FORBIDDEN"} # {}
    <3>1. PICK w \in Workers : wpc[w] \in {"gap", "ended"} /\ <<test, w>> \notin syncing_threads
      BY <1>2, <2>1 DEF FlagInv
    <3>2. wpc'[w] \in {"gap", "ended"}
      BY <1>3, <1>4, <3>1 DEF WorkerMove
    <3>3. <<test, w>> \notin syncing_threads'
      BY <1>3, <3>1 DEF WorkerSync
    <3> QED BY <3>2, <3>3
  <2>2. CASE raised \cap {"UNREACHABLE", "FORBIDDEN"} = {}
    <3>1. i \in Workers /\ wpc[i] = "open" /\ wpc'[i] = "gap" /\ UNCHANGED syncing_threads
      BY <1>3, <1>6, <2>2 DEF WorkerRaise
    <3>2. <<test, i>> \notin syncing_threads
      BY <1>2, <3>1 DEF FlagInv
    <3> QED BY <3>1, <3>2
  <2> QED BY <2>1, <2>2
<1>7. ASSUME "TLS_PARAMETERS_MISSING" \in raised'
      PROVE  test = IP /\ raised' = {"TLS_PARAMETERS_MISSING"}
  <2>1. CASE UNCHANGED raised
    BY <1>2, <1>7, <2>1 DEF FlagInv
  <2>2. CASE raised' # raised
    <3>1. i \in Workers /\ wpc[i] \in {"open", "tls"}
      BY <1>3, <2>2 DEF WorkerRaise
    <3>2. test = IP
      BY <1>2, <1>3, <1>7, <2>2 DEF WorkerRaise, FlagInv
    <3>3. raised = {}
      BY <1>2, <3>1, <3>2, OneIpWorker DEF FlagInv
    <3> QED BY <1>3, <1>7, <2>2, <3>2, <3>3 DEF WorkerRaise
  <2> QED BY <2>1, <2>2
<1>8. ASSUME "STREAMS_DROPPED" \in raised' PROVE test \in {DOWNLOAD, UPLOAD}
  <2>1. "STREAMS_DROPPED" \in raised
    BY <1>3, <1>8 DEF WorkerRaise
  <2> QED BY <1>2, <2>1 DEF FlagInv
<1>9. ASSUME test = IP, wpc'[1] \notin {"gap", "ended"} PROVE raised' = {}
  <2>1. Workers = {1} /\ 1 \in Streams
    BY <1>9, OneIpWorker
  <2>2. wpc[1] \notin {"gap", "ended"}
    <3>1. wpc[1] = "ended" => wpc'[1] = "ended"
      BY <2>1, WorkerKeeps
    <3> QED BY <1>3, <1>9, <2>1, <3>1 DEF WorkerMove
  <2>3. raised = {}
    BY <1>2, <1>9, <2>2 DEF FlagInv
  <2> QED BY <1>3, <1>9, <2>1, <2>3 DEF WorkerRaise
<1> QED BY <1>1, <1>5, <1>6, <1>7, <1>8, <1>9 DEF FlagInv

LEMMA FlagStep ==
  TypeInv /\ LifeInv /\ SyncInv /\ FlagInv /\ [Next]_vars => FlagInv'
<1> SUFFICES ASSUME TypeInv, LifeInv, SyncInv, FlagInv, [Next]_vars PROVE FlagInv'
  OBVIOUS
<1> USE DEF FlagInv, TestRuns, Workers
<1>1. CASE MeasurementStart \/ MainThread
  BY <1>1, FlagMain
<1>2. CASE TimerThread \/ Clock
  <2>1. UNCHANGED <<mainVars, workerVars>>
    BY <1>2, TimerKeeps
  <2>2. CASE UNCHANGED raised
    BY <2>1, <2>2 DEF mainVars, workerVars
  <2>3. CASE CalculateStep
    BY <2>1, <2>3, StreamsStep DEF mainVars, workerVars, IP, DOWNLOAD, UPLOAD
  <2> QED BY <1>2, <2>2, <2>3, TimerKeeps
<1>3. CASE \E i \in Streams : WorkerThread(i) \/ SenderStops(i) \/ SenderDropped(i)
  BY <1>3, FlagWorker
<1>4. CASE StopCalled \/ StopTakesEffect \/ Halted \/ UNCHANGED vars
  BY <1>4, OtherSteps DEF mainVars, workerVars
<1> QED BY <1>1, <1>2, <1>3, <1>4 DEF Next

LEMMA HasErrorMain ==
  TypeInv /\ HasErrorInv /\ (MeasurementStart \/ MainThread) => HasErrorInv'
<1> SUFFICES ASSUME TypeInv, HasErrorInv, MeasurementStart \/ MainThread PROVE HasErrorInv'
  OBVIOUS
<1> USE DEF HasErrorInv, TestRuns, Workers
<1>a. test \in 1..5
  BY DEF TypeInv, TypeOK, MainOK
<1>1. CASE MeasurementStart
  BY <1>1 DEF MeasurementStart
<1>2. CASE Refuse \/ EndPhase \/ Shutdown
  BY <1>2 DEF Refuse, EndPhase, Shutdown, flagVars
<1>3. CASE SkipTestCase \/ JoinTimer
  BY <1>3, <1>a DEF SkipTestCase, JoinTimer, MainFrame, flagVars, Tests, IP
<1>4. CASE StartTestCase
  <2>1. ~hasError /\ UNCHANGED hasError
    BY <1>4 DEF StartTestCase, MayRun, flagVars
  <2>2. \A i \in Workers : i \in Streams
    BY <1>4, TestData DEF StartTestCase
  <2> QED BY <1>4, <2>1, <2>2 DEF StartTestCase
<1>5. CASE SetDuration \/ Publish \/ JoinWorkers \/ DestroyWorkers
  BY <1>5 DEF SetDuration, Publish, JoinWorkers, DestroyWorkers, MainFrame, flagVars, workerVars
<1>6. ASSUME NEW i \in Streams, CreateWorker(i) PROVE HasErrorInv'
  <2>1. wpc \in [Streams -> {"none", "open", "loop", "recv", "gap", "tls", "unwind",
                             "stop", "join", "ended"}]
    BY DEF TypeInv, TypeOK, WorkersOK
  <2>2. /\ wpc[i] = "none" /\ wpc' = [wpc EXCEPT ![i] = "open"]
        /\ mpc = "create" /\ mpc' \in {"create", "publish"}
        /\ UNCHANGED <<test, raised, hasError, RUNNING, syncing_threads>>
    BY <1>6 DEF CreateWorker, MainFrame, flagVars
  <2>3. Workers \subseteq Streams
    BY <2>2, TestData DEF TypeInv, ThreadsInv
  <2> QED BY <2>1, <2>2, <2>3, OneIpWorker
<1> QED BY <1>1, <1>2, <1>3, <1>4, <1>5, <1>6 DEF MainThread, MeasurementStep

LEMMA HasErrorWorker ==
  ASSUME NEW i \in Streams, TypeInv, SyncInv, FlagInv, HasErrorInv,
         WorkerThread(i) \/ SenderStops(i) \/ SenderDropped(i)
  PROVE  HasErrorInv'
<1>1. /\ UNCHANGED <<mpc, test>> /\ raised \subseteq raised' /\ UNCHANGED Workers
      /\ RUNNING' => RUNNING
  BY WorkerChanges DEF WorkerFrame, mainVars, Workers
<1>2. WorkerMove(i) /\ WorkerSync(i) /\ WorkerRaise(i)
  BY WorkerMoves
<1>3. ASSUME mpc \in {"refuse", "phase"} PROVE UNCHANGED hasError
  BY <1>3, NoWorker DEF SenderStops, SenderDropped, SenderEnds, flagVars
<1>4. ASSUME TestRuns, NEW j \in Workers, wpc'[j] = "gap"
      PROVE  raised' # {} \/ (test = IP /\ syncing_threads' = {})
  <2>1. j \in Streams
    BY <1>4, TestData DEF TypeInv, ThreadsInv, Workers
  <2>2. CASE wpc[j] = "gap"
    <3>1. raised # {} \/ (test = IP /\ syncing_threads = {})
      BY <1>4, <2>2 DEF HasErrorInv
    <3>2. test = IP => i = j \/ UNCHANGED syncing_threads
      BY <1>2, <1>4, OneIpWorker DEF WorkerSync
    <3> QED BY <1>1, <1>2, <2>2, <3>1, <3>2 DEF WorkerSync
  <2>3. CASE wpc[j] # "gap"
    <3>1. i = j /\ (raised' # {} \/ (test = IP /\ wpc[i] = "open"))
      BY <1>2, <1>4, <2>1, <2>3 DEF WorkerMove, WorkerRaise
    <3>2. ASSUME test = IP, wpc[i] = "open" PROVE syncing_threads' = {}
      <4>1. Workers = {1} /\ j = 1
        BY <1>4, <3>2, OneIpWorker
      <4>2. <<test, 1>> \notin syncing_threads
        BY <1>4, <3>1, <3>2, <4>1 DEF FlagInv
      <4>3. syncing_threads \subseteq {test} \X {1}
        BY <1>4, <4>1 DEF SyncInv, SyncedInv
      <4> QED BY <1>2, <3>2, <4>2, <4>3 DEF WorkerSync
    <3> QED BY <3>1, <3>2
  <2> QED BY <2>2, <2>3
<1>5. ASSUME TestRuns, hasError', RUNNING'
      PROVE  \/ raised' # {}
             \/ \E j \in Workers : wpc'[j] = "unwind"
             \/ test = IP /\ wpc'[1] = "ended" /\ syncing_threads' = {}
  <2>a. Workers \subseteq Streams
    BY <1>5, TestData DEF TypeInv, ThreadsInv, Workers
  <2>1. CASE hasError
    <3>1. CASE raised # {}
      BY <1>1, <3>1
    <3>2. ASSUME NEW j \in Workers, wpc[j] = "unwind" PROVE wpc'[j] = "unwind"
      BY <1>2, <1>5, <2>a, <3>2 DEF WorkerMove
    <3>3. ASSUME test = IP, wpc[1] = "ended", syncing_threads = {}
          PROVE  wpc'[1] = "ended" /\ syncing_threads' = {}
      <4>1. wpc'[1] = "ended"
        BY <3>3, OneIpWorker, WorkerKeeps
      <4>2. UNCHANGED syncing_threads
        BY <1>2, <3>3, OneIpWorker DEF WorkerSync
      <4> QED BY <3>3, <4>1, <4>2
    <3>4. \/ raised # {}
          \/ \E j \in Workers : wpc[j] = "unwind"
          \/ test = IP /\ wpc[1] = "ended" /\ syncing_threads = {}
      BY <1>1, <1>5, <2>1 DEF HasErrorInv
    <3> QED BY <3>1, <3>2, <3>3, <3>4
  <2>2. CASE ~hasError
    <3>1. CASE wpc[i] = "gap" /\ wpc'[i] = "ended"
      <4>1. i \in Workers
        BY <3>1 DEF TypeInv, ThreadsInv, Alive
      <4>2. raised # {} \/ (test = IP /\ syncing_threads = {})
        BY <1>5, <3>1, <4>1 DEF HasErrorInv
      <4>3. UNCHANGED syncing_threads
        BY <1>2, <3>1 DEF WorkerSync
      <4>4. test = IP => i = 1
        BY <4>1, OneIpWorker
      <4> QED BY <1>1, <3>1, <4>2, <4>3, <4>4
    <3>2. CASE wpc'[i] = "unwind" /\ i \in Workers
      BY <3>2
    <3> QED BY <1>2, <1>5, <2>2, <3>1, <3>2 DEF WorkerRaise
  <2> QED BY <2>1, <2>2
<1> QED BY <1>1, <1>3, <1>4, <1>5 DEF HasErrorInv, TestRuns

LEMMA HasErrorStep ==
  TypeInv /\ SyncInv /\ FlagInv /\ HasErrorInv /\ [Next]_vars => HasErrorInv'
<1> SUFFICES ASSUME TypeInv, SyncInv, FlagInv, HasErrorInv, [Next]_vars PROVE HasErrorInv'
  OBVIOUS
<1> USE DEF HasErrorInv, TestRuns, Workers
<1>1. CASE MeasurementStart \/ MainThread
  BY <1>1, HasErrorMain
<1>2. CASE TimerThread \/ Clock
  <2>1. UNCHANGED <<RUNNING, mainVars, workerVars>>
    BY <1>2, TimerKeeps
  <2>2. CASE UNCHANGED <<hasError, raised>>
    BY <2>1, <2>2 DEF mainVars, workerVars
  <2>3. CASE CalculateStep
    <3>1. TestRuns
      BY <2>3, StreamsStep DEF TypeInv, ThreadsInv
    <3> QED BY <2>1, <2>3, <3>1, StreamsStep DEF mainVars, workerVars
  <2> QED BY <1>2, <2>2, <2>3, TimerKeeps
<1>3. CASE \E i \in Streams : WorkerThread(i) \/ SenderStops(i) \/ SenderDropped(i)
  BY <1>3, HasErrorWorker
<1>4. CASE StopCalled \/ StopTakesEffect \/ Halted \/ UNCHANGED vars
  BY <1>4, OtherSteps DEF mainVars, workerVars
<1> QED BY <1>1, <1>2, <1>3, <1>4 DEF Next

\* A message of the timer thread names the running test case
LEMMA SpeaksOfTest == ASSUME TypeInv, tpc # "ended" PROVE sTestName = test
BY DEF TypeInv, ThreadsInv

\* What a step of the timer thread tells the platform
LEMMA TimerErrors ==
  ASSUME TypeInv, TimerThread \/ Clock
  PROVE  \/ UNCHANGED errors
         \/ tpc \in Checks \cap raised /\ errors' = errors \cup {<<test, ErrorCode[tpc]>>}
         \/ /\ tpc = "inner" /\ "STREAMS_DROPPED" \in raised
            /\ errors' = errors \cup {<<test, ErrorCode["STREAMS_DROPPED"]>>}
<1>1. CASE TimerWhile \/ TimerSync \/ TimerStart \/ TimerTick \/ TimerAgain \/ TimerTail
           \/ TimerOff
  BY <1>1 DEF TimerWhile, TimerSync, TimerStart, TimerTick, TimerAgain, TimerTail,
    TimerOff, Quiet, platformVars
<1>2. CASE TimerCheck
  BY <1>2, SpeaksOfTest DEF TimerCheck, Checks, ReportError, platformVars
<1>3. CASE TimerDropped
  BY <1>3, SpeaksOfTest DEF TimerDropped, DropSeen, ReportError
<1>4. CASE Misuse \/ IpCallback \/ RttUdpCallback \/ CalculateEnd
  BY <1>4 DEF Misuse, IpCallback, RttUdpCallback, CalculateEnd, HandlerFrame, platformVars
<1>5. CASE CalculateStep
  BY <1>5, StreamsStep
<1>6. CASE ReportDone \/ FinishDone \/ Clock
  BY <1>6 DEF ReportDone, FinishDone, Clock, platformVars
<1> QED BY <1>1, <1>2, <1>3, <1>4, <1>5, <1>6 DEF TimerThread, CallbackStep

\* The timer thread never puts TIMER_RUNNING back
LEMMA TimerRunsOn == ASSUME TimerThread \/ Clock PROVE TIMER_RUNNING => TIMER_RUNNING'
<1>1. CASE TimerWhile \/ TimerCheck \/ TimerSync \/ TimerStart \/ TimerDropped \/ TimerTick
           \/ TimerAgain \/ TimerTail \/ TimerOff
  BY <1>1 DEF TimerWhile, TimerCheck, TimerSync, TimerStart, TimerDropped, TimerTick,
    TimerAgain, TimerTail, TimerOff, timerFlags
<1>2. CASE Misuse \/ IpCallback \/ RttUdpCallback \/ CalculateEnd
  BY <1>2 DEF Misuse, IpCallback, RttUdpCallback, CalculateEnd, HandlerFrame
<1>3. CASE CalculateStep
  BY <1>3, StreamsStep
<1>4. CASE ReportDone \/ FinishDone \/ Clock
  BY <1>4 DEF ReportDone, FinishDone, Clock, timerFlags
<1> QED BY <1>1, <1>2, <1>3, <1>4 DEF TimerThread, CallbackStep

LEMMA CodeStep ==
  TypeInv /\ LifeInv /\ ErrorInv /\ ProtocolInv /\ PositionInv /\ CodeInv /\ [Next]_vars
    => CodeInv'
<1> SUFFICES ASSUME TypeInv, LifeInv, ErrorInv, ProtocolInv, PositionInv, CodeInv, [Next]_vars
             PROVE  CodeInv'
  OBVIOUS
<1> USE DEF CodeInv, TestRuns
<1>1. CASE MeasurementStart \/ MainThread
  <2>1. CASE StartTestCase
    BY <2>1, StartsWithoutError DEF StartTestCase, platformVars
  <2>2. CASE TestRuns /\ MainFrame /\ UNCHANGED test
    BY <2>2 DEF MainFrame, flagVars, platformVars
  <2> QED BY <1>1, <2>1, <2>2, MainSteps
<1>2. CASE TimerThread \/ Clock
  <2>1. /\ UNCHANGED <<mpc, test>> /\ raised \subseteq raised'
        /\ TIMER_RUNNING => TIMER_RUNNING'
    BY <1>2, TimerKeeps, StreamsStep, TimerRunsOn DEF mainVars
  <2>2. CASE UNCHANGED errors
    BY <2>1, <2>2
  <2>3. CASE tpc \in Checks \cap raised /\ errors' = errors \cup {<<test, ErrorCode[tpc]>>}
    <3>1. errors = {}
      BY <2>3 DEF ProtocolInv, ErrorsInv, Checks
    <3> QED BY <2>1, <2>3, <3>1 DEF Checks
  <2>4. CASE /\ tpc = "inner" /\ "STREAMS_DROPPED" \in raised
             /\ errors' = errors \cup {<<test, ErrorCode["STREAMS_DROPPED"]>>}
    <3>1. errors = {}
      BY <2>4 DEF ProtocolInv, ErrorsInv
    <3>2. TestRuns => TIMER_RUNNING
      BY <2>4 DEF PositionInv, Reporting
    <3> QED BY <2>1, <2>4, <3>1, <3>2
  <2> QED BY <1>2, <2>2, <2>3, <2>4, TimerErrors
<1>3. ASSUME NEW i \in Streams, WorkerThread(i) \/ SenderStops(i) \/ SenderDropped(i)
      PROVE  CodeInv'
  BY <1>3, WorkerChanges DEF WorkerFrame, mainVars, platformVars
<1>4. CASE StopCalled \/ StopTakesEffect \/ Halted \/ UNCHANGED vars
  BY <1>4, OtherSteps DEF timerFlags, mainVars, platformVars
<1> QED BY <1>1, <1>2, <1>3, <1>4 DEF Next

LEMMA DroppedTimer ==
  ASSUME TypeInv, LifeInv, IndexInv, FlagInv, DroppedInv, TimerThread \/ Clock
  PROVE  DroppedInv'
<1> SUFFICES ASSUME TestRuns', "STREAMS_DROPPED" \in raised', RUNNING',
                    <<test, ErrorCode["STREAMS_DROPPED"]>> \notin errors',
                    test \notin finished'
             PROVE  Finishing' \/ (Reporting' /\ ~TIMER_STOPPED')
  <2>1. UNCHANGED test
    BY TimerKeeps DEF mainVars
  <2> QED BY <2>1 DEF DroppedInv
<1>1. TestRuns /\ RUNNING /\ UNCHANGED test
  BY TimerKeeps DEF mainVars, TestRuns
<1>2. errors \subseteq errors'
  BY TimerErrors
<1>3. CASE CalculateStep
  <2>1. /\ tpc = "call" /\ test \in {DOWNLOAD, UPLOAD}
        /\ UNCHANGED <<tpc, cmd, TIMER_STOPPED>> /\ cmd \in {"report", "finish"}
    BY <1>3, StreamsStep DEF TypeInv, TypeOK, TimerOK
  <2>2. cmd = "report" => ~TIMER_STOPPED
    BY <1>1, <2>1 DEF IndexInv
  <2> QED BY <2>1, <2>2 DEF Finishing, Reporting
<1>4. CASE FinishDone
  BY <1>1, <1>4, SpeaksOfTest DEF FinishDone
<1>5. CASE ~CalculateStep /\ ~FinishDone
  <2>1. "STREAMS_DROPPED" \in raised
    BY <1>5, TimerKeeps
  <2>2. finished \subseteq finished'
    BY <1>5 DEF TimerThread, TimerWhile, TimerSync, TimerStart, TimerTick, TimerAgain,
      TimerTail, TimerOff, Quiet, TimerCheck, TimerDropped, ReportError, CallbackStep, Misuse,
      IpCallback, RttUdpCallback, CalculateEnd, HandlerFrame, ReportDone, Clock, platformVars
  <2>3. Finishing \/ (Reporting /\ ~TIMER_STOPPED)
    BY <1>1, <1>2, <2>1, <2>2 DEF DroppedInv
  <2>4. test \in {DOWNLOAD, UPLOAD} /\ test # IP
    BY <1>1, <2>1 DEF FlagInv, IP, DOWNLOAD, UPLOAD
  <2> USE DEF Finishing, Reporting
  <2>5. CASE TimerWhile \/ TimerCheck \/ TimerSync \/ TimerStart \/ TimerTail \/ TimerOff
    BY <2>3, <2>5 DEF TimerWhile, TimerCheck, Checks, TimerSync, TimerStart, TimerTail, TimerOff
  <2>6. CASE TimerDropped
    BY <1>1, <2>6, SpeaksOfTest DEF TimerDropped, ReportError
  <2>7. CASE TimerTick
    BY <2>1, <2>7 DEF TimerTick, DropSeen
  <2>8. CASE TimerAgain
    BY <1>1, <2>3, <2>8 DEF TimerAgain, MayPoll, timerFlags
  <2>9. CASE Misuse \/ IpCallback \/ RttUdpCallback \/ CalculateEnd
    BY <2>3, <2>4, <2>9 DEF Misuse, IpCallback, RttUdpCallback, CalculateEnd, HandlerFrame
  <2>10. CASE ReportDone \/ Clock
    BY <2>3, <2>10 DEF ReportDone, Clock, timerFlags, timerVars
  <2> QED BY <1>5, <2>5, <2>6, <2>7, <2>8, <2>9, <2>10 DEF TimerThread, CallbackStep
<1> QED BY <1>3, <1>4, <1>5

LEMMA DroppedStep ==
  TypeInv /\ LifeInv /\ IndexInv /\ FlagInv /\ DroppedInv /\ [Next]_vars => DroppedInv'
<1> SUFFICES ASSUME TypeInv, LifeInv, IndexInv, FlagInv, DroppedInv, [Next]_vars
             PROVE  DroppedInv'
  OBVIOUS
<1> USE DEF DroppedInv, Finishing, Reporting, TestRuns
<1>1. CASE MeasurementStart \/ MainThread
  <2>1. CASE StartTestCase
    BY <2>1, StartsWithoutFlag DEF StartTestCase, flagVars
  <2>2. CASE TestRuns /\ MainFrame /\ UNCHANGED test
    BY <2>2 DEF MainFrame, flagVars, timerVars, platformVars
  <2> QED BY <1>1, <2>1, <2>2, MainSteps
<1>2. CASE TimerThread \/ Clock
  BY <1>2, DroppedTimer
<1>3. ASSUME NEW i \in Streams, WorkerThread(i) \/ SenderStops(i) \/ SenderDropped(i)
      PROVE  DroppedInv'
  <2>1. /\ UNCHANGED <<mpc, test, tpc, cmd, errors, finished>> /\ (RUNNING' => RUNNING)
    BY <1>3, WorkerChanges DEF WorkerFrame, mainVars, timerVars, platformVars
  <2>2. "STREAMS_DROPPED" \in raised' => "STREAMS_DROPPED" \in raised
    BY <1>3, WorkerMoves DEF WorkerRaise
  <2>3. UNCHANGED TIMER_STOPPED \/ test = RTT
    BY <1>3, WorkerKeeps DEF PingDone, At
  <2>4. TestRuns /\ "STREAMS_DROPPED" \in raised => test # RTT
    BY DEF FlagInv, RTT, DOWNLOAD, UPLOAD
  <2> QED BY <2>1, <2>2, <2>3, <2>4
<1>4. CASE StopCalled \/ StopTakesEffect \/ Halted \/ UNCHANGED vars
  BY <1>4, OtherSteps DEF timerFlags, timerVars, mainVars, platformVars
<1> QED BY <1>1, <1>2, <1>3, <1>4 DEF Next

-----------------------------------------------------------------------------
(* How a test case ends *)

\* The timer thread ends with the clearing of RUNNING or with TIMER_STOPPED
LEMMA EndedReports ==
  ASSUME TypeInv, SyncInv, PositionInv, StoppedInv, FlagInv, CodeInv, DroppedInv
  PROVE  FailureReported
<1> SUFFICES ASSUME TestRuns, tpc = "ended", RUNNING
             PROVE
    /\ raised \cap {"UNREACHABLE", "FORBIDDEN"} # {} =>
         \/ <<test, ErrorCode["UNREACHABLE"]>> \in errors
         \/ <<test, ErrorCode["FORBIDDEN"]>> \in errors
    /\ "TLS_PARAMETERS_MISSING" \in raised =>
         <<test, ErrorCode["TLS_PARAMETERS_MISSING"]>> \in errors \/ TIMER_RUNNING
    /\ "STREAMS_DROPPED" \in raised =>
         <<test, ErrorCode["STREAMS_DROPPED"]>> \in errors \/ test \in finished
  BY DEF FailureReported
<1>1. errors # {} \/ TIMER_RUNNING \/ RttDone
  BY DEF PositionInv, StoppedInv
<1>2. ASSUME raised \cap {"UNREACHABLE", "FORBIDDEN"} # {}
      PROVE  \/ <<test, ErrorCode["UNREACHABLE"]>> \in errors
             \/ <<test, ErrorCode["FORBIDDEN"]>> \in errors
  <2>1. PICK i \in Workers : <<test, i>> \notin syncing_threads
    BY <1>2 DEF FlagInv
  <2>2. ~TIMER_RUNNING
    BY <2>1 DEF SyncInv, SyncedInv
  <2>3. ~RttDone
    <3>1. test = RTT => Workers = {1}
      BY DEF Workers, Instances, Tests, RTT, DOWNLOAD, UPLOAD
    <3>2. syncing_threads \subseteq {test} \X Workers
      BY DEF SyncInv, SyncedInv
    <3> QED BY <2>1, <3>1, <3>2 DEF RttDone
  <2>4. PICK f \in raised : /\ errors = {<<test, ErrorCode[f]>>}
                            /\ f = "STREAMS_DROPPED" => TIMER_RUNNING
    BY <1>1, <2>2, <2>3 DEF CodeInv
  <2>5. f # "TLS_PARAMETERS_MISSING"
    BY <1>2, <2>4 DEF FlagInv
  <2>6. f \in {"UNREACHABLE", "FORBIDDEN"}
    BY <2>2, <2>4, <2>5, FlagSet DEF TypeInv, TypeOK, ResultsOK
  <2> QED BY <2>4, <2>6
<1>3. ASSUME "TLS_PARAMETERS_MISSING" \in raised, ~TIMER_RUNNING
      PROVE  <<test, ErrorCode["TLS_PARAMETERS_MISSING"]>> \in errors
  <2>1. test = IP /\ raised = {"TLS_PARAMETERS_MISSING"}
    BY <1>3 DEF FlagInv
  <2>2. errors # {}
    BY <1>1, <1>3, <2>1 DEF RttDone, IP, RTT
  <2> QED BY <2>1, <2>2 DEF CodeInv
<1>4. ASSUME "STREAMS_DROPPED" \in raised
      PROVE  <<test, ErrorCode["STREAMS_DROPPED"]>> \in errors \/ test \in finished
  BY <1>4 DEF DroppedInv, Finishing, Reporting
<1> QED BY <1>2, <1>3, <1>4

\* An ended test case that leaves hasError set has been reported, but for the
\* two silent failures
LEMMA JoinedReports ==
  ASSUME TypeInv, SyncInv, PositionInv, StoppedInv, FlagInv, HasErrorInv, CodeInv, DroppedInv,
         JoinTimer, RUNNING, hasError
  PROVE  errors # {} \/ raised \cap {"TLS_PARAMETERS_MISSING", "STREAMS_DROPPED"} # {}
<1>1. mpc = "joinTimer" /\ tpc = "ended" /\ TestRuns
  BY DEF JoinTimer, TestRuns
<1>2. CASE raised # {}
  <2>1. CASE raised \cap {"UNREACHABLE", "FORBIDDEN"} # {}
    BY <1>1, <2>1, EndedReports DEF FailureReported
  <2>2. CASE raised \cap {"UNREACHABLE", "FORBIDDEN"} = {}
    BY <1>2, <2>2, FlagSet DEF TypeInv, TypeOK, ResultsOK
  <2> QED BY <2>1, <2>2
<1>3. ASSUME NEW j \in Workers, wpc[j] = "unwind" PROVE FALSE
  <2>1. j \in Streams
    BY <1>1, TestData DEF TypeInv, ThreadsInv, Workers
  <2> QED BY <1>1, <1>3, <2>1 DEF TypeInv, ThreadsInv, Alive
<1>4. CASE test = IP /\ syncing_threads = {}
  <2>1. ~TIMER_RUNNING
    <3>1. <<test, 1>> \in {test} \X Workers
      BY <1>4, OneIpWorker
    <3> QED BY <1>1, <1>4, <3>1 DEF SyncInv, SyncedInv
  <2>2. ~RttDone
    BY <1>4 DEF RttDone
  <2> QED BY <1>1, <2>1, <2>2 DEF PositionInv, StoppedInv
<1> QED BY <1>1, <1>2, <1>3, <1>4 DEF HasErrorInv

LEMMA OutcomeMain ==
  ASSUME TypeInv, SyncInv, ProtocolInv, PositionInv, StoppedInv, FlagInv, HasErrorInv,
         CodeInv, DroppedInv, OutcomeInv, MeasurementStart \/ MainThread
  PROVE  OutcomeInv'
<1> USE DEF OutcomeInv, MainFrame
<1>1. CASE MeasurementStart
  <2>1. IP \in plan'
    <3>1. PICK p \in SUBSET {RTT, DOWNLOAD, UPLOAD} : plan' = {IP} \cup p
      BY <1>1 DEF MeasurementStart, Plans
    <3> QED BY <3>1
  <2> QED BY <1>1, <2>1 DEF MeasurementStart, FreshPerformed
<1>2. CASE Refuse
  BY <1>2 DEF Refuse, ReportError, resultVars
<1>3. CASE SkipTestCase
  BY <1>3 DEF SkipTestCase, flagVars, resultVars, platformVars
<1>4. CASE StartTestCase
  BY <1>4 DEF StartTestCase, platformVars
<1>5. CASE EndPhase
  <2>1. /\ mpc = "phase" /\ mpc' = "shutdown"
        /\ UNCHANGED <<RUNNING, hasError, raised, plan, PERFORMED, completed, errors>>
    BY <1>5 DEF EndPhase, flagVars, platformVars
  <2>2. ASSUME RUNNING, ~hasError PROVE completed
    <3>1. test = 5 /\ plan \subseteq 1..4
      BY <1>5 DEF EndPhase, TypeInv, TypeOK, MainOK, Tests
    <3>2. \A u \in plan : u \in PERFORMED
      BY <2>1, <2>2, <3>1 DEF ProtocolInv, OrderInv
    <3> QED BY <2>1, <3>2
  <2> QED BY <2>1, <2>2
<1>6. CASE Shutdown
  BY <1>6 DEF Shutdown, resultVars, platformVars
<1>7. CASE \/ SetDuration \/ Publish \/ JoinWorkers \/ DestroyWorkers
           \/ \E i \in Streams : CreateWorker(i)
  BY <1>7 DEF SetDuration, Publish, JoinWorkers, DestroyWorkers, CreateWorker, flagVars,
    resultVars, platformVars
<1>8. CASE JoinTimer
  BY <1>8, JoinedReports DEF JoinTimer, flagVars, resultVars, platformVars
<1> QED
  BY <1>1, <1>2, <1>3, <1>4, <1>5, <1>6, <1>7, <1>8 DEF MainThread, MeasurementStep

LEMMA OutcomeTimer ==
  ASSUME TypeInv, ProtocolInv, OutcomeInv, TimerThread \/ Clock
  PROVE  OutcomeInv'
<1> USE DEF OutcomeInv
<1>1. UNCHANGED <<RUNNING, mpc, plan>> /\ errors \subseteq errors' /\ raised \subseteq raised'
  BY TimerKeeps, TimerErrors, StreamsStep DEF mainVars
<1>2. CASE FinishDone
  <2>1. TestRuns /\ tpc = "post"
    BY <1>2 DEF FinishDone, TypeInv, ThreadsInv
  <2>2. test \in plan
    BY <2>1 DEF ProtocolInv, PlanInv
  <2>3. PERFORMED' = PERFORMED \cup {test}
    BY <1>2 DEF FinishDone
  <2>4. PERFORMED' = plan => completed'
    BY <1>2, <2>3, Zenon DEF FinishDone, AllPerformed
  <2> QED BY <1>1, <2>1, <2>2, <2>3, <2>4 DEF TestRuns
<1>3. CASE ~FinishDone
  <2>1. UNCHANGED <<PERFORMED, completed>>
    BY <1>3, StreamsStep DEF TimerThread, TimerWhile, TimerSync, TimerStart, TimerTick,
      TimerAgain, TimerTail, TimerOff, Quiet, TimerCheck, TimerDropped, ReportError,
      CallbackStep, Misuse, IpCallback, RttUdpCallback, CalculateStep, CalculateEnd,
      HandlerFrame, ReportDone, Clock, platformVars, resultVars
  <2>2. mpc \in {"phase", "shutdown"} => UNCHANGED hasError
    <3>1. mpc \in {"phase", "shutdown"} => ~CalculateStep
      BY StreamsStep DEF TypeInv, ThreadsInv, TestRuns
    <3> QED BY <3>1, TimerKeeps
  <2> QED BY <1>1, <2>1, <2>2
<1> QED BY <1>2, <1>3

LEMMA OutcomeStep ==
  ASSUME TypeInv, SyncInv, ProtocolInv, PositionInv, StoppedInv, FlagInv, HasErrorInv,
         CodeInv, DroppedInv, OutcomeInv, [Next]_vars
  PROVE  OutcomeInv'
<1> USE DEF OutcomeInv
<1>1. CASE MeasurementStart \/ MainThread
  BY <1>1, OutcomeMain
<1>2. CASE TimerThread \/ Clock
  BY <1>2, OutcomeTimer
<1>3. ASSUME NEW i \in Streams, WorkerThread(i) \/ SenderStops(i) \/ SenderDropped(i)
      PROVE  OutcomeInv'
  <2>1. WorkerFrame /\ raised \subseteq raised' /\ (RUNNING' => RUNNING)
    BY <1>3, WorkerChanges
  <2>2. mpc \in {"phase", "shutdown"} => UNCHANGED hasError
    BY <1>3, NoWorker DEF SenderStops, SenderDropped, SenderEnds, flagVars
  <2> QED BY <2>1, <2>2 DEF WorkerFrame, mainVars, resultVars, platformVars
<1>4. CASE StopCalled \/ StopTakesEffect \/ Halted \/ UNCHANGED vars
  BY <1>4, OtherSteps DEF mainVars, resultVars, platformVars
<1> QED BY <1>1, <1>2, <1>3, <1>4 DEF Next

-----------------------------------------------------------------------------
(* The senders of the upload test *)

LEMMA SenderWorker ==
  ASSUME NEW i \in Streams, TypeInv, SenderInv,
         WorkerThread(i) \/ SenderStops(i) \/ SenderDropped(i)
  PROVE  SenderInv'
<1> SUFFICES ASSUME TestRuns, test = UPLOAD PROVE SenderInv'
  BY WorkerChanges DEF SenderInv, TestRuns, WorkerFrame, mainVars
<1> USE DEF SenderInv, TestRuns, At, Goto, WorkerFrame, mainVars
<1>a. /\ wpc \in [Streams -> {"none", "open", "loop", "recv", "gap", "tls", "unwind",
                              "stop", "join", "ended"}]
      /\ sender \in [Streams -> {"none", "sending", "stopping", "ended"}]
  BY DEF TypeInv, TypeOK, WorkersOK
<1>1. CASE SenderStops(i) \/ SenderDropped(i)
  BY <1>1, <1>a DEF SenderStops, SenderMustEnd, SenderDropped, SenderEnds, flagVars
<1>2. CASE UploadThread(i)
  <2>1. CASE \E f \in Flags : Flag(UPLOAD, i, "open", f)
    BY <2>1, <1>a DEF Flag
  <2>2. CASE SetHasError(UPLOAD, i)
    BY <2>2, <1>a DEF SetHasError
  <2>3. CASE Throw(UPLOAD, i)
    BY <2>3, <1>a DEF Throw
  <2>4. CASE Unwind(UPLOAD, i)
    BY <2>4, <1>a DEF Unwind
  <2>5. CASE Opened(UPLOAD, i) \/ Loop(UPLOAD, i, "stop")
    BY <2>5, <1>a DEF Opened, Loop, flagVars
  <2>6. CASE UploadReceive(i) \/ UploadDropped(i)
    BY <2>6, <1>a DEF UploadReceive, UploadDropped, Receive, flagVars
  <2>7. CASE UploadStop(i) \/ UploadJoin(i)
    BY <2>7, <1>a DEF UploadStop, UploadJoin, SenderJoined, flagVars
  <2> QED BY <1>2, <2>1, <2>2, <2>3, <2>4, <2>5, <2>6, <2>7, FlagSet
    DEF UploadThread, WorkerFailure, Unreachable, UploadForbidden
<1>3. ~IpThread(i) /\ ~PingThread(i) /\ ~DownloadThread(i)
  <2>1. UPLOAD \notin {IP, RTT, DOWNLOAD}
    BY DEF IP, RTT, DOWNLOAD, UPLOAD
  <2>2. ASSUME NEW t \in {IP, RTT, DOWNLOAD} PROVE ~WorkerFailure(t, i)
    BY <2>1 DEF WorkerFailure, Unreachable, Flag, SetHasError, Throw, Unwind
  <2>3. ~IpThread(i)
    BY <2>1, <2>2 DEF IpThread, IpRefused, Opened, Loop, IpReceive, IpReport, Receive,
      IpTlsMissing, Flag
  <2>4. ~PingThread(i)
    BY <2>1, <2>2 DEF PingThread, PingOpen, PingLoop, PingAnswer, PingDone
  <2>5. ~DownloadThread(i)
    BY <2>1, <2>2 DEF DownloadThread, DownloadForbidden, Flag, Opened, Loop, DownloadReceive,
      DownloadDropped, Receive
  <2> QED BY <2>3, <2>4, <2>5
<1> QED BY <1>1, <1>2, <1>3 DEF WorkerThread

LEMMA SenderStep == TypeInv /\ SenderInv /\ [Next]_vars => SenderInv'
<1> SUFFICES ASSUME TypeInv, SenderInv, [Next]_vars PROVE SenderInv'
  OBVIOUS
<1> USE DEF SenderInv, TestRuns
<1>a. wpc \in [Streams -> {"none", "open", "loop", "recv", "gap", "tls", "unwind",
                           "stop", "join", "ended"}]
  BY DEF TypeInv, TypeOK, WorkersOK
<1>1. CASE MeasurementStart \/ MainThread
  <2>1. CASE StartTestCase
    BY <2>1 DEF StartTestCase
  <2>2. CASE /\ TestRuns /\ MainFrame /\ UNCHANGED <<test, sender>>
             /\ UNCHANGED wpc \/ \E i \in Streams : CreateWorker(i)
    BY <2>2, <1>a DEF MainFrame, flagVars, CreateWorker
  <2> QED BY <1>1, <2>1, <2>2, MainSteps
<1>2. CASE TimerThread \/ Clock
  BY <1>2, TimerKeeps DEF mainVars, workerVars
<1>3. CASE \E i \in Streams : WorkerThread(i) \/ SenderStops(i) \/ SenderDropped(i)
  BY <1>3, SenderWorker
<1>4. CASE StopCalled \/ StopTakesEffect \/ Halted \/ UNCHANGED vars
  BY <1>4, OtherSteps DEF mainVars, workerVars
<1> QED BY <1>1, <1>2, <1>3, <1>4 DEF Next

-----------------------------------------------------------------------------
(* The theorems *)

\* All of the above, on top of the invariants proved before
OutcomesInv ==
  /\ TypeInv /\ LifeInv /\ SyncInv /\ ErrorInv /\ ProtocolInv
  /\ PositionInv /\ IndexInv /\ StoppedInv
  /\ FlagInv /\ HasErrorInv /\ CodeInv /\ DroppedInv
  /\ OutcomeInv /\ SenderInv

LEMMA OutcomesInit ==
  Init => /\ PositionInv /\ IndexInv /\ StoppedInv
          /\ FlagInv /\ HasErrorInv /\ CodeInv /\ DroppedInv
          /\ OutcomeInv /\ SenderInv
BY DEF Init, PositionInv, IndexInv, StoppedInv, FlagInv, HasErrorInv, CodeInv, DroppedInv,
  OutcomeInv, SenderInv, TestRuns

\* Every invariant holds in every reachable state
THEOREM OutcomesCorrect == Spec => []OutcomesInv
<1>1. Init => OutcomesInv
  BY TypeInit, LifeInit, SyncInit, ErrorInit, ProtocolInit, OutcomesInit DEF OutcomesInv
<1>2. OutcomesInv /\ [Next]_vars => OutcomesInv'
  BY TypeStep, LifeStep, SyncStep, ErrorStep, ProtocolStep, PositionStep, IndexStep,
    StoppedStep, FlagStep, HasErrorStep, CodeStep, DroppedStep, OutcomeStep, SenderStep
  DEF OutcomesInv
<1> QED BY <1>1, <1>2, PTL DEF Spec

\* A flag that a worker or the callback has raised has been reported when the
\* timer thread ends (timer.cpp:70-96, 131), unless RUNNING was cleared or it
\* is one of the two failures that the code does not look at in time
THEOREM FailuresReported == Spec => []FailureReported
<1>1. OutcomesInv => FailureReported
  BY EndedReports DEF OutcomesInv
<1> QED BY <1>1, OutcomesCorrect, PTL

\* A measurement that runs to its end has completed or reported an error, but
\* for those two failures (ias_client.cpp:286-333 skips what remains, silently)
THEOREM EndsNotSilently == Spec => []NoSilentEnd
<1>1. OutcomesInv => NoSilentEnd
  BY DEF OutcomesInv, OutcomeInv, NoSilentEnd
<1> QED BY <1>1, OutcomesCorrect, PTL

\* Without an error the timer finishes a test case (timer.cpp:170) only at the
\* end of its time, with the result of the IP test, or when the RTT worker has
\* ended
THEOREM FinishesEarned == Spec => []FinishEarned
<1>1. OutcomesInv => FinishEarned
  BY DEF OutcomesInv, StoppedInv, Earned, Finishing, FinishEarned, TypeInv, ThreadsInv
<1> QED BY <1>1, OutcomesCorrect, PTL

\* The callback reads the last result of a download or upload (callback.cpp:534)
\* only when its loop has made one, but for the finish that follows an error
THEOREM ResultsThere == Spec => []ResultThere
<1>1. OutcomesInv /\ DurationKnown => ResultThere
  <2> SUFFICES ASSUME OutcomesInv, DurationKnown,
                      tpc = "call", test \in {DOWNLOAD, UPLOAD}, errors = {}
               PROVE  MaxSteps > 0
    BY DEF ResultThere
  <2>1. TestRuns /\ TIMER_DURATION \in Nat /\ cmd \in {"report", "finish"}
    BY DEF OutcomesInv, TypeInv, ThreadsInv, TypeOK, TimerOK
  <2>2. test # IP /\ test # RTT
    BY DEF IP, RTT, DOWNLOAD, UPLOAD
  <2>3. TIMER_RUNNING /\ (TIMER_DURATION > 0 \/ 2 * MEASUREMENT_DURATION <= TIMER_DURATION)
    <3>1. CASE cmd = "report"
      BY <2>1, <3>1 DEF OutcomesInv, IndexInv, PositionInv, Reporting
    <3>2. CASE cmd = "finish"
      BY <2>1, <2>2, <3>2 DEF OutcomesInv, StoppedInv, Earned, Finishing
    <3> QED BY <2>1, <3>1, <3>2
  <2>4. MEASUREMENT_DURATION =
          IF test = DOWNLOAD THEN DL_DURATION
          ELSE UL_DURATION + UPLOAD_ADDITIONAL_MEASUREMENT_DURATION
    BY <2>1, <2>2, <2>3 DEF DurationKnown, DurationOf, Tests, DOWNLOAD, UPLOAD
  <2> QED BY <2>1, <2>3, <2>4, ConstantsAssumption DEF MaxSteps, DOWNLOAD, UPLOAD
<1> QED BY <1>1, OutcomesCorrect, DurationsKnown, PTL

\* A worker of the upload test that has ended (upload.cpp:268) has joined its
\* sender, unless it ended in its catch block
THEOREM SendersJoined == Spec => []SenderOutlived
<1>1. OutcomesInv => SenderOutlived
  BY DEF OutcomesInv, SenderInv, SenderOutlived
<1> QED BY <1>1, OutcomesCorrect, PTL

=============================================================================
