-------------------------- MODULE IasClientProofs ---------------------------
(***************************************************************************)
(* Proofs about IasClient, for every number of streams, pings and          *)
(* measurements and every duration: types, life of the workers, start of   *)
(* the timer, and that it implements MeasurementProtocol.                  *)
(***************************************************************************)
EXTENDS IasClient, FiniteSetTheorems, TLAPS

-----------------------------------------------------------------------------
(* The data the model is built from *)

\* The four failure flags
LEMMA FlagSet ==
  Flags = {"UNREACHABLE", "FORBIDDEN", "TLS_PARAMETERS_MISSING", "STREAMS_DROPPED"}
BY DEF Flags, ErrorCode

\* Every flag is reported under a code of its own type
LEMMA CodeOfFlag == ASSUME NEW f \in Flags PROVE ErrorCode[f] \in Codes
BY DEF Codes

\* Every test has a positive number of workers, all of them streams, and a
\* duration
LEMMA TestData ==
  ASSUME NEW t \in Tests
  PROVE  /\ Instances[t] \in Nat \ {0}
         /\ 1..Instances[t] \subseteq Streams
         /\ DurationOf[t] \in Nat
         /\ PhaseOf[t] \in Phases
<1>1. DL_STREAMS \in Nat \ {0} /\ UL_STREAMS \in Nat \ {0}
  BY ConstantsAssumption
<1>2. PingDuration \in Nat
  BY ConstantsAssumption DEF PingDuration
<1>3. Instances[t] \in Nat \ {0} /\ 1..Instances[t] \subseteq Streams
  BY <1>1 DEF Instances, Streams, Tests, DOWNLOAD, UPLOAD
<1>4. DurationOf[t] \in Nat
  BY <1>2, ConstantsAssumption DEF DurationOf
<1>5. PhaseOf[t] \in Phases
  BY DEF PhaseOf, Phases
<1> QED BY <1>3, <1>4, <1>5

\* A measurement is planned from the four test cases
LEMMA PlansOfTests == \A p \in Plans : p \subseteq Tests /\ p # {}
<1> SUFFICES ASSUME NEW p \in Plans PROVE p \subseteq Tests /\ p # {}
  OBVIOUS
<1>1. PICK s \in SUBSET {RTT, DOWNLOAD, UPLOAD} : p = {IP} \cup s
  BY DEF Plans
<1>2. {IP, RTT, DOWNLOAD, UPLOAD} \subseteq Tests
  BY DEF Tests, IP, RTT, DOWNLOAD, UPLOAD
<1> QED BY <1>1, <1>2

-----------------------------------------------------------------------------
(* What a worker step can be, whichever test it belongs to *)

\* The steps that all workers share
CommonWorkerStep(t, i) ==
  \/ \E f \in Flags, pc \in {"open", "tls"} : Flag(t, i, pc, f)
  \/ SetHasError(t, i)
  \/ Throw(t, i)
  \/ Unwind(t, i)

\* The loop around receive and what receive may return
ReceiveStep(t, i) ==
  \/ Loop(t, i, IF t = UPLOAD THEN "stop" ELSE "ended") /\ UNCHANGED ipResult
  \/ /\ \/ Receive(t, i, "data", "loop") \/ Receive(t, i, "gone", "stop")
        \/ Receive(t, i, "gone", "ended")
     /\ UNCHANGED ipResult
  \/ /\ Receive(t, i, "data", "ended") \/ Receive(t, i, "data", "tls")
     /\ ipResult' = TRUE

\* The steps that only one of the tests has
OwnWorkerStep(i) ==
  \/ IpRefused(i)
  \/ PingOpen(i) \/ PingLoop(i) \/ PingAnswer(i) \/ PingDone(i)
  \/ UploadStop(i) \/ UploadJoin(i)

\* Every step of a worker is one of these
LEMMA WorkerSteps ==
  ASSUME NEW i \in Streams, WorkerThread(i)
  PROVE  \/ \E t \in Tests : CommonWorkerStep(t, i)
         \/ \E t \in Tests \ {RTT} : ReceiveStep(t, i) \/ Opened(t, i)
         \/ OwnWorkerStep(i)
<1>1. /\ IP \in Tests \ {RTT} /\ RTT \in Tests /\ DOWNLOAD \in Tests \ {RTT}
      /\ UPLOAD \in Tests \ {RTT} /\ IP # UPLOAD /\ DOWNLOAD # UPLOAD
  BY DEF Tests, IP, RTT, DOWNLOAD, UPLOAD
<1>2. ASSUME NEW t \in Tests, WorkerFailure(t, i) PROVE CommonWorkerStep(t, i)
  BY <1>2, FlagSet DEF WorkerFailure, Unreachable, CommonWorkerStep
<1>3. CASE IpThread(i)
  BY <1>1, <1>2, <1>3, FlagSet
  DEF IpThread, IpReceive, IpReport, IpTlsMissing, CommonWorkerStep, ReceiveStep, Loop, OwnWorkerStep
<1>4. CASE PingThread(i)
  BY <1>1, <1>2, <1>4 DEF PingThread, OwnWorkerStep
<1>5. CASE DownloadThread(i)
  BY <1>1, <1>2, <1>5, FlagSet
  DEF DownloadThread, DownloadForbidden, DownloadReceive, DownloadDropped,
      CommonWorkerStep, ReceiveStep, Loop
<1>6. CASE UploadThread(i)
  BY <1>1, <1>2, <1>6, FlagSet
  DEF UploadThread, UploadForbidden, UploadReceive, UploadDropped,
      CommonWorkerStep, ReceiveStep, Loop, OwnWorkerStep
<1> QED BY <1>3, <1>4, <1>5, <1>6 DEF WorkerThread

-----------------------------------------------------------------------------
(* Types *)

\* A worker of which the thread is running
Alive(i) == wpc[i] \notin {"none", "ended"}

\* What types alone do not give: messages name the running test case, the timer
\* thread lives only as long as its test case does, the workers only until JoinWorkers, and the RTT worker
\* waits for an answer only to a ping it may send
ThreadsInv ==
  /\ TestRuns => test \in Tests /\ sTestName = test
  /\ mpc = "refuse" => test = IP
  /\ tpc # "ended" => TestRuns
  /\ \A i \in Streams : Alive(i) => mpc \in {"create", "publish", "join"} /\ i \in Workers
  /\ \A i \in Streams : test = RTT /\ wpc[i] = "recv" => pings <= PING_QUERY

\* The inductive invariant of TypeOK
TypeInv == TypeOK /\ ThreadsInv

LEMMA TypeInit == Init => TypeInv
<1> SUFFICES ASSUME Init PROVE TypeInv
  OBVIOUS
<1>1. BooleansOK
  BY Zenon DEF Init, BooleansOK
<1>2. TimerOK
  BY DEF Init, TimerOK
<1>3. MainOK
  BY ConstantsAssumption DEF Init, MainOK, IP
<1>4. WorkersOK
  BY ConstantsAssumption DEF Init, WorkersOK
<1>5. ResultsOK
  BY DEF Init, ResultsOK, Phases
<1>6. ThreadsInv
  BY DEF Init, ThreadsInv, TestRuns, Alive
<1> QED BY <1>1, <1>2, <1>3, <1>4, <1>5, <1>6 DEF TypeInv, TypeOK

\* A step of the main thread in a test case leaves all booleans alone but for
\* the state of the worker objects
LEMMA MainFrameBooleans ==
  ASSUME MainFrame
  PROVE  /\ UNCHANGED <<RUNNING, hasError, TIMER_ACTIVE, TIMER_RUNNING, TIMER_STOPPED>>
         /\ UNCHANGED <<completed, delivered, stopping, crashed>>
<1>1. UNCHANGED <<RUNNING, hasError, TIMER_ACTIVE, TIMER_RUNNING, TIMER_STOPPED>>
  BY Zenon DEF MainFrame, flagVars
<1>2. UNCHANGED <<completed, delivered, stopping, crashed>>
  BY Zenon DEF MainFrame, platformVars
<1> QED BY <1>1, <1>2, Zenon

LEMMA MainFrameOK ==
  ASSUME BooleansOK, MainFrame,
         ipResult' \in BOOLEAN, attached' \in BOOLEAN, freed' \in BOOLEAN
  PROVE  BooleansOK'
<1>1. /\ (RUNNING \in BOOLEAN)' /\ (hasError \in BOOLEAN)' /\ (TIMER_ACTIVE \in BOOLEAN)'
      /\ (TIMER_RUNNING \in BOOLEAN)' /\ (TIMER_STOPPED \in BOOLEAN)'
  BY MainFrameBooleans, Zenon DEF BooleansOK
<1>2. /\ (completed \in BOOLEAN)' /\ (delivered \in BOOLEAN)'
      /\ (stopping \in BOOLEAN)' /\ (crashed \in BOOLEAN)'
  BY MainFrameBooleans, Zenon DEF BooleansOK
<1> QED BY <1>1, <1>2, Zenon DEF BooleansOK

\* The booleans are only ever assigned booleans
LEMMA BooleansStep == BooleansOK /\ [Next]_vars => BooleansOK'
<1> SUFFICES ASSUME BooleansOK, [Next]_vars PROVE BooleansOK'
  OBVIOUS
<1>1. CASE MeasurementStart
  BY <1>1, Zenon DEF MeasurementStart, BooleansOK, timerFlags, workerVars
<1>2. CASE MainThread
  <2>1. CASE Refuse
    BY <2>1, Zenon DEF Refuse, BooleansOK, ReportError, ToPlatform, resultVars,
      timerFlags, workerVars, objectVars
  <2>2. CASE SkipTestCase \/ JoinTimer \/ JoinWorkers \/ SetDuration
    <3>1. MainFrame /\ UNCHANGED <<workerVars, objectVars>>
      BY <2>2, Zenon DEF SkipTestCase, JoinTimer, JoinWorkers, SetDuration
    <3>2. UNCHANGED <<ipResult, attached, freed>>
      BY <3>1, Zenon DEF workerVars, objectVars
    <3> QED
      BY <3>1, <3>2, MainFrameOK, Zenon DEF BooleansOK
  <2>3. CASE StartTestCase
    BY <2>3, Zenon DEF StartTestCase, BooleansOK, flagVars, platformVars
  <2>4. CASE EndPhase
    <3>1. /\ UNCHANGED <<flagVars, timerFlags, workerVars, objectVars>>
          /\ UNCHANGED <<platformVars, stopping, crashed>>
      BY <2>4, Zenon DEF EndPhase
    <3>2. /\ (RUNNING \in BOOLEAN)' /\ (hasError \in BOOLEAN)' /\ (TIMER_ACTIVE \in BOOLEAN)'
          /\ (TIMER_RUNNING \in BOOLEAN)' /\ (TIMER_STOPPED \in BOOLEAN)' /\ (ipResult \in BOOLEAN)'
      BY <3>1, Zenon DEF BooleansOK, flagVars, timerFlags, workerVars
    <3>3. /\ (attached \in BOOLEAN)' /\ (freed \in BOOLEAN)' /\ (completed \in BOOLEAN)'
          /\ (delivered \in BOOLEAN)' /\ (stopping \in BOOLEAN)' /\ (crashed \in BOOLEAN)'
      BY <3>1, Zenon DEF BooleansOK, objectVars, platformVars
    <3> QED
      BY <3>2, <3>3, Zenon DEF BooleansOK
  <2>5. CASE Shutdown
    BY <2>5, Zenon DEF Shutdown, BooleansOK, timerFlags, workerVars, objectVars, platformVars
  <2>6. CASE Publish
    <3>1. MainFrame /\ attached' = TRUE /\ UNCHANGED <<ipResult, freed>>
      BY <2>6, Zenon DEF Publish, workerVars
    <3> QED
      BY <3>1, MainFrameOK, Zenon DEF BooleansOK
  <2>7. CASE DestroyWorkers
    <3>1. MainFrame /\ freed' = TRUE /\ UNCHANGED <<ipResult, attached>>
      BY <2>7, Zenon DEF DestroyWorkers, workerVars
    <3> QED
      BY <3>1, MainFrameOK, Zenon DEF BooleansOK
  <2>8. ASSUME NEW i \in Streams, CreateWorker(i) PROVE BooleansOK'
    <3>1. MainFrame /\ UNCHANGED <<ipResult, attached, freed>>
      BY <2>8, Zenon DEF CreateWorker, objectVars
    <3> QED
      BY <3>1, MainFrameOK, Zenon DEF BooleansOK
  <2>9. CASE MeasurementStep
    BY <2>2, <2>6, <2>7, <2>8, <2>9, Zenon DEF MeasurementStep
  <2> QED BY <1>2, <2>1, <2>2, <2>3, <2>4, <2>5, <2>9, Zenon DEF MainThread
<1>3. CASE TimerThread
  <2>1. CASE TimerWhile \/ TimerSync \/ TimerAgain \/ TimerTail
    <3>1. TimerFrame /\ Quiet /\ UNCHANGED timerFlags
      BY <2>1, Zenon DEF TimerWhile, TimerSync, TimerAgain, TimerTail
    <3>2. UNCHANGED <<RUNNING, hasError, TIMER_ACTIVE, TIMER_RUNNING, TIMER_STOPPED, ipResult,
                      attached, freed, completed, delivered, stopping, crashed>>
      <4>1. UNCHANGED <<RUNNING, attached, freed, ipResult, stopping>>
        BY <3>1, Zenon DEF TimerFrame, workerVars, objectVars
      <4>2. UNCHANGED <<hasError, completed, delivered, crashed>>
        BY <3>1, Zenon DEF Quiet, platformVars
      <4>3. UNCHANGED <<TIMER_ACTIVE, TIMER_RUNNING, TIMER_STOPPED>>
        BY <3>1, Zenon DEF timerFlags
      <4> QED
        BY <4>1, <4>2, <4>3, Zenon
    <3>3. /\ (RUNNING \in BOOLEAN)' /\ (hasError \in BOOLEAN)' /\ (TIMER_ACTIVE \in BOOLEAN)'
          /\ (TIMER_RUNNING \in BOOLEAN)' /\ (TIMER_STOPPED \in BOOLEAN)' /\ (ipResult \in BOOLEAN)'
      BY <3>2, Zenon DEF BooleansOK
    <3>4. /\ (attached \in BOOLEAN)' /\ (freed \in BOOLEAN)' /\ (completed \in BOOLEAN)'
          /\ (delivered \in BOOLEAN)' /\ (stopping \in BOOLEAN)' /\ (crashed \in BOOLEAN)'
      BY <3>2, Zenon DEF BooleansOK
    <3> QED
      BY <3>3, <3>4, Zenon DEF BooleansOK
  <2>2. CASE TimerCheck
    <3>1. TimerFrame /\ UNCHANGED <<hasError, TIMER_ACTIVE, TIMER_RUNNING, crashed>>
      BY <2>2, Zenon DEF TimerCheck
    <3>2. TIMER_STOPPED' \in BOOLEAN
      BY <2>2, Zenon DEF TimerCheck, BooleansOK
    <3>3. UNCHANGED completed /\ (ToPlatform \/ UNCHANGED delivered)
      BY <2>2, Zenon DEF TimerCheck, ReportError, platformVars
    <3>4. delivered' \in BOOLEAN /\ UNCHANGED <<stopping, RUNNING, attached, freed, ipResult>>
      BY <3>1, <3>3, Zenon DEF BooleansOK, ToPlatform, TimerFrame, workerVars, objectVars
    <3> QED
      BY <3>1, <3>2, <3>3, <3>4, Zenon DEF BooleansOK
  <2>3. CASE TimerStart
    BY <2>3, Zenon DEF TimerStart, BooleansOK, TimerFrame, Quiet, workerVars, objectVars,
      platformVars
  <2>4. CASE TimerDropped
    BY <2>4, Zenon DEF TimerDropped, BooleansOK, TimerFrame, ReportError, ToPlatform,
      workerVars, objectVars
  <2>5. CASE TimerTick
    BY <2>5, Zenon DEF TimerTick, BooleansOK, TimerFrame, Quiet, workerVars, objectVars,
      platformVars
  <2>6. CASE TimerOff
    BY <2>6, Zenon DEF TimerOff, BooleansOK, TimerFrame, Quiet, workerVars, objectVars,
      platformVars
  <2>7. CASE Misuse
    BY <2>7, Zenon DEF Misuse, BooleansOK, HandlerFrame, TimerFrame, workerVars, objectVars,
      platformVars
  <2>8. CASE IpCallback
    BY <2>8, Zenon DEF IpCallback, BooleansOK, HandlerFrame, TimerFrame, workerVars,
      objectVars, platformVars
  <2>9. CASE RttUdpCallback
    BY <2>9, Zenon DEF RttUdpCallback, BooleansOK, HandlerFrame, TimerFrame, workerVars,
      objectVars, platformVars
  <2>10. CASE CalculateStep
    BY <2>10, Zenon DEF CalculateStep, BooleansOK, HandlerFrame, TimerFrame, workerVars,
      objectVars, platformVars
  <2>11. CASE CalculateEnd
    <3>1. HandlerFrame /\ UNCHANGED <<hasError, raised, TIMER_STOPPED>>
      BY <2>11, Zenon DEF CalculateEnd
    <3>2. crashed' \in BOOLEAN
      <4>1. crashed' = TRUE \/ UNCHANGED crashed
        BY <2>11, Zenon DEF CalculateEnd
      <4> QED
        BY <4>1, Zenon DEF BooleansOK
    <3> QED
      BY <3>1, <3>2, Zenon DEF BooleansOK, HandlerFrame, TimerFrame, workerVars, objectVars,
        platformVars
  <2>12. CASE ReportDone
    BY <2>12, Zenon DEF ReportDone, BooleansOK, ToPlatform, TimerFrame, timerFlags,
      workerVars, objectVars
  <2>13. CASE FinishDone
    BY <2>13, Zenon DEF FinishDone, BooleansOK, TimerFrame, timerFlags, workerVars,
      objectVars
  <2> QED
    BY <1>3, <2>1, <2>2, <2>3, <2>4, <2>5, <2>6, <2>7, <2>8, <2>9, <2>10, <2>11, <2>12, <2>13
    DEF TimerThread, CallbackStep
<1>4. ASSUME NEW i \in Streams, WorkerThread(i) PROVE BooleansOK'
  <2> USE DEF BooleansOK, WorkerFrame, objectVars, platformVars
  <2>1. ASSUME NEW t \in Tests, CommonWorkerStep(t, i) PROVE BooleansOK'
    <3>1. ASSUME NEW f \in Flags, NEW pc \in {"open", "tls"}, Flag(t, i, pc, f)
          PROVE  BooleansOK'
      BY <3>1 DEF Flag
    <3>2. CASE SetHasError(t, i)
      BY <3>2, Zenon DEF SetHasError
    <3>3. CASE Throw(t, i)
      BY <3>3, Zenon DEF Throw
    <3>4. CASE Unwind(t, i)
      BY <3>4, Zenon DEF Unwind
    <3> QED BY <2>1, <3>1, <3>2, <3>3, <3>4 DEF CommonWorkerStep
  <2>2. ASSUME NEW t \in Tests, ReceiveStep(t, i) PROVE BooleansOK'
    <3>1. ipResult' \in BOOLEAN
      BY <2>2, Zenon DEF ReceiveStep
    <3>2. UNCHANGED flagVars /\ UNCHANGED TIMER_STOPPED /\ WorkerFrame
      BY <2>2 DEF ReceiveStep, Loop, Receive
    <3> QED BY <3>1, <3>2 DEF flagVars
  <2>3. ASSUME NEW t \in Tests, Opened(t, i) PROVE BooleansOK'
    BY <2>3 DEF Opened, flagVars
  <2>4. CASE OwnWorkerStep(i)
    <3>1. CASE PingDone(i)
      BY <3>1, Zenon DEF PingDone, flagVars
    <3>2. CASE IpRefused(i) \/ PingOpen(i) \/ PingLoop(i) \/ PingAnswer(i)
      BY <3>2 DEF IpRefused, PingOpen, PingLoop, PingAnswer, flagVars
    <3>3. CASE UploadStop(i) \/ UploadJoin(i)
      BY <3>3 DEF UploadStop, UploadJoin, flagVars
    <3> QED BY <2>4, <3>1, <3>2, <3>3 DEF OwnWorkerStep
  <2> QED BY <1>4, <2>1, <2>2, <2>3, <2>4, WorkerSteps
<1>5. ASSUME NEW i \in Streams, SenderStops(i) \/ SenderDropped(i) PROVE BooleansOK'
  BY <1>5 DEF SenderStops, SenderDropped, SenderEnds, BooleansOK, WorkerFrame, flagVars,
    objectVars, platformVars
<1>6. CASE StopCalled
  BY <1>6, Zenon DEF StopCalled, BooleansOK, flagVars, timerFlags, workerVars, objectVars,
    platformVars
<1>7. CASE StopTakesEffect
  BY <1>7, Zenon DEF StopTakesEffect, BooleansOK, timerFlags, workerVars, objectVars,
    platformVars
<1>8. CASE Clock \/ Halted \/ UNCHANGED vars
  BY <1>8 DEF Clock, Halted, vars, BooleansOK, flagVars, timerFlags, workerVars, objectVars,
    platformVars
<1> QED BY <1>1, <1>2, <1>3, <1>4, <1>5, <1>6, <1>7, <1>8 DEF Next

\* The other parts of the invariant, thread by thread
ShapeInv == TimerOK /\ MainOK /\ WorkersOK /\ ResultsOK /\ ThreadsInv

LEMMA ShapeMain == ShapeInv /\ (MeasurementStart \/ MainThread) => ShapeInv'
<1> SUFFICES ASSUME ShapeInv, MeasurementStart \/ MainThread PROVE ShapeInv'
  OBVIOUS
<1> USE DEF ShapeInv, TimerOK, MainOK, WorkersOK, ResultsOK, ThreadsInv, TestRuns, Alive, Workers
<1> USE DEF resultVars, timerFlags, timerVars, workerVars, platformVars
<1>1. CASE MeasurementStart
  <2>1. plan' \subseteq Tests
    BY <1>1, PlansOfTests DEF MeasurementStart
  <2>2. session' \in 0..MaxSessions
    BY <1>1, ConstantsAssumption DEF MeasurementStart
  <2>3. /\ UNCHANGED <<timerFlags, MEASUREMENT_DURATION, clock, timerVars, workerVars,
                       currentTestPhase, sTestName>>
        /\ PERFORMED' = {} /\ raised' = {} /\ finished' = {} /\ errors' = {}
        /\ mpc = "idle" /\ mpc' \in {"refuse", "phase"} /\ test' = IP
    BY <1>1 DEF MeasurementStart, FreshPerformed
  <2> QED BY <2>1, <2>2, <2>3 DEF IP, RTT
<1>2. CASE Refuse
  BY <1>2 DEF Refuse, ReportError, Codes, Tests, IP
<1>3. CASE SkipTestCase
  BY <1>3 DEF SkipTestCase, MainFrame, flagVars, Tests
<1>4. CASE StartTestCase
  BY <1>4, TestData, ConstantsAssumption DEF StartTestCase, StartPhase, ClearedSync, flagVars, Tests
<1>5. CASE EndPhase
  BY <1>5 DEF EndPhase, Phases, flagVars, Tests
<1>6. CASE Shutdown
  BY <1>6 DEF Shutdown
<1>7. CASE SetDuration
  BY <1>7, TestData DEF SetDuration, MainFrame, flagVars
<1>8. CASE Publish
  BY <1>8 DEF Publish, MainFrame, flagVars
<1>9. CASE JoinWorkers
  BY <1>9 DEF JoinWorkers, MainFrame, flagVars
<1>10. CASE DestroyWorkers
  BY <1>10 DEF DestroyWorkers, MainFrame, flagVars
<1>11. CASE JoinTimer
  BY <1>11 DEF JoinTimer, MainFrame, flagVars, Tests
<1>12. ASSUME NEW i \in Streams, CreateWorker(i) PROVE ShapeInv'
  BY <1>12 DEF CreateWorker, MainFrame, flagVars, Workers
<1> QED
  BY <1>1, <1>2, <1>3, <1>4, <1>5, <1>6, <1>7, <1>8, <1>9, <1>10, <1>11, <1>12
  DEF MainThread, MeasurementStep

LEMMA ShapeTimer == ShapeInv /\ (TimerThread \/ Clock) => ShapeInv'
<1> SUFFICES ASSUME ShapeInv, TimerThread \/ Clock PROVE ShapeInv'
  OBVIOUS
<1> USE DEF ShapeInv, TimerOK, MainOK, WorkersOK, ResultsOK, ThreadsInv, TestRuns, Alive, Workers
<1> USE DEF TimerFrame, mainVars, workerVars
<1>1. CASE TimerWhile \/ TimerSync \/ TimerAgain \/ TimerOff
  BY <1>1 DEF TimerWhile, TimerSync, TimerAgain, TimerOff, Quiet, Checks, resultVars,
    timerFlags, platformVars
<1>2. CASE TimerCheck
  <2>1. tpc \in Checks /\ tpc \in Flags
    BY <1>2, FlagSet DEF TimerCheck, Checks
  <2>2. ErrorCode[tpc] \in Codes
    BY <2>1, CodeOfFlag
  <2>3. AfterCheck(tpc) \in {"FORBIDDEN", "TLS_PARAMETERS_MISSING", "inner", "sync"}
    BY <2>1 DEF AfterCheck, Checks
  <2> QED BY <1>2, <2>1, <2>2, <2>3 DEF TimerCheck, Checks, ReportError, resultVars, platformVars
<1>3. CASE TimerStart
  BY <1>3 DEF TimerStart, Quiet, resultVars, platformVars
<1>4. CASE TimerDropped
  <2>1. ErrorCode["STREAMS_DROPPED"] \in Codes
    BY FlagSet, CodeOfFlag
  <2> QED BY <1>4, <2>1 DEF TimerDropped, ReportError, resultVars
<1>5. CASE TimerTick
  BY <1>5 DEF TimerTick, Quiet, resultVars, platformVars
<1>6. CASE TimerTail
  BY <1>6 DEF TimerTail, Quiet, resultVars, timerFlags, platformVars
<1>7. CASE Misuse \/ IpCallback \/ RttUdpCallback
  BY <1>7 DEF Misuse, IpCallback, RttUdpCallback, HandlerFrame, resultVars, platformVars
<1>8. CASE CalculateStep
  BY <1>8, FlagSet DEF CalculateStep, HandlerFrame, resultVars, platformVars
<1>9. CASE CalculateEnd
  BY <1>9 DEF CalculateEnd, HandlerFrame, resultVars, platformVars
<1>10. CASE ReportDone
  BY <1>10 DEF ReportDone, resultVars, timerFlags
<1>11. CASE FinishDone
  BY <1>11 DEF FinishDone, timerFlags, Phases
<1>12. CASE Clock
  BY <1>12 DEF Clock, flagVars, resultVars, timerFlags, timerVars, platformVars
<1> QED
  BY <1>1, <1>2, <1>3, <1>4, <1>5, <1>6, <1>7, <1>8, <1>9, <1>10, <1>11, <1>12
  DEF TimerThread, CallbackStep

LEMMA ShapeWorker ==
  ASSUME NEW i \in Streams, ShapeInv, WorkerThread(i) \/ SenderStops(i) \/ SenderDropped(i)
  PROVE  ShapeInv'
<1> USE DEF ShapeInv, TimerOK, MainOK, WorkersOK, ResultsOK, ThreadsInv, TestRuns, Alive, Workers
<1> USE DEF WorkerFrame, resultVars, timerVars, mainVars, platformVars, At, Goto
<1>1. ASSUME NEW t \in Tests, CommonWorkerStep(t, i) PROVE ShapeInv'
  <2>1. ASSUME NEW f \in Flags, NEW pc \in {"open", "tls"}, Flag(t, i, pc, f)
        PROVE  ShapeInv'
    BY <2>1 DEF Flag
  <2>2. CASE SetHasError(t, i)
    BY <2>2 DEF SetHasError
  <2>3. CASE Throw(t, i)
    BY <2>3 DEF Throw
  <2>4. CASE Unwind(t, i)
    BY <2>4 DEF Unwind
  <2> QED BY <1>1, <2>1, <2>2, <2>3, <2>4 DEF CommonWorkerStep
<1>2. ASSUME NEW t \in Tests \ {RTT}, ReceiveStep(t, i) PROVE ShapeInv'
  <2>1. CASE Loop(t, i, IF t = UPLOAD THEN "stop" ELSE "ended")
    BY <2>1 DEF Loop, flagVars
  <2>2. ASSUME NEW response \in {"data", "gone"},
               NEW to \in {"loop", "ended", "stop", "tls"},
               Receive(t, i, response, to)
        PROVE  ShapeInv'
    BY <2>2 DEF Receive, flagVars
  <2> QED BY <1>2, <2>1, <2>2 DEF ReceiveStep
<1>3. ASSUME NEW t \in Tests, Opened(t, i) PROVE ShapeInv'
  BY <1>3 DEF Opened, flagVars
<1>4. CASE OwnWorkerStep(i)
  <2>1. CASE IpRefused(i)
    BY <2>1 DEF IpRefused, flagVars
  <2>2. CASE PingOpen(i)
    BY <2>2, ConstantsAssumption DEF PingOpen, PingMeasurementDuration, PingDuration, flagVars
  <2>3. CASE PingLoop(i)
    BY <2>3 DEF PingLoop, MayPing, flagVars, RTT, Tests
  <2>4. CASE PingAnswer(i)
    BY <2>4, ConstantsAssumption DEF PingAnswer, flagVars, Instances, Tests, RTT, DOWNLOAD, UPLOAD
  <2>5. CASE PingDone(i)
    BY <2>5 DEF PingDone, flagVars
  <2>6. CASE UploadStop(i) \/ UploadJoin(i)
    BY <2>6 DEF UploadStop, UploadJoin, flagVars
  <2> QED BY <1>4, <2>1, <2>2, <2>3, <2>4, <2>5, <2>6 DEF OwnWorkerStep
<1>5. CASE SenderStops(i) \/ SenderDropped(i)
  BY <1>5 DEF SenderStops, SenderDropped, SenderEnds, flagVars
<1> QED BY <1>1, <1>2, <1>3, <1>4, <1>5, WorkerSteps

LEMMA TypeStep == TypeInv /\ [Next]_vars => TypeInv'
<1> SUFFICES ASSUME TypeInv, [Next]_vars PROVE TypeInv'
  OBVIOUS
<1>1. BooleansOK'
  BY BooleansStep DEF TypeInv, TypeOK
<1>2. ShapeInv
  BY DEF TypeInv, TypeOK, ShapeInv
<1>3. ShapeInv'
  <2>1. CASE MeasurementStart \/ MainThread
    BY <1>2, <2>1, ShapeMain
  <2>2. CASE TimerThread \/ Clock
    BY <1>2, <2>2, ShapeTimer
  <2>3. CASE \E i \in Streams : WorkerThread(i) \/ SenderStops(i) \/ SenderDropped(i)
    BY <1>2, <2>3, ShapeWorker
  <2>4. CASE StopCalled \/ StopTakesEffect \/ Halted \/ UNCHANGED vars
    BY <1>2, <2>4
    DEF StopCalled, StopTakesEffect, Halted, vars, ShapeInv, TimerOK, MainOK, WorkersOK,
      ResultsOK, ThreadsInv, TestRuns, Alive, Workers, flagVars, resultVars, timerFlags,
      timerVars, mainVars, workerVars, platformVars
  <2> QED BY <2>1, <2>2, <2>3, <2>4 DEF Next
<1> QED BY <1>1, <1>3 DEF TypeInv, TypeOK, ShapeInv

\* Every variable keeps its type, and a thread of a test case (timer.cpp:48,
\* the workers of src/tests) lives only while that test case runs
THEOREM TypeCorrect == Spec => []TypeInv
<1> QED BY TypeInit, TypeStep, PTL DEF Spec

\* The part that the runs check
THEOREM TypesKept == Spec => []TypeOK
<1>1. TypeInv => TypeOK
  BY DEF TypeInv
<1> QED BY <1>1, TypeCorrect, PTL

-----------------------------------------------------------------------------
(* The lifetime of the workers that the callback uses *)

\* The workers are destroyed after the wait of CMeasurement only, and handed
\* to the callback before it
ObjectsInv ==
  /\ TestRuns /\ freed => mpc = "joinTimer"
  /\ mpc = "joinTimer" => MayLeave
  /\ TestRuns /\ ~attached => mpc \in {"duration", "create", "publish"}

\* A test case is marked as performed by the last call of its timer thread
PerformedInv ==
  \A t \in PERFORMED : /\ t <= test
                       /\ t = test => TestRuns /\ tpc \in {"off", "ended"}

\* Failure flags are never cleared within a measurement; they are followed by
\* hasError, which keeps the next test case from starting
RaisedInv ==
  /\ raised # {} => hasError \/ \E i \in Streams : wpc[i] = "gap"
  /\ mpc = "refuse" \/ (mpc = "phase" /\ test = IP) => raised = {}

\* Before the workers exist the timer thread finds nothing to report
FreshInv ==
  mpc = "duration" =>
    /\ tpc \in Checks \cup {"while", "sync", "tail", "off", "ended"}
    /\ tpc = "tail" => ~RUNNING
    /\ raised = {} /\ syncing_threads = {}
    /\ ~TIMER_RUNNING /\ ~TIMER_STOPPED

LifeInv == ObjectsInv /\ PerformedInv /\ RaisedInv /\ FreshInv

LEMMA LifeInit == Init => LifeInv
BY DEF Init, LifeInv, ObjectsInv, PerformedInv, RaisedInv, FreshInv, TestRuns, IP

LEMMA LifeMain == TypeInv /\ LifeInv /\ (MeasurementStart \/ MainThread) => LifeInv'
<1> SUFFICES ASSUME TypeInv, LifeInv, MeasurementStart \/ MainThread PROVE LifeInv'
  OBVIOUS
<1> USE DEF LifeInv, ObjectsInv, PerformedInv, RaisedInv, FreshInv, MayLeave, TestRuns
<1> USE DEF flagVars, resultVars, timerFlags, timerVars, workerVars, objectVars, MainFrame
<1>a. /\ ThreadsInv /\ MainOK /\ PERFORMED \subseteq Tests
      /\ wpc \in [Streams -> {"none", "open", "loop", "recv", "gap", "tls", "unwind",
                              "stop", "join", "ended"}]
  BY DEF TypeInv, TypeOK, ResultsOK, WorkersOK
<1>1. CASE MeasurementStart
  BY <1>1, <1>a DEF MeasurementStart, FreshPerformed, MainOK, ThreadsInv, TestRuns
<1>2. CASE Refuse
  BY <1>2 DEF Refuse
<1>3. CASE SkipTestCase
  BY <1>3, <1>a DEF SkipTestCase, MainOK, Tests, IP
<1>4. CASE StartTestCase
  <2>1. raised = {}
    BY <1>4, <1>a DEF StartTestCase, MayRun, ThreadsInv, Alive
  <2>2. test \notin PERFORMED
    BY <1>4 DEF StartTestCase
  <2> QED BY <1>4, <1>a, <2>1, <2>2 DEF StartTestCase, ClearedSync, Tests, MainOK
<1>5. CASE EndPhase
  BY <1>5, <1>a DEF EndPhase, MainOK, Tests
<1>6. CASE Shutdown
  BY <1>6, <1>a DEF Shutdown, MainOK, Tests
<1>7. CASE SetDuration
  BY <1>7 DEF SetDuration
<1>8. CASE Publish
  BY <1>8 DEF Publish
<1>9. CASE JoinWorkers
  BY <1>9 DEF JoinWorkers
<1>10. CASE DestroyWorkers
  BY <1>10 DEF DestroyWorkers
<1>11. CASE JoinTimer
  BY <1>11, <1>a DEF JoinTimer, MainOK, ThreadsInv, Tests, IP
<1>12. ASSUME NEW i \in Streams, CreateWorker(i) PROVE LifeInv'
  BY <1>12, <1>a DEF CreateWorker
<1> QED
  BY <1>1, <1>2, <1>3, <1>4, <1>5, <1>6, <1>7, <1>8, <1>9, <1>10, <1>11, <1>12
  DEF MainThread, MeasurementStep

LEMMA LifeTimer == TypeInv /\ LifeInv /\ (TimerThread \/ Clock) => LifeInv'
<1> SUFFICES ASSUME TypeInv, LifeInv, TimerThread \/ Clock PROVE LifeInv'
  OBVIOUS
<1> USE DEF LifeInv, ObjectsInv, PerformedInv, RaisedInv, FreshInv, MayLeave, TestRuns, Checks
<1> USE DEF TimerFrame, mainVars, workerVars, objectVars
<1>a. ThreadsInv /\ MainOK
  BY DEF TypeInv, TypeOK
<1>1. CASE TimerWhile
  BY <1>1 DEF TimerWhile, MayPoll, Quiet, resultVars, timerFlags
<1>2. CASE TimerCheck
  BY <1>2 DEF TimerCheck, AfterCheck, resultVars
<1>3. CASE TimerSync
  <2>1. mpc = "duration" => ~AllSynced
    BY <1>a, TestData, FS_EmptySet DEF AllSynced, ThreadsInv
  <2> QED BY <1>3, <2>1 DEF TimerSync, Quiet, resultVars, timerFlags
<1>4. CASE TimerStart
  BY <1>4 DEF TimerStart, Quiet, resultVars
<1>5. CASE TimerDropped
  BY <1>5 DEF TimerDropped, resultVars
<1>6. CASE TimerTick
  BY <1>6 DEF TimerTick, Quiet, resultVars
<1>7. CASE TimerAgain
  BY <1>7 DEF TimerAgain, Quiet, resultVars, timerFlags
<1>8. CASE TimerTail
  BY <1>8 DEF TimerTail, MayFinish, Quiet, resultVars, timerFlags
<1>9. CASE TimerOff
  BY <1>9 DEF TimerOff, Quiet, resultVars
<1>10. CASE Misuse \/ IpCallback \/ RttUdpCallback
  BY <1>10 DEF Misuse, IpCallback, RttUdpCallback, HandlerFrame, resultVars
<1>11. CASE CalculateStep
  <2>1. PICK streams \in StreamsSeen :
          /\ hasError' = (hasError \/ streams = {})
          /\ raised' = IF streams = {} THEN raised \cup {"STREAMS_DROPPED"} ELSE raised
    BY <1>11 DEF CalculateStep
  <2>2. hasError => hasError'
    BY <2>1, Zenon
  <2>3. raised' # {} => hasError' \/ raised' = raised
    BY <2>1, Zenon
  <2>4. tpc = "call" /\ tpc' = "call" /\ HandlerFrame
    BY <1>11 DEF CalculateStep
  <2> QED BY <1>a, <2>2, <2>3, <2>4 DEF HandlerFrame, resultVars, ThreadsInv
<1>12. CASE CalculateEnd
  BY <1>12 DEF CalculateEnd, HandlerFrame, resultVars
<1>13. CASE ReportDone
  BY <1>13 DEF ReportDone, resultVars, timerFlags
<1>14. CASE FinishDone
  BY <1>14, <1>a DEF FinishDone, timerFlags, ThreadsInv, MainOK
<1>15. CASE Clock
  BY <1>15 DEF Clock, flagVars, resultVars, timerFlags, timerVars
<1> QED
  BY <1>1, <1>2, <1>3, <1>4, <1>5, <1>6, <1>7, <1>8, <1>9, <1>10, <1>11, <1>12, <1>13,
     <1>14, <1>15
  DEF TimerThread, CallbackStep

LEMMA LifeWorker ==
  ASSUME NEW i \in Streams, TypeInv, LifeInv,
         WorkerThread(i) \/ SenderStops(i) \/ SenderDropped(i)
  PROVE  LifeInv'
<1> USE DEF LifeInv, ObjectsInv, PerformedInv, RaisedInv, FreshInv, MayLeave, TestRuns, Alive
<1> USE DEF WorkerFrame, resultVars, timerVars, mainVars, objectVars, At, Goto
<1>a. /\ ThreadsInv
      /\ wpc \in [Streams -> {"none", "open", "loop", "recv", "gap", "tls", "unwind",
                              "stop", "join", "ended"}]
  BY DEF TypeInv, TypeOK, WorkersOK
<1>1. ASSUME NEW t \in Tests, CommonWorkerStep(t, i) PROVE LifeInv'
  <2>1. ASSUME NEW f \in Flags, NEW pc \in {"open", "tls"}, Flag(t, i, pc, f)
        PROVE  LifeInv'
    BY <2>1, <1>a DEF Flag, ThreadsInv
  <2>2. CASE SetHasError(t, i)
    BY <2>2, <1>a DEF SetHasError, ThreadsInv
  <2>3. CASE Throw(t, i)
    BY <2>3, <1>a DEF Throw, ThreadsInv
  <2>4. CASE Unwind(t, i)
    BY <2>4, <1>a DEF Unwind, ThreadsInv
  <2> QED BY <1>1, <2>1, <2>2, <2>3, <2>4 DEF CommonWorkerStep
<1>2. ASSUME NEW t \in Tests \ {RTT}, ReceiveStep(t, i) PROVE LifeInv'
  <2>1. CASE Loop(t, i, IF t = UPLOAD THEN "stop" ELSE "ended")
    BY <2>1, <1>a DEF Loop, flagVars, ThreadsInv
  <2>2. ASSUME NEW response \in {"data", "gone"},
               NEW to \in {"loop", "ended", "stop", "tls"},
               Receive(t, i, response, to)
        PROVE  LifeInv'
    BY <2>2, <1>a DEF Receive, flagVars, ThreadsInv
  <2> QED BY <1>2, <2>1, <2>2 DEF ReceiveStep
<1>3. ASSUME NEW t \in Tests, Opened(t, i) PROVE LifeInv'
  BY <1>3, <1>a DEF Opened, flagVars, ThreadsInv
<1>4. CASE OwnWorkerStep(i)
  <2>1. CASE IpRefused(i)
    BY <2>1, <1>a DEF IpRefused, flagVars, ThreadsInv
  <2>2. CASE PingOpen(i) \/ PingLoop(i) \/ PingAnswer(i)
    BY <2>2, <1>a DEF PingOpen, PingLoop, PingAnswer, flagVars, ThreadsInv
  <2>3. CASE PingDone(i)
    BY <2>3, <1>a DEF PingDone, flagVars, ThreadsInv
  <2>4. CASE UploadStop(i) \/ UploadJoin(i)
    BY <2>4, <1>a DEF UploadStop, UploadJoin, flagVars, ThreadsInv
  <2> QED BY <1>4, <2>1, <2>2, <2>3, <2>4 DEF OwnWorkerStep
<1>5. CASE SenderStops(i) \/ SenderDropped(i)
  BY <1>5 DEF SenderStops, SenderDropped, SenderEnds, flagVars
<1> QED BY <1>1, <1>2, <1>3, <1>4, <1>5, WorkerSteps

LEMMA LifeStep == TypeInv /\ LifeInv /\ [Next]_vars => LifeInv'
<1> SUFFICES ASSUME TypeInv, LifeInv, [Next]_vars PROVE LifeInv'
  OBVIOUS
<1>1. CASE MeasurementStart \/ MainThread
  BY <1>1, LifeMain
<1>2. CASE TimerThread \/ Clock
  BY <1>2, LifeTimer
<1>3. CASE \E i \in Streams : WorkerThread(i) \/ SenderStops(i) \/ SenderDropped(i)
  BY <1>3, LifeWorker
<1>4. CASE StopCalled \/ StopTakesEffect \/ Halted \/ UNCHANGED vars
  BY <1>4
  DEF StopCalled, StopTakesEffect, Halted, vars, LifeInv, ObjectsInv, PerformedInv,
    RaisedInv, FreshInv, MayLeave, TestRuns, flagVars, resultVars, timerFlags, timerVars,
    mainVars, workerVars, objectVars
<1> QED BY <1>1, <1>2, <1>3, <1>4 DEF Next

\* The inductive invariant holds in every reachable state
THEOREM LifeCorrect == Spec => [](TypeInv /\ LifeInv)
<1>1. Init => TypeInv /\ LifeInv
  BY TypeInit, LifeInit
<1>2. TypeInv /\ LifeInv /\ [Next]_vars => (TypeInv /\ LifeInv)'
  BY TypeStep, LifeStep
<1> QED BY <1>1, <1>2, PTL DEF Spec

\* No handler of callback.cpp meets destroyed or unassigned workers but after
\* an error or a stop, or in the window of measurement.cpp:130-142 in which the
\* workers run and the callback does not know of them yet
THEOREM HandlersSafe == Spec => []HandlerSafe
<1>1. TypeInv /\ LifeInv => HandlerSafe
  <2> SUFFICES ASSUME TypeInv, LifeInv, tpc = "call"
               PROVE  \/ attached /\ ~freed
                      \/ hasError \/ ~RUNNING
                      \/ mpc \in {"create", "publish"}
    BY DEF HandlerSafe
  <2>1. TestRuns /\ mpc # "duration"
    BY DEF TypeInv, ThreadsInv, LifeInv, FreshInv, Checks
  <2>2. CASE mpc \in {"create", "publish"}
    BY <2>2
  <2>3. CASE mpc \in {"join", "await"}
    BY <2>1, <2>3 DEF LifeInv, ObjectsInv
  <2>4. CASE mpc = "joinTimer"
    BY <2>4 DEF LifeInv, ObjectsInv, PerformedInv, MayLeave
  <2> QED BY <2>1, <2>2, <2>3, <2>4 DEF TestRuns
<1> QED BY <1>1, LifeCorrect, PTL

-----------------------------------------------------------------------------
(* What the timer waits for before it measures *)

\* Entries of syncing_threads are of the running test case, and there is one
\* of each worker when the timer decides to start (timer.cpp:113)
SyncedInv ==
  TestRuns =>
    /\ syncing_threads \subseteq {test} \X Workers
    /\ tpc = "delay" \/ TIMER_RUNNING => {test} \X Workers \subseteq syncing_threads

\* A stream is synced by its first receive, which sets mResponse
ResponseInv ==
  TestRuns /\ test \in {DOWNLOAD, UPLOAD} =>
    \A i \in Workers : <<test, i>> \in syncing_threads => mResponse[i] # "none"

\* CMeasurement sets the duration before it creates workers, the RTT worker
\* before it is synced
DurationInv ==
  TestRuns =>
    /\ test # RTT /\ mpc # "duration" => MEASUREMENT_DURATION = DurationOf[test]
    /\ test = RTT /\ (\/ syncing_threads # {}
                      \/ \E i \in Streams : wpc[i] \in {"loop", "recv"}) =>
         MEASUREMENT_DURATION = PingDuration

SyncInv == SyncedInv /\ ResponseInv /\ DurationInv

\* Counting the synced threads tells that all of them are there, as long as
\* they are threads of this test case
LEMMA CountedIsAll ==
  ASSUME test \in Tests, syncing_threads \subseteq {test} \X Workers, AllSynced
  PROVE  {test} \X Workers \subseteq syncing_threads
<1>1. /\ IsFiniteSet(Workers)
      /\ Cardinality(Workers) = Instances[test]
  <2>1. Instances[test] \in Int /\ Instances[test] >= 1
    BY TestData
  <2>2. /\ IsFiniteSet(1..Instances[test])
        /\ Cardinality(1..Instances[test]) =
             IF 1 > Instances[test] THEN 0 ELSE Instances[test] - 1 + 1
    BY <2>1, FS_Interval
  <2> QED BY <2>1, <2>2 DEF Workers
<1>2. /\ IsFiniteSet({test})
      /\ Cardinality({test}) = 1
  BY FS_Singleton
<1>3. /\ IsFiniteSet({test} \X Workers)
      /\ Cardinality({test} \X Workers) = 1 * Instances[test]
  BY <1>1, <1>2, FS_Product
<1>4. Cardinality({test} \X Workers) = Cardinality(syncing_threads)
  BY <1>3, TestData DEF AllSynced
<1> QED BY <1>3, <1>4, FS_Subset

LEMMA SyncInit == Init => SyncInv
BY DEF Init, SyncInv, SyncedInv, ResponseInv, DurationInv, TestRuns

LEMMA SyncMain ==
  TypeInv /\ LifeInv /\ SyncInv /\ (MeasurementStart \/ MainThread) => SyncInv'
<1> SUFFICES ASSUME TypeInv, LifeInv, SyncInv, MeasurementStart \/ MainThread PROVE SyncInv'
  OBVIOUS
<1> USE DEF SyncInv, SyncedInv, ResponseInv, DurationInv, TestRuns, Workers
<1> USE DEF timerFlags, timerVars, workerVars, MainFrame
<1>a. ThreadsInv /\ FreshInv
  BY DEF TypeInv, LifeInv
<1>1. CASE MeasurementStart \/ Refuse \/ SkipTestCase \/ EndPhase \/ Shutdown
  BY <1>1 DEF MeasurementStart, Refuse, SkipTestCase, EndPhase, Shutdown
<1>2. CASE StartTestCase
  BY <1>2 DEF StartTestCase, ClearedSync
<1>3. CASE SetDuration
  BY <1>3, <1>a DEF SetDuration, FreshInv, ThreadsInv, Alive
<1>4. CASE Publish
  BY <1>4 DEF Publish
<1>5. CASE JoinWorkers
  BY <1>5 DEF JoinWorkers
<1>6. CASE DestroyWorkers
  BY <1>6 DEF DestroyWorkers
<1>7. CASE JoinTimer
  BY <1>7 DEF JoinTimer
<1>8. ASSUME NEW i \in Streams, CreateWorker(i) PROVE SyncInv'
  BY <1>8 DEF CreateWorker, TypeInv, TypeOK, WorkersOK
<1> QED
  BY <1>1, <1>2, <1>3, <1>4, <1>5, <1>6, <1>7, <1>8 DEF MainThread, MeasurementStep

LEMMA SyncTimer == TypeInv /\ SyncInv /\ (TimerThread \/ Clock) => SyncInv'
<1> SUFFICES ASSUME TypeInv, SyncInv, TimerThread \/ Clock PROVE SyncInv'
  OBVIOUS
<1> USE DEF SyncInv, SyncedInv, ResponseInv, DurationInv, TestRuns, Workers
<1> USE DEF TimerFrame, mainVars, workerVars
<1>1. CASE TimerSync
  <2>1. TestRuns /\ test \in Tests
    BY <1>1 DEF TypeInv, ThreadsInv, TimerSync
  <2>2. AllSynced => {test} \X Workers \subseteq syncing_threads
    BY <2>1, CountedIsAll
  <2> QED BY <1>1, <2>2 DEF TimerSync, timerFlags
<1>2. CASE TimerStart
  BY <1>2 DEF TimerStart
<1>3. CASE TimerWhile \/ TimerAgain \/ TimerTail \/ TimerOff
  BY <1>3 DEF TimerWhile, TimerAgain, TimerTail, TimerOff, timerFlags
<1>4. CASE TimerCheck
  BY <1>4 DEF TimerCheck, AfterCheck, Checks
<1>5. CASE TimerDropped
  BY <1>5 DEF TimerDropped
<1>6. CASE TimerTick
  BY <1>6 DEF TimerTick
<1>7. CASE Misuse \/ IpCallback \/ RttUdpCallback \/ CalculateStep \/ CalculateEnd
  BY <1>7 DEF Misuse, IpCallback, RttUdpCallback, CalculateStep, CalculateEnd, HandlerFrame
<1>8. CASE ReportDone \/ FinishDone
  BY <1>8 DEF ReportDone, FinishDone, timerFlags
<1>9. CASE Clock
  BY <1>9 DEF Clock, timerFlags, timerVars
<1> QED
  BY <1>1, <1>2, <1>3, <1>4, <1>5, <1>6, <1>7, <1>8, <1>9 DEF TimerThread, CallbackStep

LEMMA SyncWorker ==
  ASSUME NEW i \in Streams, TypeInv, SyncInv,
         WorkerThread(i) \/ SenderStops(i) \/ SenderDropped(i)
  PROVE  SyncInv'
<1> USE DEF SyncInv, SyncedInv, ResponseInv, DurationInv, TestRuns, Workers
<1> USE DEF WorkerFrame, timerVars, mainVars, At, Goto
<1>a. /\ ThreadsInv
      /\ wpc \in [Streams -> {"none", "open", "loop", "recv", "gap", "tls", "unwind",
                              "stop", "join", "ended"}]
      /\ mResponse \in [Streams -> {"none", "data", "gone"}]
  BY DEF TypeInv, TypeOK, WorkersOK
<1>1. ASSUME NEW t \in Tests, CommonWorkerStep(t, i) PROVE SyncInv'
  <2>1. ASSUME NEW f \in Flags, NEW pc \in {"open", "tls"}, Flag(t, i, pc, f)
        PROVE  SyncInv'
    BY <2>1, <1>a DEF Flag
  <2>2. CASE SetHasError(t, i)
    BY <2>2, <1>a DEF SetHasError
  <2>3. CASE Throw(t, i)
    BY <2>3, <1>a DEF Throw
  <2>4. CASE Unwind(t, i)
    BY <2>4, <1>a DEF Unwind
  <2> QED BY <1>1, <2>1, <2>2, <2>3, <2>4 DEF CommonWorkerStep
<1>2. ASSUME NEW t \in Tests \ {RTT}, ReceiveStep(t, i) PROVE SyncInv'
  <2>1. CASE Loop(t, i, IF t = UPLOAD THEN "stop" ELSE "ended")
    BY <2>1, <1>a, <1>2 DEF Loop
  <2>2. ASSUME NEW response \in {"data", "gone"},
               NEW to \in {"loop", "ended", "stop", "tls"},
               Receive(t, i, response, to)
        PROVE  SyncInv'
    BY <2>2, <1>a, <1>2 DEF Receive
  <2> QED BY <1>2, <2>1, <2>2 DEF ReceiveStep
<1>3. ASSUME NEW t \in Tests \ {RTT}, Opened(t, i) PROVE SyncInv'
  BY <1>3, <1>a DEF Opened
<1>4. CASE OwnWorkerStep(i)
  <2>1. CASE IpRefused(i)
    BY <2>1, <1>a DEF IpRefused
  <2>2. CASE PingOpen(i)
    BY <2>2, <1>a DEF PingOpen, PingMeasurementDuration, RTT, DOWNLOAD, UPLOAD
  <2>3. CASE PingLoop(i)
    BY <2>3, <1>a DEF PingLoop, RTT, DOWNLOAD, UPLOAD
  <2>4. CASE PingAnswer(i)
    BY <2>4, <1>a DEF PingAnswer
  <2>5. CASE PingDone(i)
    BY <2>5, <1>a DEF PingDone
  <2>6. CASE UploadStop(i) \/ UploadJoin(i)
    BY <2>6, <1>a DEF UploadStop, UploadJoin
  <2> QED BY <1>4, <2>1, <2>2, <2>3, <2>4, <2>5, <2>6 DEF OwnWorkerStep
<1>5. CASE SenderStops(i) \/ SenderDropped(i)
  BY <1>5 DEF SenderStops, SenderDropped, SenderEnds
<1> QED BY <1>1, <1>2, <1>3, <1>4, <1>5, WorkerSteps

LEMMA SyncStep == TypeInv /\ LifeInv /\ SyncInv /\ [Next]_vars => SyncInv'
<1> SUFFICES ASSUME TypeInv, LifeInv, SyncInv, [Next]_vars PROVE SyncInv'
  OBVIOUS
<1>1. CASE MeasurementStart \/ MainThread
  BY <1>1, SyncMain
<1>2. CASE TimerThread \/ Clock
  BY <1>2, SyncTimer
<1>3. CASE \E i \in Streams : WorkerThread(i) \/ SenderStops(i) \/ SenderDropped(i)
  BY <1>3, SyncWorker
<1>4. CASE StopCalled \/ StopTakesEffect \/ Halted \/ UNCHANGED vars
  BY <1>4
  DEF StopCalled, StopTakesEffect, Halted, vars, SyncInv, SyncedInv, ResponseInv,
    DurationInv, TestRuns, Workers, timerFlags, timerVars, mainVars, workerVars
<1> QED BY <1>1, <1>2, <1>3, <1>4 DEF Next

\* The three invariants hold together in every reachable state
THEOREM SyncCorrect == Spec => [](TypeInv /\ LifeInv /\ SyncInv)
<1>1. Init => SyncInv
  BY SyncInit
<1>2. TypeInv /\ LifeInv /\ SyncInv /\ [Next]_vars => SyncInv'
  BY SyncStep
<1> QED BY <1>1, <1>2, LifeCorrect, PTL DEF Spec

\* The timer measures only when each stream of this test case has received
\* its first answer, however many earlier test cases have filled
\* syncing_threads, the set that timer.cpp:113 counts
THEOREM StreamsDeliver == Spec => []AllStreamsDeliver
<1>1. SyncInv => AllStreamsDeliver
  BY DEF SyncInv, SyncedInv, ResponseInv, AllStreamsDeliver
<1> QED BY <1>1, SyncCorrect, PTL

\* The timer compares the time with a duration that another thread has set
\* since the constructor of CTimer zeroed it (timer.cpp:51, 145)
THEOREM DurationsKnown == Spec => []DurationKnown
<1>1. TypeInv /\ LifeInv /\ SyncInv => DurationKnown
  <2> SUFFICES ASSUME TypeInv, LifeInv, SyncInv, TestRuns, TIMER_RUNNING
               PROVE  MEASUREMENT_DURATION = DurationOf[test]
    BY DEF DurationKnown
  <2>1. mpc # "duration"
    BY DEF LifeInv, FreshInv
  <2>2. test \in Tests
    BY DEF TypeInv, ThreadsInv
  <2>3. CASE test # RTT
    BY <2>1, <2>3 DEF SyncInv, DurationInv
  <2>4. CASE test = RTT
    <3>1. 1 \in Workers
      BY <2>2, TestData DEF Workers
    <3>2. syncing_threads # {}
      <4>1. <<test, 1>> \in {test} \X Workers
        BY <3>1
      <4> QED BY <4>1 DEF SyncInv, SyncedInv
    <3>3. DurationOf[RTT] = PingDuration
      BY DEF DurationOf, Tests, RTT, IP
    <3> QED BY <2>4, <3>2, <3>3 DEF SyncInv, DurationInv
  <2> QED BY <2>3, <2>4
<1> QED BY <1>1, SyncCorrect, PTL

-----------------------------------------------------------------------------
(* An error and the finish after it *)

\* The platform is told of errors that somebody has raised, or that a
\* measurement has no test case, which also ends it
ErrorInv == errors # {} => raised # {} \/ ~RUNNING

\* A worker or sender may raise flags and end the measurement, and leaves the
\* other threads and what the platform was told alone
LEMMA WorkerChanges ==
  ASSUME NEW i \in Streams, WorkerThread(i) \/ SenderStops(i) \/ SenderDropped(i)
  PROVE  WorkerFrame /\ raised \subseteq raised' /\ (RUNNING' => RUNNING)
<1>1. CASE \E t \in Tests : CommonWorkerStep(t, i)
  BY <1>1 DEF CommonWorkerStep, Flag, SetHasError, Throw, Unwind
<1>2. CASE \E t \in Tests \ {RTT} : ReceiveStep(t, i) \/ Opened(t, i)
  BY <1>2 DEF ReceiveStep, Loop, Receive, Opened, flagVars
<1>3. CASE OwnWorkerStep(i)
  BY <1>3 DEF OwnWorkerStep, IpRefused, PingOpen, PingLoop, PingAnswer, PingDone,
    UploadStop, UploadJoin, flagVars
<1>4. CASE SenderStops(i) \/ SenderDropped(i)
  BY <1>4 DEF SenderStops, SenderDropped, SenderEnds, flagVars
<1> QED BY <1>1, <1>2, <1>3, <1>4, WorkerSteps

LEMMA ErrorInit == Init => ErrorInv
BY DEF Init, ErrorInv

LEMMA ErrorStep == ErrorInv /\ [Next]_vars => ErrorInv'
<1> SUFFICES ASSUME ErrorInv, [Next]_vars PROVE ErrorInv'
  OBVIOUS
<1> USE DEF ErrorInv
<1>1. CASE MeasurementStart \/ MainThread
  <2>1. CASE MeasurementStart
    BY <2>1 DEF MeasurementStart
  <2>2. CASE Refuse \/ Shutdown
    BY <2>2 DEF Refuse, Shutdown, platformVars
  <2>3. CASE StartTestCase \/ EndPhase
    BY <2>3 DEF StartTestCase, EndPhase, flagVars, platformVars
  <2>4. CASE SkipTestCase \/ MeasurementStep
    <3>1. MainFrame
      BY <2>4 DEF SkipTestCase, MeasurementStep, SetDuration, CreateWorker, Publish,
        JoinWorkers, DestroyWorkers, JoinTimer
    <3> QED BY <3>1 DEF MainFrame, flagVars, platformVars
  <2> QED BY <1>1, <2>1, <2>2, <2>3, <2>4 DEF MainThread
<1>2. CASE TimerThread
  <2> USE DEF TimerFrame
  <2>1. CASE TimerCheck
    BY <2>1 DEF TimerCheck, platformVars
  <2>2. CASE TimerDropped
    BY <2>2 DEF TimerDropped, DropSeen
  <2>3. CASE TimerWhile \/ TimerSync \/ TimerStart \/ TimerTick \/ TimerAgain \/ TimerTail
             \/ TimerOff
    BY <2>3 DEF TimerWhile, TimerSync, TimerStart, TimerTick, TimerAgain, TimerTail,
      TimerOff, Quiet, platformVars
  <2>4. CASE CalculateStep
    <3>1. raised \subseteq raised' /\ UNCHANGED RUNNING /\ UNCHANGED errors
      BY <2>4 DEF CalculateStep, HandlerFrame, platformVars
    <3> QED BY <3>1
  <2>5. CASE Misuse \/ IpCallback \/ RttUdpCallback \/ CalculateEnd
    BY <2>5 DEF Misuse, IpCallback, RttUdpCallback, CalculateEnd, HandlerFrame, platformVars
  <2>6. CASE ReportDone \/ FinishDone
    BY <2>6 DEF ReportDone, FinishDone
  <2> QED BY <1>2, <2>1, <2>2, <2>3, <2>4, <2>5, <2>6 DEF TimerThread, CallbackStep
<1>3. ASSUME NEW i \in Streams, WorkerThread(i) \/ SenderStops(i) \/ SenderDropped(i)
      PROVE  ErrorInv'
  BY <1>3, WorkerChanges DEF WorkerFrame, platformVars
<1>4. CASE Clock \/ StopCalled \/ StopTakesEffect \/ Halted \/ UNCHANGED vars
  BY <1>4 DEF Clock, StopCalled, StopTakesEffect, Halted, vars, flagVars, platformVars
<1> QED BY <1>1, <1>2, <1>3, <1>4 DEF Next

\* Only TimerTail takes the timer thread from the end of its loops into the
\* callback
LEMMA TailStep ==
  ASSUME TypeInv, [Next]_vars, tpc = "tail", tpc' = "call"
  PROVE  TimerTail
<1>1. CASE MeasurementStart \/ MainThread
  <2>1. UNCHANGED tpc \/ StartTestCase
    BY <1>1 DEF MeasurementStart, MainThread, Refuse, SkipTestCase, EndPhase, Shutdown,
      MeasurementStep, SetDuration, CreateWorker, Publish, JoinWorkers, DestroyWorkers,
      JoinTimer, MainFrame, timerVars
  <2> QED BY <2>1 DEF StartTestCase
<1>2. CASE TimerThread
  BY <1>2 DEF TimerThread, TimerWhile, TimerCheck, Checks, TimerSync, TimerStart,
    TimerDropped, TimerTick, TimerAgain, TimerOff, CallbackStep, Misuse, IpCallback,
    RttUdpCallback, CalculateStep, CalculateEnd, ReportDone, FinishDone
<1>3. ASSUME NEW i \in Streams, WorkerThread(i) \/ SenderStops(i) \/ SenderDropped(i)
      PROVE  UNCHANGED tpc
  BY <1>3, WorkerChanges DEF WorkerFrame, timerVars
<1>4. CASE Clock \/ StopCalled \/ StopTakesEffect \/ Halted \/ UNCHANGED vars
  BY <1>4 DEF Clock, StopCalled, StopTakesEffect, Halted, vars, timerVars
<1> QED BY <1>1, <1>2, <1>3, <1>4 DEF Next

\* After an error has been reported, the timer goes on to finish the test case
\* (timer.cpp:170) only while a worker is between setting its flag and setting
\* hasError
THEOREM FinishesAfterError == Spec => FinishAfterError
<1>1. TypeInv /\ LifeInv /\ ErrorInv /\ [Next]_vars => [FinishAfterErrorStep]_vars
  <2> SUFFICES ASSUME TypeInv, LifeInv, ErrorInv, [Next]_vars,
                      tpc = "tail", tpc' = "call", errors # {}
               PROVE  \E i \in Streams : wpc[i] = "gap"
    BY DEF FinishAfterErrorStep
  <2>1. RUNNING /\ ~hasError
    BY TailStep DEF TimerTail, MayFinish
  <2>2. raised # {}
    BY <2>1 DEF ErrorInv
  <2> QED BY <2>1, <2>2 DEF LifeInv, RaisedInv
<1>2. Spec => [](TypeInv /\ LifeInv /\ ErrorInv)
  <2>1. Init => ErrorInv
    BY ErrorInit
  <2>2. ErrorInv /\ [Next]_vars => ErrorInv'
    BY ErrorStep
  <2> QED BY <2>1, <2>2, LifeCorrect, PTL DEF Spec
<1> QED BY <1>1, <1>2, PTL DEF Spec, FinishAfterError


-----------------------------------------------------------------------------
(* The client implements MeasurementProtocol, what an embedding app may rely *)
(* on.  What the messages of a measurement depend on                         *)

\* The platform is told of a finish when the test case is marked as performed,
\* of the completion when all of the plan are; only planned test cases run
PlanInv ==
  /\ finished = PERFORMED
  /\ completed => plan \subseteq PERFORMED
  /\ mpc \notin {"idle", "exited"} /\ PERFORMED = plan => completed
  /\ TestRuns => test \in plan

\* The next test case starts only when those before it have finished: the wait
\* of CMeasurement is left early only with hasError set or RUNNING cleared
OrderInv ==
  TestRuns \/ (mpc = "phase" /\ RUNNING /\ ~hasError) =>
    \A u \in plan : u < test => u \in PERFORMED

\* An empty measurement is refused before anything else is said, and does not go on
RefuseInv ==
  /\ mpc = "refuse" => plan = {IP} /\ errors = {}
  /\ plan = {IP} => ~RUNNING \/ mpc \in {"idle", "exited", "refuse"}

\* After an error the timer thread looks at no flag any more
ErrorsInv ==
  tpc # "ended" /\ errors # {} =>
    \/ tpc \in {"tail", "off"}
    \/ tpc = "while" /\ TIMER_STOPPED
    \/ tpc \in {"call", "post"} /\ cmd = "finish"

\* Phase END is left behind by the measurement before, or begins with the
\* completed message
EndInv ==
  /\ TestRuns /\ currentTestPhase = "END" => completed
  /\ delivered => completed \/ plan = {IP}

ProtocolInv == PlanInv /\ OrderInv /\ RefuseInv /\ ErrorsInv /\ EndInv

LEMMA ProtocolInit == Init => ProtocolInv
BY DEF Init, ProtocolInv, PlanInv, OrderInv, RefuseInv, ErrorsInv, EndInv, TestRuns

\* A test case starts in a measurement in which nothing has failed
LEMMA StartsWithoutFlag ==
  ASSUME TypeInv, LifeInv, StartTestCase
  PROVE  raised = {}
<1>1. mpc = "phase" /\ (test = IP \/ ~hasError)
  BY DEF StartTestCase, MayRun
<1>2. \A i \in Streams : wpc[i] # "gap"
  BY <1>1 DEF TypeInv, ThreadsInv, Alive
<1> QED BY <1>1, <1>2 DEF LifeInv, RaisedInv

LEMMA StartsWithoutError ==
  ASSUME TypeInv, LifeInv, ErrorInv, StartTestCase
  PROVE  errors = {}
BY StartsWithoutFlag DEF ErrorInv, StartTestCase, MayRun

LEMMA ProtocolMain ==
  TypeInv /\ LifeInv /\ ErrorInv /\ ProtocolInv /\ (MeasurementStart \/ MainThread)
    => ProtocolInv'
<1> SUFFICES ASSUME TypeInv, LifeInv, ErrorInv, ProtocolInv, MeasurementStart \/ MainThread
             PROVE  ProtocolInv'
  OBVIOUS
<1> USE DEF ProtocolInv, PlanInv, OrderInv, RefuseInv, ErrorsInv, EndInv, TestRuns
<1> USE DEF flagVars, resultVars, timerFlags, timerVars, platformVars, MainFrame
<1>a. ThreadsInv /\ MainOK
  BY DEF TypeInv, TypeOK
<1>1. CASE MeasurementStart
  <2>1. plan' \subseteq Tests /\ plan' # {}
    BY <1>1, PlansOfTests DEF MeasurementStart
  <2>2. /\ PERFORMED' = {} /\ finished' = {} /\ errors' = {} /\ ~completed' /\ ~delivered'
        /\ mpc = "idle" /\ mpc' = IF plan' = {IP} THEN "refuse" ELSE "phase"
        /\ test' = IP /\ tpc' = tpc
    BY <1>1 DEF MeasurementStart, FreshPerformed
  <2>3. tpc = "ended"
    BY <1>a, <2>2 DEF ThreadsInv
  <2>4. PlanInv'
    BY <2>1, <2>2
  <2>5. OrderInv'
    BY <2>1, <2>2 DEF Tests, IP
  <2>6. RefuseInv' /\ ErrorsInv' /\ EndInv'
    BY <2>2, <2>3
  <2> QED BY <2>4, <2>5, <2>6, Zenon
<1>2. CASE Refuse
  BY <1>2, <1>a DEF Refuse, ReportError, ToPlatform, ThreadsInv
<1>3. CASE SkipTestCase
  <2>1. RUNNING /\ ~hasError => test \notin plan
    BY <1>3 DEF SkipTestCase, MayRun
  <2> QED BY <1>3, <1>a, <2>1 DEF SkipTestCase, MainOK, ThreadsInv, Tests
<1>4. CASE StartTestCase
  <2>1. errors' = {}
    BY <1>4, StartsWithoutError DEF StartTestCase
  <2>2. currentTestPhase' # "END"
    BY <1>4 DEF StartTestCase, StartPhase, PhaseOf
  <2>3. \A u \in plan : u < test => u \in PERFORMED
    <3>1. test = IP \/ (RUNNING /\ ~hasError)
      BY <1>4 DEF StartTestCase, MayRun
    <3>2. ASSUME test = IP, NEW u \in plan PROVE ~(u < test)
      BY <1>a, <3>2 DEF MainOK, Tests, IP
    <3> QED BY <1>4, <3>1, <3>2 DEF StartTestCase
  <2>4. /\ mpc = "phase" /\ mpc' = "duration" /\ test' = test /\ plan' = plan /\ test \in plan
        /\ UNCHANGED <<RUNNING, PERFORMED, finished, completed, delivered>>
    BY <1>4 DEF StartTestCase, MayRun
  <2>5. PlanInv'
    BY <2>4
  <2>6. OrderInv' /\ RefuseInv'
    BY <2>3, <2>4
  <2>7. ErrorsInv' /\ EndInv'
    BY <2>1, <2>2, <2>4
  <2> QED BY <2>5, <2>6, <2>7, Zenon
<1>5. CASE EndPhase
  BY <1>5, <1>a DEF EndPhase, ThreadsInv
<1>6. CASE Shutdown
  BY <1>6, <1>a DEF Shutdown, ThreadsInv
<1>7. CASE SetDuration \/ Publish \/ JoinWorkers \/ DestroyWorkers
  BY <1>7 DEF SetDuration, Publish, JoinWorkers, DestroyWorkers
<1>8. CASE JoinTimer
  <2>1. RUNNING /\ ~hasError => test \in PERFORMED
    BY <1>8 DEF JoinTimer, LifeInv, ObjectsInv, MayLeave
  <2> QED BY <1>8, <1>a, <2>1 DEF JoinTimer, MainOK, ThreadsInv, Tests
<1>9. ASSUME NEW i \in Streams, CreateWorker(i) PROVE ProtocolInv'
  BY <1>9 DEF CreateWorker
<1> QED
  BY <1>1, <1>2, <1>3, <1>4, <1>5, <1>6, <1>7, <1>8, <1>9 DEF MainThread, MeasurementStep

LEMMA ProtocolTimer ==
  TypeInv /\ LifeInv /\ ProtocolInv /\ (TimerThread \/ Clock) => ProtocolInv'
<1> SUFFICES ASSUME TypeInv, LifeInv, ProtocolInv, TimerThread \/ Clock
             PROVE  ProtocolInv'
  OBVIOUS
<1> USE DEF ProtocolInv, PlanInv, OrderInv, RefuseInv, ErrorsInv, EndInv, TestRuns
<1> USE DEF TimerFrame, mainVars
<1>a. ThreadsInv /\ completed \in BOOLEAN /\ delivered \in BOOLEAN
  BY DEF TypeInv, TypeOK, BooleansOK
<1>b. ASSUME tpc # "ended" PROVE TestRuns
  BY <1>a, <1>b DEF ThreadsInv
<1>1. CASE TimerWhile \/ TimerSync \/ TimerStart \/ TimerTick \/ TimerAgain \/ TimerTail
           \/ TimerOff
  BY <1>1, <1>b DEF TimerWhile, TimerSync, TimerStart, TimerTick, TimerAgain, TimerTail,
    TimerOff, MayPoll, Quiet, resultVars, platformVars, timerFlags
<1>2. CASE TimerCheck
  <2>1. tpc \in Checks /\ UNCHANGED <<RUNNING, hasError, resultVars, mainVars>>
    BY <1>2 DEF TimerCheck
  <2>2. errors = {}
    BY <2>1 DEF Checks
  <2>3. CASE tpc \in raised
    <3>1. ReportError(ErrorCode[tpc]) /\ tpc' = "tail"
      BY <1>2, <2>3 DEF TimerCheck
    <3>2. delivered' => delivered \/ currentTestPhase = "END"
      BY <3>1, Zenon DEF ReportError, ToPlatform
    <3>3. UNCHANGED <<finished, completed>>
      BY <3>1 DEF ReportError
    <3> QED BY <1>b, <2>1, <3>1, <3>2, <3>3 DEF Checks, resultVars
  <2>4. CASE tpc \notin raised
    BY <1>2, <1>b, <2>1, <2>2, <2>4 DEF TimerCheck, Checks, resultVars, platformVars
  <2> QED BY <2>3, <2>4
<1>3. CASE TimerDropped
  <2>1. /\ tpc = "inner" /\ tpc' = "while" /\ TIMER_STOPPED' = TRUE
        /\ ReportError(ErrorCode["STREAMS_DROPPED"])
        /\ UNCHANGED <<RUNNING, hasError, resultVars, mainVars>>
    BY <1>3 DEF TimerDropped
  <2>2. delivered' => delivered \/ currentTestPhase = "END"
    BY <2>1, Zenon DEF ReportError, ToPlatform
  <2>3. UNCHANGED <<finished, completed>>
    BY <2>1 DEF ReportError
  <2> QED BY <1>b, <2>1, <2>2, <2>3 DEF resultVars
<1>4. CASE Misuse \/ IpCallback \/ RttUdpCallback \/ CalculateEnd
  BY <1>4, <1>b DEF Misuse, IpCallback, RttUdpCallback, CalculateEnd, HandlerFrame,
    resultVars, platformVars
<1>5. CASE CalculateStep
  <2>1. UNCHANGED <<RUNNING, PERFORMED, currentTestPhase, platformVars, mainVars, tpc, cmd>>
    BY <1>5 DEF CalculateStep, HandlerFrame, resultVars
  <2>2. tpc = "call"
    BY <1>5 DEF CalculateStep
  <2> QED BY <2>1, <2>2, <1>b DEF platformVars
<1>6. CASE ReportDone
  BY <1>6, <1>b DEF ReportDone, ToPlatform, resultVars, timerFlags
<1>7. CASE FinishDone
  <2>a. sTestName = test
    BY <1>7, <1>b, <1>a DEF FinishDone, ThreadsInv
  <2>1. /\ PERFORMED' = PERFORMED \cup {test} /\ finished' = finished \cup {test}
        /\ tpc = "post" /\ tpc' = "off"
        /\ UNCHANGED <<RUNNING, errors, mainVars, TIMER_STOPPED, cmd>>
    BY <1>7, <2>a DEF FinishDone, timerFlags
  <2>2. /\ completed' => completed \/ PERFORMED' = plan
        /\ PERFORMED' = plan => completed'
    BY <1>7, Zenon DEF FinishDone, AllPerformed
  <2>3. currentTestPhase' = "END" => completed' \/ currentTestPhase = "END"
    BY <1>7, Zenon DEF FinishDone
  <2>4. completed => completed'
    BY <1>7, Zenon DEF FinishDone
  <2>5. delivered' => delivered \/ currentTestPhase = "END" \/ currentTestPhase' = "END"
    BY <1>7 DEF FinishDone
  <2> QED BY <2>1, <2>2, <2>3, <2>4, <2>5, <1>b
<1>8. CASE Clock
  BY <1>8 DEF Clock, flagVars, resultVars, timerFlags, timerVars, platformVars
<1> QED
  BY <1>1, <1>2, <1>3, <1>4, <1>5, <1>6, <1>7, <1>8 DEF TimerThread, CallbackStep

\* Before the workers are created and after they have been joined none of them
\* takes a step
LEMMA NoWorker ==
  ASSUME NEW i \in Streams, TypeInv, mpc \notin {"create", "publish", "join"}
  PROVE  ~WorkerThread(i)
<1>1. wpc[i] \in {"none", "ended"}
  BY DEF TypeInv, ThreadsInv, Alive
<1>2. ASSUME NEW t, CommonWorkerStep(t, i) PROVE FALSE
  BY <1>1, <1>2 DEF CommonWorkerStep, Flag, SetHasError, Throw, Unwind, At
<1>3. ASSUME NEW t, ReceiveStep(t, i) \/ Opened(t, i) PROVE FALSE
  BY <1>1, <1>3 DEF ReceiveStep, Loop, Receive, Opened, At
<1>4. ASSUME OwnWorkerStep(i) PROVE FALSE
  BY <1>1, <1>4 DEF OwnWorkerStep, IpRefused, PingOpen, PingLoop, PingAnswer, PingDone,
    UploadStop, UploadJoin, At
<1> QED BY <1>2, <1>3, <1>4, WorkerSteps

\* A worker may stop the timer, it never starts it again
LEMMA StoppedStays ==
  ASSUME NEW i \in Streams, WorkerThread(i) \/ SenderStops(i) \/ SenderDropped(i)
  PROVE  TIMER_STOPPED => TIMER_STOPPED'
<1>1. CASE \E t \in Tests : CommonWorkerStep(t, i)
  BY <1>1 DEF CommonWorkerStep, Flag, SetHasError, Throw, Unwind
<1>2. CASE \E t \in Tests \ {RTT} : ReceiveStep(t, i) \/ Opened(t, i)
  BY <1>2 DEF ReceiveStep, Loop, Receive, Opened
<1>3. CASE OwnWorkerStep(i)
  BY <1>3 DEF OwnWorkerStep, IpRefused, PingOpen, PingLoop, PingAnswer, PingDone,
    UploadStop, UploadJoin
<1>4. CASE SenderStops(i) \/ SenderDropped(i)
  BY <1>4 DEF SenderStops, SenderDropped, SenderEnds
<1> QED BY <1>1, <1>2, <1>3, <1>4, WorkerSteps

LEMMA ProtocolStep ==
  TypeInv /\ LifeInv /\ ErrorInv /\ ProtocolInv /\ [Next]_vars => ProtocolInv'
<1> SUFFICES ASSUME TypeInv, LifeInv, ErrorInv, ProtocolInv, [Next]_vars
             PROVE  ProtocolInv'
  OBVIOUS
<1> USE DEF ProtocolInv, PlanInv, OrderInv, RefuseInv, ErrorsInv, EndInv, TestRuns
<1>1. CASE MeasurementStart \/ MainThread
  BY <1>1, ProtocolMain
<1>2. CASE TimerThread \/ Clock
  BY <1>2, ProtocolTimer
<1>3. ASSUME NEW i \in Streams, WorkerThread(i) \/ SenderStops(i) \/ SenderDropped(i)
      PROVE  ProtocolInv'
  <2>1. WorkerFrame /\ (RUNNING' => RUNNING)
    BY <1>3, WorkerChanges
  <2>2. mpc = "phase" => UNCHANGED hasError
    BY <1>3, NoWorker DEF SenderStops, SenderDropped, SenderEnds, flagVars
  <2>3. TIMER_STOPPED => TIMER_STOPPED'
    BY <1>3, StoppedStays
  <2> QED BY <2>1, <2>2, <2>3 DEF WorkerFrame, resultVars, timerVars, mainVars, platformVars
<1>4. CASE StopCalled \/ StopTakesEffect \/ Halted \/ UNCHANGED vars
  BY <1>4 DEF StopCalled, StopTakesEffect, Halted, vars, flagVars, resultVars, timerFlags,
    timerVars, mainVars, platformVars
<1> QED BY <1>1, <1>2, <1>3, <1>4 DEF Next

\* The invariants hold together in every reachable state
THEOREM ProtocolCorrect == Spec => [](TypeInv /\ LifeInv /\ ErrorInv /\ ProtocolInv)
<1>1. Init => ErrorInv /\ ProtocolInv
  BY ErrorInit, ProtocolInit
<1>2. TypeInv /\ LifeInv /\ ErrorInv /\ ProtocolInv /\ [Next]_vars => (ErrorInv /\ ProtocolInv)'
  BY ErrorStep, ProtocolStep
<1> QED BY <1>1, <1>2, LifeCorrect, PTL DEF Spec

\* The app is given the final result (callbackFinished) only when the
\* measurement has completed, or with the refusal of an empty one
THEOREM DeliveredWhenComplete == Spec => []DeliveredComplete
<1>1. ProtocolInv => DeliveredComplete
  BY DEF ProtocolInv, EndInv, DeliveredComplete
<1> QED BY <1>1, ProtocolCorrect, PTL

-----------------------------------------------------------------------------
(* Every step is one of MeasurementProtocol, or leaves its variables alone *)

\* The timer thread speaks of the running test case, which has not finished
LEMMA RunsCurrent ==
  ASSUME TypeInv, LifeInv, ProtocolInv, tpc \notin {"off", "ended"}
  PROVE  TestRuns /\ sTestName = test /\ test \notin finished /\ ~completed
<1>1. TestRuns /\ sTestName = test
  BY DEF TypeInv, ThreadsInv
<1>2. test \notin PERFORMED
  BY DEF LifeInv, PerformedInv
<1> QED BY <1>1, <1>2 DEF ProtocolInv, PlanInv

LEMMA FailStep ==
  ASSUME TestRuns, sTestName \notin finished, NEW code \in Codes, errors = {},
         ReportError(code), UNCHANGED <<plan, mpc, sTestName>>
  PROVE  Protocol!Next
<1>1. errors' = {<<sTestName, code>>} /\ UNCHANGED <<finished, completed>>
  BY DEF ReportError
<1>2. UNCHANGED TestRuns /\ UNCHANGED (mpc \notin {"idle", "exited"})
  BY Zenon DEF TestRuns
<1>3. Protocol!Fail(code)
  BY <1>1, <1>2, Zenon DEF Protocol!Fail
<1> QED BY <1>3, Zenon DEF Protocol!Next

\* A test case starts when those before it have finished, in a measurement that
\* has not been refused
LEMMA StartStep ==
  ASSUME TypeInv, LifeInv, ErrorInv, ProtocolInv, StartTestCase
  PROVE  Protocol!Next
<1>1. /\ mpc = "phase" /\ mpc' = "duration" /\ test \in Tests /\ test \in plan /\ RUNNING
      /\ test = IP \/ ~hasError
      /\ sTestName' = test /\ UNCHANGED <<plan, finished, errors, completed>>
  BY DEF StartTestCase, MayRun, platformVars
<1>2. ~TestRuns /\ TestRuns' /\ mpc \notin {"idle", "exited"} /\ mpc' \notin {"idle", "exited"}
  BY <1>1 DEF TestRuns
<1>3. errors = {}
  BY StartsWithoutError
<1>4. plan \notin {{IP}}
  BY <1>1 DEF ProtocolInv, RefuseInv
<1>5. test \in plan \ finished
  <2>1. test \notin PERFORMED
    BY <1>2 DEF LifeInv, PerformedInv
  <2> QED BY <1>1, <2>1 DEF ProtocolInv, PlanInv
<1>6. \A u \in plan : u < test => u \in finished
  <2>1. CASE test = IP
    <3>1. plan \subseteq Tests
      BY DEF TypeInv, TypeOK, MainOK
    <3> QED BY <2>1, <3>1 DEF Tests, IP
  <2>2. CASE ~hasError
    BY <1>1, <2>2 DEF ProtocolInv, PlanInv, OrderInv
  <2> QED BY <1>1, <2>1, <2>2
<1>7. Protocol!Start(test)
  BY <1>1, <1>2, <1>3, <1>4, <1>5, <1>6 DEF Protocol!Start
<1> QED BY <1>1, <1>7 DEF Protocol!Next

LEMMA ImplementsMain ==
  ASSUME TypeInv, LifeInv, ErrorInv, ProtocolInv, MeasurementStart \/ MainThread
  PROVE  Protocol!Next \/ UNCHANGED Protocol!pvars
<1> USE DEF Protocol!pvars, MainFrame, platformVars, resultVars
<1>1. CASE MeasurementStart
  <2>1. plan' \in (SUBSET Tests) \ {{}}
    <3>1. plan' \in Plans
      BY <1>1 DEF MeasurementStart
    <3> QED BY <3>1, PlansOfTests
  <2>2. mpc = "idle" /\ mpc' \in {"refuse", "phase"}
    BY <1>1 DEF MeasurementStart
  <2>3. finished' = {} /\ errors' = {} /\ completed' = FALSE /\ UNCHANGED sTestName
    BY <1>1 DEF MeasurementStart
  <2>4. UNCHANGED TestRuns
    BY <2>2 DEF TestRuns
  <2>5. Protocol!Begin
    BY <2>1, <2>2, <2>3, <2>4 DEF Protocol!Begin
  <2> QED BY <2>5 DEF Protocol!Next
<1>2. CASE Refuse
  <2>1. /\ mpc = "refuse" /\ mpc' = "phase" /\ UNCHANGED <<plan, sTestName>>
        /\ ReportError(NoTestCaseEnabled)
    BY <1>2 DEF Refuse, ReportError
  <2>2. plan \in {{IP}} /\ errors = {}
    BY <2>1 DEF ProtocolInv, RefuseInv
  <2>3. errors' = {<<sTestName, NoTestCaseEnabled>>} /\ UNCHANGED <<finished, completed>>
    BY <2>1, <2>2 DEF ReportError
  <2>4. ~TestRuns /\ UNCHANGED TestRuns
    BY <2>1 DEF TestRuns
  <2>5. Protocol!Refuse(NoTestCaseEnabled)
    BY <2>1, <2>2, <2>3, <2>4 DEF Protocol!Refuse
  <2>6. NoTestCaseEnabled \in Codes
    BY DEF Codes
  <2> QED BY <2>5, <2>6 DEF Protocol!Next
<1>3. CASE Shutdown
  <2>1. finished = plan => completed
    BY <1>3 DEF Shutdown, ProtocolInv, PlanInv
  <2>2. mpc = "shutdown" /\ mpc' \in {"idle", "exited"}
    BY <1>3 DEF Shutdown
  <2>3. ~TestRuns /\ UNCHANGED TestRuns
    BY <2>2 DEF TestRuns
  <2>4. Protocol!End
    BY <1>3, <2>1, <2>2, <2>3 DEF Shutdown, Protocol!End
  <2> QED BY <2>4 DEF Protocol!Next
<1>4. CASE StartTestCase
  BY <1>4, StartStep
<1>5. CASE SkipTestCase \/ EndPhase
  BY <1>5 DEF SkipTestCase, EndPhase, TestRuns
<1>6. CASE JoinTimer
  <2>1. mpc = "joinTimer" /\ mpc' = "phase"
    BY <1>6 DEF JoinTimer
  <2>2. TestRuns /\ ~TestRuns'
    BY <2>1 DEF TestRuns
  <2>3. Protocol!Leave
    BY <1>6, <2>1, <2>2 DEF JoinTimer, Protocol!Leave
  <2> QED BY <2>3 DEF Protocol!Next
<1>7. CASE SetDuration \/ Publish \/ JoinWorkers \/ DestroyWorkers
  BY <1>7 DEF SetDuration, Publish, JoinWorkers, DestroyWorkers, TestRuns
<1>8. ASSUME NEW i \in Streams, CreateWorker(i) PROVE UNCHANGED Protocol!pvars
  BY <1>8 DEF CreateWorker, TestRuns
<1> QED
  BY <1>1, <1>2, <1>3, <1>4, <1>5, <1>6, <1>7, <1>8 DEF MainThread, MeasurementStep

LEMMA ImplementsTimer ==
  ASSUME TypeInv, LifeInv, ProtocolInv, TimerThread \/ Clock
  PROVE  Protocol!Next \/ UNCHANGED Protocol!pvars
<1> USE DEF Protocol!pvars, TimerFrame, mainVars, platformVars, resultVars
<1>a. UNCHANGED mpc => UNCHANGED TestRuns
  BY Zenon DEF TestRuns
<1>1. CASE TimerCheck
  <2>1. tpc \in Checks /\ tpc \in Flags /\ UNCHANGED <<plan, mpc, sTestName>>
    BY <1>1, FlagSet DEF TimerCheck, Checks
  <2>2. CASE tpc \in raised
    <3>1. ReportError(ErrorCode[tpc])
      BY <1>1, <2>2 DEF TimerCheck
    <3>2. errors = {}
      BY <2>1 DEF ProtocolInv, ErrorsInv, Checks
    <3>3. TestRuns /\ sTestName \notin finished
      BY <2>1, RunsCurrent DEF Checks
    <3>4. ErrorCode[tpc] \in Codes
      BY <2>1, CodeOfFlag
    <3> QED BY <2>1, <3>1, <3>2, <3>3, <3>4, FailStep
  <2>3. CASE tpc \notin raised
    BY <1>1, <1>a, <2>3 DEF TimerCheck
  <2> QED BY <2>2, <2>3
<1>2. CASE TimerDropped
  <2>1. /\ tpc = "inner" /\ UNCHANGED <<plan, mpc, sTestName>>
        /\ ReportError(ErrorCode["STREAMS_DROPPED"])
    BY <1>2 DEF TimerDropped
  <2>2. errors = {}
    BY <2>1 DEF ProtocolInv, ErrorsInv
  <2>3. TestRuns /\ sTestName \notin finished
    BY <2>1, RunsCurrent
  <2>4. ErrorCode["STREAMS_DROPPED"] \in Codes
    BY FlagSet, CodeOfFlag
  <2> QED BY <2>1, <2>2, <2>3, <2>4, FailStep
<1>3. CASE FinishDone
  <2>1. tpc = "post"
    BY <1>3 DEF FinishDone
  <2>2. TestRuns /\ sTestName = test /\ test \notin finished /\ ~completed
    BY <2>1, RunsCurrent
  <2>3. UNCHANGED TestRuns /\ UNCHANGED (mpc \notin {"idle", "exited"})
    <3>1. UNCHANGED mpc
      BY <1>3 DEF FinishDone
    <3> QED BY <3>1, Zenon DEF TestRuns
  <2>4. finished = PERFORMED
    BY DEF ProtocolInv, PlanInv
  <2>5. finished' = finished \cup {sTestName} /\ UNCHANGED <<plan, sTestName, errors>>
    BY <1>3 DEF FinishDone
  <2>6. completed' = (finished' = plan)
    <3>1. completed' = (completed \/ AllPerformed(PERFORMED \cup {test}))
      BY <1>3 DEF FinishDone
    <3> QED BY <2>2, <2>4, <2>5, <3>1, Zenon DEF AllPerformed
  <2>7. Protocol!Finish
    BY <2>2, <2>3, <2>5, <2>6, Zenon DEF Protocol!Finish
  <2> QED BY <2>7, Zenon DEF Protocol!Next
<1>4. CASE TimerWhile \/ TimerSync \/ TimerStart \/ TimerTick \/ TimerAgain \/ TimerTail
           \/ TimerOff
  BY <1>4, <1>a DEF TimerWhile, TimerSync, TimerStart, TimerTick, TimerAgain, TimerTail,
    TimerOff, Quiet
<1>5. CASE Misuse \/ IpCallback \/ RttUdpCallback \/ CalculateEnd
  BY <1>5, <1>a DEF Misuse, IpCallback, RttUdpCallback, CalculateEnd, HandlerFrame
<1>6. CASE CalculateStep
  <2>1. HandlerFrame
    BY <1>6 DEF CalculateStep
  <2> QED BY <1>a, <2>1 DEF HandlerFrame
<1>7. CASE ReportDone
  BY <1>7, <1>a DEF ReportDone
<1>8. CASE Clock
  BY <1>8, <1>a DEF Clock
<1> QED
  BY <1>1, <1>2, <1>3, <1>4, <1>5, <1>6, <1>7, <1>8 DEF TimerThread, CallbackStep

LEMMA ImplementsStep ==
  ASSUME TypeInv, LifeInv, ErrorInv, ProtocolInv, [Next]_vars
  PROVE  [Protocol!Next]_(Protocol!pvars)
<1>1. CASE MeasurementStart \/ MainThread
  BY <1>1, ImplementsMain
<1>2. CASE TimerThread \/ Clock
  BY <1>2, ImplementsTimer
<1>3. ASSUME NEW i \in Streams, WorkerThread(i) \/ SenderStops(i) \/ SenderDropped(i)
      PROVE  UNCHANGED Protocol!pvars
  <2>1. UNCHANGED mpc
    BY <1>3, WorkerChanges DEF WorkerFrame, mainVars
  <2>2. UNCHANGED TestRuns
    BY <2>1, Zenon DEF TestRuns
  <2> QED
    BY <1>3, <2>2, WorkerChanges
    DEF Protocol!pvars, WorkerFrame, mainVars, platformVars, resultVars
<1>4. CASE StopCalled \/ StopTakesEffect \/ Halted \/ UNCHANGED vars
  <2>1. UNCHANGED mpc
    BY <1>4 DEF StopCalled, StopTakesEffect, Halted, vars, mainVars
  <2>2. UNCHANGED TestRuns
    BY <2>1, Zenon DEF TestRuns
  <2> QED
    BY <1>4, <2>2 DEF StopCalled, StopTakesEffect, Halted, vars, mainVars, platformVars,
      resultVars, Protocol!pvars
<1> QED BY <1>1, <1>2, <1>3, <1>4 DEF Next

\* The client implements MeasurementProtocol: whatever its threads do, test
\* cases finish in order and at most once, at most one error is sent, under the
\* name of the running test case or, for a refusal, of the last one before it
\* (callback.cpp:117), and completed comes with the last finish
THEOREM Implements == Spec => FollowsProtocol
<1>1. Init => Protocol!Init
  <2> SUFFICES ASSUME Init PROVE Protocol!Init
    OBVIOUS
  <2>1. /\ mpc = "idle" /\ plan = {} /\ sTestName = NoTest
        /\ finished = {} /\ errors = {} /\ completed = FALSE
    BY DEF Init
  <2>2. TestRuns = FALSE
    BY <2>1 DEF TestRuns
  <2> QED BY <2>1, <2>2 DEF Protocol!Init
<1>2. TypeInv /\ LifeInv /\ ErrorInv /\ ProtocolInv /\ [Next]_vars
        => [Protocol!Next]_(Protocol!pvars)
  BY ImplementsStep
<1> QED BY <1>1, <1>2, ProtocolCorrect, PTL DEF Spec, FollowsProtocol, Protocol!Spec

=============================================================================
