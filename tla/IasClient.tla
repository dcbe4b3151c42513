----------------------------- MODULE IasClient ------------------------------
(***************************************************************************)
(* The whole client: the main thread (Session, Measurement), the timer     *)
(* thread with the callbacks it makes (Timer, Callback), the workers (Ip,  *)
(* Ping, Download, Upload) and the thread that calls measurementStop,      *)
(* which share the variables of Globals.                                   *)
(***************************************************************************)
EXTENDS Session, Ip, Ping, Download, Upload

Init ==
  /\ RUNNING = FALSE /\ hasError = FALSE /\ raised = {}
  /\ PERFORMED = {} /\ currentTestPhase = "INIT" /\ sTestName = NoTest
  /\ TIMER_ACTIVE = FALSE /\ TIMER_RUNNING = FALSE /\ TIMER_STOPPED = FALSE
  /\ TIMER_INDEX = 0 /\ TIMER_DURATION = 0 /\ MEASUREMENT_DURATION = 0 /\ clock = 0
  /\ tpc = "ended" /\ current_index = 0 /\ cmd = "report" /\ step = 1
  /\ mpc = "idle" /\ test = IP /\ plan = {} /\ session = 0
  /\ wpc = [i \in Streams |-> "none"]
  /\ mResponse = [i \in Streams |-> "none"]
  /\ sender = [i \in Streams |-> "none"]
  /\ syncing_threads = {} /\ ipResult = FALSE /\ pings = 0
  /\ attached = FALSE /\ freed = FALSE
  /\ finished = {} /\ errors = {} /\ completed = FALSE /\ delivered = FALSE
  /\ stopping = FALSE /\ crashed = FALSE

WorkerThread(i) == IpThread(i) \/ PingThread(i) \/ DownloadThread(i) \/ UploadThread(i)

\* The process has died or exited, or the app has measured often enough
Halted ==
  /\ crashed \/ mpc = "exited" \/ (mpc = "idle" /\ session = MaxSessions)
  /\ UNCHANGED vars

Next ==
  \/ MeasurementStart
  \/ MainThread
  \/ TimerThread
  \/ Clock
  \/ \E i \in Streams : WorkerThread(i) \/ SenderStops(i) \/ SenderDropped(i)
  \/ StopCalled
  \/ StopTakesEffect
  \/ Halted

\* Every thread that can run is run again; receive, send and the waits have
\* timeouts, so a worker always gets on.  The app need not start or stop
\* anything, and the peer need not drop anything.
Fairness ==
  /\ WF_vars(MainThread)
  /\ WF_vars(TimerThread)
  /\ WF_vars(Clock)
  /\ \A i \in Streams : WF_vars(WorkerThread(i)) /\ WF_vars(SenderStops(i))
  /\ WF_vars(StopTakesEffect)

Spec == Init /\ [][Next]_vars
FairSpec == Spec /\ Fairness

-----------------------------------------------------------------------------
(* Types *)

Codes == {NoTestCaseEnabled} \cup {ErrorCode[f] : f \in Flags}

\* The variables that hold a C++ bool, and those of the model itself
BooleansOK ==
  /\ RUNNING \in BOOLEAN /\ hasError \in BOOLEAN
  /\ TIMER_ACTIVE \in BOOLEAN /\ TIMER_RUNNING \in BOOLEAN /\ TIMER_STOPPED \in BOOLEAN
  /\ ipResult \in BOOLEAN /\ attached \in BOOLEAN /\ freed \in BOOLEAN
  /\ completed \in BOOLEAN /\ delivered \in BOOLEAN
  /\ stopping \in BOOLEAN /\ crashed \in BOOLEAN

TimerOK ==
  /\ TIMER_INDEX \in Nat /\ TIMER_DURATION \in Nat
  /\ MEASUREMENT_DURATION \in Nat /\ clock \in Nat
  /\ tpc \in {"while", "sync", "delay", "inner", "again", "call", "post", "tail", "off", "ended"}
             \cup Checks
  /\ current_index \in Nat /\ cmd \in {"report", "finish"} /\ step \in Nat

MainOK ==
  /\ mpc \in {"idle", "refuse", "phase", "duration", "create", "publish", "join", "await",
              "joinTimer", "shutdown", "exited"}
  /\ test \in 1..5 /\ plan \subseteq Tests /\ session \in 0..MaxSessions

WorkersOK ==
  /\ wpc \in [Streams -> {"none", "open", "loop", "recv", "gap", "tls", "unwind", "stop",
                          "join", "ended"}]
  /\ mResponse \in [Streams -> {"none", "data", "gone"}]
  /\ syncing_threads \subseteq Tests \X Streams
  /\ pings \in 0..(PING_QUERY + 1)
  /\ sender \in [Streams -> {"none", "sending", "stopping", "ended"}]

ResultsOK ==
  /\ raised \subseteq Flags
  /\ PERFORMED \subseteq Tests /\ currentTestPhase \in Phases
  /\ sTestName \in Tests \cup {NoTest}
  /\ finished \subseteq Tests /\ errors \subseteq (Tests \cup {NoTest}) \X Codes

\* Every variable keeps its type: the platform only sees documented error
\* codes, the RTT test sends no more pings than it should
TypeOK == BooleansOK /\ TimerOK /\ MainOK /\ WorkersOK /\ ResultsOK

-----------------------------------------------------------------------------
(* Safety *)

TestRuns == mpc \in {"duration", "create", "publish", "join", "await", "joinTimer"}

\* The timer starts the measurement only when every stream of this test has
\* received its first answer (timer.cpp:113 counts syncing_threads, which
\* earlier tests have filled as well): no report reads an unset mResponse
AllStreamsDeliver ==
  TestRuns /\ TIMER_RUNNING =>
    \A i \in Workers : /\ <<test, i>> \in syncing_threads
                       /\ test \in {DOWNLOAD, UPLOAD} => mResponse[i] # "none"

\* When the timer measures, it knows for how long: the constructor of CTimer
\* has zeroed MEASUREMENT_DURATION and another thread has set it since
DurationKnown ==
  TestRuns /\ TIMER_RUNNING => MEASUREMENT_DURATION = DurationOf[test]

\* A handler of the callback never meets destroyed or unassigned workers but
\* after an error or a stop, or in the window in which CMeasurement has
\* started the workers and not yet handed them over
HandlerSafe ==
  tpc = "call" => \/ attached /\ ~freed
                  \/ hasError \/ ~RUNNING
                  \/ mpc \in {"create", "publish"}

\* A failure that a worker has flagged has reached the platform when the
\* timer thread ends, unless RUNNING was cleared.  The two exceptions are
\* those of the code: TLS_PARAMETERS_MISSING is not looked at once the
\* measurement runs, nor STREAMS_DROPPED once it is over
FailureReported ==
  TestRuns /\ tpc = "ended" /\ RUNNING =>
    /\ raised \cap {"UNREACHABLE", "FORBIDDEN"} # {} =>
         \/ <<test, ErrorCode["UNREACHABLE"]>> \in errors
         \/ <<test, ErrorCode["FORBIDDEN"]>> \in errors
    /\ "TLS_PARAMETERS_MISSING" \in raised =>
         <<test, ErrorCode["TLS_PARAMETERS_MISSING"]>> \in errors \/ TIMER_RUNNING
    /\ "STREAMS_DROPPED" \in raised =>
         <<test, ErrorCode["STREAMS_DROPPED"]>> \in errors \/ test \in finished

\* Without an error a test case finishes only when it has run its time, or
\* its worker has done what the test asks for
FinishEarned ==
  tpc \in {"call", "post"} /\ cmd = "finish" /\ errors = {} =>
    \/ 2 * MEASUREMENT_DURATION <= TIMER_DURATION /\ TIMER_RUNNING
    \/ test = IP /\ ipResult
    \/ test = RTT /\ wpc[1] = "ended"

\* A report or finish of download or upload has a last result to read
\* (callback.cpp:534 reads the one before the first if there is none), but for
\* the finish that follows an error
ResultThere ==
  tpc = "call" /\ test \in {DOWNLOAD, UPLOAD} => MaxSteps > 0 \/ errors # {}

\* A measurement that runs to its end has completed or has reported an error.
\* The two silent ends are those of FailureReported: hasError then keeps the
\* remaining test cases from running, and nobody is told
NoSilentEnd ==
  mpc = "shutdown" /\ RUNNING =>
    \/ completed \/ errors # {}
    \/ raised \cap {"TLS_PARAMETERS_MISSING", "STREAMS_DROPPED"} # {}

\* The final result goes to the app only when the measurement is complete,
\* but for the message that refuses an empty measurement, which is sent in
\* the phase an earlier measurement has left behind
DeliveredComplete == delivered => completed \/ plan = {IP}

\* An upload worker that has ended has left no sender behind, but after an
\* exception
SenderOutlived ==
  \A i \in Streams :
    (test = UPLOAD /\ TestRuns /\ wpc[i] = "ended" /\ sender[i] \in {"sending", "stopping"})
      => hasError /\ ~RUNNING

-----------------------------------------------------------------------------
(* Action properties *)

\* The timer goes on to finish a test case that has reported an error only
\* while the worker that raised the flag has not set hasError yet
FinishAfterErrorStep ==
  (tpc = "tail" /\ tpc' = "call" /\ errors # {}) => \E i \in Streams : wpc[i] = "gap"
FinishAfterError == [][FinishAfterErrorStep]_vars

-----------------------------------------------------------------------------
(* Refinement *)

\* The messages a platform sees follow MeasurementProtocol; all of them name
\* conf.sTestName (callback.cpp:117), the refusal too (ias_client.cpp:284)
Protocol == INSTANCE MeasurementProtocol WITH
  TestCases  <- Tests,
  NoTestCase <- NoTest,
  Refused    <- {{IP}},
  active     <- mpc \notin {"idle", "exited"},
  enabled    <- plan,
  measuring  <- TestRuns,
  testCase   <- sTestName
FollowsProtocol == Protocol!Spec

-----------------------------------------------------------------------------
(* Liveness *)

\* The worker of IP or RTT has given up without telling the timer thread: a
\* refused IP request, or an RTT test without a socket
Wedged ==
  /\ test \in {IP, RTT} /\ wpc[1] = "ended" /\ syncing_threads = {}
  /\ raised = {} /\ RUNNING /\ mpc \in {"await", "joinTimer"}

\* A measurement that has been started returns to the app, or the process
\* exits, unless it dies or is wedged
Terminates == mpc # "idle" ~> (mpc \in {"idle", "exited"} \/ crashed \/ Wedged)

\* measurementStop ends a measurement, wedged or not
StopEndsMeasurement == stopping ~> (mpc = "idle" \/ crashed)
=============================================================================
