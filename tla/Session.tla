------------------------------ MODULE Session -------------------------------
(***************************************************************************)
(* ias_client.cpp: measurementStart, which takes the enabled test cases    *)
(* one after the other on the caller's thread, shutdown and                *)
(* measurementStop.  The app (Android) may measure again when              *)
(* measurementStart has returned; the executable exits.                    *)
(*                                                                         *)
(* mpc: "idle", "refuse" (no test case enabled), "phase" (before test case *)
(* `test', or after the last), those of Measurement, "shutdown", "exited". *)
(***************************************************************************)
EXTENDS Measurement

\* IP is always measured; main() refuses to start with nothing else to do
Plans == {p \in {{IP} \cup s : s \in SUBSET {RTT, DOWNLOAD, UPLOAD}} : Mobile \/ p # {IP}}

\* No test case has been performed yet
StalePerformed == PERFORMED
FreshPerformed == {}

\* The beginning of measurementStart, and ::RUNNING = true in its callers.
\* A new CCallback knows of no workers; currentTestPhase and conf.sTestName are
\* not reset
MeasurementStart ==
  /\ mpc = "idle" /\ session < MaxSessions
  /\ session' = session + 1
  /\ plan' \in Plans
  /\ mpc' = IF plan' = {IP} THEN "refuse" ELSE "phase"
  /\ test' = IP
  /\ PERFORMED' = FreshPerformed /\ hasError' = FALSE /\ raised' = {} /\ RUNNING' = TRUE
  /\ attached' = FALSE
  /\ finished' = {} /\ errors' = {} /\ completed' = FALSE /\ delivered' = FALSE
  /\ UNCHANGED <<currentTestPhase, sTestName, timerFlags, MEASUREMENT_DURATION, clock, timerVars,
                 workerVars, freed, stopping, crashed>>

\* "no test case enabled", then shutdown.  The message names the last test case
\* of an earlier measurement, or none: conf.sTestName has not been set yet
Refuse ==
  /\ mpc = "refuse"
  /\ ReportError(NoTestCaseEnabled)
  /\ RUNNING' = FALSE
  /\ mpc' = "phase"
  /\ UNCHANGED <<hasError, raised, resultVars, timerFlags, MEASUREMENT_DURATION, clock,
                 timerVars, test, plan, session, workerVars, objectVars, stopping, crashed>>

\* if (::RTT && ::RUNNING && !hasError), without the last condition for IP
MayRunAfterError(t) == t \in plan /\ RUNNING
MayRun(t) == t \in plan /\ RUNNING /\ (t = IP \/ ~hasError)

SkipTestCase ==
  /\ mpc = "phase" /\ test \in Tests /\ ~MayRun(test)
  /\ test' = test + 1
  /\ MainFrame
  /\ UNCHANGED <<mpc, MEASUREMENT_DURATION, workerVars, objectVars>>

\* syncing_threads.clear() in startTestCase
KeptSync == syncing_threads
ClearedSync == {}

\* currentTestPhase = MeasurementPhase::IP and so on
StalePhase(t) == currentTestPhase
StartPhase(t) == PhaseOf[t]

\* startTestCase with the constructors of CMeasurement and CTimer: the timer's
\* flags are reset, the timer thread starts
StartTestCase ==
  /\ mpc = "phase" /\ test \in Tests /\ MayRun(test)
  /\ mpc' = "duration"
  /\ currentTestPhase' = StartPhase(test) /\ sTestName' = test
  /\ syncing_threads' = ClearedSync
  /\ TIMER_ACTIVE' = TRUE /\ TIMER_RUNNING' = FALSE /\ TIMER_STOPPED' = FALSE
  /\ TIMER_INDEX' = 0 /\ TIMER_DURATION' = 0 /\ MEASUREMENT_DURATION' = 0
  /\ tpc' = "while" /\ current_index' = 0
  /\ wpc' = [i \in Streams |-> "none"]
  /\ mResponse' = [i \in Streams |-> "none"]
  /\ sender' = [i \in Streams |-> "none"]
  /\ ipResult' = FALSE /\ pings' = 0
  /\ attached' = FALSE /\ freed' = FALSE
  /\ UNCHANGED <<flagVars, PERFORMED, clock, cmd, step, test, plan, session, platformVars,
                 stopping, crashed>>

\* Behind the last test case
EndPhase ==
  /\ mpc = "phase" /\ test \notin Tests
  /\ currentTestPhase' = "END"
  /\ mpc' = "shutdown"
  /\ UNCHANGED <<flagVars, PERFORMED, sTestName, timerFlags, MEASUREMENT_DURATION, clock,
                 timerVars, test, plan, session, workerVars, objectVars, platformVars,
                 stopping, crashed>>

\* shutdown: a second later RUNNING is cleared, and the executable exits
Shutdown ==
  /\ mpc = "shutdown"
  /\ RUNNING' = FALSE
  /\ mpc' = IF Mobile THEN "idle" ELSE "exited"
  /\ UNCHANGED <<hasError, raised, resultVars, timerFlags, MEASUREMENT_DURATION, clock,
                 timerVars, test, plan, session, workerVars, objectVars, platformVars,
                 stopping, crashed>>

\* The steps of the main thread once the measurement has been started
MainThread ==
  /\ ~crashed
  /\ \/ Refuse \/ SkipTestCase \/ StartTestCase \/ EndPhase \/ Shutdown
     \/ MeasurementStep

\* measurementStop, on a thread of the app, sleeps a second in shutdown ...
StopCalled ==
  /\ Mobile /\ ~stopping /\ session > 0 /\ ~crashed
  /\ stopping' = TRUE
  /\ UNCHANGED <<flagVars, resultVars, timerFlags, MEASUREMENT_DURATION, clock, timerVars,
                 mainVars, workerVars, objectVars, platformVars, crashed>>

\* ... before it clears RUNNING, of whichever measurement runs by then
StopTakesEffect ==
  /\ stopping /\ ~crashed
  /\ stopping' = FALSE
  /\ RUNNING' = FALSE
  /\ UNCHANGED <<hasError, raised, resultVars, timerFlags, MEASUREMENT_DURATION, clock,
                 timerVars, mainVars, workerVars, objectVars, platformVars, crashed>>
=============================================================================
