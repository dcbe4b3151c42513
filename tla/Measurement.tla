---------------------------- MODULE Measurement -----------------------------
(***************************************************************************)
(* measurement.cpp: CMeasurement, the main thread during one test case.    *)
(* mpc is the main thread's position; here "duration", "create" (its       *)
(* workers), "publish" (the worker objects to the callback), "join" (them),*)
(* "await" (the finish of the test, an error or the end), then the workers *)
(* are destroyed and the timer is joined ("joinTimer").                    *)
(***************************************************************************)
EXTENDS Timer

MainFrame == UNCHANGED <<flagVars, resultVars, timerVars, plan, session, platformVars,
                         stopping, crashed, TIMER_INDEX, TIMER_DURATION, clock,
                         TIMER_ACTIVE, TIMER_RUNNING, TIMER_STOPPED>>

\* MEASUREMENT_DURATION of the test; the RTT worker sets its own
SetDuration ==
  /\ mpc = "duration"
  /\ MEASUREMENT_DURATION' = IF test = RTT THEN MEASUREMENT_DURATION ELSE DurationOf[test]
  /\ mpc' = "create"
  /\ MainFrame
  /\ UNCHANGED <<test, workerVars, objectVars>>

\* createThread of the next worker
CreateWorker(i) ==
  /\ mpc = "create" /\ i \in Workers
  /\ wpc[i] = "none" /\ \A j \in Workers : wpc[j] = "none" => i <= j
  /\ wpc' = [wpc EXCEPT ![i] = "open"]
  /\ mpc' = IF i = Instances[test] THEN "publish" ELSE "create"
  /\ MainFrame
  /\ UNCHANGED <<test, MEASUREMENT_DURATION, mResponse, syncing_threads, ipResult, pings,
                 sender, objectVars>>

\* mCallback->ipThread = ip.get() and the like, after the workers have started
Publish ==
  /\ mpc = "publish"
  /\ attached' = TRUE
  /\ mpc' = "join"
  /\ MainFrame
  /\ UNCHANGED <<test, MEASUREMENT_DURATION, workerVars, freed>>

\* waitForEnd of every worker
JoinWorkers ==
  /\ mpc = "join" /\ \A i \in Workers : wpc[i] = "ended"
  /\ mpc' = "await"
  /\ MainFrame
  /\ UNCHANGED <<test, MEASUREMENT_DURATION, workerVars, objectVars>>

\* while (!::PERFORMED_<test> && !::hasError && ::RUNNING) usleep(100000);
MayLeaveAtOnce == TRUE
MayLeave == test \in PERFORMED \/ hasError \/ ~RUNNING

\* The loop is over and the worker objects are deleted
DestroyWorkers ==
  /\ mpc = "await" /\ MayLeave
  /\ freed' = TRUE
  /\ mpc' = "joinTimer"
  /\ MainFrame
  /\ UNCHANGED <<test, MEASUREMENT_DURATION, workerVars, attached>>

\* mTimer->waitForEnd()
JoinTimer ==
  /\ mpc = "joinTimer" /\ tpc = "ended"
  /\ mpc' = "phase"
  /\ test' = test + 1
  /\ MainFrame
  /\ UNCHANGED <<MEASUREMENT_DURATION, workerVars, objectVars>>

MeasurementStep ==
  \/ SetDuration \/ Publish \/ JoinWorkers \/ DestroyWorkers \/ JoinTimer
  \/ \E i \in Streams : CreateWorker(i)
=============================================================================
