------------------------------- MODULE Timer --------------------------------
(***************************************************************************)
(* timer.cpp: the timer thread of one test case (CTimer::run).  It polls   *)
(* the failure flags, waits until every worker has synced, then reports    *)
(* every half second until the duration of the measurement has passed.     *)
(*                                                                         *)
(* tpc is the thread's position: "while" (the outer loop), one position    *)
(* per failure flag, named after it, "sync", "delay", "inner" and "again"  *)
(* (the reporting loop), "call" and "post" (inside CCallback::callback),   *)
(* "tail" (after the loops), "off" and "ended".                            *)
(***************************************************************************)
EXTENDS Callback

\* What the steps outside the callback leave alone besides TimerFrame
Quiet == UNCHANGED <<hasError, raised, resultVars, platformVars, crashed>>

\* while (RUNNING && !TIMER_STOPPED && !m_fStop): nobody stops this thread
MayPollAfterStop == ~TIMER_STOPPED
MayPoll == RUNNING /\ ~TIMER_STOPPED

TimerWhile ==
  /\ tpc = "while"
  /\ tpc' = IF MayPoll THEN "UNREACHABLE" ELSE "tail"
  /\ TimerFrame /\ Quiet
  /\ UNCHANGED <<timerFlags, clock, current_index, cmd, step>>

\* The order in which an iteration looks at the flags; STREAMS_DROPPED is
\* looked at in the reporting loop only
Checks == {"UNREACHABLE", "FORBIDDEN", "TLS_PARAMETERS_MISSING"}
AfterCheckSkippingForbidden(flag) ==
  CASE flag = "UNREACHABLE" -> "TLS_PARAMETERS_MISSING"
    [] OTHER -> IF TIMER_RUNNING THEN "inner" ELSE "sync"
AfterCheck(flag) ==
  CASE flag = "UNREACHABLE" -> "FORBIDDEN"
    [] flag = "FORBIDDEN"   -> "TLS_PARAMETERS_MISSING"
    [] OTHER                -> IF TIMER_RUNNING THEN "inner" ELSE "sync"

\* A flag that is set is reported to the platform and ends the thread's loop
TimerCheck ==
  /\ tpc \in Checks
  /\ IF tpc \in raised
       THEN /\ ReportError(ErrorCode[tpc])
            /\ TIMER_STOPPED' = TRUE
            /\ tpc' = "tail"
            /\ UNCHANGED current_index
       ELSE /\ tpc' = AfterCheck(tpc)
            /\ current_index' = IF tpc' = "inner" THEN 0 ELSE current_index
            /\ UNCHANGED <<platformVars, TIMER_STOPPED>>
  /\ TimerFrame
  /\ UNCHANGED <<hasError, raised, resultVars, TIMER_ACTIVE, TIMER_RUNNING, TIMER_INDEX,
                 TIMER_DURATION, clock, cmd, step, crashed>>

\* sync_counter == mInstances, under mutex_syncing_threads
AllSynced == Cardinality(syncing_threads) = Instances[test]

TimerSync ==
  /\ tpc = "sync"
  /\ tpc' = IF AllSynced THEN "delay" ELSE "while"
  /\ TimerFrame /\ Quiet
  /\ UNCHANGED <<timerFlags, clock, current_index, cmd, step>>

\* usleep(mInitialCallbackDelay), then the measurement starts: time1 is taken
TimerStart ==
  /\ tpc = "delay"
  /\ tpc' = "while"
  /\ TIMER_RUNNING' = TRUE
  /\ clock' = 0
  /\ TimerFrame /\ Quiet
  /\ UNCHANGED <<TIMER_ACTIVE, TIMER_STOPPED, TIMER_INDEX, TIMER_DURATION, current_index,
                 cmd, step>>

\* ::STREAMS_DROPPED && !streamsDroppedSignaled
DropIgnored == FALSE
DropSeen == "STREAMS_DROPPED" \in raised

\* MEASUREMENT_DURATION <= time_diff / 1000000
MeasurementOverEarly == 2 * MEASUREMENT_DURATION <= clock + 1
MeasurementOver == 2 * MEASUREMENT_DURATION <= clock

TimerDropped ==
  /\ tpc = "inner" /\ DropSeen
  /\ ReportError(ErrorCode["STREAMS_DROPPED"])
  /\ TIMER_STOPPED' = TRUE
  /\ tpc' = "while"
  /\ TimerFrame
  /\ UNCHANGED <<hasError, raised, resultVars, TIMER_ACTIVE, TIMER_RUNNING, TIMER_INDEX,
                 TIMER_DURATION, clock, current_index, cmd, step, crashed>>

\* One iteration of the reporting loop: it either ends the measurement or
\* advances TIMER_INDEX, and reports when the index has changed
TimerTick ==
  /\ tpc = "inner" /\ ~DropSeen
  /\ TIMER_DURATION' = clock
  /\ TIMER_STOPPED' = (TIMER_STOPPED \/ MeasurementOver)
  /\ TIMER_INDEX' = IF MeasurementOver THEN TIMER_INDEX ELSE clock
  /\ current_index' = TIMER_INDEX'
  /\ IF TIMER_INDEX' # current_index
       THEN tpc' = "call" /\ cmd' = "report" /\ step' = 1
       ELSE tpc' = "again" /\ UNCHANGED <<cmd, step>>
  /\ TimerFrame /\ Quiet
  /\ UNCHANGED <<TIMER_ACTIVE, TIMER_RUNNING, clock>>

\* } while (RUNNING && !TIMER_STOPPED && !m_fStop)
TimerAgain ==
  /\ tpc = "again"
  /\ tpc' = IF MayPoll THEN "inner" ELSE "while"
  /\ TimerFrame /\ Quiet
  /\ UNCHANGED <<timerFlags, clock, current_index, cmd, step>>

\* ::RUNNING && !::hasError
MayFinishAnyway == RUNNING
MayFinish == RUNNING /\ ~hasError

TimerTail ==
  /\ tpc = "tail"
  /\ IF MayFinish THEN tpc' = "call" /\ cmd' = "finish" /\ step' = 1
                  ELSE tpc' = "off" /\ UNCHANGED <<cmd, step>>
  /\ TimerFrame /\ Quiet
  /\ UNCHANGED <<timerFlags, clock, current_index>>

TimerOff ==
  /\ tpc = "off"
  /\ tpc' = "ended"
  /\ TIMER_ACTIVE' = FALSE
  /\ TimerFrame /\ Quiet
  /\ UNCHANGED <<TIMER_RUNNING, TIMER_STOPPED, TIMER_INDEX, TIMER_DURATION, clock,
                 current_index, cmd, step>>

TimerThread ==
  /\ ~crashed
  /\ \/ TimerWhile \/ TimerCheck \/ TimerSync \/ TimerStart \/ TimerDropped \/ TimerTick
     \/ TimerAgain \/ TimerTail \/ TimerOff
     \/ CallbackStep

\* Time passes while the timer measures, up to the end of the measurement:
\* later instants look the same to CTimer and to CCallback
Clock ==
  /\ ~crashed
  /\ TIMER_RUNNING /\ tpc # "ended" /\ clock < 2 * MEASUREMENT_DURATION
  /\ clock' = clock + 1
  /\ UNCHANGED <<flagVars, resultVars, timerFlags, MEASUREMENT_DURATION, timerVars,
                 mainVars, workerVars, objectVars, platformVars, stopping, crashed>>
=============================================================================
