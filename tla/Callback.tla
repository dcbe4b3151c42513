------------------------------ MODULE Callback ------------------------------
(***************************************************************************)
(* callback.cpp: CCallback::callback, which the timer thread calls with    *)
(* cmd = "report" every half second and with cmd = "finish" at the end of  *)
(* a test case.  While tpc = "call" the handler of the test case walks     *)
(* over the worker objects; tpc = "post" is the rest of callback.          *)
(*                                                                         *)
(* Using a worker object that is not there is undefined behaviour: the     *)
(* process may die (crashed) or, if the object was freed, read anything.   *)
(***************************************************************************)
EXTENDS Globals

\* callbackToPlatform: on Android a message sent in phase END is also the
\* final result (AndroidConnector::callbackFinished)
ToPlatform == delivered' = (delivered \/ (Mobile /\ currentTestPhase = "END"))

\* callback("error", ...): no handler runs, the message goes to the platform
\* under conf.sTestName
ReportError(code) ==
  /\ errors' = errors \cup {<<sTestName, code>>}
  /\ ToPlatform
  /\ UNCHANGED <<finished, completed>>

HandlerFrame ==
  /\ TimerFrame
  /\ UNCHANGED <<resultVars, platformVars, TIMER_ACTIVE, TIMER_RUNNING, TIMER_INDEX,
                 TIMER_DURATION, clock, current_index, cmd>>

\* ipThread and pingThread are not initialised before CMeasurement assigns
\* them; a handler may also meet workers that were destroyed under it
Misuse ==
  /\ tpc = "call"
  /\ freed \/ (test \in {IP, RTT} /\ ~attached)
  /\ crashed' = TRUE
  /\ HandlerFrame
  /\ UNCHANGED <<hasError, raised, TIMER_STOPPED, tpc, step>>

\* ipCallback: an IP result that has arrived ends the test
IpCallback ==
  /\ tpc = "call" /\ test = IP /\ attached
  /\ \E received \in (IF freed THEN BOOLEAN ELSE {ipResult}) :
       TIMER_STOPPED' = (TIMER_STOPPED \/ received)
  /\ tpc' = "post"
  /\ HandlerFrame
  /\ UNCHANGED <<hasError, raised, step, crashed>>

\* rttUdpCallback only reads the ping results
RttUdpCallback ==
  /\ tpc = "call" /\ test = RTT /\ attached
  /\ tpc' = "post"
  /\ HandlerFrame
  /\ UNCHANGED <<hasError, raised, TIMER_STOPPED, step, crashed>>

\* max_steps of calculateMeasurementResultsDownloadUpload: one step per half
\* second measured; the limit is unsigned, a negative one would be no limit
MaxSteps ==
  LET limit == 2 * (MEASUREMENT_DURATION -
                    (IF test = UPLOAD THEN UPLOAD_ADDITIONAL_MEASUREMENT_DURATION ELSE 0))
  IN  IF limit >= 0 /\ TIMER_DURATION > limit THEN limit ELSE TIMER_DURATION

\* The streams a step of that function may count (mResponse > 0); the vector
\* of threads is empty until CMeasurement assigns it
StreamsSeen ==
  IF freed THEN {{}, Workers}
  ELSE IF attached THEN {{i \in Workers : mResponse[i] = "data"}}
  ELSE {{}}

\* One step of the loop over 1..max_steps
CalculateStep ==
  /\ tpc = "call" /\ test \in {DOWNLOAD, UPLOAD} /\ step <= MaxSteps
  /\ \E streams \in StreamsSeen :
       /\ hasError' = (hasError \/ streams = {})
       /\ raised' = IF streams = {} THEN raised \cup {"STREAMS_DROPPED"} ELSE raised
  /\ step' = step + 1
  /\ HandlerFrame
  /\ UNCHANGED <<TIMER_STOPPED, tpc, crashed>>

\* After the loop the last result is read; without any step there is none, and
\* the index is -1
CalculateEnd ==
  /\ tpc = "call" /\ test \in {DOWNLOAD, UPLOAD} /\ step > MaxSteps
  /\ IF MaxSteps = 0 THEN crashed' = TRUE /\ UNCHANGED tpc
                     ELSE tpc' = "post" /\ UNCHANGED crashed
  /\ HandlerFrame
  /\ UNCHANGED <<hasError, raised, TIMER_STOPPED, step>>

\* callback("report", ...) returns to CTimer::run
ReportDone ==
  /\ tpc = "post" /\ cmd = "report"
  /\ tpc' = "again"
  /\ ToPlatform
  /\ TimerFrame
  /\ UNCHANGED <<hasError, raised, resultVars, finished, errors, completed, timerFlags,
                 clock, current_index, cmd, step, crashed>>

\* ::IP == PERFORMED_IP && ::RTT == PERFORMED_RTT && ...
AllPerformedEveryTest(performed) == performed = Tests
AllPerformed(performed) == performed = plan

\* callback("finish", ...): the test case is marked as performed before the
\* platform is told; the last one also completes the measurement
FinishDone ==
  LET all == AllPerformed(PERFORMED \cup {test})
  IN  /\ tpc = "post" /\ cmd = "finish"
      /\ PERFORMED' = PERFORMED \cup {test}
      /\ finished' = finished \cup {sTestName}
      /\ currentTestPhase' = IF all THEN "END" ELSE currentTestPhase
      /\ UNCHANGED sTestName
      /\ completed' = (completed \/ all)
      /\ delivered' = (delivered \/ (Mobile /\ "END" \in {currentTestPhase, currentTestPhase'}))
      /\ tpc' = "off"
      /\ TimerFrame
      /\ UNCHANGED <<hasError, raised, errors, timerFlags, clock, current_index, cmd,
                     step, crashed>>

CallbackStep ==
  \/ Misuse \/ IpCallback \/ RttUdpCallback \/ CalculateStep \/ CalculateEnd
  \/ ReportDone \/ FinishDone
=============================================================================
