------------------------------- MODULE Globals -------------------------------
(***************************************************************************)
(* The state that the threads of one ias-client process share: the global  *)
(* flags of ias_client.cpp (declared extern in header.h), the objects that *)
(* CMeasurement hands to CCallback, and what the platform (the app that    *)
(* embeds the library) has been told so far.                               *)
(*                                                                         *)
(* Threads: the main thread (measurementStart), one timer thread per test  *)
(* case, one worker per stream of the test case, one sender per upload     *)
(* stream, and on mobile builds the thread that calls measurementStop.     *)
(***************************************************************************)
EXTENDS Integers, FiniteSets

CONSTANTS
  Mobile,             \* BOOLEAN: the Android library, else the desktop executable
  TLS,                \* BOOLEAN: wsWss = "1"
  DL_STREAMS,         \* download streams
  UL_STREAMS,         \* upload streams
  PING_QUERY,         \* counted pings of the RTT test
  IP_DURATION,        \* seconds the IP test may take (60 in the code)
  DL_DURATION,        \* seconds of download (10 in the code)
  UL_DURATION,        \* seconds of upload (10 in the code)
  UPLOAD_ADDITIONAL_MEASUREMENT_DURATION,   \* seconds (2 in the code)
  MaxSessions         \* bound: how often the app starts a measurement

ASSUME ConstantsAssumption ==
  /\ Mobile \in BOOLEAN
  /\ TLS \in BOOLEAN
  /\ DL_STREAMS \in Nat \ {0}
  /\ UL_STREAMS \in Nat \ {0}
  /\ PING_QUERY \in Nat
  /\ IP_DURATION \in Nat \ {0}
  /\ DL_DURATION \in Nat \ {0}
  /\ UL_DURATION \in Nat \ {0}
  /\ UPLOAD_ADDITIONAL_MEASUREMENT_DURATION \in Nat
  /\ MaxSessions \in Nat \ {0}

\* conf.nTestCase
IP       == 1
RTT      == 2
DOWNLOAD == 3
UPLOAD   == 4
Tests    == 1..4
NoTest   == 0          \* conf.sTestName is empty

\* conf.instances: how many workers, and how many synced threads, a test has
Instances ==
  [t \in Tests |-> IF t = DOWNLOAD THEN DL_STREAMS
                   ELSE IF t = UPLOAD THEN UL_STREAMS ELSE 1]

Streams == 1..(IF DL_STREAMS > UL_STREAMS THEN DL_STREAMS ELSE UL_STREAMS)

\* Ping::run's (int)mPingQuery * 1.5 * 1.1, with mPingQuery = PING_QUERY + 1
PingDuration == ((PING_QUERY + 1) * 33) \div 20

\* MEASUREMENT_DURATION of each test, in seconds
DurationOfNetUpload ==
  [t \in Tests |->
     IF t = IP THEN IP_DURATION
     ELSE IF t = RTT THEN PingDuration
     ELSE IF t = DOWNLOAD THEN DL_DURATION ELSE UL_DURATION]
DurationOf ==
  [t \in Tests |->
     IF t = IP THEN IP_DURATION
     ELSE IF t = RTT THEN PingDuration
     ELSE IF t = DOWNLOAD THEN DL_DURATION
     ELSE UL_DURATION + UPLOAD_ADDITIONAL_MEASUREMENT_DURATION]

\* The boolean globals by which a failure is handed to the timer thread, and
\* the error code under which the timer reports each of them
ErrorCode == [UNREACHABLE            |-> 7,
              FORBIDDEN              |-> 4,
              TLS_PARAMETERS_MISSING |-> 8,
              STREAMS_DROPPED        |-> 9]
Flags == DOMAIN ErrorCode
NoTestCaseEnabled == 1

Phases   == {"INIT", "IP", "PING", "DOWNLOAD", "UPLOAD", "END"}
PhaseOf  == [t \in Tests |-> IF t = IP THEN "IP" ELSE IF t = RTT THEN "PING"
                             ELSE IF t = DOWNLOAD THEN "DOWNLOAD" ELSE "UPLOAD"]

VARIABLES
  (* process flags, ias_client.cpp *)
  RUNNING,              \* cleared by shutdown, measurementStop and exceptions
  hasError,
  raised,               \* which of Flags are true
  PERFORMED,            \* the t for which PERFORMED_<t> is true
  currentTestPhase,
  sTestName,            \* of conf, by number: every message names this test case
  (* timer flags, ias_client.cpp; the time unit is half a second *)
  TIMER_ACTIVE, TIMER_RUNNING, TIMER_STOPPED,
  TIMER_INDEX, TIMER_DURATION,
  MEASUREMENT_DURATION, \* in seconds, 0 until the test case sets it
  clock,                \* half seconds since the timer took time1
  (* timer thread *)
  tpc, current_index,
  cmd, step,            \* the CCallback::callback call it is executing
  (* main thread *)
  mpc, test, plan,      \* test: position in measurementStart's list of tests;
                        \* plan: the t for which ::<t> is true
  session,              \* how many measurements the app has started
  (* workers of the running test *)
  wpc, mResponse, syncing_threads, ipResult, pings, sender,
  (* lifetime of the workers as the callback object sees it *)
  attached,             \* mCallback->...Thread(s) has been assigned
  freed,                \* the worker objects have been destroyed
  (* what the platform has been told in this session *)
  finished, errors, completed, delivered,
  (* measurementStop *)
  stopping,
  crashed               \* the process died in undefined behaviour

flagVars     == <<RUNNING, hasError, raised>>
timerFlags   == <<TIMER_ACTIVE, TIMER_RUNNING, TIMER_STOPPED, TIMER_INDEX, TIMER_DURATION>>
timerVars    == <<tpc, current_index, cmd, step>>
mainVars     == <<mpc, test, plan, session>>
workerVars   == <<wpc, mResponse, syncing_threads, ipResult, pings, sender>>
objectVars   == <<attached, freed>>
platformVars == <<finished, errors, completed, delivered>>
resultVars   == <<PERFORMED, currentTestPhase, sTestName>>

vars == <<flagVars, resultVars, timerFlags, MEASUREMENT_DURATION, clock, timerVars,
          mainVars, workerVars, objectVars, platformVars, stopping, crashed>>

\* The workers of the running test case
Workers == 1..Instances[test]

\* What no step of the timer thread writes
TimerFrame == UNCHANGED <<RUNNING, MEASUREMENT_DURATION, mainVars, workerVars,
                          objectVars, stopping>>
=============================================================================
