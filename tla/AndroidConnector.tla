-------------------------- MODULE AndroidConnector --------------------------
(***************************************************************************)
(* android_connector.cpp: the global references the client holds into the  *)
(* Java VM, and the threads that use them.                                 *)
(*                                                                         *)
(* Two threads of the app call the connector: one loads the library,       *)
(* shares the measurement state, stops and cleans up, field by field (op,  *)
(* at); the other is in startMeasurement, which returns when the           *)
(* measurement is over (mpc).  Each test case has a timer thread, which    *)
(* sends messages (callback.cpp).  A message is the list of the fields it  *)
(* still uses (todo); it reads a field (ref) before it hands it to the VM. *)
(* References are numbered by the call that made them; 0 is nullptr.       *)
(***************************************************************************)
EXTENDS Integers, Sequences, FiniteSets

CONSTANTS
  Plans,          \* what the app may ask for: sets of test cases
  MaxShares,      \* bounds: calls of shareMeasurementState,
  MaxSessions,    \* of startMeasurement,
  MaxMessages     \* and messages of a timer thread before its last ones

ASSUME AndroidAssumption ==
  /\ Plans \subseteq SUBSET {"PING", "DOWNLOAD", "UPLOAD"}
  /\ MaxShares \in Nat \ {0} /\ MaxSessions \in Nat /\ MaxMessages \in Nat

\* The fields: made in jniLoad, or in registerSharedObject
Classes == {"jniExceptionClass", "jniHelperClass", "speedMeasurementResultClazz",
            "resultUdpClazz", "resultBandwidthClazz", "timeClazz"}
SharedObjects == {"jniCaller", "baseMeasurementState", "downloadMeasurementState",
                  "uploadMeasurementState", "pingMeasurementState"}
Fields == Classes \cup SharedObjects

\* The order in which registerSharedObject makes its references, and that in
\* which unregisterSharedObject releases all of them
Registered == <<"jniCaller", "baseMeasurementState", "downloadMeasurementState",
                "uploadMeasurementState", "pingMeasurementState">>
Released == <<"jniExceptionClass", "jniHelperClass", "speedMeasurementResultClazz",
              "resultUdpClazz", "resultBandwidthClazz", "timeClazz", "baseMeasurementState",
              "downloadMeasurementState", "uploadMeasurementState", "pingMeasurementState",
              "jniCaller">>

\* Test cases in their order
TestCases == <<"IP", "PING", "DOWNLOAD", "UPLOAD">>

\* The thread in startMeasurement, and the timer thread of the test case
Threads == {"app", "timer"}
Unread == -1

VARIABLES
  javaVM,              \* jniLoad has been called
  held, live,          \* the references of the fields, those the VM keeps
  shares,              \* calls of shareMeasurementState
  op, at,              \* what the first thread of the app does, and where
  unregistered,        \* history: unregisterSharedObject has begun
  measurementServerUrl,\* there is a server address
  mpc, sessions, enabled, RUNNING, currentTestPhase,
  nTestCase,           \* the test case measurementStart is at, 0 at its beginning
  sTestName,           \* of conf, by number: every message names it; 0 if empty
  running, sent, last, \* the timer thread runs, its messages, the last of them
  failed,              \* an error has been reported
  attached,            \* the threads attached to the VM
  who, cmd, todo, ref, \* the message being sent, and by whom (the app if none is)
  crashed,             \* the VM was handed a reference that is not one
  finished, errors, completed   \* what the app has been told of the measurement

refVars     == <<javaVM, held, live, shares, op, at, unregistered, measurementServerUrl>>
sessionVars == <<mpc, sessions, enabled, RUNNING, currentTestPhase, nTestCase, sTestName>>
timerVars   == <<running, sent, last, failed>>
appVars     == <<finished, errors, completed>>
messageVars == <<attached, who, cmd, todo, ref, crashed, appVars>>
vars == <<refVars, sessionVars, timerVars, messageVars>>

Init ==
  /\ javaVM = FALSE /\ held = [f \in Fields |-> 0] /\ live = {} /\ shares = 0
  /\ op = "none" /\ at = 1 /\ unregistered = FALSE
  /\ measurementServerUrl = FALSE
  /\ mpc = "idle" /\ sessions = 0 /\ enabled = {} /\ nTestCase = 0
  /\ sTestName = 0
  /\ currentTestPhase = "INIT" /\ RUNNING = FALSE
  /\ running = FALSE /\ sent = 0 /\ last = "none" /\ failed = FALSE
  /\ attached = {"app"}
  /\ who = "app" /\ cmd = "none" /\ todo = <<>> /\ ref = Unread
  /\ crashed = FALSE
  /\ finished = {} /\ errors = {} /\ completed = FALSE

-----------------------------------------------------------------------------
(* Loading, sharing, stopping and cleaning up *)

\* jniLoad, when the library is loaded
Load ==
  /\ ~javaVM /\ javaVM' = TRUE
  /\ held' = [f \in Fields |-> IF f \in Classes THEN 1 ELSE held[f]]
  /\ live' = {<<f, 1>> : f \in Classes}
  /\ UNCHANGED <<shares, op, at, unregistered, measurementServerUrl, sessionVars,
                 timerVars, messageVars>>

\* shareMeasurementState starts with registerSharedObject
Share ==
  /\ javaVM /\ op = "none" /\ shares < MaxShares
  /\ shares' = shares + 1
  /\ op' = "share" /\ at' = 1
  /\ UNCHANGED <<javaVM, held, live, unregistered, measurementServerUrl, sessionVars,
                 timerVars, messageVars>>

\* NewGlobalRef: the reference the field held is not deleted
Replaced(f) == (live \ {<<f, held[f]>>}) \cup {<<f, shares>>}
Added(f) == live \cup {<<f, shares>>}

RegisterSharedObject ==
  /\ op = "share" /\ at <= Len(Registered)
  /\ held' = [held EXCEPT ![Registered[at]] = shares]
  /\ live' = Added(Registered[at])
  /\ at' = at + 1
  /\ UNCHANGED <<javaVM, shares, op, unregistered, measurementServerUrl, sessionVars,
                 timerVars, messageVars>>

\* The server addresses are appended to those that are there, and a measurement
\* picks one at random: here only whether there is one matters.  The app may
\* give none
SetSpeedSettings ==
  /\ op = "share" /\ at > Len(Registered)
  /\ measurementServerUrl' \in {measurementServerUrl, TRUE}
  /\ op' = "none" /\ at' = 1
  /\ UNCHANGED <<javaVM, held, live, shares, unregistered, sessionVars, timerVars,
                 messageVars>>

\* cleanUp, and JNI_OnUnload
Unregister ==
  /\ javaVM /\ op = "none"
  /\ op' = "delete" /\ at' = 1
  /\ unregistered' = TRUE
  /\ UNCHANGED <<javaVM, held, live, shares, measurementServerUrl, sessionVars,
                 timerVars, messageVars>>

\* if (field != nullptr) DeleteGlobalRef(field)
Forgotten(f) == live
Deleted(f) == live \ {<<f, held[f]>>}

DeleteGlobalRef ==
  /\ op = "delete" /\ at <= Len(Released)
  /\ live' = Deleted(Released[at])
  /\ op' = "clear"
  /\ UNCHANGED <<javaVM, held, shares, at, unregistered, measurementServerUrl,
                 sessionVars, timerVars, messageVars>>

\* field = nullptr
SetNull ==
  /\ op = "clear"
  /\ held' = [held EXCEPT ![Released[at]] = 0]
  /\ op' = "delete" /\ at' = at + 1
  /\ UNCHANGED <<javaVM, live, shares, unregistered, measurementServerUrl, sessionVars,
                 timerVars, messageVars>>

Unregistered ==
  /\ op = "delete" /\ at > Len(Released)
  /\ op' = "none" /\ at' = 1
  /\ UNCHANGED <<javaVM, held, live, shares, unregistered, measurementServerUrl,
                 sessionVars, timerVars, messageVars>>

StopMeasurement ==
  /\ op = "none" /\ RUNNING /\ RUNNING' = FALSE
  /\ UNCHANGED <<refVars, mpc, sessions, enabled, nTestCase, sTestName, currentTestPhase,
                 timerVars, messageVars>>

Control ==
  \/ Load \/ Share \/ RegisterSharedObject \/ SetSpeedSettings
  \/ Unregister \/ DeleteGlobalRef \/ SetNull \/ Unregistered \/ StopMeasurement
-----------------------------------------------------------------------------
(* A message: callbackToPlatform, AndroidConnector::callback and, in phase     *)
(* END, callbackFinished                                                       *)

\* Two uses are of a field that may be nullptr: baseMeasurementState at the end
\* is then left out, and for downloadMeasurementState, where the switch falls
\* through to the next case, uploadMeasurementState is read
IfNotNull == "baseMeasurementState, if it is not nullptr"
OrUpload  == "downloadMeasurementState, or else uploadMeasurementState"
Instead(use) == IF use = OrUpload THEN <<"uploadMeasurementState">> ELSE <<>>
FieldOf(use) == IF use = IfNotNull THEN "baseMeasurementState"
                ELSE IF use = OrUpload THEN "downloadMeasurementState" ELSE use

StateOf == [PING     |-> "pingMeasurementState",
            DOWNLOAD |-> OrUpload,
            UPLOAD   |-> "uploadMeasurementState"]

\* The state of the phase is filled in if the message has results of the test
\* case; the progress goes to baseMeasurementState
SpeedState(phase, results) ==
  IF phase \notin DOMAIN StateOf THEN <<>>
  ELSE IF results THEN <<StateOf[phase], "baseMeasurementState">>
  ELSE <<"baseMeasurementState">>

CallbackUses(phase, results) ==
  <<"speedMeasurementResultClazz", "baseMeasurementState">> \o SpeedState(phase, results)
    \o <<"jniCaller", "jniCaller">>

\* The results of the RTT test, of the download and upload tests, the times
\* (every message has some) and the address of the peer
RttUdpUses(rtt) == IF rtt THEN <<"speedMeasurementResultClazz", "resultUdpClazz">> ELSE <<>>
BandwidthUses(streams) ==
  IF streams THEN <<"speedMeasurementResultClazz", "resultBandwidthClazz">> ELSE <<>>
TimeUses == <<"speedMeasurementResultClazz", "timeClazz">>
PeerUses == <<"speedMeasurementResultClazz">>

FinishedUses(rtt, streams) ==
  <<"speedMeasurementResultClazz">> \o RttUdpUses(rtt) \o BandwidthUses(streams)
    \o TimeUses \o PeerUses \o <<"jniCaller", IfNotNull>>

\* Thread t sends message c in the phase currentTestPhase'; getJniEnv attaches
\* the thread
Send(t, c) ==
  /\ cmd = "none"
  /\ who' = t /\ cmd' = c
  /\ attached' = attached \cup {t}
  /\ \E results, rtt, streams \in BOOLEAN :
       todo' = CallbackUses(currentTestPhase', results)
                 \o (IF currentTestPhase' = "END" THEN FinishedUses(rtt, streams) ELSE <<>>)
  /\ UNCHANGED <<ref, crashed, appVars>>

\* The field is read ...
ReadRef ==
  /\ todo # <<>> /\ ref = Unread
  /\ IF Head(todo) \in {IfNotNull, OrUpload} /\ held[FieldOf(Head(todo))] = 0
       THEN todo' = Instead(Head(todo)) \o Tail(todo) /\ UNCHANGED ref
       ELSE ref' = held[FieldOf(Head(todo))] /\ UNCHANGED todo
  /\ UNCHANGED <<refVars, sessionVars, timerVars, attached, who, cmd, crashed, appVars>>

\* ... and handed to the VM, which gives up on what is not a reference
UseRef ==
  /\ ref # Unread
  /\ crashed' = (<<FieldOf(Head(todo)), ref>> \notin live)
  /\ todo' = Tail(todo) /\ ref' = Unread
  /\ UNCHANGED <<refVars, sessionVars, timerVars, attached, who, cmd, appVars>>

\* if (cmd == "completed" || cmd == "error") detachCurrentThreadFromJvm()
DetachesAlways == TRUE
DetachesWhenCompleted == cmd = "completed"
Detaches == cmd \in {"completed", "error"}

\* What the app knows of the measurement then: a message is about the test case
\* it names; the errors are numbered
Told ==
  /\ finished' = IF cmd = "finish" THEN finished \cup {sTestName} ELSE finished
  /\ errors' = IF cmd = "error" THEN errors \cup {<<sTestName, Cardinality(errors) + 1>>}
                                ELSE errors
  /\ completed' = IF cmd = "completed" THEN TRUE ELSE completed

Sent ==
  /\ cmd # "none" /\ todo = <<>>
  /\ attached' = IF Detaches THEN attached \ {who} ELSE attached
  /\ who' = "app" /\ cmd' = "none"
  /\ Told
  /\ UNCHANGED <<refVars, sessionVars, timerVars, todo, ref, crashed>>

Message == ReadRef \/ UseRef \/ Sent

-----------------------------------------------------------------------------
(* A measurement: startMeasurement and measurementStart, on a thread of the    *)
(* app, and the timer thread of each test case                                 *)

\* The app has shared the state and given an address before it starts; a thread
\* that comes from Java is attached.  conf.sTestName keeps the name of the last
\* test case of the measurement before
StartMeasurement ==
  /\ mpc = "idle" /\ sessions < MaxSessions
  /\ op # "share" /\ measurementServerUrl
  /\ sessions' = sessions + 1
  /\ RUNNING' = TRUE
  /\ enabled' \in Plans
  /\ nTestCase' = 0 /\ failed' = FALSE
  /\ finished' = {} /\ errors' = {} /\ completed' = FALSE
  /\ mpc' = IF enabled' = {} THEN "refuse" ELSE "next"
  /\ attached' = attached \cup {"app"}
  /\ UNCHANGED <<refVars, currentTestPhase, sTestName, running, sent, last, who, cmd,
                 todo, ref, crashed>>

\* "no test case enabled", and shutdown
Refuse ==
  /\ mpc = "refuse"
  /\ UNCHANGED currentTestPhase
  /\ Send("app", "error")
  /\ mpc' = "over"
  /\ UNCHANGED <<refVars, sessions, enabled, nTestCase, sTestName, RUNNING, timerVars>>

Taken == {k \in DOMAIN TestCases : k = 1 \/ TestCases[k] \in enabled}
Left == {k \in Taken : k > nTestCase}

\* startTestCase begins with a message
StartTestCase ==
  /\ mpc = "next" /\ RUNNING /\ ~failed /\ Left # {}
  /\ nTestCase' \in {k \in Left : \A l \in Left : k <= l}
  /\ currentTestPhase' = TestCases[nTestCase'] /\ sTestName' = nTestCase'
  /\ Send("app", "started")
  /\ mpc' = "started"
  /\ UNCHANGED <<refVars, sessions, enabled, RUNNING, timerVars>>

\* CMeasurement::startMeasurement creates the timer thread, and joins it
CreateTimer ==
  /\ mpc = "started" /\ cmd = "none"
  /\ running' = TRUE
  /\ mpc' = "join"
  /\ UNCHANGED <<refVars, sessions, enabled, nTestCase, sTestName, currentTestPhase,
                 RUNNING, sent, last, failed, messageVars>>

\* The next test case has another timer thread
Join ==
  /\ mpc = "join" /\ ~running
  /\ sent' = 0 /\ last' = "none"
  /\ attached' = attached \ {"timer"}
  /\ mpc' = "next"
  /\ UNCHANGED <<refVars, sessions, enabled, nTestCase, sTestName, currentTestPhase,
                 RUNNING, running, failed, who, cmd, todo, ref, crashed, appVars>>

\* currentTestPhase = END, and shutdown
Return ==
  /\ \/ mpc = "next" /\ ~(RUNNING /\ ~failed /\ Left # {})
     \/ mpc = "over" /\ cmd = "none"
  /\ currentTestPhase' = "END" /\ RUNNING' = FALSE
  /\ mpc' = "idle"
  /\ UNCHANGED <<refVars, sessions, enabled, nTestCase, sTestName, timerVars,
                 messageVars>>

TimerSends(c) == running /\ Send("timer", c) /\ last' = c

\* info and report messages
TimerReport ==
  /\ sent < MaxMessages /\ last \notin {"finish", "completed"}
  /\ UNCHANGED currentTestPhase
  /\ TimerSends("report")
  /\ sent' = sent + 1
  /\ UNCHANGED <<refVars, mpc, sessions, enabled, nTestCase, sTestName, RUNNING, running,
                 failed>>

TimerError ==
  /\ ~failed /\ last \notin {"finish", "completed"}
  /\ UNCHANGED currentTestPhase
  /\ TimerSends("error")
  /\ failed' = TRUE
  /\ UNCHANGED <<refVars, mpc, sessions, enabled, nTestCase, sTestName, RUNNING, running,
                 sent>>

\* RUNNING && !hasError; an error message may come before hasError is set
TimerFinish ==
  /\ RUNNING /\ last \notin {"finish", "completed"}
  /\ UNCHANGED currentTestPhase
  /\ TimerSends("finish")
  /\ UNCHANGED <<refVars, mpc, sessions, enabled, nTestCase, sTestName, RUNNING, running,
                 sent, failed>>

\* The last test case completes the measurement
TimerCompleted ==
  /\ last = "finish" /\ Left = {}
  /\ currentTestPhase' = "END"
  /\ TimerSends("completed")
  /\ UNCHANGED <<refVars, mpc, sessions, enabled, nTestCase, sTestName, RUNNING, running,
                 sent, failed>>

\* The thread of a message does not end before the message has been sent
MessageAbandoned == running
MessageOver == running /\ cmd = "none"

TimerEnd ==
  /\ MessageOver
  /\ \/ last = "finish" /\ Left # {}
     \/ last = "completed"
     \/ last # "finish" /\ (failed \/ ~RUNNING)
  /\ running' = FALSE
  /\ UNCHANGED <<refVars, sessionVars, sent, last, failed, messageVars>>

Measuring ==
  \/ StartMeasurement \/ Refuse \/ StartTestCase \/ CreateTimer \/ Join \/ Return
  \/ TimerReport \/ TimerError \/ TimerFinish \/ TimerCompleted \/ TimerEnd

Next ==
  \/ ~crashed /\ (Control \/ Message \/ Measuring)
  \/ (crashed \/ (mpc = "idle" /\ op = "none")) /\ UNCHANGED vars

Spec == Init /\ [][Next]_vars
-----------------------------------------------------------------------------
(* Properties *)

BooleansOK ==
  /\ javaVM \in BOOLEAN /\ measurementServerUrl \in BOOLEAN
  /\ unregistered \in BOOLEAN /\ RUNNING \in BOOLEAN
  /\ running \in BOOLEAN /\ failed \in BOOLEAN /\ crashed \in BOOLEAN
  /\ completed \in BOOLEAN

RefsOK ==
  /\ shares \in Nat
  /\ held \in [Fields -> 0..(shares + 1)]
  /\ live \subseteq Fields \X (1..(shares + 1))
  /\ op \in {"none", "share", "delete", "clear"}
  /\ at \in 1..(Len(Released) + 1)
  /\ ref \in {Unread} \cup (0..(shares + 1))
  /\ \A k \in DOMAIN todo : FieldOf(todo[k]) \in Fields

ThreadsOK ==
  /\ who \in Threads /\ attached \subseteq Threads
  /\ mpc \in {"idle", "refuse", "over", "next", "started", "join"}
  /\ nTestCase \in 0..Len(TestCases) /\ sTestName \in 0..Len(TestCases)
  /\ cmd # "none" /\ who = "timer" => running /\ cmd = last
  /\ ref # Unread => todo # <<>>

\* Every variable keeps its type; a message belongs to the thread that sends it,
\* also when the app stops the measurement or shares another state meanwhile
TypeOK == BooleansOK /\ RefsOK /\ ThreadsOK

\* A message never hands the VM a reference that is gone, even if the app shares
\* a new state while it is being sent: registerSharedObject deletes nothing
\* (android_connector.cpp:119-129).  Only unregisterSharedObject can do that to
\* it, before the message or in the middle of it (179-242)
CallbacksUseLiveRefs == crashed => unregistered

\* A reference that no field holds any more was made by an earlier share: one
\* share, and unregisterSharedObject, leave nothing behind
LeaksOnlyByRepeatedShare ==
  \A f \in Fields : \A g \in 1..(shares + 1) :
    <<f, g>> \in live => g = held[f] \/ (f \in SharedObjects /\ g < shares)

\* The app's own thread, on which startMeasurement runs, is detached from the VM
\* only if no test case was enabled (ias_client.cpp:284, callback.cpp:178)
AppStaysAttached == "app" \notin attached => enabled = {}

\* A timer thread that has sent anything ends attached to the VM, unless its
\* last message was the last of the measurement, or an error (callback.cpp:178)
EndsAttached ==
  [][running /\ ~running' => ("timer" \in attached <=> last \in {"report", "finish"})]_vars

-----------------------------------------------------------------------------
(* Refinement *)

\* What the app is told through the connector follows MeasurementProtocol: a
\* message has been handed over before the next one, and before startMeasurement
\* returns, also when the app stops the measurement or shares another state
\* meanwhile (android_connector.cpp:244-448, callback.cpp:170-182)
Protocol == INSTANCE MeasurementProtocol WITH
  TestCases  <- DOMAIN TestCases,
  NoTestCase <- 0,
  Codes      <- {1},
  Refused    <- {{1}},
  active     <- mpc # "idle",
  enabled    <- IF sessions = 0 THEN {} ELSE Taken,
  measuring  <- mpc \in {"started", "join"},
  testCase   <- sTestName
FollowsProtocol == Protocol!Spec
=============================================================================
