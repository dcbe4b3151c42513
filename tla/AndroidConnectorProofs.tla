----------------------- MODULE AndroidConnectorProofs -----------------------
(***************************************************************************)
(* Theorems about AndroidConnector, for any number of shares, sessions and *)
(* messages and any plans: types, that no message uses a reference that is *)
(* gone until unregisterSharedObject is called, which references leak, and *)
(* which threads end attached to the Java VM.                              *)
(***************************************************************************)
EXTENDS AndroidConnector, SequenceTheorems, FiniteSetTheorems, TLAPS

-----------------------------------------------------------------------------
(* What a message uses *)

Uses == Fields \cup {IfNotNull, OrUpload}

LEMMA FieldOfUse == \A use \in Uses : FieldOf(use) \in Fields
  BY DEF Uses, FieldOf, Fields, SharedObjects, Classes

LEMMA InsteadOfUse == \A use : Instead(use) \in Seq(Uses)
  <1>1. "uploadMeasurementState" \in Uses
    BY DEF Uses, Fields, SharedObjects
  <1> HIDE DEF Uses
  <1>2. <<"uploadMeasurementState">> \in Seq(Uses) /\ <<>> \in Seq(Uses)
    BY <1>1
  <1> QED
    BY <1>2, Zenon DEF Instead

\* Reading and using a field leaves all but the message alone
LEMMA ReadsKeep ==
  ASSUME ReadRef \/ UseRef
  PROVE  UNCHANGED <<refVars, sessionVars, timerVars, attached, who, cmd, appVars>>
  <1>1. CASE ReadRef
    BY <1>1, Zenon DEF ReadRef
  <1>2. CASE UseRef
    BY <1>2, Zenon DEF UseRef
  <1> QED
    BY <1>1, <1>2

LEMMA RegisteredFields ==
  /\ Len(Registered) = 5
  /\ \A k \in 1..5 : Registered[k] \in SharedObjects
  /\ \A f \in SharedObjects : \E k \in 1..5 : Registered[k] = f
  <1>1. Len(Registered) = 5 /\ \A k \in 1..5 : Registered[k] \in SharedObjects
    BY DEF Registered, SharedObjects
  <1>2. ASSUME NEW f \in SharedObjects PROVE \E k \in 1..5 : Registered[k] = f
    <2>1. /\ Registered[1] = "jniCaller" /\ Registered[2] = "baseMeasurementState"
          /\ Registered[3] = "downloadMeasurementState"
          /\ Registered[4] = "uploadMeasurementState"
          /\ Registered[5] = "pingMeasurementState"
      BY DEF Registered
    <2> QED
      BY <2>1 DEF SharedObjects
  <1> QED
    BY <1>1, <1>2

\* The fields a callback uses, whatever the phase and the results it has
LEMMA CallbackFields ==
  ASSUME NEW phase, NEW results \in BOOLEAN
  PROVE  CallbackUses(phase, results) \in Seq(Uses)
  <1> DEFINE first == <<"speedMeasurementResultClazz", "baseMeasurementState">>
             callers == <<"jniCaller", "jniCaller">>
             state == SpeedState(phase, results)
  <1>1. first \in Seq(Uses) /\ callers \in Seq(Uses)
    BY DEF Uses, Fields, Classes, SharedObjects
  <1>2. state \in Seq(Uses)
    <2>1. CASE phase \notin DOMAIN StateOf
      BY <2>1 DEF SpeedState
    <2>2. CASE phase \in DOMAIN StateOf
      <3>1. StateOf[phase] \in Uses /\ "baseMeasurementState" \in Uses
        BY <2>2 DEF StateOf, Uses, Fields, SharedObjects
      <3> HIDE DEF Uses
      <3> QED
        BY <2>2, <3>1 DEF SpeedState
    <2> QED
      BY <2>1, <2>2
  <1> HIDE DEF first, callers, state
  <1>3. first \o state \in Seq(Uses)
    BY <1>1, <1>2, ConcatProperties
  <1>4. (first \o state) \o callers \in Seq(Uses)
    BY <1>1, <1>3, ConcatProperties
  <1> QED
    BY <1>4 DEF CallbackUses, first, callers, state

LEMMA FinishedFields ==
  ASSUME NEW rtt \in BOOLEAN, NEW streams \in BOOLEAN
  PROVE  FinishedUses(rtt, streams) \in Seq(Uses)
  <1> DEFINE result == <<"speedMeasurementResultClazz">>
             ending == <<"jniCaller", IfNotNull>>
  <1>1. /\ result \in Seq(Uses) /\ ending \in Seq(Uses)
        /\ RttUdpUses(rtt) \in Seq(Uses) /\ BandwidthUses(streams) \in Seq(Uses)
        /\ TimeUses \in Seq(Uses) /\ PeerUses \in Seq(Uses)
    <2>1. {"speedMeasurementResultClazz", "resultUdpClazz", "resultBandwidthClazz",
           "timeClazz", "jniCaller", IfNotNull} \subseteq Uses /\ <<>> \in Seq(Uses)
      BY DEF Uses, Fields, Classes, SharedObjects
    <2> HIDE DEF Uses
    <2>2. result \in Seq(Uses) /\ ending \in Seq(Uses)
      BY <2>1
    <2>3. RttUdpUses(rtt) \in Seq(Uses) /\ BandwidthUses(streams) \in Seq(Uses)
      BY <2>1 DEF RttUdpUses, BandwidthUses
    <2>4. TimeUses \in Seq(Uses) /\ PeerUses \in Seq(Uses)
      BY <2>1 DEF TimeUses, PeerUses
    <2> QED
      BY <2>2, <2>3, <2>4
  <1> HIDE DEF result, ending
  <1>2. result \o RttUdpUses(rtt) \in Seq(Uses)
    BY <1>1, ConcatProperties
  <1>3. (result \o RttUdpUses(rtt)) \o BandwidthUses(streams) \in Seq(Uses)
    BY <1>1, <1>2, ConcatProperties
  <1>4. ((result \o RttUdpUses(rtt)) \o BandwidthUses(streams)) \o TimeUses \in Seq(Uses)
    BY <1>1, <1>3, ConcatProperties
  <1>5. (((result \o RttUdpUses(rtt)) \o BandwidthUses(streams)) \o TimeUses) \o PeerUses
          \in Seq(Uses)
    BY <1>1, <1>4, ConcatProperties
  <1>6. ((((result \o RttUdpUses(rtt)) \o BandwidthUses(streams)) \o TimeUses) \o PeerUses)
          \o ending \in Seq(Uses)
    BY <1>1, <1>5, ConcatProperties
  <1> QED
    BY <1>6 DEF FinishedUses, result, ending

-----------------------------------------------------------------------------
(* The inductive invariant *)

\* The message being sent
MessageInv ==
  /\ todo \in Seq(Uses)
  /\ cmd = "none" => todo = <<>>
  /\ ref # Unread => todo # <<>>

\* A measurement has been started, so that a share has given an address
StartedInv == mpc # "idle" \/ running \/ cmd # "none" => measurementServerUrl

\* The references of the fields that are set, while nothing is unregistered: a
\* share gives all five before the first address
SharedInv ==
  /\ held \in [Fields -> Nat] /\ shares \in Nat
  /\ ~unregistered =>
       /\ op \in {"none", "share"}
       /\ \A f \in Fields : held[f] # 0 => <<f, held[f]>> \in live
       /\ javaVM => \A f \in Classes : held[f] # 0
       /\ ~javaVM => op = "none" /\ ~measurementServerUrl /\ \A f \in Fields : held[f] = 0
       /\ op = "share" =>
            /\ shares > 0 /\ at \in Nat \ {0}
            /\ \A k \in 1..5 : k < at => held[Registered[k]] # 0
       /\ measurementServerUrl => \A f \in SharedObjects : held[f] # 0

\* What the message has read is still a reference
ReadInv == ~unregistered /\ ref # Unread => <<FieldOf(Head(todo)), ref>> \in live

LiveInv == MessageInv /\ StartedInv /\ SharedInv /\ ReadInv /\ CallbacksUseLiveRefs

LEMMA InitLive == Init => LiveInv
  <1> SUFFICES ASSUME Init PROVE LiveInv
    OBVIOUS
  <1>1. MessageInv /\ StartedInv
    BY DEF Init, MessageInv, StartedInv
  <1>2. SharedInv
    BY DEF Init, SharedInv
  <1>3. ReadInv
    BY DEF Init, ReadInv, Unread
  <1>4. CallbacksUseLiveRefs
    BY Zenon DEF Init, CallbacksUseLiveRefs
  <1> QED
    BY <1>1, <1>2, <1>3, <1>4 DEF LiveInv

-----------------------------------------------------------------------------
(* The steps *)

\* The app's other thread does not touch the message
LEMMA ControlLive == ASSUME LiveInv, Control PROVE LiveInv'
  <1> USE DEF LiveInv
  <1>1. MessageInv'
    BY DEF MessageInv, Control, Load, Share, RegisterSharedObject, SetSpeedSettings, Unregister,
           DeleteGlobalRef, SetNull, Unregistered, StopMeasurement, messageVars
  <1>2. StartedInv'
    <2>1. measurementServerUrl => measurementServerUrl'
      BY DEF Control, Load, Share, RegisterSharedObject, SetSpeedSettings, Unregister,
             DeleteGlobalRef, SetNull, Unregistered, StopMeasurement, refVars
    <2> QED
      BY <2>1 DEF StartedInv, Control, Load, Share, RegisterSharedObject, SetSpeedSettings,
                  Unregister, DeleteGlobalRef, SetNull, Unregistered, StopMeasurement,
                  messageVars, sessionVars, timerVars
  <1>3. SharedInv' /\ ReadInv'
    <2>1. CASE Load
      <3>1. ~unregistered => ref = Unread
        BY <2>1 DEF Load, MessageInv, StartedInv, SharedInv
      <3>2. held' \in [Fields -> Nat] /\ \A f \in Fields \ Classes : held'[f] = held[f]
        BY <2>1 DEF Load, SharedInv
      <3>3. \A f \in Classes : held'[f] = 1 /\ <<f, 1>> \in live'
        BY <2>1 DEF Load, Fields
      <3>4. SharedInv'
        BY <2>1, <3>2, <3>3 DEF Load, SharedInv
      <3>5. ReadInv'
        BY <2>1, <3>1 DEF Load, ReadInv, messageVars
      <3> QED
        BY <3>4, <3>5
    <2>2. CASE Share
      <3>1. SharedInv'
        BY <2>2 DEF Share, SharedInv
      <3>2. ReadInv'
        BY <2>2 DEF Share, ReadInv, messageVars
      <3> QED
        BY <3>1, <3>2
    <2>3. CASE RegisterSharedObject
      <3> DEFINE f == Registered[at]
      <3>1. ReadInv'
        BY <2>3 DEF RegisterSharedObject, Added, ReadInv, messageVars
      <3>2. CASE unregistered
        BY <2>3, <3>1, <3>2 DEF RegisterSharedObject, SharedInv
      <3>3. CASE ~unregistered
        <4>1. at \in 1..5 /\ f \in SharedObjects /\ f \in Fields /\ shares > 0
          BY <2>3, <3>3, RegisteredFields DEF RegisterSharedObject, SharedInv, Fields
        <4> HIDE DEF f
        <4>2. held' = [held EXCEPT ![f] = shares] /\ live' = live \cup {<<f, shares>>}
          BY <2>3 DEF RegisterSharedObject, Added, f
        <4>3. held' \in [Fields -> Nat] /\ held'[f] = shares
          BY <4>1, <4>2 DEF SharedInv
        <4>4. \A g \in Fields : g # f => held'[g] = held[g]
          BY <4>1, <4>2 DEF SharedInv
        <4>5. \A g \in Fields : held'[g] # 0 => <<g, held'[g]>> \in live'
          BY <3>3, <4>2, <4>3, <4>4 DEF SharedInv
        <4>6. \A g \in Fields : held[g] # 0 => held'[g] # 0
          BY <4>1, <4>3, <4>4
        <4>7. \A k \in 1..5 : k < at + 1 => held'[Registered[k]] # 0
          <5> SUFFICES ASSUME NEW k \in 1..5, k < at + 1 PROVE held'[Registered[k]] # 0
            OBVIOUS
          <5>1. CASE k = at
            BY <4>1, <4>3, <5>1 DEF f
          <5>2. CASE k # at
            BY <2>3, <3>3, <4>1, <4>6, <5>2, RegisteredFields
               DEF RegisterSharedObject, SharedInv, Fields
          <5> QED
            BY <5>1, <5>2
        <4>8. javaVM /\ javaVM' = javaVM
          BY <2>3, <3>3, Zenon DEF RegisterSharedObject, SharedInv
        <4>9. SharedInv'
          BY <2>3, <3>3, <4>1, <4>3, <4>5, <4>6, <4>7, <4>8
             DEF RegisterSharedObject, SharedInv, Fields
        <4> QED
          BY <3>1, <4>9
      <3> QED
        BY <3>2, <3>3
    <2>4. CASE SetSpeedSettings
      <3>1. ReadInv'
        BY <2>4 DEF SetSpeedSettings, ReadInv, messageVars
      <3>2. ~unregistered => \A f \in SharedObjects : held[f] # 0
        BY <2>4, RegisteredFields DEF SetSpeedSettings, SharedInv
      <3>3. ~unregistered => javaVM
        BY <2>4, Zenon DEF SetSpeedSettings, SharedInv
      <3>4. SharedInv'
        BY <2>4, <3>2, <3>3 DEF SetSpeedSettings, SharedInv
      <3> QED
        BY <3>1, <3>4
    <2>5. CASE Unregister \/ DeleteGlobalRef \/ SetNull \/ Unregistered
      <3>1. unregistered'
        BY <2>5 DEF Unregister, DeleteGlobalRef, SetNull, Unregistered, SharedInv
      <3>2. held' \in [Fields -> Nat] /\ shares' \in Nat
        BY <2>5 DEF Unregister, DeleteGlobalRef, SetNull, Unregistered, SharedInv
      <3> QED
        BY <3>1, <3>2 DEF SharedInv, ReadInv
    <2>6. CASE StopMeasurement
      BY <2>6 DEF StopMeasurement, SharedInv, ReadInv, refVars, messageVars
    <2> QED
      BY <2>1, <2>2, <2>3, <2>4, <2>5, <2>6 DEF Control
  <1>4. CallbacksUseLiveRefs'
    <2>1. crashed' = crashed
      BY DEF Control, Load, Share, RegisterSharedObject, SetSpeedSettings, Unregister,
             DeleteGlobalRef, SetNull, Unregistered, StopMeasurement, messageVars
    <2>2. unregistered => unregistered'
      BY DEF Control, Load, Share, RegisterSharedObject, SetSpeedSettings, Unregister,
             DeleteGlobalRef, SetNull, Unregistered, StopMeasurement, refVars
    <2> QED
      BY <2>1, <2>2, Zenon DEF CallbacksUseLiveRefs
  <1> QED
    BY <1>1, <1>2, <1>3, <1>4

\* Reading a field finds a reference, and using it does not stop the VM
LEMMA MessageLive == ASSUME LiveInv, ~crashed, Message PROVE LiveInv'
  <1> USE DEF LiveInv
  <1>1. StartedInv' /\ SharedInv'
    <2>1. UNCHANGED <<refVars, mpc, running>> /\ (cmd' # "none" => cmd # "none")
      <3>1. CASE ReadRef \/ UseRef
        BY <3>1, ReadsKeep DEF sessionVars, timerVars
      <3>2. CASE Sent
        BY <3>2 DEF Sent, sessionVars, timerVars
      <3> QED
        BY <3>1, <3>2 DEF Message
    <2> QED
      BY <2>1 DEF StartedInv, SharedInv, refVars
  <1>2. CASE ReadRef
    <2> DEFINE f == FieldOf(Head(todo))
    <2>1. f \in Fields /\ Tail(todo) \in Seq(Uses)
      BY <1>2, FieldOfUse, HeadTailProperties DEF ReadRef, MessageInv
    <2>2. ~unregistered => held[f] # 0
      BY <1>2, <2>1 DEF ReadRef, MessageInv, StartedInv, SharedInv, Fields
    <2>3. ~unregistered => <<f, held[f]>> \in live
      BY <2>1, <2>2 DEF SharedInv
    <2>4. held[f] # Unread
      BY <2>1 DEF SharedInv, Unread
    <2> HIDE DEF f
    <2>5. \/ todo' = Instead(Head(todo)) \o Tail(todo) /\ ref' = Unread
          \/ todo' = todo /\ ref' = held[f]
      BY <1>2 DEF ReadRef, f
    <2>a. Instead(Head(todo)) \o Tail(todo) \in Seq(Uses)
      BY <2>1, InsteadOfUse, ConcatProperties
    <2>6. MessageInv'
      BY <1>2, <2>5, <2>a DEF ReadRef, MessageInv
    <2>7. ReadInv'
      BY <1>2, <2>3, <2>5 DEF ReadRef, ReadInv, refVars, f
    <2>8. CallbacksUseLiveRefs'
      BY <1>2, Zenon DEF ReadRef, CallbacksUseLiveRefs, refVars
    <2> QED
      BY <1>1, <2>6, <2>7, <2>8
  <1>3. CASE UseRef
    <2>1. MessageInv'
      BY <1>3, HeadTailProperties DEF UseRef, MessageInv
    <2>2. ReadInv'
      BY <1>3 DEF UseRef, ReadInv
    <2>3. ~unregistered => ~crashed'
      BY <1>3 DEF UseRef, ReadInv
    <2>4. CallbacksUseLiveRefs'
      BY <1>3, <2>3, Zenon DEF UseRef, CallbacksUseLiveRefs, refVars
    <2> QED
      BY <1>1, <2>1, <2>2, <2>4
  <1>4. CASE Sent
    <2>1. MessageInv' /\ ReadInv'
      BY <1>4 DEF Sent, MessageInv, ReadInv, refVars
    <2>2. CallbacksUseLiveRefs'
      BY <1>4, Zenon DEF Sent, CallbacksUseLiveRefs, refVars
    <2> QED
      BY <1>1, <2>1, <2>2
  <1> QED
    BY <1>2, <1>3, <1>4 DEF Message

LEMMA SendKeeps ==
  ASSUME MessageInv, NEW t, NEW c, c # "none", Send(t, c)
  PROVE  MessageInv' /\ UNCHANGED <<ref, crashed>> /\ ref = Unread
  <1>1. PICK results \in BOOLEAN, rtt \in BOOLEAN, streams \in BOOLEAN :
          todo' = CallbackUses(currentTestPhase', results)
                    \o (IF currentTestPhase' = "END" THEN FinishedUses(rtt, streams) ELSE <<>>)
    BY Zenon DEF Send
  <1> DEFINE callback == CallbackUses(currentTestPhase', results)
             ending == IF currentTestPhase' = "END" THEN FinishedUses(rtt, streams) ELSE <<>>
  <1>2. callback \in Seq(Uses)
    BY CallbackFields
  <1>3. ending \in Seq(Uses)
    BY FinishedFields
  <1> HIDE DEF callback, ending
  <1>4. callback \o ending \in Seq(Uses)
    BY <1>2, <1>3, ConcatProperties
  <1>5. todo' \in Seq(Uses)
    BY <1>1, <1>4 DEF callback, ending
  <1> QED
    BY <1>5 DEF Send, MessageInv

\* A measurement sends messages only after it has been started
LEMMA MeasuringLive == ASSUME LiveInv, Measuring PROVE LiveInv'
  <1> USE DEF LiveInv
  <1>1. /\ UNCHANGED refVars /\ UNCHANGED <<ref, crashed>>
        /\ MessageInv'
    <2>1. CASE Refuse
      BY <2>1, SendKeeps DEF Refuse
    <2>2. CASE StartTestCase
      BY <2>2, SendKeeps DEF StartTestCase
    <2>3. CASE TimerReport
      BY <2>3, SendKeeps DEF TimerReport, TimerSends
    <2>4. CASE TimerError
      BY <2>4, SendKeeps DEF TimerError, TimerSends
    <2>5. CASE TimerFinish
      BY <2>5, SendKeeps DEF TimerFinish, TimerSends
    <2>6. CASE TimerCompleted
      BY <2>6, SendKeeps DEF TimerCompleted, TimerSends
    <2>7. CASE StartMeasurement \/ CreateTimer \/ Join \/ Return \/ TimerEnd
      BY <2>7 DEF StartMeasurement, CreateTimer, Join, Return, TimerEnd, MessageInv, messageVars
    <2> QED
      BY <2>1, <2>2, <2>3, <2>4, <2>5, <2>6, <2>7 DEF Measuring
  <1>2. SharedInv'
    BY <1>1 DEF SharedInv, refVars
  <1>3. StartedInv'
    BY <1>1 DEF Measuring, StartMeasurement, Refuse, StartTestCase, CreateTimer, Join, Return,
                TimerReport, TimerError, TimerFinish, TimerCompleted, TimerEnd, TimerSends, Send,
                StartedInv, refVars, timerVars, messageVars, sessionVars
  <1>4. ReadInv'
    <2>1. ref # Unread => todo' = todo
      BY SendKeeps DEF Measuring, StartMeasurement, Refuse, StartTestCase, CreateTimer, Join,
                       Return, TimerReport, TimerError, TimerFinish, TimerCompleted, TimerEnd,
                       TimerSends, messageVars
    <2> QED
      BY <1>1, <2>1 DEF ReadInv, refVars
  <1>5. CallbacksUseLiveRefs'
    BY <1>1, Zenon DEF CallbacksUseLiveRefs, refVars
  <1> QED
    BY <1>1, <1>2, <1>3, <1>4, <1>5

LEMMA StutterLive == ASSUME LiveInv, UNCHANGED vars PROVE LiveInv'
  BY DEF LiveInv, MessageInv, StartedInv, SharedInv, ReadInv, CallbacksUseLiveRefs, vars, refVars,
         sessionVars, timerVars, messageVars

LEMMA NextLive == LiveInv /\ [Next]_vars => LiveInv'
  BY ControlLive, MessageLive, MeasuringLive, StutterLive DEF Next

\* As long as the app does not clean up, no message hands the VM a reference
\* that is gone (android_connector.cpp:119-129 and 244-577), however often the
\* app shares its state, also in the middle of a message
THEOREM MessagesUseLiveRefs == Spec => []CallbacksUseLiveRefs
  <1>1. LiveInv => CallbacksUseLiveRefs
    BY DEF LiveInv
  <1> QED
    BY <1>1, InitLive, NextLive, PTL DEF Spec
-----------------------------------------------------------------------------
(* Types *)

\* Where the first thread of the app is in its lists of fields
PositionInv ==
  /\ op = "share" => shares > 0 /\ at <= Len(Registered) + 1
  /\ op = "clear" => at <= Len(Released)

TypeInv == TypeOK /\ PositionInv

LEMMA ReleasedFields == Len(Released) = 11 /\ \A k \in 1..11 : Released[k] \in Fields
  BY DEF Released, Fields, Classes, SharedObjects

LEMMA MessageFields ==
  \A uses \in Seq(Uses) : \A k \in DOMAIN uses : FieldOf(uses[k]) \in Fields
  BY FieldOfUse, ElementOfSeq

LEMMA InitTypes == Init => TypeInv
  <1> SUFFICES ASSUME Init PROVE TypeInv
    OBVIOUS
  <1>1. BooleansOK
    BY Zenon DEF Init, BooleansOK
  <1>2. MessageInv /\ PositionInv
    BY DEF Init, MessageInv, PositionInv
  <1>3. RefsOK
    BY <1>2, MessageFields, ReleasedFields DEF Init, RefsOK, MessageInv
  <1>4. ThreadsOK
    BY DEF Init, ThreadsOK, Threads, TestCases
  <1> QED
    BY <1>1, <1>2, <1>3, <1>4 DEF TypeInv, TypeOK

\* The first thread of the app
LEMMA ControlTypes ==
  ASSUME TypeInv, MessageInv, Control
  PROVE  TypeInv'
  <1> USE DEF TypeInv, TypeOK
  <1>1. BooleansOK'
    <2> USE DEF BooleansOK
    <2>1. CASE Load \/ Share \/ RegisterSharedObject \/ SetSpeedSettings
      BY <2>1, Zenon DEF Load, Share, RegisterSharedObject, SetSpeedSettings, sessionVars,
                         timerVars, messageVars, appVars
    <2>2. CASE Unregister \/ DeleteGlobalRef \/ SetNull \/ Unregistered
      BY <2>2, Zenon DEF Unregister, DeleteGlobalRef, SetNull, Unregistered, sessionVars,
                         timerVars, messageVars, appVars
    <2>3. CASE StopMeasurement
      BY <2>3, Zenon DEF StopMeasurement, refVars, timerVars, messageVars, appVars
    <2> QED
      BY <2>1, <2>2, <2>3 DEF Control
  <1>2. UNCHANGED <<timerVars, messageVars, mpc, nTestCase, sTestName>>
    BY DEF Control, Load, Share, RegisterSharedObject, SetSpeedSettings, Unregister,
           DeleteGlobalRef, SetNull, Unregistered, StopMeasurement, sessionVars
  <1>3. ThreadsOK'
    BY <1>2 DEF ThreadsOK, timerVars, messageVars
  <1>4. RefsOK' /\ PositionInv'
    <2> USE ReleasedFields, RegisteredFields DEF RefsOK, PositionInv, messageVars
    <2>1. CASE Load
      BY <1>2, <2>1 DEF Load, Fields
    <2>2. CASE Share
      BY <1>2, <2>2 DEF Share
    <2>3. CASE RegisterSharedObject
      <3>1. Registered[at] \in Fields /\ shares \in 1..(shares + 1)
        BY <2>3 DEF RegisterSharedObject, Fields
      <3> QED
        BY <1>2, <2>3, <3>1 DEF RegisterSharedObject, Added
    <2>4. CASE SetSpeedSettings
      BY <1>2, <2>4 DEF SetSpeedSettings
    <2>5. CASE Unregister \/ Unregistered
      BY <1>2, <2>5 DEF Unregister, Unregistered
    <2>6. CASE DeleteGlobalRef
      BY <1>2, <2>6 DEF DeleteGlobalRef, Deleted
    <2>7. CASE SetNull
      BY <1>2, <2>7 DEF SetNull
    <2>8. CASE StopMeasurement
      BY <1>2, <2>8 DEF StopMeasurement, refVars
    <2> QED
      BY <2>1, <2>2, <2>3, <2>4, <2>5, <2>6, <2>7, <2>8 DEF Control
  <1> QED
    BY <1>1, <1>3, <1>4

LEMMA MessageTypes ==
  ASSUME TypeInv, MessageInv, MessageInv', Message
  PROVE  TypeInv'
  <1> USE DEF TypeInv, TypeOK
  <1>1. UNCHANGED refVars /\ UNCHANGED sessionVars /\ UNCHANGED timerVars
    BY DEF Message, ReadRef, UseRef, Sent
  <1>2. BooleansOK'
    <2>1. crashed' \in BOOLEAN
      BY Zenon DEF Message, ReadRef, UseRef, Sent, BooleansOK
    <2>2. completed' \in BOOLEAN
      <3>1. completed' = TRUE \/ UNCHANGED completed
        BY Zenon DEF Message, ReadRef, UseRef, Sent, Told, appVars
      <3> QED
        BY <3>1, Zenon DEF BooleansOK
    <2> QED
      BY <1>1, <2>1, <2>2, Zenon DEF BooleansOK, refVars, sessionVars, timerVars
  <1>3. RefsOK'
    <2>1. ref' \in {Unread} \cup (0..(shares + 1))
      <3>1. CASE ReadRef
        <4>1. FieldOf(Head(todo)) \in Fields
          BY <3>1, FieldOfUse, HeadTailProperties DEF ReadRef, MessageInv
        <4> QED
          BY <3>1, <4>1 DEF ReadRef, RefsOK
      <3>2. CASE UseRef \/ Sent
        BY <3>2 DEF UseRef, Sent, RefsOK
      <3> QED
        BY <3>1, <3>2 DEF Message
    <2>2. \A k \in DOMAIN todo' : FieldOf(todo'[k]) \in Fields
      BY MessageFields DEF MessageInv
    <2> QED
      BY <1>1, <2>1, <2>2 DEF RefsOK, refVars
  <1>4. ThreadsOK' /\ PositionInv'
    BY <1>1 DEF Message, ReadRef, UseRef, Sent, ThreadsOK, PositionInv, MessageInv, Threads,
                refVars, sessionVars, timerVars
  <1> QED
    BY <1>2, <1>3, <1>4

\* What Send does to the threads and to the message
LEMMA SendThreads ==
  ASSUME NEW t, NEW c, Send(t, c)
  PROVE  /\ cmd = "none" /\ who' = t /\ cmd' = c /\ attached' = attached \cup {t}
         /\ UNCHANGED <<finished, errors, completed>>
  BY Zenon DEF Send, appVars

LEMMA MeasuringTypes ==
  ASSUME TypeInv, MessageInv, MessageInv', Measuring
  PROVE  TypeInv'
  <1> USE DEF TypeInv, TypeOK
  <1>1. UNCHANGED refVars /\ UNCHANGED <<ref, crashed>>
    BY SendKeeps DEF Measuring, StartMeasurement, Refuse, StartTestCase, CreateTimer, Join, Return,
                     TimerReport, TimerError, TimerFinish, TimerCompleted, TimerEnd, TimerSends,
                     messageVars
  <1>2. BooleansOK'
    <2>1. RUNNING' \in BOOLEAN
      BY Zenon DEF Measuring, StartMeasurement, Refuse, StartTestCase, CreateTimer, Join, Return,
                   TimerReport, TimerError, TimerFinish, TimerCompleted, TimerEnd, sessionVars,
                   BooleansOK
    <2>2. running' \in BOOLEAN
      BY Zenon DEF Measuring, StartMeasurement, Refuse, StartTestCase, CreateTimer, Join, Return,
                   TimerReport, TimerError, TimerFinish, TimerCompleted, TimerEnd, timerVars,
                   BooleansOK
    <2>3. failed' \in BOOLEAN
      BY Zenon DEF Measuring, StartMeasurement, Refuse, StartTestCase, CreateTimer, Join, Return,
                   TimerReport, TimerError, TimerFinish, TimerCompleted, TimerEnd, timerVars,
                   BooleansOK
    <2>4. completed' \in BOOLEAN
      <3>1. completed' = FALSE \/ UNCHANGED completed
        BY SendThreads, Zenon
           DEF Measuring, StartMeasurement, Refuse, StartTestCase, CreateTimer, Join, Return,
               TimerReport, TimerError, TimerFinish, TimerCompleted, TimerEnd, TimerSends,
               messageVars, appVars
      <3> QED
        BY <3>1, Zenon DEF BooleansOK
    <2> QED
      BY <1>1, <2>1, <2>2, <2>3, <2>4, Zenon DEF BooleansOK, refVars
  <1>3. RefsOK' /\ PositionInv'
    <2>1. \A k \in DOMAIN todo' : FieldOf(todo'[k]) \in Fields
      BY MessageFields DEF MessageInv
    <2> QED
      BY <1>1, <2>1 DEF RefsOK, PositionInv, refVars
  <1>4. ThreadsOK'
    <2> USE <1>1 DEF ThreadsOK, MessageInv, Threads
    <2>1. CASE StartMeasurement
      BY <2>1 DEF StartMeasurement
    <2>2. CASE Refuse
      BY <2>2, SendThreads DEF Refuse, timerVars
    <2>3. CASE StartTestCase
      <3>1. nTestCase' \in 0..Len(TestCases)
        BY <2>3 DEF StartTestCase, Left, Taken
      <3> QED
        BY <2>3, <3>1, SendThreads DEF StartTestCase, timerVars
    <2>4. CASE CreateTimer \/ Join \/ TimerEnd
      BY <2>4 DEF CreateTimer, Join, TimerEnd, MessageOver, messageVars, sessionVars
    <2>5. CASE Return
      BY <2>5 DEF Return, messageVars, timerVars
    <2>6. CASE TimerReport
      BY <2>6, SendThreads DEF TimerReport, TimerSends
    <2>7. CASE TimerError
      BY <2>7, SendThreads DEF TimerError, TimerSends
    <2>8. CASE TimerFinish
      BY <2>8, SendThreads DEF TimerFinish, TimerSends
    <2>9. CASE TimerCompleted
      BY <2>9, SendThreads DEF TimerCompleted, TimerSends
    <2> QED
      BY <2>1, <2>2, <2>3, <2>4, <2>5, <2>6, <2>7, <2>8, <2>9 DEF Measuring
  <1> QED
    BY <1>2, <1>3, <1>4

LEMMA StutterTypes == ASSUME TypeInv, UNCHANGED vars PROVE TypeInv'
  <1>1. BooleansOK'
    BY Zenon DEF TypeInv, TypeOK, BooleansOK, vars, refVars, sessionVars, timerVars, messageVars,
                 appVars
  <1>2. RefsOK' /\ ThreadsOK' /\ PositionInv'
    BY DEF TypeInv, TypeOK, RefsOK, ThreadsOK, PositionInv, vars, refVars, sessionVars, timerVars,
           messageVars
  <1> QED
    BY <1>1, <1>2 DEF TypeInv, TypeOK

LEMMA NextTypes == TypeInv /\ LiveInv /\ LiveInv' /\ [Next]_vars => TypeInv'
  BY ControlTypes, MessageTypes, MeasuringTypes, StutterTypes DEF Next, LiveInv

\* Every variable keeps its type; no field other than the eleven is read, no
\* index runs out of its list (android_connector.cpp:119-129, 179-242), and a
\* message of a timer thread is gone before the thread (callback.cpp:153-178)
THEOREM AndroidTypesKept == Spec => []TypeOK
  <1>1. TypeInv => TypeOK
    BY DEF TypeInv
  <1> QED
    BY <1>1, InitLive, NextLive, InitTypes, NextTypes, PTL DEF Spec

-----------------------------------------------------------------------------
(* What leaks *)

\* Nothing happens before the library is loaded
LoadedInv == javaVM \/ op = "none"

\* The fields a share has still to set are older than the share; a reference
\* whose field is about to be cleared has been deleted
ShareInv ==
  /\ \A f \in SharedObjects : held[f] <= shares
  /\ op = "share" => \A k \in 1..5 : k >= at => held[Registered[k]] < shares
  /\ op = "clear" => <<Released[at], held[Released[at]]>> \notin live

LeakInv == LoadedInv /\ ShareInv /\ LeaksOnlyByRepeatedShare

LEMMA RegisteredOnce == \A j, k \in 1..5 : Registered[j] = Registered[k] => j = k
  BY DEF Registered

LEMMA InitLeak == Init => LeakInv
  BY RegisteredFields DEF Init, LeakInv, LoadedInv, ShareInv, LeaksOnlyByRepeatedShare, Fields

LEMMA ControlLoaded == LoadedInv /\ Control => LoadedInv'
  <1> SUFFICES ASSUME LoadedInv, Control PROVE LoadedInv'
    OBVIOUS
  <1>1. CASE Load \/ SetSpeedSettings \/ Unregistered
    BY <1>1, Zenon DEF Load, SetSpeedSettings, Unregistered, LoadedInv
  <1>2. CASE Share \/ Unregister
    <2>1. javaVM /\ javaVM' = javaVM
      BY <1>2 DEF Share, Unregister
    <2> QED
      BY <2>1, Zenon DEF LoadedInv
  <1>3. CASE RegisterSharedObject \/ DeleteGlobalRef \/ SetNull
    <2>1. op # "none" /\ UNCHANGED javaVM
      BY <1>3 DEF RegisterSharedObject, DeleteGlobalRef, SetNull
    <2> QED
      BY <2>1, Zenon DEF LoadedInv
  <1>4. CASE StopMeasurement
    BY <1>4, Zenon DEF StopMeasurement, LoadedInv, refVars
  <1> QED
    BY <1>1, <1>2, <1>3, <1>4 DEF Control

LEMMA ControlLeak ==
  ASSUME TypeInv, TypeInv', LeakInv, Control
  PROVE  ShareInv' /\ LeaksOnlyByRepeatedShare'
  <1> USE RegisteredFields, ReleasedFields
      DEF TypeInv, TypeOK, RefsOK, PositionInv, LeakInv, ShareInv, LeaksOnlyByRepeatedShare
  <1>1. CASE Load
    <2>1. \A f \in Fields : held'[f] = IF f \in Classes THEN 1 ELSE held[f]
      BY <1>1 DEF Load
    <2>2. Classes \cap SharedObjects = {} /\ SharedObjects \subseteq Fields
      BY DEF Classes, SharedObjects, Fields
    <2>3. ShareInv'
      <3>1. op' = "none"
        BY <1>1 DEF Load, LoadedInv
      <3> QED
        BY <1>1, <2>1, <2>2, <3>1 DEF Load
    <2>4. LeaksOnlyByRepeatedShare'
      BY <1>1, <2>1 DEF Load
    <2> QED
      BY <2>3, <2>4
  <1>2. CASE Share
    BY <1>2 DEF Share, Fields
  <1>3. CASE RegisterSharedObject
    <2> DEFINE f == Registered[at]
    <2>1. at \in 1..5 /\ f \in SharedObjects /\ f \in Fields /\ op = "share" /\ op' = "share"
      BY <1>3 DEF RegisterSharedObject, Fields
    <2>2. held'[f] = shares /\ \A g \in Fields \ {f} : held'[g] = held[g]
      BY <1>3, <2>1 DEF RegisterSharedObject
    <2>3. live' = live \cup {<<f, shares>>} /\ shares' = shares /\ at' = at + 1
      BY <1>3 DEF RegisterSharedObject, Added
    <2>4. \A k \in 1..5 : k > at => Registered[k] \in Fields \ {f}
      BY <2>1, RegisteredOnce DEF Fields
    <2>5. held[f] < shares
      BY <2>1
    <2> HIDE DEF f
    <2>6. ShareInv'
      BY <2>1, <2>2, <2>3, <2>4 DEF Fields
    <2>7. LeaksOnlyByRepeatedShare'
      <3> SUFFICES ASSUME NEW g \in Fields, NEW n \in 1..(shares + 1), <<g, n>> \in live'
                   PROVE  n = held'[g] \/ (g \in SharedObjects /\ n < shares)
        BY <2>3
      <3>1. CASE g = f
        BY <2>1, <2>2, <2>3, <2>5, <3>1
      <3>2. CASE g # f
        BY <2>2, <2>3, <3>2
      <3> QED
        BY <3>1, <3>2
    <2> QED
      BY <2>6, <2>7
  <1>4. CASE SetSpeedSettings \/ Unregister \/ Unregistered
    <2>1. op' \in {"none", "delete"} /\ UNCHANGED <<held, live, shares>>
      BY <1>4 DEF SetSpeedSettings, Unregister, Unregistered
    <2>2. ShareInv'
      BY <2>1
    <2>3. LeaksOnlyByRepeatedShare'
      BY <2>1
    <2> QED
      BY <2>2, <2>3
  <1>5. CASE DeleteGlobalRef
    BY <1>5 DEF DeleteGlobalRef, Deleted
  <1>6. CASE SetNull
    <2> DEFINE f == Released[at]
    <2>1. f \in Fields /\ <<f, held[f]>> \notin live
      BY <1>6 DEF SetNull
    <2>2. held'[f] = 0 /\ \A g \in Fields \ {f} : held'[g] = held[g]
      BY <1>6, <2>1 DEF SetNull
    <2>3. live' = live /\ shares' = shares /\ op' = "delete"
      BY <1>6 DEF SetNull
    <2> HIDE DEF f
    <2>4. ShareInv'
      BY <2>2, <2>3 DEF Fields
    <2>5. LeaksOnlyByRepeatedShare'
      <3> SUFFICES ASSUME NEW g \in Fields, NEW n \in 1..(shares + 1), <<g, n>> \in live
                   PROVE  n = held'[g] \/ (g \in SharedObjects /\ n < shares)
        BY <2>3
      <3>1. CASE g = f
        BY <2>1, <3>1
      <3>2. CASE g # f
        BY <2>2, <3>2
      <3> QED
        BY <3>1, <3>2
    <2> QED
      BY <2>4, <2>5
  <1>7. CASE StopMeasurement
    BY <1>7 DEF StopMeasurement, refVars
  <1> QED
    BY <1>1, <1>2, <1>3, <1>4, <1>5, <1>6, <1>7 DEF Control

\* Messages and measurements leave the references alone
LEMMA OthersKeepRefs ==
  ASSUME Message \/ Measuring \/ UNCHANGED vars
  PROVE  UNCHANGED refVars
  BY DEF Message, ReadRef, UseRef, Sent, Measuring, StartMeasurement, Refuse, StartTestCase,
         CreateTimer, Join, Return, TimerReport, TimerError, TimerFinish, TimerCompleted,
         TimerEnd, vars

LEMMA NextLeak == TypeInv /\ TypeInv' /\ LeakInv /\ [Next]_vars => LeakInv'
  <1> SUFFICES ASSUME TypeInv, TypeInv', LeakInv, [Next]_vars PROVE LeakInv'
    OBVIOUS
  <1>1. CASE Control
    BY <1>1, ControlLeak, ControlLoaded DEF LeakInv
  <1>2. CASE Message \/ Measuring \/ UNCHANGED vars
    <2>1. UNCHANGED refVars
      BY <1>2, OthersKeepRefs
    <2> QED
      BY <2>1 DEF LeakInv, LoadedInv, ShareInv, LeaksOnlyByRepeatedShare, refVars
  <1> QED
    BY <1>1, <1>2 DEF Next

\* What registerSharedObject overwrites is all that leaks
\* (android_connector.cpp:119-129), and unregisterSharedObject forgets no field
\* that has been set (179-242): it may be called at any time between two shares
THEOREM OnlySharesLeak == Spec => []LeaksOnlyByRepeatedShare
  <1>1. LeakInv => LeaksOnlyByRepeatedShare
    BY DEF LeakInv
  <1> QED
    BY <1>1, InitLive, NextLive, InitTypes, NextTypes, InitLeak, NextLeak, PTL DEF Spec

-----------------------------------------------------------------------------
(* Which threads stay attached *)

\* The app's thread waits for its own messages, and no timer thread runs then
AppInv ==
  /\ cmd # "none" /\ who = "app" =>
       (mpc = "over" /\ cmd = "error") \/ (mpc = "started" /\ cmd = "started")
  /\ mpc \in {"refuse", "over"} => enabled = {}
  /\ running => mpc = "join"

\* A timer thread is attached by its first message; between two messages it is
\* attached unless the last one was one that detaches
TimerInv ==
  /\ last \in {"none", "report", "error", "finish", "completed"}
  /\ mpc # "join" => last = "none" /\ "timer" \notin attached
  /\ cmd # "none" /\ who = "timer" => "timer" \in attached
  /\ mpc = "join" /\ cmd = "none" => ("timer" \in attached <=> last \in {"report", "finish"})

AttachInv == AppInv /\ TimerInv /\ AppStaysAttached

LEMMA InitAttach == Init => AttachInv
  BY DEF Init, AttachInv, AppInv, TimerInv, AppStaysAttached

LEMMA ControlAttach ==
  ASSUME AttachInv, Control \/ UNCHANGED vars
  PROVE  AttachInv'
  <1>1. UNCHANGED <<timerVars, messageVars, mpc, enabled>>
    BY DEF Control, Load, Share, RegisterSharedObject, SetSpeedSettings, Unregister,
           DeleteGlobalRef, SetNull, Unregistered, StopMeasurement, sessionVars, vars
  <1> QED
    BY <1>1 DEF AttachInv, AppInv, TimerInv, AppStaysAttached, timerVars, messageVars

LEMMA MessageAttach ==
  ASSUME TypeInv, AttachInv, Message
  PROVE  AttachInv'
  <1> USE DEF AttachInv, AppInv, TimerInv, AppStaysAttached
  <1>1. CASE ReadRef \/ UseRef
    BY <1>1, ReadsKeep DEF sessionVars, timerVars
  <1>2. CASE Sent
    <2>1. who \in {"app", "timer"} /\ (who = "timer" => running /\ cmd = last)
      BY <1>2 DEF Sent, TypeInv, TypeOK, ThreadsOK, Threads
    <2>2. CASE who = "app"
      BY <1>2, <2>2 DEF Sent, Detaches, sessionVars, timerVars
    <2>3. CASE who = "timer"
      BY <1>2, <2>1, <2>3 DEF Sent, Detaches, sessionVars, timerVars
    <2> QED
      BY <2>1, <2>2, <2>3
  <1> QED
    BY <1>1, <1>2 DEF Message

LEMMA MeasuringAttach ==
  ASSUME TypeInv, AttachInv, Measuring
  PROVE  AttachInv'
  <1> USE DEF AttachInv, AppInv, TimerInv, AppStaysAttached
  <1>1. CASE StartMeasurement
    BY <1>1 DEF StartMeasurement
  <1>2. CASE Refuse
    BY <1>2, SendThreads DEF Refuse, timerVars
  <1>3. CASE StartTestCase
    BY <1>3, SendThreads DEF StartTestCase, timerVars
  <1>4. CASE CreateTimer
    BY <1>4 DEF CreateTimer, messageVars
  <1>5. CASE Join
    BY <1>5 DEF Join, TypeInv, TypeOK, ThreadsOK
  <1>6. CASE Return
    BY <1>6 DEF Return, messageVars, timerVars
  <1>7. CASE TimerReport
    BY <1>7, SendThreads DEF TimerReport, TimerSends
  <1>8. CASE TimerError
    BY <1>8, SendThreads DEF TimerError, TimerSends
  <1>9. CASE TimerFinish
    BY <1>9, SendThreads DEF TimerFinish, TimerSends
  <1>10. CASE TimerCompleted
    BY <1>10, SendThreads DEF TimerCompleted, TimerSends
  <1>11. CASE TimerEnd
    BY <1>11 DEF TimerEnd, messageVars, sessionVars
  <1> QED
    BY <1>1, <1>2, <1>3, <1>4, <1>5, <1>6, <1>7, <1>8, <1>9, <1>10, <1>11 DEF Measuring

LEMMA NextAttach == TypeInv /\ AttachInv /\ [Next]_vars => AttachInv'
  BY ControlAttach, MessageAttach, MeasuringAttach DEF Next

\* Only a refused measurement detaches the thread that called startMeasurement
\* (ias_client.cpp:284, callback.cpp:178), and the next one attaches it again
THEOREM AppsStayAttached == Spec => []AppStaysAttached
  <1>1. AttachInv => AppStaysAttached
    BY DEF AttachInv
  <1> QED
    BY <1>1, InitLive, NextLive, InitTypes, NextTypes, InitAttach, NextAttach, PTL DEF Spec

LEMMA OnlyTimersEnd == [Next]_vars /\ running /\ ~running' => TimerEnd
  BY DEF Next, Control, Load, Share, RegisterSharedObject, SetSpeedSettings, Unregister,
         DeleteGlobalRef, SetNull, Unregistered, StopMeasurement, Message, ReadRef, UseRef, Sent,
         Measuring, StartMeasurement, Refuse, StartTestCase, CreateTimer, Join, Return,
         TimerReport, TimerError, TimerFinish, TimerCompleted, timerVars, vars

\* A timer thread whose last message was a report or a finish ends without
\* detaching from the VM (callback.cpp:178); all others that have sent anything
\* are detached
THEOREM TimersEndAttached == Spec => EndsAttached
  <1>1. AttachInv /\ [Next]_vars =>
          [running /\ ~running' => ("timer" \in attached <=> last \in {"report", "finish"})]_vars
    <2> SUFFICES ASSUME AttachInv, [Next]_vars, running, ~running'
                 PROVE  "timer" \in attached <=> last \in {"report", "finish"}
      OBVIOUS
    <2> QED
      BY OnlyTimersEnd DEF TimerEnd, MessageOver, AttachInv, AppInv, TimerInv
  <1> QED
    BY <1>1, InitLive, NextLive, InitTypes, NextTypes, InitAttach, NextAttach, PTL
       DEF Spec, EndsAttached

-----------------------------------------------------------------------------
(* The connector implements MeasurementProtocol *)

\* Which test case the measurement is at
SessionInv ==
  /\ sessions \in Nat /\ (mpc # "idle" => sessions # 0 /\ enabled \in Plans)
  /\ mpc \in {"next", "started", "join"} => enabled # {}
  /\ mpc \in {"started", "join"} => sTestName = nTestCase
  /\ mpc \in {"started", "join"} => nTestCase \in Taken
  /\ mpc \in {"refuse", "over"} => nTestCase = 0

\* Test cases finish in their order: none is left behind unless the measurement
\* is about to end
FinishedInv ==
  /\ finished \subseteq Taken /\ \A k \in finished : k <= nTestCase
  /\ mpc # "idle" => \A k \in Taken : k < nTestCase => k \in finished
  /\ mpc = "started" => nTestCase \notin finished
  /\ mpc = "join" =>
       (nTestCase \in finished <=> (last = "finish" /\ cmd # "finish") \/ last = "completed")
  /\ mpc = "join" /\ ~running => nTestCase \in finished \/ failed \/ ~RUNNING
  /\ mpc = "join" /\ ~running => cmd = "none"
  /\ mpc = "next" /\ RUNNING /\ ~failed => nTestCase = 0 \/ nTestCase \in finished

\* The error of a measurement, once the app has been told
ErrorsInv ==
  /\ mpc \in {"started", "refuse", "over"} => ~failed
  /\ mpc \notin {"idle", "over"} /\ ~failed => errors = {}
  /\ cmd = "error" => errors = {}
  /\ last = "error" => failed

CompletedInv ==
  /\ completed => finished = Taken
  /\ last = "completed" => finished = Taken
  /\ completed /\ mpc = "join" => last = "completed" /\ cmd = "none"
  /\ completed => mpc \in {"join", "next", "idle"}
  /\ mpc = "join" /\ last = "completed" /\ cmd = "none" => completed
  /\ finished = Taken /\ (mpc = "next" \/ (mpc = "join" /\ ~running)) => completed

ProtocolInv == SessionInv /\ FinishedInv /\ ErrorsInv /\ CompletedInv

LEMMA InitProtocol == Init => ProtocolInv
  BY DEF Init, ProtocolInv, SessionInv, FinishedInv, ErrorsInv, CompletedInv

LEMMA TestCasesTaken == Taken \in SUBSET (1..4) /\ 1 \in Taken /\ DOMAIN TestCases = 1..4
  BY DEF Taken, TestCases

\* A measurement of the test case IP alone is one that is refused
LEMMA TakenOfPlan == ASSUME enabled \in Plans PROVE Taken = {1} <=> enabled = {}
  <1>1. TestCases[2] = "PING" /\ TestCases[3] = "DOWNLOAD" /\ TestCases[4] = "UPLOAD"
    BY DEF TestCases
  <1>2. enabled \subseteq {"PING", "DOWNLOAD", "UPLOAD"}
    BY AndroidAssumption
  <1>3. enabled = {} => Taken = {1}
    BY TestCasesTaken DEF Taken
  <1>4. ASSUME enabled # {} PROVE Taken # {1}
    <2>1. PICK test \in enabled : test \in {"PING", "DOWNLOAD", "UPLOAD"}
      BY <1>2, <1>4
    <2>2. PICK k \in 2..4 : TestCases[k] = test
      BY <1>1, <2>1
    <2>3. k \in Taken
      BY <2>1, <2>2, TestCasesTaken DEF Taken
    <2> QED
      BY <2>2, <2>3
  <1> QED
    BY <1>3, <1>4

\* Whatever the other thread of the app does, and before a message has been sent
LEMMA QuietSteps ==
  ASSUME Control \/ ReadRef \/ UseRef \/ UNCHANGED vars
  PROVE  /\ UNCHANGED <<mpc, sessions, enabled, nTestCase, sTestName, running, last, failed,
                        who, cmd, finished, errors, completed>>
         /\ RUNNING' => RUNNING
  <1>1. CASE Control
    <2>1. UNCHANGED <<timerVars, messageVars, mpc, sessions, enabled, nTestCase, sTestName>>
      BY <1>1 DEF Control, Load, Share, RegisterSharedObject, SetSpeedSettings, Unregister,
             DeleteGlobalRef, SetNull, Unregistered, StopMeasurement, sessionVars
    <2>2. RUNNING' => RUNNING
      BY <1>1 DEF Control, Load, Share, RegisterSharedObject, SetSpeedSettings, Unregister,
             DeleteGlobalRef, SetNull, Unregistered, StopMeasurement, sessionVars
    <2> QED
      BY <2>1, <2>2 DEF timerVars, messageVars, appVars
  <1>2. CASE ReadRef \/ UseRef
    BY <1>2, ReadsKeep DEF sessionVars, timerVars, appVars
  <1>3. CASE UNCHANGED vars
    BY <1>3 DEF vars, sessionVars, timerVars, messageVars, appVars
  <1> QED
    BY <1>1, <1>2, <1>3

LEMMA QuietProtocol ==
  ASSUME ProtocolInv, Control \/ ReadRef \/ UseRef \/ UNCHANGED vars
  PROVE  ProtocolInv' /\ UNCHANGED Protocol!pvars
  <1>1. UNCHANGED Taken
    BY QuietSteps DEF Taken
  <1>2. SessionInv' /\ ErrorsInv' /\ CompletedInv'
    BY <1>1, QuietSteps DEF ProtocolInv, SessionInv, ErrorsInv, CompletedInv
  <1>3. FinishedInv'
    BY <1>1, QuietSteps DEF ProtocolInv, FinishedInv
  <1>4. UNCHANGED Protocol!pvars
    BY <1>1, QuietSteps DEF Protocol!pvars
  <1> QED
    BY <1>2, <1>3, <1>4 DEF ProtocolInv

\* A finish message is that of the test case all others have finished before
LEMMA FinishTold ==
  ASSUME TypeInv, AttachInv, ProtocolInv, Sent, cmd = "finish"
  PROVE  ProtocolInv' /\ Protocol!Next
  <1>1. /\ who = "timer" /\ running /\ mpc = "join" /\ last = "finish"
        /\ nTestCase \in Taken \ finished /\ sTestName = nTestCase /\ ~completed
    BY DEF Sent, TypeInv, TypeOK, ThreadsOK, Threads, AttachInv, AppInv, ProtocolInv, SessionInv,
           FinishedInv, CompletedInv
  <1>2. /\ UNCHANGED <<mpc, sessions, enabled, nTestCase, sTestName, RUNNING, running, last,
                       failed, errors, completed>>
        /\ finished' = finished \cup {sTestName} /\ cmd' = "none"
    BY DEF Sent, Told, sessionVars, timerVars
  <1>3. UNCHANGED Taken
    BY <1>2 DEF Taken
  <1>4. ProtocolInv'
    <2>1. SessionInv' /\ ErrorsInv'
      BY <1>1, <1>2, <1>3 DEF ProtocolInv, SessionInv, ErrorsInv
    <2>2. FinishedInv'
      BY <1>1, <1>2, <1>3, TestCasesTaken DEF ProtocolInv, FinishedInv
    <2>3. CompletedInv'
      BY <1>1, <1>2, <1>3 DEF ProtocolInv, CompletedInv
    <2> QED
      BY <2>1, <2>2, <2>3 DEF ProtocolInv
  <1>5. Protocol!Finish
    <2>1. completed' = FALSE
      BY <1>1, <1>2, Zenon DEF TypeInv, TypeOK, BooleansOK
    <2>2. mpc \in {"started", "join"} /\ sTestName \notin finished
      BY <1>1
    <2> QED
      BY <1>2, <1>3, <2>1, <2>2, Zenon DEF Protocol!Finish
  <1> QED
    BY <1>4, <1>5 DEF Protocol!Next

\* An error message is the first of the measurement: of the test case that is
\* being measured, or the refusal of a measurement of none
LEMMA ErrorTold ==
  ASSUME TypeInv, AttachInv, ProtocolInv, Sent, cmd = "error"
  PROVE  ProtocolInv' /\ Protocol!Next
  <1>1. errors = {} /\ errors' = {<<sTestName, 1>>}
    <2>1. errors = {}
      BY DEF ProtocolInv, ErrorsInv
    <2>2. Cardinality(errors) = 0
      BY <2>1, FS_EmptySet
    <2> QED
      BY <2>1, <2>2 DEF Sent, Told
  <1>2. /\ UNCHANGED <<mpc, sessions, enabled, nTestCase, sTestName, RUNNING, running, last,
                       failed, finished, completed>>
        /\ cmd' = "none"
    BY DEF Sent, Told, sessionVars, timerVars
  <1>3. UNCHANGED Taken
    BY <1>2 DEF Taken
  <1>4. \/ who = "timer" /\ running /\ mpc = "join" /\ last = "error" /\ failed
        \/ who = "app" /\ mpc = "over" /\ enabled = {}
    <2>1. who \in {"timer", "app"}
      BY DEF TypeInv, TypeOK, ThreadsOK, Threads
    <2>2. CASE who = "timer"
      <3>1. running /\ last = "error"
        BY <2>2 DEF TypeInv, TypeOK, ThreadsOK
      <3>2. mpc = "join" /\ failed
        BY <3>1 DEF AttachInv, AppInv, ProtocolInv, ErrorsInv
      <3> QED
        BY <2>2, <3>1, <3>2
    <2>3. CASE who = "app"
      BY <2>3 DEF AttachInv, AppInv
    <2> QED
      BY <2>1, <2>2, <2>3
  <1>5. ProtocolInv'
    <2>1. SessionInv' /\ CompletedInv'
      BY <1>2, <1>3, <1>4 DEF ProtocolInv, SessionInv, CompletedInv
    <2>2. FinishedInv'
      BY <1>2, <1>3, <1>4 DEF ProtocolInv, FinishedInv
    <2>3. ErrorsInv'
      BY <1>1, <1>2, <1>4 DEF ProtocolInv, ErrorsInv
    <2> QED
      BY <2>1, <2>2, <2>3 DEF ProtocolInv
  <1>6. CASE who = "timer"
    <2>1. mpc \in {"started", "join"} /\ sTestName \notin finished
      BY <1>4, <1>6 DEF ProtocolInv, SessionInv, FinishedInv
    <2>2. Protocol!Fail(1)
      BY <1>1, <1>2, <1>3, <2>1 DEF Protocol!Fail
    <2> QED
      BY <1>5, <2>2 DEF Protocol!Next
  <1>7. CASE who = "app"
    <2>1. mpc = "over" /\ sessions # 0 /\ Taken = {1}
      BY <1>4, <1>7, TakenOfPlan DEF ProtocolInv, SessionInv
    <2>2. Protocol!Refuse(1)
      BY <1>1, <1>2, <1>3, <2>1 DEF Protocol!Refuse
    <2> QED
      BY <1>5, <2>2 DEF Protocol!Next
  <1> QED
    BY <1>4, <1>6, <1>7

\* The completed message comes when every test case has finished
LEMMA CompletedTold ==
  ASSUME TypeInv, AttachInv, ProtocolInv, Sent, cmd = "completed"
  PROVE  ProtocolInv' /\ Protocol!Next
  <1>1. /\ who = "timer" /\ running /\ mpc = "join" /\ last = "completed"
        /\ finished = Taken /\ ~completed /\ sessions # 0
    BY DEF Sent, TypeInv, TypeOK, ThreadsOK, Threads, AttachInv, AppInv, ProtocolInv, SessionInv,
           CompletedInv
  <1>2. /\ UNCHANGED <<mpc, sessions, enabled, nTestCase, sTestName, RUNNING, running, last,
                       failed, finished, errors>>
        /\ completed' = TRUE /\ cmd' = "none"
    BY DEF Sent, Told, sessionVars, timerVars
  <1>3. UNCHANGED Taken
    BY <1>2 DEF Taken
  <1>4. ProtocolInv'
    <2>1. SessionInv' /\ ErrorsInv' /\ CompletedInv'
      BY <1>1, <1>2, <1>3 DEF ProtocolInv, SessionInv, ErrorsInv, CompletedInv
    <2>2. FinishedInv'
      BY <1>1, <1>2, <1>3 DEF ProtocolInv, FinishedInv
    <2> QED
      BY <2>1, <2>2 DEF ProtocolInv
  <1>5. Protocol!Complete
    BY <1>1, <1>2, <1>3 DEF Protocol!Complete
  <1> QED
    BY <1>4, <1>5 DEF Protocol!Next

LEMMA OtherTold ==
  ASSUME TypeInv, AttachInv, ProtocolInv, Sent, cmd \notin {"finish", "error", "completed"}
  PROVE  ProtocolInv' /\ UNCHANGED Protocol!pvars
  <1>1. /\ UNCHANGED <<mpc, sessions, enabled, nTestCase, sTestName, RUNNING, running, last,
                       failed, finished, errors, completed>>
        /\ cmd' = "none"
    BY DEF Sent, Told, sessionVars, timerVars
  <1>2. UNCHANGED Taken
    BY <1>1 DEF Taken
  <1>3. mpc # "join" \/ last # "completed"
    BY DEF Sent, TypeInv, TypeOK, ThreadsOK, Threads, AttachInv, AppInv
  <1>4. SessionInv' /\ ErrorsInv' /\ CompletedInv'
    BY <1>1, <1>2, <1>3 DEF ProtocolInv, SessionInv, ErrorsInv, CompletedInv
  <1>5. FinishedInv'
    BY <1>1, <1>2 DEF ProtocolInv, FinishedInv
  <1> QED
    BY <1>1, <1>2, <1>4, <1>5 DEF ProtocolInv, Protocol!pvars

\* The steps of a measurement send messages, and tell the app nothing yet
LEMMA MeasuringProtocol ==
  ASSUME TypeInv, AttachInv, ProtocolInv, Measuring
  PROVE  ProtocolInv' /\ (Protocol!Next \/ UNCHANGED Protocol!pvars)
  <1> USE DEF ProtocolInv, SessionInv, FinishedInv, ErrorsInv, CompletedInv
  <1>a. nTestCase \in 0..4 /\ Taken \in SUBSET (1..4) /\ DOMAIN TestCases = 1..4
    BY TestCasesTaken DEF TypeInv, TypeOK, ThreadsOK, TestCases
  <1>b. ASSUME UNCHANGED enabled PROVE UNCHANGED Taken
    BY <1>b DEF Taken
  <1>1. CASE StartMeasurement
    <2>1. /\ mpc = "idle" /\ mpc' \in {"refuse", "next"} /\ sessions' = sessions + 1
          /\ nTestCase' = 0 /\ ~failed' /\ UNCHANGED <<running, last, who, cmd>>
          /\ finished' = {} /\ errors' = {} /\ completed' = FALSE /\ last = "none"
          /\ UNCHANGED sTestName
      BY <1>1 DEF StartMeasurement, AttachInv, TimerInv
    <2>a. enabled' \in Plans /\ (mpc' = "next" => enabled' # {})
      BY <1>1 DEF StartMeasurement
    <2>2. Taken' \in SUBSET (1..4) /\ 1 \in Taken'
      BY DEF Taken, TestCases
    <2>3. SessionInv' /\ ErrorsInv'
      BY <2>1, <2>a
    <2>4. FinishedInv'
      BY <2>1, <2>2
    <2>5. CompletedInv'
      BY <2>1, <2>2
    <2>6. Protocol!Begin
      BY <1>a, <2>1, <2>2 DEF Protocol!Begin
    <2> QED
      BY <2>3, <2>4, <2>5, <2>6 DEF Protocol!Next
  <1>2. CASE Refuse
    <2>1. /\ mpc = "refuse" /\ mpc' = "over" /\ cmd' = "error"
          /\ UNCHANGED <<sessions, enabled, nTestCase, sTestName, RUNNING, running, last, failed>>
          /\ UNCHANGED <<finished, errors, completed>>
      BY <1>2, SendThreads DEF Refuse, timerVars
    <2>2. ProtocolInv'
      BY <1>b, <2>1
    <2> QED
      BY <1>b, <2>1, <2>2 DEF Protocol!pvars
  <1>3. CASE StartTestCase
    <2>1. /\ mpc = "next" /\ mpc' = "started" /\ cmd' = "started" /\ RUNNING /\ ~failed
          /\ sTestName' = nTestCase' /\ nTestCase' \in Left /\ \A l \in Left : nTestCase' <= l
          /\ UNCHANGED <<sessions, enabled, RUNNING, running, last, failed>>
          /\ UNCHANGED <<finished, errors, completed>>
      BY <1>3, SendThreads DEF StartTestCase, timerVars
    <2>2. UNCHANGED Taken
      BY <1>b, <2>1
    <2>3. /\ nTestCase' \in Taken /\ nTestCase' > nTestCase /\ nTestCase' \in 1..4
          /\ \A k \in Taken : k < nTestCase' => k <= nTestCase
      BY <1>a, <2>1 DEF Left
    <2>4. nTestCase' \notin finished /\ ~completed
      BY <1>a, <2>3
    <2>5. SessionInv' /\ ErrorsInv' /\ CompletedInv'
      BY <2>1, <2>2, <2>3, <2>4
    <2>6. FinishedInv'
      BY <1>a, <2>1, <2>2, <2>3, <2>4
    <2>7. \A u \in Taken : u < nTestCase' => u \in finished
      BY <1>a, <2>1, <2>3
    <2>8. Taken # {1} /\ sessions # 0
      BY <2>1, TakenOfPlan
    <2>9. Protocol!Start(nTestCase')
      BY <2>1, <2>2, <2>3, <2>4, <2>7, <2>8 DEF Protocol!Start
    <2> QED
      BY <1>a, <2>3, <2>5, <2>6, <2>9 DEF Protocol!Next
  <1>4. CASE CreateTimer
    <2>1. /\ mpc = "started" /\ mpc' = "join" /\ cmd = "none" /\ running'
          /\ UNCHANGED <<sessions, enabled, nTestCase, sTestName, RUNNING, last, failed, cmd>>
          /\ UNCHANGED <<finished, errors, completed>> /\ last = "none"
      BY <1>4 DEF CreateTimer, messageVars, appVars, AttachInv, TimerInv
    <2> QED
      BY <1>b, <2>1 DEF Protocol!pvars
  <1>5. CASE Join
    <2>1. /\ mpc = "join" /\ mpc' = "next" /\ ~running /\ last' = "none"
          /\ UNCHANGED <<sessions, enabled, nTestCase, sTestName, RUNNING, running, failed, cmd>>
          /\ UNCHANGED <<finished, errors, completed>>
      BY <1>5 DEF Join, appVars
    <2>2. ProtocolInv'
      BY <1>b, <2>1
    <2>3. Protocol!Leave
      BY <1>b, <2>1 DEF Protocol!Leave
    <2> QED
      BY <2>2, <2>3 DEF Protocol!Next
  <1>6. CASE Return
    <2>1. /\ mpc # "idle" /\ mpc' = "idle"
          /\ UNCHANGED <<sessions, enabled, nTestCase, sTestName, running, last, failed, cmd>>
          /\ UNCHANGED <<finished, errors, completed>>
      BY <1>6 DEF Return, messageVars, timerVars, appVars
    <2>2. ProtocolInv'
      BY <1>b, <2>1
    <2>3. mpc = "next" \/ (mpc = "over" /\ nTestCase = 0)
      BY <1>6 DEF Return
    <2>4. finished = Taken => completed
      <3>1. CASE mpc = "next"
        BY <3>1
      <3>2. CASE mpc = "over" /\ nTestCase = 0
        <4>1. 1 \in Taken /\ 1 \notin finished
          BY <3>2, TestCasesTaken
        <4> QED
          BY <4>1
      <3> QED
        BY <2>3, <3>1, <3>2
    <2>5. mpc \notin {"started", "join"}
      BY <2>3
    <2>6. Protocol!End
      BY <1>b, <2>1, <2>4, <2>5 DEF Protocol!End
    <2> QED
      BY <2>2, <2>6 DEF Protocol!Next
  <1>7. CASE TimerReport
    <2>1. /\ running /\ cmd = "none" /\ cmd' = "report" /\ last' = "report"
          /\ last \notin {"finish", "completed"}
          /\ UNCHANGED <<mpc, sessions, enabled, nTestCase, sTestName, RUNNING, running, failed>>
          /\ UNCHANGED <<finished, errors, completed>>
      BY <1>7, SendThreads DEF TimerReport, TimerSends
    <2> QED
      BY <1>b, <2>1 DEF Protocol!pvars, AttachInv, AppInv
  <1>8. CASE TimerError
    <2>1. /\ running /\ cmd = "none" /\ cmd' = "error" /\ last' = "error" /\ ~failed /\ failed'
          /\ last \notin {"finish", "completed"}
          /\ UNCHANGED <<mpc, sessions, enabled, nTestCase, sTestName, RUNNING, running>>
          /\ UNCHANGED <<finished, errors, completed>>
      BY <1>8, SendThreads DEF TimerError, TimerSends
    <2> QED
      BY <1>b, <2>1 DEF Protocol!pvars, AttachInv, AppInv
  <1>9. CASE TimerFinish
    <2>1. /\ running /\ cmd = "none" /\ cmd' = "finish" /\ last' = "finish"
          /\ last \notin {"finish", "completed"}
          /\ UNCHANGED <<mpc, sessions, enabled, nTestCase, sTestName, RUNNING, running, failed>>
          /\ UNCHANGED <<finished, errors, completed>>
      BY <1>9, SendThreads DEF TimerFinish, TimerSends
    <2> QED
      BY <1>b, <2>1 DEF Protocol!pvars, AttachInv, AppInv
  <1>10. CASE TimerCompleted
    <2>1. /\ running /\ cmd = "none" /\ cmd' = "completed" /\ last' = "completed"
          /\ last = "finish" /\ Left = {} /\ mpc = "join"
          /\ UNCHANGED <<mpc, sessions, enabled, nTestCase, sTestName, RUNNING, running, failed>>
          /\ UNCHANGED <<finished, errors, completed>>
      BY <1>10, SendThreads DEF TimerCompleted, TimerSends, AttachInv, AppInv
    <2>2. \A k \in Taken : k <= nTestCase
      BY <1>a, <2>1 DEF Left
    <2>3. nTestCase \in finished
      BY <2>1, Zenon
    <2>4. \A k \in Taken : k < nTestCase => k \in finished
      BY <2>1
    <2>5. \A k \in Taken : k < nTestCase \/ k = nTestCase
      BY <1>a, <2>2
    <2>6. finished = Taken
      BY <2>3, <2>4, <2>5
    <2> QED
      BY <1>b, <2>1, <2>6 DEF Protocol!pvars
  <1>11. CASE TimerEnd
    <2>1. /\ running /\ ~running' /\ cmd = "none" /\ mpc = "join"
          /\ last \in {"finish", "completed"} \/ failed \/ ~RUNNING
          /\ UNCHANGED <<mpc, sessions, enabled, nTestCase, sTestName, RUNNING, last, failed, cmd>>
          /\ UNCHANGED <<finished, errors, completed>>
      BY <1>11 DEF TimerEnd, MessageOver, messageVars, appVars, sessionVars, AttachInv, AppInv
    <2>2. finished = Taken => completed
      <3>1. CASE last = "completed"
        BY <2>1, <3>1
      <3>2. CASE last # "completed" /\ (last = "finish" => Left # {})
        <4>1. CASE last = "finish"
          <5>1. PICK k \in Left : TRUE
            BY <3>2, <4>1
          <5> QED
            BY <1>a, <5>1 DEF Left
        <4>2. CASE last # "finish"
          <5>1. nTestCase \in Taken \ finished
            BY <2>1, <3>2, <4>2
          <5> QED
            BY <5>1
        <4> QED
          BY <4>1, <4>2
      <3> QED
        BY <1>11, <3>1, <3>2 DEF TimerEnd
    <2>3. UNCHANGED Taken
      BY <1>b, <2>1
    <2>4. SessionInv' /\ ErrorsInv' /\ CompletedInv'
      BY <2>1, <2>2, <2>3
    <2>5. FinishedInv'
      BY <2>1, <2>3
    <2> QED
      BY <2>1, <2>3, <2>4, <2>5 DEF Protocol!pvars
  <1> QED
    BY <1>1, <1>2, <1>3, <1>4, <1>5, <1>6, <1>7, <1>8, <1>9, <1>10, <1>11, Zenon DEF Measuring

LEMMA NextProtocol ==
  ASSUME TypeInv, AttachInv, ProtocolInv, [Next]_vars
  PROVE  ProtocolInv' /\ [Protocol!Next]_(Protocol!pvars)
  <1>1. CASE Control \/ ReadRef \/ UseRef \/ UNCHANGED vars
    BY <1>1, QuietProtocol
  <1>2. CASE Sent
    BY <1>2, FinishTold, ErrorTold, CompletedTold, OtherTold
  <1>3. CASE Measuring
    BY <1>3, MeasuringProtocol
  <1> QED
    BY <1>1, <1>2, <1>3 DEF Next, Message

\* What the app is told through the connector follows MeasurementProtocol: a
\* message of the timer thread is over before the thread is, and so before the
\* next test case and before startMeasurement returns (android_connector.cpp:
\* 244-448, callback.cpp:170-182).  An error is of the test case that is measured,
\* or refuses the measurement under the name of the last test case of an earlier
\* one, or none (callback.cpp:117)
THEOREM AndroidImplements == Spec => FollowsProtocol
  <1>1. Init => Protocol!Init
    BY DEF Init, Protocol!Init
  <1>2. TypeInv /\ AttachInv /\ ProtocolInv /\ [Next]_vars
          => ProtocolInv' /\ [Protocol!Next]_(Protocol!pvars)
    BY NextProtocol
  <1> QED
    BY <1>1, <1>2, InitLive, NextLive, InitTypes, NextTypes, InitAttach, NextAttach, InitProtocol,
       PTL DEF Spec, FollowsProtocol, Protocol!Spec
=============================================================================
