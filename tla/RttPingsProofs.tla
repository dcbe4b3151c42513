--------------------------- MODULE RttPingsProofs ---------------------------
(***************************************************************************)
(* What RttPings promises, for every number of pings and copies.           *)
(***************************************************************************)
EXTENDS RttPings, FiniteSetTheorems, TLAPS

\* The first ping is over when one has been answered or given up
FirstInv ==
  /\ pc \in {"loop", "wait"} => (firstResponse <=> i = 1)
  /\ pc \in {"save", "stamp", "sleep"} => ~firstResponse
  /\ pc \in {"save", "stamp"} => i > 1

\* Of the pings that count, those that have been counted
CountedAt(phase, k) ==
  IF phase \in {"save", "stamp", "sleep"} THEN k - 1 ELSE IF k = 1 THEN 0 ELSE k - 2
Counted == CountedAt(pc, i)

\* Each ping is counted once
CountInv ==
  /\ n \in [Counters -> Nat] /\ Total(n) = Counted
  /\ pc \in {"wait", "save", "stamp", "sleep"} => i <= mPingQuery
  /\ pc = "ended" /\ RUNNING => i = mPingQuery + 1

\* There is a round trip for every reply, but for the one being stored
Unsaved == IF pc = "save" THEN 1 ELSE 0

ResultInv ==
  /\ pc = "save" => answer = i
  /\ TimedByOwnAnswer
  /\ DOMAIN results \subseteq 2..(IF pc \in {"stamp", "sleep"} THEN i ELSE i - 1)
  /\ Cardinality(DOMAIN results) = n["replies"] - Unsaved
  /\ results_timestamp \subseteq DOMAIN results
  /\ pc = "stamp" => i \in DOMAIN results

\* A ping takes a second and a half at most
ElapsedInv ==
  elapsed <= 3 * (i - 1) + (IF pc \in {"save", "stamp"} THEN 1 ELSE IF pc = "sleep" THEN 2 ELSE 0)

\* What the handler has copied is part of what the counters say
HandlerInv ==
  handler = "reading" =>
    /\ start \in [Counters -> Nat] /\ \A c \in Counters : start[c] <= n[c]
    /\ DOMAIN copy \subseteq 2..mPingQuery /\ \A p \in DOMAIN copy : copy[p] = p
    /\ Cardinality(DOMAIN copy) <= start["replies"]

\* The last report is made when nothing is left to count
FinishInv ==
  finishing =>
    /\ Total(n) = PING_QUERY
    /\ handler = "reading" => start = n /\ Cardinality(DOMAIN copy) = n["replies"]

Types ==
  /\ BooleansOK
  /\ pc \in {"loop", "wait", "save", "stamp", "sleep", "ended"}
  /\ i \in 1..(mPingQuery + 1) /\ elapsed \in Nat
  /\ handler \in {"idle", "reading"}
  /\ handler = "idle" => start = Zeros

IInv == /\ Types /\ FirstInv /\ CountInv /\ ResultInv /\ ElapsedInv
        /\ HandlerInv /\ FinishInv
-----------------------------------------------------------------------------
(* Arithmetic *)

\* The time the code computes is enough for all but the last ping's sleep
LEMMA DurationSuffices == mPingQuery \in Nat /\ mPingQuery >= 2 /\ Duration >= 3 * mPingQuery - 1
  <1> DEFINE d == (mPingQuery * 33) \div 20
  <1>1. mPingQuery \in Nat /\ mPingQuery >= 2
    BY PingAssumption DEF mPingQuery
  <1>2. d \in Nat /\ 20 * d <= 33 * mPingQuery /\ 33 * mPingQuery < 20 * d + 20
    BY <1>1
  <1> HIDE DEF d
  <1>3. 2 * d >= 3 * mPingQuery - 1
    BY <1>1, <1>2
  <1> QED
    BY <1>1, <1>3 DEF Duration, d

\* At that time every ping is counted, and the round trip of each reply stored
LEMMA StoppedCounts ==
  ASSUME Types, CountInv, ElapsedInv, RUNNING, TimerStopped
  PROVE  Total(n) = PING_QUERY /\ pc # "save"
  <1>1. CASE pc = "ended"
    BY <1>1, PingAssumption DEF CountInv, Counted, CountedAt, mPingQuery
  <1>2. CASE pc # "ended"
    <2>1. elapsed >= 3 * mPingQuery - 1
      BY <1>2, DurationSuffices, PingAssumption DEF TimerStopped, Types, Duration
    <2> QED
      BY <1>2, <2>1, DurationSuffices, PingAssumption
      DEF Types, CountInv, Counted, CountedAt, ElapsedInv, mPingQuery
  <1> QED
    BY <1>1, <1>2

LEMMA FiniteResults ==
  ASSUME Types, ResultInv
  PROVE  IsFiniteSet(DOMAIN results) /\ Cardinality(DOMAIN results) \in Nat
  <1>1. IsFiniteSet(2..i)
    BY FS_Interval DEF Types
  <1>2. DOMAIN results \in SUBSET (2..i)
    BY DEF Types, ResultInv
  <1> QED
    BY <1>1, <1>2, FS_Subset, FS_CardinalityType

\* Counting one more
LEMMA CountOne ==
  ASSUME n \in [Counters -> Nat], NEW c \in Counters, Count(c)
  PROVE  /\ n' \in [Counters -> Nat] /\ Total(n') = Total(n) + 1
         /\ n'[c] = n[c] + 1 /\ \A k \in Counters : k # c => n'[k] = n[k]
  <1>1. n' \in [Counters -> Nat] /\ n'[c] = n[c] + 1 /\ \A k \in Counters : k # c => n'[k] = n[k]
    BY DEF Count
  <1> QED
    BY <1>1 DEF Total, Counters

-----------------------------------------------------------------------------
(* The worker *)

WorkerInv == FirstInv /\ CountInv /\ ResultInv /\ ElapsedInv

\* A step of the worker counts one ping or none, and none twice
LEMMA WorkerStep ==
  ASSUME Types, WorkerInv, Worker
  PROVE  /\ Types' /\ WorkerInv'
         /\ n' = n \/ (Total(n') = Total(n) + 1 /\ \A c \in Counters : n[c] <= n'[c])
  <1> USE DurationSuffices DEF Types, WorkerInv, Goto
  <1>1. CASE Send
    <2>1. Types' /\ n' = n
      BY <1>1 DEF Send, BooleansOK, handlerVars
    <2>2. FirstInv' /\ CountInv' /\ ElapsedInv'
      BY <1>1 DEF Send, FirstInv, CountInv, ElapsedInv, Counted, CountedAt, Total
    <2>3. ResultInv'
      BY <1>1 DEF Send, ResultInv, TimedByOwnAnswer, Unsaved
    <2> QED
      BY <2>1, <2>2, <2>3
  <1>2. CASE Finish
    <2>1. Types' /\ n' = n
      BY <1>2 DEF Finish, BooleansOK, handlerVars
    <2>2. FirstInv' /\ CountInv' /\ ElapsedInv'
      BY <1>2 DEF Finish, FirstInv, CountInv, ElapsedInv, Counted, CountedAt, Total
    <2>3. ResultInv'
      BY <1>2 DEF Finish, ResultInv, TimedByOwnAnswer, Unsaved
    <2> QED
      BY <2>1, <2>2, <2>3
  <1>3. CASE Receive
    <2>1. Types'
      <3>1. /\ pc' \in {"sleep", "save"} /\ firstResponse' = FALSE /\ elapsed' \in Nat
            /\ UNCHANGED <<i, handler, finishing, start, RUNNING>>
        BY <1>3 DEF Receive, handlerVars
      <3> QED
        BY <3>1 DEF BooleansOK
    <2>2. CASE ~Counts /\ pc' = "sleep" /\ UNCHANGED <<n, answer>>
      <3>1. FirstInv' /\ CountInv' /\ ElapsedInv'
        BY <1>3, <2>2 DEF Receive, Counts, FirstInv, CountInv, ElapsedInv, Counted, CountedAt, Total
      <3>2. ResultInv'
        BY <1>3, <2>2 DEF Receive, ResultInv, TimedByOwnAnswer, Unsaved
      <3> QED
        BY <2>1, <2>2, <3>1, <3>2
    <2>3. ASSUME NEW c \in {"errors", "replies"}, Counts, Count(c),
                 pc' = (IF c = "errors" THEN "sleep" ELSE "save"),
                 c = "replies" => answer' = i
          PROVE  WorkerInv' /\ Total(n') = Total(n) + 1 /\ \A k \in Counters : n[k] <= n'[k]
      <3>1. /\ n' \in [Counters -> Nat] /\ Total(n') = Total(n) + 1
            /\ n'[c] = n[c] + 1 /\ \A k \in Counters : k # c => n'[k] = n[k]
        BY <2>3, CountOne DEF Counters, CountInv
      <3>2. \A k \in Counters : n[k] <= n'[k]
        BY <3>1 DEF CountInv
      <3>3. n'["replies"] = n["replies"] + Unsaved'
        BY <2>3, <3>1 DEF Unsaved, Counters, CountInv
      <3>4. FirstInv' /\ ElapsedInv'
        BY <1>3, <2>3 DEF Receive, Counts, FirstInv, ElapsedInv
      <3>5. CountInv'
        BY <1>3, <2>3, <3>1 DEF Receive, Counts, FirstInv, CountInv, Counted, CountedAt
      <3>6. ResultInv'
        BY <1>3, <2>3, <3>3, FiniteResults
        DEF Receive, ResultInv, TimedByOwnAnswer, Unsaved, CountInv, Counters
      <3> QED
        BY <3>1, <3>2, <3>4, <3>5, <3>6
    <2>4. \/ ~Counts /\ pc' = "sleep" /\ UNCHANGED <<n, answer>>
          \/ Counts /\ Count("errors") /\ pc' = "sleep"
          \/ Counts /\ Count("replies") /\ pc' = "save" /\ answer' = i
      BY <1>3 DEF Receive, MirroredPayload
    <2> QED
      BY <2>1, <2>2, <2>3, <2>4
  <1>4. CASE Timeout
    <2>1. Types'
      <3>1. /\ pc' \in {"sleep", "save"} /\ firstResponse' = FALSE /\ elapsed' \in Nat
            /\ UNCHANGED <<i, handler, finishing, start, RUNNING>>
        BY <1>4 DEF Timeout, handlerVars
      <3> QED
        BY <3>1 DEF BooleansOK
    <2>2. FirstInv' /\ ElapsedInv'
      BY <1>4 DEF Timeout, FirstInv, ElapsedInv
    <2>3. CASE Counts
      <3>1. Count("missing")
        BY <1>4, <2>3 DEF Timeout
      <3>2. /\ n' \in [Counters -> Nat] /\ Total(n') = Total(n) + 1
            /\ n'["missing"] = n["missing"] + 1
            /\ \A k \in Counters : k # "missing" => n'[k] = n[k]
        BY <3>1, CountOne DEF Counters, CountInv
      <3>3. \A k \in Counters : n[k] <= n'[k]
        BY <3>2 DEF CountInv
      <3>4. CountInv'
        BY <1>4, <2>3, <3>2 DEF Timeout, Counts, FirstInv, CountInv, Counted, CountedAt
      <3>5. n'["replies"] = n["replies"]
        BY <3>2 DEF Counters
      <3>6. ResultInv'
        BY <1>4, <3>5 DEF Timeout, ResultInv, TimedByOwnAnswer, Unsaved
      <3> QED
        BY <2>1, <2>2, <3>2, <3>3, <3>4, <3>6
    <2>4. CASE ~Counts
      <3>1. CountInv'
        BY <1>4, <2>4 DEF Timeout, Counts, FirstInv, CountInv, Counted, CountedAt, Total
      <3>2. ResultInv'
        BY <1>4, <2>4 DEF Timeout, ResultInv, TimedByOwnAnswer, Unsaved
      <3> QED
        BY <1>4, <2>1, <2>2, <2>4, <3>1, <3>2 DEF Timeout
    <2> QED
      BY <2>3, <2>4
  <1>5. CASE Save
    <2>1. Types' /\ n' = n
      BY <1>5 DEF Save, BooleansOK, handlerVars
    <2>2. FirstInv' /\ CountInv' /\ ElapsedInv'
      BY <1>5 DEF Save, FirstInv, CountInv, ElapsedInv, Counted, CountedAt, Total
    <2>3. i \notin DOMAIN results /\ i > 1 /\ answer = i
      BY <1>5 DEF Save, ResultInv, FirstInv
    <2>4. DOMAIN results' = DOMAIN results \cup {i}
      BY <1>5 DEF Save
    <2>5. Cardinality(DOMAIN results') = Cardinality(DOMAIN results) + 1
      BY <2>3, <2>4, FiniteResults, FS_AddElement
    <2>6. TimedByOwnAnswer'
      BY <1>5, <2>3 DEF Save, ResultInv, TimedByOwnAnswer
    <2>7. Cardinality(DOMAIN results') = n'["replies"] - Unsaved'
      BY <1>5, <2>5, FiniteResults DEF Save, ResultInv, Unsaved, CountInv, Counters
    <2>8. DOMAIN results' \subseteq 2..i'
      BY <1>5, <2>3, <2>4 DEF Save, ResultInv
    <2> QED
      BY <1>5, <2>1, <2>2, <2>4, <2>6, <2>7, <2>8 DEF Save, ResultInv
  <1>6. CASE Stamp
    <2>1. Types' /\ n' = n
      BY <1>6 DEF Stamp, BooleansOK, handlerVars
    <2>2. FirstInv' /\ CountInv' /\ ElapsedInv'
      BY <1>6 DEF Stamp, FirstInv, CountInv, ElapsedInv, Counted, CountedAt, Total
    <2>3. ResultInv'
      BY <1>6 DEF Stamp, ResultInv, TimedByOwnAnswer, Unsaved
    <2> QED
      BY <2>1, <2>2, <2>3
  <1>7. CASE Sleep
    <2>1. Types' /\ n' = n
      BY <1>7 DEF Sleep, BooleansOK, handlerVars, CountInv
    <2>2. FirstInv' /\ CountInv' /\ ElapsedInv'
      BY <1>7 DEF Sleep, FirstInv, CountInv, ElapsedInv, Counted, CountedAt, Total
    <2>3. ResultInv'
      BY <1>7 DEF Sleep, ResultInv, TimedByOwnAnswer, Unsaved
    <2> QED
      BY <2>1, <2>2, <2>3
  <1> QED
    BY <1>1, <1>2, <1>3, <1>4, <1>5, <1>6, <1>7 DEF Worker

\* No ping is counted after the last
LEMMA CountedBound ==
  ASSUME NEW phase, NEW k \in 1..(mPingQuery + 1),
         phase \in {"save", "stamp", "sleep"} => k <= mPingQuery
  PROVE  CountedAt(phase, k) <= PING_QUERY
  BY PingAssumption DEF CountedAt, mPingQuery

LEMMA CountBound ==
  ASSUME Types, CountInv
  PROVE  Total(n) <= PING_QUERY
  BY CountedBound DEF Types, CountInv, Counted

-----------------------------------------------------------------------------
(* The induction *)

LEMMA InitInv == Init => IInv
  <1> SUFFICES ASSUME Init PROVE IInv
    OBVIOUS
  <1>1. DOMAIN results = {} /\ Cardinality({}) = 0
    BY FS_EmptySet DEF Init
  <1>2. n \in [Counters -> Nat] /\ \A c \in Counters : n[c] = 0
    BY DEF Init, Zeros
  <1>3. BooleansOK
    BY Zenon DEF Init, BooleansOK
  <1>4. Types /\ ElapsedInv /\ HandlerInv /\ FinishInv
    BY <1>3, DurationSuffices DEF Init, Types, ElapsedInv, HandlerInv, FinishInv
  <1>5. FirstInv
    BY DEF Init, FirstInv
  <1>6. CountInv
    BY <1>2 DEF Init, CountInv, Counted, CountedAt, Total, Counters
  <1>7. ResultInv
    BY <1>1, <1>2 DEF Init, ResultInv, TimedByOwnAnswer, Unsaved, Counters
  <1> QED
    BY <1>4, <1>5, <1>6, <1>7 DEF IInv

LEMMA StepInv ==
  ASSUME IInv, [Next]_vars
  PROVE  IInv'
  <1> USE DEF IInv
  <1>1. CASE Worker
    <2>1. /\ Types' /\ WorkerInv'
          /\ n' = n \/ (Total(n') = Total(n) + 1 /\ \A c \in Counters : n[c] <= n'[c])
      BY <1>1, WorkerStep DEF WorkerInv
    <2>2. UNCHANGED handlerVars
      BY <1>1 DEF Worker, Send, Finish, Receive, Timeout, Save, Stamp, Sleep
    <2>3. n \in [Counters -> Nat] /\ n' \in [Counters -> Nat]
      BY <2>1 DEF WorkerInv, CountInv
    <2>4. HandlerInv'
      <3>1. \A c \in Counters : n[c] <= n'[c]
        BY <2>1, <2>3
      <3>2. UNCHANGED <<handler, start, copy>>
        BY <2>2 DEF handlerVars
      <3>3. handler = "reading" => \A c \in Counters : start[c] <= n'[c]
        BY <2>3, <3>1 DEF HandlerInv
      <3> QED
        BY <3>2, <3>3 DEF HandlerInv
    <2>5. finishing => n' = n
      <3>1. Total(n') <= PING_QUERY
        <4>1. Types' /\ CountInv'
          BY <2>1 DEF WorkerInv
        <4>2. i' \in 1..(mPingQuery + 1) /\ Total(n') = Counted'
          BY <4>1 DEF Types, CountInv
        <4>3. pc' \in {"save", "stamp", "sleep"} => i' <= mPingQuery
          BY <4>1 DEF CountInv
        <4> QED
          BY <4>2, <4>3, CountedBound DEF Counted
      <3>2. Total(n') = Total(n) + 1 => Total(n) # PING_QUERY
        BY <3>1, PingAssumption
      <3> QED
        BY <2>1, <3>2, Zenon DEF FinishInv
    <2>6. FinishInv'
      BY <2>2, <2>5 DEF handlerVars, FinishInv
    <2> QED
      BY <2>1, <2>4, <2>6 DEF WorkerInv
  <1>2. CASE Network \/ StopMeasurement
    <2>1. UNCHANGED <<workerVars, handlerVars>> /\ RUNNING' \in BOOLEAN /\ (RUNNING' => RUNNING)
      <3>1. CASE Network
        <4>1. PICK p \in Pings : Arrive(p)
          BY <3>1 DEF Network
        <4>2. UNCHANGED <<workerVars, handlerVars, RUNNING>>
          BY <4>1, Zenon DEF Arrive
        <4> QED
          BY <4>2, Zenon DEF Types, BooleansOK
      <3>2. CASE StopMeasurement
        BY <3>2, Zenon DEF StopMeasurement
      <3> QED
        BY <1>2, <3>1, <3>2
    <2>2. UNCHANGED <<pc, i, firstResponse, answer, n, results, results_timestamp, elapsed,
                      handler, finishing, copy, start>>
      BY <2>1, Zenon DEF workerVars, handlerVars
    <2>3. Types'
      BY <2>1, <2>2 DEF Types, BooleansOK
    <2>4. FirstInv' /\ ElapsedInv'
      BY <2>2 DEF FirstInv, ElapsedInv
    <2>5. CountInv'
      BY <2>1, <2>2 DEF CountInv, Counted, CountedAt, Total
    <2>6. ResultInv'
      BY <2>2 DEF ResultInv, TimedByOwnAnswer, Unsaved
    <2>7. HandlerInv' /\ FinishInv'
      BY <2>2 DEF HandlerInv, FinishInv, Total
    <2> QED
      BY <2>3, <2>4, <2>5, <2>6, <2>7
  <1>3. CASE BeginReport
    <2>1. UNCHANGED workerVars /\ RUNNING' = RUNNING /\ handler' = "reading"
      BY <1>3 DEF BeginReport
    <2>2. FirstInv' /\ CountInv' /\ ResultInv' /\ ElapsedInv'
      BY <2>1 DEF workerVars, FirstInv, CountInv, Counted, CountedAt, Total, ResultInv,
        TimedByOwnAnswer, Unsaved, ElapsedInv
    <2>3. TimerStopped \in BOOLEAN
      BY DEF TimerStopped
    <2>4. Types'
      BY <1>3, <2>1, <2>3 DEF BeginReport, workerVars, Types, BooleansOK
    <2>5. /\ copy' = results /\ start' = n /\ n' = n
      BY <1>3 DEF BeginReport, workerVars
    <2>6. DOMAIN results \subseteq 2..mPingQuery
      BY DurationSuffices DEF ResultInv, Types, CountInv
    <2>7. /\ Cardinality(DOMAIN results) <= n["replies"]
          /\ pc # "save" => Cardinality(DOMAIN results) = n["replies"]
      BY DEF ResultInv, CountInv, Counters, Unsaved
    <2>8. HandlerInv'
      BY <2>5, <2>6, <2>7 DEF HandlerInv, ResultInv, TimedByOwnAnswer, CountInv
    <2>9. FinishInv'
      <3> SUFFICES ASSUME finishing' PROVE FinishInv'
        BY DEF FinishInv
      <3>1. RUNNING /\ TimerStopped
        BY <1>3 DEF BeginReport
      <3> QED
        BY <2>5, <2>7, <3>1, StoppedCounts DEF FinishInv
    <2> QED
      BY <2>2, <2>4, <2>8, <2>9
  <1>4. CASE WriteReport
    BY <1>4 DEF WriteReport, workerVars, Types, BooleansOK, FirstInv, CountInv, Counted, CountedAt,
      Total, ResultInv, TimedByOwnAnswer, Unsaved, ElapsedInv, HandlerInv, FinishInv
  <1>5. CASE UNCHANGED vars
    BY <1>5 DEF vars, workerVars, handlerVars, Types, BooleansOK, FirstInv, CountInv, Counted,
      CountedAt, Total, ResultInv, TimedByOwnAnswer, Unsaved, ElapsedInv, HandlerInv, FinishInv
  <1> QED
    BY <1>1, <1>2, <1>3, <1>4, <1>5 DEF Next, Handler, Done

\* The copy of the handler has as many round trips as a number can say
LEMMA FiniteCopy ==
  ASSUME IInv, handler = "reading"
  PROVE  Cardinality(DOMAIN copy) \in Nat /\ start["replies"] \in Nat
  <1>1. IsFiniteSet(2..mPingQuery)
    BY FS_Interval, DurationSuffices
  <1>2. DOMAIN copy \in SUBSET (2..mPingQuery)
    BY DEF IInv, HandlerInv
  <1> QED
    BY <1>1, <1>2, FS_Subset, FS_CardinalityType DEF IInv, HandlerInv, Counters

\* Everything the worker and the handler know of each other (ping.cpp:147-252,
\* callback.cpp:229-303)
THEOREM RttCorrect == Spec => []IInv
  BY InitInv, StepInv, PTL DEF Spec

-----------------------------------------------------------------------------
(* Reports *)

\* What a report may contain, counter by counter
LEMMA ReportParts ==
  ASSUME IInv, NEW r \in Reports
  PROVE  \E sent, fields \in [Counters -> Nat] :
           /\ handler = "reading"
           /\ r.rtts = copy /\ r.sent = Total(sent) /\ r.fields = fields
           /\ r.stamps = [p \in DOMAIN copy |-> StampOf(Number(p))]
           /\ \A c \in Counters :
                start[c] <= sent[c] /\ sent[c] <= fields[c] /\ fields[c] <= n[c]
  <1>1. handler = "reading"
    BY DEF Reports, IInv, Types
  <1>2. PICK sent \in ReadBetween(start, n) :
          \E fields \in ReadBetween(sent, n) : r = Report(sent, fields)
    BY <1>1 DEF Reports
  <1>2a. PICK fields \in ReadBetween(sent, n) : r = Report(sent, fields)
    BY <1>2
  <1>3. start \in [Counters -> Nat] /\ n \in [Counters -> Nat]
    BY <1>1 DEF IInv, HandlerInv, CountInv
  <1>4. /\ sent \in [Counters -> Nat]
        /\ \A c \in Counters : start[c] <= sent[c] /\ sent[c] <= n[c]
    BY <1>3 DEF ReadBetween, Counters
  <1>5. /\ fields \in [Counters -> Nat]
        /\ \A c \in Counters : sent[c] <= fields[c] /\ fields[c] <= n[c]
    BY <1>3, <1>4 DEF ReadBetween, Counters
  <1> QED
    BY <1>1, <1>2a, <1>4, <1>5 DEF Report, Rtts

\* Every variable keeps its type, and no ping is counted twice (ping.cpp:199-244)
THEOREM RttTypesKept == Spec => []TypeOK
  <1>1. IInv => TypeOK
    <2> SUFFICES ASSUME IInv PROVE TypeOK
      OBVIOUS
    <2> USE DurationSuffices, PingAssumption DEF IInv, Types
    <2>1. Total(n) <= PING_QUERY /\ n \in [Counters -> Nat]
      BY CountBound DEF CountInv
    <2>2. n \in [Counters -> 0..PING_QUERY]
      BY <2>1 DEF Total, Counters
    <2>3. WorkerOK
      BY <2>2 DEF WorkerOK, ResultInv, CountInv, Pings
    <2>4. start \in [Counters -> 0..PING_QUERY]
      BY <2>2 DEF HandlerInv, Zeros
    <2> QED
      BY <2>1, <2>3, <2>4 DEF TypeOK, HandlerOK
  <1> QED
    BY <1>1, RttCorrect, PTL

\* However late, often or out of order answers come, a round trip is timed by
\* the answer to its own ping (ping.cpp:214-242)
THEOREM OwnAnswers == Spec => []TimedByOwnAnswer
  <1>1. IInv => TimedByOwnAnswer
    BY DEF IInv, ResultInv
  <1> QED
    BY <1>1, RttCorrect, PTL

\* A report has no more round trips than replies, and no more pings than its
\* counters account for, whenever they are read (callback.cpp:235-258)
THEOREM ReportsConsistent == Spec => []ReportConsistent
  <1>1. IInv => ReportConsistent
    <2> SUFFICES ASSUME IInv, NEW r \in Reports
                 PROVE  /\ Cardinality(DOMAIN r.rtts) <= r.fields["replies"]
                        /\ r.sent <= Total(r.fields)
      BY DEF ReportConsistent
    <2>1. PICK sent, fields \in [Counters -> Nat] :
            /\ handler = "reading" /\ r.rtts = copy /\ r.sent = Total(sent) /\ r.fields = fields
            /\ \A c \in Counters :
                 start[c] <= sent[c] /\ sent[c] <= fields[c] /\ fields[c] <= n[c]
      BY ReportParts
    <2>2. Total(sent) <= Total(fields)
      BY <2>1 DEF Total, Counters
    <2>3. start["replies"] <= fields["replies"] /\ Cardinality(DOMAIN copy) <= start["replies"]
      BY <2>1 DEF Counters, IInv, HandlerInv
    <2>4. Cardinality(DOMAIN copy) \in Nat /\ start["replies"] \in Nat
      BY <2>1, FiniteCopy
    <2>5. Cardinality(DOMAIN copy) <= fields["replies"]
      BY <2>3, <2>4 DEF Counters
    <2>6. Cardinality(DOMAIN r.rtts) = Cardinality(DOMAIN copy) /\ r.fields = fields
      BY <2>1, Zenon
    <2> QED
      BY <2>1, <2>2, <2>5, <2>6, Zenon
  <1> QED
    BY <1>1, RttCorrect, PTL

\* For every number of pings the duration of the test is enough for all of them
\* to run into their timeouts (ping.cpp:104): the last report has every ping and
\* a round trip for every reply
THEOREM LastReportComplete == Spec => []FinalReportComplete
  <1>1. IInv => FinalReportComplete
    <2> SUFFICES ASSUME IInv, finishing, NEW r \in Reports
                 PROVE  /\ r.sent = PING_QUERY /\ Total(r.fields) = PING_QUERY
                        /\ Cardinality(DOMAIN r.rtts) = r.fields["replies"]
      BY DEF FinalReportComplete
    <2>1. PICK sent, fields \in [Counters -> Nat] :
            /\ handler = "reading" /\ r.rtts = copy /\ r.sent = Total(sent) /\ r.fields = fields
            /\ \A c \in Counters :
                 start[c] <= sent[c] /\ sent[c] <= fields[c] /\ fields[c] <= n[c]
      BY ReportParts
    <2>2. start = n /\ Total(n) = PING_QUERY /\ Cardinality(DOMAIN copy) = n["replies"]
      BY <2>1 DEF IInv, FinishInv
    <2>3. \A c \in Counters : sent[c] = n[c] /\ fields[c] = n[c]
      BY <2>1, <2>2 DEF IInv, CountInv
    <2> QED
      BY <2>1, <2>2, <2>3 DEF Total, Counters
  <1> QED
    BY <1>1, RttCorrect, PTL

\* A round trip's number is smaller than its ping, since the first ping has
\* none: it is never written with its own time stamp (callback.cpp:272-281)
THEOREM StampsLag == Spec => []StampsLagBehind
  <1>1. IInv => StampsLagBehind
    <2> SUFFICES ASSUME IInv, NEW r \in Reports, NEW p \in DOMAIN r.rtts
                 PROVE  r.stamps[p] < r.rtts[p]
      BY DEF StampsLagBehind
    <2>1. /\ handler = "reading" /\ r.rtts = copy
          /\ r.stamps = [q \in DOMAIN copy |-> StampOf(Number(q))]
      BY ReportParts
    <2>2. p \in 2..mPingQuery /\ copy[p] = p /\ DOMAIN copy \subseteq 2..mPingQuery
      BY <2>1 DEF IInv, HandlerInv
    <2>3. IsFiniteSet(2..p) /\ Cardinality(2..p) = p - 1
      BY <2>2, FS_Interval, DurationSuffices
    <2>4. {q \in DOMAIN copy : q <= p} \in SUBSET (2..p)
      BY <2>2, DurationSuffices
    <2>5. Number(p) \in Nat /\ Number(p) <= p - 1
      BY <2>3, <2>4, FS_Subset, FS_CardinalityType DEF Number, Rtts
    <2>6. StampOf(Number(p)) < p
      BY <2>2, <2>5, DurationSuffices DEF StampOf
    <2> QED
      BY <2>1, <2>2, <2>6
  <1> QED
    BY <1>1, RttCorrect, PTL
=============================================================================
