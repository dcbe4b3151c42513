------------------------ MODULE DownloadStreamProofs ------------------------
(***************************************************************************)
(* What DownloadStream promises of the slow start and of the reports, for  *)
(* every number of streams and receives and every duration.  The numbers   *)
(* of the reports are sums of what each stream had booked when the timer   *)
(* thread copied its results (Counted); the proofs follow those numbers    *)
(* through the copies of a step, the steps of a report and the reports.    *)
(***************************************************************************)
EXTENDS DownloadStream, SumTheorems

-----------------------------------------------------------------------------
(* Types *)

LEMMA HalfSecondsPositive == HalfSeconds \in Nat /\ HalfSeconds >= 2
  BY DownloadAssumption DEF HalfSeconds

\* A stream that is booking has received something, so that the slow start it
\* computes is not negative
ReceivedInv ==
  \A s \in Streams : pc[s] \in {"check", "index", "book", "slow"} => datasize_total[s] > 0

TypeInv == TypeOK /\ ReceivedInv

LEMMA InitTypes == Init => TypeInv
  <1> SUFFICES ASSUME Init PROVE TypeInv
    OBVIOUS
  <1>1. BooleansOK
    BY Zenon DEF Init, BooleansOK
  <1>2. TimerOK
    BY HalfSecondsPositive, DownloadAssumption DEF Init, TimerOK, Keys, Streams
  <1>3. StreamsOK
    BY HalfSecondsPositive DEF Init, StreamsOK
  <1>4. ReceivedInv
    BY DEF Init, ReceivedInv
  <1>5. due \in [Streams -> Int]
    BY DEF Init
  <1> QED
    BY <1>1, <1>2, <1>3, <1>4, <1>5 DEF TypeOK, TypeInv

\* The streams leave the variables of the timer thread alone, and hasError
LEMMA StreamFrame ==
  ASSUME NEW s \in Streams, Stream(s)
  PROVE  UNCHANGED <<timerVars, reportVars, hasError>>
  BY DEF Stream, Open, Loop, Receive, Add, Check, ReadIndex, Book, SlowStart

\* Booking keeps the results of the stream a map from the keys
LEMMA BookedResults ==
  ASSUME StreamsOK, NEW s \in Streams, Book(s)
  PROVE  results' \in [Streams -> {<< >>} \cup [Keys -> Nat]] /\ results'[s] \in [Keys -> Nat]
  <1>1. results[s] \in [Keys -> Nat] /\ index[s] \in Keys
    BY HalfSecondsPositive DEF StreamsOK, Book, Goto, Keys
  <1>2. [results[s] EXCEPT ![index[s]] = @ + 1] \in [Keys -> Nat]
    BY <1>1
  <1> QED
    BY <1>2 DEF StreamsOK, Book

LEMMA StreamTypes ==
  ASSUME TypeInv, NEW s \in Streams, Stream(s)
  PROVE  TypeInv'
  <1>1. BooleansOK'
    BY StreamFrame, Zenon DEF TypeInv, TypeOK, BooleansOK, timerVars, reportVars
  <1>2. TimerOK'
    BY StreamFrame DEF TypeInv, TypeOK, TimerOK, timerVars, reportVars
  <1>3. StreamsOK' /\ ReceivedInv'
    <2> USE DEF TypeInv, TypeOK, StreamsOK, ReceivedInv, Goto
    <2>1. CASE Open(s)
      <3>1. [k \in Keys |-> 0] \in [Keys -> Nat]
        OBVIOUS
      <3> QED
        BY <2>1, <3>1 DEF Open
    <2>2. CASE Loop(s)
      BY <2>2 DEF Loop
    <2>3. CASE Receive(s)
      BY <2>3 DEF Receive
    <2>4. CASE Add(s)
      BY <2>4 DEF Add
    <2>5. CASE Check(s)
      BY <2>5 DEF Check
    <2>6. CASE ReadIndex(s)
      BY <2>6 DEF ReadIndex, TimerOK
    <2>7. CASE Book(s)
      BY <2>7, BookedResults DEF Book
    <2>8. CASE SlowStart(s)
      <3>1. datasize_total[s] - 1 \in Nat
        BY <2>8 DEF SlowStart
      <3> QED
        BY <2>8, <3>1 DEF SlowStart, SlowStartBytes
    <2> QED
      BY <2>1, <2>2, <2>3, <2>4, <2>5, <2>6, <2>7, <2>8 DEF Stream
  <1>4. due' \in [Streams -> Int]
    BY StreamFrame DEF TypeInv, TypeOK, reportVars
  <1> QED
    BY <1>1, <1>2, <1>3, <1>4 DEF TypeInv, TypeOK

\* The other threads leave the streams alone
LEMMA TimerFrame ==
  ASSUME Timer \/ Clock \/ Fail \/ Done \/ UNCHANGED vars
  PROVE  UNCHANGED streamVars
  BY DEF Timer, TimerStart, TimerTick, TimerTail, CopyResults, AddStream, Clock, Fail, Done, vars

\* A report notes what is due when it begins
LEMMA DueKept ==
  ASSUME Timer \/ Clock \/ Fail \/ Done \/ UNCHANGED vars
  PROVE  \/ BeginReport /\ tpc = "tick" /\ (TimerTick \/ TimerTail)
         \/ UNCHANGED due
  <1>1. CASE TimerTick \/ TimerTail
    BY <1>1 DEF TimerTick, TimerTail
  <1>2. CASE TimerStart \/ CopyResults \/ AddStream
    BY <1>2 DEF TimerStart, CopyResults, AddStream, reportVars
  <1>3. CASE Clock \/ Fail \/ Done \/ UNCHANGED vars
    BY <1>3 DEF Clock, Fail, Done, vars, reportVars
  <1> QED
    BY <1>1, <1>2, <1>3 DEF Timer

LEMMA TimerTypes ==
  ASSUME TypeInv, Timer \/ Clock \/ Fail \/ Done \/ UNCHANGED vars
  PROVE  TypeInv'
  <1>1. StreamsOK' /\ ReceivedInv'
    BY TimerFrame DEF TypeInv, TypeOK, StreamsOK, ReceivedInv, streamVars
  <1>2. BooleansOK'
    <2> USE DEF TypeInv, TypeOK, BooleansOK, BeginReport
    <2>1. MeasurementOver \in BOOLEAN
      BY SMT DEF MeasurementOver
    <2>2. CASE TimerTick
      BY <2>1, <2>2, Zenon DEF TimerTick
    <2>3. CASE TimerStart \/ TimerTail
      BY <2>3, Zenon DEF TimerStart, TimerTail, reportVars
    <2>4. CASE CopyResults \/ AddStream
      BY <2>4, Zenon DEF CopyResults, AddStream
    <2>5. CASE Clock \/ Fail \/ Done \/ UNCHANGED vars
      BY <2>5, Zenon DEF Clock, Fail, Done, vars, timerVars, reportVars
    <2> QED
      BY <2>2, <2>3, <2>4, <2>5 DEF Timer
  <1>3. TimerOK'
    <2> USE HalfSecondsPositive, DownloadAssumption
        DEF TypeInv, TypeOK, TimerOK, BeginReport, Keys, Streams
    <2>1. CASE TimerStart
      BY <2>1 DEF TimerStart, reportVars
    <2>2. CASE TimerTick
      BY <2>2 DEF TimerTick, NextIndex, MeasurementOver
    <2>3. CASE TimerTail
      BY <2>3 DEF TimerTail
    <2>4. CASE CopyResults \/ AddStream
      BY <2>4 DEF CopyResults, AddStream
    <2>5. CASE Clock \/ Fail \/ Done \/ UNCHANGED vars
      BY <2>5 DEF Clock, Fail, Done, vars, timerVars, reportVars
    <2> QED
      BY <2>1, <2>2, <2>3, <2>4, <2>5 DEF Timer
  <1>4. due' \in [Streams -> Int]
    <2>1. \A s \in Streams : datasize_total[s] - early[s] \in Int
      BY DEF TypeInv, TypeOK, StreamsOK
    <2> QED
      BY <2>1, DueKept DEF BeginReport, TypeInv, TypeOK
  <1> QED
    BY <1>1, <1>2, <1>3, <1>4 DEF TypeInv, TypeOK

LEMMA TypeInvStep == TypeInv /\ [Next]_vars => TypeInv'
  BY StreamTypes, TimerTypes DEF Next

\* Every variable keeps its type: no stream books outside the half seconds
\* that a report adds up (timer.cpp:145-150, download.cpp:203)
THEOREM DownloadTypesKept == Spec => []TypeOK
  BY InitTypes, TypeInvStep, PTL DEF Spec, TypeInv

-----------------------------------------------------------------------------
(* The slow start *)

\* TIMER_INDEX never runs ahead of the clock, so it does not return to 0
ClockInv == TIMER_INDEX <= clock

\* Before the measurement everything a stream has received is early, and it
\* knows no slow start
BeforeInv ==
  ~TIMER_RUNNING =>
    /\ TIMER_INDEX = 0 /\ tpc = "sync"
    /\ \A s \in Streams :
         /\ datasize_slow_start[s] = 0
         /\ pc[s] \notin {"index", "book", "slow"}

\* A stream with early bytes that has no slow start yet in the first half
\* second has not booked anything: the next receive it books is its first
FirstInv ==
  \A s \in Streams :
    TIMER_INDEX = 0 /\ datasize_slow_start[s] = 0 /\ early[s] # 0 =>
      \/ pc[s] \in {"index", "book", "slow"} /\ datasize_total[s] = early[s] + 1
      \/ pc[s] = "check" /\ (datasize_total[s] = early[s] + 1 \/ (TIMER_RUNNING /\ hasError))
      \/ /\ pc[s] \in {"loop", "recv", "add", "ended"}
         /\ datasize_total[s] = early[s] \/ (TIMER_RUNNING /\ hasError)

\* Before the measurement early is what has been received and looked at
EarlyInv ==
  ~TIMER_RUNNING =>
    \A s \in Streams :
      datasize_total[s] = early[s] + (IF pc[s] = "check" THEN 1 ELSE 0)

SlowStartInv == ClockInv /\ BeforeInv /\ EarlyInv /\ FirstInv /\ SlowStartIsEarly

LEMMA InitSlowStart == Init => SlowStartInv
  BY DEF Init, SlowStartInv, ClockInv, BeforeInv, EarlyInv, FirstInv, SlowStartIsEarly

LEMMA StreamSlowStart ==
  ASSUME TypeInv, SlowStartInv, NEW s \in Streams, Stream(s)
  PROVE  SlowStartInv'
  <1> USE StreamFrame
      DEF TypeInv, TypeOK, StreamsOK, TimerOK, SlowStartInv, ClockInv, BeforeInv, EarlyInv, FirstInv,
          SlowStartIsEarly, Goto, timerVars
  <1>1. CASE Open(s)
    BY <1>1 DEF Open
  <1>2. CASE Loop(s)
    BY <1>2 DEF Loop
  <1>3. CASE Receive(s)
    <2>1. /\ pc[s] = "recv" /\ pc' \in {[pc EXCEPT ![s] = "add"], [pc EXCEPT ![s] = "ended"]}
          /\ UNCHANGED <<TIMER_RUNNING, TIMER_INDEX, clock, tpc, hasError, datasize_total,
                         datasize_slow_start, early>>
      BY <1>3 DEF Receive
    <2>2. ClockInv' /\ BeforeInv' /\ EarlyInv'
      BY <2>1
    <2>3. FirstInv'
      BY <2>1
    <2>4. SlowStartIsEarly'
      BY <2>1
    <2> QED
      BY <2>2, <2>3, <2>4
  <1>4. CASE Add(s)
    BY <1>4 DEF Add
  <1>5. CASE Check(s)
    <2>1. /\ pc[s] = "check"
          /\ pc' = [pc EXCEPT ![s] = IF TIMER_RUNNING /\ ~hasError THEN "index" ELSE "loop"]
          /\ early' = [early EXCEPT ![s] = IF TIMER_RUNNING THEN @ ELSE @ + 1]
          /\ UNCHANGED <<TIMER_RUNNING, TIMER_INDEX, clock, tpc, hasError, datasize_total,
                         datasize_slow_start>>
      BY <1>5 DEF Check
    <2>2. ClockInv' /\ BeforeInv'
      BY <2>1
    <2>3. EarlyInv'
      BY <2>1
    <2>4. FirstInv'
      BY <2>1
    <2>5. SlowStartIsEarly'
      BY <2>1
    <2> QED
      BY <2>2, <2>3, <2>4, <2>5
  <1>6. CASE ReadIndex(s)
    BY <1>6 DEF ReadIndex
  <1>7. CASE Book(s)
    BY <1>7 DEF Book
  <1>8. CASE SlowStart(s)
    <2>1. /\ pc[s] = "slow" /\ pc' = [pc EXCEPT ![s] = "loop"]
          /\ UNCHANGED <<TIMER_RUNNING, TIMER_INDEX, clock, tpc, hasError, datasize_total, early>>
      BY <1>8 DEF SlowStart
    <2>2. \A r \in Streams \ {s} : datasize_slow_start'[r] = datasize_slow_start[r]
      BY <1>8 DEF SlowStart
    <2>3. CASE TakesSlowStart(s)
      <3>1. datasize_slow_start'[s] = datasize_total[s] - 1
        BY <1>8, <2>3 DEF SlowStart, SlowStartBytes
      <3>2. TIMER_RUNNING
        BY <2>1
      <3>3. early[s] # 0 => datasize_total[s] = early[s] + 1
        BY <2>1, <2>3 DEF TakesSlowStart
      <3>4. datasize_slow_start'[s] = early'[s] \/ early'[s] = 0
        BY <2>1, <3>1, <3>3
      <3> QED
        BY <2>1, <2>2, <3>1, <3>2, <3>3, <3>4
    <2>4. CASE ~TakesSlowStart(s)
      <3>1. datasize_slow_start'[s] = datasize_slow_start[s]
        BY <1>8, <2>4 DEF SlowStart
      <3> QED
        BY <2>1, <2>2, <2>4, <3>1 DEF TakesSlowStart
    <2> QED
      BY <2>3, <2>4
  <1> QED
    BY <1>1, <1>2, <1>3, <1>4, <1>5, <1>6, <1>7, <1>8 DEF Stream

LEMMA TimerSlowStart ==
  ASSUME TypeInv, SlowStartInv, Timer \/ Clock \/ Fail \/ Done \/ UNCHANGED vars
  PROVE  SlowStartInv'
  <1> USE TimerFrame
      DEF TypeInv, TypeOK, StreamsOK, TimerOK, SlowStartInv, ClockInv, BeforeInv, EarlyInv, FirstInv,
          SlowStartIsEarly, streamVars, Keys
  <1>1. CASE TimerStart
    BY <1>1 DEF TimerStart
  <1>2. CASE TimerTick
    <2>1. TIMER_INDEX' = NextIndex /\ tpc = "tick" /\ UNCHANGED <<TIMER_RUNNING, clock, hasError>>
      BY <1>2 DEF TimerTick
    <2>2. UNCHANGED <<pc, early, datasize_total, datasize_slow_start>>
      BY <1>2
    <2>3. TIMER_RUNNING /\ ClockInv' /\ (TIMER_INDEX' = 0 => TIMER_INDEX = 0)
      BY <2>1 DEF NextIndex, MeasurementOver
    <2>4. BeforeInv' /\ EarlyInv'
      BY <2>1, <2>3
    <2>5. FirstInv' /\ SlowStartIsEarly'
      BY <2>1, <2>2, <2>3
    <2> QED
      BY <2>3, <2>4, <2>5
  <1>3. CASE TimerTail
    BY <1>3 DEF TimerTail, BeginReport
  <1>4. CASE CopyResults \/ AddStream
    BY <1>4 DEF CopyResults, AddStream
  <1>5. CASE Clock \/ Fail \/ Done \/ UNCHANGED vars
    <2>1. /\ UNCHANGED <<TIMER_RUNNING, TIMER_INDEX, tpc>>
          /\ clock \in Int /\ TIMER_INDEX \in Int /\ clock' \in {clock, clock + 1}
          /\ hasError => hasError'
      BY <1>5 DEF Clock, Fail, Done, vars, timerVars
    <2>2. UNCHANGED <<pc, early, datasize_total, datasize_slow_start>>
      BY <1>5
    <2>3. ClockInv' /\ BeforeInv' /\ EarlyInv'
      BY <2>1, <2>2
    <2>4. FirstInv' /\ SlowStartIsEarly'
      BY <2>1, <2>2
    <2> QED
      BY <2>3, <2>4
  <1> QED
    BY <1>1, <1>2, <1>3, <1>4, <1>5 DEF Timer

LEMMA SlowStartStep ==
  ASSUME TypeInv, SlowStartInv, [Next]_vars
  PROVE  SlowStartInv'
  BY StreamSlowStart, TimerSlowStart DEF Next

\* The slow start of a stream is what it had received before the measurement,
\* however TIMER_INDEX moves between its reads (download.cpp:199-209)
THEOREM SlowStartsAreEarly == Spec => []SlowStartIsEarly
  <1>1. TypeInv /\ SlowStartInv /\ [Next]_vars => SlowStartInv'
    BY SlowStartStep
  <1>2. SlowStartInv => SlowStartIsEarly
    BY DEF SlowStartInv
  <1> QED
    BY InitTypes, TypeInvStep, InitSlowStart, <1>1, <1>2, PTL DEF Spec

-----------------------------------------------------------------------------
(* The state behind the reports *)

Reporting == tpc \in {"copy", "start"}
Bytes == [bytes : Nat, distinct : Nat, total : Nat]

ReportTypes ==
  /\ steps \in Seq(Bytes) /\ sums \in Bytes /\ reported \in Seq(Bytes)
  /\ tpc = "start" => copied \in [Keys -> Nat]

\* The measurement runs when the streams have received something
SyncInv ==
  /\ \A s \in syncing_threads : pc[s] # "open"
  /\ TIMER_RUNNING => syncing_threads = Streams

\* The index has reached TIMER_DURATION unless the timer has stopped
DurationInv ==
  /\ ~TIMER_RUNNING => ~TIMER_STOPPED /\ TIMER_DURATION = 0
  /\ IF TIMER_STOPPED THEN TIMER_DURATION = HalfSeconds ELSE TIMER_INDEX = TIMER_DURATION

\* While it computes a report the timer thread has steps left to compute
LengthInv ==
  /\ ~TIMER_RUNNING => reported = << >>
  /\ Len(reported) <= TIMER_DURATION
  /\ Reporting => Len(steps) < TIMER_DURATION
  /\ Reporting /\ finishing => TIMER_STOPPED
  /\ tpc = "ended" => TIMER_STOPPED /\ (hasError \/ Len(reported) = HalfSeconds)

PositionInv == ReportTypes /\ SyncInv /\ DurationInv /\ LengthInv

\* What stream s has booked in the first k half seconds
Booked(s, k) == SumFunctionOnSet(results[s], KeysUpTo(k))

\* Whether a receive of s is on its way to one of them
OnItsWay(s, k) ==
  IF \/ pc[s] = "book" /\ index[s] < k
     \/ pc[s] \in {"recv", "add", "check", "index"} /\ TIMER_INDEX < k
    THEN 1 ELSE 0

\* b is what s had booked there at some time since the first k half seconds
\* were over; since then s has booked at most what was on its way
Near(b, s, k) == b <= Booked(s, k) /\ Booked(s, k) + OnItsWay(s, k) <= b + 1

\* v adds up such numbers, one of each stream
Counted(v, k) ==
  \E c \in [Streams -> Nat] :
    /\ v = SumFunctionOnSet(c, Streams)
    /\ \A s \in Streams : Near(c[s], s, k)

\* The same of the streams that the callback has looked at in this step
CountedSoFar(v, k) ==
  \E c \in [Streams -> Nat] :
    /\ v = SumFunctionOnSet(c, 1..(at - 1))
    /\ \A s \in 1..(at - 1) : Near(c[s], s, k)

\* What the callback finds of stream s in the first k half seconds: the copy
\* it has made, or what will have been booked when it makes the copy
Finds(b, s, k) ==
  IF s = at /\ tpc = "start"
    THEN SumFunctionOnSet(copied, KeysUpTo(k)) - b \in {0, 1}
    ELSE Near(b, s, k)

\* v adds up numbers of all streams, w numbers of those the callback has looked
\* at, which differ by at most one
Follows(w, v, k) ==
  \E c, d \in [Streams -> Nat] :
    /\ v = SumFunctionOnSet(c, Streams)
    /\ w = SumFunctionOnSet(d, 1..(at - 1))
    /\ \A s \in 1..(at - 1) : d[s] - c[s] \in {0, 1}
    /\ \A s \in at..DL_STREAMS : Finds(c[s], s, k)

\* Every step follows the step before it
AddsUp(report) ==
  \A k \in 2..Len(report) :
    report[k].bytes - report[k - 1].bytes - report[k].distinct \in 0..DL_STREAMS

CopyInv ==
  tpc = "start" =>
    \A k \in 0..TIMER_DURATION : Near(SumFunctionOnSet(copied, KeysUpTo(k)), at, k)

StepsInv ==
  Reporting =>
    /\ \A k \in 1..Len(steps) : Counted(steps[k].bytes, k)
    /\ CountedSoFar(sums.bytes, Len(steps) + 1)
    /\ AddsUp(steps)
    /\ Len(steps) > 0 =>
         Follows(sums.bytes - sums.distinct, steps[Len(steps)].bytes, Len(steps))

ReportedInv ==
  /\ \A k \in 1..Len(reported) : Counted(reported[k].bytes, k)
  /\ AddsUp(reported)
  /\ Reporting =>
       \A k \in 1..Len(reported) :
         /\ k <= Len(steps) => steps[k].bytes - reported[k].bytes \in 0..DL_STREAMS
         /\ k = Len(steps) + 1 => Follows(sums.bytes, reported[k].bytes, k)

CountInv == CopyInv /\ StepsInv /\ ReportedInv

\* Every byte a stream has received is early, booked, on its way there or,
\* after an error, dropped
Accounted(s) ==
  early[s] + Booked(s, HalfSeconds) + (IF pc[s] \in {"check", "index", "book"} THEN 1 ELSE 0)

BalanceInv ==
  \A s \in Streams :
    IF pc[s] = "open" THEN early[s] = 0 /\ datasize_total[s] = 0
                      ELSE /\ Accounted(s) <= datasize_total[s]
                           /\ ~hasError => Accounted(s) = datasize_total[s]

\* ... so that no sum of the reports exceeds what has been received
AllEarly == \A s \in Streams : early[s] # 0
ReceivedBy(streams) == SumFunctionOnSet(datasize_total, streams)

TotalInv ==
  AllEarly =>
    /\ tpc = "start" => SumFunctionOnSet(copied, KeysUpTo(HalfSeconds)) + early[at]
                          <= datasize_total[at]
    /\ Reporting =>
         /\ sums.total <= ReceivedBy(1..(at - 1))
         /\ \A k \in 1..Len(steps) : steps[k].total <= ReceivedBy(Streams)
    /\ \A k \in 1..Len(reported) : reported[k].total <= ReceivedBy(Streams)

-----------------------------------------------------------------------------
(* What a step does to the results of a stream *)

LEMMA KeySets ==
  ASSUME NEW k \in Keys
  PROVE  /\ IsFiniteSet(KeysUpTo(k)) /\ KeysUpTo(k) \subseteq Keys
         /\ \A i \in Keys : i \in KeysUpTo(k) <=> i < k
  BY HalfSecondsPositive, FS_Interval DEF Keys, KeysUpTo

LEMMA SumOfResults ==
  ASSUME NEW f \in [Keys -> Nat], NEW k \in Keys
  PROVE  SumFunctionOnSet(f, KeysUpTo(k)) \in Nat
  BY KeySets, SumNat

LEMMA SumOfBooking ==
  ASSUME NEW f \in [Keys -> Nat], NEW i \in Keys, NEW k \in Keys
  PROVE  SumFunctionOnSet([f EXCEPT ![i] = @ + 1], KeysUpTo(k)) =
           SumFunctionOnSet(f, KeysUpTo(k)) + (IF i < k THEN 1 ELSE 0)
  <1> DEFINE g == [f EXCEPT ![i] = @ + 1]
             T == KeysUpTo(k)
  <1>1. /\ IsFiniteSet(T) /\ T \subseteq Keys /\ (i \in T <=> i < k)
        /\ SumFunctionOnSet(f, T) \in Nat
    BY KeySets, SumOfResults
  <1>2. \A x \in T : f[x] \in Int /\ g[x] \in Int /\ (x # i => g[x] = f[x])
    BY <1>1
  <1>3. g[i] - f[i] = 1
    OBVIOUS
  <1> HIDE DEF g, T
  <1>4. CASE i \in T
    <2>1. SumFunctionOnSet(g, T) = SumFunctionOnSet(f, T) + (g[i] - f[i])
      BY <1>1, <1>2, <1>4, SumChange
    <2> QED
      BY <1>1, <1>3, <1>4, <2>1 DEF g, T
  <1>5. CASE i \notin T
    <2>1. SumFunctionOnSet(g, T) = SumFunctionOnSet(f, T)
      BY <1>1, <1>2, <1>5, SumEqual
    <2> QED
      BY <1>1, <1>5, <2>1 DEF g, T
  <1> QED
    BY <1>4, <1>5

LEMMA BookedNat ==
  ASSUME StreamsOK, NEW s \in Streams, pc[s] # "open", NEW k \in Keys
  PROVE  Booked(s, k) \in Nat /\ OnItsWay(s, k) \in {0, 1}
  BY SumOfResults DEF StreamsOK, Booked, OnItsWay

\* Only Book changes the sum, and by one receive
LEMMA BookedChanges ==
  ASSUME StreamsOK, NEW s \in Streams, pc[s] # "open", [Next]_vars, NEW k \in Keys
  PROVE  IF Book(s) THEN Booked(s, k)' = Booked(s, k) + (IF index[s] < k THEN 1 ELSE 0)
                    ELSE Booked(s, k)' = Booked(s, k)
  <1>1. CASE Book(s)
    <2>1. index[s] \in Keys /\ results[s] \in [Keys -> Nat]
      BY HalfSecondsPositive DEF StreamsOK, Keys
    <2>2. results'[s] = [results[s] EXCEPT ![index[s]] = @ + 1]
      BY <1>1 DEF StreamsOK, Book
    <2>3. Booked(s, k)' = SumFunctionOnSet(results'[s], KeysUpTo(k))
      BY DEF Booked
    <2>4. Booked(s, k)' = SumFunctionOnSet([results[s] EXCEPT ![index[s]] = @ + 1], KeysUpTo(k))
      BY <2>2, <2>3, Zenon
    <2> QED
      BY <1>1, <2>1, <2>4, SumOfBooking DEF Booked
  <1>2. CASE ~Book(s)
    <2>1. results'[s] = results[s]
      <3>1. CASE UNCHANGED streamVars
        BY <3>1 DEF streamVars
      <3>2. ASSUME NEW r \in Streams, Stream(r) PROVE results'[s] = results[s]
        BY <1>2, <3>2 DEF Stream, Open, Loop, Receive, Add, Check, ReadIndex, Book, SlowStart,
                          Goto, StreamsOK
      <3> QED
        BY <3>1, <3>2, TimerFrame DEF Next
    <2>2. Booked(s, k)' = SumFunctionOnSet(results'[s], KeysUpTo(k))
      BY DEF Booked
    <2> QED
      BY <1>2, <2>1, <2>2, Zenon DEF Booked
  <1> QED
    BY <1>1, <1>2

\* The first k half seconds are over
LEMMA OverWhenReported ==
  ASSUME TypeInv, PositionInv, NEW k \in 0..TIMER_DURATION
  PROVE  k \in Keys /\ (k <= TIMER_INDEX \/ TIMER_STOPPED)
  BY HalfSecondsPositive DEF TypeInv, TypeOK, TimerOK, PositionInv, DurationInv, Keys

LEMMA IndexGrows ==
  ASSUME TypeInv, SlowStartInv, [Next]_vars
  PROVE  TIMER_INDEX <= TIMER_INDEX'
  <1> USE DEF TypeInv, TypeOK, TimerOK, SlowStartInv, ClockInv, Keys
  <1>1. CASE TimerTick
    BY <1>1 DEF TimerTick, NextIndex
  <1>2. CASE TimerStart \/ TimerTail \/ CopyResults \/ AddStream
    BY <1>2 DEF TimerStart, TimerTail, CopyResults, AddStream
  <1>3. CASE Clock \/ Fail \/ Done \/ UNCHANGED vars
    BY <1>3 DEF Clock, Fail, Done, vars, timerVars
  <1>4. ASSUME NEW s \in Streams, Stream(s) PROVE TIMER_INDEX' = TIMER_INDEX
    BY <1>4, StreamFrame DEF timerVars
  <1> QED
    BY <1>1, <1>2, <1>3, <1>4 DEF Next, Timer

\* What is booked and on its way never grows any more, what is booked never
\* shrinks
LEMMA BookedSettles ==
  ASSUME TypeInv, SlowStartInv, PositionInv, [Next]_vars,
         NEW s \in Streams, pc[s] # "open", NEW k \in 0..TIMER_DURATION
  PROVE  /\ Booked(s, k) \in Nat /\ Booked(s, k)' \in Nat
         /\ OnItsWay(s, k) \in {0, 1} /\ OnItsWay(s, k)' \in {0, 1}
         /\ Booked(s, k) <= Booked(s, k)'
         /\ Booked(s, k)' + OnItsWay(s, k)' <= Booked(s, k) + OnItsWay(s, k)
  <1>1. StreamsOK /\ k \in Keys /\ (k <= TIMER_INDEX \/ TIMER_STOPPED)
    BY OverWhenReported DEF TypeInv, TypeOK
  <1>2. Booked(s, k) \in Nat /\ OnItsWay(s, k) \in {0, 1} /\ OnItsWay(s, k)' \in {0, 1}
    BY <1>1, BookedNat DEF OnItsWay
  <1>3. IF Book(s) THEN Booked(s, k)' = Booked(s, k) + (IF index[s] < k THEN 1 ELSE 0)
                   ELSE Booked(s, k)' = Booked(s, k)
    BY <1>1, BookedChanges
  <1>4. CASE Book(s)
    <2>1. OnItsWay(s, k) = (IF index[s] < k THEN 1 ELSE 0) /\ OnItsWay(s, k)' = 0
      BY <1>4 DEF Book, Goto, OnItsWay, TypeInv, TypeOK, StreamsOK
    <2> QED
      BY <1>2, <1>3, <1>4, <2>1
  <1>5. ASSUME ~Book(s) PROVE OnItsWay(s, k)' <= OnItsWay(s, k)
    <2>1. CASE Timer \/ Clock \/ Fail \/ Done \/ UNCHANGED vars
      <3>1. pc'[s] = pc[s] /\ index'[s] = index[s]
        BY <2>1, TimerFrame DEF streamVars
      <3>2. TIMER_INDEX <= TIMER_INDEX'
        BY IndexGrows
      <3>3. TIMER_INDEX \in Int /\ TIMER_INDEX' \in Int /\ k \in Int
        BY <1>1, TypeInvStep DEF TypeInv, TypeOK, TimerOK, Keys
      <3> QED
        BY <3>1, <3>2, <3>3 DEF OnItsWay
    <2>2. ASSUME NEW r \in Streams, Stream(r) PROVE OnItsWay(s, k)' <= OnItsWay(s, k)
      <3>1. TIMER_INDEX' = TIMER_INDEX
        BY <2>2, StreamFrame DEF timerVars
      <3>2. CASE r # s
        <4>1. pc'[s] = pc[s] /\ index'[s] = index[s]
          BY <2>2, <3>2 DEF Stream, Open, Loop, Receive, Add, Check, ReadIndex, Book, SlowStart,
                            Goto, TypeInv, TypeOK, StreamsOK
        <4> QED
          BY <1>2, <3>1, <4>1 DEF OnItsWay
      <3>3. CASE r = s
        <4> USE <2>2, <3>1, <3>3 DEF Goto, OnItsWay, TypeInv, TypeOK, StreamsOK, TimerOK, Keys
        <4>1. CASE Open(s)
          BY <4>1 DEF Open
        <4>2. CASE Loop(s)
          BY <1>1, <4>2 DEF Loop, MayReceive
        <4>3. CASE Receive(s)
          BY <4>3 DEF Receive
        <4>4. CASE Add(s)
          BY <4>4 DEF Add
        <4>5. CASE Check(s)
          BY <4>5 DEF Check
        <4>6. CASE ReadIndex(s)
          BY <4>6 DEF ReadIndex
        <4>7. CASE SlowStart(s)
          BY <4>7 DEF SlowStart
        <4> QED
          BY <1>5, <4>1, <4>2, <4>3, <4>4, <4>5, <4>6, <4>7 DEF Stream
      <3> QED
        BY <3>2, <3>3
    <2> QED
      BY <2>1, <2>2 DEF Next
  <1> QED
    BY <1>2, <1>3, <1>4, <1>5

LEMMA NearStays ==
  ASSUME TypeInv, SlowStartInv, PositionInv, [Next]_vars,
         NEW s \in Streams, pc[s] # "open", NEW k \in 0..TIMER_DURATION
  PROVE  \A b \in Nat : Near(b, s, k) => Near(b, s, k)' /\ Booked(s, k) - b \in {0, 1}
  <1>1. /\ Booked(s, k) \in Nat /\ Booked(s, k)' \in Nat
        /\ OnItsWay(s, k) \in {0, 1} /\ OnItsWay(s, k)' \in {0, 1}
        /\ Booked(s, k) <= Booked(s, k)'
        /\ Booked(s, k)' + OnItsWay(s, k)' <= Booked(s, k) + OnItsWay(s, k)
    BY BookedSettles
  <1>2. SUFFICES ASSUME NEW b \in Nat, Near(b, s, k)
                 PROVE  Near(b, s, k)' /\ Booked(s, k) - b \in {0, 1}
    OBVIOUS
  <1>3. b <= Booked(s, k) /\ Booked(s, k) + OnItsWay(s, k) <= b + 1
    BY <1>2 DEF Near
  <1>4. b <= Booked(s, k)' /\ Booked(s, k)' + OnItsWay(s, k)' <= b + 1
    BY <1>1, <1>3
  <1>5. Near(b, s, k)'
    BY <1>4 DEF Near
  <1> QED
    BY <1>1, <1>3, <1>5

-----------------------------------------------------------------------------
(* The position of the report *)

LEMMA InitPosition == Init => PositionInv
  <1> SUFFICES ASSUME Init PROVE PositionInv
    OBVIOUS
  <1>1. ReportTypes
    BY DEF Init, ReportTypes, Bytes, Nothing
  <1> QED
    BY <1>1, HalfSecondsPositive DEF Init, PositionInv, SyncInv, DurationInv, LengthInv, Reporting

LEMMA StreamPosition ==
  ASSUME TypeInv, PositionInv, NEW s \in Streams, Stream(s)
  PROVE  PositionInv'
  <1>1. UNCHANGED <<timerVars, reportVars, hasError>>
    BY StreamFrame
  <1>2. SyncInv'
    <2>1. /\ syncing_threads \subseteq syncing_threads' /\ syncing_threads' \subseteq Streams
          /\ \A r \in syncing_threads' : pc'[r] # "open"
      BY DEF Stream, Open, Loop, Receive, Add, Check, ReadIndex, Book, SlowStart, Goto,
             TypeInv, TypeOK, StreamsOK, PositionInv, SyncInv
    <2> QED
      BY <1>1, <2>1 DEF PositionInv, SyncInv, timerVars
  <1>3. ReportTypes' /\ DurationInv' /\ LengthInv'
    BY <1>1 DEF PositionInv, ReportTypes, DurationInv, LengthInv, Reporting, timerVars, reportVars
  <1> QED
    BY <1>2, <1>3 DEF PositionInv

LEMMA TimerNumbers ==
  ASSUME TypeInv, SlowStartInv
  PROVE  /\ TIMER_INDEX \in Int /\ TIMER_DURATION \in Nat /\ clock \in Nat
         /\ TIMER_INDEX <= clock /\ clock <= HalfSeconds /\ TIMER_DURATION <= HalfSeconds
         /\ HalfSeconds \in Nat /\ HalfSeconds >= 2
         /\ tpc # "sync" => TIMER_RUNNING
         /\ MeasurementOver <=> clock = HalfSeconds
  BY HalfSecondsPositive
     DEF TypeInv, TypeOK, TimerOK, SlowStartInv, ClockInv, BeforeInv, Keys, MeasurementOver

LEMMA TimerSync ==
  ASSUME TypeInv, SlowStartInv, PositionInv, Timer \/ Clock \/ Fail \/ Done \/ UNCHANGED vars
  PROVE  SyncInv'
  <1>1. UNCHANGED <<syncing_threads, pc>>
    BY TimerFrame DEF streamVars
  <1>2. TIMER_RUNNING' => TIMER_RUNNING \/ syncing_threads = Streams
    BY DEF Timer, TimerStart, TimerTick, TimerTail, CopyResults, AddStream, Clock, Fail, Done,
           vars, timerVars
  <1> QED
    BY <1>1, <1>2 DEF PositionInv, SyncInv

LEMMA TimerDuration ==
  ASSUME TypeInv, SlowStartInv, PositionInv, Timer \/ Clock \/ Fail \/ Done \/ UNCHANGED vars
  PROVE  /\ DurationInv'
         /\ TIMER_DURATION <= TIMER_DURATION'
         /\ TIMER_STOPPED => TIMER_STOPPED' /\ TIMER_DURATION' = TIMER_DURATION
         /\ TIMER_RUNNING => TIMER_RUNNING'
  <1> USE TimerNumbers
  <1>1. CASE TimerTick
    <2>1. TIMER_DURATION' = clock /\ ~TIMER_STOPPED /\ TIMER_RUNNING /\ TIMER_RUNNING'
      BY <1>1 DEF TimerTick
    <2>2. TIMER_INDEX = TIMER_DURATION
      BY <2>1 DEF PositionInv, DurationInv
    <2>3. IF TIMER_STOPPED' THEN TIMER_DURATION' = HalfSeconds ELSE TIMER_INDEX' = TIMER_DURATION'
      <3>1. CASE clock = HalfSeconds
        <4>1. MeasurementOver /\ TIMER_STOPPED' = MeasurementOver
          BY <1>1, <3>1 DEF TimerTick
        <4>2. TIMER_DURATION' = HalfSeconds
          BY <2>1, <3>1
        <4> QED
          BY <4>1, <4>2, Zenon
      <3>2. CASE clock # HalfSeconds
        <4>1. ~MeasurementOver /\ TIMER_STOPPED' = MeasurementOver /\ TIMER_INDEX' = NextIndex
          BY <1>1, <3>2 DEF TimerTick
        <4> QED
          BY <2>1, <4>1, Zenon DEF NextIndex
      <3> QED
        BY <3>1, <3>2
    <2> QED
      BY <2>1, <2>2, <2>3 DEF DurationInv
  <1>2. CASE ~TimerTick
    <2>1. UNCHANGED <<TIMER_STOPPED, TIMER_INDEX, TIMER_DURATION>>
      BY <1>2 DEF Timer, TimerStart, TimerTail, CopyResults, AddStream, Clock, Fail, Done,
                  vars, timerVars
    <2>2. TIMER_RUNNING => TIMER_RUNNING'
      BY <1>2 DEF Timer, TimerStart, TimerTail, CopyResults, AddStream, Clock, Fail, Done,
                  vars, timerVars
    <2> QED
      BY <2>1, <2>2 DEF PositionInv, DurationInv
  <1> QED
    BY <1>1, <1>2

\* What AddStream adds to the sums of the step
Step == Len(steps) + 1
Added ==
  [bytes    |-> sums.bytes + SumFunctionOnSet(copied, KeysUpTo(Step)),
   distinct |-> sums.distinct + copied[Step - 1],
   total    |-> sums.total + SumFunctionOnSet(copied, KeysUpTo(Step)) + datasize_slow_start[at]]

LEMMA AddStreamIs ==
  ASSUME TypeInv, SlowStartInv, PositionInv, AddStream
  PROVE  /\ tpc = "start" /\ TIMER_RUNNING /\ at \in Streams
         /\ steps \in Seq(Bytes) /\ Len(steps) \in Nat /\ Step \in 1..TIMER_DURATION
         /\ Step \in Keys /\ Step - 1 \in Keys /\ copied \in [Keys -> Nat]
         /\ sums \in Bytes /\ Added \in Bytes
         /\ UNCHANGED <<TIMER_RUNNING, TIMER_STOPPED, TIMER_INDEX, TIMER_DURATION, clock,
                        finishing, copied, streamVars, hasError>>
         /\ \/ /\ at < DL_STREAMS /\ at' = at + 1 /\ sums' = Added /\ tpc' = "copy"
               /\ UNCHANGED <<steps, reported>>
            \/ /\ at = DL_STREAMS /\ at' = 1 /\ sums' = Nothing
               /\ steps' = Append(steps, Added)
               /\ \/ Step < TIMER_DURATION /\ tpc' = "copy" /\ UNCHANGED reported
                  \/ /\ Step = TIMER_DURATION /\ reported' = steps'
                     /\ tpc' = IF finishing THEN "ended" ELSE "tick"
  <1>1. /\ tpc = "start" /\ TIMER_RUNNING /\ at \in Streams
        /\ steps \in Seq(Bytes) /\ Len(steps) \in Nat /\ sums \in Bytes /\ copied \in [Keys -> Nat]
        /\ Len(steps) < TIMER_DURATION
    <2>1. tpc = "start"
      BY DEF AddStream
    <2> QED
      BY <2>1, TimerNumbers
         DEF TypeInv, TypeOK, TimerOK, PositionInv, ReportTypes, LengthInv, Reporting
  <1>2. Step \in 1..TIMER_DURATION /\ Step \in Keys /\ Step - 1 \in Keys
    BY <1>1, TimerNumbers DEF Step, Keys
  <1>3. Added \in Bytes
    <2>1. /\ SumFunctionOnSet(copied, KeysUpTo(Step)) \in Nat
          /\ copied[Step - 1] \in Nat /\ datasize_slow_start[at] \in Nat
      BY <1>1, <1>2, SumOfResults DEF TypeInv, TypeOK, StreamsOK
    <2>2. sums.bytes \in Nat /\ sums.distinct \in Nat /\ sums.total \in Nat
      BY <1>1 DEF Bytes
    <2> QED
      BY <2>1, <2>2 DEF Added, Bytes
  <1>4. MaxSteps = TIMER_DURATION
    BY TimerNumbers DEF MaxSteps
  <1>5. UNCHANGED <<TIMER_RUNNING, TIMER_STOPPED, TIMER_INDEX, TIMER_DURATION, clock,
                    finishing, copied, streamVars, hasError>>
    BY DEF AddStream
  <1>6. IF at < DL_STREAMS
          THEN /\ at' = at + 1 /\ sums' = Added /\ tpc' = "copy"
               /\ UNCHANGED <<steps, reported>>
          ELSE /\ at' = 1 /\ sums' = Nothing
               /\ steps' = Append(steps, Added)
               /\ IF Step < MaxSteps
                    THEN tpc' = "copy" /\ UNCHANGED reported
                    ELSE reported' = steps' /\ tpc' = IF finishing THEN "ended" ELSE "tick"
    BY DEF AddStream, Added, Step
  <1>7. (~(at < DL_STREAMS) => at = DL_STREAMS) /\ (~(Step < TIMER_DURATION) => Step = TIMER_DURATION)
    BY <1>1, <1>2, DownloadAssumption, TimerNumbers DEF Streams
  <1> HIDE DEF Step
  <1> QED
    BY <1>1, <1>2, <1>3, <1>4, <1>5, <1>6, <1>7

LEMMA EmptyReport == << >> \in Seq(Bytes) /\ Len(<< >>) = 0 /\ Nothing \in Bytes
  BY DEF Bytes, Nothing

LEMMA Appended ==
  ASSUME NEW q \in Seq(Bytes), NEW b \in Bytes
  PROVE  /\ Append(q, b) \in Seq(Bytes) /\ Len(Append(q, b)) = Len(q) + 1
         /\ \A k \in 1..Len(q) : Append(q, b)[k] = q[k]
         /\ Append(q, b)[Len(q) + 1] = b
  OBVIOUS

LEMMA TimerReport ==
  ASSUME TypeInv, SlowStartInv, PositionInv, Timer \/ Clock \/ Fail \/ Done \/ UNCHANGED vars
  PROVE  ReportTypes' /\ LengthInv'
  <1> USE EmptyReport, TimerNumbers
  <1>a. /\ steps \in Seq(Bytes) /\ sums \in Bytes /\ reported \in Seq(Bytes)
        /\ Len(steps) \in Nat /\ Len(reported) \in Nat
    BY DEF PositionInv, ReportTypes
  <1>1. CASE TimerStart
    BY <1>1, <1>a DEF TimerStart, reportVars, PositionInv, ReportTypes, LengthInv, Reporting
  <1>2. CASE TimerTick
    <2>1. /\ tpc = "tick" /\ TIMER_DURATION' = clock /\ ~TIMER_STOPPED
          /\ UNCHANGED <<TIMER_RUNNING, reported, hasError>>
      BY <1>2 DEF TimerTick
    <2>2. \/ /\ TIMER_INDEX' # TIMER_INDEX /\ TIMER_INDEX' = NextIndex
             /\ tpc' = "copy" /\ steps' = << >> /\ sums' = Nothing
             /\ finishing' = FALSE
          \/ tpc' = "tick" /\ steps' = steps /\ sums' = sums
      BY <1>2, <2>1 DEF TimerTick, BeginReport
    <2>3. TIMER_INDEX = TIMER_DURATION /\ Len(reported) <= TIMER_DURATION /\ TIMER_RUNNING
      BY <2>1 DEF PositionInv, DurationInv, LengthInv
    <2>4. TIMER_INDEX \in Nat
      BY DEF TypeInv, TypeOK, TimerOK
    <2>5. TIMER_INDEX' # TIMER_INDEX /\ TIMER_INDEX' = NextIndex => clock > 0
      BY <2>4 DEF NextIndex
    <2>6. ReportTypes'
      BY <1>a, <2>1, <2>2 DEF ReportTypes
    <2>7. CASE tpc' = "copy"
      <3>1. Len(steps') < TIMER_DURATION' /\ finishing' = FALSE
        BY <2>1, <2>2, <2>5, <2>7
      <3>2. Len(reported') <= TIMER_DURATION' /\ TIMER_RUNNING'
        BY <1>a, <2>1, <2>3
      <3> QED
        BY <2>6, <2>7, <3>1, <3>2 DEF LengthInv
    <2>8. CASE tpc' = "tick"
      BY <1>a, <2>1, <2>3, <2>6, <2>8 DEF LengthInv, Reporting
    <2> QED
      BY <2>2, <2>7, <2>8
  <1>3. CASE TimerTail
    <2>1. /\ tpc = "tick" /\ TIMER_STOPPED
          /\ UNCHANGED <<TIMER_RUNNING, TIMER_STOPPED, TIMER_DURATION, reported, hasError>>
      BY <1>3 DEF TimerTail
    <2>2. \/ hasError /\ tpc' = "ended" /\ steps' = steps /\ sums' = sums
          \/ tpc' = "copy" /\ steps' = << >> /\ sums' = Nothing
      BY <1>3 DEF TimerTail, BeginReport
    <2>3. TIMER_DURATION = HalfSeconds /\ Len(reported) <= TIMER_DURATION /\ TIMER_RUNNING
      BY <2>1 DEF PositionInv, DurationInv, LengthInv
    <2>4. ReportTypes'
      BY <1>a, <2>1, <2>2 DEF ReportTypes
    <2>5. Len(reported') <= TIMER_DURATION' /\ TIMER_RUNNING' /\ TIMER_STOPPED'
      BY <1>a, <2>1, <2>3
    <2>6. CASE tpc' = "copy"
      <3>1. Len(steps') < TIMER_DURATION'
        BY <2>1, <2>2, <2>3, <2>6
      <3> QED
        BY <2>4, <2>5, <2>6, <3>1 DEF LengthInv
    <2>7. CASE tpc' = "ended"
      BY <2>1, <2>2, <2>4, <2>5, <2>7 DEF LengthInv, Reporting
    <2> QED
      BY <2>2, <2>6, <2>7
  <1>4. CASE CopyResults
    <2>1. copied' \in [Keys -> Nat]
      BY <1>4 DEF CopyResults, PositionInv, SyncInv, TypeInv, TypeOK, TimerOK, StreamsOK
    <2> QED
      BY <1>4, <1>a, <2>1 DEF CopyResults, PositionInv, ReportTypes, LengthInv, Reporting
  <1>5. CASE AddStream
    <2>1. /\ Append(steps, Added) \in Seq(Bytes) /\ Len(Append(steps, Added)) = Step
          /\ Len(steps) = Step - 1 /\ Step \in Int
      BY <1>5, AddStreamIs, Appended DEF Step
    <2>2. /\ Reporting /\ TIMER_RUNNING
          /\ Len(reported) <= TIMER_DURATION /\ (finishing => TIMER_STOPPED)
      BY <1>5, AddStreamIs DEF PositionInv, LengthInv, Reporting
    <2>3. TIMER_STOPPED => TIMER_DURATION = HalfSeconds
      BY DEF PositionInv, DurationInv
    <2>4. /\ sums' \in Bytes /\ tpc' # "start" /\ UNCHANGED <<TIMER_RUNNING, TIMER_STOPPED,
                TIMER_DURATION, finishing, hasError>>
          /\ Step \in 1..TIMER_DURATION
      BY <1>5, AddStreamIs
    <2>5. CASE UNCHANGED <<steps, reported>> /\ tpc' = "copy"
      BY <1>a, <2>2, <2>4, <2>5 DEF PositionInv, ReportTypes, LengthInv, Reporting
    <2>6. CASE /\ steps' = Append(steps, Added) /\ UNCHANGED reported
               /\ Step < TIMER_DURATION /\ tpc' = "copy"
      <3>1. ReportTypes'
        BY <1>a, <2>1, <2>4, <2>6 DEF ReportTypes
      <3>2. Len(steps') < TIMER_DURATION'
        BY <2>1, <2>4, <2>6
      <3> QED
        BY <2>2, <2>4, <2>6, <3>1, <3>2 DEF LengthInv
    <2>7. CASE /\ steps' = Append(steps, Added) /\ reported' = steps'
               /\ Step = TIMER_DURATION /\ tpc' = IF finishing THEN "ended" ELSE "tick"
      <3>1. ReportTypes'
        BY <1>a, <2>1, <2>4, <2>7 DEF ReportTypes
      <3>2. Len(reported') = TIMER_DURATION'
        BY <2>1, <2>4, <2>7
      <3> QED
        BY <2>2, <2>3, <2>4, <2>7, <3>1, <3>2 DEF LengthInv, Reporting
    <2> QED
      BY <1>5, <2>5, <2>6, <2>7, AddStreamIs
  <1>6. CASE Clock \/ Fail \/ Done \/ UNCHANGED vars
    BY <1>6, <1>a DEF Clock, Fail, Done, vars, timerVars, reportVars, PositionInv, ReportTypes,
                      LengthInv, Reporting
  <1> QED
    BY <1>1, <1>2, <1>3, <1>4, <1>5, <1>6 DEF Timer

LEMMA PositionStep ==
  ASSUME TypeInv, SlowStartInv, PositionInv, [Next]_vars
  PROVE  PositionInv'
  BY StreamPosition, TimerSync, TimerDuration, TimerReport DEF Next, PositionInv

-----------------------------------------------------------------------------
(* What the reports have counted *)

LEMMA StreamsFinite ==
  /\ IsFiniteSet(Streams) /\ DL_STREAMS \in Nat /\ Streams = 1..DL_STREAMS
  /\ 1 \in Streams /\ DL_STREAMS \in Streams
  BY DownloadAssumption, FS_Interval DEF Streams

LEMMA SumOverNone == \A c : SumFunctionOnSet(c, 1..(1 - 1)) = 0
  <1>1. 1..(1 - 1) = {}
    OBVIOUS
  <1> QED
    BY <1>1, SumEmpty, Zenon

\* Setting the value of n extends the sum up to n
LEMMA SumExtended ==
  ASSUME NEW n \in Streams, NEW c \in [Streams -> Nat], NEW b \in Nat
  PROVE  /\ [c EXCEPT ![n] = b] \in [Streams -> Nat]
         /\ SumFunctionOnSet([c EXCEPT ![n] = b], 1..n) = SumFunctionOnSet(c, 1..(n - 1)) + b
         /\ SumFunctionOnSet(c, 1..(n - 1)) \in Nat
  <1> DEFINE d == [c EXCEPT ![n] = b]
             T == 1..(n - 1)
  <1>1. /\ n \in Nat /\ n >= 1 /\ 1..n \subseteq Streams /\ T \subseteq Streams
        /\ IsFiniteSet(T) /\ n \notin T
    <2>1. /\ n \in Nat /\ n >= 1 /\ 1..n \subseteq Streams /\ T \subseteq Streams
          /\ n \notin T
      BY StreamsFinite
    <2> QED
      BY <2>1, StreamsFinite, FS_Subset
  <1>2. \A x \in 1..n : d[x] \in Int
    BY <1>1
  <1>3. /\ d[n] = b /\ d \in [Streams -> Nat]
        /\ \A x \in T : c[x] \in Int /\ c[x] \in Nat /\ d[x] = c[x]
    BY <1>1
  <1> HIDE DEF d
  <1>4. SumFunctionOnSet(d, 1..n) = d[n] + SumFunctionOnSet(d, T)
    BY <1>1, <1>2, SumUpTo
  <1> HIDE DEF T
  <1>5. SumFunctionOnSet(d, T) = SumFunctionOnSet(c, T)
    BY <1>1, <1>3, SumEqual
  <1>6. SumFunctionOnSet(c, T) \in Nat
    BY <1>1, <1>3, SumNat
  <1> QED
    BY <1>3, <1>4, <1>5, <1>6 DEF d, T

LEMMA StreamsOpen ==
  ASSUME TypeInv, PositionInv, TIMER_RUNNING, NEW s \in Streams
  PROVE  pc[s] # "open"
  BY DEF PositionInv, SyncInv

LEMMA CountedStays ==
  ASSUME TypeInv, SlowStartInv, PositionInv, TIMER_RUNNING, [Next]_vars,
         NEW k \in 0..TIMER_DURATION
  PROVE  \A v : Counted(v, k) => Counted(v, k)'
  <1> SUFFICES ASSUME NEW v, Counted(v, k) PROVE Counted(v, k)'
    OBVIOUS
  <1>1. PICK c \in [Streams -> Nat] : /\ v = SumFunctionOnSet(c, Streams)
                                      /\ \A s \in Streams : Near(c[s], s, k)
    BY DEF Counted
  <1>2. \A s \in Streams : Near(c[s], s, k)'
    BY <1>1, StreamsOpen, NearStays
  <1> QED
    BY <1>1, <1>2 DEF Counted

LEMMA CountedSoFarStays ==
  ASSUME TypeInv, SlowStartInv, PositionInv, TIMER_RUNNING, [Next]_vars, at' = at,
         NEW k \in 0..TIMER_DURATION
  PROVE  \A v : CountedSoFar(v, k) => CountedSoFar(v, k)'
  <1> SUFFICES ASSUME NEW v, CountedSoFar(v, k) PROVE CountedSoFar(v, k)'
    OBVIOUS
  <1>1. PICK c \in [Streams -> Nat] : /\ v = SumFunctionOnSet(c, 1..(at - 1))
                                      /\ \A s \in 1..(at - 1) : Near(c[s], s, k)
    BY DEF CountedSoFar
  <1>2. 1..(at - 1) \subseteq Streams
    BY StreamsFinite DEF TypeInv, TypeOK, TimerOK
  <1>3. \A s \in 1..(at - 1) : Near(c[s], s, k)'
    BY <1>1, <1>2, StreamsOpen, NearStays
  <1> QED
    BY <1>1, <1>3 DEF CountedSoFar

\* Making the copy, like any step that does not touch the report, keeps what
\* the callback finds
LEMMA FindsStays ==
  ASSUME TypeInv, SlowStartInv, PositionInv, TIMER_RUNNING, [Next]_vars,
         UNCHANGED <<at, copied, tpc>> \/ CopyResults,
         NEW k \in 0..TIMER_DURATION, NEW s \in Streams
  PROVE  \A b \in Nat : Finds(b, s, k) => Finds(b, s, k)'
  <1>1. \A b \in Nat : Near(b, s, k) => Near(b, s, k)' /\ Booked(s, k) - b \in {0, 1}
    BY StreamsOpen, NearStays
  <1> SUFFICES ASSUME NEW b \in Nat, Finds(b, s, k) PROVE Finds(b, s, k)'
    OBVIOUS
  <1>2. CASE UNCHANGED <<at, copied, tpc>>
    <2>1. CASE s = at /\ tpc = "start"
      <3>1. s = at' /\ tpc' = "start" /\ SumFunctionOnSet(copied, KeysUpTo(k)) - b \in {0, 1}
        BY <1>2, <2>1 DEF Finds
      <3>2. SumFunctionOnSet(copied', KeysUpTo(k)) = SumFunctionOnSet(copied, KeysUpTo(k))
        BY <1>2, Zenon
      <3> QED
        BY <3>1, <3>2 DEF Finds
    <2>2. CASE ~(s = at /\ tpc = "start")
      BY <1>1, <1>2, <2>2 DEF Finds
    <2> QED
      BY <2>1, <2>2
  <1>3. CASE CopyResults
    <2>1. tpc = "copy" /\ tpc' = "start" /\ at' = at /\ copied' = results[at]
      BY <1>3 DEF CopyResults
    <2>2. Near(b, s, k)' /\ Booked(s, k) - b \in {0, 1}
      BY <1>1, <2>1 DEF Finds
    <2>3. CASE s = at
      <3>1. SumFunctionOnSet(copied', KeysUpTo(k)) = Booked(s, k)
        BY <2>1, <2>3, Zenon DEF Booked
      <3> QED
        BY <2>1, <2>2, <2>3, <3>1 DEF Finds
    <2>4. CASE s # at
      BY <2>1, <2>2, <2>4 DEF Finds
    <2> QED
      BY <2>3, <2>4
  <1> QED
    BY <1>2, <1>3

LEMMA FollowsStays ==
  ASSUME TypeInv, SlowStartInv, PositionInv, TIMER_RUNNING, [Next]_vars,
         UNCHANGED <<at, copied, tpc>> \/ CopyResults, NEW k \in 0..TIMER_DURATION
  PROVE  \A v, w : Follows(w, v, k) => Follows(w, v, k)'
  <1> SUFFICES ASSUME NEW v, NEW w, Follows(w, v, k) PROVE Follows(w, v, k)'
    OBVIOUS
  <1>1. PICK c, d \in [Streams -> Nat] :
          /\ v = SumFunctionOnSet(c, Streams)
          /\ w = SumFunctionOnSet(d, 1..(at - 1))
          /\ \A s \in 1..(at - 1) : d[s] - c[s] \in {0, 1}
          /\ \A s \in at..DL_STREAMS : Finds(c[s], s, k)
    BY DEF Follows
  <1>2. at' = at
    BY DEF CopyResults
  <1>3. at..DL_STREAMS \subseteq Streams
    BY StreamsFinite DEF TypeInv, TypeOK, TimerOK
  <1>4. \A s \in at..DL_STREAMS : Finds(c[s], s, k)'
    BY <1>1, <1>3, FindsStays
  <1> QED
    BY <1>1, <1>2, <1>4 DEF Follows

\* A new step begins with what the last report, or step, has counted
LEMMA FollowsBegins ==
  ASSUME at' = 1, tpc' = "copy", NEW k, NEW v, Counted(v, k)'
  PROVE  Follows(0, v, k)'
  <1>1. PICK c \in [Streams -> Nat] : /\ v = SumFunctionOnSet(c, Streams)
                                      /\ \A s \in Streams : Near(c[s], s, k)'
    BY DEF Counted
  <1>2. \A s \in 1..DL_STREAMS : Finds(c[s], s, k)'
    BY <1>1, StreamsFinite DEF Finds
  <1>3. SumFunctionOnSet(c, 1..(1 - 1)) = 0
    BY SumOverNone
  <1>4. 1..(1 - 1) = {}
    OBVIOUS
  <1> QED
    BY <1>1, <1>2, <1>3, <1>4 DEF Follows

LEMMA CountedSoFarBegins == ASSUME at' = 1, NEW k PROVE CountedSoFar(0, k)'
  <1>1. SumFunctionOnSet([s \in Streams |-> 0], 1..(1 - 1)) = 0
    BY SumOverNone
  <1>2. 1..(1 - 1) = {}
    OBVIOUS
  <1> QED
    BY <1>1, <1>2 DEF CountedSoFar

\* What AddStream adds was booked when the copy was made
LEMMA CopySum ==
  ASSUME TypeInv, SlowStartInv, PositionInv, AddStream, NEW k \in 0..TIMER_DURATION
  PROVE  /\ k \in Keys /\ SumFunctionOnSet(copied, KeysUpTo(k)) \in Nat
         /\ \A s \in Streams : \A b \in Nat : Near(b, s, k) => Near(b, s, k)'
  <1>1. k \in Keys /\ copied \in [Keys -> Nat] /\ TIMER_RUNNING
    BY AddStreamIs, OverWhenReported
  <1>2. [Next]_vars
    BY DEF Next, Timer
  <1>3. \A s \in Streams : \A b \in Nat : Near(b, s, k) => Near(b, s, k)'
    BY <1>1, <1>2, StreamsOpen, NearStays
  <1> QED
    BY <1>1, <1>3, SumOfResults

LEMMA SoFarAdds ==
  ASSUME TypeInv, SlowStartInv, PositionInv, CopyInv, AddStream,
         NEW k \in 0..TIMER_DURATION, NEW v, CountedSoFar(v, k),
         NEW w, w = v + SumFunctionOnSet(copied, KeysUpTo(k))
  PROVE  /\ at < DL_STREAMS => CountedSoFar(w, k)'
         /\ at = DL_STREAMS => Counted(w, k)'
  <1>1. PICK c \in [Streams -> Nat] : /\ v = SumFunctionOnSet(c, 1..(at - 1))
                                      /\ \A s \in 1..(at - 1) : Near(c[s], s, k)
    BY DEF CountedSoFar
  <1>b. PICK b \in Nat : b = SumFunctionOnSet(copied, KeysUpTo(k))
    BY CopySum
  <1>2. /\ at \in Streams /\ tpc = "start"
        /\ \A s \in Streams : \A x \in Nat : Near(x, s, k) => Near(x, s, k)'
    BY CopySum, AddStreamIs
  <1>d. PICK d \in [Streams -> Nat] : d = [c EXCEPT ![at] = b]
    BY <1>1, <1>2, <1>b
  <1>3. SumFunctionOnSet(d, 1..at) = w
    <2>1. SumFunctionOnSet([c EXCEPT ![at] = b], 1..at) = SumFunctionOnSet(c, 1..(at - 1)) + b
      <3>1. at \in Streams /\ c \in [Streams -> Nat] /\ b \in Nat
        BY <1>1, <1>2, <1>b
      <3> QED
        BY <3>1, SumExtended
    <2>2. SumFunctionOnSet(d, 1..at) = SumFunctionOnSet(c, 1..(at - 1)) + b
      BY <1>d, <2>1, Zenon
    <2> QED
      BY <1>1, <1>b, <2>2
  <1>4. Near(b, at, k)
    BY <1>2, <1>b DEF CopyInv
  <1>5. at \in 1..DL_STREAMS
    BY <1>2, StreamsFinite
  <1>6. \A s \in 1..at : Near(d[s], s, k)'
    <2> SUFFICES ASSUME NEW s \in 1..at PROVE Near(d[s], s, k)'
      OBVIOUS
    <2>1. s \in Streams
      BY <1>5, StreamsFinite
    <2>2. CASE s = at
      <3>1. d[s] = b /\ Near(b, s, k)'
        BY <1>2, <1>4, <1>b, <1>d, <2>1, <2>2
      <3> QED
        BY <3>1
    <2>3. CASE s # at
      <3>1. d[s] = c[s] /\ c[s] \in Nat /\ Near(c[s], s, k)
        BY <1>1, <1>5, <1>d, <2>1, <2>3
      <3>2. Near(c[s], s, k)'
        BY <1>2, <2>1, <3>1
      <3> QED
        BY <3>1, <3>2
    <2> QED
      BY <2>2, <2>3
  <1>7. ASSUME at < DL_STREAMS PROVE CountedSoFar(w, k)'
    <2>1. at' = at + 1 /\ 1..(at' - 1) = 1..at
      BY <1>5, <1>7, AddStreamIs
    <2>2. w = SumFunctionOnSet(d, 1..(at' - 1))
      BY <1>3, <2>1, Zenon
    <2> QED
      BY <1>d, <1>6, <2>1, <2>2 DEF CountedSoFar
  <1>8. ASSUME at = DL_STREAMS PROVE Counted(w, k)'
    <2>1. 1..at = Streams
      BY <1>8, StreamsFinite
    <2>2. w = SumFunctionOnSet(d, Streams)
      BY <1>3, <2>1, Zenon
    <2> QED
      BY <1>d, <1>6, <2>1, <2>2 DEF Counted
  <1> QED
    BY <1>7, <1>8

LEMMA FollowsAdds ==
  ASSUME TypeInv, SlowStartInv, PositionInv, AddStream,
         NEW k \in 0..TIMER_DURATION, NEW v, NEW u, Follows(u, v, k),
         NEW w, w = u + SumFunctionOnSet(copied, KeysUpTo(k))
  PROVE  /\ at < DL_STREAMS => Follows(w, v, k)'
         /\ at = DL_STREAMS => w - v \in 0..DL_STREAMS
  <1>1. PICK c, e \in [Streams -> Nat] :
          /\ v = SumFunctionOnSet(c, Streams)
          /\ u = SumFunctionOnSet(e, 1..(at - 1))
          /\ \A s \in 1..(at - 1) : e[s] - c[s] \in {0, 1}
          /\ \A s \in at..DL_STREAMS : Finds(c[s], s, k)
    BY DEF Follows
  <1>b. PICK b \in Nat : b = SumFunctionOnSet(copied, KeysUpTo(k))
    BY CopySum
  <1>2. /\ at \in Streams /\ tpc = "start"
        /\ \A s \in Streams : \A x \in Nat : Near(x, s, k) => Near(x, s, k)'
    BY CopySum, AddStreamIs
  <1>d. PICK d \in [Streams -> Nat] : d = [e EXCEPT ![at] = b]
    BY <1>1, <1>2, <1>b
  <1>3. SumFunctionOnSet(d, 1..at) = w
    <2>0. e \in [Streams -> Nat] /\ b \in Nat /\ at \in Streams
      BY <1>1, <1>2, <1>b
    <2>1. SumFunctionOnSet([e EXCEPT ![at] = b], 1..at) = SumFunctionOnSet(e, 1..(at - 1)) + b
      BY <2>0, SumExtended
    <2>2. SumFunctionOnSet(d, 1..at) = SumFunctionOnSet(e, 1..(at - 1)) + b
      BY <1>d, <2>1, Zenon
    <2> QED
      BY <1>1, <1>b, <2>2
  <1>4. at \in 1..DL_STREAMS
    BY <1>2, StreamsFinite
  <1>5. b - c[at] \in {0, 1}
    BY <1>1, <1>2, <1>4, <1>b DEF Finds
  <1>6. \A s \in 1..at : d[s] - c[s] \in {0, 1}
    <2> SUFFICES ASSUME NEW s \in 1..at PROVE d[s] - c[s] \in {0, 1}
      OBVIOUS
    <2>1. s \in Streams
      BY <1>4, StreamsFinite
    <2>2. CASE s = at
      BY <1>5, <1>d, <2>1, <2>2
    <2>3. CASE s # at
      BY <1>1, <1>4, <1>d, <2>1, <2>3
    <2> QED
      BY <2>2, <2>3
  <1>7. ASSUME at < DL_STREAMS PROVE Follows(w, v, k)'
    <2>1. at' = at + 1 /\ 1..(at' - 1) = 1..at /\ tpc' = "copy"
      BY <1>4, <1>7, AddStreamIs
    <2>2. w = SumFunctionOnSet(d, 1..(at' - 1))
      BY <1>3, <2>1, Zenon
    <2>3. ASSUME NEW s \in at'..DL_STREAMS PROVE Finds(c[s], s, k)'
      <3>1. s \in Streams /\ s \in at..DL_STREAMS /\ s # at
        BY <1>4, <2>1, StreamsFinite
      <3>2. Near(c[s], s, k)
        BY <1>1, <3>1 DEF Finds
      <3>3. c[s] \in Nat
        BY <1>1, <3>1
      <3>4. Near(c[s], s, k)'
        BY <1>2, <3>1, <3>2, <3>3
      <3> QED
        BY <2>1, <3>4 DEF Finds
    <2> QED
      BY <1>1, <1>d, <1>6, <2>1, <2>2, <2>3 DEF Follows
  <1>8. ASSUME at = DL_STREAMS PROVE w - v \in 0..DL_STREAMS
    <2>1. w = SumFunctionOnSet(d, 1..DL_STREAMS) /\ v = SumFunctionOnSet(c, 1..DL_STREAMS)
      BY <1>1, <1>3, <1>8, StreamsFinite, Zenon
    <2>2. \A s \in 1..DL_STREAMS : c[s] \in Int /\ d[s] \in Int /\ d[s] - c[s] \in {0, 1}
      BY <1>1, <1>d, <1>6, <1>8, StreamsFinite
    <2> QED
      BY <2>1, <2>2, SumsClose, StreamsFinite
  <1> QED
    BY <1>7, <1>8

LEMMA InitCount == Init => CountInv
  BY DEF Init, CountInv, CopyInv, StepsInv, ReportedInv, AddsUp, Reporting

\* The half seconds of the reports are over
LEMMA ReportLengths ==
  ASSUME TypeInv, SlowStartInv, PositionInv
  PROVE  /\ Len(reported) \in Nat /\ Len(steps) \in Nat /\ TIMER_DURATION \in Nat
         /\ 1..Len(reported) \subseteq 0..TIMER_DURATION
         /\ Reporting => /\ 1..Len(steps) \subseteq 0..TIMER_DURATION
                         /\ Len(steps) + 1 \in 0..TIMER_DURATION
                         /\ Len(steps) \in 0..TIMER_DURATION
                         /\ TIMER_RUNNING /\ at \in Streams
         /\ ~TIMER_RUNNING => reported = << >>
  <1>1. Len(reported) \in Nat /\ Len(steps) \in Nat /\ TIMER_DURATION \in Nat
    BY TimerNumbers DEF PositionInv, ReportTypes
  <1> QED
    BY <1>1, TimerNumbers DEF PositionInv, LengthInv, Reporting, TypeInv, TypeOK, TimerOK

LEMMA ReportedStays ==
  ASSUME TypeInv, SlowStartInv, PositionInv, CountInv, [Next]_vars, UNCHANGED reported,
         NEW k \in 1..Len(reported)
  PROVE  Counted(reported[k].bytes, k)'
  <1>1. TIMER_RUNNING /\ k \in 0..TIMER_DURATION
    BY ReportLengths
  <1>2. Counted(reported[k].bytes, k)
    BY DEF CountInv, ReportedInv
  <1>3. \A v : Counted(v, k) => Counted(v, k)'
    BY <1>1, CountedStays
  <1> QED
    BY <1>2, <1>3

\* The steps that leave the sums alone
LEMMA StepsStay ==
  ASSUME TypeInv, SlowStartInv, PositionInv, CountInv, [Next]_vars,
         UNCHANGED <<at, steps, sums, reported>>, UNCHANGED <<copied, tpc>> \/ CopyResults
  PROVE  StepsInv' /\ ReportedInv'
  <1>0. (Reporting' <=> Reporting)
    BY DEF Reporting, CopyResults
  <1>1. ASSUME Reporting PROVE StepsInv'
    <2> USE <1>1, ReportLengths
    <2>1. \A k \in 1..Len(steps) : Counted(steps[k].bytes, k)'
      <3> SUFFICES ASSUME NEW k \in 1..Len(steps) PROVE Counted(steps[k].bytes, k)'
        OBVIOUS
      <3>1. Counted(steps[k].bytes, k)
        BY DEF CountInv, StepsInv
      <3>2. \A v : Counted(v, k) => Counted(v, k)'
        BY CountedStays
      <3> QED
        BY <3>1, <3>2
    <2>2. CountedSoFar(sums.bytes, Len(steps) + 1)'
      <3>1. PICK k \in 0..TIMER_DURATION : k = Len(steps) + 1
        OBVIOUS
      <3>2. CountedSoFar(sums.bytes, k)
        BY <3>1 DEF CountInv, StepsInv
      <3>3. \A v : CountedSoFar(v, k) => CountedSoFar(v, k)'
        BY CountedSoFarStays DEF CopyResults
      <3> QED
        BY <3>1, <3>2, <3>3
    <2>3. Len(steps) > 0 => Follows(sums.bytes - sums.distinct, steps[Len(steps)].bytes, Len(steps))'
      <3>1. PICK k \in 0..TIMER_DURATION : k = Len(steps)
        OBVIOUS
      <3>2. Len(steps) > 0 => Follows(sums.bytes - sums.distinct, steps[k].bytes, k)
        BY <3>1 DEF CountInv, StepsInv
      <3>3. \A v, w : Follows(w, v, k) => Follows(w, v, k)'
        BY FollowsStays
      <3> QED
        BY <3>1, <3>2, <3>3
    <2>4. AddsUp(steps)'
      BY DEF CountInv, StepsInv, AddsUp
    <2> QED
      BY <2>1, <2>2, <2>3, <2>4 DEF StepsInv
  <1>2. ReportedInv'
    <2>1. \A k \in 1..Len(reported) : Counted(reported[k].bytes, k)'
      BY ReportedStays
    <2>2. AddsUp(reported)'
      BY DEF CountInv, ReportedInv, AddsUp
    <2>3. ASSUME Reporting, NEW k \in 1..Len(reported)
          PROVE  /\ k <= Len(steps) => steps[k].bytes - reported[k].bytes \in 0..DL_STREAMS
                 /\ k = Len(steps) + 1 => Follows(sums.bytes, reported[k].bytes, k)'
      <3>1. /\ k <= Len(steps) => steps[k].bytes - reported[k].bytes \in 0..DL_STREAMS
            /\ k = Len(steps) + 1 => Follows(sums.bytes, reported[k].bytes, k)
        BY <2>3 DEF CountInv, ReportedInv
      <3>2. \A v, w : Follows(w, v, k) => Follows(w, v, k)'
        BY <2>3, ReportLengths, FollowsStays
      <3> QED
        BY <3>1, <3>2
    <2> QED
      BY <1>0, <2>1, <2>2, <2>3 DEF ReportedInv
  <1> QED
    BY <1>0, <1>1, <1>2 DEF StepsInv

\* Stream steps, the clock and an error
LEMMA CountQuiet ==
  ASSUME TypeInv, SlowStartInv, PositionInv, CountInv, [Next]_vars,
         UNCHANGED <<reportVars, tpc, TIMER_DURATION>>
  PROVE  CountInv'
  <1>1. StepsInv' /\ ReportedInv'
    BY StepsStay DEF reportVars
  <1>2. ASSUME tpc = "start", NEW k \in 0..TIMER_DURATION
        PROVE  Near(SumFunctionOnSet(copied, KeysUpTo(k)), at, k)'
    <2>1. PICK s \in Streams : s = at
      BY DEF TypeInv, TypeOK, TimerOK
    <2>2. copied \in [Keys -> Nat] /\ TIMER_RUNNING /\ k \in Keys
      BY <1>2, OverWhenReported, TimerNumbers DEF PositionInv, ReportTypes
    <2>3. PICK b \in Nat : b = SumFunctionOnSet(copied, KeysUpTo(k))
      BY <2>2, SumOfResults
    <2>4. Near(b, s, k)
      BY <1>2, <2>1, <2>3 DEF CountInv, CopyInv
    <2>5. Near(b, s, k)'
      BY <2>2, <2>4, StreamsOpen, NearStays
    <2>6. b = SumFunctionOnSet(copied', KeysUpTo(k))
      BY <2>3, Zenon DEF reportVars
    <2> QED
      BY <2>1, <2>5, <2>6 DEF reportVars
  <1>3. CopyInv'
    BY <1>2 DEF CopyInv
  <1> QED
    BY <1>1, <1>3 DEF CountInv

LEMMA CountCopy ==
  ASSUME TypeInv, SlowStartInv, PositionInv, CountInv, CopyResults
  PROVE  CountInv'
  <1>0. [Next]_vars
    BY DEF Next, Timer
  <1>1. StepsInv' /\ ReportedInv'
    BY <1>0, StepsStay DEF CopyResults
  <1>2. ASSUME NEW k \in 0..TIMER_DURATION
        PROVE  Near(SumFunctionOnSet(copied, KeysUpTo(k)), at, k)'
    <2>1. PICK s \in Streams : s = at
      BY DEF TypeInv, TypeOK, TimerOK
    <2>2. TIMER_RUNNING /\ k \in Keys
      BY OverWhenReported, TimerNumbers DEF CopyResults
    <2>3. Booked(s, k) \in Nat /\ OnItsWay(s, k) \in {0, 1}
      BY <2>2, StreamsOpen, BookedNat DEF TypeInv, TypeOK
    <2>4. PICK b \in Nat : b = Booked(s, k)
      BY <2>3
    <2>5. Near(b, s, k)
      BY <2>3, <2>4 DEF Near
    <2>6. Near(b, s, k)'
      BY <1>0, <2>2, <2>5, StreamsOpen, NearStays
    <2>7. b = SumFunctionOnSet(copied', KeysUpTo(k))
      <3>1. copied' = results[s]
        BY <2>1 DEF CopyResults
      <3> QED
        BY <2>4, <3>1, Zenon DEF Booked
    <2>8. at' = s
      BY <2>1 DEF CopyResults
    <2> QED
      BY <2>6, <2>7, <2>8
  <1>3. CopyInv'
    BY <1>2 DEF CopyInv, CopyResults
  <1> QED
    BY <1>1, <1>3 DEF CountInv

\* The timer starts, or a report begins, or the thread ends
LEMMA CountBegins ==
  ASSUME TypeInv, SlowStartInv, PositionInv, CountInv, TimerStart \/ TimerTick \/ TimerTail
  PROVE  CountInv'
  <1>0. [Next]_vars
    BY DEF Next, Timer
  <1>1. UNCHANGED reported /\ tpc' # "start"
    BY DEF TimerStart, TimerTick, TimerTail, BeginReport, reportVars
  <1>2. tpc' = "copy" => at' = 1 /\ steps' = << >> /\ sums' = Nothing
    BY DEF TimerStart, TimerTick, TimerTail, BeginReport
  <1>3. \A k \in 1..Len(reported) : Counted(reported[k].bytes, k)'
    BY <1>0, <1>1, ReportedStays
  <1>4. CopyInv'
    BY <1>1 DEF CopyInv
  <1>5. StepsInv'
    <2> SUFFICES ASSUME tpc' = "copy" PROVE StepsInv'
      BY <1>1 DEF StepsInv, Reporting
    <2>1. CountedSoFar(0, 1)'
      BY <1>2, CountedSoFarBegins
    <2>2. Len(steps') = 0 /\ sums'.bytes = 0
      BY <1>2 DEF Nothing
    <2>3. CountedSoFar(sums.bytes, Len(steps) + 1)'
      BY <2>1, <2>2
    <2>4. AddsUp(steps)'
      BY <2>2 DEF AddsUp
    <2> QED
      BY <2>2, <2>3, <2>4 DEF StepsInv
  <1>6. ReportedInv'
    <2>1. AddsUp(reported)'
      BY <1>1 DEF CountInv, ReportedInv, AddsUp
    <2>2. ASSUME tpc' = "copy", NEW k \in 1..Len(reported)
          PROVE  Follows(sums.bytes, reported[k].bytes, k)'
      <3>1. Counted(reported[k].bytes, k)'
        BY <1>3
      <3>2. PICK v : v = reported'[k].bytes
        OBVIOUS
      <3>3. Counted(v, k)'
        BY <3>1, <3>2
      <3>4. Follows(0, v, k)'
        BY <1>2, <2>2, <3>3, FollowsBegins
      <3>5. sums'.bytes = 0
        BY <1>2, <2>2 DEF Nothing
      <3> QED
        BY <3>2, <3>4, <3>5
    <2>3. tpc' = "copy" => Len(steps') = 0
      BY <1>2
    <2> QED
      BY <1>1, <1>3, <2>1, <2>2, <2>3 DEF ReportedInv, Reporting
  <1> QED
    BY <1>4, <1>5, <1>6 DEF CountInv

\* What AddStream adds to the bytes besides those of its own half second is
\* what has been booked in the half seconds before
LEMMA AddedDifference ==
  ASSUME TypeInv, SlowStartInv, PositionInv, AddStream
  PROVE  /\ Added.bytes = sums.bytes + SumFunctionOnSet(copied, KeysUpTo(Step))
         /\ Added.bytes - Added.distinct =
              (sums.bytes - sums.distinct) + SumFunctionOnSet(copied, KeysUpTo(Step - 1))
         /\ Added.bytes \in Nat /\ Added.distinct \in Nat
  <1>1. /\ Step \in Keys /\ Step - 1 \in Keys /\ copied \in [Keys -> Nat] /\ sums \in Bytes
        /\ Step \in Nat /\ Step >= 1
    BY AddStreamIs, TimerNumbers
  <1>2. SumFunctionOnSet(copied, KeysUpTo(Step)) =
          copied[Step - 1] + SumFunctionOnSet(copied, KeysUpTo(Step - 1))
    <2>1. \A x \in 0..(Step - 1) : copied[x] \in Int
      BY <1>1, HalfSecondsPositive DEF Keys
    <2> QED
      BY <1>1, <2>1, SumUpTo DEF KeysUpTo
  <1>3. SumFunctionOnSet(copied, KeysUpTo(Step - 1)) \in Nat /\ copied[Step - 1] \in Nat
    BY <1>1, SumOfResults
  <1>4. sums.bytes \in Nat /\ sums.distinct \in Nat
    BY <1>1 DEF Bytes
  <1> HIDE DEF Step
  <1> QED
    BY <1>2, <1>3, <1>4 DEF Added

LEMMA CountAdds ==
  ASSUME TypeInv, SlowStartInv, PositionInv, CountInv, AddStream
  PROVE  CountInv'
  <1>0. [Next]_vars
    BY DEF Next, Timer
  <1>1. /\ Reporting /\ TIMER_RUNNING /\ tpc' # "start" /\ Step \in 1..TIMER_DURATION
        /\ Step = Len(steps) + 1 /\ Len(steps) \in Nat /\ TIMER_DURATION \in Nat
        /\ steps \in Seq(Bytes) /\ Added \in Bytes
    BY AddStreamIs, TimerNumbers DEF Reporting, Step
  <1>k. PICK k \in 1..TIMER_DURATION : k = Step
    BY <1>1
  <1>w. PICK w \in Nat : w = Added.bytes
    BY AddedDifference
  <1>u. PICK u \in Int : u = Added.bytes - Added.distinct
    BY AddedDifference
  <1>2. /\ at < DL_STREAMS => CountedSoFar(w, k)'
        /\ at = DL_STREAMS => Counted(w, k)'
    <2>1. PICK v : v = sums.bytes
      OBVIOUS
    <2>2. CountedSoFar(v, k)
      BY <1>1, <1>k, <2>1 DEF CountInv, StepsInv
    <2>3. w = v + SumFunctionOnSet(copied, KeysUpTo(k)) /\ k \in 0..TIMER_DURATION
      BY <1>1, <1>k, <1>w, <2>1, AddedDifference
    <2> QED
      BY <2>2, <2>3, SoFarAdds DEF CountInv
  <1>3. ASSUME NEW v, Follows(sums.bytes, v, k)
        PROVE  /\ at < DL_STREAMS => Follows(w, v, k)'
               /\ at = DL_STREAMS => w - v \in 0..DL_STREAMS
    <2>1. PICK x : x = sums.bytes
      OBVIOUS
    <2>2. Follows(x, v, k)
      BY <1>3, <2>1
    <2>3. w = x + SumFunctionOnSet(copied, KeysUpTo(k)) /\ k \in 0..TIMER_DURATION
      BY <1>1, <1>k, <1>w, <2>1, AddedDifference
    <2> QED
      BY <2>2, <2>3, FollowsAdds
  <1>4. ASSUME k > 1, NEW v, v = steps[k - 1].bytes
        PROVE  /\ at < DL_STREAMS => Follows(u, v, k - 1)'
               /\ at = DL_STREAMS => u - v \in 0..DL_STREAMS
    <2>1. PICK x : x = sums.bytes - sums.distinct
      OBVIOUS
    <2>2. PICK j \in 0..TIMER_DURATION : j = k - 1
      BY <1>1
    <2>3. j = Len(steps) /\ Len(steps) > 0
      BY <1>1, <1>4, <1>k, <2>2
    <2>4. Follows(x, v, j)
      BY <1>1, <1>4, <2>1, <2>2, <2>3 DEF CountInv, StepsInv
    <2>5. u = x + SumFunctionOnSet(copied, KeysUpTo(j))
      BY <1>k, <1>u, <2>1, <2>2, AddedDifference
    <2>6. /\ at < DL_STREAMS => Follows(u, v, j)'
          /\ at = DL_STREAMS => u - v \in 0..DL_STREAMS
      BY <2>4, <2>5, FollowsAdds
    <2> QED
      BY <2>2, <2>6
  <1>5. \A i \in 1..Len(steps) : Counted(steps[i].bytes, i) /\ \A v : Counted(v, i) => Counted(v, i)'
    BY <1>0, <1>1, ReportLengths, CountedStays DEF CountInv, StepsInv
  <1>6. \A i \in 1..Len(reported) :
          /\ Counted(reported[i].bytes, i) /\ \A v : Counted(v, i) => Counted(v, i)'
          /\ i <= Len(steps) => steps[i].bytes - reported[i].bytes \in 0..DL_STREAMS
          /\ i = k => Follows(sums.bytes, reported[i].bytes, i)
    BY <1>0, <1>1, <1>k, ReportLengths, CountedStays DEF CountInv, ReportedInv
  <1>7. AddsUp(steps) /\ AddsUp(reported)
    BY <1>1 DEF CountInv, StepsInv, ReportedInv
  <1>8. CopyInv'
    BY <1>1 DEF CopyInv
  <1>9. CASE at < DL_STREAMS
    <2>1. /\ at' = at + 1 /\ sums' = Added /\ tpc' = "copy"
          /\ UNCHANGED <<steps, reported>>
      BY <1>1, <1>9, AddStreamIs, StreamsFinite
    <2>2. StepsInv'
      <3>1. \A i \in 1..Len(steps) : Counted(steps[i].bytes, i)'
        BY <1>5, <2>1
      <3>2. CountedSoFar(sums.bytes, Len(steps) + 1)'
        BY <1>1, <1>2, <1>9, <1>k, <1>w, <2>1
      <3>3. ASSUME Len(steps) > 0
            PROVE  Follows(sums.bytes - sums.distinct, steps[Len(steps)].bytes, Len(steps))'
        <4>1. PICK v : v = steps[k - 1].bytes
          OBVIOUS
        <4>2. k > 1 /\ k - 1 = Len(steps)
          BY <1>1, <1>k, <3>3
        <4>3. Follows(u, v, k - 1)'
          BY <1>4, <1>9, <4>1, <4>2
        <4>4. u = sums'.bytes - sums'.distinct /\ v = steps'[Len(steps')].bytes
          BY <1>u, <2>1, <4>1, <4>2
        <4> QED
          BY <2>1, <4>2, <4>3, <4>4
      <3>4. AddsUp(steps)'
        BY <1>7, <2>1 DEF AddsUp
      <3> QED
        BY <2>1, <3>1, <3>2, <3>3, <3>4 DEF StepsInv
    <2>3. ReportedInv'
      <3>1. \A i \in 1..Len(reported) : Counted(reported[i].bytes, i)'
        BY <1>6, <2>1
      <3>2. AddsUp(reported)'
        BY <1>7, <2>1 DEF AddsUp
      <3>3. ASSUME NEW i \in 1..Len(reported), i = k
            PROVE  Follows(sums.bytes, reported[i].bytes, i)'
        <4>1. PICK v : v = reported[i].bytes
          OBVIOUS
        <4>2. Follows(w, v, k)'
          BY <1>3, <1>6, <1>9, <3>3, <4>1
        <4> QED
          BY <1>w, <2>1, <3>3, <4>1, <4>2
      <3> QED
        BY <1>1, <1>6, <1>k, <2>1, <3>1, <3>2, <3>3 DEF ReportedInv
    <2> QED
      BY <1>8, <2>2, <2>3 DEF CountInv
  <1>10. CASE ~(at < DL_STREAMS)
    <2>0. at = DL_STREAMS
      BY <1>10, AddStreamIs, StreamsFinite
    <2>1. /\ at' = 1 /\ sums' = Nothing /\ steps' = Append(steps, Added)
          /\ \/ Step < TIMER_DURATION /\ tpc' = "copy" /\ UNCHANGED reported
             \/ /\ Step = TIMER_DURATION /\ reported' = steps'
                /\ tpc' = IF finishing THEN "ended" ELSE "tick"
      BY <1>10, AddStreamIs
    <2>2. /\ Len(steps') = k /\ steps'[k] = Added
          /\ \A i \in 1..(k - 1) : steps'[i] = steps[i]
      BY <1>1, <1>k, <2>1, Appended
    <2>3. \A i \in 1..k : Counted(steps[i].bytes, i)'
      <3> SUFFICES ASSUME NEW i \in 1..k PROVE Counted(steps[i].bytes, i)'
        OBVIOUS
      <3>1. CASE i = k
        BY <1>2, <1>w, <2>0, <2>2, <3>1
      <3>2. CASE i # k
        <4>1. PICK v : v = steps[i].bytes
          OBVIOUS
        <4>2. i \in 1..Len(steps) /\ i \in 1..(k - 1)
          BY <1>1, <1>k, <3>2
        <4>3. Counted(v, i)'
          BY <1>5, <4>1, <4>2
        <4>4. v = steps'[i].bytes
          BY <2>2, <4>1, <4>2
        <4> QED
          BY <4>3, <4>4
      <3> QED
        BY <3>1, <3>2
    <2>4. AddsUp(steps)'
      <3> SUFFICES ASSUME NEW i \in 2..k
                   PROVE  steps'[i].bytes - steps'[i - 1].bytes - steps'[i].distinct \in 0..DL_STREAMS
        BY <2>2 DEF AddsUp
      <3>1. CASE i = k
        <4>1. PICK v : v = steps[k - 1].bytes
          OBVIOUS
        <4>2. u - v \in 0..DL_STREAMS
          BY <1>4, <2>0, <3>1, <4>1
        <4>3. steps'[i] = Added /\ steps'[i - 1].bytes = v
          BY <2>2, <3>1, <4>1
        <4>4. v \in Nat
          <5>1. k - 1 \in 1..Len(steps)
            BY <1>1, <1>k, <3>1
          <5>2. steps[k - 1] \in Bytes
            BY <1>1, <5>1
          <5> QED
            BY <4>1, <5>2 DEF Bytes
        <4> QED
          BY <1>u, <4>2, <4>3, <4>4, AddedDifference
      <3>2. CASE i # k
        <4>1. i \in 1..(k - 1) /\ i - 1 \in 1..(k - 1) /\ i \in 2..Len(steps)
          BY <1>1, <1>k, <3>2
        <4> QED
          BY <1>7, <2>2, <4>1 DEF AddsUp
      <3> QED
        BY <3>1, <3>2
    <2>5. CASE tpc' = "copy" /\ UNCHANGED reported
      <3>1. StepsInv'
        <4>1. CountedSoFar(0, k + 1)'
          BY <2>1, CountedSoFarBegins
        <4>2. CountedSoFar(sums.bytes, Len(steps) + 1)'
          BY <2>1, <2>2, <4>1 DEF Nothing
        <4>3. Counted(w, k)'
          BY <1>2, <2>0
        <4>4. Follows(0, w, k)'
          BY <2>1, <2>5, <4>3, FollowsBegins
        <4>5. sums'.bytes - sums'.distinct = 0 /\ w = steps'[Len(steps')].bytes
          BY <1>w, <2>1, <2>2 DEF Nothing
        <4>6. Follows(sums.bytes - sums.distinct, steps[Len(steps)].bytes, Len(steps))'
          BY <2>2, <4>4, <4>5
        <4> QED
          BY <2>2, <2>3, <2>4, <4>2, <4>6 DEF StepsInv
      <3>2. ReportedInv'
        <4>1. \A i \in 1..Len(reported) : Counted(reported[i].bytes, i)'
          BY <1>6, <2>5
        <4>2. AddsUp(reported)'
          BY <1>7, <2>5 DEF AddsUp
        <4>3. ASSUME NEW i \in 1..Len(reported)
              PROVE  /\ i <= k => steps'[i].bytes - reported[i].bytes \in 0..DL_STREAMS
                     /\ i = k + 1 => Follows(sums.bytes, reported[i].bytes, i)'
          <5>1. CASE i < k
            <6>1. i \in 1..(k - 1) /\ i <= Len(steps)
              BY <1>1, <1>k, <5>1
            <6>2. steps[i].bytes - reported[i].bytes \in 0..DL_STREAMS
              BY <1>6, <6>1
            <6> QED
              BY <2>2, <5>1, <6>1, <6>2
          <5>2. CASE i = k
            <6>1. PICK v : v = reported[i].bytes
              OBVIOUS
            <6>2. w - v \in 0..DL_STREAMS
              BY <1>3, <1>6, <2>0, <5>2, <6>1
            <6> QED
              BY <1>w, <2>2, <5>2, <6>1, <6>2
          <5>3. CASE i > k
            <6>1. PICK v : v = reported'[i].bytes
              OBVIOUS
            <6>2. Counted(v, i)'
              BY <4>1, <6>1, <2>5
            <6>3. Follows(0, v, i)'
              BY <2>1, <2>5, <6>2, FollowsBegins
            <6>4. sums'.bytes = 0
              BY <2>1 DEF Nothing
            <6>5. Follows(sums.bytes, reported[i].bytes, i)'
              BY <6>1, <6>3, <6>4
            <6> QED
              BY <5>3, <6>5
          <5> QED
            BY <5>1, <5>2, <5>3
        <4> QED
          BY <2>2, <2>5, <4>1, <4>2, <4>3 DEF ReportedInv
      <3> QED
        BY <1>8, <3>1, <3>2 DEF CountInv
    <2>6. CASE reported' = steps' /\ tpc' \in {"ended", "tick"}
      <3>1. ~Reporting'
        BY <2>6 DEF Reporting
      <3>2. \A i \in 1..Len(reported') : Counted(reported[i].bytes, i)'
        BY <2>2, <2>3, <2>6
      <3>3. AddsUp(reported)'
        BY <2>4, <2>6 DEF AddsUp
      <3> QED
        BY <1>8, <3>1, <3>2, <3>3 DEF CountInv, StepsInv, ReportedInv
    <2> QED
      BY <2>1, <2>5, <2>6
  <1> QED
    BY <1>9, <1>10

LEMMA CountStep ==
  ASSUME TypeInv, SlowStartInv, PositionInv, CountInv, [Next]_vars
  PROVE  CountInv'
  <1>1. ASSUME NEW s \in Streams, Stream(s) PROVE CountInv'
    <2>1. UNCHANGED <<reportVars, tpc, TIMER_DURATION>>
      BY <1>1, StreamFrame DEF timerVars
    <2> QED
      BY <2>1, CountQuiet
  <1>2. CASE Clock \/ Fail \/ Done \/ UNCHANGED vars
    <2>1. UNCHANGED <<reportVars, tpc, TIMER_DURATION>>
      BY <1>2 DEF Clock, Fail, Done, vars, timerVars
    <2> QED
      BY <2>1, CountQuiet
  <1> QED
    BY <1>1, <1>2, CountCopy, CountBegins, CountAdds DEF Next, Timer

LEMMA CountCorrect == Spec => [](TypeInv /\ SlowStartInv /\ PositionInv /\ CountInv)
  <1>1. Init => TypeInv /\ SlowStartInv /\ PositionInv /\ CountInv
    BY InitTypes, InitSlowStart, InitPosition, InitCount
  <1>2. TypeInv /\ SlowStartInv /\ PositionInv /\ CountInv /\ [Next]_vars
          => (TypeInv /\ SlowStartInv /\ PositionInv /\ CountInv)'
    BY TypeInvStep, SlowStartStep, PositionStep, CountStep
  <1> QED
    BY <1>1, <1>2, PTL DEF Spec

\* The steps of a report add up but for the receives that were booked late,
\* at most one of each stream (callback.cpp:462-480, download.cpp:203)
THEOREM ReportsAddUp == Spec => []StepsAddUp
  <1>1. CountInv => StepsAddUp
    BY DEF CountInv, ReportedInv, AddsUp, StepsAddUp
  <1> QED
    BY <1>1, CountCorrect, PTL

\* Only the last step of a report replaces the one before
LEMMA ReportGrows ==
  ASSUME TypeInv, SlowStartInv, PositionInv, CountInv, [Next]_vars, reported' # reported,
         NEW i \in DOMAIN reported
  PROVE  i \in DOMAIN reported' /\ reported'[i].bytes - reported[i].bytes \in 0..DL_STREAMS
  <1>1. AddStream
    <2>1. ASSUME NEW s \in Streams, Stream(s) PROVE FALSE
      BY <2>1, StreamFrame DEF reportVars
    <2>2. ~Clock /\ ~Fail /\ ~Done /\ ~UNCHANGED vars /\ ~TimerStart /\ ~TimerTick /\ ~TimerTail
          /\ ~CopyResults
      BY DEF Clock, Fail, Done, vars, reportVars, TimerStart, TimerTick, TimerTail, CopyResults
    <2> QED
      BY <2>1, <2>2 DEF Next, Timer
  <1>2. /\ at = DL_STREAMS /\ reported' = Append(steps, Added) /\ Step = TIMER_DURATION
        /\ Step \in 1..TIMER_DURATION /\ steps \in Seq(Bytes) /\ Added \in Bytes /\ Reporting
    BY <1>1, AddStreamIs DEF Reporting
  <1>3. /\ i \in 1..TIMER_DURATION /\ Len(steps) = TIMER_DURATION - 1
        /\ Len(steps) \in Nat /\ TIMER_DURATION \in Nat
        /\ i \in 1..Len(reported)
    BY <1>2, ReportLengths DEF Step, PositionInv, ReportTypes, LengthInv
  <1>4. /\ i <= Len(steps) => steps[i].bytes - reported[i].bytes \in 0..DL_STREAMS
        /\ i = Len(steps) + 1 => Follows(sums.bytes, reported[i].bytes, i)
    BY <1>2, <1>3 DEF CountInv, ReportedInv
  <1>5. /\ Len(reported') = TIMER_DURATION /\ reported'[TIMER_DURATION] = Added
        /\ \A j \in 1..Len(steps) : reported'[j] = steps[j]
    BY <1>2, <1>3, Appended
  <1>6. i \in DOMAIN reported'
    BY <1>2, <1>3, <1>5, Appended
  <1>7. CASE i <= Len(steps)
    BY <1>3, <1>4, <1>5, <1>6, <1>7
  <1>8. CASE i = TIMER_DURATION
    <2>1. PICK u : u = sums.bytes
      OBVIOUS
    <2>2. PICK v : v = reported[i].bytes
      OBVIOUS
    <2>3. PICK w : w = Added.bytes
      OBVIOUS
    <2>4. Follows(u, v, i)
      BY <1>3, <1>4, <1>8, <2>1, <2>2
    <2>5. w = u + SumFunctionOnSet(copied, KeysUpTo(i))
      BY <1>1, <1>2, <1>8, <2>1, <2>3, AddedDifference
    <2>6. w - v \in 0..DL_STREAMS
      BY <1>1, <1>2, <1>3, <2>4, <2>5, FollowsAdds
    <2> QED
      BY <1>5, <1>6, <1>8, <2>2, <2>3, <2>6
  <1> QED
    BY <1>3, <1>7, <1>8

\* A later report takes nothing back and adds at most one receive per stream
\* to what has been said (callback.cpp:397-516)
THEOREM ReportsOnlyGrow == Spec => ReportsGrowSlowly
  <1>1. TypeInv /\ SlowStartInv /\ PositionInv /\ CountInv /\ [Next]_vars
          => [\A k \in DOMAIN reported :
                /\ k \in DOMAIN reported'
                /\ reported'[k].bytes - reported[k].bytes \in 0..DL_STREAMS]_reported
    BY ReportGrows
  <1> QED
    BY <1>1, CountCorrect, PTL DEF Spec, ReportsGrowSlowly

-----------------------------------------------------------------------------
(* Where the bytes are *)

LEMMA InitBalance == Init => BalanceInv
  BY DEF Init, BalanceInv

LEMMA StreamBalance ==
  ASSUME TypeInv, BalanceInv, NEW s \in Streams, Stream(s), NEW r \in Streams
  PROVE  IF pc'[r] = "open" THEN early'[r] = 0 /\ datasize_total'[r] = 0
         ELSE /\ Accounted(r)' <= datasize_total'[r]
              /\ ~hasError' => Accounted(r)' = datasize_total'[r]
  <1>0. /\ StreamsOK /\ HalfSeconds \in Keys /\ [Next]_vars
        /\ hasError' = hasError
    BY HalfSecondsPositive, StreamFrame DEF TypeInv, TypeOK, Keys, Next
  <1>a. IF pc[r] = "open" THEN early[r] = 0 /\ datasize_total[r] = 0
        ELSE /\ Accounted(r) <= datasize_total[r]
             /\ ~hasError => Accounted(r) = datasize_total[r]
    BY DEF BalanceInv
  <1>b. early[r] \in Nat /\ datasize_total[r] \in Nat /\ index[r] < HalfSeconds
    BY HalfSecondsPositive DEF TypeInv, TypeOK, StreamsOK
  <1>c. ASSUME pc[r] # "open"
        PROVE  /\ Booked(r, HalfSeconds) \in Nat
               /\ Booked(r, HalfSeconds)' = Booked(r, HalfSeconds) + (IF Book(r) THEN 1 ELSE 0)
    BY <1>0, <1>b, <1>c, BookedNat, BookedChanges
  <1>d. Accounted(r)' = early'[r] + Booked(r, HalfSeconds)'
                        + (IF pc'[r] \in {"check", "index", "book"} THEN 1 ELSE 0)
    BY DEF Accounted
  <1>1. CASE r # s
    <2>1. pc'[r] = pc[r] /\ early'[r] = early[r] /\ datasize_total'[r] = datasize_total[r]
      BY <1>1 DEF Stream, Open, Loop, Receive, Add, Check, ReadIndex, Book, SlowStart,
                  Goto, TypeInv, TypeOK, StreamsOK
    <2>2. ~Book(r)
      BY <1>0, <1>1 DEF Stream, Open, Loop, Receive, Add, Check, ReadIndex, Book, SlowStart,
                  Goto, StreamsOK
    <2> QED
      BY <1>0, <1>a, <1>b, <1>c, <1>d, <2>1, <2>2 DEF Accounted
  <1>2. CASE r = s /\ Open(s)
    <2>1. results'[s] = [k \in Keys |-> 0] /\ pc'[s] = "loop" /\ pc[s] = "open"
          /\ UNCHANGED <<early, datasize_total>>
      BY <1>0, <1>2 DEF Open, Goto, StreamsOK
    <2>2. SumFunctionOnSet([k \in Keys |-> 0], KeysUpTo(HalfSeconds)) = 0
      <3>1. /\ IsFiniteSet(KeysUpTo(HalfSeconds))
            /\ \A x \in KeysUpTo(HalfSeconds) : [k \in Keys |-> 0][x] = 0
        BY <1>0, KeySets
      <3> QED
        BY <3>1, SumOfZeros
    <2>3. Booked(s, HalfSeconds)' = 0
      BY <2>1, <2>2, Zenon DEF Booked
    <2> QED
      BY <1>2, <1>a, <1>b, <1>d, <2>1, <2>3
  <1>3. CASE r = s /\ ~Open(s)
    <2>1. pc[r] # "open" /\ pc'[r] # "open"
      BY <1>3 DEF Stream, Open, Loop, Receive, Add, Check, ReadIndex, Book, SlowStart,
                  Goto, TypeInv, TypeOK, StreamsOK
    <2> USE <1>0, <1>3, <1>a, <1>b, <1>c, <1>d, <2>1 DEF Accounted
    <2>2. CASE Book(s)
      <3>1. pc[s] = "book" /\ pc'[s] = "slow" /\ UNCHANGED <<early, datasize_total>>
        BY <2>2 DEF Book, Goto, StreamsOK
      <3> QED
        BY <2>2, <3>1
    <2>3. CASE Add(s)
      <3>1. /\ pc[s] = "add" /\ pc'[s] = "check" /\ early' = early /\ ~Book(s)
            /\ datasize_total'[s] = datasize_total[s] + 1
        BY <2>3 DEF Add, Book, Goto, StreamsOK
      <3> QED
        BY <3>1
    <2>4. CASE Check(s)
      <3>1. /\ pc[s] = "check" /\ ~Book(s)
            /\ pc'[s] = (IF TIMER_RUNNING /\ ~hasError THEN "index" ELSE "loop")
            /\ datasize_total' = datasize_total
            /\ early'[s] = (IF TIMER_RUNNING THEN early[s] ELSE early[s] + 1)
        BY <2>4 DEF Check, Book, Goto, StreamsOK
      <3> QED
        BY <3>1
    <2>5. CASE ReadIndex(s)
      <3>1. /\ pc[s] = "index" /\ pc'[s] = "book" /\ ~Book(s)
            /\ UNCHANGED <<early, datasize_total>>
        BY <2>5 DEF ReadIndex, Book, Goto, StreamsOK
      <3> QED
        BY <3>1
    <2>6. CASE Loop(s) \/ Receive(s) \/ SlowStart(s)
      <3>1. /\ pc[s] \in {"loop", "recv", "slow"} /\ ~Book(s)
            /\ pc'[s] \in {"recv", "ended", "add", "loop"}
            /\ UNCHANGED <<early, datasize_total>>
        BY <2>6 DEF Loop, Receive, SlowStart, Book, Goto, StreamsOK
      <3> QED
        BY <3>1
    <2> QED
      BY <2>2, <2>3, <2>4, <2>5, <2>6 DEF Stream
  <1> QED
    BY <1>1, <1>2, <1>3

LEMMA BalanceStep ==
  ASSUME TypeInv, BalanceInv, [Next]_vars
  PROVE  BalanceInv'
  <1>1. ASSUME NEW s \in Streams, Stream(s) PROVE BalanceInv'
    BY <1>1, StreamBalance DEF BalanceInv
  <1>2. CASE Timer \/ Clock \/ Fail \/ Done \/ UNCHANGED vars
    <2>1. UNCHANGED <<pc, early, datasize_total, results>>
      BY <1>2, TimerFrame DEF streamVars
    <2>2. hasError => hasError'
      BY <1>2 DEF Timer, TimerStart, TimerTick, TimerTail, CopyResults, AddStream, Clock, Fail,
                  Done, vars
    <2>3. \A s \in Streams : Booked(s, HalfSeconds)' = Booked(s, HalfSeconds)
      BY <2>1, Zenon DEF Booked
    <2>4. \A s \in Streams : Accounted(s)' = Accounted(s)
      BY <2>1, <2>3 DEF Accounted
    <2> QED
      BY <2>1, <2>2, <2>4 DEF BalanceInv
  <1> QED
    BY <1>1, <1>2 DEF Next

-----------------------------------------------------------------------------
(* Once the streams have ended, the last report has all of it *)

LEMMA AllReported ==
  ASSUME TypeInv, SlowStartInv, PositionInv, CountInv, BalanceInv,
         tpc = "ended", ~hasError, \A s \in Streams : pc[s] = "ended"
  PROVE  SumFunctionOnSet(datasize_total, Streams) - SumFunctionOnSet(early, Streams)
           - reported[Len(reported)].bytes \in 0..DL_STREAMS
  <1>1. Len(reported) = HalfSeconds /\ HalfSeconds \in 1..Len(reported)
    BY TimerNumbers DEF PositionInv, LengthInv
  <1>2. PICK c \in [Streams -> Nat] :
          /\ reported[HalfSeconds].bytes = SumFunctionOnSet(c, Streams)
          /\ \A s \in Streams : Near(c[s], s, HalfSeconds)
    BY <1>1 DEF CountInv, ReportedInv, Counted
  <1> DEFINE booked == [s \in Streams |-> Booked(s, HalfSeconds)]
  <1>3. \A s \in Streams :
          /\ early[s] \in Int /\ datasize_total[s] \in Int /\ c[s] \in Int
          /\ booked[s] \in Int /\ booked[s] - c[s] \in {0, 1}
          /\ datasize_total[s] = early[s] + booked[s]
    <2> SUFFICES ASSUME NEW s \in Streams
                 PROVE  /\ early[s] \in Int /\ datasize_total[s] \in Int /\ c[s] \in Int
                        /\ booked[s] \in Int /\ booked[s] - c[s] \in {0, 1}
                        /\ datasize_total[s] = early[s] + booked[s]
      OBVIOUS
    <2>1. early[s] \in Nat /\ datasize_total[s] \in Nat /\ c[s] \in Nat
      BY <1>2 DEF TypeInv, TypeOK, StreamsOK
    <2>2. HalfSeconds \in Keys /\ pc[s] # "open"
      BY HalfSecondsPositive DEF Keys
    <2>3. Booked(s, HalfSeconds) \in Nat /\ OnItsWay(s, HalfSeconds) = 0
      BY <2>2, BookedNat DEF OnItsWay, TypeInv, TypeOK
    <2>4. c[s] <= Booked(s, HalfSeconds) /\ Booked(s, HalfSeconds) <= c[s] + 1
      BY <1>2, <2>3 DEF Near
    <2>5. datasize_total[s] = early[s] + Booked(s, HalfSeconds)
      <3>1. Accounted(s) = datasize_total[s]
        BY DEF BalanceInv
      <3> QED
        BY <2>1, <2>3, <3>1 DEF Accounted
    <2> QED
      BY <2>1, <2>3, <2>4, <2>5
  <1> HIDE DEF booked
  <1>4. SumFunctionOnSet(datasize_total, Streams) =
          SumFunctionOnSet(early, Streams) + SumFunctionOnSet(booked, Streams)
    BY <1>3, StreamsFinite, SumPlus
  <1>5. SumFunctionOnSet(booked, Streams) - SumFunctionOnSet(c, Streams) \in 0..DL_STREAMS
    <2>1. \A s \in 1..DL_STREAMS : c[s] \in Int /\ booked[s] \in Int /\ booked[s] - c[s] \in {0, 1}
      BY <1>3, StreamsFinite
    <2>2. SumFunctionOnSet(booked, 1..DL_STREAMS) - SumFunctionOnSet(c, 1..DL_STREAMS) \in 0..DL_STREAMS
      BY <2>1, StreamsFinite, SumsClose
    <2> QED
      BY <2>2, StreamsFinite, Zenon
  <1>6. SumFunctionOnSet(early, Streams) \in Int /\ SumFunctionOnSet(booked, Streams) \in Int
        /\ SumFunctionOnSet(c, Streams) \in Int
    BY <1>3, StreamsFinite, SumInt
  <1> QED
    BY <1>1, <1>2, <1>4, <1>5, <1>6

LEMMA BalanceCorrect == Spec => []BalanceInv
  <1>1. TypeInv /\ BalanceInv /\ [Next]_vars => BalanceInv'
    BY BalanceStep
  <1> QED
    BY <1>1, InitBalance, InitTypes, TypeInvStep, PTL DEF Spec

\* Without an error every byte a stream has received is in the last report, was
\* received before the measurement, or came with the last receive of a stream
\* (download.cpp:188-209, callback.cpp:397-516)
THEOREM NothingUnreported == Spec => []FinalReportComplete
  <1>1. TypeInv /\ SlowStartInv /\ PositionInv /\ CountInv /\ BalanceInv => FinalReportComplete
    BY AllReported DEF FinalReportComplete
  <1> QED
    BY <1>1, CountCorrect, BalanceCorrect, PTL

-----------------------------------------------------------------------------
(* No byte twice *)

\* The bytes that have been received never become fewer
LEMMA TotalGrows ==
  ASSUME TypeInv, [Next]_vars
  PROVE  /\ \A s \in Streams : /\ datasize_total[s] \in Nat /\ datasize_total'[s] \in Nat
                               /\ datasize_total[s] <= datasize_total'[s]
         /\ TIMER_RUNNING => UNCHANGED early
  <1>1. ASSUME NEW s \in Streams, Stream(s)
        PROVE  /\ \A r \in Streams : /\ datasize_total[r] \in Nat /\ datasize_total'[r] \in Nat
                                     /\ datasize_total[r] <= datasize_total'[r]
               /\ TIMER_RUNNING => UNCHANGED early
    <2>1. UNCHANGED datasize_total \/ datasize_total' = [datasize_total EXCEPT ![s] = @ + 1]
      BY <1>1 DEF Stream, Open, Loop, Receive, Add, Check, ReadIndex, Book, SlowStart
    <2>2. datasize_total \in [Streams -> Nat] /\ early \in [Streams -> Nat]
      BY DEF TypeInv, TypeOK, StreamsOK
    <2>3. TIMER_RUNNING => UNCHANGED early
      <3>1. Check(s) /\ TIMER_RUNNING => early' = [early EXCEPT ![s] = @]
        BY DEF Check
      <3>2. [early EXCEPT ![s] = @] = early
        BY <2>2
      <3> QED
        BY <1>1, <3>1, <3>2 DEF Stream, Open, Loop, Receive, Add, ReadIndex, Book, SlowStart
    <2> QED
      BY <2>1, <2>2, <2>3
  <1>2. CASE UNCHANGED streamVars
    BY <1>2 DEF streamVars, TypeInv, TypeOK, StreamsOK
  <1> QED
    BY <1>1, <1>2, TimerFrame DEF Next

LEMMA InitTotal == Init => TotalInv
  BY DEF Init, TotalInv, Reporting

LEMMA SumsGrow ==
  ASSUME TypeInv, [Next]_vars, NEW S \in SUBSET Streams
  PROVE  /\ ReceivedBy(S) <= ReceivedBy(S)'
         /\ ReceivedBy(S) \in Nat
         /\ ReceivedBy(S)' \in Nat
  <1>1. IsFiniteSet(S)
    BY StreamsFinite, FS_Subset
  <1>2. \A s \in S : /\ datasize_total[s] \in Nat /\ datasize_total'[s] \in Nat
                     /\ datasize_total[s] \in Int /\ datasize_total'[s] \in Int
                     /\ datasize_total[s] <= datasize_total'[s]
    BY TotalGrows
  <1> QED
    BY <1>1, <1>2, SumMono, SumNat DEF ReceivedBy

\* What a report adds for a stream has been received by it
LEMMA AddedTotal ==
  ASSUME TypeInv, SlowStartInv, PositionInv, TotalInv, AllEarly, AddStream
  PROVE  /\ at \in Streams
         /\ Added.total <= ReceivedBy(1..at)
  <1>1. /\ at \in Streams /\ tpc = "start" /\ Step \in Keys /\ copied \in [Keys -> Nat]
        /\ sums \in Bytes /\ Reporting /\ HalfSeconds \in Keys /\ HalfSeconds \in Nat
    BY AddStreamIs, HalfSecondsPositive DEF Reporting, Keys
  <1>2. /\ SumFunctionOnSet(copied, KeysUpTo(HalfSeconds)) + early[at] <= datasize_total[at]
        /\ sums.total <= ReceivedBy(1..(at - 1))
    BY <1>1 DEF TotalInv, AllEarly
  <1>3. SumFunctionOnSet(copied, KeysUpTo(Step)) <= SumFunctionOnSet(copied, KeysUpTo(HalfSeconds))
    <2>1. /\ IsFiniteSet(KeysUpTo(HalfSeconds))
          /\ \A x \in KeysUpTo(HalfSeconds) : copied[x] \in Nat
          /\ KeysUpTo(Step) \in SUBSET KeysUpTo(HalfSeconds)
      BY <1>1, KeySets DEF KeysUpTo, Keys
    <2> QED
      BY <2>1, SumSubset
  <1>4. datasize_slow_start[at] <= early[at]
    <2>1. early[at] # 0 /\ datasize_slow_start[at] \in Nat /\ early[at] \in Nat
      BY <1>1 DEF AllEarly, TypeInv, TypeOK, StreamsOK
    <2>2. datasize_slow_start[at] = 0 \/ datasize_slow_start[at] = early[at]
      BY <1>1, <2>1 DEF SlowStartInv, SlowStartIsEarly
    <2> QED
      BY <2>1, <2>2
  <1>5. ReceivedBy(1..at) = datasize_total[at] + ReceivedBy(1..(at - 1))
    <2>1. at \in Int /\ 1 <= at /\ \A x \in 1..at : datasize_total[x] \in Int
      BY <1>1, StreamsFinite DEF TypeInv, TypeOK, StreamsOK
    <2> QED
      BY <2>1, SumUpTo DEF ReceivedBy
  <1>6. /\ SumFunctionOnSet(copied, KeysUpTo(Step)) \in Nat
        /\ SumFunctionOnSet(copied, KeysUpTo(HalfSeconds)) \in Nat
        /\ datasize_slow_start[at] \in Nat /\ early[at] \in Nat /\ datasize_total[at] \in Nat
        /\ sums.total \in Nat
    BY <1>1, SumOfResults DEF TypeInv, TypeOK, StreamsOK, Bytes
  <1>7. ReceivedBy(1..(at - 1)) \in Nat
    <2>1. 1..(at - 1) \in SUBSET Streams
      BY <1>1, StreamsFinite
    <2>2. [Next]_vars
      BY DEF Next, Timer
    <2> QED
      BY <2>1, <2>2, SumsGrow
  <1>8. Added.total = sums.total + SumFunctionOnSet(copied, KeysUpTo(Step)) + datasize_slow_start[at]
    BY DEF Added
  <1>9. PICK before \in Nat, booked \in Nat, known \in Nat :
          /\ before = ReceivedBy(1..(at - 1))
          /\ booked = SumFunctionOnSet(copied, KeysUpTo(Step))
          /\ known = SumFunctionOnSet(copied, KeysUpTo(HalfSeconds))
    BY <1>6, <1>7, Zenon
  <1>10. /\ known + early[at] <= datasize_total[at]
         /\ sums.total <= before /\ booked <= known
    BY <1>2, <1>3, <1>9, Zenon
  <1>11. /\ ReceivedBy(1..at) = datasize_total[at] + before
         /\ Added.total = sums.total + booked + datasize_slow_start[at]
    BY <1>5, <1>8, <1>9, Zenon
  <1>12. sums.total + booked + datasize_slow_start[at] <= datasize_total[at] + before
    BY <1>4, <1>6, <1>10
  <1> QED
    BY <1>1, <1>11, <1>12, Zenon

LEMMA TotalStep ==
  ASSUME TypeInv, SlowStartInv, PositionInv, BalanceInv, TotalInv, [Next]_vars
  PROVE  TotalInv'
  <1>0. CASE ~TIMER_RUNNING
    <2>1. tpc = "sync" /\ Len(reported) = 0
      BY <1>0 DEF SlowStartInv, BeforeInv, PositionInv, LengthInv
    <2>2. tpc' \in {"sync", "tick"} /\ reported' = reported
      <3>1. ASSUME NEW s \in Streams, Stream(s) PROVE tpc' = tpc /\ reported' = reported
        BY <3>1, StreamFrame DEF timerVars, reportVars
      <3> QED
        BY <2>1, <3>1 DEF Next, Timer, TimerStart, TimerTick, TimerTail, CopyResults, AddStream,
                          Clock, Fail, Done, vars, timerVars, reportVars
    <2> QED
      BY <2>1, <2>2 DEF TotalInv, Reporting
  <1>1. ASSUME TIMER_RUNNING, AllEarly' PROVE TotalInv'
    <2>a. AllEarly /\ early' = early
      BY <1>1, TotalGrows DEF AllEarly
    <2>b. /\ Len(steps) \in Nat /\ Len(reported) \in Nat /\ at \in Streams
          /\ steps \in Seq(Bytes) /\ reported \in Seq(Bytes)
      BY ReportLengths DEF PositionInv, ReportTypes, TypeInv, TypeOK, TimerOK
    <2>c. \A S \in SUBSET Streams : /\ ReceivedBy(S) <= ReceivedBy(S)'
                                    /\ ReceivedBy(S) \in Nat /\ ReceivedBy(S)' \in Nat
      BY SumsGrow
    <2>d. /\ \A k \in 1..Len(steps) : steps[k].total \in Nat
          /\ \A k \in 1..Len(reported) : reported[k].total \in Nat
          /\ sums.total \in Nat
      <3>1. sums \in Bytes
        BY DEF PositionInv, ReportTypes
      <3>2. /\ \A k \in 1..Len(steps) : steps[k] \in Bytes
            /\ \A k \in 1..Len(reported) : reported[k] \in Bytes
        BY <2>b
      <3> QED
        BY <3>1, <3>2 DEF Bytes
    <2>e. \A k \in 1..Len(reported) : reported[k].total <= ReceivedBy(Streams)'
      <3>1. \A k \in 1..Len(reported) : reported[k].total <= ReceivedBy(Streams)
        BY <2>a DEF TotalInv
      <3> QED
        BY <2>c, <2>d, <3>1
    <2>f. Reporting => \A k \in 1..Len(steps) : steps[k].total <= ReceivedBy(Streams)'
      <3>1. Reporting => \A k \in 1..Len(steps) : steps[k].total <= ReceivedBy(Streams)
        BY <2>a DEF TotalInv
      <3> QED
        BY <2>c, <2>d, <3>1
    <2>g. 1..(at - 1) \in SUBSET Streams /\ 1..at \in SUBSET Streams
      BY <2>b, StreamsFinite
    <2>h. Reporting /\ at' = at => sums.total <= ReceivedBy(1..(at - 1))'
      <3>1. Reporting => sums.total <= ReceivedBy(1..(at - 1))
        BY <2>a DEF TotalInv
      <3>2. PICK S \in SUBSET Streams : S = 1..(at - 1)
        BY <2>g
      <3>3. ReceivedBy(S) <= ReceivedBy(S)' /\ ReceivedBy(S) \in Nat /\ ReceivedBy(S)' \in Nat
        BY <2>c
      <3>4. Reporting => sums.total <= ReceivedBy(S)'
        BY <2>d, <3>1, <3>2, <3>3
      <3> QED
        BY <3>2, <3>4
    <2>1. CASE UNCHANGED <<reportVars, tpc>>
      <3>1. tpc = "start" => SumFunctionOnSet(copied, KeysUpTo(HalfSeconds)) + early[at]
                               <= datasize_total'[at]
        <4>1. tpc = "start" => SumFunctionOnSet(copied, KeysUpTo(HalfSeconds)) + early[at]
                                 <= datasize_total[at]
          BY <2>a DEF TotalInv
        <4>2. /\ datasize_total[at] <= datasize_total'[at] /\ datasize_total[at] \in Nat
              /\ datasize_total'[at] \in Nat /\ early[at] \in Nat
          BY <2>b, TotalGrows DEF TypeInv, TypeOK, StreamsOK
        <4>3. tpc = "start" => SumFunctionOnSet(copied, KeysUpTo(HalfSeconds)) \in Nat
          BY SumOfResults, HalfSecondsPositive DEF PositionInv, ReportTypes, Keys
        <4> QED
          BY <4>1, <4>2, <4>3
      <3>2. SumFunctionOnSet(copied', KeysUpTo(HalfSeconds)) =
              SumFunctionOnSet(copied, KeysUpTo(HalfSeconds))
        BY <2>1, Zenon DEF reportVars
      <3>3. ReceivedBy(1..(at - 1))' = SumFunctionOnSet(datasize_total', 1..(at' - 1))
        BY DEF ReceivedBy
      <3> QED
        BY <2>1, <2>a, <2>e, <2>f, <2>h, <3>1, <3>2, <3>3 DEF TotalInv, Reporting, reportVars
    <2>2. CASE CopyResults
      <3>0. PICK s \in Streams : s = at
        BY <2>b
      <3>1. /\ tpc = "copy" /\ tpc' = "start" /\ copied' = results[s]
            /\ UNCHANGED <<at, steps, sums, reported, streamVars>>
        BY <2>2, <3>0 DEF CopyResults
      <3>2. SumFunctionOnSet(copied', KeysUpTo(HalfSeconds)) = Booked(s, HalfSeconds)
        BY <3>1, Zenon DEF Booked
      <3>3. Booked(s, HalfSeconds) + early[s] <= datasize_total[s]
        <4>1. pc[s] # "open" /\ HalfSeconds \in Keys
          BY <1>1, StreamsOpen, HalfSecondsPositive DEF Keys
        <4>2. Booked(s, HalfSeconds) \in Nat /\ early[s] \in Nat /\ datasize_total[s] \in Nat
          BY <4>1, BookedNat DEF TypeInv, TypeOK, StreamsOK
        <4> QED
          BY <4>1, <4>2 DEF BalanceInv, Accounted
      <3>4. UNCHANGED <<datasize_total, early>>
        BY <3>1 DEF streamVars
      <3> QED
        BY <2>e, <2>f, <2>h, <3>0, <3>1, <3>2, <3>3, <3>4 DEF TotalInv, Reporting
    <2>3. CASE AddStream
      <3>1. /\ Added.total <= ReceivedBy(1..at) /\ Reporting /\ UNCHANGED datasize_total
            /\ tpc' # "start" /\ Added \in Bytes
        BY <2>3, <2>a, AddedTotal, AddStreamIs DEF Reporting, streamVars
      <3>2. CASE at < DL_STREAMS
        <4>1. /\ at' = at + 1 /\ sums' = Added /\ tpc' = "copy"
              /\ UNCHANGED <<steps, reported>>
          BY <2>3, <3>2, <2>b, AddStreamIs, StreamsFinite
        <4>2. ReceivedBy(1..(at - 1))' = ReceivedBy(1..at)
          <5>1. 1..(at' - 1) = 1..at
            BY <2>b, <4>1, StreamsFinite
          <5> QED
            BY <3>1, <5>1, Zenon DEF ReceivedBy
        <4> QED
          BY <2>e, <2>f, <3>1, <4>1, <4>2 DEF TotalInv, Reporting
      <3>3. CASE ~(at < DL_STREAMS)
        <4>1. /\ at = DL_STREAMS /\ at' = 1 /\ sums' = Nothing /\ steps' = Append(steps, Added)
              /\ UNCHANGED reported \/ (reported' = steps' /\ ~Reporting')
          BY <2>3, <3>3, <2>b, AddStreamIs, StreamsFinite DEF Reporting
        <4>2. Added.total <= ReceivedBy(Streams)'
          <5>1. 1..at = Streams
            BY <4>1, StreamsFinite
          <5>2. ReceivedBy(Streams)' = ReceivedBy(1..at)
            BY <3>1, <5>1, Zenon DEF ReceivedBy
          <5> QED
            BY <3>1, <5>2
        <4>3. \A k \in 1..Len(steps') : steps'[k].total <= ReceivedBy(Streams)'
          BY <2>b, <2>f, <3>1, <4>1, <4>2, Appended
        <4>4. sums'.total = 0 /\ ReceivedBy(1..(at - 1))' \in Nat
          <5>1. 1..(at' - 1) \in SUBSET Streams
            BY <4>1
          <5>2. ReceivedBy(1..(at - 1))' = SumFunctionOnSet(datasize_total, 1..(at' - 1))
            BY <3>1, Zenon DEF ReceivedBy
          <5>3. SumFunctionOnSet(datasize_total, 1..(at' - 1)) \in Nat
            BY <2>c, <5>1 DEF ReceivedBy
          <5> QED
            BY <4>1, <5>2, <5>3 DEF Nothing
        <4> QED
          BY <2>e, <3>1, <4>1, <4>3, <4>4 DEF TotalInv
      <3> QED
        BY <3>2, <3>3
    <2>4. CASE TimerStart \/ TimerTick \/ TimerTail
      <3>1. /\ UNCHANGED reported /\ tpc' # "start"
            /\ tpc' = "copy" => at' = 1 /\ steps' = << >> /\ sums' = Nothing
        BY <2>4 DEF TimerStart, TimerTick, TimerTail, BeginReport, reportVars
      <3>2. tpc' = "copy" => sums'.total = 0 /\ ReceivedBy(1..(at - 1))' = 0
        <4>1. SumFunctionOnSet(datasize_total', 1..(1 - 1)) = 0
          BY SumOverNone
        <4> QED
          BY <3>1, <4>1 DEF ReceivedBy, Nothing
      <3> QED
        BY <2>e, <3>1, <3>2 DEF TotalInv, Reporting
    <2>5. ASSUME NEW s \in Streams, Stream(s) PROVE UNCHANGED <<reportVars, tpc>>
      BY <2>5, StreamFrame DEF timerVars
    <2>6. CASE Clock \/ Fail \/ Done \/ UNCHANGED vars
      BY <2>1, <2>6 DEF Clock, Fail, Done, vars, timerVars
    <2> QED
      BY <2>1, <2>2, <2>3, <2>4, <2>5, <2>6 DEF Next, Timer
  <1> QED
    BY <1>0, <1>1 DEF TotalInv

\* Slow start and half seconds together count no byte twice (callback.cpp:467)
THEOREM NothingReportedTwice == Spec => []ReportedOnce
  <1>1. TypeInv /\ SlowStartInv /\ PositionInv /\ CountInv /\ BalanceInv /\ TotalInv /\ [Next]_vars
          => TotalInv'
    BY TotalStep
  <1>2. Spec => []TotalInv
    BY <1>1, InitTotal, CountCorrect, BalanceCorrect, PTL DEF Spec
  <1>3. PositionInv /\ TotalInv => ReportedOnce
    BY DEF PositionInv, ReportTypes, TotalInv, AllEarly, ReceivedBy, ReportedOnce
  <1> QED
    BY <1>2, <1>3, CountCorrect, PTL

-----------------------------------------------------------------------------
(* Up to date *)

\* Nothing is booked under an index that TIMER_INDEX has not reached
FutureInv ==
  \A s \in Streams :
    /\ index[s] <= TIMER_INDEX
    /\ pc[s] # "open" => \A k \in Keys : k > TIMER_INDEX => results[s][k] = 0

\* What is due of a stream is booked in the half seconds of the report, and so
\* in the copy the callback makes of them
DueBooked == Reporting => \A s \in Streams : due[s] - 1 <= Booked(s, TIMER_DURATION)
DueCopied == tpc = "start" => due[at] - 1 <= SumFunctionOnSet(copied, KeysUpTo(TIMER_DURATION))

\* The last step of the report adds it up, and the report ends with that step
DueAdded ==
  Reporting /\ Len(steps) + 1 = TIMER_DURATION =>
    SumFunctionOnSet(due, 1..(at - 1)) - (at - 1) <= sums.bytes
DueReported ==
  ~Reporting /\ reported # << >> =>
    SumFunctionOnSet(due, Streams) - DL_STREAMS <= reported[Len(reported)].bytes

FreshInv == ~hasError => DueBooked /\ DueCopied /\ DueAdded /\ DueReported

LEMMA InitFresh == Init => FutureInv /\ FreshInv
  BY DEF Init, FutureInv, FreshInv, DueBooked, DueCopied, DueAdded, DueReported, Reporting

LEMMA FutureStep ==
  ASSUME TypeInv, SlowStartInv, FutureInv, [Next]_vars
  PROVE  FutureInv'
  <1>0. /\ TIMER_INDEX \in Int /\ TIMER_INDEX' \in Int /\ TIMER_INDEX <= TIMER_INDEX'
        /\ Keys \subseteq Int /\ \A s \in Streams : index[s] \in Int
    <2>1. TIMER_INDEX \in 0..(HalfSeconds - 1) /\ TIMER_INDEX' \in 0..(HalfSeconds - 1)
      BY TypeInvStep DEF TypeInv, TypeOK, TimerOK
    <2>2. \A s \in Streams : index[s] \in Int
      BY HalfSecondsPositive DEF TypeInv, TypeOK, StreamsOK
    <2>3. TIMER_INDEX <= TIMER_INDEX'
      BY IndexGrows
    <2> QED
      BY <2>1, <2>2, <2>3, HalfSecondsPositive DEF Keys
  <1>1. ASSUME NEW s \in Streams, Stream(s), NEW r \in Streams
        PROVE  /\ index'[r] <= TIMER_INDEX
               /\ pc'[r] # "open" => \A k \in Keys : k > TIMER_INDEX => results'[r][k] = 0
    <2>1. StreamsOK
      BY DEF TypeInv, TypeOK
    <2>2. CASE r # s
      <3>1. pc'[r] = pc[r] /\ index'[r] = index[r] /\ results'[r] = results[r]
        BY <1>1, <2>1, <2>2 DEF Stream, Open, Loop, Receive, Add, Check, ReadIndex, Book,
                                SlowStart, Goto, StreamsOK
      <3> QED
        BY <3>1 DEF FutureInv
    <2>3. CASE r = s /\ Open(s)
      <3>1. index' = index /\ results'[s] = [k \in Keys |-> 0]
        BY <2>1, <2>3 DEF Open, StreamsOK
      <3> QED
        BY <2>3, <3>1 DEF FutureInv
    <2>4. CASE r = s /\ ReadIndex(s)
      <3>1. index'[s] = TIMER_INDEX /\ results' = results /\ pc[s] # "open"
        BY <2>1, <2>4 DEF ReadIndex, Goto, StreamsOK
      <3> QED
        BY <1>0, <2>4, <3>1 DEF FutureInv
    <2>5. CASE r = s /\ Book(s)
      <3>1. /\ index' = index /\ pc[s] # "open" /\ results[s] \in [Keys -> Nat]
            /\ results'[s] = [results[s] EXCEPT ![index[s]] = @ + 1]
        BY <2>1, <2>5 DEF Book, Goto, StreamsOK
      <3>2. index[s] <= TIMER_INDEX /\ \A k \in Keys : k > TIMER_INDEX => results[s][k] = 0
        BY <3>1 DEF FutureInv
      <3>3. \A k \in Keys : k > TIMER_INDEX => k # index[s]
        BY <1>0, <3>2
      <3>4. \A k \in Keys : k > TIMER_INDEX => results'[s][k] = 0
        BY <3>1, <3>2, <3>3
      <3> QED
        BY <2>5, <3>1, <3>2, <3>4
    <2>6. CASE r = s /\ (Loop(s) \/ Receive(s) \/ Add(s) \/ Check(s) \/ SlowStart(s))
      <3>1. index' = index /\ results' = results /\ pc[s] # "open"
        BY <2>1, <2>6 DEF Loop, Receive, Add, Check, SlowStart, Goto, StreamsOK
      <3> QED
        BY <2>6, <3>1 DEF FutureInv
    <2> QED
      BY <1>1, <2>2, <2>3, <2>4, <2>5, <2>6 DEF Stream
  <1>2. CASE Timer \/ Clock \/ Fail \/ Done \/ UNCHANGED vars
    <2>1. UNCHANGED <<pc, index, results>>
      BY <1>2, TimerFrame DEF streamVars
    <2> QED
      BY <1>0, <2>1 DEF FutureInv
  <1>3. ASSUME NEW s \in Streams, Stream(s) PROVE FutureInv'
    <2>1. TIMER_INDEX' = TIMER_INDEX
      BY <1>3, StreamFrame DEF timerVars
    <2> QED
      BY <1>1, <1>3, <2>1 DEF FutureInv
  <1> QED
    BY <1>2, <1>3 DEF Next

\* A stream has booked nothing but in the half seconds that have begun
LEMMA BookedAll ==
  ASSUME TypeInv, FutureInv, NEW s \in Streams, pc[s] # "open",
         NEW k \in Keys, k > TIMER_INDEX
  PROVE  Booked(s, HalfSeconds) = Booked(s, k)
  <1> DEFINE all  == KeysUpTo(HalfSeconds)
             some == KeysUpTo(k)
  <1>1. HalfSeconds \in Keys /\ k \in Int /\ HalfSeconds \in Int /\ k <= HalfSeconds
        /\ TIMER_INDEX \in Int /\ results[s] \in [Keys -> Nat]
    BY HalfSecondsPositive DEF Keys, TypeInv, TypeOK, TimerOK, StreamsOK
  <1>2. /\ IsFiniteSet(all) /\ all \subseteq Keys
        /\ \A x \in all : results[s][x] \in Int
    <2> HIDE DEF some
    <2>1. IsFiniteSet(all) /\ all \subseteq Keys
      <3>1. PICK h \in Keys : h = HalfSeconds
        BY <1>1
      <3>2. IsFiniteSet(KeysUpTo(h)) /\ KeysUpTo(h) \subseteq Keys
        BY KeySets
      <3> QED
        BY <3>1, <3>2
    <2>2. \A x \in Keys : results[s][x] \in Int
      BY <1>1
    <2> QED
      BY <2>1, <2>2, Zenon
  <1>3. some \in SUBSET all /\ \A x \in all \ some : x \in Int /\ x >= k
    BY <1>1 DEF KeysUpTo
  <1>4. \A x \in all \ some : results[s][x] = 0
    <2> SUFFICES ASSUME NEW x \in all \ some PROVE results[s][x] = 0
      OBVIOUS
    <2>1. x \in Keys /\ x > TIMER_INDEX
      BY <1>1, <1>2, <1>3
    <2> QED
      BY <2>1 DEF FutureInv
  <1> HIDE DEF all, some
  <1>5. IsFiniteSet(all \ some)
    BY <1>2, FS_Subset, Zenon
  <1>6. SumFunctionOnSet(results[s], all \ some) = 0
    BY <1>4, <1>5, SumOfZeros
  <1>7. SumFunctionOnSet(results[s], all) =
          SumFunctionOnSet(results[s], some) + SumFunctionOnSet(results[s], all \ some)
    BY <1>2, <1>3, SumSplit
  <1>8. SumFunctionOnSet(results[s], some) \in Nat
    BY <1>1, SumOfResults DEF some
  <1> QED
    BY <1>6, <1>7, <1>8 DEF Booked, all, some

\* A report begins when what is due of each stream is booked: but for the
\* receive on its way, in the half seconds that the report adds up
LEMMA FreshBegins ==
  ASSUME TypeInv, SlowStartInv, PositionInv, BalanceInv, FutureInv, ~hasError,
         TimerTick \/ TimerTail, tpc' = "copy", BeginReport
  PROVE  DueBooked' /\ DueCopied' /\ DueAdded' /\ DueReported'
  <1>1. /\ TIMER_RUNNING /\ UNCHANGED streamVars
        /\ at' = 1 /\ steps' = << >> /\ sums' = Nothing
        /\ due' = [s \in Streams |-> datasize_total[s] - early[s]]
    <2>1. tpc = "tick"
      BY DEF TimerTick, TimerTail
    <2> QED
      BY <2>1, TimerNumbers, TimerFrame DEF Timer, BeginReport
  <1>2. PICK k \in Keys : k = TIMER_DURATION' /\ (k > TIMER_INDEX \/ k = HalfSeconds)
    <2>1. CASE TimerTick
      <3>1. /\ TIMER_DURATION' = clock /\ TIMER_INDEX' = NextIndex /\ TIMER_INDEX' # TIMER_INDEX
        BY <2>1 DEF TimerTick
      <3>2. TIMER_INDEX' = clock
        BY <3>1 DEF NextIndex
      <3>3. clock \in Keys /\ clock > TIMER_INDEX
        BY <3>1, <3>2, TimerNumbers DEF TypeInv, TypeOK, TimerOK
      <3> QED
        BY <3>1, <3>3
    <2>2. CASE TimerTail
      <3>1. TIMER_STOPPED /\ TIMER_DURATION' = TIMER_DURATION
        BY <2>2 DEF TimerTail
      <3>2. TIMER_DURATION = HalfSeconds /\ HalfSeconds \in Keys
        BY <3>1, HalfSecondsPositive DEF PositionInv, DurationInv, Keys
      <3> QED
        BY <3>1, <3>2
    <2> QED
      BY <2>1, <2>2
  <1>3. ASSUME NEW s \in Streams
        PROVE  due'[s] - 1 <= Booked(s, k) /\ Booked(s, TIMER_DURATION)' = Booked(s, k)
    <2>1. pc[s] # "open"
      BY <1>1, StreamsOpen
    <2>2. Booked(s, HalfSeconds) = Booked(s, k)
      BY <1>2, <2>1, BookedAll
    <2>3. /\ Booked(s, HalfSeconds) \in Nat /\ early[s] \in Nat /\ datasize_total[s] \in Nat
      <3>1. StreamsOK /\ HalfSeconds \in Keys
        BY HalfSecondsPositive DEF TypeInv, TypeOK, Keys
      <3> QED
        BY <2>1, <3>1, BookedNat DEF StreamsOK
    <2>4. Accounted(s) = datasize_total[s]
      BY <2>1 DEF BalanceInv
    <2>5. datasize_total[s] - early[s] - 1 <= Booked(s, HalfSeconds)
      BY <2>3, <2>4 DEF Accounted
    <2>6. due'[s] = datasize_total[s] - early[s]
      BY <1>1
    <2>7. Booked(s, TIMER_DURATION)' = SumFunctionOnSet(results'[s], KeysUpTo(TIMER_DURATION'))
      BY DEF Booked
    <2>8. results' = results
      BY <1>1 DEF streamVars
    <2>9. Booked(s, TIMER_DURATION)' = Booked(s, k)
      BY <1>2, <2>7, <2>8, Zenon DEF Booked
    <2> QED
      BY <2>2, <2>5, <2>6, <2>9
  <1>4. DueBooked'
    BY <1>3 DEF DueBooked
  <1>5. DueAdded'
    <2>1. SumFunctionOnSet(due', 1..(1 - 1)) = 0
      BY SumOverNone
    <2>2. SumFunctionOnSet(due', 1..(at' - 1)) = 0 /\ sums'.bytes = 0 /\ at' - 1 = 0
      BY <1>1, <2>1 DEF Nothing
    <2> QED
      BY <2>2 DEF DueAdded
  <1> QED
    BY <1>4, <1>5 DEF DueCopied, DueReported, Reporting

\* What is booked in the half seconds of the report stays booked
LEMMA DueBookedStays ==
  ASSUME TypeInv, SlowStartInv, PositionInv, Reporting, DueBooked, [Next]_vars,
         UNCHANGED <<due, TIMER_DURATION>>
  PROVE  DueBooked'
  <1>1. PICK k \in 0..TIMER_DURATION : k = TIMER_DURATION
    BY TimerNumbers
  <1>2. ASSUME NEW s \in Streams
        PROVE  due'[s] - 1 <= Booked(s, TIMER_DURATION)'
    <2>1. pc[s] # "open"
      BY StreamsOpen, ReportLengths
    <2>2. /\ Booked(s, k) \in Nat /\ Booked(s, k)' \in Nat /\ Booked(s, k) <= Booked(s, k)'
      BY <2>1, BookedSettles
    <2>3. due[s] - 1 <= Booked(s, k) /\ due[s] \in Int /\ due' = due
      BY <1>1 DEF DueBooked, TypeInv, TypeOK
    <2>4. due'[s] - 1 <= Booked(s, k)'
      BY <2>2, <2>3
    <2>5. TIMER_DURATION' = k
      BY <1>1
    <2>6. Booked(s, TIMER_DURATION)' = Booked(s, k)'
      BY <2>5, Zenon DEF Booked
    <2> QED
      BY <2>4, <2>6
  <1> QED
    BY <1>2 DEF DueBooked

LEMMA FreshQuiet ==
  ASSUME TypeInv, SlowStartInv, PositionInv, FreshInv, [Next]_vars,
         UNCHANGED <<reportVars, tpc, TIMER_DURATION>>, hasError => hasError'
  PROVE  FreshInv'
  <1> SUFFICES ASSUME ~hasError'
               PROVE  DueBooked' /\ DueCopied' /\ DueAdded' /\ DueReported'
    BY DEF FreshInv
  <1>1. DueBooked /\ DueCopied /\ DueAdded /\ DueReported
    BY DEF FreshInv
  <1>2. UNCHANGED <<at, copied, steps, sums, reported, due>>
    BY DEF reportVars
  <1>3. DueBooked'
    <2>1. CASE Reporting
      BY <1>1, <1>2, <2>1, DueBookedStays
    <2>2. CASE ~Reporting
      BY <2>2 DEF DueBooked, Reporting
    <2> QED
      BY <2>1, <2>2
  <1>4. DueCopied'
    BY <1>1, <1>2, Zenon DEF DueCopied
  <1>5. DueAdded'
    BY <1>1, <1>2, Zenon DEF DueAdded, Reporting
  <1>6. DueReported'
    BY <1>1, <1>2, Zenon DEF DueReported, Reporting
  <1> QED
    BY <1>3, <1>4, <1>5, <1>6

LEMMA FreshCopy ==
  ASSUME TypeInv, SlowStartInv, PositionInv, DueBooked, DueAdded, CopyResults
  PROVE  DueBooked' /\ DueCopied' /\ DueAdded' /\ DueReported'
  <1>1. /\ tpc = "copy" /\ tpc' = "start" /\ copied' = results[at] /\ at \in Streams
        /\ UNCHANGED <<TIMER_DURATION, at, steps, sums, reported, due>>
    BY DEF CopyResults, TypeInv, TypeOK, TimerOK
  <1>2. Reporting /\ [Next]_vars
    BY <1>1 DEF Reporting, Next, Timer
  <1>3. DueBooked'
    BY <1>1, <1>2, DueBookedStays
  <1>4. DueCopied'
    <2>1. due[at] - 1 <= Booked(at, TIMER_DURATION)
      BY <1>1, <1>2 DEF DueBooked
    <2>2. SumFunctionOnSet(copied', KeysUpTo(TIMER_DURATION')) = Booked(at, TIMER_DURATION)
      BY <1>1, Zenon DEF Booked
    <2> QED
      BY <1>1, <2>1, <2>2 DEF DueCopied
  <1>5. DueAdded'
    BY <1>1, <1>2, Zenon DEF DueAdded, Reporting
  <1> QED
    BY <1>1, <1>3, <1>4, <1>5 DEF DueReported, Reporting

\* The last step adds what is due of stream at
LEMMA AddsDue ==
  ASSUME TypeInv, SlowStartInv, PositionInv, DueCopied, DueAdded, AddStream,
         Step = TIMER_DURATION
  PROVE  SumFunctionOnSet(due, 1..at) - at <= Added.bytes
  <1>1. /\ tpc = "start" /\ at \in Streams /\ at \in Int /\ 1 <= at
        /\ TIMER_DURATION \in Keys /\ copied \in [Keys -> Nat] /\ sums \in Bytes
    BY AddStreamIs, StreamsFinite
  <1>2. /\ due[at] - 1 <= SumFunctionOnSet(copied, KeysUpTo(TIMER_DURATION))
        /\ SumFunctionOnSet(due, 1..(at - 1)) - (at - 1) <= sums.bytes
    BY <1>1 DEF DueCopied, DueAdded, Reporting, Step
  <1>3. SumFunctionOnSet(due, 1..at) = due[at] + SumFunctionOnSet(due, 1..(at - 1))
    <2>1. \A x \in 1..at : due[x] \in Int
      BY <1>1, StreamsFinite DEF TypeInv, TypeOK
    <2> QED
      BY <1>1, <2>1, SumUpTo
  <1>4. /\ SumFunctionOnSet(copied, KeysUpTo(TIMER_DURATION)) \in Nat
        /\ sums.bytes \in Nat /\ due[at] \in Int
    BY <1>1, SumOfResults DEF Bytes, TypeInv, TypeOK
  <1>5. SumFunctionOnSet(due, 1..(at - 1)) \in Int
    <2>1. \A x \in 1..(at - 1) : due[x] \in Int
      BY <1>1, StreamsFinite DEF TypeInv, TypeOK
    <2>2. at - 1 \in Int
      BY <1>1
    <2>3. IsFiniteSet(1..(at - 1))
      BY <2>2, FS_Interval
    <2> QED
      BY <2>1, <2>3, SumInt
  <1>6. Added.bytes = sums.bytes + SumFunctionOnSet(copied, KeysUpTo(TIMER_DURATION))
    <2>1. Added.bytes = sums.bytes + SumFunctionOnSet(copied, KeysUpTo(Step))
      BY DEF Added
    <2> QED
      BY <2>1, Zenon
  <1>7. PICK before \in Int, booked \in Nat :
          /\ before = SumFunctionOnSet(due, 1..(at - 1))
          /\ booked = SumFunctionOnSet(copied, KeysUpTo(TIMER_DURATION))
    BY <1>4, <1>5, Zenon
  <1>8. due[at] - 1 <= booked /\ before - (at - 1) <= sums.bytes
    BY <1>2, <1>7, Zenon
  <1>9. (due[at] + before) - at <= sums.bytes + booked
    BY <1>1, <1>4, <1>8
  <1>10. SumFunctionOnSet(due, 1..at) = due[at] + before /\ Added.bytes = sums.bytes + booked
    BY <1>3, <1>6, <1>7, Zenon
  <1> QED
    BY <1>9, <1>10, Zenon

LEMMA FreshAdds ==
  ASSUME TypeInv, SlowStartInv, PositionInv, DueBooked, DueCopied, DueAdded, AddStream
  PROVE  DueBooked' /\ DueCopied' /\ DueAdded' /\ DueReported'
  <1>1. /\ tpc = "start" /\ at \in 1..DL_STREAMS /\ Reporting /\ [Next]_vars /\ tpc' # "start"
        /\ UNCHANGED <<TIMER_DURATION, due>>
    BY AddStreamIs, StreamsFinite DEF AddStream, Reporting, Next, Timer
  <1>2. DueBooked'
    BY <1>1, DueBookedStays
  <1>3. CASE at < DL_STREAMS
    <2>1. /\ at' = at + 1 /\ at' - 1 = at /\ sums' = Added /\ tpc' = "copy"
          /\ UNCHANGED <<steps, reported>>
      BY <1>1, <1>3, AddStreamIs
    <2>2. ASSUME Step = TIMER_DURATION
          PROVE  SumFunctionOnSet(due', 1..(at' - 1)) - (at' - 1) <= sums'.bytes
      <3>1. SumFunctionOnSet(due, 1..at) - at <= Added.bytes
        BY <2>2, AddsDue
      <3> QED
        BY <1>1, <2>1, <3>1, Zenon
    <2>3. Len(steps') + 1 = TIMER_DURATION' => Step = TIMER_DURATION
      BY <1>1, <2>1 DEF Step
    <2>4. DueAdded'
      BY <2>2, <2>3, Zenon DEF DueAdded
    <2> QED
      BY <1>1, <1>2, <2>1, <2>4 DEF DueCopied, DueReported, Reporting
  <1>4. CASE ~(at < DL_STREAMS)
    <2>1. /\ at = DL_STREAMS /\ at' = 1 /\ sums' = Nothing /\ steps' = Append(steps, Added)
          /\ \/ tpc' = "copy"
             \/ Step = TIMER_DURATION /\ reported' = steps' /\ tpc' \notin {"copy", "start"}
      BY <1>1, <1>4, AddStreamIs
    <2>2. DueAdded'
      <3>1. SumFunctionOnSet(due', 1..(1 - 1)) = 0
        BY SumOverNone
      <3>2. SumFunctionOnSet(due', 1..(at' - 1)) = 0 /\ sums'.bytes = 0 /\ at' - 1 = 0
        BY <2>1, <3>1 DEF Nothing
      <3> QED
        BY <3>2 DEF DueAdded
    <2>3. ASSUME ~Reporting'
          PROVE  SumFunctionOnSet(due', Streams) - DL_STREAMS <= reported'[Len(reported')].bytes
      <3>1. Step = TIMER_DURATION /\ reported' = Append(steps, Added)
        BY <2>1, <2>3 DEF Reporting
      <3>2. reported'[Len(reported')] = Added
        BY <3>1, AddStreamIs, Appended
      <3>3. SumFunctionOnSet(due, 1..at) - at <= Added.bytes
        BY <3>1, AddsDue
      <3>4. 1..at = Streams
        BY <2>1, StreamsFinite
      <3> QED
        BY <1>1, <2>1, <3>2, <3>3, <3>4, Zenon
    <2>4. DueReported'
      BY <2>3, Zenon DEF DueReported
    <2> QED
      BY <1>1, <1>2, <2>2, <2>4 DEF DueCopied
  <1> QED
    BY <1>3, <1>4

LEMMA FreshStep ==
  ASSUME TypeInv, SlowStartInv, PositionInv, BalanceInv, FutureInv, FreshInv, [Next]_vars
  PROVE  FreshInv'
  <1>1. ASSUME NEW s \in Streams, Stream(s) PROVE FreshInv'
    <2>1. UNCHANGED <<reportVars, tpc, TIMER_DURATION>> /\ hasError' = hasError
      BY <1>1, StreamFrame DEF timerVars
    <2> QED
      BY <2>1, FreshQuiet
  <1>2. CASE Clock \/ Fail \/ Done \/ UNCHANGED vars
    <2>1. UNCHANGED <<reportVars, tpc, TIMER_DURATION>> /\ (hasError => hasError')
      BY <1>2 DEF Clock, Fail, Done, vars, timerVars
    <2> QED
      BY <2>1, FreshQuiet
  <1>3. CASE TimerStart
    <2>1. tpc = "sync" /\ tpc' = "tick" /\ UNCHANGED <<reported, due, hasError>>
      BY <1>3 DEF TimerStart, reportVars
    <2>2. ~hasError => DueReported'
      BY <2>1, Zenon DEF FreshInv, DueReported, Reporting
    <2> QED
      BY <2>1, <2>2 DEF FreshInv, DueBooked, DueCopied, DueAdded, Reporting
  <1>4. CASE TimerTick \/ TimerTail
    <2>1. hasError' = hasError /\ tpc = "tick" /\ reported' = reported
      BY <1>4 DEF TimerTick, TimerTail
    <2>2. \/ tpc' = "copy" /\ BeginReport
          \/ tpc' = "tick" /\ due' = due
          \/ tpc' = "ended" /\ hasError
      BY <1>4, <2>1 DEF TimerTick, TimerTail, BeginReport
    <2>3. CASE tpc' = "copy" /\ BeginReport
      BY <1>4, <2>1, <2>3, FreshBegins DEF FreshInv
    <2>4. CASE tpc' = "tick" /\ due' = due
      <3>1. ~hasError => DueReported'
        BY <2>1, <2>4, Zenon DEF FreshInv, DueReported, Reporting
      <3> QED
        BY <2>1, <2>4, <3>1 DEF FreshInv, DueBooked, DueCopied, DueAdded, Reporting
    <2>5. CASE tpc' = "ended" /\ hasError
      BY <2>1, <2>5 DEF FreshInv
    <2> QED
      BY <2>2, <2>3, <2>4, <2>5
  <1>5. CASE CopyResults \/ AddStream
    <2>1. hasError' = hasError
      BY <1>5 DEF CopyResults, AddStream
    <2> QED
      BY <1>5, <2>1, FreshCopy, FreshAdds DEF FreshInv
  <1> QED
    BY <1>1, <1>2, <1>3, <1>4, <1>5 DEF Next, Timer

\* What a report has counted has been received, and not before the measurement
LEMMA CountedReceived ==
  ASSUME TypeInv, SlowStartInv, PositionInv, BalanceInv, TIMER_RUNNING,
         NEW k \in 0..TIMER_DURATION, NEW v, Counted(v, k)
  PROVE  /\ v + SumFunctionOnSet(early, Streams) <= SumFunctionOnSet(datasize_total, Streams)
         /\ v \in Nat
  <1>1. PICK c \in [Streams -> Nat] : /\ v = SumFunctionOnSet(c, Streams)
                                      /\ \A s \in Streams : Near(c[s], s, k)
    BY DEF Counted
  <1> DEFINE told == [s \in Streams |-> c[s] + early[s]]
  <1>2. ASSUME NEW s \in Streams
        PROVE  /\ c[s] \in Nat /\ early[s] \in Nat /\ datasize_total[s] \in Nat
               /\ c[s] + early[s] <= datasize_total[s]
    <2>1. pc[s] # "open" /\ StreamsOK /\ HalfSeconds \in Keys /\ k \in Keys
      BY StreamsOpen, OverWhenReported, HalfSecondsPositive DEF TypeInv, TypeOK, Keys
    <2>2. /\ c[s] \in Nat /\ early[s] \in Nat /\ datasize_total[s] \in Nat
          /\ results[s] \in [Keys -> Nat]
      BY <1>1, <2>1 DEF StreamsOK
    <2>3. Booked(s, HalfSeconds) \in Nat /\ Booked(s, k) \in Nat
      BY <2>1, BookedNat
    <2>4. Booked(s, k) <= Booked(s, HalfSeconds)
      <3>1. PICK h \in Keys : h = HalfSeconds
        BY <2>1
      <3>2. /\ IsFiniteSet(KeysUpTo(h)) /\ KeysUpTo(h) \subseteq Keys
            /\ \A i \in Keys : i \in KeysUpTo(h) <=> i < h
        BY KeySets
      <3>3. KeysUpTo(k) \in SUBSET KeysUpTo(h)
        BY <2>1, <3>1, HalfSecondsPositive DEF KeysUpTo, Keys
      <3>4. \A x \in KeysUpTo(h) : results[s][x] \in Nat
        BY <2>2, <3>2
      <3>5. SumFunctionOnSet(results[s], KeysUpTo(k)) <= SumFunctionOnSet(results[s], KeysUpTo(h))
        BY <3>2, <3>3, <3>4, SumSubset
      <3> QED
        BY <3>1, <3>5, Zenon DEF Booked
    <2>5. c[s] <= Booked(s, k) /\ Accounted(s) <= datasize_total[s]
      BY <1>1, <2>1 DEF Near, BalanceInv
    <2>6. early[s] + Booked(s, HalfSeconds) <= datasize_total[s]
      BY <2>2, <2>3, <2>5 DEF Accounted
    <2> QED
      BY <2>2, <2>3, <2>4, <2>5, <2>6
  <1>3. \A s \in Streams : /\ c[s] \in Int /\ early[s] \in Int /\ told[s] = c[s] + early[s]
                           /\ told[s] \in Int /\ datasize_total[s] \in Int
                           /\ told[s] <= datasize_total[s] /\ c[s] \in Nat
    BY <1>2
  <1> HIDE DEF told
  <1>4. SumFunctionOnSet(told, Streams) =
          SumFunctionOnSet(c, Streams) + SumFunctionOnSet(early, Streams)
    BY <1>3, StreamsFinite, SumPlus
  <1>5. SumFunctionOnSet(told, Streams) <= SumFunctionOnSet(datasize_total, Streams)
    BY <1>3, StreamsFinite, SumMono
  <1>6. SumFunctionOnSet(c, Streams) \in Nat
    BY <1>3, StreamsFinite, SumNat
  <1> QED
    BY <1>1, <1>4, <1>5, <1>6, Zenon

\* A report has every byte of the measurement that had been received when it
\* began, but for the last receive of each stream, and none that has not been
\* received (timer.cpp:145-166, callback.cpp:323-340, 397-516)
THEOREM ReportsUpToDate == Spec => []ReportsFresh
  <1>1. TypeInv /\ SlowStartInv /\ PositionInv /\ CountInv /\ BalanceInv /\ FutureInv /\ FreshInv
          /\ [Next]_vars => FutureInv' /\ FreshInv'
    BY FutureStep, FreshStep
  <1>2. Spec => [](FutureInv /\ FreshInv)
    BY <1>1, InitFresh, CountCorrect, BalanceCorrect, PTL DEF Spec
  <1>3. ASSUME TypeInv, SlowStartInv, PositionInv, CountInv, BalanceInv, FreshInv
        PROVE  ReportsFresh
    <2> SUFFICES ASSUME tpc \in {"tick", "ended"}, ~hasError, reported # << >>
                 PROVE  LET bytes == reported[Len(reported)].bytes
                        IN  /\ SumFunctionOnSet(due, Streams) - bytes <= DL_STREAMS
                            /\ bytes <= SumFunctionOnSet(datasize_total, Streams)
                                          - SumFunctionOnSet(early, Streams)
      BY DEF ReportsFresh
    <2>1. PICK n \in 1..Len(reported) : n = Len(reported)
      BY <1>3 DEF PositionInv, ReportTypes
    <2>2. TIMER_RUNNING /\ n \in 0..TIMER_DURATION
      BY <1>3, <2>1, ReportLengths
    <2>3. PICK v : v = reported[n].bytes
      OBVIOUS
    <2>4. Counted(v, n)
      BY <1>3, <2>1, <2>3 DEF CountInv, ReportedInv
    <2>5. /\ v + SumFunctionOnSet(early, Streams) <= SumFunctionOnSet(datasize_total, Streams)
          /\ v \in Nat
      BY <1>3, <2>2, <2>4, CountedReceived
    <2>6. SumFunctionOnSet(due, Streams) - DL_STREAMS <= v
      BY <1>3, <2>1, <2>3, Zenon DEF FreshInv, DueReported, Reporting
    <2>7. /\ SumFunctionOnSet(due, Streams) \in Int /\ SumFunctionOnSet(early, Streams) \in Int
          /\ SumFunctionOnSet(datasize_total, Streams) \in Int
      <3>1. \A s \in Streams : due[s] \in Int /\ early[s] \in Int /\ datasize_total[s] \in Int
        BY <1>3 DEF TypeInv, TypeOK, StreamsOK
      <3> QED
        BY <3>1, StreamsFinite, SumInt
    <2>8. /\ SumFunctionOnSet(due, Streams) - v <= DL_STREAMS
          /\ v <= SumFunctionOnSet(datasize_total, Streams) - SumFunctionOnSet(early, Streams)
      BY <2>5, <2>6, <2>7, StreamsFinite
    <2> QED
      BY <2>1, <2>3, <2>8, Zenon
  <1> QED
    BY <1>2, <1>3, CountCorrect, BalanceCorrect, PTL
=============================================================================
