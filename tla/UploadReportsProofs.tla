------------------------ MODULE UploadReportsProofs -------------------------
(***************************************************************************)
(* Theorems about UploadReports: types, the choice of the first key, the   *)
(* keys that the callback takes for half seconds, and the bytes it counts  *)
(* under them.                                                             *)
(***************************************************************************)
EXTENDS UploadReports, SumTheorems

\* The slow start is never negative: a report's bytes have been added up
DataInv == \A s \in Streams : nDataRecv[s] <= datasize_total[s]

PeerInv ==
  /\ nextKey \in [Streams -> Nat] /\ sent \in [Streams -> Nat] /\ torn \in [Streams -> Nat]
  /\ results = [s \in Streams |-> results[s]]
  /\ \A s \in Streams : sent[s] <= nextKey[s] /\ (rest[s] # "none" => 0 < sent[s])

TypeInv == TypeOK /\ PeerInv /\ DataInv

-----------------------------------------------------------------------------
(* Types *)

LEMMA BytesAreNat == Bytes \subseteq Nat /\ Reported \subseteq Bytes
  BY UploadAssumption DEF Bytes

LEMMA InitTypes == Init => TypeInv
  <1> SUFFICES ASSUME Init PROVE TypeInv
    OBVIOUS
  <1>1. \A s \in Streams : DOMAIN results[s] = {}
    BY DEF Init
  <1>2. TypeOK
    <2>1. 0 \in Bytes
      BY UploadAssumption DEF Bytes
    <2> QED
      BY <1>1, <2>1 DEF Init, TypeOK
  <1>3. results = [s \in Streams |-> results[s]]
    BY Zenon DEF Init
  <1>4. /\ nextKey \in [Streams -> Nat] /\ sent \in [Streams -> Nat] /\ torn \in [Streams -> Nat]
        /\ \A s \in Streams : sent[s] <= nextKey[s] /\ rest[s] = "none"
    <2>1. nextKey \in [Streams -> Nat]
      BY UploadAssumption DEF Init
    <2>2. sent \in [Streams -> Nat] /\ torn \in [Streams -> Nat]
      BY DEF Init
    <2>3. \A s \in Streams : sent[s] = 0 /\ rest[s] = "none"
      BY DEF Init
    <2> QED
      BY <2>1, <2>2, <2>3
  <1>5. DataInv
    BY DEF Init, DataInv
  <1> QED
    BY <1>2, <1>3, <1>4, <1>5 DEF TypeInv, PeerInv

\* What a stream does with the fields of a report
LEMMA ReadTypes ==
  ASSUME TypeInv, NEW s \in Streams, NEW data \in Bytes, NEW key \in Nat, Read(s, data, key)
  PROVE  /\ nDataRecv' \in [Streams -> Bytes] /\ nTimeRecvExa' \in [Streams -> Nat]
         /\ datasize_total' \in [Streams -> Nat]
         /\ DataInv'
  BY BytesAreNat DEF TypeInv, TypeOK, DataInv, Read

LEMMA ReadBeyondTypes ==
  ASSUME TypeInv, NEW s \in Streams, NEW data \in Bytes, ReadBeyond(s, data)
  PROVE  /\ nDataRecv' \in [Streams -> Bytes] /\ nTimeRecvExa' \in [Streams -> Nat]
         /\ datasize_total' \in [Streams -> Nat]
         /\ crashed' \in BOOLEAN
         /\ DataInv'
  <1>1. CASE Read(s, data, nTimeRecvExa[s]) /\ UNCHANGED crashed
    <2>1. nTimeRecvExa[s] \in Nat
      BY DEF TypeInv, TypeOK
    <2> QED
      BY <1>1, <2>1, ReadTypes DEF TypeInv, TypeOK
  <1>2. CASE crashed' = TRUE /\ UNCHANGED dataVars
    BY <1>2 DEF dataVars, TypeInv, TypeOK, DataInv
  <1> QED
    BY <1>1, <1>2 DEF ReadBeyond

LEMMA StreamTypes ==
  ASSUME TypeInv, NEW s \in Streams, Stream(s)
  PROVE  TypeInv'
  <1> USE DEF TypeInv, TypeOK, PeerInv, Goto
  <1>1. CASE Loop(s)
    BY <1>1 DEF Loop, timerVars, errorVars, bookVars, dataVars, peerVars, DataInv
  <1>2. CASE Receive(s)
    BY <1>2 DEF Receive, timerVars, errorVars, bookVars, dataVars, peerVars, DataInv
  <1>3. CASE WholeReport(s)
    <2>1. PICK data \in Bytes : Read(s, data, nextKey[s])
      BY <1>3, BytesAreNat DEF WholeReport
    <2>2. nextKey[s] \in Nat
      OBVIOUS
    <2> QED
      BY <1>3, <2>1, <2>2, ReadTypes DEF WholeReport, NextReport, ItemFrame, timerVars, bookVars
  <1>4. CASE TornReport(s)
    <2>1. PICK k \in 1..4 :
            /\ rest' = [rest EXCEPT ![s] = <<"key", "noKey", "scrap", "scrap">>[k]]
            /\ \/ k \in {1, 2} /\ Unread(s) /\ UNCHANGED crashed
               \/ k = 3 /\ (\E data \in Reported : ReadBeyond(s, data))
               \/ /\ k = 4 /\ UNCHANGED crashed
                  /\ \E data \in Reported, key \in Misread : Read(s, data, key)
      BY <1>4 DEF TornReport
    <2>2. /\ nDataRecv' \in [Streams -> Bytes] /\ nTimeRecvExa' \in [Streams -> Nat]
          /\ datasize_total' \in [Streams -> Nat]
          /\ crashed' \in BOOLEAN
          /\ DataInv'
      <3>1. CASE Unread(s) /\ UNCHANGED crashed
        BY <3>1 DEF Unread, dataVars, DataInv
      <3>2. CASE \E data \in Reported : ReadBeyond(s, data)
        BY <3>2, ReadBeyondTypes, BytesAreNat
      <3>3. CASE /\ UNCHANGED crashed
                 /\ \E data \in Reported, key \in Misread : Read(s, data, key)
        BY <3>3, ReadTypes, BytesAreNat, UploadAssumption
      <3> QED
        BY <2>1, <3>1, <3>2, <3>3
    <2>3. rest' \in [Streams -> {"none", "key", "noKey", "scrap"}]
      BY <2>1
    <2>4. PeerInv'
      BY <1>4, <2>1 DEF TornReport, NextReport, ItemFrame, bookVars
    <2> QED
      BY <1>4, <2>2, <2>3, <2>4 DEF TornReport, NextReport, ItemFrame, timerVars, bookVars
  <1>5. CASE TornKey(s)
    BY <1>5 DEF TornKey, NextReport, ItemFrame, timerVars, bookVars, dataVars, DataInv
  <1>6. CASE Unwind(s)
    BY <1>6 DEF Unwind, timerVars, bookVars, dataVars, peerVars, DataInv
  <1>7. CASE Remainder(s)
    <2>1. nextKey[s] - 1 \in Nat
      BY <1>7 DEF Remainder
    <2>2. /\ nDataRecv' \in [Streams -> Bytes] /\ nTimeRecvExa' \in [Streams -> Nat]
          /\ datasize_total' \in [Streams -> Nat]
          /\ crashed' \in BOOLEAN
          /\ DataInv'
      <3>1. CASE (\E data \in Bytes : Read(s, data, nextKey[s] - 1)) /\ UNCHANGED crashed
        BY <2>1, <3>1, ReadTypes
      <3>2. CASE \E data \in Bytes : ReadBeyond(s, data)
        BY <3>2, ReadBeyondTypes
      <3>3. CASE Unread(s) /\ UNCHANGED crashed
        BY <3>3 DEF Unread, dataVars, DataInv
      <3> QED
        BY <1>7, <3>1, <3>2, <3>3 DEF Remainder
    <2>3. PeerInv'
      BY <1>7 DEF Remainder, ItemFrame, bookVars
    <2> QED
      BY <1>7, <2>2, <2>3 DEF Remainder, ItemFrame, timerVars, bookVars
  <1>8. CASE LooksForFirst(s)
    BY <1>8 DEF LooksForFirst, ChoiceFrame, timerVars, errorVars, bookVars, dataVars, peerVars,
      DataInv
  <1>9. CASE ChoosesFirst(s)
    BY <1>9 DEF ChoosesFirst, Chosen, ChoiceFrame, timerVars, errorVars, bookVars, dataVars,
      peerVars, DataInv
  <1>10. CASE Zero(s)
    <2>1. PeerInv' /\ DataInv'
      BY <1>10 DEF Zero, peerVars, dataVars, DataInv
    <2>2. Grid(TIMER_INDEX_UPLOAD_FIRST) \subseteq Nat
      BY UploadAssumption DEF Grid
    <2>3. ASSUME NEW u \in Streams
          PROVE  /\ DOMAIN results'[u] \subseteq Nat
                 /\ \A k \in DOMAIN results'[u] : results'[u][k] \in Nat
      BY <1>10, <2>2 DEF Zero
    <2>4. zeroed' \subseteq Streams
      BY <1>10 DEF Zero
    <2> QED
      BY <1>10, <2>1, <2>3, <2>4 DEF Zero, timerVars, errorVars, dataVars, peerVars
  <1>11. CASE Book(s)
    <2>1. PeerInv' /\ DataInv'
      BY <1>11 DEF Book, bookVars, peerVars, dataVars, DataInv
    <2>2. ASSUME NEW u \in Streams
          PROVE  /\ DOMAIN results'[u] \subseteq Nat
                 /\ \A k \in DOMAIN results'[u] : results'[u][k] \in Nat
      <3>1. /\ nTimeRecvExa[s] \in Nat /\ nDataRecv[s] \in Nat
            /\ DOMAIN results[u] \subseteq Nat
            /\ \A k \in DOMAIN results[u] : results[u][k] \in Nat
        BY BytesAreNat
      <3>2. CASE hasError \/ u # s
        <4>1. results'[u] = results[u]
          BY <1>11, <3>2 DEF Book, bookVars
        <4> QED
          BY <3>1, <4>1
      <3>3. CASE ~hasError /\ u = s
        <4>1. PICK key \in Nat, data \in Nat : key = nTimeRecvExa[s] /\ data = nDataRecv[s]
          BY <3>1
        <4>2. results'[u] =
                [k \in (DOMAIN results[u]) \cup {key} |->
                   IF k # key THEN results[u][k]
                   ELSE IF key \in DOMAIN results[u] THEN results[u][k] + data ELSE data]
          BY <1>11, <3>3, <4>1 DEF Book
        <4> QED
          BY <3>1, <4>2
      <3> QED
        BY <3>2, <3>3
    <2>3. datasize_total[s] - nDataRecv[s] \in Nat
      BY BytesAreNat DEF DataInv
    <2>4. datasize_slow_start' \in [Streams -> Nat]
      <3>1. datasize_slow_start \in [Streams -> Nat] /\ SlowStartBytes(s) \in Nat
        BY <2>3 DEF SlowStartBytes
      <3>2. \/ UNCHANGED datasize_slow_start
            \/ datasize_slow_start' = [datasize_slow_start EXCEPT ![s] = @]
            \/ datasize_slow_start' = [datasize_slow_start EXCEPT ![s] = SlowStartBytes(s)]
        BY <1>11 DEF Book, bookVars
      <3> QED
        BY <3>1, <3>2
    <2> QED
      BY <1>11, <2>1, <2>2, <2>4 DEF Book, timerVars, errorVars, dataVars, peerVars
  <1> QED
    BY <1>1, <1>2, <1>3, <1>4, <1>5, <1>6, <1>7, <1>8, <1>9, <1>10, <1>11 DEF Stream

LEMMA TimerTypes ==
  ASSUME TypeInv, Start \/ Stop \/ UNCHANGED vars
  PROVE  TypeInv'
  BY DEF Start, Stop, vars, timerVars, errorVars, bookVars, dataVars, peerVars, TypeInv, TypeOK,
    PeerInv, DataInv

LEMMA StepTypes ==
  ASSUME TypeInv, [Next]_vars
  PROVE  TypeInv'
  BY StreamTypes, TimerTypes DEF Next, Done

-----------------------------------------------------------------------------
(* The first key *)

\* FirstChosenOnce holds in every step: the second look, inside the mutex,
\* keeps what another stream has chosen
LEMMA FirstKept ==
  ASSUME [Next]_vars, TIMER_INDEX_UPLOAD_FIRST # 0
  PROVE  UNCHANGED TIMER_INDEX_UPLOAD_FIRST
  BY DEF Next, Done, Start, Stop, Stream, Loop, Receive, WholeReport, TornReport, TornKey,
    NextReport, ItemFrame, Unwind, Remainder, LooksForFirst, ChoosesFirst, Chosen, Zero, Book,
    vars

\* TIMER_INDEX_UPLOAD_FIRST is chosen once, for any number of streams
\* (upload.cpp:228-237)
THEOREM OneFirstKey == Spec => FirstChosenOnce
  <1>1. [Next]_vars => [TIMER_INDEX_UPLOAD_FIRST # 0 => UNCHANGED TIMER_INDEX_UPLOAD_FIRST]_vars
    BY FirstKept
  <1> QED
    BY <1>1, PTL DEF Spec, FirstChosenOnce

-----------------------------------------------------------------------------
(* The keys of a stream *)

FirstKey(s) == nextKey[s] - sent[s]

\* Of the reports s has taken, the one it has not booked yet
Pending(s) == IF pc[s] \in {"first", "lock", "zero", "book"} THEN 1 ELSE 0

\* The keys it has booked, and those it has zeroed
OwnKeys(s) == FirstKey(s)..(nextKey[s] - Pending(s) - 1)
ZeroedKeys(s) == IF s \in zeroed THEN Grid(TIMER_INDEX_UPLOAD_FIRST) ELSE {}

\* What a stream knows as long as none of its reports was torn; after an error
\* it books no more
StreamKeys(s) ==
  /\ rest[s] = "none" /\ pc[s] # "unwind"
  /\ Pending(s) = 1 => sent[s] > 0 /\ nTimeRecvExa[s] = nextKey[s] - 1
  /\ DOMAIN results[s] \subseteq OwnKeys(s) \cup ZeroedKeys(s)
  /\ ~hasError => DOMAIN results[s] = OwnKeys(s) \cup ZeroedKeys(s)
  /\ ZeroedKeys(s) \subseteq DOMAIN results[s]
  /\ s \in zeroed => /\ TIMER_INDEX_UPLOAD_FIRST # 0
                     /\ FirstKey(s) <= TIMER_INDEX_UPLOAD_FIRST
                     /\ TIMER_INDEX_UPLOAD_FIRST <= nextKey[s] - 1
                     /\ pc[s] \in {"first", "lock", "zero"} =>
                          TIMER_INDEX_UPLOAD_FIRST < nextKey[s] - 1

KeysInv ==
  /\ NoneTorn => ~hasError
  /\ \A s \in Streams : torn[s] = 0 => StreamKeys(s)

LEMMA InitKeys == Init => KeysInv
  <1> SUFFICES ASSUME Init, NEW s \in Streams PROVE StreamKeys(s)
    BY DEF KeysInv, Init
  <1>1. nextKey[s] \in Nat
    BY UploadAssumption DEF Init
  <1>2. DOMAIN results[s] = {} /\ OwnKeys(s) = {}
    BY <1>1 DEF Init, OwnKeys, FirstKey, Pending
  <1> QED
    BY <1>2 DEF Init, StreamKeys, Pending, ZeroedKeys

\* A stream's keys are its own: they depend on what only it changes, and on the
\* first key, which stays once there is one
LEMMA OthersKeep ==
  ASSUME NEW u \in Streams, StreamKeys(u),
         TIMER_INDEX_UPLOAD_FIRST # 0 => UNCHANGED TIMER_INDEX_UPLOAD_FIRST,
         rest'[u] = rest[u], pc'[u] = pc[u], sent'[u] = sent[u], nextKey'[u] = nextKey[u],
         nTimeRecvExa'[u] = nTimeRecvExa[u], nDataRecv'[u] = nDataRecv[u],
         results'[u] = results[u], hasError => hasError',
         u \in zeroed' <=> u \in zeroed
  PROVE  StreamKeys(u)'
  BY DEF StreamKeys, FirstKey, Pending, OwnKeys, ZeroedKeys, Grid

LEMMA LastOfInterval ==
  \A first, last \in Int : first <= last => first..last = (first..(last - 1)) \cup {last}
  OBVIOUS

LEMMA OwnStep ==
  ASSUME TypeInv, NEW s \in Streams, Stream(s), StreamKeys(s), torn'[s] = 0,
         TIMER_INDEX_UPLOAD_FIRST # 0 => UNCHANGED TIMER_INDEX_UPLOAD_FIRST
  PROVE  StreamKeys(s)' /\ hasError' = hasError
  <1> USE DEF Goto, TypeInv, TypeOK, PeerInv, StreamKeys
  <1>1. CASE Loop(s)
    BY <1>1 DEF Loop, errorVars, bookVars, dataVars, peerVars, FirstKey, Pending, OwnKeys,
      ZeroedKeys
  <1>2. CASE Receive(s)
    BY <1>2 DEF Receive, errorVars, bookVars, dataVars, peerVars, FirstKey, Pending, OwnKeys,
      ZeroedKeys
  <1>3. CASE WholeReport(s)
    <2>1. pc[s] = "item" /\ pc'[s] = "first" /\ UNCHANGED <<rest, bookVars, zeroed, hasError>>
      BY <1>3 DEF WholeReport, NextReport, ItemFrame
    <2>2. /\ nextKey'[s] = nextKey[s] + 1 /\ sent'[s] = sent[s] + 1
          /\ nTimeRecvExa'[s] = nextKey[s]
      BY <1>3 DEF WholeReport, NextReport, Read
    <2>3. OwnKeys(s)' = OwnKeys(s)
      BY <2>1, <2>2 DEF OwnKeys, FirstKey, Pending
    <2>4. ZeroedKeys(s)' = ZeroedKeys(s)
      BY <1>3, <2>1 DEF WholeReport, NextReport, ItemFrame, ZeroedKeys
    <2>5. /\ rest'[s] = "none" /\ results'[s] = results[s]
          /\ s \in zeroed' <=> s \in zeroed
          /\ UNCHANGED TIMER_INDEX_UPLOAD_FIRST
      BY <1>3, <2>1 DEF WholeReport, NextReport, ItemFrame, Read, bookVars
    <2>6. FirstKey(s)' = FirstKey(s) /\ Pending(s)' = 1
      BY <2>1, <2>2 DEF FirstKey, Pending
    <2> QED
      BY <2>1, <2>2, <2>3, <2>4, <2>5, <2>6
  <1>4. CASE TornReport(s) \/ TornKey(s)
    BY <1>4 DEF TornReport, TornKey
  <1>5. CASE Unwind(s) \/ Remainder(s)
    BY <1>5 DEF Unwind, Remainder
  <1>6. CASE LooksForFirst(s)
    BY <1>6 DEF LooksForFirst, ChoiceFrame, errorVars, bookVars, dataVars, peerVars, FirstKey,
      Pending, OwnKeys, ZeroedKeys
  <1>7. CASE ChoosesFirst(s)
    <2>1. ZeroedKeys(s)' = ZeroedKeys(s)
      BY <1>7 DEF ChoosesFirst, ChoiceFrame, ZeroedKeys
    <2>2. OwnKeys(s)' = OwnKeys(s)
      BY <1>7 DEF ChoosesFirst, ChoiceFrame, peerVars, OwnKeys, FirstKey, Pending
    <2> QED
      BY <1>7, <2>1, <2>2 DEF ChoosesFirst, ChoiceFrame, errorVars, bookVars, dataVars, peerVars,
        FirstKey, Pending
  <1>8. CASE Zero(s)
    <2>1. /\ pc[s] = "zero" /\ pc'[s] = "book"
          /\ UNCHANGED <<rest, nextKey, sent, nTimeRecvExa, nDataRecv,
                         TIMER_INDEX_UPLOAD_FIRST, hasError>>
      BY <1>8 DEF Zero, peerVars, dataVars, errorVars
    <2>p. FirstKey(s)' = FirstKey(s) /\ Pending(s) = 1 /\ Pending(s)' = 1
      BY <2>1 DEF FirstKey, Pending
    <2>2. OwnKeys(s)' = OwnKeys(s)
      BY <2>1 DEF OwnKeys, FirstKey, Pending
    <2>3. CASE IsFirst(s)
      <3>1. DOMAIN results'[s] = DOMAIN results[s] \cup Grid(TIMER_INDEX_UPLOAD_FIRST)
        BY <1>8, <2>3 DEF Zero
      <3>2. zeroed' = zeroed \cup {s}
        BY <1>8, <2>3 DEF Zero
      <3>3. ZeroedKeys(s)' = Grid(TIMER_INDEX_UPLOAD_FIRST)
        BY <2>1, <3>2 DEF ZeroedKeys, Grid
      <3>4. ~(s \in zeroed)
        BY <2>1, <2>3, <2>p DEF IsFirst
      <3>5. ZeroedKeys(s) = {}
        BY <3>4 DEF ZeroedKeys
      <3>6. /\ TIMER_INDEX_UPLOAD_FIRST # 0
            /\ TIMER_INDEX_UPLOAD_FIRST = nextKey[s] - 1
            /\ FirstKey(s) <= TIMER_INDEX_UPLOAD_FIRST
        BY <2>1, <2>3 DEF IsFirst, FirstKey, Pending
      <3>7. /\ DOMAIN results'[s] \subseteq OwnKeys(s)' \cup ZeroedKeys(s)'
            /\ ~hasError => DOMAIN results'[s] = OwnKeys(s)' \cup ZeroedKeys(s)'
            /\ ZeroedKeys(s)' \subseteq DOMAIN results'[s]
        BY <2>2, <3>1, <3>3, <3>5
      <3> QED
        BY <2>1, <2>p, <3>6, <3>7
    <2>4. CASE ~IsFirst(s)
      <3>1. UNCHANGED <<results, zeroed>>
        BY <1>8, <2>4 DEF Zero
      <3>2. ZeroedKeys(s)' = ZeroedKeys(s)
        BY <2>1, <3>1 DEF ZeroedKeys
      <3> QED
        BY <2>1, <2>2, <2>p, <3>1, <3>2
    <2> QED
      BY <2>3, <2>4
  <1>9. CASE Book(s)
    <2>1. /\ pc[s] = "book" /\ pc'[s] \in {"loop", "item"}
          /\ UNCHANGED <<rest, nextKey, sent, TIMER_INDEX_UPLOAD_FIRST, hasError, zeroed>>
      BY <1>9 DEF Book, peerVars, errorVars
    <2>2. Pending(s) = 1 /\ Pending(s)' = 0
      BY <2>1 DEF Pending
    <2>3. OwnKeys(s)' = OwnKeys(s) \cup {nextKey[s] - 1}
      <3>1. nextKey[s] \in Nat /\ sent[s] \in Nat /\ sent[s] > 0
        BY <2>2
      <3>2. PICK next \in Nat, n \in Nat : next = nextKey[s] /\ n = sent[s]
        BY <3>1
      <3>3. OwnKeys(s) = (next - n)..(next - 2) /\ OwnKeys(s)' = (next - n)..(next - 1)
        BY <2>1, <2>2, <3>2 DEF OwnKeys, FirstKey
      <3>4. PICK first, last \in Int :
              first = next - n /\ last = next - 1 /\ last - 1 = next - 2 /\ first <= last
        BY <3>1, <3>2
      <3> QED
        BY <3>2, <3>3, <3>4, LastOfInterval
    <2>4. ZeroedKeys(s)' = ZeroedKeys(s) /\ FirstKey(s)' = FirstKey(s)
      BY <2>1 DEF ZeroedKeys, FirstKey
    <2>5. CASE hasError
      <3>1. results'[s] = results[s]
        BY <1>9, <2>5 DEF Book, bookVars
      <3> QED
        BY <2>1, <2>2, <2>3, <2>4, <2>5, <3>1
    <2>6. CASE ~hasError
      <3>1. DOMAIN results'[s] = DOMAIN results[s] \cup {nTimeRecvExa[s]}
        BY <1>9, <2>6 DEF Book
      <3> QED
        BY <2>1, <2>2, <2>3, <2>4, <2>6, <3>1
    <2> QED
      BY <2>5, <2>6
  <1> QED
    BY <1>1, <1>2, <1>3, <1>4, <1>5, <1>6, <1>7, <1>8, <1>9 DEF Stream

\* A step of one stream leaves what the others keep for themselves
LEMMA OwnVariables ==
  ASSUME TypeInv, NEW s \in Streams, Stream(s), NEW u \in Streams, u # s
  PROVE  /\ rest'[u] = rest[u] /\ pc'[u] = pc[u] /\ sent'[u] = sent[u]
         /\ nextKey'[u] = nextKey[u] /\ results'[u] = results[u]
         /\ nTimeRecvExa'[u] = nTimeRecvExa[u] /\ torn'[u] = torn[u]
         /\ nDataRecv'[u] = nDataRecv[u] /\ datasize_total'[u] = datasize_total[u]
         /\ datasize_slow_start'[u] = datasize_slow_start[u]
         /\ u \in zeroed' <=> u \in zeroed
  <1> USE DEF TypeInv, TypeOK, PeerInv, Goto
  <1>1. CASE Loop(s) \/ Receive(s) \/ LooksForFirst(s) \/ ChoosesFirst(s) \/ Unwind(s)
    BY <1>1 DEF Loop, Receive, LooksForFirst, ChoosesFirst, Unwind, ChoiceFrame, bookVars,
      dataVars, peerVars
  <1>2. CASE WholeReport(s) \/ TornKey(s)
    BY <1>2 DEF WholeReport, TornKey, NextReport, ItemFrame, Read, bookVars, dataVars
  <1>3. CASE TornReport(s)
    <2>1. /\ nTimeRecvExa'[u] = nTimeRecvExa[u] /\ rest'[u] = rest[u]
          /\ nDataRecv'[u] = nDataRecv[u] /\ datasize_total'[u] = datasize_total[u]
      BY <1>3 DEF TornReport, Unread, ReadBeyond, Read, dataVars
    <2> QED
      BY <1>3, <2>1 DEF TornReport, NextReport, ItemFrame, bookVars
  <1>4. CASE Remainder(s)
    BY <1>4 DEF Remainder, Unread, ReadBeyond, Read, ItemFrame, bookVars, dataVars
  <1>5. CASE Zero(s)
    BY <1>5 DEF Zero, dataVars, peerVars
  <1>6. CASE Book(s)
    BY <1>6 DEF Book, bookVars, dataVars, peerVars
  <1> QED
    BY <1>1, <1>2, <1>3, <1>4, <1>5, <1>6 DEF Stream

\* Torn reports and errors are not forgotten, nor that the process died
LEMMA Lasting ==
  ASSUME TypeInv, [Next]_vars
  PROVE  /\ \A s \in Streams : torn[s] <= torn'[s]
         /\ hasError => hasError'
         /\ crashed => crashed'
  <1> USE DEF TypeInv, TypeOK, PeerInv
  <1>1. CASE \E s \in Streams : Stream(s)
    <2>1. PICK s \in Streams : Stream(s)
      BY <1>1
    <2>2. torn'[s] = torn[s] \/ torn'[s] = torn[s] + 1
      BY <2>1 DEF Stream, Loop, Receive, WholeReport, TornReport, TornKey, Unwind, Remainder,
        LooksForFirst, ChoosesFirst, ChoiceFrame, Zero, Book, peerVars
    <2>3. \A u \in Streams : u # s => torn'[u] = torn[u]
      BY <2>1, OwnVariables
    <2>4. \A u \in Streams : torn[u] <= torn'[u]
      BY <2>2, <2>3
    <2>5. hasError => hasError'
      BY <2>1, Zenon DEF Stream, Loop, Receive, WholeReport, TornReport, TornKey, Unwind,
        Remainder, LooksForFirst, ChoosesFirst, ChoiceFrame, Zero, Book, errorVars
    <2>6. crashed => crashed'
      BY <2>1, Zenon DEF Stream, Loop, Receive, WholeReport, TornReport, TornKey, Unwind,
        Remainder, LooksForFirst, ChoosesFirst, ChoiceFrame, Zero, Book, ReadBeyond
    <2> QED
      BY <2>4, <2>5, <2>6
  <1>2. CASE Start \/ Stop \/ UNCHANGED vars
    <2>1. UNCHANGED <<torn, hasError, crashed>>
      BY <1>2 DEF Start, Stop, vars, peerVars, errorVars
    <2>2. \A s \in Streams : torn[s] <= torn'[s]
      BY <2>1
    <2> QED
      BY <2>1, <2>2
  <1> QED
    BY <1>1, <1>2 DEF Next, Done

LEMMA StepKeys ==
  ASSUME TypeInv, KeysInv, [Next]_vars
  PROVE  KeysInv'
  <1> USE DEF KeysInv
  <1>1. /\ \A u \in Streams : torn'[u] = 0 => torn[u] = 0
        /\ hasError => hasError'
    BY Lasting, StepTypes DEF TypeInv, PeerInv
  <1>2. TIMER_INDEX_UPLOAD_FIRST # 0 => UNCHANGED TIMER_INDEX_UPLOAD_FIRST
    BY FirstKept
  <1>3. CASE \E s \in Streams : Stream(s)
    <2>1. PICK s \in Streams : Stream(s)
      BY <1>3
    <2>2. torn'[s] = 0 => StreamKeys(s)' /\ hasError' = hasError
      BY <1>1, <1>2, <2>1, OwnStep
    <2>3. ASSUME NEW u \in Streams, u # s, torn'[u] = 0 PROVE StreamKeys(u)'
      BY <1>1, <1>2, <2>1, <2>3, OwnVariables, OthersKeep
    <2>4. NoneTorn' => ~hasError'
      BY <1>1, <2>2 DEF NoneTorn
    <2> QED
      BY <2>2, <2>3, <2>4
  <1>4. CASE Start \/ Stop \/ UNCHANGED vars
    <2>1. UNCHANGED <<rest, pc, sent, nextKey, results, nTimeRecvExa, nDataRecv, zeroed,
                      hasError, torn>>
      BY <1>4 DEF Start, Stop, vars, peerVars, bookVars, dataVars, errorVars
    <2>2. ASSUME NEW u \in Streams, torn'[u] = 0 PROVE StreamKeys(u)'
      BY <1>1, <1>2, <2>1, <2>2, OthersKeep
    <2>3. NoneTorn' => ~hasError'
      BY <2>1 DEF NoneTorn
    <2> QED
      BY <2>2, <2>3
  <1> QED
    BY <1>3, <1>4 DEF Next, Done

-----------------------------------------------------------------------------
(* The sums of a stream *)

AllBooked(s) == SumFunctionOnSet(results[s], DOMAIN results[s])
KeptSum(s) == SumFunctionOnSet(results[s], Kept(s))

\* What the stream is about to book
Coming(s) == IF Pending(s) = 1 THEN nDataRecv[s] ELSE 0

\* A torn report makes what was read last be booked again: at once, or when its
\* scrap comes.  So much is granted for the torn reports
Outstanding(s) == Coming(s) + (IF rest[s] = "scrap" THEN MostBytes ELSE 0)
Granted(s) == torn[s] * MostBytes

Bounded(s) ==
  /\ datasize_slow_start[s] <= datasize_total[s]
  /\ AllBooked(s) + (IF crashed THEN 0 ELSE Outstanding(s)) <= datasize_total[s] + Granted(s)

\* The stream is about to book the first key, and with it its slow start
FirstPending(s) == pc[s] = "book" /\ nTimeRecvExa[s] = TIMER_INDEX_UPLOAD_FIRST

\* Without torn reports what is read is booked once; errors make it be lost
Balanced(booked, received) == booked <= received /\ (~hasError => booked = received)

BooksBalance(s) ==
  /\ Balanced(AllBooked(s) + Coming(s), datasize_total[s])
  /\ IF s \notin zeroed THEN datasize_slow_start[s] = 0
     ELSE IF FirstPending(s)
            THEN datasize_slow_start[s] = 0 /\ \A k \in Kept(s) : results[s][k] = 0
            ELSE Balanced(datasize_slow_start[s] + KeptSum(s) + Coming(s), datasize_total[s])

LEMMA Grants ==
  ASSUME NEW s \in Streams, torn[s] \in Nat
  PROVE  /\ Granted(s) \in Nat
         /\ torn[s] = 0 => Granted(s) = 0
         /\ torn'[s] = torn[s] => Granted(s)' = Granted(s)
         /\ torn'[s] = torn[s] + 1 => Granted(s)' = Granted(s) + MostBytes
  <1>1. MostBytes \in Nat
    BY UploadAssumption
  <1>2. \A n, m \in Nat : n * m \in Nat /\ 0 * m = 0 /\ (n + 1) * m = n * m + m
    OBVIOUS
  <1> QED
    BY <1>1, <1>2 DEF Granted

SumsInv ==
  \A s \in Streams :
    /\ IsFiniteSet(DOMAIN results[s])
    /\ Bounded(s)
    /\ torn[s] = 0 => BooksBalance(s)

LEMMA InitSums == Init => SumsInv
  <1> SUFFICES ASSUME Init, NEW s \in Streams
               PROVE  IsFiniteSet(DOMAIN results[s]) /\ Bounded(s) /\ BooksBalance(s)
    BY DEF SumsInv
  <1>1. DOMAIN results[s] = {}
    BY DEF Init
  <1>2. IsFiniteSet(DOMAIN results[s]) /\ AllBooked(s) = 0
    BY <1>1, FS_EmptySet, SumEmpty DEF AllBooked
  <1>3. /\ datasize_total[s] = 0 /\ datasize_slow_start[s] = 0 /\ torn[s] = 0
        /\ Pending(s) = 0 /\ Coming(s) = 0 /\ Outstanding(s) = 0 /\ ~(s \in zeroed)
    BY DEF Init, Pending, Coming, Outstanding
  <1>4. Granted(s) \in Nat
    BY <1>3, Grants
  <1> QED
    BY <1>2, <1>3, <1>4 DEF Bounded, BooksBalance, Balanced

\* The sums are numbers, and no larger than that of all that is booked
LEMMA SumsAre ==
  ASSUME TypeInv, NEW s \in Streams, IsFiniteSet(DOMAIN results[s])
  PROVE  /\ AllBooked(s) \in Nat /\ KeptSum(s) \in Nat /\ BytesBefore(s) \in Nat
         /\ Kept(s) \subseteq DOMAIN results[s] /\ IsFiniteSet(Kept(s))
         /\ AllBooked(s) = KeptSum(s) + BytesBefore(s)
         /\ \A k \in DOMAIN results[s] : results[s][k] \in Nat /\ results[s][k] \in Int
         /\ KeptSum(s) <= AllBooked(s)
  <1>1. \A k \in DOMAIN results[s] : results[s][k] \in Nat /\ results[s][k] \in Int
    BY DEF TypeInv, TypeOK
  <1>2. Kept(s) \subseteq DOMAIN results[s]
    BY DEF Kept
  <1>3. IsFiniteSet(Kept(s)) /\ IsFiniteSet(DOMAIN results[s] \ Kept(s))
    BY <1>2, FS_Subset
  <1>4. AllBooked(s) \in Nat /\ KeptSum(s) \in Nat /\ BytesBefore(s) \in Nat
    BY <1>1, <1>2, <1>3, SumNat DEF AllBooked, KeptSum, BytesBefore
  <1>5. AllBooked(s) = KeptSum(s) + BytesBefore(s)
    BY <1>1, <1>2, SumSplit DEF AllBooked, KeptSum, BytesBefore
  <1> QED
    BY <1>1, <1>2, <1>3, <1>4, <1>5

\* Zeroing drops what was booked under the keys of the measurement
LEMMA ZeroSum ==
  ASSUME NEW D, IsFiniteSet(D), NEW f, \A k \in D : f[k] \in Nat,
         NEW G, IsFiniteSet(G), NEW h, h = [k \in D \cup G |-> IF k \in G THEN 0 ELSE f[k]]
  PROVE  /\ IsFiniteSet(D \cup G)
         /\ SumFunctionOnSet(h, D \cup G) = SumFunctionOnSet(f, D \ G)
         /\ SumFunctionOnSet(h, D \cup G) <= SumFunctionOnSet(f, D)
  <1>1. IsFiniteSet(D \cup G) /\ IsFiniteSet(D \ G)
    BY FS_Union, FS_Subset
  <1>2. \A k \in D \cup G : h[k] \in Int /\ (k \in G => h[k] = 0) /\ (k \in D \ G => h[k] = f[k])
    OBVIOUS
  <1>3. SumFunctionOnSet(h, D \cup G) = SumFunctionOnSet(h, G) + SumFunctionOnSet(h, D \ G)
    <2>1. (D \cup G) \ G = D \ G
      OBVIOUS
    <2>2. SumFunctionOnSet(h, (D \cup G) \ G) = SumFunctionOnSet(h, D \ G)
      BY <2>1, Zenon
    <2>3. SumFunctionOnSet(h, D \cup G)
            = SumFunctionOnSet(h, G) + SumFunctionOnSet(h, (D \cup G) \ G)
      BY <1>1, <1>2, SumSplit
    <2> QED
      BY <2>2, <2>3
  <1>4. SumFunctionOnSet(h, G) = 0
    BY <1>2, SumOfZeros
  <1>5. SumFunctionOnSet(h, D \ G) = SumFunctionOnSet(f, D \ G)
    BY <1>1, <1>2, SumEqual
  <1>6. SumFunctionOnSet(f, D \ G) \in Nat /\ SumFunctionOnSet(f, D \ G) <= SumFunctionOnSet(f, D)
    BY <1>1, SumNat, SumSubset
  <1> QED
    BY <1>1, <1>3, <1>4, <1>5, <1>6

-----------------------------------------------------------------------------
(* What the steps do to the sums *)

\* The sums of a stream stay when it books nothing and reads nothing, whatever
\* the other streams and the timer do
LEMMA SumsStay ==
  ASSUME TypeInv, NEW u \in Streams, IsFiniteSet(DOMAIN results[u]), Bounded(u),
         torn[u] = 0 => StreamKeys(u) /\ BooksBalance(u),
         TIMER_INDEX_UPLOAD_FIRST # 0 => UNCHANGED TIMER_INDEX_UPLOAD_FIRST,
         hasError => hasError', crashed => crashed',
         rest'[u] = rest[u], nTimeRecvExa'[u] = nTimeRecvExa[u], nDataRecv'[u] = nDataRecv[u],
         results'[u] = results[u], datasize_total'[u] = datasize_total[u],
         datasize_slow_start'[u] = datasize_slow_start[u], torn'[u] = torn[u],
         u \in zeroed' <=> u \in zeroed,
         \/ pc'[u] = pc[u]
         \/ Pending(u)' = Pending(u) /\ pc[u] # "book" /\ pc'[u] # "book"
  PROVE  /\ IsFiniteSet(DOMAIN results'[u]) /\ Bounded(u)'
         /\ torn'[u] = 0 => BooksBalance(u)'
  <1>1. /\ AllBooked(u) \in Nat /\ KeptSum(u) \in Nat
        /\ datasize_total[u] \in Nat /\ datasize_slow_start[u] \in Nat /\ torn[u] \in Nat
        /\ nDataRecv[u] \in Nat /\ MostBytes \in Nat
    BY SumsAre, BytesAreNat, UploadAssumption DEF TypeInv, TypeOK, PeerInv
  <1>2. Coming(u)' = Coming(u) /\ Coming(u) \in Nat
    BY <1>1 DEF Coming, Pending
  <1>3. Outstanding(u)' = Outstanding(u) /\ Outstanding(u) \in Nat
    BY <1>1, <1>2 DEF Outstanding
  <1>g. Granted(u)' = Granted(u) /\ Granted(u) \in Nat
    BY <1>1, Grants
  <1>4. AllBooked(u)' = AllBooked(u)
    BY DEF AllBooked
  <1>5. Bounded(u)'
    BY <1>1, <1>3, <1>4, <1>g DEF Bounded
  <1>6. ASSUME torn'[u] = 0 PROVE BooksBalance(u)'
    <2>1. StreamKeys(u) /\ BooksBalance(u)
      BY <1>6
    <2>2. Balanced(AllBooked(u) + Coming(u), datasize_total[u])'
      BY <1>2, <1>4, <2>1 DEF BooksBalance, Balanced
    <2>3. CASE ~(u \in zeroed)
      BY <2>1, <2>2, <2>3 DEF BooksBalance
    <2>4. CASE u \in zeroed
      <3>1. UNCHANGED TIMER_INDEX_UPLOAD_FIRST
        BY <2>1, <2>4 DEF StreamKeys
      <3>2. Kept(u)' = Kept(u) /\ (FirstPending(u)' <=> FirstPending(u))
        BY <3>1 DEF Kept, FirstPending
      <3>3. KeptSum(u)' = KeptSum(u)
        BY <3>2 DEF KeptSum
      <3>4. CASE FirstPending(u)
        BY <2>1, <2>2, <2>4, <3>2, <3>4 DEF BooksBalance
      <3>5. CASE ~FirstPending(u)
        <4>1. Balanced(datasize_slow_start[u] + KeptSum(u) + Coming(u), datasize_total[u])
          BY <2>1, <2>4, <3>5 DEF BooksBalance
        <4>2. Balanced(datasize_slow_start[u] + KeptSum(u) + Coming(u), datasize_total[u])'
          BY <1>2, <3>3, <4>1 DEF Balanced
        <4> QED
          BY <2>2, <2>4, <3>2, <3>5, <4>2 DEF BooksBalance
      <3> QED
        BY <3>4, <3>5
    <2> QED
      BY <2>3, <2>4
  <1> QED
    BY <1>5, <1>6

\* What a torn report is granted pays for what is booked again
LEMMA SumsRead ==
  ASSUME TypeInv, TypeInv', NEW s \in Streams, IsFiniteSet(DOMAIN results[s]), Bounded(s),
         torn[s] = 0 => StreamKeys(s) /\ BooksBalance(s), ~crashed,
         WholeReport(s) \/ TornReport(s) \/ TornKey(s) \/ Remainder(s)
  PROVE  /\ IsFiniteSet(DOMAIN results'[s]) /\ Bounded(s)'
         /\ torn'[s] = 0 => BooksBalance(s)'
  <1>1. /\ pc[s] = "item" /\ pc'[s] \in {"first", "unwind"}
        /\ UNCHANGED <<results, datasize_slow_start, TIMER_INDEX_UPLOAD_FIRST, zeroed>>
    BY DEF WholeReport, TornReport, TornKey, Remainder, NextReport, ItemFrame, bookVars, Goto,
      TypeInv, TypeOK
  <1>2. /\ AllBooked(s) \in Nat /\ KeptSum(s) \in Nat
        /\ datasize_total[s] \in Nat /\ datasize_slow_start[s] \in Nat /\ torn[s] \in Nat
        /\ datasize_total'[s] \in Nat /\ torn'[s] \in Nat /\ nDataRecv'[s] \in 0..MostBytes
        /\ MostBytes \in Nat /\ Granted(s) \in Nat
    BY SumsAre, Grants, UploadAssumption DEF TypeInv, TypeOK, PeerInv, Bytes
  <1>3. AllBooked(s)' = AllBooked(s) /\ KeptSum(s)' = KeptSum(s)
    BY <1>1 DEF AllBooked, KeptSum, Kept
  <1>4. /\ Coming(s) = 0 /\ Outstanding(s) = IF rest[s] = "scrap" THEN MostBytes ELSE 0
        /\ Coming(s)' \in {0, nDataRecv'[s]}
        /\ ~FirstPending(s) /\ ~FirstPending(s)'
    BY <1>1, <1>2 DEF Pending, Coming, Outstanding, FirstPending
  <1>a. /\ Outstanding(s)' = Coming(s)' + (IF rest'[s] = "scrap" THEN MostBytes ELSE 0)
        /\ Outstanding(s)' \in Nat
    BY <1>2, <1>4 DEF Outstanding
  <1>5. AllBooked(s) + Outstanding(s) <= datasize_total[s] + Granted(s)
    BY DEF Bounded
  <1>6. CASE WholeReport(s)
    <2>a. PICK data \in Bytes : Read(s, data, nextKey[s])
      BY <1>6, BytesAreNat DEF WholeReport
    <2>1. /\ rest[s] = "none" /\ rest'[s] = "none" /\ torn'[s] = torn[s]
          /\ pc'[s] = "first" /\ nDataRecv'[s] = data
          /\ datasize_total'[s] = datasize_total[s] + data /\ data \in Nat
          /\ UNCHANGED hasError
      BY <1>6, <2>a, BytesAreNat DEF WholeReport, NextReport, Read, Goto, TypeInv, TypeOK
    <2>2. Outstanding(s)' = data /\ Coming(s)' = data /\ Granted(s)' = Granted(s)
      BY <1>2, <1>a, <2>1, Grants DEF Coming, Pending
    <2>3. Bounded(s)'
      BY <1>1, <1>2, <1>3, <1>4, <1>5, <2>1, <2>2 DEF Bounded
    <2>4. ASSUME torn'[s] = 0 PROVE BooksBalance(s)'
      <3>1. BooksBalance(s)
        BY <2>1, <2>4
      <3>2. Balanced(AllBooked(s) + Coming(s), datasize_total[s])'
        BY <1>2, <1>3, <1>4, <2>1, <2>2, <3>1 DEF BooksBalance, Balanced
      <3>3. CASE ~(s \in zeroed)
        BY <1>1, <3>1, <3>2, <3>3 DEF BooksBalance
      <3>4. CASE s \in zeroed
        <4>1. Balanced(datasize_slow_start[s] + KeptSum(s) + Coming(s), datasize_total[s])
          BY <1>4, <3>1, <3>4 DEF BooksBalance
        <4>2. Balanced(datasize_slow_start[s] + KeptSum(s) + Coming(s), datasize_total[s])'
          BY <1>1, <1>2, <1>3, <1>4, <2>1, <2>2, <4>1 DEF Balanced
        <4> QED
          BY <1>1, <1>4, <3>2, <3>4, <4>2 DEF BooksBalance
      <3> QED
        BY <3>3, <3>4
    <2> QED
      BY <1>1, <2>3, <2>4
  <1>7. CASE TornReport(s)
    <2>1. rest[s] = "none" /\ torn'[s] = torn[s] + 1 /\ Granted(s)' = Granted(s) + MostBytes
      BY <1>2, <1>7, Grants DEF TornReport, NextReport, TypeInv, PeerInv
    <2>2. PICK n \in 1..4 :
            /\ rest' = [rest EXCEPT ![s] = <<"key", "noKey", "scrap", "scrap">>[n]]
            /\ \/ n \in {1, 2} /\ Unread(s) /\ UNCHANGED crashed
               \/ n = 3 /\ (\E data \in Reported : ReadBeyond(s, data))
               \/ /\ n = 4 /\ UNCHANGED crashed
                  /\ \E data \in Reported, key \in Misread : Read(s, data, key)
      BY <1>7 DEF TornReport
    <2>3. CASE n \in {1, 2}
      <3>1. rest'[s] # "scrap" /\ UNCHANGED dataVars
        BY <2>2, <2>3 DEF Unread, TypeInv, TypeOK
      <3>2. Outstanding(s)' <= MostBytes
        BY <1>2, <1>4, <1>a, <3>1
      <3> QED
        BY <1>1, <1>2, <1>3, <1>4, <1>5, <1>a, <2>1, <3>1, <3>2 DEF Bounded, dataVars
    <2>4. CASE UNCHANGED dataVars /\ crashed'
      BY <1>1, <1>2, <1>3, <1>4, <1>5, <2>1, <2>4 DEF Bounded, dataVars
    <2>5. CASE \E data \in Bytes, key \in Nat : Read(s, data, key)
      <3>1. datasize_total'[s] = datasize_total[s] + nDataRecv'[s]
        BY <2>5 DEF Read, TypeInv, TypeOK
      <3> QED
        BY <1>1, <1>2, <1>3, <1>4, <1>5, <1>a, <2>1, <3>1 DEF Bounded
    <2>6. \/ n \in {1, 2} \/ (UNCHANGED dataVars /\ crashed')
          \/ \E data \in Bytes, key \in Nat : Read(s, data, key)
      <3>1. nTimeRecvExa[s] \in Nat /\ Misread \subseteq Nat
        BY UploadAssumption DEF TypeInv, TypeOK
      <3> QED
        BY <2>2, <3>1, BytesAreNat DEF ReadBeyond
    <2>7. Bounded(s)'
      BY <2>3, <2>4, <2>5, <2>6
    <2> QED
      BY <1>1, <1>2, <2>1, <2>7
  <1>8. CASE TornKey(s)
    <2>1. /\ rest'[s] = "none" /\ rest[s] = "none" /\ torn'[s] = torn[s] + 1
          /\ pc'[s] = "unwind" /\ datasize_total'[s] = datasize_total[s]
      BY <1>8 DEF TornKey, NextReport, Goto, dataVars, TypeInv, TypeOK, PeerInv
    <2>2. Outstanding(s)' = 0 /\ Granted(s)' = Granted(s) + MostBytes
      BY <1>2, <1>a, <2>1, Grants DEF Coming, Pending
    <2>3. Bounded(s)'
      BY <1>1, <1>2, <1>3, <1>4, <1>5, <2>1, <2>2 DEF Bounded
    <2> QED
      BY <1>1, <1>2, <2>1, <2>3
  <1>9. CASE Remainder(s)
    <2>1. /\ rest[s] # "none" /\ rest'[s] = "none" /\ torn'[s] = torn[s]
          /\ Granted(s)' = Granted(s)
      BY <1>2, <1>9, Grants DEF Remainder, TypeInv, TypeOK
    <2>2. torn[s] # 0
      BY <2>1 DEF StreamKeys
    <2>3. CASE rest[s] = "scrap"
      <3>1. UNCHANGED dataVars
        BY <1>9, <2>3 DEF Remainder, Unread
      <3>2. Outstanding(s)' <= MostBytes
        BY <1>2, <1>4, <1>a, <2>1
      <3> QED
        BY <1>1, <1>2, <1>3, <1>4, <1>5, <1>a, <2>1, <2>2, <2>3, <3>1, <3>2 DEF Bounded, dataVars
    <2>4. CASE UNCHANGED dataVars /\ crashed'
      BY <1>1, <1>2, <1>3, <1>4, <1>5, <2>1, <2>2, <2>4 DEF Bounded, dataVars
    <2>5. CASE \E data \in Bytes : \E key : Read(s, data, key)
      <3>1. datasize_total'[s] = datasize_total[s] + nDataRecv'[s]
        BY <2>5 DEF Read, TypeInv, TypeOK
      <3>2. Outstanding(s)' <= nDataRecv'[s]
        BY <1>2, <1>4, <1>a, <2>1
      <3> QED
        BY <1>1, <1>2, <1>3, <1>4, <1>5, <1>a, <2>1, <2>2, <3>1, <3>2 DEF Bounded
    <2>6. \/ rest[s] = "scrap" \/ (UNCHANGED dataVars /\ crashed')
          \/ \E data \in Bytes : \E key : Read(s, data, key)
      BY <1>9 DEF Remainder, ReadBeyond
    <2>7. Bounded(s)'
      BY <2>3, <2>4, <2>5, <2>6
    <2> QED
      BY <1>1, <2>1, <2>2, <2>7
  <1> QED
    BY <1>6, <1>7, <1>8, <1>9

\* Without torn reports, all that a stream has booked when it zeroes the keys
\* lies before them
LEMMA SumsZero ==
  ASSUME TypeInv, TypeInv', NEW s \in Streams, IsFiniteSet(DOMAIN results[s]), Bounded(s),
         torn[s] = 0 => StreamKeys(s) /\ BooksBalance(s), Zero(s), ~crashed
  PROVE  /\ IsFiniteSet(DOMAIN results'[s]) /\ Bounded(s)'
         /\ torn'[s] = 0 => BooksBalance(s)'
  <1> DEFINE G == Grid(TIMER_INDEX_UPLOAD_FIRST)
  <1>1. /\ pc[s] = "zero" /\ pc'[s] = "book"
        /\ UNCHANGED <<datasize_slow_start, datasize_total, nDataRecv, nTimeRecvExa, nextKey, sent,
                       TIMER_INDEX_UPLOAD_FIRST, torn, rest, hasError, crashed>>
    BY DEF Zero, dataVars, peerVars, errorVars, Goto, TypeInv, TypeOK
  <1>2. /\ AllBooked(s) \in Nat /\ KeptSum(s) \in Nat
        /\ datasize_total[s] \in Nat /\ datasize_slow_start[s] \in Nat /\ torn[s] \in Nat
        /\ nDataRecv[s] \in Nat /\ \A k \in DOMAIN results[s] : results[s][k] \in Nat
        /\ MostBytes \in Nat
    BY SumsAre, BytesAreNat, UploadAssumption DEF TypeInv, TypeOK, PeerInv
  <1>3. /\ Pending(s) = 1 /\ Pending(s)' = 1
        /\ Coming(s) = nDataRecv[s] /\ Coming(s)' = nDataRecv[s]
    BY <1>1 DEF Coming, Pending
  <1>4. /\ Outstanding(s)' = Outstanding(s) /\ Outstanding(s) \in Nat
        /\ Granted(s)' = Granted(s) /\ Granted(s) \in Nat
    BY <1>1, <1>2, <1>3, Grants DEF Outstanding
  <1>5. CASE IsFirst(s)
    <2>1. /\ results'[s] = [k \in DOMAIN results[s] \cup G |-> IF k \in G THEN 0 ELSE results[s][k]]
          /\ zeroed' = zeroed \cup {s}
      BY <1>5 DEF Zero, TypeInv, PeerInv
    <2>2. IsFiniteSet(G)
      <3>1. TIMER_INDEX_UPLOAD_FIRST \in Int /\ MEASUREMENT_DURATION \in Int
        BY UploadAssumption DEF TypeInv, TypeOK
      <3> QED
        BY <3>1, FS_Interval DEF Grid
    <2> HIDE DEF G
    <2>3. DOMAIN results'[s] = DOMAIN results[s] \cup G
      BY <2>1
    <2>4. /\ IsFiniteSet(DOMAIN results[s] \cup G)
          /\ SumFunctionOnSet(results'[s], DOMAIN results[s] \cup G)
               = SumFunctionOnSet(results[s], DOMAIN results[s] \ G)
          /\ SumFunctionOnSet(results'[s], DOMAIN results[s] \cup G) <= AllBooked(s)
      BY <1>2, <2>1, <2>2, ZeroSum DEF AllBooked
    <2>5. AllBooked(s)' = SumFunctionOnSet(results'[s], DOMAIN results[s] \cup G)
      BY <2>3, Zenon DEF AllBooked
    <2>6. AllBooked(s)' \in Nat /\ AllBooked(s)' <= AllBooked(s)
      <3>1. \A k \in DOMAIN results[s] \cup G : results'[s][k] \in Nat
        BY <1>2, <2>1
      <3>2. SumFunctionOnSet(results'[s], DOMAIN results[s] \cup G) \in Nat
        BY <2>4, <3>1, SumNat
      <3> QED
        BY <2>4, <2>5, <3>2
    <2>7. Bounded(s)'
      BY <1>1, <1>2, <1>4, <2>6 DEF Bounded
    <2>8. ASSUME torn'[s] = 0 PROVE BooksBalance(s)'
      <3>1. StreamKeys(s) /\ BooksBalance(s)
        BY <1>1, <2>8
      <3>2. ~(s \in zeroed) /\ s \in zeroed'
        BY <1>1, <1>3, <1>5, <2>1, <3>1 DEF StreamKeys, IsFirst, TypeInv, TypeOK, PeerInv
      <3>3. nextKey[s] \in Nat /\ sent[s] \in Nat /\ nTimeRecvExa[s] = nextKey[s] - 1
        BY <1>3, <3>1 DEF StreamKeys, TypeInv, PeerInv
      <3>4. \A k \in DOMAIN results[s] : k \in Nat /\ k < TIMER_INDEX_UPLOAD_FIRST
        <4>1. DOMAIN results[s] \subseteq OwnKeys(s) /\ DOMAIN results[s] \subseteq Nat
          BY <3>1, <3>2 DEF StreamKeys, ZeroedKeys, TypeInv, TypeOK
        <4> QED
          BY <1>3, <1>5, <3>3, <4>1 DEF OwnKeys, FirstKey, IsFirst
      <3>5. DOMAIN results[s] \ G = DOMAIN results[s]
        BY <3>4 DEF G, Grid, TypeInv, TypeOK
      <3>6. AllBooked(s)' = AllBooked(s)
        <4>1. SumFunctionOnSet(results[s], DOMAIN results[s] \ G) = AllBooked(s)
          BY <3>5, Zenon DEF AllBooked
        <4> QED
          BY <2>4, <2>5, <4>1
      <3>7. Balanced(AllBooked(s) + Coming(s), datasize_total[s])'
        BY <1>1, <1>2, <1>3, <3>1, <3>6 DEF BooksBalance, Balanced
      <3>8. FirstPending(s)'
        BY <1>1, <1>5 DEF FirstPending, IsFirst
      <3>9. datasize_slow_start'[s] = 0
        BY <1>1, <3>1, <3>2 DEF BooksBalance
      <3>10. \A k \in Kept(s)' : results'[s][k] = 0
        <4>1. \A k \in Kept(s)' : k \in DOMAIN results[s] \cup G /\ k >= TIMER_INDEX_UPLOAD_FIRST
          BY <1>1, <2>3 DEF Kept
        <4>2. \A k \in Kept(s)' : k \in G
          BY <3>4, <4>1 DEF TypeInv, TypeOK
        <4> QED
          BY <2>1, <4>2
      <3> QED
        BY <3>2, <3>7, <3>8, <3>9, <3>10 DEF BooksBalance
    <2> QED
      BY <2>3, <2>4, <2>7, <2>8
  <1>6. CASE ~IsFirst(s)
    <2>1. UNCHANGED <<results, zeroed>>
      BY <1>6 DEF Zero
    <2>2. AllBooked(s)' = AllBooked(s) /\ KeptSum(s)' = KeptSum(s)
      BY <1>1, <2>1 DEF AllBooked, KeptSum, Kept
    <2>3. Bounded(s)'
      BY <1>1, <1>2, <1>4, <2>2 DEF Bounded
    <2>4. ASSUME torn'[s] = 0 PROVE BooksBalance(s)'
      <3>1. StreamKeys(s) /\ BooksBalance(s)
        BY <1>1, <2>4
      <3>2. Balanced(AllBooked(s) + Coming(s), datasize_total[s])'
        BY <1>1, <1>3, <2>2, <3>1 DEF BooksBalance, Balanced
      <3>3. CASE ~(s \in zeroed)
        BY <1>1, <2>1, <3>1, <3>2, <3>3 DEF BooksBalance
      <3>4. CASE s \in zeroed
        <4>1. ~FirstPending(s) /\ ~FirstPending(s)'
          BY <1>1, <1>6, <3>1, <3>4 DEF FirstPending, IsFirst, StreamKeys
        <4>2. Balanced(datasize_slow_start[s] + KeptSum(s) + Coming(s), datasize_total[s])'
          BY <1>1, <1>3, <2>2, <3>1, <3>4, <4>1 DEF BooksBalance, Balanced
        <4> QED
          BY <2>1, <3>2, <3>4, <4>1, <4>2 DEF BooksBalance
      <3> QED
        BY <3>3, <3>4
    <2> QED
      BY <2>1, <2>3, <2>4
  <1> QED
    BY <1>5, <1>6

\* A report is booked once.  Without torn reports the one of the first key comes
\* when the keys have just been zeroed, and makes the slow start what came before
LEMMA SumsBook ==
  ASSUME TypeInv, TypeInv', NEW s \in Streams, IsFiniteSet(DOMAIN results[s]), Bounded(s),
         torn[s] = 0 => StreamKeys(s) /\ BooksBalance(s), Book(s), ~crashed
  PROVE  /\ IsFiniteSet(DOMAIN results'[s]) /\ Bounded(s)'
         /\ torn'[s] = 0 => BooksBalance(s)'
  <1> DEFINE key == nTimeRecvExa[s]
  <1>1. /\ pc[s] = "book" /\ pc'[s] \in {"loop", "item"}
        /\ UNCHANGED <<datasize_total, nDataRecv, nTimeRecvExa, nextKey, sent,
                       TIMER_INDEX_UPLOAD_FIRST, torn, rest, zeroed, hasError, crashed>>
    BY DEF Book, dataVars, peerVars, errorVars, Goto, TypeInv, TypeOK
  <1>2. /\ AllBooked(s) \in Nat /\ KeptSum(s) \in Nat
        /\ datasize_total[s] \in Nat /\ datasize_slow_start[s] \in Nat /\ torn[s] \in Nat
        /\ nDataRecv[s] \in Nat /\ nDataRecv[s] <= datasize_total[s]
        /\ \A k \in DOMAIN results[s] : results[s][k] \in Nat /\ results[s][k] \in Int
        /\ MostBytes \in Nat
    BY SumsAre, BytesAreNat, UploadAssumption DEF TypeInv, TypeOK, PeerInv, DataInv
  <1>3. /\ Pending(s) = 1 /\ Coming(s) = nDataRecv[s] /\ Coming(s)' = 0
        /\ ~FirstPending(s)'
    BY <1>1 DEF Coming, Pending, FirstPending
  <1>4. /\ Outstanding(s) = Outstanding(s)' + nDataRecv[s] /\ Outstanding(s)' \in Nat
        /\ Granted(s)' = Granted(s) /\ Granted(s) \in Nat
    BY <1>1, <1>2, <1>3, Grants DEF Outstanding
  <1>5. AllBooked(s) + Outstanding(s) <= datasize_total[s] + Granted(s)
    BY DEF Bounded
  <1>6. CASE hasError
    <2>1. UNCHANGED <<results, datasize_slow_start>>
      BY <1>6 DEF Book, bookVars
    <2>2. AllBooked(s)' = AllBooked(s) /\ KeptSum(s)' = KeptSum(s)
      BY <1>1, <2>1 DEF AllBooked, KeptSum, Kept
    <2>3. Bounded(s)'
      BY <1>1, <1>2, <1>4, <1>5, <2>1, <2>2 DEF Bounded
    <2>4. ASSUME torn'[s] = 0 PROVE BooksBalance(s)'
      <3>1. BooksBalance(s) /\ hasError'
        BY <1>1, <1>6, <2>4
      <3>2. AllBooked(s) + nDataRecv[s] <= datasize_total[s]
        BY <1>3, <3>1 DEF BooksBalance, Balanced
      <3>3. Balanced(AllBooked(s) + Coming(s), datasize_total[s])'
        BY <1>1, <1>2, <1>3, <2>2, <3>1, <3>2 DEF Balanced
      <3>4. CASE ~(s \in zeroed)
        BY <1>1, <2>1, <3>1, <3>3, <3>4 DEF BooksBalance
      <3>5. CASE s \in zeroed
        <4>1. datasize_slow_start[s] + KeptSum(s) <= datasize_total[s]
          <5>1. CASE FirstPending(s)
            <6>1. datasize_slow_start[s] = 0 /\ \A k \in Kept(s) : results[s][k] = 0
              BY <3>1, <3>5, <5>1 DEF BooksBalance
            <6>2. KeptSum(s) = 0
              BY <6>1, SumsAre, SumOfZeros DEF KeptSum
            <6> QED
              BY <1>2, <6>1, <6>2
          <5>2. CASE ~FirstPending(s)
            BY <1>2, <1>3, <3>1, <3>5, <5>2 DEF BooksBalance, Balanced
          <5> QED
            BY <5>1, <5>2
        <4>2. Balanced(datasize_slow_start[s] + KeptSum(s) + Coming(s), datasize_total[s])'
          BY <1>1, <1>2, <1>3, <2>1, <2>2, <3>1, <4>1 DEF Balanced
        <4> QED
          BY <1>1, <1>3, <3>3, <3>5, <4>2 DEF BooksBalance
      <3> QED
        BY <3>4, <3>5
    <2> QED
      BY <2>1, <2>3, <2>4
  <1>7. CASE ~hasError
    <2>1. /\ results'[s] = [k \in DOMAIN results[s] \cup {key} |->
                IF k # key THEN results[s][k]
                ELSE IF key \in DOMAIN results[s] THEN results[s][k] + nDataRecv[s]
                ELSE nDataRecv[s]]
          /\ datasize_slow_start'[s] =
               IF /\ key \in DOMAIN results[s] /\ datasize_slow_start[s] = 0
                  /\ TIMER_INDEX_UPLOAD_FIRST = key
                 THEN datasize_total[s] - nDataRecv[s] ELSE datasize_slow_start[s]
      BY <1>7 DEF Book, SlowStartBytes, TypeInv, TypeOK, PeerInv
    <2> HIDE DEF key
    <2>2. /\ DOMAIN results'[s] = DOMAIN results[s] \cup {key}
          /\ \A k \in DOMAIN results[s] \ {key} : results'[s][k] = results[s][k]
          /\ results'[s][key] = IF key \in DOMAIN results[s] THEN results[s][key] + nDataRecv[s]
                                ELSE nDataRecv[s]
      BY <2>1
    <2>3. IsFiniteSet(DOMAIN results'[s])
      BY <2>2, FS_AddElement
    <2>4. AllBooked(s)' = AllBooked(s) + nDataRecv[s]
      <3>1. SumFunctionOnSet(results'[s], DOMAIN results[s] \cup {key})
              = AllBooked(s) + nDataRecv[s]
        BY <1>2, <2>2, SumAdd DEF AllBooked
      <3>2. AllBooked(s)' = SumFunctionOnSet(results'[s], DOMAIN results[s] \cup {key})
        BY <2>2, Zenon DEF AllBooked
      <3> QED
        BY <3>1, <3>2
    <2>5. datasize_slow_start'[s] <= datasize_total[s]
      BY <1>2, <2>1 DEF Bounded
    <2>6. Bounded(s)'
      BY <1>1, <1>2, <1>4, <1>5, <2>4, <2>5 DEF Bounded
    <2>7. ASSUME torn'[s] = 0 PROVE BooksBalance(s)'
      <3>1. StreamKeys(s) /\ BooksBalance(s) /\ ~hasError'
        BY <1>1, <1>7, <2>7
      <3>2. /\ key = nextKey[s] - 1 /\ key \in Nat
            /\ nextKey[s] \in Nat /\ sent[s] \in Nat /\ TIMER_INDEX_UPLOAD_FIRST \in Nat
        BY <1>3, <3>1 DEF key, StreamKeys, TypeInv, TypeOK, PeerInv
      <3>3. Balanced(AllBooked(s) + Coming(s), datasize_total[s])'
        BY <1>1, <1>2, <1>3, <1>7, <2>4, <3>1, <3>2 DEF BooksBalance, Balanced
      <3>4. CASE ~(s \in zeroed)
        <4>1. DOMAIN results[s] \subseteq OwnKeys(s)
          BY <3>1, <3>4 DEF StreamKeys, ZeroedKeys
        <4>2. ~(key \in DOMAIN results[s])
          BY <1>3, <3>2, <4>1 DEF OwnKeys, FirstKey
        <4>3. datasize_slow_start'[s] = 0
          BY <2>1, <3>1, <3>4, <4>2 DEF BooksBalance
        <4> QED
          BY <1>1, <3>3, <3>4, <4>3 DEF BooksBalance
      <3>5. CASE s \in zeroed
        <4>1. TIMER_INDEX_UPLOAD_FIRST # 0 /\ TIMER_INDEX_UPLOAD_FIRST <= key
          BY <3>1, <3>2, <3>5 DEF StreamKeys
        <4>2. /\ Kept(s)' = Kept(s) \cup {key}
              /\ key \in Kept(s) <=> key \in DOMAIN results[s]
          BY <1>1, <2>2, <4>1 DEF Kept
        <4>3. KeptSum(s)' = KeptSum(s) + nDataRecv[s]
          <5>1. /\ IsFiniteSet(Kept(s)) /\ \A k \in Kept(s) : results[s][k] \in Int
                /\ \A k \in Kept(s) \ {key} : results'[s][k] = results[s][k]
                /\ results'[s][key] = IF key \in Kept(s) THEN results[s][key] + nDataRecv[s]
                                      ELSE nDataRecv[s]
            BY <1>2, <2>2, <4>2, SumsAre
          <5>2. SumFunctionOnSet(results'[s], Kept(s) \cup {key})
                  = KeptSum(s) + nDataRecv[s]
            <6>1. nDataRecv[s] \in Int
              BY <1>2
            <6>2. SumFunctionOnSet(results'[s], Kept(s) \cup {key})
                    = SumFunctionOnSet(results[s], Kept(s)) + nDataRecv[s]
              <7>1. PICK f, g, K, d : /\ f = results[s] /\ g = results'[s] /\ K = Kept(s)
                                      /\ d = nDataRecv[s]
                OBVIOUS
              <7>2. SumFunctionOnSet(g, K \cup {key}) = SumFunctionOnSet(f, K) + d
                BY <5>1, <6>1, <7>1, SumAdd
              <7> QED
                BY <7>1, <7>2, Zenon
            <6> QED
              BY <3>2, <6>2 DEF KeptSum
          <5>3. KeptSum(s)' = SumFunctionOnSet(results'[s], Kept(s) \cup {key})
            BY <4>2, Zenon DEF KeptSum
          <5> QED
            BY <5>2, <5>3
        <4>4. datasize_slow_start'[s] + KeptSum(s)' = datasize_total[s]
          <5>1. CASE FirstPending(s)
            <6>1. datasize_slow_start[s] = 0 /\ \A k \in Kept(s) : results[s][k] = 0
              BY <3>1, <3>5, <5>1 DEF BooksBalance
            <6>2. KeptSum(s) = 0
              BY <6>1, SumsAre, SumOfZeros DEF KeptSum
            <6>3. key = TIMER_INDEX_UPLOAD_FIRST /\ key \in DOMAIN results[s]
              <7>1. key = TIMER_INDEX_UPLOAD_FIRST
                BY <5>1 DEF FirstPending, key
              <7>2. key \in Grid(TIMER_INDEX_UPLOAD_FIRST)
                BY <3>2, <7>1, UploadAssumption DEF Grid
              <7>3. Grid(TIMER_INDEX_UPLOAD_FIRST) \subseteq DOMAIN results[s]
                BY <3>1, <3>5 DEF StreamKeys, ZeroedKeys
              <7> QED
                BY <7>1, <7>2, <7>3
            <6> QED
              BY <1>2, <2>1, <3>2, <4>3, <6>1, <6>2, <6>3
          <5>2. CASE ~FirstPending(s)
            <6>1. datasize_slow_start[s] + KeptSum(s) + nDataRecv[s] = datasize_total[s]
              BY <1>3, <1>7, <3>1, <3>5, <5>2 DEF BooksBalance, Balanced
            <6>2. key # TIMER_INDEX_UPLOAD_FIRST
              BY <1>1, <5>2 DEF FirstPending, key
            <6> QED
              BY <1>2, <2>1, <4>3, <6>1, <6>2
          <5> QED
            BY <5>1, <5>2
        <4>5. Balanced(datasize_slow_start[s] + KeptSum(s) + Coming(s), datasize_total[s])'
          BY <1>1, <1>2, <1>3, <4>4 DEF Balanced
        <4> QED
          BY <1>1, <1>3, <3>3, <3>5, <4>5 DEF BooksBalance
      <3> QED
        BY <3>4, <3>5
    <2> QED
      BY <2>3, <2>6, <2>7
  <1> QED
    BY <1>6, <1>7

LEMMA StepSums ==
  ASSUME TypeInv, KeysInv, SumsInv, [Next]_vars
  PROVE  SumsInv'
  <1>1. TypeInv' /\ \A s \in Streams : torn[s] <= torn'[s]
    BY StepTypes, Lasting
  <1>2. (hasError => hasError') /\ (crashed => crashed')
    BY Lasting
  <1>3. TIMER_INDEX_UPLOAD_FIRST # 0 => UNCHANGED TIMER_INDEX_UPLOAD_FIRST
    BY FirstKept
  <1>4. ASSUME NEW u \in Streams
        PROVE  /\ IsFiniteSet(DOMAIN results[u]) /\ Bounded(u)
               /\ torn[u] = 0 => StreamKeys(u) /\ BooksBalance(u)
    BY DEF SumsInv, KeysInv
  <1>5. ASSUME NEW s \in Streams, Stream(s), ~crashed
        PROVE  SumsInv'
    <2>1. ASSUME NEW u \in Streams, u # s
          PROVE  /\ IsFiniteSet(DOMAIN results'[u]) /\ Bounded(u)'
                 /\ torn'[u] = 0 => BooksBalance(u)'
      BY <1>2, <1>3, <1>4, <1>5, <2>1, OwnVariables, SumsStay
    <2>2. /\ IsFiniteSet(DOMAIN results'[s]) /\ Bounded(s)'
          /\ torn'[s] = 0 => BooksBalance(s)'
      <3>1. CASE Loop(s) \/ Receive(s) \/ Unwind(s) \/ LooksForFirst(s) \/ ChoosesFirst(s)
        <4>1. UNCHANGED <<rest, nTimeRecvExa, nDataRecv, results, datasize_total,
                          datasize_slow_start, torn, zeroed>>
          BY <3>1 DEF Loop, Receive, Unwind, LooksForFirst, ChoosesFirst, ChoiceFrame, dataVars,
            bookVars, peerVars
        <4>2. Pending(s)' = Pending(s) /\ pc[s] # "book" /\ pc'[s] # "book"
          BY <3>1 DEF Loop, Receive, Unwind, LooksForFirst, ChoosesFirst, Goto, Pending, TypeInv,
            TypeOK
        <4> QED
          BY <1>2, <1>3, <1>4, <4>1, <4>2, SumsStay
      <3>2. CASE WholeReport(s) \/ TornReport(s) \/ TornKey(s) \/ Remainder(s)
        BY <1>1, <1>4, <1>5, <3>2, SumsRead
      <3>3. CASE Zero(s)
        BY <1>1, <1>4, <1>5, <3>3, SumsZero
      <3>4. CASE Book(s)
        BY <1>1, <1>4, <1>5, <3>4, SumsBook
      <3> QED
        BY <1>5, <3>1, <3>2, <3>3, <3>4 DEF Stream
    <2> QED
      BY <2>1, <2>2 DEF SumsInv
  <1>6. CASE Start \/ Stop \/ UNCHANGED vars
    <2>1. UNCHANGED <<rest, pc, nTimeRecvExa, nDataRecv, results, datasize_total,
                      datasize_slow_start, torn, zeroed>>
      BY <1>6 DEF Start, Stop, vars, dataVars, bookVars, peerVars
    <2>2. ASSUME NEW u \in Streams
          PROVE  /\ IsFiniteSet(DOMAIN results'[u]) /\ Bounded(u)'
                 /\ torn'[u] = 0 => BooksBalance(u)'
      BY <1>2, <1>3, <1>4, <2>1, SumsStay
    <2> QED
      BY <2>2 DEF SumsInv
  <1> QED
    BY <1>5, <1>6 DEF Next, Done

-----------------------------------------------------------------------------
(* Theorems *)

IInv == TypeInv /\ KeysInv /\ SumsInv

\* Types, and what a stream has booked as long as no report was torn
\* (upload.cpp:196-262)
THEOREM UploadCorrect == Spec => []IInv
  <1>1. Init => IInv
    BY InitTypes, InitKeys, InitSums DEF IInv
  <1>2. IInv /\ [Next]_vars => IInv'
    BY StepTypes, StepKeys, StepSums DEF IInv
  <1> QED
    BY <1>1, <1>2, PTL DEF Spec

\* Every variable keeps its type: slow starts are not negative, keys never
\* before the first instant (upload.cpp:220-260)
THEOREM UploadTypesKept == Spec => []TypeOK
  <1>1. IInv => TypeOK
    BY DEF IInv, TypeInv
  <1> QED
    BY <1>1, UploadCorrect, PTL

\* Whatever stream chooses the first key, and wherever the others are by then,
\* the keys counted of each follow each other, if its first report came in time
\* (upload.cpp:239-260, callback.cpp:429-461)
THEOREM ReportsAligned == Spec => []StepsAligned
  <1>1. IInv => StepsAligned
    <2> SUFFICES ASSUME IInv, NoneTorn, NEW s \in Streams,
                        FirstKey(s) <= TIMER_INDEX_UPLOAD_FIRST, NEW k \in Kept(s),
                        k # TIMER_INDEX_UPLOAD_FIRST
                 PROVE  k - 1 \in Kept(s)
      BY DEF StepsAligned, FirstKey
    <2> USE DEF IInv, TypeInv, TypeOK, PeerInv
    <2>1. /\ TIMER_INDEX_UPLOAD_FIRST # 0 /\ k \in DOMAIN results[s]
          /\ k > TIMER_INDEX_UPLOAD_FIRST /\ k \in Nat
      BY DEF Kept
    <2>2. DOMAIN results[s] = OwnKeys(s) \cup ZeroedKeys(s)
      BY DEF KeysInv, StreamKeys, NoneTorn
    <2>3. k \in OwnKeys(s) => k - 1 \in OwnKeys(s)
      BY <2>1 DEF OwnKeys, FirstKey, Pending
    <2>4. k \in ZeroedKeys(s) => k - 1 \in ZeroedKeys(s)
      <3>1. \A first, last \in Int : k \in first..last /\ k > first => k - 1 \in first..last
        BY <2>1
      <3>2. /\ TIMER_INDEX_UPLOAD_FIRST \in Int
            /\ TIMER_INDEX_UPLOAD_FIRST + 2 * MEASUREMENT_DURATION \in Int
        BY UploadAssumption
      <3> QED
        BY <2>1, <3>1, <3>2, Zenon DEF ZeroedKeys, Grid
    <2> QED
      BY <2>1, <2>2, <2>3, <2>4 DEF Kept
  <1> QED
    BY <1>1, UploadCorrect, PTL

\* A stream of which no report was torn counts what it has read at most once,
\* whatever happens to the others.  Torn reports make it count no more than twice
\* what it has read, the remainders read as bytes included, and for each of them
\* one reading more (upload.cpp:208-262, callback.cpp:429-461)
THEOREM BytesCountedOnce == Spec => []CountedOnce
  <1>1. IInv => CountedOnce
    <2> SUFFICES ASSUME IInv, NEW s \in Streams
                 PROVE  Counted(s) <= IF torn[s] = 0 THEN datasize_total[s]
                                      ELSE 2 * datasize_total[s] + torn[s] * MostBytes
      BY DEF CountedOnce
    <2>1. IsFiniteSet(DOMAIN results[s]) /\ Bounded(s) /\ (torn[s] = 0 => BooksBalance(s))
      BY DEF IInv, SumsInv
    <2>2. /\ AllBooked(s) \in Nat /\ KeptSum(s) \in Nat /\ KeptSum(s) <= AllBooked(s)
          /\ IsFiniteSet(Kept(s))
      BY <2>1, SumsAre DEF IInv
    <2>3. /\ datasize_total[s] \in Nat /\ datasize_slow_start[s] \in Nat /\ torn[s] \in Nat
          /\ nDataRecv[s] \in Nat /\ MostBytes \in Nat
      BY BytesAreNat, UploadAssumption DEF IInv, TypeInv, TypeOK, PeerInv
    <2>4. Counted(s) = datasize_slow_start[s] + KeptSum(s)
      BY DEF Counted, KeptSum
    <2>5. AllBooked(s) <= datasize_total[s] + Granted(s) /\ Granted(s) \in Nat
      <3>1. Outstanding(s) \in Nat /\ Granted(s) \in Nat
        BY <2>3, Grants DEF Outstanding, Coming
      <3> QED
        BY <2>1, <2>2, <2>3, <3>1 DEF Bounded
    <2>6. ASSUME torn[s] = 0 PROVE Counted(s) <= datasize_total[s]
      <3>1. Coming(s) \in Nat /\ Granted(s) = 0
        BY <2>3, <2>6, Grants DEF Coming
      <3>2. CASE s \in zeroed /\ ~FirstPending(s)
        BY <2>1, <2>2, <2>3, <2>4, <2>6, <3>1, <3>2 DEF BooksBalance, Balanced
      <3>3. CASE ~(s \in zeroed /\ ~FirstPending(s))
        BY <2>1, <2>2, <2>3, <2>4, <2>5, <2>6, <3>1, <3>3 DEF BooksBalance
      <3> QED
        BY <3>2, <3>3
    <2>7. datasize_slow_start[s] <= datasize_total[s]
      BY <2>1 DEF Bounded
    <2>8. Counted(s) <= 2 * datasize_total[s] + Granted(s)
      BY <2>2, <2>3, <2>4, <2>5, <2>7
    <2> QED
      BY <2>6, <2>8 DEF Granted
  <1> QED
    BY <1>1, UploadCorrect, PTL

\* With whole reports and no error every byte the peer has told of is counted,
\* or was booked before the first key by a stream that was ahead of it and so
\* never zeroed (upload.cpp:239-262, callback.cpp:429-461)
THEOREM BytesCountedExactly == Spec => []CountedExactly
  <1>1. IInv => CountedExactly
    <2> SUFFICES ASSUME IInv, NoneTorn, ~hasError, NEW s \in Streams,
                        pc[s] \in {"loop", "recv", "item", "ended"}
                 PROVE  Counted(s) = datasize_total[s]
                                     - (IF s \in zeroed THEN 0 ELSE BytesBefore(s))
      BY DEF CountedExactly
    <2>1. IsFiniteSet(DOMAIN results[s]) /\ BooksBalance(s)
      BY DEF IInv, SumsInv, NoneTorn
    <2>2. /\ AllBooked(s) \in Nat /\ KeptSum(s) \in Nat /\ BytesBefore(s) \in Nat
          /\ AllBooked(s) = KeptSum(s) + BytesBefore(s)
      BY <2>1, SumsAre DEF IInv
    <2>3. datasize_total[s] \in Nat /\ datasize_slow_start[s] \in Nat
      BY DEF IInv, TypeInv, TypeOK
    <2>4. Counted(s) = datasize_slow_start[s] + KeptSum(s)
      BY DEF Counted, KeptSum
    <2>5. Coming(s) = 0 /\ ~FirstPending(s)
      BY DEF Coming, Pending, FirstPending
    <2>6. AllBooked(s) = datasize_total[s]
      BY <2>1, <2>2, <2>3, <2>5 DEF BooksBalance, Balanced
    <2>7. CASE s \in zeroed
      BY <2>1, <2>2, <2>3, <2>4, <2>5, <2>7 DEF BooksBalance, Balanced
    <2>8. CASE ~(s \in zeroed)
      BY <2>1, <2>2, <2>3, <2>4, <2>6, <2>8 DEF BooksBalance
    <2> QED
      BY <2>7, <2>8
  <1> QED
    BY <1>1, UploadCorrect, PTL
=============================================================================
