---------------------------- MODULE UploadReports ----------------------------
(***************************************************************************)
(* The reports of the upload test: every half second the peer tells a      *)
(* stream how much has arrived, and Upload::run (tests/upload.cpp) books   *)
(* it under the half second the peer names, the report's key.  The first   *)
(* stream that handles a report after the measurement has started decides  *)
(* for all streams which key the measurement starts with                   *)
(* (TIMER_INDEX_UPLOAD_FIRST); callback.cpp counts the keys from there on. *)
(*                                                                         *)
(* pc[s] is the position of stream s: "loop", "recv", "item" (taking the   *)
(* next report out of what was received), "first" and "lock" (choosing the *)
(* first key), "zero", "book", "unwind" (in the catch block) and "ended".  *)
(* Keys count half seconds (5 of the peer's time units).  A report has     *)
(* four fields: how much has arrived, another count, the time, and the     *)
(* time in full, which ends in the key.                                    *)
(***************************************************************************)
EXTENDS Integers, FiniteSets, Functions

CONSTANTS
  UL_STREAMS,
  MEASUREMENT_DURATION,   \* seconds, the additional ones included
  MostBytes,              \* what is read as bytes is at most this,
  Reported,               \* and in a report's own first field one of these
  FirstKeys,              \* the keys a stream's first report may have
  Misread,                \* keys a report may show that lacks its last digits
  MaxReports,             \* bound: reports of one stream
  MaxTorn                 \* bound: reports of one stream that two receives share

ASSUME UploadAssumption ==
  /\ UL_STREAMS \in Nat \ {0}
  /\ MEASUREMENT_DURATION \in Nat \ {0}
  /\ MostBytes \in Nat /\ Reported \subseteq 0..MostBytes
  /\ FirstKeys \subseteq Nat /\ FirstKeys # {}
  /\ Misread \subseteq Nat
  /\ MaxReports \in Nat /\ MaxTorn \in Nat

Streams == 1..UL_STREAMS
Bytes == 0..MostBytes

VARIABLES
  TIMER_RUNNING, TIMER_STOPPED, TIMER_INDEX_UPLOAD_FIRST, hasError, RUNNING,
  pc, syncing_threads, results, datasize_total, datasize_slow_start,
  nDataRecv, nTimeRecvExa,
  rest,       \* what of a torn report is still to come: "none", "key" (its last
              \* four fields), "noKey" (three) or "scrap" (fewer)
  crashed,    \* the process died in undefined behaviour
  (* the peer, and history *)
  nextKey,    \* the key of the next report the peer sends to a stream
  sent,       \* how many reports it has sent
  torn,       \* how many of them were torn
  zeroed      \* streams that have zeroed the keys of the measurement

timerVars == <<TIMER_RUNNING, TIMER_STOPPED>>
peerVars  == <<rest, nextKey, sent, torn>>
dataVars  == <<datasize_total, nDataRecv, nTimeRecvExa>>
bookVars  == <<results, datasize_slow_start>>
errorVars == <<hasError, RUNNING>>
vars == <<timerVars, TIMER_INDEX_UPLOAD_FIRST, errorVars, pc, syncing_threads, bookVars,
          dataVars, peerVars, zeroed, crashed>>

Init ==
  /\ TIMER_RUNNING = FALSE /\ TIMER_STOPPED = FALSE /\ TIMER_INDEX_UPLOAD_FIRST = 0
  /\ hasError = FALSE /\ RUNNING = TRUE
  /\ pc = [s \in Streams |-> "loop"]
  /\ syncing_threads = {}
  /\ results = [s \in Streams |-> << >>]
  /\ datasize_total = [s \in Streams |-> 0]
  /\ datasize_slow_start = [s \in Streams |-> 0]
  /\ nDataRecv = [s \in Streams |-> 0]
  /\ nTimeRecvExa = [s \in Streams |-> 0]
  /\ rest = [s \in Streams |-> "none"]
  /\ nextKey \in [Streams -> FirstKeys]
  /\ sent = [s \in Streams |-> 0]
  /\ torn = [s \in Streams |-> 0]
  /\ zeroed = {} /\ crashed = FALSE

-----------------------------------------------------------------------------
(* Receiving *)

Goto(s, from, to) == pc[s] = from /\ pc' = [pc EXCEPT ![s] = to]

\* while (RUNNING && TIMER_ACTIVE && !TIMER_STOPPED)
Loop(s) ==
  /\ Goto(s, "loop", IF RUNNING /\ ~TIMER_STOPPED THEN "recv" ELSE "ended")
  /\ UNCHANGED <<timerVars, TIMER_INDEX_UPLOAD_FIRST, errorVars, syncing_threads, bookVars,
                 dataVars, peerVars, zeroed, crashed>>

\* receive returns something, or nothing more; the first time syncs the stream
Receive(s) ==
  /\ \/ Goto(s, "recv", "item") /\ (sent[s] < MaxReports \/ rest[s] # "none")
     \/ Goto(s, "recv", "ended")
  /\ syncing_threads' = syncing_threads \cup {s}
  /\ UNCHANGED <<timerVars, TIMER_INDEX_UPLOAD_FIRST, errorVars, bookVars, dataVars,
                 peerVars, zeroed, crashed>>

\* The stream has read a report's fields
Read(s, data, key) ==
  /\ nDataRecv' = [nDataRecv EXCEPT ![s] = data]
  /\ nTimeRecvExa' = [nTimeRecvExa EXCEPT ![s] = key]
  /\ datasize_total' = [datasize_total EXCEPT ![s] = @ + data]

\* Fewer than three fields are not read: what was read last is booked again
Unread(s) == UNCHANGED dataVars

\* Of three fields the fourth is read: undefined behaviour, in which the
\* process dies or finds the fourth field of the report before
ReadBeyond(s, data) ==
  \/ Read(s, data, nTimeRecvExa[s]) /\ UNCHANGED crashed
  \/ crashed' = TRUE /\ UNCHANGED dataVars

ItemFrame == UNCHANGED <<timerVars, TIMER_INDEX_UPLOAD_FIRST, RUNNING, syncing_threads,
                         bookVars, zeroed>>

NextReport(s) ==
  /\ pc[s] = "item" /\ sent[s] < MaxReports /\ rest[s] = "none"
  /\ sent' = [sent EXCEPT ![s] = @ + 1]
  /\ nextKey' = [nextKey EXCEPT ![s] = @ + 1]
  /\ ItemFrame

\* A report that was received as a whole
WholeReport(s) ==
  /\ NextReport(s)
  /\ Goto(s, "item", "first")
  /\ \E data \in Reported : Read(s, data, nextKey[s])
  /\ UNCHANGED <<rest, torn, hasError, crashed>>

\* The end of a receive tears a report of four fields apart, in field n.  A key
\* of less than six digits makes substr throw
TornReport(s) ==
  /\ torn[s] < MaxTorn
  /\ NextReport(s)
  /\ torn' = [torn EXCEPT ![s] = @ + 1]
  /\ \E n \in 1..4 :
       /\ rest' = [rest EXCEPT ![s] = <<"key", "noKey", "scrap", "scrap">>[n]]
       /\ \/ n \in {1, 2} /\ Unread(s) /\ UNCHANGED crashed
          \/ n = 3 /\ (\E data \in Reported : ReadBeyond(s, data))
          \/ /\ n = 4 /\ UNCHANGED crashed
             /\ \E data \in Reported, key \in Misread : Read(s, data, key)
  /\ Goto(s, "item", "first")
  /\ UNCHANGED hasError

TornKey(s) ==
  /\ torn[s] < MaxTorn
  /\ NextReport(s)
  /\ torn' = [torn EXCEPT ![s] = @ + 1]
  /\ hasError' = TRUE
  /\ Goto(s, "item", "unwind")
  /\ UNCHANGED <<dataVars, rest, crashed>>

Unwind(s) ==
  /\ Goto(s, "unwind", "ended")
  /\ RUNNING' = FALSE
  /\ UNCHANGED <<timerVars, TIMER_INDEX_UPLOAD_FIRST, hasError, syncing_threads, bookVars,
                 dataVars, peerVars, zeroed, crashed>>

\* The next receive starts with the remainder of the torn report: what is left of
\* field 1, or of field 2, is read as the bytes
Remainder(s) ==
  /\ rest[s] # "none"
  /\ rest' = [rest EXCEPT ![s] = "none"]
  /\ \/ /\ rest[s] = "key" /\ UNCHANGED crashed
        /\ \E data \in Bytes : Read(s, data, nextKey[s] - 1)
     \/ rest[s] = "noKey" /\ (\E data \in Bytes : ReadBeyond(s, data))
     \/ rest[s] = "scrap" /\ Unread(s) /\ UNCHANGED crashed
  /\ Goto(s, "item", "first")
  /\ UNCHANGED <<nextKey, sent, torn, hasError>>
  /\ ItemFrame

-----------------------------------------------------------------------------
(* Booking *)

ChoiceFrame == UNCHANGED <<timerVars, errorVars, syncing_threads, bookVars, dataVars,
                           peerVars, zeroed, crashed>>

\* TIMER_RUNNING && TIMER_INDEX_UPLOAD_FIRST == 0, without the mutex ...
LooksForFirst(s) ==
  /\ Goto(s, "first", IF TIMER_RUNNING /\ TIMER_INDEX_UPLOAD_FIRST = 0 THEN "lock" ELSE "zero")
  /\ UNCHANGED TIMER_INDEX_UPLOAD_FIRST
  /\ ChoiceFrame

\* ... and once more with it
ChosenUnchecked(s) == nTimeRecvExa[s]
Chosen(s) ==
  IF TIMER_INDEX_UPLOAD_FIRST = 0 THEN nTimeRecvExa[s] ELSE TIMER_INDEX_UPLOAD_FIRST

ChoosesFirst(s) ==
  /\ Goto(s, "lock", "zero")
  /\ TIMER_INDEX_UPLOAD_FIRST' = Chosen(s)
  /\ ChoiceFrame

\* The keys of the measurement; the loop takes steps of 5 time units
GridWithSteps(first) == {first + 2 * k : k \in 0..MEASUREMENT_DURATION}
Grid(first) == first..(first + 2 * MEASUREMENT_DURATION)

IsFirstOrLater(s) ==
  TIMER_INDEX_UPLOAD_FIRST # 0 /\ TIMER_INDEX_UPLOAD_FIRST <= nTimeRecvExa[s]
IsFirst(s) == TIMER_INDEX_UPLOAD_FIRST # 0 /\ TIMER_INDEX_UPLOAD_FIRST = nTimeRecvExa[s]

\* The report of the first key makes the stream zero all of them
Zero(s) ==
  LET first == TIMER_INDEX_UPLOAD_FIRST
  IN  /\ Goto(s, "zero", "book")
      /\ IF IsFirst(s)
           THEN /\ results' = [results EXCEPT ![s] =
                     [k \in (DOMAIN @) \cup Grid(first) |-> IF k \in Grid(first) THEN 0 ELSE @[k]]]
                /\ zeroed' = zeroed \cup {s}
           ELSE UNCHANGED <<results, zeroed, crashed>>
      /\ UNCHANGED <<timerVars, TIMER_INDEX_UPLOAD_FIRST, errorVars, syncing_threads,
                     datasize_slow_start, dataVars, peerVars, crashed>>

\* datasize_total - nDataRecv
SlowStartWithCurrent(s) == datasize_total[s]
SlowStartInBits(s) == datasize_total[s] - 8 * nDataRecv[s]
SlowStartBytes(s) == datasize_total[s] - nDataRecv[s]

\* The bytes are inserted under a new key or added to those of a known one;
\* what was received before the first key is the slow start.  Then comes the
\* next report of this receive, if there is one, or the loop
Book(s) ==
  LET key   == nTimeRecvExa[s]
      known == key \in DOMAIN results[s]
      data  == nDataRecv[s]
  IN  /\ \/ Goto(s, "book", "loop")
         \/ Goto(s, "book", "item") /\ sent[s] < MaxReports /\ rest[s] = "none"
      /\ IF hasError THEN UNCHANGED bookVars
         ELSE /\ results' = [results EXCEPT ![s] =
                   [k \in (DOMAIN @) \cup {key} |->
                      IF k # key THEN @[k] ELSE IF known THEN @[k] + data ELSE data]]
              /\ datasize_slow_start' = [datasize_slow_start EXCEPT ![s] =
                   IF known /\ @ = 0 /\ TIMER_INDEX_UPLOAD_FIRST = key
                     THEN SlowStartBytes(s) ELSE @]
      /\ UNCHANGED <<timerVars, TIMER_INDEX_UPLOAD_FIRST, errorVars, syncing_threads,
                     dataVars, peerVars, zeroed, crashed>>

Stream(s) ==
  \/ Loop(s) \/ Receive(s) \/ WholeReport(s) \/ TornReport(s) \/ TornKey(s) \/ Unwind(s)
  \/ Remainder(s) \/ LooksForFirst(s) \/ ChoosesFirst(s) \/ Zero(s) \/ Book(s)

-----------------------------------------------------------------------------
(* The timer thread *)

\* The measurement starts when all streams have synced, and it stops
Start ==
  /\ ~TIMER_RUNNING /\ syncing_threads = Streams
  /\ TIMER_RUNNING' = TRUE
  /\ UNCHANGED <<TIMER_STOPPED, TIMER_INDEX_UPLOAD_FIRST, errorVars, pc, syncing_threads,
                 bookVars, dataVars, peerVars, zeroed, crashed>>

Stop ==
  /\ TIMER_RUNNING /\ ~TIMER_STOPPED
  /\ TIMER_STOPPED' = TRUE
  /\ UNCHANGED <<TIMER_RUNNING, TIMER_INDEX_UPLOAD_FIRST, errorVars, pc, syncing_threads,
                 bookVars, dataVars, peerVars, zeroed, crashed>>

Done ==
  /\ crashed \/ \A s \in Streams : pc[s] = "ended"
  /\ UNCHANGED vars

Next ==
  \/ ~crashed /\ (Start \/ Stop \/ \E s \in Streams : Stream(s))
  \/ Done

Spec == Init /\ [][Next]_vars
-----------------------------------------------------------------------------
(* Properties *)

\* The keys the callback counts (callback.cpp:433)
Kept(s) ==
  IF TIMER_INDEX_UPLOAD_FIRST = 0 THEN {}
  ELSE {k \in DOMAIN results[s] : k >= TIMER_INDEX_UPLOAD_FIRST}

\* bytes_total of the stream, if the callback counts all of them
Counted(s) == datasize_slow_start[s] + SumFunctionOnSet(results[s], Kept(s))

BytesBefore(s) == SumFunctionOnSet(results[s], DOMAIN results[s] \ Kept(s))

NoneTorn == \A s \in Streams : torn[s] = 0

\* Every variable keeps its type
TypeOK ==
  /\ TIMER_RUNNING \in BOOLEAN /\ TIMER_STOPPED \in BOOLEAN /\ hasError \in BOOLEAN
  /\ RUNNING \in BOOLEAN /\ crashed \in BOOLEAN
  /\ TIMER_INDEX_UPLOAD_FIRST \in Nat
  /\ pc \in [Streams -> {"loop", "recv", "item", "first", "lock", "zero", "book", "unwind",
                         "ended"}]
  /\ syncing_threads \subseteq Streams /\ zeroed \subseteq Streams
  /\ \A s \in Streams :
       /\ DOMAIN results[s] \subseteq Nat
       /\ \A k \in DOMAIN results[s] : results[s][k] \in Nat
  /\ datasize_total \in [Streams -> Nat] /\ datasize_slow_start \in [Streams -> Nat]
  /\ nDataRecv \in [Streams -> Bytes] /\ nTimeRecvExa \in [Streams -> Nat]
  /\ rest \in [Streams -> {"none", "key", "noKey", "scrap"}]

\* The first key of the measurement is chosen once, whatever streams come to
\* choose it at the same time (upload.cpp:228-237)
FirstChosenOnce ==
  [][TIMER_INDEX_UPLOAD_FIRST # 0 => UNCHANGED TIMER_INDEX_UPLOAD_FIRST]_vars

\* The callback takes the n-th key it counts for the n-th half second
\* (callback.cpp:429-461), so the keys of a stream must have no gap and start
\* with the first one.  So they do, but for a stream whose first report came
\* later than that key, and when reports were torn
StepsAligned ==
  NoneTorn => \A s \in Streams :
    nextKey[s] - sent[s] <= TIMER_INDEX_UPLOAD_FIRST =>
      \A k \in Kept(s) : k = TIMER_INDEX_UPLOAD_FIRST \/ k - 1 \in Kept(s)

\* A stream counts nothing it has read twice, as slow start and in a half second,
\* unless a report of its own was torn, whatever happens to the other streams.
\* Torn reports can make it do so for all it has read: one booked under an old
\* key makes the slow start include what followed.  And each makes what was read
\* last be booked once more, where a part of it is not read (upload.cpp:218, 247)
CountedOnce ==
  \A s \in Streams :
    Counted(s) <= IF torn[s] = 0 THEN datasize_total[s]
                  ELSE 2 * datasize_total[s] + torn[s] * MostBytes

\* Without torn reports and errors a stream accounts for every byte the peer has
\* reported to it, those from before the measurement as slow start.  Only a
\* stream that was ahead when the first key was chosen, and so has not zeroed
\* its keys, loses what it received before that key
CountedExactly ==
  NoneTorn /\ ~hasError /\ TIMER_INDEX_UPLOAD_FIRST # 0 =>
    \A s \in Streams :
      pc[s] \in {"loop", "recv", "item", "ended"} =>
        Counted(s) = datasize_total[s] - (IF s \in zeroed THEN 0 ELSE BytesBefore(s))
=============================================================================
