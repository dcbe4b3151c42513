------------------------------ MODULE RttPings ------------------------------
(***************************************************************************)
(* The round trips of the RTT test: Ping::run (tests/ping.cpp) sends one   *)
(* datagram after the other and waits a second for each answer, over a     *)
(* network that loses, delays, duplicates and reorders them, while         *)
(* CCallback::rttUdpCallback (callback.cpp) reports what it has counted.   *)
(*                                                                         *)
(* pc is the position of the worker: "loop", "wait", "save" and "stamp"    *)
(* (an answer is counted, its time and time stamp not stored yet), "sleep" *)
(* and "ended".  The handler is "idle" or "reading": it has copied the    *)
(* results, in one step, and reads the counters, one by one.               *)
(***************************************************************************)
EXTENDS Integers, Sequences, FiniteSets

CONSTANTS
  PING_QUERY,     \* the pings that count
  MaxCopies       \* bound: how often an answer may arrive

ASSUME PingAssumption == PING_QUERY \in Nat \ {0} /\ MaxCopies \in Nat \ {0}

\* One ping more is sent than counts
mPingQuery == PING_QUERY + 1
nPingTarget == PING_QUERY
Pings == 1..mPingQuery

\* nReplies, nMissing, nErrors
Counters == {"replies", "missing", "errors"}

VARIABLES
  pc, i, firstResponse,
  answer,             \* the ping whose answer has been received
  n,                  \* the counters
  results,            \* for a ping, the ping whose answer was timed
  results_timestamp,  \* the pings that have a time stamp
  elapsed,            \* half seconds the worker has waited
  network,            \* for each ping, the copies of its answer on their way
  socket,             \* the answers that have arrived
  RUNNING,
  handler,
  finishing,          \* the report is that of callback("finish", ...)
  copy, copiedStamps, \* its copies of the results and of the time stamps
  start               \* the counters at that time

workerVars  == <<pc, i, firstResponse, answer, n, results, results_timestamp, elapsed>>
networkVars == <<network, socket>>
handlerVars == <<handler, finishing, copy, copiedStamps, start>>
vars == <<workerVars, networkVars, handlerVars, RUNNING>>

Zeros == [c \in Counters |-> 0]

Init ==
  /\ pc = "loop" /\ i = 1 /\ firstResponse = TRUE /\ answer = 0
  /\ n = Zeros /\ results = << >> /\ results_timestamp = {} /\ elapsed = 0
  /\ network = [p \in Pings |-> 0] /\ socket = <<>>
  /\ RUNNING = TRUE
  /\ handler = "idle" /\ finishing = FALSE
  /\ copy = << >> /\ copiedStamps = {} /\ start = Zeros

-----------------------------------------------------------------------------
(* The worker *)

Goto(from, to) == pc = from /\ pc' = to

\* while (RUNNING && i <= mPingQuery): a datagram of random bytes, of which no
\* two are the same; the peer mirrors it, and the network loses the answer or
\* delivers it, once or more often
Send ==
  /\ RUNNING /\ i <= mPingQuery
  /\ Goto("loop", "wait")
  /\ \E copies \in 0..MaxCopies : network' = [network EXCEPT ![i] = copies]
  /\ UNCHANGED <<i, firstResponse, answer, n, results, results_timestamp, elapsed, socket,
                 handlerVars, RUNNING>>

Finish ==
  /\ ~(RUNNING /\ i <= mPingQuery)
  /\ Goto("loop", "ended")
  /\ UNCHANGED <<i, firstResponse, answer, n, results, results_timestamp, elapsed, networkVars,
                 handlerVars, RUNNING>>

\* What came is compared with what was sent, byte by byte
PayloadIgnored(p) == TRUE
MirroredPayload(p) == p = i

\* The first ping only warms up: nothing is counted, whether it is answered or
\* not
CountsFirst == TRUE
Counts == ~firstResponse

Count(c) == n' = [n EXCEPT ![c] = @ + 1]

\* recvfrom returns the first datagram of the socket, whichever ping it
\* answers; it has waited less than a second, and half a second is counted
Receive ==
  /\ pc = "wait" /\ socket # <<>>
  /\ socket' = Tail(socket)
  /\ firstResponse' = FALSE
  /\ \/ ~Counts /\ pc' = "sleep" /\ UNCHANGED <<n, answer>>
     \/ /\ Counts /\ ~MirroredPayload(Head(socket))
        /\ pc' = "sleep" /\ Count("errors") /\ UNCHANGED answer
     \/ /\ Counts /\ MirroredPayload(Head(socket))
        /\ pc' = "save" /\ Count("replies") /\ answer' = Head(socket)
  /\ elapsed' = elapsed + 1
  /\ UNCHANGED <<i, results, results_timestamp, network, handlerVars, RUNNING>>

\* A second has passed
Timeout ==
  /\ socket = <<>>
  /\ Goto("wait", "sleep")
  /\ firstResponse' = FALSE
  /\ IF Counts THEN Count("missing") ELSE UNCHANGED n
  /\ elapsed' = elapsed + 2
  /\ UNCHANGED <<i, answer, results, results_timestamp, networkVars, handlerVars, RUNNING>>

\* The time, and then the time stamp, of the answer that has been counted
Save ==
  /\ Goto("save", "stamp")
  /\ results' = [p \in (DOMAIN results) \cup {i} |->
                   IF p = i THEN answer ELSE results[p]]
  /\ answer' = 0
  /\ UNCHANGED <<i, firstResponse, n, results_timestamp, elapsed, networkVars,
                 handlerVars, RUNNING>>

Stamp ==
  /\ Goto("stamp", "sleep")
  /\ results_timestamp' = results_timestamp \cup {i}
  /\ UNCHANGED <<i, firstResponse, answer, n, results, elapsed, networkVars, handlerVars, RUNNING>>

\* i++; usleep(500000)
Sleep ==
  /\ Goto("sleep", "loop")
  /\ i' = i + 1
  /\ elapsed' = elapsed + 1
  /\ UNCHANGED <<firstResponse, answer, n, results, results_timestamp, networkVars, handlerVars,
                 RUNNING>>

Worker == Send \/ Finish \/ Receive \/ Timeout \/ Save \/ Stamp \/ Sleep

-----------------------------------------------------------------------------
(* The network, and measurementStop *)

\* An answer that arrives while the worker does not wait makes no difference
\* until it waits again: it arrives then
Arrive(p) ==
  /\ pc = "wait" /\ network[p] > 0
  /\ network' = [network EXCEPT ![p] = @ - 1]
  /\ socket' = Append(socket, p)
  /\ UNCHANGED <<workerVars, handlerVars, RUNNING>>

Network == \E p \in Pings : Arrive(p)

StopMeasurement ==
  /\ RUNNING /\ RUNNING' = FALSE
  /\ UNCHANGED <<workerVars, networkVars, handlerVars>>

-----------------------------------------------------------------------------
(* rttUdpCallback, called by the timer thread *)

\* MEASUREMENT_DURATION in half seconds, from (int)mPingQuery * 1.5 * 1.1; the
\* worker stops the timer itself if it comes first
WithoutWaits == 2 * mPingQuery
Duration == 2 * ((mPingQuery * 33) \div 20)
TimerStopped == pc = "ended" \/ elapsed >= Duration

\* mPingResult = pingThread->mPingResult, in a report or in the last one
BeginReport ==
  /\ RUNNING /\ handler = "idle" /\ ~finishing
  /\ finishing' \in {FALSE, TimerStopped}
  /\ copy' = results /\ copiedStamps' = results_timestamp
  /\ start' = n
  /\ handler' = "reading"
  /\ UNCHANGED <<workerVars, networkVars, RUNNING>>

\* The round trips are those of the copy, in the order of the pings
RttsNow == results
Rtts == copy
Number(p) == Cardinality({q \in DOMAIN Rtts : q <= p})

\* Round trip k is written with results_timestamp[k], 0 where there is none
StampOf(k) == IF k \in copiedStamps THEN k ELSE 0

\* Each counter is read for num_sent, and once more for itself, at any time
\* since: what may come of that
ReadBetween(from, to) ==
  {[replies |-> r, missing |-> m, errors |-> e] :
     r \in from["replies"]..to["replies"], m \in from["missing"]..to["missing"],
     e \in from["errors"]..to["errors"]}

Total(f) == f["replies"] + f["missing"] + f["errors"]

\* What jMeasurementResultsRttUdp may be set to
Report(sent, fields) ==
  [rtts   |-> Rtts,
   stamps |-> [p \in DOMAIN Rtts |-> StampOf(Number(p))],
   sent   |-> Total(sent),
   fields |-> fields]

Reports ==
  IF handler = "idle" THEN {}
  ELSE UNION {{Report(sent, fields) : fields \in ReadBetween(sent, n)} :
                  sent \in ReadBetween(start, n)}

\* The report is written; the handler's locals are gone
WriteReport ==
  /\ handler = "reading"
  /\ handler' = "idle"
  /\ copy' = << >> /\ copiedStamps' = {} /\ start' = Zeros
  /\ UNCHANGED <<workerVars, networkVars, finishing, RUNNING>>

Handler == BeginReport \/ WriteReport

Done == pc = "ended" /\ handler = "idle" /\ UNCHANGED vars

Next == Worker \/ Network \/ StopMeasurement \/ Handler \/ Done

Spec == Init /\ [][Next]_vars
-----------------------------------------------------------------------------
(* Properties *)

BooleansOK == firstResponse \in BOOLEAN /\ RUNNING \in BOOLEAN /\ finishing \in BOOLEAN

WorkerOK ==
  /\ pc \in {"loop", "wait", "save", "stamp", "sleep", "ended"}
  /\ i \in 1..(mPingQuery + 1)
  /\ n \in [Counters -> 0..PING_QUERY]
  /\ DOMAIN results \subseteq Pings /\ results_timestamp \subseteq DOMAIN results
  /\ elapsed \in Nat

HandlerOK == handler \in {"idle", "reading"} /\ start \in [Counters -> 0..PING_QUERY]

\* Every variable keeps its type; no counter passes the number of pings that
\* count, so that the progress of a report stays within 1 (callback.cpp:260)
TypeOK ==
  /\ BooleansOK /\ WorkerOK /\ HandlerOK
  /\ Total(n) <= PING_QUERY

\* A round trip is timed by the answer to its own ping, however late, often or
\* out of order the answers come (ping.cpp:214-242)
TimedByOwnAnswer == \A p \in DOMAIN results : results[p] = p

\* The parts of a report are read one after the other while the worker counts
\* on (callback.cpp:235-258), but never contradict each other in this: there
\* are no more round trips than replies, and no more pings sent than the three
\* counters account for
ReportConsistent ==
  \A r \in Reports :
    Cardinality(DOMAIN r.rtts) <= r.fields["replies"] /\ r.sent <= Total(r.fields)

\* The duration of the test leaves the time for every ping to run into its
\* timeout (ping.cpp:104): the last report has every ping, and a round trip for
\* every reply
FinalReportComplete ==
  finishing =>
    \A r \in Reports :
      /\ r.sent = PING_QUERY /\ Total(r.fields) = PING_QUERY
      /\ Cardinality(DOMAIN r.rtts) = r.fields["replies"]

\* Round trips are numbered from 1 (callback.cpp:272-281), results from 2, for
\* the first ping has none: a round trip is written with the time stamp of an
\* earlier ping or with 0, never with its own
StampsLagBehind ==
  \A r \in Reports : \A p \in DOMAIN r.rtts : r.stamps[p] < r.rtts[p]
=============================================================================
