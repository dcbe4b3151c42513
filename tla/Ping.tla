-------------------------------- MODULE Ping --------------------------------
(***************************************************************************)
(* tests/ping.cpp: Ping::run, the single worker of the RTT test.           *)
(***************************************************************************)
EXTENDS Worker

\* The name has resolved: the duration of the test follows from the number of
\* pings.  Then the UDP socket opens, or the thread just returns -1
PingDurationForgotten == 0
PingMeasurementDuration == PingDuration

PingOpen(i) ==
  /\ At(RTT, i, "open")
  /\ MEASUREMENT_DURATION' = PingMeasurementDuration
  /\ \E to \in {"loop", "ended"} : Goto(i, to)
  /\ WorkerFrame
  /\ UNCHANGED <<flagVars, TIMER_STOPPED, mResponse, syncing_threads, ipResult, pings,
                 sender>>

\* while (RUNNING && i <= mPingQuery): TIMER_STOPPED does not stop it
MayPingOnceMore == RUNNING /\ pings <= PING_QUERY + 1
MayPing == RUNNING /\ pings <= PING_QUERY

\* The worker is synced before it sends its first ping
PingLoop(i) ==
  /\ At(RTT, i, "loop") /\ MayPing
  /\ syncing_threads' = syncing_threads \cup {<<RTT, i>>}
  /\ Goto(i, "recv")
  /\ WorkerFrame
  /\ UNCHANGED <<flagVars, TIMER_STOPPED, MEASUREMENT_DURATION, mResponse, ipResult, pings,
                 sender>>

\* The answer, or a second without one; the first ping is not counted
PingAnswer(i) ==
  /\ At(RTT, i, "recv")
  /\ pings' = pings + 1
  /\ Goto(i, "loop")
  /\ WorkerFrame
  /\ UNCHANGED <<flagVars, TIMER_STOPPED, MEASUREMENT_DURATION, mResponse, syncing_threads,
                 ipResult, sender>>

\* After the loop the worker itself stops the timer
PingDone(i) ==
  /\ At(RTT, i, "loop") /\ ~MayPing
  /\ TIMER_STOPPED' = TRUE
  /\ Goto(i, "ended")
  /\ WorkerFrame
  /\ UNCHANGED <<flagVars, MEASUREMENT_DURATION, mResponse, syncing_threads, ipResult,
                 pings, sender>>

PingThread(i) ==
  \/ WorkerFailure(RTT, i)
  \/ PingOpen(i)
  \/ PingLoop(i)
  \/ PingAnswer(i)
  \/ PingDone(i)
=============================================================================
