------------------------------- MODULE Worker -------------------------------
(***************************************************************************)
(* What the worker threads of the four tests (src/tests) have in common.   *)
(* wpc[i] is the position of worker i of the running test: "none" (not     *)
(* created), "open" (resolving, connecting, requesting), "loop" (the       *)
(* condition of its loop), "recv" (its body, blocked in receive with a     *)
(* timeout), "gap" (a failure flag is set, hasError not yet), "tls",       *)
(* "unwind" (in its catch block), "stop" and "join" (upload: stopping its  *)
(* sender), "ended".                                                       *)
(*                                                                         *)
(* Connection and HTTP are the external ias-libtool: opening succeeds,     *)
(* fails or throws at will; what a worker opens, no other thread sees.     *)
(***************************************************************************)
EXTENDS Globals

WorkerFrame ==
  UNCHANGED <<resultVars, TIMER_ACTIVE, TIMER_RUNNING, TIMER_INDEX, TIMER_DURATION, clock,
              timerVars, mainVars, objectVars, platformVars, stopping, crashed>>

\* Worker i of test t runs and is at position pc
At(t, i, pc) == /\ ~crashed /\ test = t /\ i \in 1..Instances[t]
                /\ wpc[i] = pc

Goto(i, pc) == wpc' = [wpc EXCEPT ![i] = pc]

\* RUNNING && TIMER_ACTIVE && !TIMER_STOPPED && !m_fStop
MayReceive == RUNNING /\ TIMER_ACTIVE /\ ~TIMER_STOPPED

\* The failure is flagged for the timer thread; hasError follows later
Flag(t, i, pc, flag) ==
  /\ At(t, i, pc)
  /\ raised' = raised \cup {flag}
  /\ Goto(i, "gap")
  /\ WorkerFrame
  /\ UNCHANGED <<RUNNING, hasError, TIMER_STOPPED, MEASUREMENT_DURATION, mResponse,
                 syncing_threads, ipResult, pings, sender>>

\* ::hasError = true after a flag, or without one
SetHasError(t, i) ==
  /\ At(t, i, "gap")
  /\ hasError' = TRUE
  /\ Goto(i, "ended")
  /\ WorkerFrame
  /\ UNCHANGED <<RUNNING, raised, TIMER_STOPPED, MEASUREMENT_DURATION, mResponse,
                 syncing_threads, ipResult, pings, sender>>

\* An exception in the try block, in the body of the loop before or after the
\* worker has synced: the catch block sets hasError ...
Throw(t, i) ==
  /\ \E pc \in {"open", "recv", "loop"} : At(t, i, pc)
  /\ hasError' = TRUE
  /\ Goto(i, "unwind")
  /\ WorkerFrame
  /\ UNCHANGED <<RUNNING, raised, TIMER_STOPPED, MEASUREMENT_DURATION, mResponse,
                 syncing_threads, ipResult, pings, sender>>

\* ... and then clears RUNNING, which stops every thread of the measurement
Unwind(t, i) ==
  /\ At(t, i, "unwind")
  /\ RUNNING' = FALSE
  /\ Goto(i, "ended")
  /\ WorkerFrame
  /\ UNCHANGED <<hasError, raised, TIMER_STOPPED, MEASUREMENT_DURATION, mResponse,
                 syncing_threads, ipResult, pings, sender>>

\* The name does not resolve, the socket does not open or the request fails
Unreachable(t, i) == Flag(t, i, "open", "UNREACHABLE")

\* The socket is open and the reference server has answered the request
Opened(t, i) ==
  /\ At(t, i, "open")
  /\ Goto(i, "loop")
  /\ sender' = IF t = UPLOAD THEN [sender EXCEPT ![i] = "sending"] ELSE sender
  /\ WorkerFrame
  /\ UNCHANGED <<flagVars, TIMER_STOPPED, MEASUREMENT_DURATION, mResponse,
                 syncing_threads, ipResult, pings>>

\* The condition of the loop: receive again, or leave for position out
Loop(t, i, out) ==
  /\ At(t, i, "loop")
  /\ Goto(i, IF MayReceive THEN "recv" ELSE out)
  /\ WorkerFrame
  /\ UNCHANGED <<flagVars, TIMER_STOPPED, MEASUREMENT_DURATION, mResponse,
                 syncing_threads, ipResult, pings, sender>>

\* receive returns: the first time, whatever it returns, the worker is synced.
\* mResponse is positive ("data"), or 0 or -1 ("gone", which ends the loop)
Receive(t, i, response, to) ==
  /\ At(t, i, "recv")
  /\ mResponse' = [mResponse EXCEPT ![i] = response]
  /\ syncing_threads' = syncing_threads \cup {<<t, i>>}
  /\ Goto(i, to)
  /\ WorkerFrame
  /\ UNCHANGED <<flagVars, TIMER_STOPPED, MEASUREMENT_DURATION, pings, sender>>

WorkerFailure(t, i) == Unreachable(t, i) \/ SetHasError(t, i) \/ Throw(t, i) \/ Unwind(t, i)
=============================================================================
