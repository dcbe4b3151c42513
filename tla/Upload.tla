------------------------------- MODULE Upload -------------------------------
(***************************************************************************)
(* tests/upload.cpp and tests/upload_sender.cpp: Upload::run receives the  *)
(* server's reports, while its own CUploadSender thread sends.  sender[i]  *)
(* is "none", "sending", "stopping" (stopThread was called) or "ended".    *)
(***************************************************************************)
EXTENDS Worker

UploadForbidden(i) == Flag(UPLOAD, i, "open", "FORBIDDEN")

UploadReceive(i) == Receive(UPLOAD, i, "data", "loop") /\ UNCHANGED ipResult

UploadDropped(i) == Receive(UPLOAD, i, "gone", "stop") /\ UNCHANGED ipResult

\* pUploadSender->stopThread()
UploadStop(i) ==
  /\ At(UPLOAD, i, "stop")
  /\ sender' = [sender EXCEPT ![i] = IF @ = "sending" THEN "stopping" ELSE @]
  /\ Goto(i, "join")
  /\ WorkerFrame
  /\ UNCHANGED <<flagVars, TIMER_STOPPED, MEASUREMENT_DURATION, mResponse,
                 syncing_threads, ipResult, pings>>

\* pUploadSender->waitForEnd()
SenderJoinedAtOnce(i) == TRUE
SenderJoined(i) == sender[i] = "ended"

UploadJoin(i) ==
  /\ At(UPLOAD, i, "join") /\ SenderJoined(i)
  /\ Goto(i, "ended")
  /\ WorkerFrame
  /\ UNCHANGED <<flagVars, TIMER_STOPPED, MEASUREMENT_DURATION, mResponse,
                 syncing_threads, ipResult, pings, sender>>

UploadThread(i) ==
  \/ WorkerFailure(UPLOAD, i)
  \/ UploadForbidden(i)
  \/ Opened(UPLOAD, i)
  \/ Loop(UPLOAD, i, "stop")
  \/ UploadReceive(i)
  \/ UploadDropped(i)
  \/ UploadStop(i)
  \/ UploadJoin(i)

\* CUploadSender::run: while (RUNNING && !::hasError) { send; if (m_fStop) break; }
SenderMustEnd(i) == sender[i] = "stopping" \/ (sender[i] = "sending" /\ (hasError \/ ~RUNNING))

SenderEnds(i) ==
  /\ sender' = [sender EXCEPT ![i] = "ended"]
  /\ WorkerFrame
  /\ UNCHANGED <<flagVars, TIMER_STOPPED, MEASUREMENT_DURATION, wpc, mResponse,
                 syncing_threads, ipResult, pings>>

SenderStops(i) == ~crashed /\ SenderMustEnd(i) /\ SenderEnds(i)

\* send returned 0 or -1
SenderDropped(i) == ~crashed /\ sender[i] \in {"sending", "stopping"} /\ SenderEnds(i)
=============================================================================
