------------------------------ MODULE Download ------------------------------
(***************************************************************************)
(* tests/download.cpp: Download::run, one thread per download stream.      *)
(***************************************************************************)
EXTENDS Worker

\* requestToReferenceServer returned -2
DownloadForbidden(i) == Flag(DOWNLOAD, i, "open", "FORBIDDEN")

DownloadReceive(i) == Receive(DOWNLOAD, i, "data", "loop") /\ UNCHANGED ipResult

DownloadDropped(i) == Receive(DOWNLOAD, i, "gone", "ended") /\ UNCHANGED ipResult

DownloadThread(i) ==
  \/ WorkerFailure(DOWNLOAD, i)
  \/ DownloadForbidden(i)
  \/ Opened(DOWNLOAD, i)
  \/ Loop(DOWNLOAD, i, "ended")
  \/ DownloadReceive(i)
  \/ DownloadDropped(i)
=============================================================================
