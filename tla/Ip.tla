--------------------------------- MODULE Ip ---------------------------------
(***************************************************************************)
(* tests/ip.cpp: Ip::run, the single worker of the IP test.  It waits for  *)
(* the ip_report of the server.                                            *)
(***************************************************************************)
EXTENDS Worker

\* The request was refused (-2): unlike in the other tests no flag is set
IpRefused(i) ==
  /\ At(IP, i, "open")
  /\ Goto(i, "gap")
  /\ WorkerFrame
  /\ UNCHANGED <<flagVars, TIMER_STOPPED, MEASUREMENT_DURATION, mResponse,
                 syncing_threads, ipResult, pings, sender>>

\* Some other message, or the connection has dropped
IpReceive(i) ==
  /\ \/ Receive(IP, i, "data", "loop")
     \/ Receive(IP, i, "gone", "ended")
  /\ UNCHANGED ipResult

\* The ip_report: the client's address is stored before the TLS parameters
\* are looked at, and they may be missing
IpReport(i) ==
  /\ \/ Receive(IP, i, "data", "ended")
     \/ TLS /\ Receive(IP, i, "data", "tls")
  /\ ipResult' = TRUE

IpTlsMissing(i) == Flag(IP, i, "tls", "TLS_PARAMETERS_MISSING")

IpThread(i) ==
  \/ WorkerFailure(IP, i)
  \/ IpRefused(i)
  \/ Opened(IP, i)
  \/ Loop(IP, i, "ended")
  \/ IpReceive(i)
  \/ IpReport(i)
  \/ IpTlsMissing(i)
=============================================================================
