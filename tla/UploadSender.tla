---------------------------- MODULE UploadSender ----------------------------
(***************************************************************************)
(* tests/upload_sender.cpp: CUploadSender::run, which sends the buffer     *)
(* randomDataValues round and round in packets until it is told to stop.   *)
(* The thread is at "loop" (the condition of its loop), "send" (the send   *)
(* call), "check" (m_fStop) or "ended".                                    *)
(***************************************************************************)
EXTENDS Integers

CONSTANTS MAX_PACKET_SIZE,   \* bytes of a packet (ias-libtool)
          BUFFER_SIZE        \* randomDataValues.size(): 11234570 in the code

ASSUME BufferAssumption ==
  /\ MAX_PACKET_SIZE \in Nat \ {0} /\ BUFFER_SIZE \in Nat
  /\ 2 * MAX_PACKET_SIZE <= BUFFER_SIZE

VARIABLES pc, nPointer,
          halt,     \* ~RUNNING || ::hasError, set by any other thread
          m_fStop,  \* set by stopThread
          late      \* packets sent since either was set

vars == <<pc, nPointer, halt, m_fStop, late>>

Init == pc = "loop" /\ nPointer = 1 /\ halt = FALSE /\ m_fStop = FALSE /\ late = 0

\* nPointer wraps round when a packet would reach beyond the buffer; the sum
\* is unsigned, so the packet size is added before the buffer size is taken off
WrappedLate(p) == IF p > BUFFER_SIZE THEN p + MAX_PACKET_SIZE - BUFFER_SIZE ELSE p
Wrapped(p) ==
  IF p + MAX_PACKET_SIZE > BUFFER_SIZE THEN p + MAX_PACKET_SIZE - BUFFER_SIZE ELSE p

\* while (RUNNING && !::hasError)
SenderLoop ==
  /\ pc = "loop"
  /\ IF halt THEN pc' = "ended" /\ UNCHANGED nPointer
             ELSE pc' = "send" /\ nPointer' = Wrapped(nPointer)
  /\ UNCHANGED <<halt, m_fStop, late>>

\* The packet is sent (or fails, and the loop is left)
SenderSend ==
  /\ pc = "send"
  /\ nPointer' = nPointer + MAX_PACKET_SIZE
  /\ late' = IF halt \/ m_fStop THEN late + 1 ELSE late
  /\ pc' \in {"check", "ended"}
  /\ UNCHANGED <<halt, m_fStop>>

StopForgotten == FALSE
StopSeen == m_fStop

SenderCheck ==
  /\ pc = "check"
  /\ pc' = IF StopSeen THEN "ended" ELSE "loop"
  /\ UNCHANGED <<nPointer, halt, m_fStop, late>>

\* stopThread, or the end of the measurement
SenderTold ==
  /\ \/ halt' = TRUE /\ UNCHANGED m_fStop
     \/ m_fStop' = TRUE /\ UNCHANGED halt
  /\ UNCHANGED <<pc, nPointer, late>>

SenderEnded == pc = "ended" /\ UNCHANGED vars

Next == SenderLoop \/ SenderSend \/ SenderCheck \/ SenderTold \/ SenderEnded

Spec == Init /\ [][Next]_vars

-----------------------------------------------------------------------------
\* Every packet is read from inside randomDataValues, wherever the pointer has
\* got to after any number of rounds: the arithmetic of nPointer neither
\* passes the end of the buffer nor goes below its beginning
SendInsideBuffer ==
  pc = "send" => nPointer >= 0 /\ nPointer + MAX_PACKET_SIZE <= BUFFER_SIZE

\* After it was told to stop, by either means and at any point of its loop,
\* the sender sends one more packet at most
AtMostOneLatePacket == late <= 1
=============================================================================
