------------------------- MODULE UploadSenderProofs -------------------------
(***************************************************************************)
(* Proofs about UploadSender, for every packet size and every buffer of at *)
(* least two packets.                                                      *)
(***************************************************************************)
EXTENDS UploadSender, TLAPS

Positions == {"loop", "send", "check", "ended"}

\* The inductive invariant of SendInsideBuffer
PointerInv ==
  /\ pc \in Positions
  /\ nPointer \in 0..BUFFER_SIZE
  /\ SendInsideBuffer

\* Where the pointer is put before a packet is sent, the packet fits: the
\* arithmetic of upload_sender.cpp:45-49
LEMMA WrappedFits ==
  ASSUME NEW p \in 0..BUFFER_SIZE
  PROVE  Wrapped(p) \in Nat /\ Wrapped(p) + MAX_PACKET_SIZE <= BUFFER_SIZE
<1>1. CASE p + MAX_PACKET_SIZE > BUFFER_SIZE
  BY <1>1, BufferAssumption DEF Wrapped
<1>2. CASE ~(p + MAX_PACKET_SIZE > BUFFER_SIZE)
  BY <1>2, BufferAssumption DEF Wrapped
<1> QED BY <1>1, <1>2

\* The sender never reads outside randomDataValues (upload_sender.cpp:51), for
\* every packet size and buffer of at least two packets
THEOREM SendsInsideBuffer == Spec => []SendInsideBuffer
<1>1. Init => PointerInv
  BY BufferAssumption DEF Init, PointerInv, Positions, SendInsideBuffer
<1>2. PointerInv /\ [Next]_vars => PointerInv'
  <2> SUFFICES ASSUME PointerInv, [Next]_vars
               PROVE  PointerInv'
    OBVIOUS
  <2> USE BufferAssumption DEF PointerInv, Positions, SendInsideBuffer
  <2>1. CASE SenderLoop
    BY <2>1, WrappedFits DEF SenderLoop
  <2>2. CASE SenderSend
    BY <2>2 DEF SenderSend
  <2>3. CASE SenderCheck
    BY <2>3 DEF SenderCheck
  <2>4. CASE SenderTold
    BY <2>4 DEF SenderTold
  <2>5. CASE SenderEnded \/ UNCHANGED vars
    BY <2>5 DEF SenderEnded, vars
  <2> QED BY <2>1, <2>2, <2>3, <2>4, <2>5 DEF Next
<1>3. PointerInv => SendInsideBuffer
  BY DEF PointerInv
<1> QED BY <1>1, <1>2, <1>3, PTL DEF Spec

\* The inductive invariant of AtMostOneLatePacket: a packet sent late has left
\* the sender at a point from which it reaches no other
LateInv ==
  /\ pc \in Positions
  /\ halt \in BOOLEAN /\ m_fStop \in BOOLEAN
  /\ late \in 0..1
  /\ late = 1 => halt \/ m_fStop
  /\ pc = "send" => late = 0
  /\ pc = "loop" /\ ~halt => late = 0

\* However stopThread and the end of the measurement fall into the sender's
\* loop, it sends one more packet at most (upload_sender.cpp:43-64)
THEOREM OneLatePacketAtMost == Spec => []AtMostOneLatePacket
<1>1. Init => LateInv
  <2> SUFFICES ASSUME Init PROVE LateInv
    OBVIOUS
  <2>1. halt \in BOOLEAN /\ m_fStop \in BOOLEAN
    BY Zenon DEF Init
  <2>2. pc \in Positions /\ late = 0
    BY DEF Init, Positions
  <2> QED BY <2>1, <2>2 DEF LateInv
<1>2. LateInv /\ [Next]_vars => LateInv'
  <2> SUFFICES ASSUME LateInv, [Next]_vars
               PROVE  LateInv'
    OBVIOUS
  <2> USE DEF LateInv, Positions
  <2>1. CASE SenderLoop
    BY <2>1 DEF SenderLoop
  <2>2. CASE SenderSend
    BY <2>2 DEF SenderSend
  <2>3. CASE SenderCheck
    BY <2>3 DEF SenderCheck, StopSeen
  <2>4. CASE SenderTold
    BY <2>4 DEF SenderTold
  <2>5. CASE SenderEnded \/ UNCHANGED vars
    BY <2>5 DEF SenderEnded, vars
  <2> QED BY <2>1, <2>2, <2>3, <2>4, <2>5 DEF Next
<1>3. LateInv => AtMostOneLatePacket
  BY DEF LateInv, AtMostOneLatePacket
<1> QED BY <1>1, <1>2, <1>3, PTL DEF Spec
=============================================================================
