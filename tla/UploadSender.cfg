\* A buffer that is not a multiple of the packet size, so that the pointer
\* visits many offsets
SPECIFICATION Spec
CONSTANTS
  MAX_PACKET_SIZE = 7
  BUFFER_SIZE = 50
INVARIANTS
  SendInsideBuffer
  AtMostOneLatePacket
