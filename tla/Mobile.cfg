\* The Android library: two measurements in one process, and measurementStop
SPECIFICATION Spec
CONSTANTS
  Mobile = TRUE
  TLS = FALSE
  DL_STREAMS = 1
  UL_STREAMS = 1
  PING_QUERY = 0
  IP_DURATION = 1
  DL_DURATION = 1
  UL_DURATION = 1
  UPLOAD_ADDITIONAL_MEASUREMENT_DURATION = 0
  MaxSessions = 2
INVARIANTS
  HandlerSafe
  DeliveredComplete
PROPERTIES
  FollowsProtocol
