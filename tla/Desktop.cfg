\* The executable: one measurement, two download streams
SPECIFICATION Spec
CONSTANTS
  Mobile = FALSE
  TLS = TRUE
  DL_STREAMS = 2
  UL_STREAMS = 1
  PING_QUERY = 1
  IP_DURATION = 1
  DL_DURATION = 1
  UL_DURATION = 1
  UPLOAD_ADDITIONAL_MEASUREMENT_DURATION = 1
  MaxSessions = 1
INVARIANTS
  TypeOK
  AllStreamsDeliver
  DurationKnown
  FailureReported
  FinishEarned
  NoSilentEnd
  ResultThere
  SenderOutlived
PROPERTIES
  FinishAfterError
  FollowsProtocol
