\* One measurement on Android that may be stopped, under fair scheduling
SPECIFICATION FairSpec
CONSTANTS
  Mobile = TRUE
  TLS = TRUE
  DL_STREAMS = 1
  UL_STREAMS = 1
  PING_QUERY = 1
  IP_DURATION = 1
  DL_DURATION = 1
  UL_DURATION = 1
  UPLOAD_ADDITIONAL_MEASUREMENT_DURATION = 0
  MaxSessions = 1
PROPERTIES
  StopEndsMeasurement
