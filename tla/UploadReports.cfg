CONSTANTS
  UL_STREAMS = 2
  MEASUREMENT_DURATION = 1
  MostBytes = 2
  Reported = {1}
  FirstKeys = {0, 1}
  Misread = {0, 2}
  MaxReports = 3
  MaxTorn = 1
SPECIFICATION Spec
INVARIANTS
  TypeOK
  StepsAligned
  CountedOnce
  CountedExactly
PROPERTIES
  FirstChosenOnce
