CONSTANTS
  DL_STREAMS = 2
  MEASUREMENT_DURATION = 1
  MaxReceives = 3
SPECIFICATION Spec
INVARIANTS
  TypeOK
  SlowStartIsEarly
  ReportedOnce
  StepsAddUp
  ReportsFresh
  FinalReportComplete
PROPERTIES
  ReportsGrowSlowly
