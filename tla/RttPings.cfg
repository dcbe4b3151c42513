CONSTANTS
  PING_QUERY = 3
  MaxCopies = 2
SPECIFICATION Spec
INVARIANTS
  TypeOK
  TimedByOwnAnswer
  ReportConsistent
  FinalReportComplete
  StampsLagBehind
