SPECIFICATION Spec
CHECK_DEADLOCK FALSE
CONSTANTS
  Rows = {r1, r2}
  MaxCrashes = 1
  MaxRuns = 3
INVARIANTS
  BootstrapIsRepeatable
  CompletedMatchesSchema
  IsolationNeverOpens
PROPERTIES
  LedgerKeepsItsHistory
