SPECIFICATION Spec
CONSTANTS
  NumThreads = 2
  FAppClauses = 1
  FAppPeriods = 2
  MaxPeriod = 6
  MaxImports = 4
INVARIANTS
  NoClauseLost
  UnitsKeptOneInterval
CHECK_DEADLOCK FALSE
