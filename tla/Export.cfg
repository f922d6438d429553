SPECIFICATION FairSpec
CONSTANTS
  Lengths = {1, 2, 4}
  MaxClauses = 4
  MaxConflicts = 5
  BaseSolvers = {"minisat", "glucose", "mcomsps", "kissat"}
  LBDs = {1, 2, 3}
  LBDLim = 3
  LenLim = 2
  Quantiles = {1500, 2500}
  ExpLitsLim = 3
  ExpLitsMargin = 1
INVARIANTS
  EachClauseOnce
PROPERTIES
  ShortestAndOldestFirst
  GlueClausesExported
  BufferDrains
