CONSTANTS
  Kissat = TRUE
  MaxTime = 3
SPECIFICATION Spec
INVARIANTS
  ClocksFollowCalls
  TimesAreExclusive
