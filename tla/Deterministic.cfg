SPECIFICATION FairSpec
CONSTANTS
  NumThreads = 3
  Margin = 1
  NonDet = FALSE
  Adaptive = FALSE
  MemAccLim = 2
  AdptPrdLB = 0
  AdptPrdUB = 0
  Limits = {}
  MaxPeriod = 4
  Answer = "SAT"
  LastFate = 2
  Fates <- MCFates
  PrdLens = {}
  Kissat = TRUE
INVARIANTS
  TypeOK
  NoReadBeforeComplete
  NoOrphanWait
  ImportsAreDeterministic
  WinnerIsFirst
  SearchNotCutShort
  OverrunBounded
PROPERTIES
  ImplementsDelayedBarrier
  Termination
