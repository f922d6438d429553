SPECIFICATION FairSpec
CONSTANTS
  NumThreads = 3
  Margin = 1
  NonDet = FALSE
  Adaptive = FALSE
  MemAccLim = 2
  AdptPrdLB = 0
  AdptPrdUB = 0
  Limits = {"memory"}
  MaxPeriod = 5
  Answer = "SAT"
  LastFate = 2
  Fates <- MCSecondFinder
  PrdLens = {}
  Kissat = TRUE
PROPERTY Termination
CHECK_DEADLOCK FALSE
