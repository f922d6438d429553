SPECIFICATION FairSpec
CONSTANTS
  NumThreads = 3
  Margin = 0
  NonDet = TRUE
  Adaptive = FALSE
  MemAccLim = 2
  AdptPrdLB = 0
  AdptPrdUB = 0
  Limits = {"time"}
  MaxPeriod = 2
  Answer = "UNSAT"
  LastFate = 0
  Fates <- MCLoneFinder
  PrdLens = {}
  Kissat = FALSE
INVARIANTS
  ExactlyOnceInOrder
PROPERTIES
  ResultOnlyImproves
  Termination
