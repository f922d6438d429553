SPECIFICATION SpuriousSpec
CONSTANTS
  NumThreads = 2
  Margin = 0
  NonDet = FALSE
  Adaptive = FALSE
  MemAccLim = 2
  AdptPrdLB = 0
  AdptPrdUB = 0
  Limits = {}
  MaxPeriod = 3
  Answer = "SAT"
  LastFate = 1
  Fates <- MCLoneFinder
  PrdLens = {}
  Kissat = TRUE
INVARIANT NoReadBeforeComplete
