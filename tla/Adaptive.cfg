SPECIFICATION Spec
CONSTANTS
  NumThreads = 2
  Margin = 1
  NonDet = FALSE
  Adaptive = TRUE
  MemAccLim = 2
  AdptPrdLB = 2
  AdptPrdUB = 3
  Limits = {}
  MaxPeriod = 6
  Answer = "UNSAT"
  LastFate = 4
  Fates <- MCLoneFinder
  PrdLens = {1, 8}
  Kissat = FALSE
INVARIANTS
  PeriodLengthsAgree
  QueueStaysShort
  QueueIndexInRange
