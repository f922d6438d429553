SPECIFICATION FairSpec
CONSTANTS
  NumThreads = 2
  Margin = 0
  NonDet = FALSE
  Adaptive = FALSE
  MemAccLim = 1
  AdptPrdLB = 0
  AdptPrdUB = 0
  Limits = {}
  MaxPeriod = 1
  Answer = "SAT"
  AdjustThreads = 3
  MemUseLim = 1000
  UsedMemory = {100, 400}
INVARIANTS
  ModelIsFromSolver
  PrintedLinesAgree
  AnswerIsPrinted
PROPERTIES
  RunEnds
