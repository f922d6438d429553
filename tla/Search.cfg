SPECIFICATION Spec
CONSTANTS
  NumVars = 5
  Solvers = {"MiniSat", "Glucose", "MapleCOMSPS", "Kissat"}
  InputFormulas <- MCFormulas
  AnyVariable = FALSE
  Arriving <- MCArriving
  MaxImports = 1
  MaxReductions = 1
INVARIANTS
  TypeOK
  ClausesAreImplied
  AnswersAreRight
  PropagationIsComplete
  ReasonsStay
  WatchedAreOpen
PROPERTY
  SearchEnds
