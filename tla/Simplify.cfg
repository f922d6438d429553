SPECIFICATION Spec
CONSTANTS
  NumVars = 4
  Solvers = {"MiniSat", "Glucose", "MapleCOMSPS", "Kissat"}
  InputFormulas <- MCFormulas
  Arriving <- MCArriving
  MaxRedundant = 2
INVARIANTS
  ImportsAreSound
  ModelIsReconstructed
  LastClausePrunes
  EliminatedStayOut
