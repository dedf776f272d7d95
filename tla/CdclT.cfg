SPECIFICATION Spec
CONSTANTS
  NumVars = 4
  TheoryVars = {1, 2}
  TseitinVars = {4}
  Formulas <- MCFormulas
  MaxRegion = 2
  Conflicts <- MCConflicts
  Refutable <- MCRefutable
  Similar <- MCSimilar
  DrpmMaxSize = 3
  MaxSurplus = 1
  MaxCalls = 2
INVARIANTS UnsatIsRight DeltaSatIsRight
PROPERTY CallEnds
CHECK_DEADLOCK FALSE
