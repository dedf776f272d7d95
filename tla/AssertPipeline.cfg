CONSTANTS
  TypeOf <- MCTypeOf
  Inputs <- MCInputs
  Reach = 4
  MaxLearnt = 4
SPECIFICATION Spec
INVARIANTS AssertionsKeepTheirModels TheoryLiteralsAreKnown StrengtheningIsOrdered SimilarConflictsAreRefuted
PROPERTY AssertReturns
CHECK_DEADLOCK FALSE
