SPECIFICATION FairSpec
CONSTANTS
  Point <- MCPoint
  Constraint <- MCConstraint
  Violates <- MCViolates
  DeltaBox <- MCDeltaBox
  Halves <- MCHalves
  SeedSamples = 2
  StackLeftBoxFirst = FALSE
INVARIANT VerdictIsJustified
PROPERTIES Terminates ImplementsBranchAndPrune
