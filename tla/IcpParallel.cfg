SPECIFICATION FairSpec
CONSTANTS
  Point <- MCPoint
  Constraint <- MCConstraint
  Violates <- MCViolates
  DeltaBox <- MCDeltaBox
  Halves <- MCHalves
  Jobs = 2
  PruneMayThrow = TRUE
INVARIANTS TypeOK CounterCountsBoxes UnsatIsExplained AnswerIsJudged NoWorkerOutlivesTheCall
PROPERTIES Terminates ImplementsBranchAndPrune
