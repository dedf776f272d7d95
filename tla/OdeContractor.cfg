SPECIFICATION OdeSpec
CONSTANTS
  Var <- MCVar
  Value <- MCValue
  Constraint <- MCConstraint
  VarsOf <- MCVarsOf
  Flows <- MCFlows
  Invariants <- MCInvariants
  FlowOf <- MCFlowOf
  BoundOf <- MCBoundOf
  Allows <- MCAllows
  Slacks <- MCSlacks
  Algebraic <- MCAlgebraic
  Holds <- MCHolds
INVARIANT ExplanationRefutesStates
PROPERTIES PruneKeepsSolutions OutputTellsChanges
