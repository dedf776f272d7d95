SPECIFICATION Spec
CONSTANTS
  Var <- MCVar
  Value <- MCValue
  Constraint <- MCConstraint
  VarsOf <- MCVarsOf
  Worker = {1, 2}
  Root <- MCRoot
  Violating <- MCViolating
  IntVar = {"y"}
  Integral <- MCIntegral
INVARIANT ExplanationRefutes
