CONSTANTS
  TypeOf <- MCTypeOf
  Dims <- MCDims
  Expr <- MCExpr
  Height <- MCHeight
  Body <- MCBody
  Depth <- MCDepth
  Problems <- MCProblems
  Settings <- MCSettings
  StartBox <- MCStartBox
  Precision = 2
  Reach = 4
SPECIFICATION Spec
INVARIANTS NoSolutionIsLost AnswersAreDeltaSat IntegerBoundsAreIntegers
PROPERTIES CutsAreProper
CHECK_DEADLOCK FALSE
