SPECIFICATION CegisSpec
CONSTANTS
  MaxX = 5
  YValue <- MCY
  Others = {{1, 3, 5}, {1, 4, 5}, {1, 2, 3, 4, 5}}
  Phi <- MCPhi
  Mild <- MCMild
  Query <- MCQuery
INVARIANTS UnsatIsRight SolutionsAreKept AcceptedAloneIsValid
PROPERTY SearchEnds
