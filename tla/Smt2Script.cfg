SPECIFICATION ScriptSpec
CONSTANTS
  Name = {x, y}
  Func = {f}
  MaxVars = 3
  MaxScopes = 2
SYMMETRY Symmetry
INVARIANTS NamesAreLexical AssertionsMeanTheScript
CHECK_DEADLOCK FALSE
