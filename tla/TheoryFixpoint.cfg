SPECIFICATION FixpointSpec
CONSTANTS
  Dim = {"x", "y", "z"}
  NoDim = "none"
  Width = 5
  Ctc <- MCCtc
  Input <- MCInput
  Threshold = 3
INVARIANT QuietReturnIsTheFixpoint
PROPERTY Returns
