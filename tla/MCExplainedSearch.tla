-------------------------- MODULE MCExplainedSearch --------------------------
(***************************************************************************)
(* Instances of ExplainedSearch for TLC: two variables of two values and   *)
(* three assertions; the first two refute the box together with the fact   *)
(* that y is an integer, the third by itself.                              *)
(***************************************************************************)
EXTENDS ExplainedSearch

MCVar == {"x", "y"}
\* The value 1 stands for a number that is not an integer.
MCValue == 0 .. 1
MCIntegral == {0}
MCConstraint == {"cx", "cxy", "cy"}
MCVarsOf ==
  [c \in MCConstraint |->
     CASE c = "cx" -> {"x"} [] c = "cxy" -> {"x", "y"} [] c = "cy" -> {"y"}]

MCRoot == [v \in MCVar |-> MCValue]

\* cx: x = 0.  cxy: x = 1 or y is not an integer.  cy: y is not an integer.
MCViolating ==
  [c \in MCConstraint |->
     {p \in [MCVar -> MCValue] :
        CASE c = "cx" -> p["x"] # 0
          [] c = "cxy" -> p["x"] = 0 /\ p["y"] = 0
          [] c = "cy" -> p["y"] = 0}]
=============================================================================
