--------------------------- MODULE MCOdeContractor ---------------------------
(***************************************************************************)
(* A state, a time and a parameter with three values each; flows that grow *)
(* and one that stands still, with and without the parameter, for a        *)
(* variable, an exact and an inexact duration; invariants over the state,  *)
(* over state and parameter, and one of another flow; bounds on single     *)
(* variables and an assertion between two.                                 *)
(***************************************************************************)
EXTENDS OdeContractor

MCValue == 0 .. 2
MCVar == {"x_0", "x_t", "time", "p_0", "p_t"}
MCParams == {<<"p_0", "p_t">>}

\* x' = 1 or x' = p up to the largest state, and x' = 0.
Least(a, b) == IF a < b THEN a ELSE b
Grow == [x \in MCValue, p \in MCValue, t \in MCValue |-> Least(2, x + t)]
GrowP == [x \in MCValue, p \in MCValue, t \in MCValue |-> Least(2, x + p * t)]
Stay == [x \in MCValue, p \in MCValue, t \in MCValue |-> x]
Of(name, fl, path, params, window, duration) ==
  [name |-> name, flow |-> fl, path |-> path, params |-> params,
   window |-> window, duration |-> duration]
MCFlows ==
  {Of("integral_p", "flow_p", GrowP, MCParams, {}, 0),
   Of("integral_p", "flow_p", GrowP, MCParams, {2}, 2),
   Of("integral", "flow", Grow, {}, {}, 0),
   Of("integral", "flow", Stay, {}, {}, 0),
   Of("integral", "flow", Grow, {}, {1, 2}, 1),
   Of("integral", "flow", Grow, {}, {0}, 0)}

\* below: x <= 1; ahead: x <= p; template: over the variable of
\* the flow and not of the integral, which is linked to nothing.
MCInvariants == {"below", "ahead", "template"}
MCFlowOf ==
  [c \in MCInvariants |-> IF c \in {"below", "template"} THEN "flow" ELSE "flow_p"]
MCBoundOf ==
  [c \in MCInvariants |->
     CASE c = "ahead" -> {"x_t", "p_t"}
       [] c = "template" -> {"x"}
       [] OTHER -> {"x_t"}]
MCAllows ==
  [c \in MCInvariants |->
     {pair \in MCValue \X MCValue : IF c = "ahead" THEN pair[1] <= pair[2] ELSE pair[1] <= 1}]

MCSlacks == {{}, {0}, {1}, {2}}

MCAlgebraic == {"start", "late", "clock", "before", "after"}
MCConstraint == MCAlgebraic \cup MCInvariants \cup {"integral", "integral_p"}
MCVarsOf ==
  [c \in MCConstraint |->
     CASE c = "start" -> {"x_0"}
       [] c = "late" -> {"time"}
       [] c = "clock" -> {"time", "x_t"}
       [] c = "before" -> {"p_0"}
       [] c = "after" -> {"p_t"}
       [] c = "integral" -> {"x_0", "x_t", "time"}
       [] c = "integral_p" -> MCVar
       [] c = "ahead" -> {"x_t", "p_t", "time"}
       [] c = "template" -> {"time"}
       [] OTHER -> {"x_t", "time"}]
MCHolds ==
  [c \in MCAlgebraic |->
     {q \in [MCVar -> MCValue] :
        CASE c = "start" -> q["x_0"] >= 1
          [] c = "late" -> q["time"] >= 1
          [] c = "clock" -> q["time"] <= 0 \/ q["x_t"] = 0
          [] c = "before" -> q["p_0"] = 0
          [] c = "after" -> q["p_t"] >= 1}]
=============================================================================
