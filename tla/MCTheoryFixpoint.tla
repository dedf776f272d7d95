--------------------------- MODULE MCTheoryFixpoint ---------------------------
(***************************************************************************)
(* Instances of TheoryFixpoint for TLC: three variables with one-sided     *)
(* bounds.  x <= y, z <= x - 1, and a contractor that brings y down to z   *)
(* by halves and so is not idempotent.                                     *)
(***************************************************************************)
EXTENDS TheoryFixpoint

Least(a, b) == IF a <= b THEN a ELSE b
Largest(a, b) == IF a >= b THEN a ELSE b

\* v := min(v, w - n), the HC4 projection of v <= w - n.
Below(v, w, n) ==
  [b \in Box |->
     IF b = EmptyBox \/ b[w] - n < 0 THEN EmptyBox
     ELSE [b EXCEPT ![v] = Least(@, b[w] - n)]]

\* v := max(w, v / 2) if v exceeds w.
Halve(v, w) ==
  [b \in Box |->
     IF b # EmptyBox /\ b[v] > b[w] THEN [b EXCEPT ![v] = Largest(b[w], (@ + 1) \div 2)] ELSE b]

MCCtc == <<Below("x", "y", 0), Below("z", "x", 1), Halve("y", "z")>>
MCInput == <<{"x", "y"}, {"x", "z"}, {"y", "z"}>>
===============================================================================
