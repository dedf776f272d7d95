--------------------------- MODULE AssertionFilter ---------------------------
(***************************************************************************)
(* solver/filter_assertion.cc: an assertion that only bounds one variable  *)
(* by a constant is turned into a bound of the box.  A box is a function   *)
(* from variables to intervals [lo, hi]; it is empty when an interval is.  *)
(***************************************************************************)
EXTENDS Expressions

Infinity == 2 * Reach
Whole    == [lo |-> -Infinity, hi |-> Infinity]
Nothing  == [lo |-> Infinity, hi |-> -Infinity]

IsEmptyBox(box) == \E v \in DOMAIN box : box[v].lo > box[v].hi
EmptyBox(box)   == [v \in DOMAIN box |-> Nothing]

InBox(env, box) ==
  /\ ~IsEmptyBox(box)
  /\ \A v \in DOMAIN box : ~IsBoolean(v) => env[v] \in box[v].lo .. box[v].hi

\* std::nextafter: the neighbouring double.
NextUp(v)   == v + 2
NextDown(v) == v - 2

Kept(box)          == [filtered |-> FALSE, box |-> box]
Filtered(box)      == [filtered |-> TRUE, box |-> box]
KeptToo(r)         == [r EXCEPT !.filtered = FALSE]

\* The interval of v cut by [l, h]; the box is emptied when nothing is left.
Narrow(box, v, l, h) ==
  LET lo == Larger(box[v].lo, l)
      hi == Smaller(box[v].hi, h)
  IN  IF lo > hi THEN EmptyBox(box) ELSE [box EXCEPT ![v] = [lo |-> lo, hi |-> hi]]

UpdateBoundsViaEquality(v, l, h, box) == Filtered(Narrow(box, v, l, h))
UpdateLowerBound(v, l, box) == Filtered(Narrow(box, v, l, Infinity))
UpdateUpperBound(v, h, box) == Filtered(Narrow(box, v, -Infinity, h))

\* A strict bound moves to the next double for a real variable; for an
\* integer one the box takes the bound as it is and the constraint is kept.
UpdateStrictLowerBound(v, l, box) ==
  IF IsInteger(v) THEN KeptToo(UpdateLowerBound(v, l, box)) ELSE UpdateLowerBound(v, NextUp(l), box)

UpdateStrictUpperBound(v, h, box) ==
  IF IsInteger(v) THEN KeptToo(UpdateUpperBound(v, h, box)) ELSE UpdateUpperBound(v, NextDown(h), box)

\* VisitEqualTo
FilterEqual(f, box, positive) ==
  CASE positive /\ IsVariable(f.l) /\ IsConst(f.r) ->
         UpdateBoundsViaEquality(f.l.v, f.r.lo, f.r.hi, box)
    [] positive /\ IsVariable(f.r) /\ IsConst(f.l) ->
         UpdateBoundsViaEquality(f.r.v, f.l.lo, f.l.hi, box)
    [] OTHER -> Kept(box)

\* VisitGreaterThan: of an interval constant the end that cuts less is used.
FilterGreater(f, box, positive) ==
  CASE IsVariable(f.l) /\ IsConst(f.r) ->
         IF positive THEN UpdateStrictLowerBound(f.l.v, f.r.lo, box)
                     ELSE UpdateUpperBound(f.l.v, f.r.hi, box)
    [] IsVariable(f.r) /\ IsConst(f.l) ->
         IF positive THEN UpdateStrictUpperBound(f.r.v, f.l.hi, box)
                     ELSE UpdateLowerBound(f.r.v, f.l.lo, box)
    [] OTHER -> Kept(box)

\* VisitGreaterThanOrEqualTo
FilterGreaterOrEqual(f, box, positive) ==
  CASE IsVariable(f.l) /\ IsConst(f.r) ->
         IF positive THEN UpdateLowerBound(f.l.v, f.r.lo, box)
                     ELSE UpdateStrictUpperBound(f.l.v, f.r.hi, box)
    [] IsVariable(f.r) /\ IsConst(f.l) ->
         IF positive THEN UpdateUpperBound(f.r.v, f.l.hi, box)
                     ELSE UpdateStrictLowerBound(f.r.v, f.l.lo, box)
    [] OTHER -> Kept(box)

\* AssertionFilter::Visit: each relation is one of three or its negation.
FilterRelation(f, box, positive) ==
  CASE f.k = "rel" /\ f.op = "eq"  -> FilterEqual(f, box, positive)
    [] f.k = "rel" /\ f.op = "neq" -> FilterEqual(f, box, ~positive)
    [] f.k = "rel" /\ f.op = "gt"  -> FilterGreater(f, box, positive)
    [] f.k = "rel" /\ f.op = "leq" -> FilterGreater(f, box, ~positive)
    [] f.k = "rel" /\ f.op = "geq" -> FilterGreaterOrEqual(f, box, positive)
    [] f.k = "rel" /\ f.op = "lt"  -> FilterGreaterOrEqual(f, box, ~positive)
    [] OTHER -> Kept(box)

\* drake keeps no negation of a negation.
FilterAssertion(f, box) ==
  IF f.k = "not" THEN FilterRelation(f.f, box, FALSE) ELSE FilterRelation(f, box, TRUE)
=============================================================================
