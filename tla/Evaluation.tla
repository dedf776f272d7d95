----------------------------- MODULE Evaluation -----------------------------
(***************************************************************************)
(* What the solvers make of a literal: RelationalFormulaEvaluator judges   *)
(* it on a whole box by interval arithmetic, IbexConverter turns it into   *)
(* the constraint the contractors prune with.  Both start from             *)
(* lhs - rhs in drake's canonical form, a sum of terms with coefficients   *)
(* or a product of bases with exponents.                                   *)
(***************************************************************************)
EXTENDS Literals

Unbounded == 1000     \* stands for what a division by an interval around zero gives

-----------------------------------------------------------------------------
(* Interval arithmetic: the library's, exact up to the doubles *)

Intervals == [lo : Int, hi : Int]
Interval(l, h) == [lo |-> l, hi |-> h]
Point(c) == Interval(c, c)
Contains(iv, x) == iv.lo <= x /\ x <= iv.hi
Diam(iv) == iv.hi - iv.lo

Down(x) == x - (x % 2)
Up(x)   == x + (x % 2)
Outward(iv) == Interval(Down(iv.lo), Up(iv.hi))

Magnitude(n) == Larger(n, -n)
Least4(a, b, c, d)    == Smaller(Smaller(a, b), Smaller(c, d))
Greatest4(a, b, c, d) == Larger(Larger(a, b), Larger(c, d))

NegateI(a) == Interval(-a.hi, -a.lo)
TimesI(a, b) ==
  Interval(Least4(a.lo * b.lo, a.lo * b.hi, a.hi * b.lo, a.hi * b.hi),
           Greatest4(a.lo * b.lo, a.lo * b.hi, a.hi * b.lo, a.hi * b.hi))
SqrI(a) ==
  Interval(IF Contains(a, 0) THEN 0 ELSE Smaller(a.lo * a.lo, a.hi * a.hi), Larger(a.lo * a.lo, a.hi * a.hi))

\* c + the sum and c * the product of the intervals g[x].
SumI(c, g) ==
  Interval(c + SumOver([x \in DOMAIN g |-> g[x].lo]), c + SumOver([x \in DOMAIN g |-> g[x].hi]))
ProductI(c, g) ==
  Folded([x \in DOMAIN g |-> [iv \in Intervals |-> TimesI(iv, g[x])]], Point(c), DOMAIN g)
PowI(a, n) == ProductI(1, [j \in 1 .. n |-> a])

\* The largest and the smallest quotient of two bounds, rounded outwards; a
\* number divided by another that is not zero does not grow.
QuotientDown(a, b) == -Quotient(-a, b)
DivI(a, b) ==
  IF Contains(b, 0)
  THEN LET m == Larger(Unbounded, Larger(Magnitude(a.lo), Magnitude(a.hi))) IN Interval(-m, m)
  ELSE Interval(Least4(QuotientDown(a.lo, b.lo), QuotientDown(a.lo, b.hi), QuotientDown(a.hi, b.lo), QuotientDown(a.hi, b.hi)),
                Greatest4(Quotient(a.lo, b.lo), Quotient(a.lo, b.hi), Quotient(a.hi, b.lo), Quotient(a.hi, b.hi)))

AbsI(a) ==
  Interval(IF Contains(a, 0) THEN 0 ELSE Smaller(Magnitude(a.lo), Magnitude(a.hi)),
           Larger(Magnitude(a.lo), Magnitude(a.hi)))

LibraryI(op, x) ==
  CASE op = "abs" -> AbsI(x[1])
    [] op = "min" -> Interval(Smaller(x[1].lo, x[2].lo), Smaller(x[1].hi, x[2].hi))
    [] op = "max" -> Interval(Larger(x[1].lo, x[2].lo), Larger(x[1].hi, x[2].hi))
    [] op = "div" -> DivI(x[1], x[2])

-----------------------------------------------------------------------------
(* ExpressionEvaluator *)

\* VisitPow: the square of an interval is tighter than its product with itself.
EvaluatePow(first, n) == IF n = 2 THEN SqrI(first) ELSE PowI(first, n)

\* The interval of a node; sub has those of its operands.
EvaluateNode(e, box, sub) ==
  CASE e.k = "var"   -> box[e.v]
    [] e.k = "const" -> Interval(e.lo, e.hi)
    [] e.k = "sum"   -> Outward(SumI(e.c, [x \in DOMAIN e.t |-> TimesI(sub[x], Point(e.t[x]))]))
    [] e.k = "prod"  -> Outward(ProductI(e.c, [b \in DOMAIN e.t |-> EvaluatePow(sub[b], e.t[b])]))
    [] e.k = "op"    -> Outward(LibraryI(e.op, [j \in DOMAIN e.args |-> sub[e.args[j]]]))

Evaluate(e, box) ==
  LET value[x \in Expr] == EvaluateNode(x, box, [y \in Operands(x) |-> value[y]])
  IN  value[e]

-----------------------------------------------------------------------------
(* RelationalFormulaEvaluator *)

\* When the relation of the difference d with zero holds at every point of the
\* box, and when at none.
IsValidOn(op, d) ==
  CASE op = "eq"  -> d.lo = 0 /\ d.hi = 0
    [] op = "neq" -> d.hi < 0 \/ d.lo > 0
    [] op = "gt"  -> d.lo > 0
    [] op = "geq" -> d.lo >= 0
    [] op = "lt"  -> d.hi < 0
    [] op = "leq" -> d.hi <= 0

IsUnsatOn(op, d) ==
  CASE op = "eq"  -> ~Contains(d, 0)
    [] op = "neq" -> d.hi = 0 /\ d.lo = 0
    [] op = "gt"  -> d.hi <= 0
    [] op = "geq" -> d.hi < 0
    [] op = "lt"  -> d.lo >= 0
    [] op = "leq" -> d.lo > 0

Result(type, evaluation) == [type |-> type, evaluation |-> evaluation]

EvaluateRelational(f, box) ==
  LET op == GetRelationalOperator(f)
      d == Evaluate(ExtractExpression(f), box)
  IN  Result(IF IsValidOn(op, d) THEN "VALID" ELSE IF IsUnsatOn(op, d) THEN "UNSAT" ELSE "UNKNOWN", d)

\* What FormulaEvaluatorCell remembers of its formula.
\* A slip: a relation of two variables counts as a bound.
IsLeafRelational(f) ==
  LET g == Atom(f)
  IN  g.k = "rel" /\ (IsConst(g.l) \/ IsVariable(g.l)) /\ (IsConst(g.r) \/ IsVariable(g.r))
IsSimpleRelational(f) ==
  LET g == Atom(f)
  IN  g.k = "rel" /\ ((IsConst(g.l) /\ IsVariable(g.r)) \/ (IsVariable(g.l) /\ IsConst(g.r)))

IsNeq(f) == Atom(f).k = "rel" /\ Atom(f).op = IF f.k = "not" THEN "eq" ELSE "neq"

-----------------------------------------------------------------------------
(* IbexConverter, and what ibex makes of its trees at a point *)

\* One term of VisitAddition: a coefficient 1 is left out, -1 subtracts.
\* A slip: -1 is added.
SignedTermPlus(coeff, a) == IF coeff \in {1, -1} THEN a ELSE TimesI(Point(coeff), a)
SignedTerm(coeff, a) ==
  IF coeff = 1 THEN a ELSE IF coeff = -1 THEN NegateI(a) ELSE TimesI(Point(coeff), a)

\* The values of a node: a real constant may be an interval, and what is
\* divided by zero may be anything.
ConvertNode(e, p, sub) ==
  CASE e.k = "var"   -> Point(p[e.v])
    [] e.k = "const" -> Interval(e.lo, e.hi)
    [] e.k = "sum"   -> SumI(e.c, [x \in DOMAIN e.t |-> SignedTerm(e.t[x], sub[x])])
    [] e.k = "prod"  -> ProductI(e.c, [b \in DOMAIN e.t |-> PowI(sub[b], e.t[b])])
    [] e.k = "op"    -> LibraryI(e.op, [j \in DOMAIN e.args |-> sub[e.args[j]]])

ConvertExpression(e, p) ==
  LET value[x \in Expr] == ConvertNode(x, p, [y \in Operands(x) |-> value[y]])
  IN  value[e]

NoConstraint == [op |-> "none"]
Constraint(op, g) == [op |-> op, e |-> Minus(g.l, g.r)]

\* A disequality has no constraint; < and <= are the negations of >= and >.
Convert(f) ==
  LET g == Atom(f)
      polarity == f.k # "not"
  IN  CASE g.k # "rel" -> NoConstraint
        [] g.k = "rel" /\ g.op \in {"eq", "neq"} ->
             IF (g.op = "eq") = polarity THEN Constraint("eq", g) ELSE NoConstraint
        [] g.k = "rel" /\ g.op \in {"gt", "leq"} -> Constraint(IF (g.op = "gt") = polarity THEN "gt" ELSE "leq", g)
        [] g.k = "rel" /\ g.op \in {"geq", "lt"} -> Constraint(IF (g.op = "geq") = polarity THEN "geq" ELSE "lt", g)

\* ibex's constraints are closed: the right-hand sides are intervals.
Allows(c, p) ==
  c # NoConstraint =>
    LET d == ConvertExpression(c.e, p)
    IN  CASE c.op = "eq" -> Contains(d, 0)
          [] c.op \in {"gt", "geq"} -> d.hi >= 0
          [] c.op \in {"lt", "leq"} -> d.lo <= 0
=============================================================================
