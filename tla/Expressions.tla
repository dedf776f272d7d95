----------------------------- MODULE Expressions -----------------------------
(***************************************************************************)
(* Symbolic expressions and formulas as values, and their constructors.    *)
(* These are drake's (third_party): they flatten and simplify, and the     *)
(* transformations rely on that.                                           *)
(*                                                                         *)
(* Every arithmetic operation is one kind of node, an operator applied to  *)
(* its arguments, so a visitor that rebuilds the node around its visited   *)
(* arguments is one case here and twenty methods in the source.  Doubles   *)
(* are the even numbers: the odd number between two of them is a real that *)
(* no double represents, and the value of the RealConstant around it.      *)
(***************************************************************************)
EXTENDS Integers, FiniteSets, Sequences

CONSTANTS
  TypeOf,    \* the type of each variable of the script: "continuous", "integer", "boolean"
  Reach      \* how far the numbers go: every variable lies in -Reach .. Reach

ASSUME ReachAssumption == Reach \in Nat \ {0} /\ Reach % 4 = 0

IsBoolean(v) == v \in DOMAIN TypeOf /\ TypeOf[v] = "boolean"
IsInteger(v) == v \in DOMAIN TypeOf /\ TypeOf[v] = "integer"

\* The values a variable ranges over, 1 for true and 0 for false.  A variable
\* the solver makes up is real.
ValuesOf(v) ==
  IF IsBoolean(v) THEN {0, 1}
  ELSE LET grid == IF IsInteger(v) THEN 4 ELSE IF v \in DOMAIN TypeOf THEN 2 ELSE 1
       IN  {n \in -Reach .. Reach : n % grid = 0}

-----------------------------------------------------------------------------
(* Expressions *)

Variable(v)   == [k |-> "var", v |-> v]
RealConst(l, h) == [k |-> "const", lo |-> l, hi |-> h]
Constant(c)   == RealConst(c, c)
Apply(op, args) == [k |-> "op", op |-> op, args |-> args]
IfThenElse(c, a, b) == [k |-> "ite", c |-> c, a |-> a, b |-> b]

IsVariable(e) == e.k = "var"
IsConst(e)    == e.k = "const"

Smaller(a, b) == IF a < b THEN a ELSE b
Larger(a, b)  == IF a < b THEN b ELSE a

\* Rounded up to a number of the model.  drake throws where the divisor is
\* zero; the value there stands for whatever a check makes of it.
Quotient(a, b) ==
  IF b = 0 THEN 0 ELSE IF b < 0 THEN -(a \div (-b)) ELSE -((-a) \div b)

Operation(op, x) ==
  CASE op = "add" -> x[1] + x[2]
    [] op = "sub" -> x[1] - x[2]
    [] op = "mul" -> x[1] * x[2]
    [] op = "min" -> Smaller(x[1], x[2])
    [] op = "max" -> Larger(x[1], x[2])
    [] op = "abs" -> Larger(x[1], -x[1])
    [] op = "div" -> Quotient(x[1], x[2])

\* The sum and the difference with a constant: drake folds constants.
Plus(e, c) == IF IsConst(e) THEN RealConst(e.lo + c, e.hi + c)
              ELSE IF c = 0 THEN e ELSE Apply("add", <<e, Constant(c)>>)

Compare(op, a, b) ==
  CASE op = "eq"  -> a = b
    [] op = "neq" -> a # b
    [] op = "lt"  -> a < b
    [] op = "leq" -> a <= b
    [] op = "gt"  -> a > b
    [] op = "geq" -> a >= b

\* operator! of RelationalOperator.
NegateRelop(op) ==
  [eq |-> "neq", neq |-> "eq", gt |-> "leq", geq |-> "lt", lt |-> "geq", leq |-> "gt"][op]

-----------------------------------------------------------------------------
(* Formulas, built as drake builds them *)

TrueF  == [k |-> "true"]
FalseF == [k |-> "false"]
BoolVar(v) == [k |-> "bvar", v |-> v]

Rel(op, l, r) ==
  IF IsConst(l) /\ IsConst(r) /\ l.lo = l.hi /\ r.lo = r.hi
    THEN IF Compare(op, l.lo, r.lo) THEN TrueF ELSE FalseF
    ELSE [k |-> "rel", op |-> op, l |-> l, r |-> r]

NotF(f) ==
  CASE f.k = "true"  -> FalseF
    [] f.k = "false" -> TrueF
    [] f.k = "not"   -> f.f
    [] OTHER -> [k |-> "not", f |-> f]

\* make_conjunction and make_disjunction: nested operands are merged, units
\* are dropped, and one operand is the formula itself.
Nary(kind, unit, zero, fs) ==
  LET merged == (UNION {IF f.k = kind THEN f.s ELSE {f} : f \in fs}) \ {unit}
  IN  IF zero \in fs THEN zero
      ELSE IF merged = {} THEN unit
      ELSE IF Cardinality(merged) = 1 THEN CHOOSE f \in merged : TRUE
      ELSE [k |-> kind, s |-> merged]

AndF(fs) == Nary("and", TrueF, FalseF, fs)
OrF(fs)  == Nary("or", FalseF, TrueF, fs)

\* imply and iff of symbolic.cc, with their overloads on variables.
Imply(f, g) == OrF({NotF(f), g})
Iff(f, g)   == AndF({Imply(f, g), Imply(g, f)})

GetClauses(f) == IF f.k = "and" THEN f.s ELSE {f}

\* The point env where the variables of more have other values.
Override(env, more) ==
  [v \in DOMAIN env \cup DOMAIN more |-> IF v \in DOMAIN more THEN more[v] ELSE env[v]]
=============================================================================
