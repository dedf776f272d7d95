------------------------------ MODULE Literals ------------------------------
(***************************************************************************)
(* The literals a theory check is about: relations between expressions in  *)
(* drake's canonical form, their negations, and quantified formulas; what  *)
(* they say at a point, and the negation normal form of a quantified body. *)
(*                                                                         *)
(* A recursion over expressions or formulas is a recursive function on the *)
(* expressions or the quantifier-free formulas of the instance, which are  *)
(* closed under everything the check makes of them.                        *)
(***************************************************************************)
EXTENDS AssertionFilter

CONSTANTS
  Expr,      \* the expressions of the instance
  Height,    \* more than the height of the operands
  Body,      \* its quantifier-free formulas: relations and what is built of them
  Depth      \* more than the depth of the operands

-----------------------------------------------------------------------------
(* Finite sets, one element after the other *)

\* What is left of base when every x in S has made step[x][r] of the result r.
Folded(step, base, S) ==
  LET f[D \in SUBSET S] ==
        IF D = {} THEN base
        ELSE LET x == CHOOSE y \in D : TRUE IN step[x][f[D \ {x}]]
  IN  f[S]

SumOver(g)     == Folded([x \in DOMAIN g |-> [n \in Int |-> n + g[x]]], 0, DOMAIN g)
ProductOver(g) == Folded([x \in DOMAIN g |-> [n \in Int |-> n * g[x]]], 1, DOMAIN g)
Power(b, n)    == ProductOver([j \in 1 .. n |-> b])

-----------------------------------------------------------------------------
(* Expressions *)

\* c + the sum of t[e] * e, and c * the product of b^t[b].
SumOf(c, t)     == [k |-> "sum", c |-> c, t |-> t]
ProductOf(c, t) == [k |-> "prod", c |-> c, t |-> t]
Single(e, n)    == [x \in {e} |-> n]

Operands(e) ==
  CASE e.k \in {"sum", "prod"} -> DOMAIN e.t
    [] e.k = "op" -> {e.args[j] : j \in DOMAIN e.args}
    [] OTHER -> {}

Terms(e) ==
  IF e.k = "const" /\ e.lo = e.hi THEN [c |-> e.lo, t |-> [x \in {} |-> 0]]
  ELSE IF e.k = "sum" THEN [c |-> e.c, t |-> e.t]
  ELSE IF e.k = "prod" /\ e.c # 1 THEN [c |-> 0, t |-> Single(ProductOf(1, e.t), e.c)]
  ELSE [c |-> 0, t |-> Single(e, 1)]

Coefficient(s, e) == IF e \in DOMAIN s.t THEN s.t[e] ELSE 0

\* operator- of drake's Expression.
Minus(l, r) ==
  LET a == Terms(l)
      b == Terms(r)
      c == a.c - b.c
      es == {e \in DOMAIN a.t \cup DOMAIN b.t : Coefficient(a, e) # Coefficient(b, e)}
      t == [e \in es |-> Coefficient(a, e) - Coefficient(b, e)]
      e1 == CHOOSE e \in es : TRUE
  IN  IF es = {} THEN Constant(c)
      ELSE IF c = 0 /\ es = {e1} THEN
             IF t[e1] = 1 THEN e1
             ELSE IF e1.k = "prod" THEN ProductOf(t[e1], e1.t)
             ELSE ProductOf(t[e1], Single(e1, 1))
      ELSE SumOf(c, t)

VarsOf(e) ==
  LET vars[x \in Expr] == IF IsVariable(x) THEN {x.v} ELSE UNION {vars[y] : y \in Operands(x)}
  IN  vars[e]

\* The value of a node at a point; sub has the values of its operands.
ValueOf(e, p, sub) ==
  CASE e.k = "var"   -> p[e.v]
    [] e.k = "const" -> (e.lo + e.hi) \div 2
    [] e.k = "sum"   -> e.c + SumOver([x \in DOMAIN e.t |-> e.t[x] * sub[x]])
    [] e.k = "prod"  -> e.c * ProductOver([x \in DOMAIN e.t |-> Power(sub[x], e.t[x])])
    [] e.k = "op"    -> Operation(e.op, [j \in DOMAIN e.args |-> sub[e.args[j]]])

\* What a relation compares at a point, by drake's own evaluation.
ExactValue(e, p) ==
  LET value[x \in Expr] == ValueOf(x, p, [y \in Operands(x) |-> value[y]])
  IN  value[e]

-----------------------------------------------------------------------------
(* Formulas *)

\* A relation, or drake's negation of one: it keeps no negation of a negation.
Atom(f) == IF f.k = "not" THEN f.f ELSE f

\* GetRelationalOperator and ExtractExpression of RelationalFormulaEvaluator.
GetRelationalOperator(f) == IF f.k = "not" THEN NegateRelop(f.f.op) ELSE f.op
ExtractExpression(f) == Minus(Atom(f).l, Atom(f).r)
RelationVars(f) == VarsOf(Atom(f).l) \cup VarsOf(Atom(f).r)

Children(f) ==
  CASE f.k \in {"and", "or"} -> f.s
    [] f.k = "not" -> {f.f}
    [] OTHER -> {}

\* What a formula says at a point; sub has what its children say.
Says(f, p, sub) ==
  CASE f.k = "true"  -> TRUE
    [] f.k = "false" -> FALSE
    [] f.k = "rel"   -> Compare(f.op, ExactValue(f.l, p), ExactValue(f.r, p))
    [] f.k = "not"   -> ~sub[f.f]
    [] f.k = "and"   -> \A g \in f.s : sub[g]
    [] f.k = "or"    -> \E g \in f.s : sub[g]

HoldsAt(f, p) ==
  LET holds[g \in Body] == Says(g, p, [h \in Children(g) |-> holds[h]])
  IN  holds[f]

\* The points a quantifier ranges over: reals, and integers (multiples of 4).
UniversalPoints(ys) ==
  {y \in [ys -> -Infinity .. Infinity] : \A v \in ys : IsInteger(v) => y[v] % 4 = 0}

Satisfies(f, p) ==
  IF f.k = "forall" THEN \A y \in UniversalPoints(f.y) : HoldsAt(f.f, Override(p, y)) ELSE HoldsAt(f, p)

\* Nnfizer::Convert with push_negation_into_relationals.
Nnf(f, positive) ==
  LET nnf[g \in Body] ==
        [pos \in BOOLEAN |->
           CASE g.k = "not" -> nnf[g.f][~pos]
             [] g.k = "and" -> IF pos THEN AndF({nnf[h][pos] : h \in g.s}) ELSE OrF({nnf[h][pos] : h \in g.s})
             [] g.k = "or"  -> IF pos THEN OrF({nnf[h][pos] : h \in g.s}) ELSE AndF({nnf[h][pos] : h \in g.s})
             [] g.k = "rel" -> IF pos THEN g ELSE Rel(NegateRelop(g.op), g.l, g.r)
             [] OTHER -> IF pos THEN g ELSE NotF(g)]
  IN  nnf[f][positive]

\* The relations a formula is built of.
Relations(f) ==
  LET leaves[g \in Body] == IF g.k = "rel" THEN {g} ELSE UNION {leaves[h] : h \in Children(g)}
  IN  leaves[f]

LiteralVars(f) ==
  IF f.k = "forall" THEN (UNION {RelationVars(g) : g \in Relations(f.f)}) \ f.y ELSE RelationVars(f)

-----------------------------------------------------------------------------
(* The instance *)

\* A constant is a double or lies between two; a coefficient is a double and
\* an exponent a natural number; a product among the terms of a sum or the
\* bases of a product has no coefficient of its own.
IsExpression(e) ==
  /\ e.k \in {"var", "const", "sum", "prod", "op"}
  /\ e.k = "var" => e = Variable(e.v)
  /\ e.k = "const" => /\ e.lo \in Int /\ e.lo % 2 = 0
                      /\ e.hi \in {e.lo, e.lo + 2} /\ e = RealConst(e.lo, e.hi)
  /\ e.k \in {"sum", "prod"} =>
       /\ e.c \in Int /\ IsFiniteSet(DOMAIN e.t)
       /\ e.t \in [DOMAIN e.t -> IF e.k = "sum" THEN Int ELSE Nat]
       /\ \A x \in DOMAIN e.t : x.k = "prod" => x.c = 1
  /\ e.k = "sum" => e = SumOf(e.c, e.t)
  /\ e.k = "prod" => e = ProductOf(e.c, e.t)
  /\ e.k = "op" => /\ e.op \in {"abs", "min", "max", "div"}
                   /\ DOMAIN e.args = IF e.op = "abs" THEN {1} ELSE {1, 2}

IsRelation(f) ==
  /\ f.op \in {"eq", "neq", "lt", "leq", "gt", "geq"}
  /\ f = [k |-> "rel", op |-> f.op, l |-> f.l, r |-> f.r]
  /\ f.l \in Expr /\ f.r \in Expr /\ Minus(f.l, f.r) \in Expr

ASSUME ExprAssumption ==
  IsFiniteSet(Expr) /\ \A e \in Expr :
    /\ IsExpression(e) /\ Height[e] \in Nat
    /\ \A x \in Operands(e) : x \in Expr /\ Height[x] < Height[e]

ASSUME BodyAssumption ==
  IsFiniteSet(Body) /\ \A f \in Body :
    /\ f.k \in {"true", "false", "rel", "not", "and", "or"} /\ Depth[f] \in Nat
    /\ f.k = "rel" => IsRelation(f)
    /\ f.k \in {"and", "or"} => IsFiniteSet(f.s) /\ f = [k |-> f.k, s |-> f.s]
    /\ \A g \in Children(f) : g \in Body /\ Depth[g] < Depth[f]
    /\ Nnf(f, TRUE) \in Body /\ Nnf(f, FALSE) \in Body
=============================================================================
