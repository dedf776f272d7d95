-------------------------- MODULE MCAssertPipeline --------------------------
(* Two real, one integer and one Boolean variable, two universal ones.      *)
EXTENDS AssertPipeline

X == <<"x">>
Z == <<"z">>
I == <<"i">>
B == <<"b">>
Y == <<"y">>     \* universal, real
J == <<"j">>     \* universal, integer

MCTypeOf == [v \in {X, Z, I, B} |-> IF v \in {X, Z} THEN "continuous" ELSE IF v = I THEN "integer" ELSE "boolean"]

Ops == {"eq", "neq", "lt", "leq", "gt", "geq"}
x == Variable(X)
z == Variable(Z)
i == Variable(I)
y == Variable(Y)
b == BoolVar(B)
C(n) == Constant(n)

Bounds == UNION {{Rel(op, l, c), Rel(op, c, l), NotF(Rel(op, l, c))} :
                   op \in Ops, <<l, c>> \in {<<x, C(2)>>, <<i, RealConst(0, 2)>>}}
xPos == Rel("gt", x, C(0))
iPos == Rel("gt", i, C(-2))
xi   == Rel("geq", x, i)
far  == Rel("neq", Apply("sub", <<x, i>>), C(2))

Boolean == {
  b, NotF(b), AndF({b, xPos}), OrF({b, xPos}), OrF({NotF(b), NotF(xi)}),
  NotF(AndF({b, xi})), NotF(OrF({b, far})), Iff(b, xi), Iff(AndF({b, xPos}), far),
  OrF({AndF({xi, b}), AndF({far, NotF(b)})}), AndF({iPos, OrF({xi, far})}),
  OrF({NotF(OrF({b, xi})), AndF({far, xPos})}), TrueF, FalseF }

ite1 == IfThenElse(xPos, x, C(2))
ite2 == IfThenElse(b, IfThenElse(Rel("lt", x, C(2)), C(0), x), C(4))
ite3 == IfThenElse(Rel("lt", IfThenElse(b, x, C(0)), C(2)), C(0), C(4))
Conditional == {
  Rel("lt", ite1, C(4)), NotF(Rel("eq", ite1, i)), OrF({b, Rel("geq", x, ite1)}),
  Rel("eq", ite2, x), Rel("gt", Apply("min", <<ite3, x>>), C(-2)) }

\* Quantified: the binder's bounds are the negated disjuncts.
Bind(lo, hi, f) == ForallF({Y}, OrF({Rel("lt", y, C(lo)), Rel("gt", y, C(hi)), f}))
Quantified == {
  Bind(0, 2, Rel("leq", y, x)), Bind(2, 2, Rel("leq", y, x)), Bind(0, 2, AndF({Rel("leq", y, x), b})),
  ForallF({Y, J}, OrF({NotF(Rel("eq", y, C(0))), Rel("lt", Variable(J), y), Rel("geq", Variable(J), x)})),
  ForallF({Y}, AndF({Rel("geq", Apply("max", <<y, C(4)>>), x), xPos})),
  ForallF({Y}, AndF({Rel("geq", Apply("max", <<y, C(4)>>), x), Rel("lt", x, C(2))})),
  Bind(0, 2, Rel("geq", IfThenElse(Rel("lt", y, x), x, y), x)),
  Bind(0, 0, Rel("geq", IfThenElse(b, x, y), y)),
  NotF(Bind(0, 2, Rel("leq", y, x))), OrF({b, Bind(0, 2, Rel("leq", y, x))}) }

\* Atoms of the same structure.
Small(v) == Rel("lt", Apply("abs", <<v>>), C(2))
Big(v)   == Rel("lt", C(2), Apply("abs", <<v>>))
Less(v, w) == Rel("lt", Apply("sub", <<v, w>>), C(0))
Poly(v, w) == Apply("add", <<Apply("mul", <<v, w>>), v>>)
Alike == {
  OrF({Small(x), Big(x), Small(z), Big(z)}), OrF({Small(x), Big(x), Small(i), Big(i)}),
  OrF({Less(x, z), Less(z, x), b}), OrF({Rel("lt", Poly(x, z), C(0)), Rel("lt", C(0), Poly(z, x))}) }

\* What may be asserted after each of them.
After == { NotF(xPos), Rel("eq", i, C(0)), NotF(AndF({b, xi})), Bind(2, 2, Rel("leq", y, x)) }

MCInputs == << Bounds \cup Boolean \cup Conditional \cup Quantified \cup Alike, After >>
=============================================================================
