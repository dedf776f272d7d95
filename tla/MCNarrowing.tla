---------------------------- MODULE MCNarrowing ----------------------------
(* One real and one integer variable, and a universal one.                  *)
EXTENDS Narrowing

X == <<"x">>
I == <<"i">>
Y == <<"y">>

MCTypeOf == [v \in {X, I, Y} |-> IF v = I THEN "integer" ELSE "continuous"]
MCDims == << X, I >>
MCStartBox == [v \in {X, I} |-> Interval(-4, 4)]

x == Variable(X)
i == Variable(I)
y == Variable(Y)
C(n) == Constant(n)
Plain(e1, e2) == [e \in {e1, e2} |-> 1]
Difference(e1, e2) == SumOf(0, [e \in {e1, e2} |-> IF e = e1 THEN 1 ELSE -1])

xi     == SumOf(0, Plain(x, i))                          \* x + i
square == ProductOf(1, Single(x, 2))                     \* x^2
both   == ProductOf(1, Plain(x, i))                      \* x * i
far    == SumOf(2, [e \in {x, i} |-> IF e = x THEN 2 ELSE -1])   \* 2 + 2x - i

\* No relation of the instance compares two constants: drake simplifies none.
Relation(op, l, r) == [k |-> "rel", op |-> op, l |-> l, r |-> r]
Opposite(fs) == {Relation(NegateRelop(f.op), f.l, f.r) : f \in fs}
All(fs) == [k |-> "and", s |-> fs]
Any(fs) == [k |-> "or", s |-> fs]

Divided == Relation("leq", Apply("div", <<i, SumOf(6, Single(x, 1))>>), C(0))
Linear == {
  Relation("leq", x, C(0)), Relation("lt", i, C(4)), Relation("eq", x, RealConst(0, 2)), Relation("eq", i, C(2)),
  Relation("leq", x, i), Relation("eq", xi, C(2)), Relation("lt", far, C(0)), Relation("eq", square, C(4)),
  Relation("leq", both, C(-4)), Relation("lt", Apply("max", <<x, i>>), C(0)), Relation("eq", Apply("abs", <<x>>), i),
  Divided, Relation("eq", Difference(square, i), C(0)) }

\* Every y in [0, 2] satisfies a body in x, i and y.
Outside == {Relation("lt", y, C(0)), Relation("gt", y, C(2))}
One   == {Relation("geq", x, y)}
Some  == {Relation("leq", xi, y), Relation("geq", i, C(4))}
Both  == {Relation("leq", y, SumOf(0, Plain(x, y))), Relation("neq", x, y)}
Bodies == {Any(Outside \cup One), Any(Outside \cup Some), Any(Outside \cup {All(Both)})}
Quantified == {[k |-> "forall", y |-> {Y}, f |-> f] : f \in Bodies}

Sum0 == Relation("lt", xi, C(0))
Not(fs) == {[k |-> "not", f |-> f] : f \in fs}
Literal == Linear \cup Not(Linear)
Ordinary == { Relation("leq", x, i), Relation("eq", xi, C(2)), Relation("eq", i, C(2)), Relation("leq", both, C(-4)) }
              \cup Not({Relation("lt", far, C(0)), Relation("lt", i, C(4))})

Checks == {<<>>} \cup {<<f>> : f \in Literal \cup Quantified}
              \cup {<<f, g>> : f \in Ordinary, g \in Literal \ {Divided}}
              \cup {<<f, g>> : f \in {Relation("leq", x, C(0)), Sum0}, g \in Quantified}

\* The formulas of the instance with their negations, and their expressions
\* down to three levels.
Compared == Linear \cup Outside \cup One \cup Some \cup Both \cup {Sum0}
Formulas ==
  Compared \cup Opposite(Compared) \cup Not(Compared)
    \cup Bodies \cup {All(Opposite(Outside \cup One)), All(Opposite(Outside \cup Some))}
    \cup {All(Both), Any(Opposite(Both)), All(Opposite(Outside) \cup {Any(Opposite(Both))})}
Depths[f \in Formulas] == IF Children(f) = {} THEN 0 ELSE 1 + Greatest({Depths[g] : g \in Children(f)})

WithOperands(es) == UNION {{e} \cup Operands(e) : e \in es}
Subexpressions(es) == WithOperands(WithOperands(WithOperands(es)))
Expressions == Subexpressions(UNION {{f.l, f.r, Minus(f.l, f.r)} : f \in Compared})
Heights[e \in Expressions] == IF Operands(e) = {} THEN 0 ELSE 1 + Greatest({Heights[a] : a \in Operands(e)})

\* A constant is given a name: TLC evaluates the definition of one once.
MCBody == Formulas
MCDepth == Depths
MCExpr == Expressions
MCHeight == Heights
MCProblems == Checks

Setting(option, wl, smear, left) ==
  [option |-> option, worklist |-> wl, smear |-> smear, stackLeft |-> left]
Plainly == Option(FALSE, FALSE, "none", FALSE, FALSE)
MCSettings == {
  Setting(Plainly, FALSE, "none", FALSE),
  Setting(Plainly, TRUE, "none", FALSE),
  Setting(Option(FALSE, FALSE, "asc", TRUE, TRUE), FALSE, "max", TRUE),
  Setting(Option(TRUE, TRUE, "desc", FALSE, FALSE), TRUE, "sumrel", FALSE) }
=============================================================================
