------------------------------ MODULE Formulas ------------------------------
(***************************************************************************)
(* What an expression and a formula mean at a point, and the helpers of    *)
(* symbolic/symbolic.cc that the rest of the solver builds on.  Each       *)
(* visitor of the code is a Step: what it makes of a node and of its       *)
(* results for the children of the node.                                   *)
(***************************************************************************)
EXTENDS Expressions

-----------------------------------------------------------------------------
(* Expressions and formulas as trees *)

Children(x) ==
  CASE x.k \in {"and", "or"} -> x.s
    [] x.k \in {"not", "forall"} -> {x.f}
    [] x.k = "rel" -> {x.l, x.r}
    [] x.k = "op"  -> {x.args[i] : i \in DOMAIN x.args}
    [] x.k = "ite" -> {x.c, x.a, x.b}
    [] OTHER -> {}

\* Level(x, n): the trees n steps below x.
Itself(x) == {x}
Below(p, n, trees) == UNION {Children(x) : x \in trees}
Descent == INSTANCE Recursion WITH Parts <- Itself, Step <- Below
Level(x, n) == Descent!Iterate(0, {x}, n)

Parts(x) ==
  LET from[n \in Nat] == LET level == Level(x, n) IN IF level = {} THEN {} ELSE level \cup from[n + 1]
  IN  from[0]

\* Sets given one by one: the functions that take each argument to a member of
\* the set that belongs to it, and the sum of a function over a set.
AddArgument(sets, v, fs) == {Override(f, [u \in {v} |-> n]) : f \in fs, n \in sets[v]}
Products == INSTANCE Recursion WITH Step <- AddArgument
Product(sets) == Products!Fold(sets, {<<>>}, DOMAIN sets)

AddTerm(f, x, sum) == sum + f[x]
Sums == INSTANCE Recursion WITH Step <- AddTerm
Sum(f) == Sums!Fold(f, 0, DOMAIN f)

-----------------------------------------------------------------------------
(* Free variables, and what a formula says at a point *)

FreeVarsStep(p, x, sub) ==
  LET below == UNION {sub[z] : z \in Children(x)}
  IN  CASE x.k \in {"var", "bvar"} -> {x.v}
        [] x.k = "forall" -> below \ x.y
        [] OTHER -> below
FreeVarsVisitor == INSTANCE Recursion WITH Step <- FreeVarsStep
FreeVars(x) == FreeVarsVisitor!Visit(0, x)

ForallF(ys, f) == [k |-> "forall", y |-> ys \cap FreeVars(f), f |-> f]

\* All the ways to give the variables in vs a value.
Assignments(vs) == Product([v \in vs |-> ValuesOf(v)])

\* The value of an expression, and whether a formula holds, as a function of
\* the point: a point gives a number to each variable in vs.
MeaningStep(vs, x, sub) ==
  [env \in [vs -> Int] |->
     CASE x.k = "var"    -> env[x.v]
       [] x.k = "const"  -> (x.lo + x.hi) \div 2
       [] x.k = "op"     -> Operation(x.op, [i \in DOMAIN x.args |-> sub[x.args[i]][env]])
       [] x.k = "ite"    -> IF sub[x.c][env] THEN sub[x.a][env] ELSE sub[x.b][env]
       [] x.k = "bvar"   -> env[x.v] = 1
       [] x.k = "true"   -> TRUE
       [] x.k = "false"  -> FALSE
       [] x.k = "rel"    -> Compare(x.op, sub[x.l][env], sub[x.r][env])
       [] x.k = "not"    -> ~sub[x.f][env]
       [] x.k = "and"    -> \A g \in x.s : sub[g][env]
       [] x.k = "or"     -> \E g \in x.s : sub[g][env]
       [] x.k = "forall" -> \A a \in Assignments(x.y) : sub[x.f][Override(env, a)]]
Meaning == INSTANCE Recursion WITH Step <- MeaningStep

\* The bound variables need a place in the point, which no value there changes.
BoundVars(x) == UNION {z.y : z \in {u \in Parts(x) : u.k = "forall"}}
MeaningOver(vs, x) ==
  LET bound == [v \in BoundVars(x) |-> 0]
      meaning == Meaning!Visit(vs \cup DOMAIN bound, x)
  IN  [env \in [vs -> Int] |-> meaning[Override(bound, env)]]
At(x, env) == MeaningOver(DOMAIN env, x)[env]
Value(e, env) == At(e, env)
Holds(f, env) == At(f, env)

\* The points where f holds, of some that give the variables vs a value.
Models(f, vs, points) == LET meaning == MeaningOver(vs, f) IN {p \in points : meaning[p]}

-----------------------------------------------------------------------------
(* Shapes *)

IsAtomic(f) ==
  CASE f.k \in {"and", "or"} -> FALSE
    [] f.k = "not" -> f.f.k \in {"bvar", "rel"}
    [] OTHER -> TRUE

IsClause(f) ==
  \/ IsAtomic(f)
  \/ f.k = "not" /\ IsAtomic(f.f)
  \/ f.k = "or" /\ \A g \in f.s : IsAtomic(g)

IsCnf(f) == \/ IsClause(f)
            \/ f.k = "and" /\ \A g \in f.s : IsClause(g)

HaveIntersection(vs, ws) == vs \cap ws # {}

\* What the constructors of drake build: the arguments of an operation are as
\* many as it takes, a relation is not one of two constants, a negation is not
\* of a negation, and the operands of a conjunction are several and none of
\* them is a conjunction or a constant.
IsTerm(x) == x.k \in {"var", "const", "op", "ite"}
IsFormula(x) == x.k \in {"bvar", "true", "false", "rel", "not", "and", "or", "forall"}

Arity == [add |-> 2, sub |-> 2, mul |-> 2, min |-> 2, max |-> 2, div |-> 2, abs |-> 1]
Relops == {"eq", "neq", "lt", "leq", "gt", "geq"}

AreOperands(kind, fs) ==
  /\ IsFiniteSet(fs) /\ Cardinality(fs) > 1
  /\ \A f \in fs : IsFormula(f) /\ f.k \notin {kind, "true", "false"}

IsNode(x) ==
  /\ IsTerm(x) \/ IsFormula(x)
  /\ x.k = "var"   => x = Variable(x.v)
  /\ x.k = "const" => x = RealConst(x.lo, x.hi) /\ {x.lo, x.hi} \subseteq Int
  /\ x.k = "op"    => /\ x = Apply(x.op, x.args) /\ x.op \in DOMAIN Arity
                      /\ x.args = [i \in 1 .. Arity[x.op] |-> x.args[i]]
                      /\ \A i \in DOMAIN x.args : IsTerm(x.args[i])
  /\ x.k = "ite"   => x = IfThenElse(x.c, x.a, x.b) /\ IsFormula(x.c) /\ IsTerm(x.a) /\ IsTerm(x.b)
  /\ x.k = "bvar"  => x = BoolVar(x.v)
  /\ x.k = "true"  => x = TrueF
  /\ x.k = "false" => x = FalseF
  /\ x.k = "rel"   => /\ x = [k |-> "rel", op |-> x.op, l |-> x.l, r |-> x.r] /\ x = Rel(x.op, x.l, x.r)
                      /\ x.op \in Relops /\ IsTerm(x.l) /\ IsTerm(x.r)
  /\ x.k = "not"   => x = [k |-> "not", f |-> x.f] /\ IsFormula(x.f) /\ x.f.k \notin {"not", "true", "false"}
  /\ x.k \in {"and", "or"} => x = [k |-> x.k, s |-> x.s] /\ AreOperands(x.k, x.s)
  /\ x.k = "forall" => x = [k |-> "forall", y |-> x.y, f |-> x.f] /\ IsFiniteSet(x.y) /\ IsFormula(x.f)

\* The tree x with sub[z] in place of each child z.
Rebuild(x, sub) ==
  CASE x.k = "op"     -> [x EXCEPT !.args = [i \in DOMAIN x.args |-> sub[x.args[i]]]]
    [] x.k = "ite"    -> IfThenElse(sub[x.c], sub[x.a], sub[x.b])
    [] x.k = "rel"    -> Rel(x.op, sub[x.l], sub[x.r])
    [] x.k = "not"    -> NotF(sub[x.f])
    [] x.k = "and"    -> AndF({sub[g] : g \in x.s})
    [] x.k = "or"     -> OrF({sub[g] : g \in x.s})
    [] x.k = "forall" -> ForallF(x.y, sub[x.f])
    [] OTHER -> x

\* The formula f with the expression e in place of the variable v.
SubstStep(p, x, sub) ==
  CASE x.k = "var" /\ x.v = p.v -> p.e
    [] x.k = "forall" /\ p.v \in x.y -> x
    [] OTHER -> Rebuild(x, sub)
Substitution == INSTANCE Recursion WITH Step <- SubstStep
Subst(f, v, e) == Substitution!Visit([v |-> v, e |-> e], f)

-----------------------------------------------------------------------------
(* DeltaStrengthen, DeltaWeaken and IsDifferentiable *)

\* A relation strengthened by d (weakened when d is negative).  The constant
\* goes to the side that keeps the form "variable relop constant".
StrengthenRel(op, l, r, d) ==
  IF op \in {"gt", "geq"}
    THEN IF IsVariable(r) THEN Rel(op, Plus(l, -d), r) ELSE Rel(op, l, Plus(r, d))
    ELSE IF IsVariable(l) THEN Rel(op, l, Plus(r, -d)) ELSE Rel(op, Plus(l, d), r)

\* A slip: the polarity is not turned round under a negation.
StrengthenUnder(operand, strong) == NotF(operand[strong])
StrengthenNegation(operand, strong) == NotF(operand[~strong])

\* The node strengthened by p, and weakened by it.
StrengthenStep(p, x, sub) ==
  [strong \in BOOLEAN |->
     LET d == IF strong THEN p ELSE -p
         operands == [z \in Children(x) |-> sub[z][strong]]
     IN  CASE x.k = "rel" /\ x.op = "eq" /\ d > 0 -> x
           [] x.k = "rel" /\ x.op = "eq" /\ d <= 0 ->
                AndF({StrengthenRel(op, operands[x.l], operands[x.r], d) : op \in {"geq", "leq"}})
           [] x.k = "rel" /\ x.op = "neq" /\ d > 0 ->
                OrF({StrengthenRel(op, operands[x.l], operands[x.r], d) : op \in {"gt", "lt"}})
           [] x.k = "rel" /\ x.op = "neq" /\ d <= 0 -> TrueF
           [] x.k = "rel" /\ x.op \notin {"eq", "neq"} -> StrengthenRel(x.op, operands[x.l], operands[x.r], d)
           [] x.k = "not" -> StrengthenNegation(sub[x.f], strong)
           [] x.k = "forall" -> x
           [] x.k \notin {"rel", "not", "forall"} -> Rebuild(x, operands)]
Strengthening == INSTANCE Recursion WITH Step <- StrengthenStep

DeltaStrengthen(f, d) == Strengthening!Visit(d, f)[TRUE]
DeltaWeaken(f, d)     == Strengthening!Visit(d, f)[FALSE]

IsDifferentiable(x) ==
  \A z \in Parts(x) : z.k \notin {"ite", "forall"} /\ (z.k = "op" => z.op \notin {"abs", "min", "max"})
=============================================================================
