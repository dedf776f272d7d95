-------------------------- MODULE FormulaTransforms --------------------------
(***************************************************************************)
(* The transformations an assertion goes through on its way to the SAT     *)
(* solver: negation normal form, the elimination of if-then-else, the      *)
(* normalisation of predicates, the two conversions to clauses, and the    *)
(* abstraction of predicates by Boolean variables.                         *)
(*                                                                         *)
(* A variable the code makes fresh is named by what it stands for and by   *)
(* the number of the assertion it was made for: the occurrences of one     *)
(* expression or subformula in an assertion share a name, which has all    *)
(* the definitions that the code gives to their separate variables.        *)
(***************************************************************************)
EXTENDS Formulas

-----------------------------------------------------------------------------
(* Nnfizer *)

\* The normal form of a node, and that of its negation.
NnfStep(pushIntoRelationals, x, sub) ==
  [positive \in BOOLEAN |->
     LET operands == {sub[g][positive] : g \in Children(x)}
     IN  CASE x.k = "not" -> sub[x.f][~positive]
           [] x.k \in {"and", "or"} -> IF positive <=> x.k = "and" THEN AndF(operands) ELSE OrF(operands)
           [] x.k = "rel" /\ ~positive /\ pushIntoRelationals -> Rel(NegateRelop(x.op), x.l, x.r)
           [] OTHER -> IF positive THEN x ELSE NotF(x)]
Nnfizer == INSTANCE Recursion WITH Step <- NnfStep
Nnf(f, pushIntoRelationals) == Nnfizer!Visit(pushIntoRelationals, f)[TRUE]

-----------------------------------------------------------------------------
(* IfThenElseEliminator *)

ITEVar(n, e) == <<"ITE", n, e>>

\* What the visit of a node returns, and the variables and the definitions it
\* adds to ite_variables_ and added_formulas_.  A definition is needed where
\* the conditions on its path hold: the guard of the code is their conjunction.
NoITE(x) == [result |-> x, vars |-> {}, added |-> {}]

\* Process: the visited formula with the definitions it needs.
Added(definitions) == {OrF({NotF(AndF(d.path)), d.def}) : d \in definitions}
Processed(v) == IF v.added = {} THEN v.result ELSE AndF({v.result, AndF(Added(v.added))})

\* VisitIfThenElse: the variable of e, with a definition for either branch.
VisitIfThenElse(n, e, sub) ==
  LET new == ITEVar(n, e)
      condition == sub[e.c].result
      \* What the branch b adds, where g holds.
      Under(g, b) == {[path |-> d.path \cup {g}, def |-> d.def] :
                        d \in b.added \cup {[path |-> {}, def |-> Rel("eq", Variable(new), b.result)]}}
  IN  [result |-> Variable(new),
       vars   |-> {new} \cup sub[e.c].vars \cup sub[e.a].vars \cup sub[e.b].vars,
       added  |-> sub[e.c].added \cup Under(condition, sub[e.a]) \cup Under(NotF(condition), sub[e.b])]

\* Under a quantifier the new variables are universal: the negation is
\* processed, and negated back.
VisitQuantified(f, matrix) ==
  LET eliminated == Processed([matrix EXCEPT !.result = NotF(@)])
  IN  NoITE(ForallF(f.y \cup matrix.vars, Nnf(NotF(eliminated), FALSE)))

ITEStep(n, x, sub) ==
  CASE x.k = "ite"    -> VisitIfThenElse(n, x, sub)
    [] x.k = "forall" -> VisitQuantified(x, sub[x.f])
    [] OTHER -> [result |-> Rebuild(x, [z \in Children(x) |-> sub[z].result]),
                 vars   |-> UNION {sub[z].vars : z \in Children(x)},
                 added  |-> UNION {sub[z].added : z \in Children(x)}]
IfThenElseEliminator == INSTANCE Recursion WITH Step <- ITEStep
VisitITE(n, x) == IfThenElseEliminator!Visit(n, x)
ProcessITE(n, f) == [result |-> Processed(VisitITE(n, f)), vars |-> VisitITE(n, f).vars]

-----------------------------------------------------------------------------
(* PredicateNormalizer: only =, < and <= are left outside quantifiers. *)

NormalKinds == {"eq", "lt", "leq"}

\* The parts of a formula that the Boolean operators connect.
IsConnective(f) == f.k \in {"and", "or", "not"}

NormalizeStep(p, x, sub) ==
  CASE x.k = "rel" /\ x.op \notin NormalKinds -> NotF(Rel(NegateRelop(x.op), x.l, x.r))
    [] IsConnective(x) -> Rebuild(x, sub)
    [] OTHER -> x
Normalizer == INSTANCE Recursion WITH Step <- NormalizeStep
Normalize(f) == Normalizer!Visit(0, f)

\* A slip: only the conjuncts are inserted.
TopAtoms(f) == {g \in GetClauses(f) : g.k = "rel"}

\* The predicates of a formula.
PredicatesStep(p, x, sub) ==
  CASE x.k \in {"rel", "forall"} -> {x}
    [] IsConnective(x) -> UNION {sub[g] : g \in Children(x)}
    [] OTHER -> {}
PredicatesVisitor == INSTANCE Recursion WITH Step <- PredicatesStep
Predicates(f) == PredicatesVisitor!Visit(0, f)

\* The atoms that are inserted, with their negations, in the trie of patterns.
InsertedAtoms(f) ==
  {IF p.k = "forall" \/ p.op \in NormalKinds THEN p ELSE Rel(NegateRelop(p.op), p.l, p.r) : p \in Predicates(f)}

-----------------------------------------------------------------------------
(* NaiveCnfizer: by distribution, under quantifiers only. *)

\* One literal of each clause set: the clauses of the disjunction of the cnfs.
DistributeAll(cnfs) ==
  AndF({OrF({choice[c] : c \in cnfs}) : choice \in Product([c \in cnfs |-> GetClauses(c)])})

CnfStep(p, x, sub) ==
  CASE x.k = "rel" /\ x.op = "eq"  -> AndF({Rel("geq", x.l, x.r), Rel("leq", x.l, x.r)})
    [] x.k = "rel" /\ x.op = "neq" -> OrF({Rel("gt", x.l, x.r), Rel("lt", x.l, x.r)})
    [] x.k = "and" -> AndF({sub[g] : g \in x.s})
    [] x.k = "or"  -> DistributeAll({sub[g] : g \in x.s})
    [] OTHER -> x
NaiveCnfizer == INSTANCE Recursion WITH Step <- CnfStep
NaiveCnf(f) == NaiveCnfizer!Visit(0, Nnf(f, TRUE))

-----------------------------------------------------------------------------
(* TseitinCnfizer *)

TseitinVar(n, f) == <<"tseitin", n, f>>

\* VisitForall: the quantifier goes over each clause that mentions its variables.
ForallClauses(f) ==
  {IF HaveIntersection(FreeVars(c), f.y) THEN ForallF(f.y, c) ELSE c : c \in GetClauses(NaiveCnf(f.f))}

\* Does the visit of f introduce a variable for it?
IsNamed(f) ==
  CASE f.k \in {"and", "or"} -> TRUE
    [] f.k = "not" -> ~IsAtomic(f.f)
    [] f.k = "forall" -> Cardinality(ForallClauses(f)) > 1
    [] OTHER -> FALSE

Visited(n, f) ==
  IF IsNamed(f) THEN BoolVar(TseitinVar(n, f))
  ELSE IF f.k = "forall" THEN CHOOSE c \in ForallClauses(f) : TRUE
  ELSE f

\* The subformulas that get a variable: the keys of map_.
NamedStep(p, x, sub) ==
  CASE ~IsNamed(x) -> {}
    [] IsNamed(x) /\ IsConnective(x) -> {x} \cup UNION {sub[g] : g \in Children(x)}
    [] OTHER -> {x}
NamedVisitor == INSTANCE Recursion WITH Step <- NamedStep
NamedParts(f) == NamedVisitor!Visit(0, f)

\* What the variable of f stands for: the value at that key.
Definition(n, f) ==
  CASE f.k = "and" -> AndF({Visited(n, g) : g \in f.s})
    [] f.k = "or"  -> OrF({Visited(n, g) : g \in f.s})
    [] f.k = "not" -> NotF(Visited(n, f.f))
    [] OTHER -> AndF(ForallClauses(f))

\* A slip: the definition of an inner variable is given in one direction only.
HalfDefinition(b, d) ==
  CASE d.k = "and" -> {OrF({NotF(g) : g \in d.s} \cup {b})}
    [] d.k = "or"  -> {OrF({NotF(g), b}) : g \in d.s}
    [] d.k = "not" -> {Imply(d, b)}

\* The clauses of b <=> d.
CnfizeDefinition(b, d) ==
  CASE d.k = "and" -> {OrF({NotF(b), g}) : g \in d.s} \cup {OrF({NotF(g) : g \in d.s} \cup {b})}
    [] d.k = "or"  -> {OrF({NotF(b), d})} \cup {OrF({NotF(g), b}) : g \in d.s}
    [] d.k = "not" -> {Imply(b, d), Imply(d, b)}

\* Cnfize throws for a definition that is no connective: two operands were
\* quantified formulas with the same single clause.
IsCnfizable(n, f) == \A g \in NamedParts(f) \ {f} : IsConnective(Definition(n, g))

\* Convert: the variable of the whole formula is not defined, what it stands
\* for is asserted.
TseitinCnf(n, f) ==
  IF NamedParts(f) = {} THEN {Visited(n, f)}
  ELSE GetClauses(Definition(n, f)) \cup
       UNION {CnfizeDefinition(BoolVar(TseitinVar(n, g)), Definition(n, g)) \ {TrueF} :
                g \in NamedParts(f) \ {f}}

-----------------------------------------------------------------------------
(* PredicateAbstractor *)

PredicateVar(f) == <<"b", f>>

\* Every predicate of f is known by the variable it got when it was first seen.
AbstractStep(p, x, sub) ==
  CASE x.k \in {"rel", "forall"} -> BoolVar(PredicateVar(x))
    [] IsConnective(x) -> Rebuild(x, sub)
    [] OTHER -> x
Abstractor == INSTANCE Recursion WITH Step <- AbstractStep
Abstract(f) == Abstractor!Visit(0, f)

\* VisitNotEqualTo, VisitGreaterThan and VisitGreaterThanOrEqualTo throw.
IsAbstractable(f) == \A p \in Predicates(f) : p.k = "rel" => p.op \in NormalKinds
=============================================================================
