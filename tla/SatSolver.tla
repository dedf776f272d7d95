------------------------------ MODULE SatSolver ------------------------------
(***************************************************************************)
(* What SatSolver adds to CaDiCaL: the reading of a model, which may leave *)
(* out variables whose value does not matter (get_partial_model), its      *)
(* split into the Boolean and the theory part, and learned clauses.        *)
(*                                                                         *)
(* SAT variables are numbers, as in CaDiCaL; a literal is a number or its  *)
(* negation; a clause is a set of literals.                                *)
(***************************************************************************)
EXTENDS Integers

CONSTANTS
  NumVars,       \* SAT variables 1 .. NumVars, those not yet declared included
  TheoryVars,    \* the ones predicate_abstractor_ made for an atom
  TseitinVars    \* the ones cnfizer_ introduced

SatVar == 1 .. NumVars
Literal == SatVar \cup {-v : v \in SatVar}
VarOf(l) == IF l > 0 THEN l ELSE -l
Assignment == [SatVar -> BOOLEAN]

ASSUME SatVarsAssumption ==
  /\ NumVars \in Nat
  /\ TheoryVars \subseteq SatVar
  /\ TseitinVars \subseteq SatVar \ TheoryVars

\* The user's Boolean variables.
BoolVars == SatVar \ (TheoryVars \cup TseitinVars)

Holds(a, l) == IF l > 0 THEN a[l] ELSE ~a[-l]
Satisfies(a, clauses) == \A c \in clauses : \E l \in c : Holds(a, l)

\* cadical->vars(): MakeSatVar declares the variables of the clauses.
Declared(clauses) == {VarOf(l) : l \in UNION clauses}

\* Mutant: a literal of the conjunction is dropped from the clause.
NegationWithoutOne(conjunction) ==
  {-l : l \in conjunction \ {CHOOSE l \in conjunction : TRUE}}

\* The clause that AddLearnedClauseDirect adds for a conjunction of literals.
Negation(conjunction) == {-l : l \in conjunction}

-----------------------------------------------------------------------------
\* CaDiCaL's flip: the variables of V change; flippable: every clause still
\* holds when they have.
Flip(a, V) == [v \in SatVar |-> a[v] # (v \in V)]
Flippable(a, clauses, V) == Satisfies(Flip(a, V), clauses)

\* The two loops of get_partial_model visit the variables that were not
\* decisions before the decisions, each of them in the order of their numbers.
Before(u, v, decisions) ==
  \/ u \notin decisions /\ v \in decisions
  \/ (u \in decisions <=> v \in decisions) /\ u < v

\* The variables that can be flipped alone: the mask.
Mask(a, clauses) == {v \in Declared(clauses) : Flippable(a, clauses, {v})}

\* The loops flip the variables F of the mask: a variable is among them when
\* it can be flipped after those that the loops visit before it.
FlippedBy(F, a, clauses, decisions) ==
  \A v \in Mask(a, clauses) :
    v \in F <=> LET earlier == {u \in F : Before(u, v, decisions)}
                IN Flippable(a, clauses, earlier \cup {v})

Flipped(a, clauses, decisions) ==
  CHOOSE F \in SUBSET Mask(a, clauses) : FlippedBy(F, a, clauses, decisions)

-----------------------------------------------------------------------------
\* model_is: the literals kept of an assignment.
Kept(a, variables) == {IF a[v] THEN v ELSE -v : v \in variables}

\* The models CheckSat may return for an assignment that CaDiCaL found.
FullModel(a, clauses) == Kept(a, Declared(clauses))
PartialModel(a, clauses, decisions) ==
  LET F == Flipped(a, clauses, decisions)
  IN Kept(Flip(a, F), Declared(clauses) \ F)

\* model_is_fully_constrained: no literal was omitted.
IsFull(m, clauses) == Declared(clauses) = {VarOf(l) : l \in m}

TheoryModel(m) == {l \in m : VarOf(l) \in TheoryVars}
BooleanModel(m) == {l \in m : VarOf(l) \in BoolVars}

=============================================================================
