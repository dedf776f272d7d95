-------------------------------- MODULE CdclT --------------------------------
(***************************************************************************)
(* The loop between the SAT solver and the theory solver in                *)
(* Context::Impl::CheckSatCore, with the calls of Assert and CheckSat      *)
(* around it. The SAT solver proposes a model; the theory solver refutes   *)
(* its theory literals with an explanation, whose negation is learned, or  *)
(* finds them delta-satisfiable. A model that leaves variables out is      *)
(* checked again as a full one, with an exponential backoff.               *)
(*                                                                         *)
(* The box of the context is one of a chain of regions; Conflicts[r] are   *)
(* the conjunctions of theory literals without a solution in the region r. *)
(***************************************************************************)
EXTENDS SatSolver, FiniteSets

CONSTANTS
  Formulas,         \* what may be asserted: each a set of clauses (its CNF)
  MaxRegion,        \* asserted bounds narrow the box MaxRegion times at most
  Conflicts,        \* [region -> sets of literals without a solution in it]
  Refutable,        \* those of them that the theory solver always refutes
  Similar(_, _),    \* the conjunctions that match one's pattern in a region
  DrpmMaxSize,      \* config.drpm_max_size
  MaxSurplus,       \* bound on the literals an explanation has too many
  MaxCalls          \* bound on the calls of CheckSat

Region == 0 .. MaxRegion
TheoryLiteral == {l \in Literal : VarOf(l) \in TheoryVars}
\* No conjunction has a solution in an empty box, not even the empty one.
IsEmpty(r) == {} \in Conflicts[r]

ASSUME ProblemAssumption ==
  /\ MaxRegion \in Nat
  /\ Formulas \subseteq SUBSET SUBSET Literal
  /\ Conflicts \in [Region -> SUBSET SUBSET TheoryLiteral]
  /\ Refutable \in [Region -> SUBSET SUBSET TheoryLiteral]
  /\ \A r \in Region : Refutable[r] \subseteq Conflicts[r]

\* A smaller box has no more solutions than a larger one.
ASSUME RegionsShrink ==
  \A r, s \in Region : r <= s => Conflicts[r] \subseteq Conflicts[s]

\* FindSimilar returns conjunctions that are refuted as the one given to it.
ASSUME SimilarAssumption ==
  \A r \in Region : \A E \in SUBSET TheoryLiteral :
    (\E C \in Conflicts[r] : C \subseteq E) =>
      \A P \in Similar(E, r) : /\ P \in SUBSET TheoryLiteral
                               /\ \E C \in Conflicts[r] : C \subseteq P

\* Literals the theory solver does not refute hold up to delta at a point of the
\* box; there each of the other atoms has a truth value as well.
ASSUME PointAssumption ==
  \A r \in Region : \A b \in Assignment : \A L \in SUBSET TheoryLiteral :
    (\A l \in L : Holds(b, l)) /\ (\A C \in Refutable[r] : ~(C \subseteq L)) =>
      \E a \in Assignment : /\ \A l \in L : Holds(a, l)
                            /\ \A C \in Refutable[r] : \E l \in C : ~Holds(a, l)

VARIABLES
  fullConstraints, \* DREAL_EXPERIMENTAL_SAT_MODEL_FULL_CONSTRAINTS, true in
                   \* the default build; never changes
  asserted,   \* stack_: the formulas that were asserted
  clauses,    \* the clauses of sat_solver_, the learned ones included
  region,     \* box()
  box,        \* the Boolean literals written into the box of the call
  recent,     \* recent_under_constrained_deltasat
  limit,      \* recent_under_constrained_deltasat_limit
  phase,      \* what the call does next: idle between calls
  model,      \* the model under check
  full,       \* is_full_constrained
  verdict,    \* of the last call: none, unsat or sat
  calls
vars == <<fullConstraints, asserted, clauses, region, box, recent, limit, phase,
          model, full, verdict, calls>>

Init ==
  /\ fullConstraints \in BOOLEAN
  /\ asserted = {} /\ clauses = {} /\ region = 0
  /\ box = {} /\ recent = 0 /\ limit = 2
  /\ phase = "idle" /\ model = {} /\ full = FALSE
  /\ verdict = "none" /\ calls = 0

-----------------------------------------------------------------------------
\* Assert of a formula that FilterAssertion does not turn into a bound.
AssertFormula(f) ==
  /\ phase = "idle"
  /\ ~IsEmpty(region)
  /\ asserted' = asserted \cup {f}
  /\ clauses' = clauses \cup f
  /\ verdict' = "none"
  /\ UNCHANGED <<fullConstraints, region, box, recent, limit, phase, model, full, calls>>

\* Assert of a bound, or of false: the box shrinks.
AssertBound ==
  /\ phase = "idle"
  /\ ~IsEmpty(region)
  /\ region < MaxRegion
  /\ region' = region + 1
  /\ verdict' = "none"
  /\ UNCHANGED <<fullConstraints, asserted, clauses, box, recent, limit, phase, model, full,
                 calls>>

\* The call of CheckSatCore up to its loop. The box is passed by value.
CheckSat ==
  /\ phase = "idle"
  /\ calls < MaxCalls
  /\ calls' = calls + 1
  /\ box' = {}
  /\ verdict' = IF IsEmpty(region) THEN "unsat"
                ELSE IF asserted = {} THEN "sat" ELSE "none"
  /\ phase' = IF verdict' = "none" THEN "sat" ELSE "idle"
  /\ UNCHANGED <<fullConstraints, asserted, clauses, region, recent, limit, model, full>>

-----------------------------------------------------------------------------
RequestFull == fullConstraints \/ recent > 0

\* The models that SatSolver::CheckSat may return. Any variables may have been
\* decisions; of those that cannot be flipped it does not matter which.
Proposed ==
  LET found == {a \in Assignment : Satisfies(a, clauses)}
  IN IF RequestFull
     THEN {FullModel(a, clauses) : a \in found}
     ELSE UNION {{PartialModel(a, clauses, d) : d \in SUBSET Mask(a, clauses)} :
                   a \in found}

\* Mutant: Boolean variables keep the value of the first model with them.
WrittenOnce(b, m) == b \cup {l \in BooleanModel(m) : -l \notin b}

\* The assignments of the Boolean model overwrite those of earlier models;
\* what it omits keeps its value.
Written(b, m) == {l \in b : -l \notin m} \cup BooleanModel(m)

SatSolverUnsat ==
  /\ phase = "sat"
  /\ \A a \in Assignment : ~Satisfies(a, clauses)
  /\ verdict' = "unsat"
  /\ phase' = "idle"
  /\ UNCHANGED <<fullConstraints, asserted, clauses, region, box, recent, limit, model, full,
                 calls>>

SatSolverSat ==
  /\ phase = "sat"
  /\ \E m \in Proposed :
       /\ model' = m
       /\ full' = IsFull(m, clauses)
       /\ box' = Written(box, m)
       /\ IF TheoryModel(m) = {}
          THEN verdict' = "sat" /\ phase' = "idle"
          ELSE phase' = "theory" /\ UNCHANGED verdict
  /\ UNCHANGED <<fullConstraints, asserted, clauses, region, recent, limit, calls>>

\* UNSAT from the theory solver: an explanation among the literals checked.
Explanations ==
  {E \in SUBSET TheoryModel(model) :
     \E C \in Conflicts[region] :
       C \subseteq E /\ Cardinality(E \ C) <= MaxSurplus}

\* Pattern matching may time out after any of its clauses.
PatternClauses(E) ==
  IF Cardinality(E) < DrpmMaxSize
  THEN SUBSET {Negation(P) : P \in Similar(E, region)}
  ELSE {{}}

Learned(E, P) == P \cup {Negation(E)}

OneLess == IF recent > 0 THEN recent - 1 ELSE 0

TheoryUnsat ==
  /\ phase = "theory"
  /\ \E E \in Explanations : \E P \in PatternClauses(E) :
       clauses' = clauses \cup Learned(E, P)
  /\ recent' = OneLess
  /\ phase' = "sat"
  /\ UNCHANGED <<fullConstraints, asserted, region, box, limit, model, full, verdict, calls>>

NotRefuted(literals) == \A C \in Refutable[region] : ~(C \subseteq literals)

\* delta-SAT for the literals of a full model: the box of the theory solver is
\* the answer.
TheoryDeltaSat ==
  /\ phase = "theory"
  /\ NotRefuted(TheoryModel(model))
  /\ full
  /\ verdict' = "sat"
  /\ phase' = "idle"
  /\ UNCHANGED <<fullConstraints, asserted, clauses, region, box, recent, limit, model, full,
                 calls>>

\* Mutant: full models are not asked for.
NoBackOff == UNCHANGED <<recent, limit>>

\* delta-SAT for an under-constrained model: the recursive call asks for full
\* models until as many of them as the limit says are refuted.
BackOff == recent' = limit /\ limit' = 2 * limit

UnderConstrainedDeltaSat ==
  /\ phase = "theory"
  /\ NotRefuted(TheoryModel(model))
  /\ ~full
  /\ BackOff
  /\ phase' = "sat"
  /\ UNCHANGED <<fullConstraints, asserted, clauses, region, box, model, full, verdict, calls>>

Loop ==
  \/ SatSolverUnsat \/ SatSolverSat
  \/ TheoryUnsat \/ TheoryDeltaSat \/ UnderConstrainedDeltaSat

Next ==
  \/ \E f \in Formulas : AssertFormula(f)
  \/ AssertBound \/ CheckSat \/ Loop

\* A call that has begun runs on: the thread of the caller executes it. A
\* caller need not call.
Fairness == WF_vars(Loop)
Spec == Init /\ [][Next]_vars /\ Fairness

-----------------------------------------------------------------------------
TypeOK ==
  /\ fullConstraints \in BOOLEAN
  /\ asserted \subseteq Formulas
  /\ clauses \subseteq SUBSET Literal
  /\ region \in Region
  /\ box \subseteq Literal
  /\ recent \in Nat /\ limit \in Nat \ {0}
  /\ phase \in {"idle", "sat", "theory"}
  /\ model \subseteq Literal
  /\ full \in BOOLEAN
  /\ verdict \in {"none", "unsat", "sat"}
  /\ calls \in Nat

Agrees(a, literals) == \A l \in literals : Holds(a, l)
Solves(a) == \A f \in asserted : Satisfies(a, f)
Consistent(a, conflicts) == \A C \in conflicts : ~Agrees(a, C)

(* UNSAT means that no truth assignment satisfies what was asserted without
   a conjunction of theory literals that has no solution in the box: neither
   explanations nor pattern clauses of this or an earlier call may have cut
   one off (context_impl.cc, CheckSatCore). *)
UnsatIsRight ==
  verdict = "unsat" =>
    \A a \in Assignment : ~(Solves(a) /\ Consistent(a, Conflicts[region]))

\* An under-constrained model without a theory literal: it is answered
\* delta-SAT although some of the literals left out may all be infeasible.
TheoryOmitted == ~full /\ TheoryModel(model) = {}

(* delta-SAT means that the Boolean values in the box extend to a truth
   assignment that satisfies everything asserted and whose theory literals
   the theory solver does not refute (context_impl.cc, CheckSatCore).  In a
   build with under-constrained models it means this after a theory check. *)
DeltaSatIsRight ==
  verdict = "sat" /\ (fullConstraints \/ ~TheoryOmitted) =>
    \E a \in Assignment : /\ Agrees(a, box)
                          /\ Solves(a)
                          /\ Consistent(a, Refutable[region])

(* A call ends: the backoff asks for a full model before an under-constrained
   one is proposed again, and every refuted model is excluded. *)
CallEnds == phase # "idle" ~> phase = "idle"

=============================================================================
