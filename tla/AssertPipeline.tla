--------------------------- MODULE AssertPipeline ---------------------------
(***************************************************************************)
(* Context::Assert: what becomes of a formula between the script and the   *)
(* solvers.  It may be dropped, turned into a bound of the box, split,     *)
(* freed of a quantifier over a single point, refused, or normalised and   *)
(* given to the SAT solver as clauses over Boolean variables that stand    *)
(* for its predicates.  The calls Assert makes to itself are the formulas  *)
(* in todo.                                                                *)
(***************************************************************************)
EXTENDS PatternMatching

CONSTANTS
  Inputs,      \* Inputs[n]: the formulas the n-th assertion is taken from
  MaxLearnt    \* bound on the variables of the SAT solver when it learns

ScriptVars == DOMAIN TypeOf

\* A formula drake has built of variables that were declared.  The dummies are
\* the matcher's own.
IsBuilt(f) ==
  /\ IsFormula(f)
  /\ IsFiniteSet(Parts(f)) /\ Level(f, Cardinality(Parts(f))) = {}
  /\ \A x \in Parts(f) : /\ IsNode(x) /\ (x.k = "bvar" => IsBoolean(x.v))
                         /\ x.k = "forall" => \A v \in x.y : ~IsDummy(v)
  /\ FreeVars(f) \subseteq ScriptVars

ASSUME InputsAssumption ==
  Len(Inputs) \in Nat /\ \A n \in 1 .. Len(Inputs) : \A f \in Inputs[n] : IsBuilt(f)

VARIABLES
  box,         \* boxes_.last()
  stack,       \* stack_: the formulas kept, normalised
  clauses,     \* the clauses in the SAT solver, sets of numbers: n or -n
  satVars,     \* to_sym_var_ and its inverse: variable n of the SAT solver
  tseitin,     \* tseitin_variables_
  formulaOf,   \* var_to_formula_map_ and its inverse
  patterns,    \* the literals in the trie of the PredicateNormalizer
  todo,        \* the calls of Assert that are not finished
  asserted,    \* every formula the script asserted
  learned,     \* the conjunctions of literals the SAT solver was told to avoid
  halted       \* an exception left Assert

vars == <<box, stack, clauses, satVars, tseitin, formulaOf, patterns, todo, asserted, learned, halted>>

Init ==
  /\ box = [v \in ScriptVars |-> Whole]
  /\ stack = <<>>
  /\ clauses = {}
  /\ satVars = <<>>
  /\ tseitin = {}
  /\ formulaOf = <<>>
  /\ patterns = {}
  /\ todo = {}
  /\ asserted = <<>>
  /\ learned = {}
  /\ halted = FALSE

solverVars == <<stack, clauses, satVars, tseitin, formulaOf, patterns>>

\* The script asserts its next formula.
Submit(f) ==
  /\ todo = {}
  /\ ~halted
  /\ todo' = {f}
  /\ asserted' = Append(asserted, f)
  /\ UNCHANGED <<box, solverVars, learned, halted>>

Finish(f) == todo' = todo \ {f}

\* True says nothing, and nothing is added to a box that is empty.
Skip(f) ==
  /\ f = TrueF \/ IsEmptyBox(box)
  /\ Finish(f)
  /\ UNCHANGED <<box, solverVars, asserted, learned, halted>>

Refute(f) ==
  /\ f = FalseF
  /\ ~IsEmptyBox(box)
  /\ box' = EmptyBox(box)
  /\ Finish(f)
  /\ UNCHANGED <<solverVars, asserted, learned, halted>>

Split(f) ==
  /\ f.k = "and"
  /\ ~IsEmptyBox(box)
  /\ todo' = (todo \ {f}) \cup f.s
  /\ UNCHANGED <<box, solverVars, asserted, learned, halted>>

-----------------------------------------------------------------------------
(* Quantifiers *)

HasForallStep(p, x, sub) == x.k = "forall" \/ (IsConnective(x) /\ \E g \in Children(x) : sub[g])
ForallFinder == INSTANCE Recursion WITH Step <- HasForallStep
HasForall(f) == ForallFinder!Visit(0, f)

\* RejectUnsupportedForall: only a positive one, without another inside.
Unsupported(f) == IF f.k = "forall" THEN HasForall(f.f) ELSE HasForall(f)

\* The box of the universal variables: the bounds among the conjuncts of the
\* negated matrix are absorbed one by one.
AbsorbNext(p, c, ubox) == FilterAssertion(c, ubox).box
Absorption == INSTANCE Recursion WITH Step <- AbsorbNext
Absorb(cs, ubox) == Absorption!Fold(0, ubox, cs)

UniversalBox(f) ==
  Absorb({c \in GetClauses(Nnf(NotF(f.f), TRUE)) : FreeVars(c) \subseteq f.y},
         [v \in f.y |-> Whole])

Pinned(f) == LET ubox == UniversalBox(f) IN {v \in f.y : ubox[v].lo = ubox[v].hi}

SubstNext(ubox, v, f) == Subst(f, v, Constant(ubox[v].lo))
PointSubstitution == INSTANCE Recursion WITH Step <- SubstNext
SubstAll(f, vs, ubox) == PointSubstitution!Fold(ubox, f, vs)

\* A slip: the quantified formula is asserted again beside what it became.
KeepQuantified(f) ==
  IF Pinned(f) = {} THEN f ELSE AndF({f, SubstAll(f.f, Pinned(f), UniversalBox(f))})
EliminatePointUniversals(f) ==
  LET pinned == Pinned(f)
      result == SubstAll(f.f, pinned, UniversalBox(f))
  IN  IF pinned = {} THEN f
      ELSE IF pinned = f.y THEN result
      ELSE ForallF(f.y \ pinned, result)

\* The conditions under which Assert comes as far as RejectUnsupportedForall.
IsExamined(f) == ~IsEmptyBox(box) /\ f.k \notin {"true", "false", "and"}

Reject(f) ==
  /\ IsExamined(f)
  /\ Unsupported(f)
  /\ halted' = TRUE
  /\ UNCHANGED <<box, solverVars, todo, asserted, learned>>

Eliminate(f) ==
  /\ IsExamined(f)
  /\ f.k = "forall" /\ ~Unsupported(f)
  /\ EliminatePointUniversals(f) # f
  /\ todo' = (todo \ {f}) \cup {EliminatePointUniversals(f)}
  /\ UNCHANGED <<box, solverVars, asserted, learned, halted>>

IsPlain(f) == IsExamined(f) /\ ~Unsupported(f) /\ (f.k = "forall" => EliminatePointUniversals(f) = f)

-----------------------------------------------------------------------------
(* Bounds and clauses *)

Bound(f) ==
  /\ IsPlain(f)
  /\ FilterAssertion(f, box).filtered
  /\ box' = FilterAssertion(f, box).box
  /\ Finish(f)
  /\ UNCHANGED <<solverVars, asserted, learned, halted>>

\* SatSolver::MakeSatVar: the variables of the clauses that have no number get
\* the next ones.
MakeSatVar(p, v, known) == IF v \in Elements(known) THEN known ELSE Append(known, v)
SatVarMaking == INSTANCE Recursion WITH Step <- MakeSatVar
MakeSatVars(known, vs) == SatVarMaking!Fold(0, known, vs)

\* SatSolver::AddLiteral and AddClause, of an abstracted clause.
NumberOf(known, v) == CHOOSE n \in DOMAIN known : known[n] = v
Literals(known, c) ==
  {IF l.k = "not" THEN -NumberOf(known, l.f.v) ELSE NumberOf(known, l.v) :
     l \in IF c.k = "or" THEN c.s ELSE {c}}

\* SatSolver::AddFormula: the clauses of the normalised formula f, whose
\* predicates become Boolean variables.
AddFormula(n, f) ==
  LET cnf == TseitinCnf(n, f)
      known == UNION {Predicates(c) : c \in cnf}
      abstracted == {Abstract(c) : c \in cnf}
  IN  /\ tseitin' = tseitin \cup {TseitinVar(n, g) : g \in NamedParts(f)}
      /\ formulaOf' = Override(formulaOf, [v \in {PredicateVar(p) : p \in known} |-> v[2]])
      /\ satVars' = MakeSatVars(satVars, UNION {FreeVars(c) : c \in abstracted})
      /\ clauses' = clauses \cup {Literals(satVars', c) : c \in abstracted}

\* What Assert adds for a formula that is not a bound: the box has been cut
\* by it all the same, and has the variables of the eliminated if-then-else.
Keep(f) ==
  LET n == Len(asserted)
      noITE == ProcessITE(n, f)
      normalized == Normalize(noITE.result)
      cut == FilterAssertion(f, box)
  IN  /\ IsPlain(f)
      /\ ~cut.filtered
      /\ IsCnfizable(n, normalized)
      /\ \A c \in TseitinCnf(n, normalized) : IsAbstractable(c)
      /\ box' = [v \in DOMAIN box \cup noITE.vars |-> IF v \in DOMAIN box THEN cut.box[v] ELSE Whole]
      /\ patterns' = patterns \cup UNION {{p, NotF(p)} : p \in InsertedAtoms(noITE.result)}
      /\ stack' = Append(stack, normalized)
      /\ AddFormula(n, normalized)
      /\ Finish(f)
      /\ UNCHANGED <<asserted, learned, halted>>

\* A clause that came out of a quantifier without one of its variables was not
\* normalised again: PredicateAbstractor throws, after the clauses before it.
Throw(f) ==
  LET n == Len(asserted)
      normalized == Normalize(ProcessITE(n, f).result)
  IN  /\ IsPlain(f)
      /\ ~FilterAssertion(f, box).filtered
      /\ ~(IsCnfizable(n, normalized) /\ \A c \in TseitinCnf(n, normalized) : IsAbstractable(c))
      /\ halted' = TRUE
      /\ UNCHANGED <<box, solverVars, todo, asserted, learned>>

Assert(f) == \/ Skip(f) \/ Refute(f) \/ Split(f)
             \/ Reject(f) \/ Eliminate(f)
             \/ Bound(f) \/ Keep(f) \/ Throw(f)

-----------------------------------------------------------------------------
(* Learned clauses *)

\* The values the theory solver takes a variable to have: a real one may lie
\* between two doubles.
TheoryValues(v) == {n \in box[v].lo .. box[v].hi :
                      n \in -Reach .. Reach /\ (IsInteger(v) => n % 4 = 0)}

TheoryPoints(vs) == Product([v \in vs |-> IF IsBoolean(v) THEN {0, 1} ELSE TheoryValues(v)])

HasSolution(conflict) ==
  \E p \in TheoryPoints(UNION {FreeVars(f) : f \in conflict}) : \A f \in conflict : Holds(f, p)

\* Literals of a model of the SAT solver that the theory solver refutes and
\* explains, at most two of them here.
TheoryLiterals == UNION {{f, NotF(f)} : f \in {formulaOf[v] : v \in DOMAIN formulaOf}}
Explanations ==
  {E \in {{f, g} : f, g \in TheoryLiterals} :
     ~HasSolution(E) /\ \A f \in E : E = {f} \/ HasSolution({f})}

\* SatSolver::AddLearnedClauseDirect of each conflict: a literal that is only
\* known to the matcher gets its variable now.
ClauseOf(known, conflict) == UNION {Literals(known, Abstract(NotF(f))) : f \in conflict}

\* All that was asserted is in the solvers, which are asked for a model.
MayLearn == todo = {} /\ ~halted /\ learned = {} /\ Len(satVars) <= MaxLearnt

\* SatSolver::AddLearnedClausePattern and AddLearnedClauseDirect after a
\* conflict E in CheckSatCore.  The matcher may run out of time.
Learn(E) ==
  LET known == UNION {Predicates(f) : f \in UNION learned'}
  IN  /\ \E found \in {{}, FindSimilar(box, patterns, E)} : learned' = {E} \cup found
      /\ formulaOf' = Override(formulaOf, [v \in {PredicateVar(p) : p \in known} |-> v[2]])
      /\ satVars' = MakeSatVars(satVars, {PredicateVar(p) : p \in known})
      /\ clauses' = clauses \cup {ClauseOf(satVars', C) : C \in learned'}
      /\ UNCHANGED <<box, stack, tseitin, patterns, todo, asserted, halted>>

Next == \/ Len(asserted) < Len(Inputs) /\ \E f \in Inputs[Len(asserted) + 1] : Submit(f)
        \/ ~halted /\ \E f \in todo : Assert(f)
        \/ MayLearn /\ \E E \in Explanations : Learn(E)

Spec == Init /\ [][Next]_vars

-----------------------------------------------------------------------------
(* Properties *)

\* The variables made for if-then-else expressions are exactly those the box
\* has beside the script's.
IteVars == DOMAIN box \ ScriptVars

\* Where a formula holds, as a function of its free variables.
Solutions(f) == LET vs == FreeVars(f) IN [vars |-> vs, points |-> Models(f, vs, Assignments(vs))]
IsIn(env, solutions) == [v \in solutions.vars |-> env[v]] \in solutions.points

\* The variables of the SAT solver that are true at env, where meant has the
\* solutions of the predicates.  The temporary variables may be either.
TrueAt(meant, env) == {n \in DOMAIN satVars : /\ satVars[n] \notin tseitin
                                              /\ IF satVars[n] \in DOMAIN meant
                                                   THEN IsIn(env, meant[satVars[n]])
                                                   ELSE env[satVars[n]] = 1}
Temporary == {n \in DOMAIN satVars : satVars[n] \in tseitin}

\* Some temporary variables, when they are true, make the clauses true which
\* the others, true exactly when in true, do not.
Satisfiable(true) ==
  LET temporary == Temporary
      open == {c \in clauses : \A l \in c : IF l > 0 THEN l \notin true ELSE -l \in true \cup temporary}
  IN  \E ts \in SUBSET temporary :
        \A c \in open : \E l \in c : IF l > 0 THEN l \in ts ELSE -l \in temporary \ ts

\* The point p of the script's variables is one the solvers still accept, where
\* left has the solutions of the formulas in todo.
IsAccepted(meant, left, extensions, p) ==
  \E more \in extensions :
    LET env == Override(p, more)
    IN  /\ InBox(env, box)
        /\ \A solutions \in left : IsIn(env, solutions)
        /\ Satisfiable(TrueAt(meant, env))

\* The points that differ in a variable of some assertion.
Points ==
  LET mentioned == UNION {FreeVars(asserted[n]) : n \in DOMAIN asserted}
      origin == [v \in ScriptVars |-> 0]
  IN  {Override(origin, p) : p \in Assignments(mentioned)}

IsExact(f) == \A e \in Parts(f) : e.k = "const" => e.lo = e.hi

\* What the solvers are given means what the script asserted: a point of the
\* script's variables satisfies the assertions if and only if it lies in the
\* box and extends to a model of the clauses.  (A bound by a RealConstant may
\* keep the doubles around it.)  The filter, the elimination of if-then-else
\* and of point quantifiers, the normaliser, the cnfizer and the abstraction
\* (context_impl.cc:287, sat_solver.cc:73) all have to be right for it.
AssertionsKeepTheirModels ==
  LET said  == {Solutions(asserted[n]) : n \in DOMAIN asserted}
      meant == [v \in DOMAIN formulaOf |-> Solutions(formulaOf[v])]
      left  == {Solutions(f) : f \in todo}
      extensions == Assignments(IteVars)
      exact == \A n \in DOMAIN asserted : IsExact(asserted[n])
  IN  ~halted => \A p \in Points :
        LET satisfied == \A solutions \in said : IsIn(p, solutions)
        IN  IF exact THEN satisfied <=> IsAccepted(meant, left, extensions, p)
                     ELSE satisfied => IsAccepted(meant, left, extensions, p)

\* Every literal the SAT solver may decide can be given to the theory solver
\* and to the explanation matcher: its variable is one of the script's, a
\* temporary one, or stands for a normalised predicate, and such a predicate
\* has been inserted in the trie with both signs unless it came out of a
\* quantifier (predicate_normalizer.cc, sat_solver.cc:149).
HasQuantifier(f) == \E z \in Parts(f) : z.k = "forall"
TheoryLiteralsAreKnown ==
  \A n \in DOMAIN satVars :
    LET v == satVars[n]
    IN  \/ IsBoolean(v) \/ v \in tseitin
        \/ /\ v \in DOMAIN formulaOf
           /\ LET f == formulaOf[v]
              IN  f.k = "rel" => /\ f.op \in NormalKinds
                                 /\ \/ {f, NotF(f)} \subseteq patterns
                                    \/ \E m \in DOMAIN asserted : HasQuantifier(asserted[m])

\* A learned conjunction has no solution in the box, nor has any that is learned
\* because it looks the same: the renaming keeps structure, types and domains
\* and is one to one (sat_solver_interval_logic.cc:182, substitutions_map.cc:29).
SimilarConflictsAreRefuted == \A E \in learned : ~HasSolution(E)

\* A strengthened assertion implies the assertion and a weakened one is
\* implied by it, whatever negations it is under (symbolic.cc:163).
HasITE(f) == \E e \in Parts(f) : e.k = "ite"
StrengtheningIsOrdered ==
  \A n \in DOMAIN asserted :
    LET f == asserted[n]
        points == Assignments(FreeVars(f))
        HoldsAt(g) == Models(g, FreeVars(f), points)
    IN  ~HasForall(f) /\ ~HasITE(f) =>
          /\ HoldsAt(DeltaStrengthen(f, 2)) \subseteq HoldsAt(f)
          /\ HoldsAt(f) \subseteq HoldsAt(DeltaWeaken(f, 2))

\* How much work a call of Assert has before it.
WorkStep(p, x, sub) ==
  CASE x.k \in {"and", "or"} -> 1 + Sum(sub)
    [] x.k = "not" -> 1 + sub[x.f]
    [] x.k = "forall" -> 1 + Cardinality(x.y) + sub[x.f]
    [] OTHER -> 1
WorkCounter == INSTANCE Recursion WITH Step <- WorkStep
Work(fs) == Sum([f \in fs |-> WorkCounter!Visit(0, f)])

\* Assert comes to an end, although it calls itself with a formula it has just
\* made: every call has less work before it than the one it was made from
\* (context_impl.cc:300, :307).
AssertReturns == [][todo # {} /\ ~halted' => Work(todo') < Work(todo)]_vars
=============================================================================
