----------------------------- MODULE Narrowing -----------------------------
(***************************************************************************)
(* One theory check on real literals: TheorySolver::CheckSat builds the    *)
(* contractor and the evaluators, and IcpSeq prunes, evaluates and cuts    *)
(* boxes until one is small enough or none is left.  IcpSeq.tla has the    *)
(* loop with abstract boxes and constraints; here the boxes are products   *)
(* of intervals and every stage is the code's.                             *)
(***************************************************************************)
EXTENDS Contractors

CONSTANTS
  Problems,    \* the sequences of literals the SAT solver may hand over
  Settings,    \* the options of a run: an Option, use_worklist_fixpoint, a smear
               \* variant, stack_left_box_first
  StartBox,    \* the box of the context
  Precision    \* config.precision()

VARIABLES
  literals,    \* the assertions
  setting,
  contractor,  \* the contractors, in the order they prune
  next,        \* the literal to add, or the contractor to prune with
  worklist,    \* the contractors ContractorWorklistFixpoint has to apply again
  looping,     \* whether it has filled the worklist and now empties it
  stack,       \* the boxes to do and their branching points, the last one first
  box,         \* cs->box()
  cut,         \* cs->branching_point()
  active,      \* branching_candidates
  leftFirst,   \* explore_left_first
  solutions,   \* ghost: the points of StartBox the search must not lose
  pc,          \* "build", "pop", "prune", "evaluate", "branch" or "done"
  verdict      \* "none", "unsat" or "delta-sat"

problem  == <<literals, setting, solutions>>
fixpoint == <<next, worklist, looping>>
search   == <<stack, box, cut, active, leftFirst>>
vars == <<problem, contractor, fixpoint, search, pc, verdict>>

\* A relation of the box's variables or its negation, or a formula quantified
\* over others; the skim's universal box is one of reals.
IsLiteral(f) ==
  IF f.k = "forall"
  THEN /\ f.f \in Body /\ f.y \cap DOMAIN StartBox = {}
       /\ \A g \in Relations(f.f) : RelationVars(g) \subseteq DOMAIN StartBox \cup f.y
  ELSE f \in Body /\ f.k \in {"rel", "not"} /\ Atom(f).k = "rel" /\ RelationVars(f) \subseteq DOMAIN StartBox

ASSUME StartBoxAssumption ==
  /\ IsFiniteSet(DOMAIN StartBox)
  /\ Dims \in Seq(DOMAIN StartBox) /\ {Dims[j] : j \in DOMAIN Dims} = DOMAIN StartBox
  /\ StartBox \in BoxesOver(DOMAIN StartBox)
  /\ \A v \in DOMAIN StartBox :
       /\ StartBox[v].lo % 2 = 0 /\ StartBox[v].hi % 2 = 0
       /\ -Infinity <= StartBox[v].lo /\ StartBox[v].lo <= StartBox[v].hi /\ StartBox[v].hi <= Infinity

ASSUME PrecisionAssumption == Precision \in Nat /\ Precision >= 2

ASSUME ProblemsAssumption ==
  \A ls \in Problems : ls \in Seq({ls[n] : n \in DOMAIN ls}) /\ \A n \in DOMAIN ls : IsLiteral(ls[n])

ASSUME SettingsAssumption ==
  \A s \in Settings : s.option.prePrune =>
    \A ls \in Problems : \A n \in DOMAIN ls : ls[n].k = "forall" => \A v \in ls[n].y : ~IsInteger(v)

LiteralSet == {literals[n] : n \in DOMAIN literals}

-----------------------------------------------------------------------------
(* What a literal says at a point *)

\* A bound "x < c" or "x > c" ends at the next double (AssertionFilter), and
\* the reals before that one are given up: of such a bound the search owes
\* the doubles.
IsStrictBound(f) == IsSimpleRelational(f) /\ GetRelationalOperator(f) \in {"gt", "lt"}
IsOwed(f, p) ==
  Satisfies(f, p) /\ (f.k # "forall" /\ IsStrictBound(f) => \A v \in RelationVars(f) : p[v] % 2 = 0)

\* The points of a box where the integer variables are integers.
TypedPoints(b) == {p \in RealPoints(b) : \A v \in DOMAIN b : IsInteger(v) => p[v] % 4 = 0}

SatisfiesWithin(f, p, delta) ==
  LET op == GetRelationalOperator(f)
      d == ExactValue(ExtractExpression(f), p)
  IN  CASE op = "eq"  -> d \in -delta .. delta
        [] op = "neq" -> TRUE
        [] op = "gt"  -> d > -delta
        [] op = "geq" -> d >= -delta
        [] op = "lt"  -> d < delta
        [] op = "leq" -> d <= delta

-----------------------------------------------------------------------------
(* TheorySolver::CheckSat *)

Init ==
  /\ literals \in Problems
  /\ setting \in Settings
  /\ contractor = <<>>
  /\ next = 1
  /\ worklist = {}
  /\ looping = FALSE
  /\ stack = <<>>
  /\ box = StartBox
  /\ cut = NoDim
  /\ active = {}
  /\ leftFirst = ~setting.stackLeft
  /\ solutions = {p \in TypedPoints(StartBox) : \A f \in LiteralSet : IsOwed(f, p)}
  /\ pc = "build"
  /\ verdict = "none"

Stop(v) == pc' = "done" /\ verdict' = v

\* BuildContractor: a literal that is a bound cuts the box, the others are
\* contracted with; a bound that empties the box ends the check.
AddLiteral ==
  /\ pc = "build" /\ next <= Len(literals)
  /\ LET f == literals[next]
         r == FilterAssertion(f, box)
     IN  /\ box' = r.box
         /\ contractor' = IF r.filtered THEN contractor ELSE Append(contractor, BuildOne(f, setting.option))
         /\ IF r.filtered /\ r.box # box /\ IsEmptyBox(r.box) THEN Stop("unsat") ELSE UNCHANGED <<pc, verdict>>
  /\ next' = next + 1
  /\ UNCHANGED <<problem, worklist, looping, stack, cut, active, leftFirst>>

\* The rest of it; the search starts with the box the bounds have left.
BuildContractor ==
  /\ pc = "build" /\ next > Len(literals)
  /\ IF literals = <<>> THEN contractor' = << MakeInteger(box) >>
     ELSE \E ctcs \in Orderings(contractor, setting.option.order) :
            contractor' = Assemble(ctcs, LiteralSet, box, setting.option)
  /\ stack' = << [box |-> box, cut |-> NoDim] >>
  /\ pc' = "pop"
  /\ UNCHANGED <<problem, fixpoint, box, cut, active, leftFirst, verdict>>

-----------------------------------------------------------------------------
(* The order in which the fixpoint runs the contractors *)

\* The dimensions that a Prune sets in cs->output(), and input_to_contractors_.
Output(old, new) == {v \in DOMAIN old : new[v] # old[v]}
Readers(vs) == {n \in DOMAIN contractor : Input(contractor[n]) \cap vs # {}}

\* A pass runs every contractor; the first round of a worklist, after a cut,
\* those that read the dimension that was cut.
Round(d) == IF setting.worklist /\ d # NoDim THEN Readers({Dims[d]}) ELSE DOMAIN contractor

\* find_first and find_next; past the last contractor if there is none.
FindNext(S, n) ==
  LET later == {m \in S : m > n}
  IN  IF later = {} THEN Len(contractor) + 1 ELSE Least(later)
FindFirst(S) == FindNext(S, 0)

\* The loop goes round its worklist.
TakeNext(S) ==
  /\ next' = IF \E m \in S : m > next THEN FindNext(S, next) ELSE FindFirst(S)
  /\ worklist' = S \ {next'}

-----------------------------------------------------------------------------
(* IcpSeq::CheckSat *)

Pop ==
  /\ pc = "pop" /\ stack # <<>>
  /\ LET top == stack[Len(stack)] IN box' = top.box /\ cut' = top.cut
  /\ stack' = SubSeq(stack, 1, Len(stack) - 1)
  /\ worklist' = {} /\ looping' = FALSE
  /\ next' = FindFirst(Round(cut'))
  /\ pc' = "prune"
  /\ UNCHANGED <<problem, contractor, active, leftFirst, verdict>>

\* One contractor prunes, that of a quantified formula as often as it likes;
\* an empty box is forgotten.  The worklist gets who reads what has changed.
Prune ==
  /\ pc = "prune" /\ next <= Len(contractor)
  /\ box' \in Prunings(contractor[next], box)
  /\ \E woken \in {IF setting.worklist THEN worklist \cup Readers(Output(box, box')) ELSE {}} :
       \/ contractor[next].c = "forall" /\ next' = next /\ worklist' = woken
       \/ ~looping /\ next' = FindNext(Round(cut), next) /\ worklist' = woken
       \/ looping /\ TakeNext(woken)
  /\ pc' = IF IsEmptyBox(box') THEN "pop" ELSE "prune"
  /\ UNCHANGED <<problem, contractor, looping, stack, cut, active, leftFirst, verdict>>

\* ContractorFixpoint makes another pass or has enough: what the termination
\* condition finds too little to go on is left open, here and below.
EndPass ==
  /\ pc = "prune" /\ next > Len(contractor) /\ ~setting.worklist
  /\ next' = 1
  /\ pc' \in {"prune", "evaluate"}
  /\ UNCHANGED <<problem, contractor, worklist, looping, search, verdict>>

\* ContractorWorklistFixpoint begins its loop: it has contractors to run, and
\* the first round improved the box enough.
BeginLoop ==
  /\ pc = "prune" /\ next > Len(contractor) /\ setting.worklist
  /\ worklist # {}
  /\ next' = FindFirst(worklist) /\ worklist' = worklist \ {next'} /\ looping' = TRUE
  /\ UNCHANGED <<problem, contractor, search, pc, verdict>>

\* It returns: after the first round, also if contractors are still waiting,
\* or when the loop has run them all.  An empty box is forgotten.
EndWorklist ==
  /\ pc = "prune" /\ next > Len(contractor) /\ setting.worklist
  /\ next' = 1 /\ worklist' = {} /\ looping' = FALSE
  /\ pc' = IF IsEmptyBox(box) THEN "pop" ELSE "evaluate"
  /\ UNCHANGED <<problem, contractor, search, verdict>>

NoSolution ==
  /\ pc = "pop" /\ stack = <<>>
  /\ Stop("unsat")
  /\ UNCHANGED <<problem, contractor, fixpoint, search>>

-----------------------------------------------------------------------------
(* EvaluateBox *)

\* Whether the literal is left too uncertain by its evaluation on b.
IsWide(f, b) ==
  LET r == EvaluateRelational(f, b)
  IN  f.k # "forall" /\ r.type = "UNKNOWN" /\ Diam(r.evaluation) > Precision

\* The variables to cut for f: none for a bound, which the box has absorbed,
\* and none for a disequality.
BranchingVars(f, b) ==
  IF f.k = "forall" THEN LiteralVars(f)
  ELSE IF IsWide(f, b) /\ ~IsSimpleRelational(f) /\ ~IsNeq(f) THEN RelationVars(f) ELSE {}

IsRefuted(b) == \E f \in LiteralSet : f.k # "forall" /\ EvaluateRelational(f, b).type = "UNSAT"

\* An evaluator finds no solution in the box.
Infeasible ==
  /\ pc = "evaluate" /\ IsRefuted(box)
  /\ pc' = "pop"
  /\ UNCHANGED <<problem, contractor, fixpoint, search, verdict>>

\* The candidates; a quantified formula may be decided on the box or not.
EvaluateBox ==
  /\ pc = "evaluate" /\ ~IsRefuted(box)
  /\ \E decided \in SUBSET {f \in LiteralSet : f.k = "forall"} :
       active' = UNION {BranchingVars(f, box) : f \in LiteralSet \ decided}
  /\ IF active' = {} THEN Stop("delta-sat") ELSE pc' = "branch" /\ UNCHANGED verdict
  /\ UNCHANGED <<problem, contractor, fixpoint, stack, box, cut, leftFirst>>

\* The box is cut, or cannot be and is accepted as it is.
Branch ==
  /\ pc = "branch"
  /\ \E d \in Chosen(setting.smear, LiteralSet, box, active) :
       IF d = NoDim THEN Stop("delta-sat") /\ UNCHANGED <<stack, leftFirst>>
       ELSE LET halves == Bisect(box, Dims[d])
                half(n) == [box |-> halves[n], cut |-> d]
                first == IF leftFirst THEN 1 ELSE 2
            IN  /\ stack' = stack \o << half(3 - first), half(first) >>
                /\ leftFirst' = ~leftFirst
                /\ pc' = "pop" /\ UNCHANGED verdict
  /\ active' = {}
  /\ UNCHANGED <<problem, contractor, fixpoint, box, cut>>

Next ==
  \/ AddLiteral \/ BuildContractor
  \/ Pop \/ Prune \/ EndPass \/ BeginLoop \/ EndWorklist \/ NoSolution
  \/ Infeasible \/ EvaluateBox \/ Branch

Spec == Init /\ [][Next]_vars

-----------------------------------------------------------------------------
(* Properties *)

IsIn(b, p) == \A v \in DOMAIN b : Contains(b[v], p[v])

\* No solution is lost: while the search goes on each is in a box that is to
\* be done or in the one at hand, and a search that ends without a box had
\* none.  The bounds taken from the literals, the constraints ibex is given,
\* the contractor built of them, the verdicts of the evaluators and the cuts
\* all have to be right for it (theory_solver.cc:146, icp_seq.cc:112).
NoSolutionIsLost ==
  verdict # "delta-sat" =>
    \A p \in solutions :
      \/ \E n \in DOMAIN stack : IsIn(stack[n].box, p)
      \/ pc \in {"build", "prune", "evaluate", "branch"} /\ IsIn(box, p)

\* A delta-sat answer is one: at every point of the box every literal holds
\* up to the precision, unless there is no double left to cut at.  A bound is
\* never branched on, so this rests on the filter having cut the box by it
\* (icp.cc:65).
AnswersAreDeltaSat ==
  verdict = "delta-sat" =>
    \A f \in {g \in LiteralSet : g.k # "forall"} :
      \/ \A p \in RealPoints(box) : SatisfiesWithin(f, p, Precision)
      \/ \A v \in RelationVars(f) : ~IsBisectable(box[v])

\* Whether the integer contractor ran in the last call of the fixpoint and
\* nothing came after it.  --polytope and --acid put a contractor behind it
\* (theory_solver.cc:233); with --worklist-fixpoint a call after a cut of a
\* real variable does not run it by itself, and may return while it is on the
\* worklist (contractor_worklist_fixpoint.cc:117, 131).
RoundsLast ==
  /\ ~setting.option.polytope /\ ~setting.option.acid
  /\ setting.worklist /\ cut # NoDim => IsInteger(Dims[cut])

\* The bounds of an integer variable are integers in every box that is
\* evaluated, cut or answered after a call that ran the integer contractor
\* last: the assertions of bisect_int (box.cc:208) and the model that is
\* printed rely on it.  In a worklist that means that the contractor is woken
\* by whoever moves such a bound later in the call.
IntegerBoundsAreIntegers ==
  pc # "build" /\ RoundsLast =>
    \A v \in DOMAIN box : IsInteger(v) /\ (pc \in {"evaluate", "branch"} \/ verdict = "delta-sat") =>
      box[v].lo % 4 = 0 /\ box[v].hi % 4 = 0

\* A cut makes two boxes that are smaller in the dimension that is cut and the
\* same in the others, and leave no point out: every variable choice is sound
\* and every choice makes progress (brancher_smear.cc:229).  None of the two is
\* empty unless integer variables may have other bounds.
CutsAreProper ==
  [][pc = "branch" /\ pc' = "pop" =>
       LET children == {stack'[Len(stack')].box, stack'[Len(stack') - 1].box}
       IN  /\ \A b \in children :
                /\ ~IsEmptyBox(b) \/ ~RoundsLast
                /\ \A v \in DOMAIN box : box[v].lo <= b[v].lo /\ b[v].hi <= box[v].hi
                /\ \E v \in active : Diam(b[v]) < Diam(box[v])
           /\ \A p \in TypedPoints(box) : \E b \in children : IsIn(b, p)]_vars
=============================================================================
