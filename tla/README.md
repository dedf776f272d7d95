# dReal4 in TLA+

A verification project for dReal4, a delta-complete SMT solver for nonlinear
real arithmetic with ODEs and exists-forall formulas. The modules follow a
problem through the solver: the command line, the options and the front ends;
what becomes of an assertion between the script and the SAT solver; the CDCL(T)
loop; the contractors and evaluators of a theory check; the sequential and the
parallel branch-and-prune; the record from which conflicts are explained; the
CEGIS loop for `forall` and the ODE contractor. The arithmetic inside IBEX and
CAPD, CaDiCaL, NLopt, libcds and drake's symbolic constructors are external: the
models say what the code in `src/` relies on and leave open everything else.

Paths below are relative to `src/src/dreal/` unless they start with `src/`.

## The system

    main ── options ──> SMT-LIB 2 / dr front end        an embedding program
                                   │                            │
                                   └───────> Context <──────────┘
                                               │  Assert: filter, ite, cnf, abstraction
                                          CDCL(T) loop <──> SatSolver (CaDiCaL)
                                               │        └─> pattern matching of conflicts
                                          TheorySolver ── builds contractors, evaluators
                                               │
                                  IcpSeq  or  IcpParallel ── boxes, one status per worker
                                               │
                    fixpoint over contractors: FwdBwd, integer, forall, ODE, ...
                                               │
                              forall: Contexts of their own for counterexamples

| Component | State | Operations | Interaction | What makes it correct |
|---|---|---|---|---|
| API and main (`api/`, `dreal_main.cc`) | argument parser, `Config` | read flags, validate, choose the front end | Context, both drivers | the strongest source of an option wins; what excludes each other answers nothing |
| SMT-LIB 2 front end (`smt2/`) | scoped name maps, names of model variables, semantic values of the parser | declare, define-fun, let, forall, assert, set-option, check-sat, get-model, minimize | calls the Context in the middle of a term (let) | a name is its innermost binder; what is asserted is what the script means; an answer is about all the input before it |
| dr front end (`dr/`) | variables, constraints, objectives | one check or minimization at the end of the file | Context | an answer is about the whole file |
| Context (`solver/context_impl.cc`) | box, assertions, model, SAT and theory solver | Assert, CheckSat, SetOption, SetInterval, Minimize, Push/Pop (throw) | owns everything below; inner Contexts are re-used by forall | verdicts, also after more assertions; assertions keep their models |
| CDCL(T) loop (`CheckSatCore`) | clauses of CaDiCaL, Boolean values written to the box, backoff counters | propose a model, refute and learn, accept, ask for a full model | SatSolver, TheorySolver, pattern matching | no model is excluded wrongly; every call ends |
| SatSolver (`solver/sat_solver*.cc`) | SAT variables of atoms, of Tseitin and of the user | AddClause, AddLearnedClause, CheckSat, partial models | CaDiCaL (external) | omitted variables are irrelevant |
| TheorySolver (`solver/theory_solver.cc`) | contractor cache, evaluators, explanation | CheckSat, BuildContractor, explanation | Icp, ContractorStatus | the explanation is refuted by the box |
| IcpSeq / IcpParallel (`solver/icp*.cc`) | stack of boxes, counter, flag, one status per worker | prune, evaluate, branch, join | thread pool, lock-free stack, per-thread contractors | no box lost, answer and explanation justified, termination |
| ContractorStatus (`contractor/contractor_status.*`) | box, output, used constraints, witnesses, inconclusive ODEs | AddUsedConstraint, AddUnsatWitness, Explanation, InplaceJoin | every contractor writes it | what is used explains what was removed |
| Contractor fixpoints (`contractor_fixpoint.cc`, `contractor_worklist_fixpoint.cc`) | worklist, old box, branching point | passes, wake-ups, termination condition | contractors, brancher | no wake-up lost; returns |
| Exists-forall (`contractor_forall.h`, `forall_formula_evaluator.cc`) | Contexts of their own | find a counterexample, prune with it, accept | inner CDCL(T) | no solution lost; accepted boxes are valid |
| ODE contractor (`contractor/odes/`) | box, slices of the enclosure | prune forwards and backwards, record | CAPD (external) | no solution lost; the record explains |
| Thread ids (`util/per_thread.h`, the thread pool) | one counter per process, a thread-local id, lazy tables | get_thread_id, GetOrCreate, the pool's destructor | all per-thread contractors | one slot per thread |
| Formula pipeline (`util/*cnfizer.cc`, `predicate_abstractor.cc`, `if_then_else_eliminator.cc`, `filter_assertion.cc`) | maps of introduced variables | bounds of the box, NNF, Tseitin, naive CNF, ite elimination, abstraction | Context, SatSolver | a point satisfies the assertion iff box and clauses accept it |
| Pattern matching (`util/predicate_normalizer.cc`, `util/pattern_matching/`) | trees of literals under their structure | insert, match, timeout | CDCL(T) loop | a match is a refuted conjunction |
| Evaluation, branching and contractors (`*_evaluator.cc`, `brancher*.cc`, `contractor/`) | contractor of the literals, branching candidates | build, prune, evaluate, cut | IcpSeq, IcpParallel, TheorySolver | no solution lost by any stage; delta-sat is one |

Hard behaviours: threads that share a stack, a counter and a flag; evidence for
UNSAT that is spread over the statuses of several workers and branches; solver
state that outlives the box it was learned in (clauses, inner Contexts, the
fixpoint's worklist); loops that end only because of a test somewhere else
(backoff, CEGIS, fixpoints); exits in the middle (exceptions in workers,
divergence of CAPD, timeouts of the matcher). `PROJECT.json` lists these hazards
at their lines, with the property that would catch each.

## Modules

| Module | Models | Extended or used by |
|---|---|---|
| `Boxes` | boxes as sets of points; what contractors, evaluators and the brancher may do | `BranchAndPrune`, `IcpSeq`, `IcpParallel` |
| `BranchAndPrune` | abstract specification: what `Icp::CheckSat` promises | refined by `IcpSeq`, `IcpParallel` |
| `IcpSeq` | `IcpSeq::CheckSat`: stack, seeds, alternating sides | `MCIcpSeq`, `IcpSeqProofs` |
| `IcpParallel` | the caller (initial prune, launch, barrier, join) and the worker loop, one step per access to shared memory | `MCIcpParallel`, `IcpParallelProofs` |
| `ContractorStatus` | the status and the closure that makes the explanation | `ExplainedSearch`, `OdeContractor` |
| `ExplainedSearch` | several workers narrowing and branching product boxes, then the join and the explanation | `MCExplainedSearch`, `ExplanationProofs` |
| `TheoryFixpoint` | both fixpoint loops along one branch of the search | `MCTheoryFixpoint`, `TheoryProofs` |
| `SatSolver` | clauses, full and partial models and their split | `CdclT` |
| `CdclT` | `CheckSatCore` with Assert and CheckSat around it | `MCCdclT`, `TheoryProofs` |
| `ForallCegis` | `ContractorForall`, `ForallFormulaEvaluator`, the counterexample refiner, their inner Contexts and the search around them | `MCForallCegis`, `NarrowingProofs` |
| `OdeContractor` | the linking of `forall_t` invariants and `contractor_ode_lohner::Prune` among algebraic contractors | `MCOdeContractor`, `ExplanationProofs` |
| `ThreadIds` | id counter, thread-local ids, pool life cycle | `IcpParallelProofs` |
| `ScopedMap`, `Smt2Script` | `ScopedUnorderedMap`; the parser's reductions and the driver | `MCSmt2Script`, `FrontEndProofs` |
| `Recursion` | recursion over trees, finite sets and numbers, with the equations of what it defines | instantiated by `Formulas`, `FormulaTransforms`, `PatternMatching`, `AssertPipeline` |
| `Expressions` | expressions and formulas as values, and drake's constructors | `Formulas`, `AssertionFilter` |
| `Formulas` | their meaning at a point, the helpers of `symbolic.cc` | `FormulaTransforms` |
| `FormulaTransforms` | NNF, if-then-else elimination, predicate normalisation, both conversions to clauses, predicate abstraction | `PatternMatching` |
| `AssertionFilter` | `filter_assertion.cc`: bounds of a variable become bounds of the box | `PatternMatching`, `Literals` |
| `PatternMatching` | the canonical order of variables, the tree of literals, the renaming | `AssertPipeline` |
| `AssertPipeline` | `Context::Assert`, one call of it after another, and what the SAT solver learns | `MCAssertPipeline`, `AssertPipelineProofs` |
| `Options` | `OptionValue`, the flags of the command line, set-option, the validators | `Session` |
| `Session` | `main`, both drivers and the Context they drive, command by command | `MCSession`, `FrontEndProofs` |
| `Literals` | `lhs - rhs` in drake's canonical form, what a literal says at a point, the negation normal form of a quantified body | `Evaluation` |
| `Evaluation` | interval evaluation, the verdict on a literal, `IbexConverter` | `Branching` |
| `Branching` | `Box::bisect`, largest-first and smear branching | `Contractors` |
| `Contractors` | the factories of `contractor.cc`, the contractor a theory check builds and the boxes its `Prune` may return | `Narrowing` |
| `Narrowing` | one theory check from the literals to the verdict | `MCNarrowing`, `NarrowingProofs` |

An MC module only gives the constants of a module their values. Definitions
preceded by "A slip" are one plausible mistake each in the definition that
follows; no specification uses them. They exist to show that a property depends
on that piece of code: with the slip in place TLC finds the property violated.

### How state and actions correspond to the code

**IcpParallel.** `global_stack`, `number_of_boxes` and `found_delta_sat` are the
shared objects of `icp_parallel.cc`; `status[w]`, `need_to_pop[w]` and `pc[w]`
are the locals of `Worker`; `cs`, `phase`, `awaited` are the calling thread. A
worker's step ends with at most one access to shared memory: `ReadFound` and
`ReadNumber` are the loop condition, `Pop`/`PopFails` the attempt on the stack,
`PruneToEmpty`/`PruneBox`/`Throw` the three outcomes of `Prune`, then `Refute`,
`Find` or `Branch` for the evaluator's answers, `Branch` increments the counter
and `PushHalf` pushes. The caller runs `Worker` itself as worker `Jobs - 1`,
then passes the barrier over the futures (`Await`, `Rethrow`) and joins.

The atomics are treated as sequentially consistent although the code uses
relaxed increments. Three facts justify this: all accesses to the counter are
read-modify-write operations or loads of one atomic, hence ordered; the
increment is sequenced before the push of the box it counts, and the push
releases what the pop acquires; and a worker that reads the counter late reads
a value it had earlier, which a schedule of the model has too.

**IcpSeq.** `cs.box` is `current_box`, which in the code is a reference into the
status. `Seed` fills the stack with up to `SeedSamples` boxes around candidate
points above the root box; `Pop`, `NoSolution`, `Prune`, `Infeasible`, `Found`
and `Branch` are the parts of the loop in order.

**ExplainedSearch.** A narrowing removes values of the variables of one
assertion only and records it; `Refute` is an evaluator's UNSAT,
`RoundToIntegers` the integer contractor, `Inconclusive` an ODE that gave up.
Any order and any worker may do any of these, so fixpoint, worklist and thread
schedules are all included. `Explanation` is the closure of
`contractor_status.cc:118-190` over shared variables, started from the witnesses.

**CdclT.** `clauses` is what CaDiCaL holds, `box` the Boolean values written by
`CheckSatCore`, `recent`/`limit` the backoff of under-constrained models,
`region` how far asserted bounds have narrowed the box. `fullConstraints` is
the build option of `version.h:11`; both builds are initial states. The theory
solver is `Conflicts`/`Refutable`: it may answer UNSAT only for a real conflict
and must for a robust one; an explanation may have up to `MaxSurplus` literals
too many. Pattern clauses may be any part of the similar conjunctions, which is
what a timeout of the matcher leaves.

**ForallCegis.** `refuted[s]` says that the SAT solver of the inner Context `s`
has learned that its query has no model; `SetInterval` moves the box but does
not take that back. `Query[s]` may contain pairs that are no counterexamples.
`Refined(y)` is what the local search of `counterexample_refiner.cc` may make of
a counterexample: any y of its box, or the one it was given.

**OdeContractor.** Boxes are product boxes over small ranges; a slice covers one
step of time. `Links` and `Accepted` are `forallt_links_to_integral` and
`RejectUnlinkedForallT`: an invariant is enforced only with an integral of its flow,
and only if it bounds end variables of that integral. The duration is a variable,
a constant, or a constant interval that holds 0. CAPD's enclosure is the exact reach
set widened by one of `Slacks`, or divergence. The order of `Prune` is kept:
parameters, time 0 or trivial flow, integration, the slices against invariants,
window and state, recording. `Reached` keeps the code's one copy of the box for all
slices: what an invariant does to a parameter in one slice stays for the next.

**AssertPipeline.** `todo` is the stack of calls of `Assert`, which calls itself for a
conjunction and for a quantifier over a point. `Skip`, `Refute`, `Split`, `Reject`,
`Eliminate`, `Bound`, `Keep` and `Throw` are its exits in order. Doubles are the even numbers: the odd number
between two of them is a real no double represents, so `std::nextafter`, strict
bounds and `RealConstant` are what they do. A formula is a tree of tagged
records, and its meaning is `Holds(f, p)`, where a Boolean variable is 0 or 1. Every visitor
of the code is an instance of `Recursion`: its Step says what the visitor makes of one
node and of its results for the children, so `NnfStep` stands for the `Visit...` methods
of `Nnfizer`. `IsNode` says which nodes drake's constructors build, and the script asserts
such formulas (`InputsAssumption`). A fresh variable is named by what it stands for and by
the assertion it was made for: two occurrences of one if-then-else expression in an
assertion share a name here, which gets the definitions that the code gives to their
two variables. `Learn` tells the SAT solver a conjunction without
solution together with what `FindSimilar` returns for it.

**Session.** One behaviour is one run. `case` is what it is given: the command line,
the files, the input as a sequence of commands. A formula is its free variables and
its satisfying points, so `CheckSat` is their intersection with the box, and a model is a
box around one of them. `Options` gives every flag its arity, words, validator and
the order in which `main` reads it; `config` is the record of `OptionValue`s. `Meant` and
`Scope` say of the commands alone what an answer at a place of the input is about: they
are the reference and read nothing the context keeps. A Variable is its id: `Minimize`
makes new ones (`ZNames`), which no formula of an input has, and two declarations
never share one (`InputAssumption`; a name may be declared again, a Variable not).

**Narrowing.** `AddLiteral` and `BuildContractor` are `BuildContractor` of
`TheorySolver::CheckSat`, literal by literal; `contractor` is the tree the factories make,
flattened as in `contractor.cc`, except that identities stay in it as steps that do nothing.
`Pop` and `NoSolution` are the loop of `icp_seq.cc`. One `Prune` is one contractor, and takes
any box `Prunings` allows: IBEX's own contractors may leave a dimension alone or narrow it to
the hull of the points their constraint allows, and the contractor of a quantified formula makes
any number of rounds of its skim and of pinning a counterexample. Both fixpoints of
`theory_solver.cc:308` decide which contractor comes next. `ContractorFixpoint` runs all of them
in each pass (`EndPass`). `ContractorWorklistFixpoint` runs in its first round all of them, or
after a cut those that read the dimension that was cut (`cut` is the branching point, kept with
each box of the stack; `Round`), collects who reads what a `Prune` has changed (`worklist`), and
then either returns, whatever is still waiting, or empties the worklist (`BeginLoop`, `looping`,
`EndWorklist`). The termination condition compares the improvement of a box with a threshold;
here each of its outcomes is possible each time, so that nothing depends on the threshold
(`TheoryFixpoint` has it as it is). A check without literals has only the integer contractor and
no fixpoint around it; the steps are the same, and a second pass of it changes nothing. `Infeasible`, `EvaluateBox` and `Branch` are
`icp.cc` and the brancher on real intervals, with interval arithmetic rounded outwards to even
numbers. `Expr` and `Body` are the expressions and quantifier-free formulas of the instance,
closed under what the check makes of them (`ExprAssumption`, `BodyAssumption`): a visitor of
the code is a recursive function on one of them.

**TheoryFixpoint.** One action per `Prune` of a contractor inside either loop;
`Branch` halves a dimension between calls and sets or does not set the branching
point, as the two search engines do.

**ThreadIds.** A call opens a pool of jobs - 1 threads, threads touch their tables
in any order and take an id at the first touch, the destructor resets the counter. The
specification is `IdsSpec`.

**Smt2Script.** The parser reduces from left to right; `constructs` is the part of
its stack the driver depends on. Formulas are sets of valuations, so that
substitution, elimination of a quantified Boolean and assertion are what they
do, not how they are printed. `means`, `env` and `intended` are the reference:
names by lexical scope, let by its term, calls by expansion. A reduction that
throws or aborts ends the script. The specification is `ScriptSpec`; `Connected`, the
variables that reach another through open terms, is a least set and not a recursion.

## Runs

| Run | What it asks | Bounds, and why they suffice |
|---|---|---|
| `icp_parallel` | counter, exit, coverage, verdicts, barrier, termination, refinement | 2 workers, 3 points, so that boxes of three overlap after a cut; two assertions that each refute one end; one point that passes the delta test and others that can be neither passed nor split; Prune may throw. Two workers already meet in every pair of shared accesses; the theorems are for any number |
| `icp_seq` | the same for one thread with seeds | 3 points, up to 2 seed boxes anywhere |
| `explained_search` | does the joined explanation refute the box | 2 workers, 2 variables with 2 values, one of them an integer, 3 assertions: two conflicts with different evidence, one only through the integrality |
| `cdclt` | verdicts and termination over two calls | 2 atoms, a user's and a Tseitin variable, 4 formulas, 2 bounds, 1 surplus literal, 2 calls: clauses outlive a call and a region, partial models omit each kind of variable |
| `forall_cegis` | solutions, UNSAT, termination, validity without other assertions | 5 values of x, 2 of y; violations above and below delta, a model of the query that is no counterexample; two other assertions, and none |
| `ode_contractor` | solutions kept, explanation (no parameter), output | 3 values for state, time and parameter; growing and constant flows, with and without parameter, both directions, three kinds of duration, one invariant over the state, one over state and parameter, one that is linked to nothing; enclosures exact or too wide by any one state |
| `fixpoint` | lost wake-ups, same fixpoint, termination | 3 dimensions of width up to 5, a cycle of contractors, one that is not idempotent |
| `thread_ids` | one slot per thread | one client, any sequence of calls with 1 to 6 jobs |
| `smt2_script` | scoping and meaning of scripts | 2 names, 3 variables, 2 nested binders, one function: each pair of binders nests and shadows |
| `assertions` | are box and clauses equivalent to the assertions; are literals known; are similar conflicts refuted; is strengthening ordered; does Assert return | two assertions: any of 69 formulas (every relation with a bound on either side, and its negation, Boolean structure, nested if-then-else, quantifiers over points and intervals, atoms of one structure), then one of four that meet the first in the box, a predicate or a bound. Values -4..4 (`Reach`), points over the variables that are mentioned (the others change nothing), learning while the SAT solver has at most `MaxLearnt` = 4 variables |
| `session` | options, conflicts, answers, models | every flag alone with arguments that its validator accepts and refuses; the flags that depend on each other; 722 scripts with pairs of set-option, others with several checks and minimizations; dr files; 2,409 cases together; 3 values per variable |
| `narrowing` | one theory check on real literals | one real and one integer variable in [-4, 4], one universal; 13 relations, their negations and 3 quantified bodies, 186 problems of at most two literals; four settings that cover the options of the contractor and the brancher, two of them with the worklist fixpoint, with and without contractors after the integer one; precision 2 |

`CHECK_DEADLOCK FALSE` is set for `cdclt` and `assertions` (a session ends when its
calls are used up), for `smt2_script` and `session` (an input ends) and for `narrowing`
(a check ends with its verdict). Elsewhere the end of a call is an
explicit stuttering step, so that any other stop is reported.

### Fairness

- `icp_parallel`: weak fairness of the caller and of each worker's steps. The pool
  has exactly `Jobs - 1` threads for `Jobs - 1` tasks, so that each task has an
  operating-system thread; steps of a worker never block on a lock.
- `icp_seq`, `cdclt`, `forall_cegis`, `fixpoint`: weak fairness of the loop's own
  steps. The code is sequential there; what the user does (Assert, the next
  CheckSat) and what the search does between two calls (Branch) has no fairness.
- The other runs check safety only. `AssertReturns` needs no fairness: it says that each
  call of `Assert` leaves less work than there was.

## Disagreements with the documentation

Every run passes: its properties are stated for what the code does. Where a doc or
a comment promises more, the property is narrower than the doc, and this is why.
For the first three TLC finds the trace as soon as the property is replaced by the doc's.

- *An accepted exists-forall box may not be valid.* With another assertion a box
  without counterexample is branched on; the inner Context has then learned that its
  query has no model and says so for every later box, since `SetInterval` does not
  undo what was learned (`forall_formula_evaluator.cc:102`, `context_impl.cc:478`).
  `src/docs/forall-semantics.md:378` promises validity. Without another assertion it
  holds: `AcceptedAloneIsValid`.
- *An ODE explanation may omit the assertion that narrowed a parameter.* Parameters
  are intersected first (`contractor_odes.cc:215`), and that is recorded only if later
  steps change something, where `src/docs/constraint-order-explanation-soundness.md:68-70`
  makes the explanation the record of what pruned. Hence `ExplanationRefutesStates`,
  for flows without parameters. Nor are the parameters in the output at that point
  (`contractor_status.h:94-95`), so `OutputTellsChanges` leaves them out, and a box
  whose CAPD step diverges is narrowed although `src/docs/contractors.md:141` says not.
- *A let inside define-fun is not inlined.* `src/docs/syntax-reference.md:29,37-38,247`
  describe a macro. The bindings of a let are asserted when they are parsed
  (`parser.yy:538`), with the parameter in them, and the body keeps the fresh variable:
  `(define-fun f ((p Bool)) Bool (let ((x p)) x))` makes `(f true)` and `(f false)` one
  variable. The same holds for a let inside `forall` whose term mentions the quantified
  variable. `AssertionsMeanTheScript` shows that this is the only way in which the
  Boolean fragment departs from the script's meaning.
- `contractor_odes.cc:402-404` says that the invariants touch only the end state, so that one
  copy of the box for all slices is the same as fresh copies. They touch the parameters
  too. What stays of it narrows later slices, but soundly: `PruneKeepsSolutions` is
  proved with the one copy.
- `icp_parallel.cc:225` says that `number_of_boxes` goes to zero when there is no more
  work. After `Prune` has thrown in one worker its box stays counted
  (`CounterCountsBoxes` includes it) and the other workers spin; the barrier that
  would rethrow is then never passed. `Terminates` is stated for the other case.
- `per_thread.h:37-40` and `src/docs/api-guide.md:209-211` allow concurrent calls on
  unrelated problems. The id counter is static: when the pool of one call is
  destroyed the counter is set back under the other, and two threads of that one
  can get one id. `ThreadIds` with two clients has this trace.
- In the under-constrained build a model whose theory literals are all omitted is
  answered delta-SAT at once (`context_impl.cc:521`). `DeltaSatIsRight` says what
  still holds then; the default build is not affected.
- `src/docs/architecture.md:172` calls the explanation a minimal subset; it is a closure
  over shared variables (`contractor_status.cc:154`) and contains more.
- `contractor_worklist_fixpoint.cc:83` describes a test of the termination condition in
  the inner loop that the code makes only in the first round.

What the models show of the code where no document says otherwise:

- `RejectUnsupportedForall` looks into formulas only: a quantifier in the condition of an
  if-then-else expression passes it (`context_impl.cc:57-103`).
- A forall split by the cnfizer is not the atom in the tree of the matcher, and a
  clause of it without quantified variable is not normalised again:
  `PredicateAbstractor` throws (`Throw` of `AssertPipeline`).
- A strict bound on a continuous variable moves to the neighbouring double and loses the
  reals in between; the points of the models are doubles and the `RealConstant`s.
- `SetInterval` with an empty interval on a variable other than the first is not seen by
  `Box::empty`, which looks at the first dimension.
- With `--worklist-fixpoint` an integer variable is evaluated, cut and answered with bounds that
  are no integers, although the integer contractor is the last in the list. After a cut of a
  real variable the first round runs only contractors that read that variable
  (`contractor_worklist_fixpoint.cc:117`), which the integer contractor does not, and line 131
  returns when the round has not improved the box enough, with the integer contractor still on
  the worklist. `Box::bisect_int` then cuts such an interval into an empty half and the rest:
  of [0.005, 1] it makes [1, 0], and `DREAL_ASSERT(lb <= mid_floor)` (`box.cc:208`) fails in a
  debug build. A delta-SAT box may hold no integer of the variable. No solution is lost by it
  (`NoSolutionIsLost` and the last half of `CutsAreProper` hold in all settings);
  `IntegerBoundsAreIntegers` and the not-empty half of `CutsAreProper` are stated for the other calls
  (`RoundsLast`). Without that condition TLC reaches each of these states. `--polytope` and
  `--acid`, which come after the integer contractor, have the same effect.
  `Narrowing` drops a box with such an empty half at its first `Prune`; `Box::empty` looks at
  the first dimension only, so the code may carry an empty half in another dimension on
  until a contractor or an evaluator meets it. What they make of an empty interval is not modelled.
- The order and choice of contractors decide the box a call of either fixpoint returns, since both stop at a
  threshold; `theory_solver.cc:216` gives up the order of the assertions because the result is the same.
- In `--forall-pre-prune` an integer variable under a quantifier is contracted against
  values that are no integers, although `contractor_ibex_forall.cc:84` calls every sampled
  point a real universal point; `Narrowing` has real quantified variables only.
- Evaluators and contractors of a forall are cached with the precision of the check
  that built them (`theory_solver.cc:320`); a later `set-option :precision` does not reach
  them, and a smaller one breaks the ordering `contractor_forall.h:78` asks for.
- `RunSmt2` and `RunDr` ignore the result of `parse_file`; `get-option` reports the text of
  the file even where the command line has overridden it; `--jobs` and
  `--random-seed` are not validated. `Session` has them as they are.
- `minimize` binds only the assertions before it; with a Boolean variable connected to an
  objective, a second connected objective or a connected forall it throws.
- For soundness of matched conflicts the renaming only has to be consistent; that it is
  one to one (`substitutions_map.cc:29`) restricts what is found.

## Theorems

All proofs are for arbitrary constants under the named assumptions of the modules
(sound contractors, a brancher whose halves cover the box, a theory solver that
refutes only conflicts); TLC evaluates each assumption on the instance it checks.

- `IcpParallelProofs`. The inductive invariant `IInv` adds to the properties where each
  worker is: what holds of its box at each program point (`LocalOK`), that
  `found_delta_sat` names a worker that stopped with an answerable box
  (`FoundOK`), and what the caller's phase says of the workers (`PhaseOK`). The
  counter alone is not inductive: a push needs to know that the worker had
  counted the box, the exit needs to know that nobody is about to push. From it:
  `CounterCorrect`, `ExplanationCorrect`, `AnswerCorrect`, `CallOutlivesWorkers`, and `Refinement`:
  every step is a step of `BranchAndPrune` or leaves its variables alone.
  `CallOutlivesWorkers` has two halves. A call that returns a verdict has no worker left. A call
  that rethrows has no verdict, rethrows what a worker's `Prune` threw, and every task whose
  result was waited for before that one is over (`ExceptionIsAWorkers`); the later ones may still
  use the stack, the counter and the statuses of the frame that is left, and nothing is
  claimed of them. The model has these states.
- `IcpSeqProofs`. The same for one thread, with `LoopOK` for the program points.
- `ExplanationProofs`, about `ExplainedSearch`. `ExplanationRefutes` is about the end, so the invariant has to
  speak of partial evidence. `Coverage`: take a set K of variables that holds every
  witness and that no recorded assertion joins to the other variables; a point
  that satisfies the recorded assertions over K can be followed, in the variables
  of K, into a box that is still open. At the end no box is open, and the closure
  gives such a K whose assertions are all in the explanation: no point satisfies
  them.
- `TheoryProofs`, about `CdclT`. `ClausesSound`: no clause, asserted, learned or from a pattern, excludes an
  assignment that solves the assertions and agrees with no conflict of the current
  region. Needs that regions only shrink (`RegionsShrink`). `DeltaSatCorrect`: while a full
  model is under check it is what some assignment that satisfies all clauses says of every
  declared variable, and the box written by it and by the models before it says no more
  (`FullIsAssignment`); so an answer is read off an assignment. Needs that literals that
  are not refuted hold at one point, where the other atoms have a value too
  (`PointAssumption`).
- `NarrowingProofs`, about `ForallCegis`. No pruning, by counterexamples, refined or not, removes a solution.
  `AcceptedAlone`: without another assertion the evaluator's context finds no counterexample
  only once, on the box that is accepted; its first such answer is true (`AskedOnce`).
- `ExplanationProofs`, about `OdeContractor`. `SolutionsKept`: for every set of flows, linked invariants, kind of
  duration and slack, `Prune` takes no solution away. The heart is one fact about a
  solution q in the box: the slice that holds its end time is reached, meets the
  window and the other end, and its end state and time are in the hull that is kept;
  for the one copy of the box, the parameter of q survives all slices before.
  `ChangesTold`: every changed variable but a parameter is in the output.
  `StatesExplained`, for flows without parameters: as for `ExplainedSearch`, a point that
  satisfies what is recorded over a separated set of variables is still in the box
  (`Coverage`). Here a step records several assertions at once, and the invariants are in the set
  because each shares a variable with the integral (`FreeVariablesAssumption`).
- `TheoryProofs`, about `TheoryFixpoint`. `QuietCallsReachTheFixpoint`: a call of either loop that ends with an
  empty box, an empty worklist or a pass without change returns the widest box in its
  start that no contractor narrows. The invariant says that no fixpoint in the start has
  been cut (`KeepsFixpoints`, by monotonicity) and that what is on no list has nothing to
  do: for the worklist (`WorklistOK`), for the contractors of a pass so far (`PassOK`), and
  between two calls for what does not read the dimension that was cut (`CallOK`). The
  wake-up rule is the lemma `WakeUp`.
- `IcpParallelProofs`, about `ThreadIds`. The counter is one more than the number of numbered
  workers, once the client has its id 0; so ids are distinct (`OneClientIsSafe`) and index
  the tables (`OneClientStaysInRange`).
- `FrontEndProofs`, about `Smt2Script`. `NamesResolveLexically` and `TheSolverIsGivenTheScript`, for
  any number of names, Variables and nested binders. That a name is right now is not
  inductive, as the end of a binder restores an older map: the invariant `ScriptIInv` says
  for every construct on the parser's stack that the map below it resolves as its own
  environment did (`Resolves`). For the assertions it says of every term the parser holds
  what the code built of it and what the script means agree on the valuations that give
  the Variables of let the values of their terms (`Consistent`), and that the script's
  meaning does not depend on Variables of let (`ClosedIn`), so that each valuation of the model
  variables extends to such a valuation (`AgreeOnModels`). As soon as one let-bound term is
  open nothing is claimed: that is the disagreement above.
- `FrontEndProofs`, about `Session`, for every set of cases, of values and every input:
  - `OptionsAsAsked`. `SourcesInv`: between two commands the record of each option is the value
    of its strongest source so far, together with that source. The value alone is
    not inductive, since the next set-option is refused or not by the source.
  - `NoAnswerFromAConflict`. `ConflictsInv`: whoever gets past the validators of the command line
    and of the context is compatible, also with what set-option adds later.
  - `ModelsOfTheLastCheck`. `ModelsInv`: the model kept by the driver is over the variables
    that were declared at the last check, or none if that said unsat, and every line
    printed so far was right when it was printed.
  - `AnswersOfEveryInput`. `AnswersInv`: box and stack are those of the commands so far, where
    each `minimize` has left two formulas (`Smt2Stack`): one names its objective by a new
    variable, the other, a forall over fresh copies, allows that variable the least value
    of the objective over the points that are feasible there, and no other (`IsOptimum`). So a
    check finds the points that no feasible point beats in any objective. `Meant` is stated
    over the whole input, where the variables of an objective may be few and the
    rival may differ in all: the lemmas on `Merged` say that a rival on the
    connected variables, put together with the rest of a point, is a point of the
    constraints, since these split into the ones that are connected to the objective and
    the ones that share no variable with it. `--refine-witness` moves the printed model
    inside the box it was read from (`MiddleIsIn`). The dr driver keeps its
    constraints until the file ends (`DrHolds`).

- `NarrowingProofs`, about `Narrowing`, for every finite set of expressions and formulas, every
  problem over them, every start box, precision and setting. `Narrowing` has no recursive
  operator: a visitor is a recursive function on the nodes of `Expr` or `Body`, each
  lower than the ones it is part of (`Height`, `Depth`), so what it computes follows by
  well-founded induction on a set of values (`ExprInduction`, `BodyInduction`), and what a fold
  over a finite set computes by induction on its subsets (`SubsetInduction`).
  - `PruningsPrune`: every contractor returns a box within the one it is given, over the same
    variables, with bounds that are doubles, that keeps every point the literals accept.
  - `BoxesAreRight`: the invariant `BoxInv` of the search, that the box, the stack and the
    contractor are made of what the check was given, that the place in the pass and the worklist are
    contractors of it, and that in a call of either fixpoint that ends with the integer
    contractor, an integer variable has integer bounds unless that contractor is still to come, in the
    round or on the worklist (`IntegerAt`). `IntegerBoundsAreIntegers` alone is not inductive:
    another contractor may move a rounded bound, and then wakes the integer contractor
    because that one reads the variable (`IntegerReads`).
  - `IntegerBounds`: `IntegerBoundsAreIntegers`, for every setting without `--polytope` and `--acid`;
    with `--worklist-fixpoint` only for the first box and for boxes cut in an integer
    variable (`RoundsLast`).
  - `Cuts`: every cut is proper (`CutsAreProper`): two smaller boxes that leave no point out,
    whatever dimension the brancher or the smear heuristic chooses, in every setting; under
    `RoundsLast` none of the two is empty.
  - `NoLoss`: `NoSolutionIsLost`. The solutions of the model are the points that satisfy every
    literal; the search works with other objects: bounds, constraints converted for
    IBEX, intervals. `LossInv` says of the solutions that the contractor of each literal
    accepts them, and where they are. Four facts carry it. The interval of an expression
    encloses its value at every point of the box (`EvaluateEncloses`), so an evaluator that
    refutes a literal is right (`RefutedHasNone`). So does the constraint that the converter makes of it
    with signs folded into a sum (`ConvertExpressionEncloses`), and the expression an atom is
    judged by is the difference of its sides (`MinusValue`). A quantified body is negated and put in negation normal form
    without a change of meaning (`NnfHolds`, `SatisfiesAccepts`). A bound filtered off
    a box cuts off points that violate it only (`FilterKeepsOwed`).
  - `DeltaSat`: `AnswersAreDeltaSat`. The evaluator asks for no branch on a bound, nor on a
    literal whose interval is narrow or decided, so an answer is right only if each of these was
    dealt with before. `AnswerInv` says which bounds every box has absorbed, already while
    the contractor is built, and that the candidates for branching are those the box at hand
    asks for (`EvaluatedHolds` gives the literal within the precision).

  The assumptions are on the data only: expressions and bodies are finite sets closed under
  their parts, the grid that stands for the reals reaches past 0 on both sides (`Reach` is
  positive: a box with bounds beyond the doubles would else not be empty), and the
  precision is at least one step between two doubles (`PrecisionAssumption`).

- `AssertPipelineProofs`, for every script of formulas that drake builds, of any size. No set
  holds all formulas, so a visitor is a recursive function on the parts of the formula at
  hand, and a theorem about it an induction over them. `Recursion` proves, once, the equation
  of a visitor from what holds of the parts of a tree (`VisitEquation`), and those of folds;
  induction over numbers and subsets is a hypothesis there, which
  `AssertPipelineProofs` discharges (`NatSet`, `FiniteSetInduction`). On these rest lemmas on
  what the constructors build (`RebuildWF`), on the work in it (`WorkOfRebuild`) and on what it means
  (`Coincidence`: the value depends on the free variables only; `AtNode`, `AtRel`, `AtNot`, `AtAnd`).
  - `AssertReturnsAlways`: `AssertReturns`. The measure counts connectives, quantifiers and
    quantified variables. A substitution of points for universal variables builds a formula that
    is no more work, as a merged operand or a folded relation only takes work away
    (`SubstBuilds`, `WorkOfNary`), so what `EliminatePointUniversals` asserts again is less
    (`EliminateBuilds`), and the operands of a conjunction are less than the conjunction. The
    invariant is that the calls that are left are finitely many and of formulas (`TodoIsBuilt`).
  - `StrengtheningAlwaysOrdered`: `StrengtheningIsOrdered`, at every point, by induction over the
    formula: what is made of it stays between the strengthened and the weakened formula
    (`Between`), and a negation exchanges them (`StrengthenConnective`).
  - `TheoryLiteralsAlwaysKnown`: `TheoryLiteralsAreKnown`. That a variable of the SAT solver is known
    depends on all that was made of the assertion it comes from, so the invariant
    (`LiteralsAreKnown`) says three things more. What is still to be asserted has no other
    Boolean leaves than the script, quantifiers only if the script has any, and no variables but
    those of the box. Every variable
    that names a predicate names a normal one. The formulas in the trie are finitely many and
    normal, and with a formula the trie has both literals of each of its predicates, so that a
    learned clause, which is made of such literals, brings no new ones. For each transformation a
    lemma says which leaves its result has (`OverForm`: `NnfOver`, `ProcessITEOver`, `NaiveCnfOver`,
    `TseitinOver`) and which predicates: `PredicateNormalizer` leaves only the predicates that
    are inserted (`NormalizeOver`), the cnfizer only those of the formula (`NamedOver`,
    `ClauseOver`) unless it splits a quantified body into clauses, which are not inserted. The proof
    showed a case the model had left out: two quantified operands whose single clauses are the
    same formula make a definition that is no connective, for which `Cnfize` throws
    (`IsCnfizable`, `tseitin_cnfizer.cc:198-232`); it is part of `Throw` now.
  - `SimilarConflictsAlwaysRefuted`: `SimilarConflictsAreRefuted`, in four steps. (1) A renaming of the
    free variables renames the points: the formula is true at a point as the renamed one is at
    the renamed point, if no new name is bound in it (`RenamedTree`, by induction over the formula).
    Bound variables are left alone, as `Formula::Substitute` does
    (`symbolic_formula_cell.cc:583`). (2) The structure of a literal is such a renaming, of its
    variables to dummies, one to one, as `FirstOccurrences` has each variable once; so two
    literals of one structure are each other's renaming (`SameStructure`). (3) While the matcher
    goes down its tree, `AttemptSubstitution` keeps one map, one to one, between variables of
    one type and one interval (`IsRenaming`), and what it finds has the structure of each literal of
    the explanation (`FoundIsMatch`). Hence a solution of the conflict found, renamed, is one of the
    explanation (`SimilarSolution`). (4) Later the box has only lost points or got more variables
    (`BoxStep`), and a learned conflict is finitely many formulas over variables the box had
    already, so it gets no new solutions (`SolutionsShrink`). The invariant `LearnedAreRefuted`
    keeps this fact about the learned conflicts beside the property; that their variables are in the
    box needs `LiteralsAreKnown`. The assumptions on a script are that its free variables are
    declared and that it binds none of the matcher's dummies (`IsBuilt`).

Not proved, only model-checked:

- liveness (`Terminates`, `CallEnds`, `SearchEnds`, `Returns`), which is out of the prover's reach;
- `AssertionsKeepTheirModels`: it does not hold for every value of the constants. The numbers of
  the model end at `Reach`, and the variable of an if-then-else expression may have to lie
  beyond, or a universal variable be pinned there; in the instance they stay inside.

## Not modelled, and why

- The arithmetic of IBEX's contractors, of CAPD and of derivatives: real functions on
  floating-point intervals. The models allow any sound outcome.
- What polytope and ACID do inside IBEX (off by default); what the code builds of them and
  records for them is in `Contractors`.
- CaDiCaL, NLopt and libcds: external. A result of NLopt is used only where it is checked
  again.
- Drake's constructors beyond the simplifications the pipeline relies on, reference
  counts, printing (`prefix_printer.cc`, `box.cc`'s output) and the differentiation of
  expressions.
- The trie-based matcher (`util/pattern_matching/trie_based/`): compiled out by `version.h`.
- The lexers, `get-value`, `get-info`, define-ode and the translation of right-hand sides
  for CAPD: from text to terms and back, without state of their own.
- Caches of the theory solver: they return what would be built, except after a change of
  precision (above).
- Auditor, logging, statistics, timers, signals and traces for visualisation.

## Plan

Done, in this order: branch-and-prune (abstract, sequential, parallel) with proofs;
explanations; CDCL(T); exists-forall; ODE contractor; thread ids; fixpoints; scripts;
the formula pipeline with the assertion filter and the pattern matcher behind one
`Assert`; options, both front ends and minimization as one session; evaluation, contractors
and branching on real intervals; proofs for the ODE contractor and the fixpoints, then
for scripts and sessions, then for `Narrowing`: the boxes, what interval arithmetic encloses,
solutions and answers; the formula pipeline as recursion over trees, and its proofs.

Left:

1. Compose `CdclT` with `ExplainedSearch`: the explanation of one as the learned clause of
   the other, so that `UnsatCorrect` follows from sound contractors.
2. Compose `AssertPipeline` with `CdclT`, so that clauses and atoms are those of a script.
3. Two checks with different precision in one theory solver, with its caches.
