---------------------------- MODULE OdeContractor ----------------------------
(***************************************************************************)
(* contractor_ode_lohner::Prune, forwards and backwards, among contractors *)
(* of algebraic assertions on one box.  The contractor is built for one    *)
(* integral and the ForallT formulas that are linked to it.  CAPD, which   *)
(* encloses the trajectories, is external: it may diverge, and what it     *)
(* returns is wider than the truth.  Time is cut into steps; a slice       *)
(* covers a step and its two ends.  The flow has one state and at most one *)
(* parameter.                                                              *)
(***************************************************************************)
EXTENDS ContractorStatus

CONSTANTS
  Flows,      \* the integrals of the problem
  Invariants, \* its ForallT formulas
  FlowOf,     \* FlowOf[c]: the name of the flow the ForallT c is about
  BoundOf,    \* BoundOf[c]: the variables of its formula
  Allows,     \* Allows[c]: the pairs of a state and a parameter it allows
  Slacks,     \* by how much an enclosure of CAPD may be too wide: sets of states
  Algebraic,  \* the other assertions
  Holds       \* Holds[a]: the points at which the algebraic assertion a is true

\* An integral: its name and that of its flow; the state path[x, p, t] at time t
\* from x with p; params, which is {} or holds the one pair <<p_0, p_t>> of the
\* parameter; and the interval of its duration and the duration, if that is a
\* constant and not the variable "time" (then the interval is {}).
IsIntegral(f) ==
  /\ f.path \in [Value \X Value \X Value -> Value]
  /\ \A x, p \in Value : f.path[x, p, 0] = x
  /\ f.params \subseteq Var \X Var
  /\ \A pair, other \in f.params : pair = other
  /\ \A pair \in f.params : pair[1] \notin {"x_0", "x_t", "time"} /\ pair[2] \notin {"x_0", "x_t", "time"}
  /\ f.window \subseteq Value
  /\ f.window # {} => f.duration \in f.window

\* forallt_links_to_integral: the same flow, and only end variables of it.
Links(c, f) ==
  FlowOf[c] = f.flow /\ BoundOf[c] \subseteq {"x_t"} \cup {pair[2] : pair \in f.params}

ASSUME OdeAssumption ==
  /\ Value \subseteq Nat /\ 0 \in Value
  /\ \A t \in Value : 0 .. t \subseteq Value
  /\ {"x_0", "x_t", "time"} \subseteq Var
  /\ \A f \in Flows : IsIntegral(f) /\ f.name \in Constraint
  /\ Invariants \subseteq Constraint /\ Algebraic \subseteq Constraint
  /\ \A c \in Invariants : Allows[c] \subseteq Value \X Value
  /\ \A a \in Algebraic : Holds[a] \subseteq Point

\* Whether they hold depends on the free variables: of the integral those of
\* both ends and of the duration.  A linked ForallT is about one of them.
ASSUME FreeVariablesAssumption ==
  /\ \A f \in Flows :
       /\ {"x_0", "x_t"} \cup (IF f.window = {} THEN {"time"} ELSE {}) \subseteq VarsOf[f.name]
       /\ f.name \notin Invariants \cup Algebraic
       /\ \A c \in Invariants : Links(c, f) => Touches(c, VarsOf[f.name])
  /\ Invariants \cap Algebraic = {}
  /\ \A a \in Algebraic : \A p \in Holds[a] : \A q \in Point :
       (\A v \in VarsOf[a] : p[v] = q[v]) => q \in Holds[a]

VARIABLES
  flow,      \* the integral among the literals at hand
  foralls,   \* the ForallT formulas among them
  cs,        \* the ContractorStatus
  output     \* cs->output() of the last Prune

odeVars == <<flow, foralls, cs, output>>

\* link_integral_invariants: the others are left out.
Enforced == {c \in foralls : Links(c, flow)}

Parameter(q) ==
  IF flow.params = {} THEN 0
  ELSE LET pair == CHOOSE pair \in flow.params : TRUE IN q[pair[1]]

\* The meaning of the integral and of an invariant that is linked to it.
Duration(q) == IF flow.window = {} THEN q["time"] ELSE flow.duration
Solves(q) ==
  /\ \A pair \in flow.params : q[pair[1]] = q[pair[2]]
  /\ q["x_t"] = flow.path[q["x_0"], Parameter(q), Duration(q)]
StaysInside(c, q) ==
  \A t \in 0 .. Duration(q) : <<flow.path[q["x_0"], Parameter(q), t], Parameter(q)>> \in Allows[c]

Satisfied(c, q) ==
  CASE c = flow.name -> Solves(q)
    [] c \in Invariants -> StaysInside(c, q)
    [] OTHER -> q \in Holds[c]

Hull(S) == {v \in Value : \E low, high \in S : low <= v /\ v <= high}
Changed(b, c) == {v \in Var : b[v] # c[v]}

\* RejectUnlinkedForallT: a problem with another ForallT is refused.
Accepted == {c \in Invariants : \E f \in Flows : Links(c, f)}

\* The literals at hand are some of the problem's: the integral a ForallT is
\* linked to need not be among them.
OdeInit ==
  /\ flow \in Flows
  /\ foralls \in SUBSET Accepted
  /\ cs = NewStatus([v \in Var |-> Value])
  /\ output = {}

-----------------------------------------------------------------------------
\* The contractor of an algebraic assertion, recorded if it changes the box.
Algebra(a) ==
  /\ ~IsEmpty(cs.box)
  /\ LET in == {q \in Holds[a] : InBox(q, cs.box)}
         b == Normal([v \in Var |-> IF v \in VarsOf[a] THEN Hull({q[v] : q \in in}) ELSE cs.box[v]])
     IN  /\ b # cs.box
         /\ cs' = AddUsedConstraint([cs EXCEPT !.box = b], a)
         /\ output' = Changed(cs.box, b)
  /\ UNCHANGED <<flow, foralls>>

-----------------------------------------------------------------------------
\* The box after intersect_params.
Matched(b) ==
  Normal([v \in Var |->
    IF \E pair \in flow.params : v \in {pair[1], pair[2]}
    THEN LET pair == CHOOSE pair \in flow.params : v \in {pair[1], pair[2]} IN b[pair[1]] \cap b[pair[2]]
    ELSE b[v]])

\* AddUsedConstraint of the integral, and of the invariants with it.
Record(s, withInvariants) ==
  LET integral == AddUsedConstraint(s, flow.name)
  IN IF withInvariants THEN AddUsedConstraints(integral, Enforced) ELSE integral

\* The box is set empty, then all formulas are recorded.
Refuted(s) == Record([s EXCEPT !.box = EmptyBox], TRUE)

\* The parameter has no value.
ParamsDisjoint ==
  /\ IsEmpty(Matched(cs.box))
  /\ cs' = Refuted(cs)
  /\ output' = UNION {{pair[1], pair[2]} : pair \in flow.params}

\* A slip: the changes are not reported.
StandStillSilent(b, withInvariants) ==
  LET x == b["x_0"] \cap b["x_t"]
      c == [b EXCEPT !["x_0"] = x, !["x_t"] = x]
  IN  IF x = {} THEN cs' = Refuted(cs) /\ output' = VarsOf[flow.name]
      ELSE cs' = Record([cs EXCEPT !.box = c], withInvariants) /\ output' = {}

\* The state does not move, because there is no time or the flow is constant.
\* The box of the comparison is taken after the parameters were intersected.
StandStill(b, withInvariants) ==
  LET x == b["x_0"] \cap b["x_t"]
      c == [b EXCEPT !["x_0"] = x, !["x_t"] = x]
  IN  IF x = {} THEN cs' = Refuted(cs) /\ output' = VarsOf[flow.name]
      ELSE cs' = Record([cs EXCEPT !.box = c], withInvariants) /\ output' = Changed(b, c)

\* The durations to integrate over.
Window(b) == IF flow.window = {} THEN b["time"] ELSE flow.window
TimeIsZero(b) == Window(b) \subseteq {0}
TrivialFlow == \A x, p, t \in Value : flow.path[x, p, t] = x

\* CAPD diverges, or the duration is the interval [0, 0], which is no constant.
NothingConclusive(b) ==
  /\ TimeIsZero(b) => flow.window # {}
  /\ cs' = AddInconclusiveOde([cs EXCEPT !.box = b], flow.name)
  /\ output' = {}

ParameterValues(b) == IF flow.params = {} THEN {0} ELSE UNION {b[pair[2]] : pair \in flow.params}

\* The states at the times ts, with the slack of the enclosure.  Backwards,
\* the states from which x_t is reached.
Enclosure(b, dir, ts, slack) ==
  slack \cup
  IF dir = "FWD"
  THEN {y \in Value : \E x \in b["x_0"], p \in ParameterValues(b), t \in ts : y = flow.path[x, p, t]}
  ELSE {x \in Value : \E p \in ParameterValues(b), t \in ts : flow.path[x, p, t] \in b["x_t"]}

Slices(b) == {k \in Value : \E t \in Window(b) : k < t}

\* A slip: a slice that touches the outside of the invariant is a violation.
ReachedStrictly(b, dir, slack) ==
  {k \in Slices(b) :
     dir = "FWD" =>
       \E p \in ParameterValues(b) : \A c \in Enforced : \A j \in 0 .. k :
         \A x \in Enclosure(b, dir, {j, j + 1}, slack) : <<x, p>> \in Allows[c]}

\* The slices before the first that lies outside an invariant, which only the
\* forward contractor looks at.  The copy of the box the invariants work on is
\* given the state of each slice, but keeps what they have done to the
\* parameter: one value of it has to survive all slices so far.
Reached(b, dir, slack) ==
  {k \in Slices(b) :
     dir = "FWD" =>
       \E p \in ParameterValues(b) : \A c \in Enforced : \A j \in 0 .. k :
         \E x \in Enclosure(b, dir, {j, j + 1}, slack) : <<x, p>> \in Allows[c]}

\* Slices of the window that meet the state at the other end are kept, and
\* that state and the time are narrowed to their hull.
End(dir) == IF dir = "FWD" THEN "x_t" ELSE "x_0"
InWindow(b, k) == {k, k + 1} \cap Window(b)
Gate(b, dir, slack, k) == Enclosure(b, dir, InWindow(b, k), slack) \cap b[End(dir)]
Kept(b, dir, slack) ==
  {k \in Reached(b, dir, slack) : InWindow(b, k) # {} /\ Gate(b, dir, slack, k) # {}}
Narrowed(b, dir, slack) ==
  [v \in Var |->
     IF v = End(dir) THEN Hull(UNION {Gate(b, dir, slack, k) : k \in Kept(b, dir, slack)})
     ELSE IF v = "time" /\ flow.window = {}
     THEN Hull(UNION {InWindow(b, k) : k \in Kept(b, dir, slack)})
     ELSE b[v]]

\* A slip: only a change of the time is reported.
IntegrateSilently(b, dir, slack) ==
  LET c == Narrowed(b, dir, slack)
  IN  IF Kept(b, dir, slack) = {} THEN cs' = Refuted(cs) /\ output' = VarsOf[flow.name]
      ELSE /\ cs' = IF c["time"] = b["time"] THEN [cs EXCEPT !.box = c] ELSE Record([cs EXCEPT !.box = c], TRUE)
           /\ output' = Changed(b, c)

Integrate(b, dir, slack) ==
  LET c == Narrowed(b, dir, slack)
  IN  IF Kept(b, dir, slack) = {} THEN cs' = Refuted(cs) /\ output' = VarsOf[flow.name]
      ELSE /\ cs' = IF c = b THEN [cs EXCEPT !.box = b] ELSE Record([cs EXCEPT !.box = c], TRUE)
           /\ output' = Changed(b, c)

Prune(dir) ==
  /\ ~IsEmpty(cs.box)
  /\ LET b == Matched(cs.box) IN
     \/ ParamsDisjoint
     \/ ~IsEmpty(b) /\ TimeIsZero(b) /\ StandStill(b, TRUE)
     \/ ~IsEmpty(b) /\ ~TimeIsZero(b) /\ TrivialFlow /\ StandStill(b, FALSE)
     \/ ~IsEmpty(b) /\ ~TrivialFlow /\ NothingConclusive(b)
     \/ /\ ~IsEmpty(b) /\ ~TimeIsZero(b) /\ ~TrivialFlow
        /\ \E slack \in Slacks : Integrate(b, dir, slack)
  /\ UNCHANGED <<flow, foralls>>

OdeDone == IsEmpty(cs.box) /\ UNCHANGED odeVars

OdeNext ==
  \/ \E a \in Algebraic : Algebra(a)
  \/ \E dir \in {"FWD", "BWD"} : Prune(dir)
  \/ OdeDone

OdeSpec == OdeInit /\ [][OdeNext]_odeVars

-----------------------------------------------------------------------------
OdeTypeOK ==
  /\ flow \in Flows
  /\ foralls \subseteq Accepted
  /\ cs \in Status
  /\ output \subseteq Var

IsSolution(q) == Solves(q) /\ \A c \in Enforced : StaysInside(c, q)

(* Prune loses no solution: a point of the box that solves the integral    *)
(* and stays inside the invariants is only taken away by an algebraic      *)
(* assertion, whatever CAPD adds to its enclosures.                        *)
PruneKeepsSolutions ==
  [][(\E q \in Point : InBox(q, cs.box) /\ ~InBox(q, cs'.box) /\ IsSolution(q))
       => \E a \in Algebraic : Algebra(a)]_odeVars

(* Whatever emptied the box, the assertions of the explanation exclude     *)
(* every point together: the clause learned from it is a consequence of    *)
(* the assertions ("For -E to be sound, E must be delta-unsat over R",     *)
(* docs/constraint-order-explanation-soundness.md).                        *)
StatusRefutes ==
  IsEmpty(cs.box) =>
    LET E == Explanation(cs) IN \A q \in Point : \E c \in E : ~Satisfied(c, q)

(* It holds of a flow without parameters.                                  *)
ExplanationRefutesStates == flow.params = {} => StatusRefutes

(* A variable that Prune changed is in the output, from which the worklist *)
(* fixpoint learns which contractors to wake; parameters are not reported. *)
OutputTellsChanges ==
  [][\/ Changed(cs.box, cs'.box) \subseteq output' \cup UNION {{pair[1], pair[2]} : pair \in flow.params}
     \/ IsEmpty(cs'.box)]_odeVars
=============================================================================
