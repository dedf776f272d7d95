----------------------------- MODULE ForallCegis -----------------------------
(***************************************************************************)
(* Branch and prune over an exists-forall formula                          *)
(*                                                                         *)
(*     x in other  and  forall y . Phi(x, y)                               *)
(*                                                                         *)
(* ContractorForall looks for counterexamples (x, y) in the box and        *)
(* contracts the box with Phi(x, y) for their y; ForallFormulaEvaluator    *)
(* looks for one more to decide whether the box is accepted. Each of them  *)
(* asks a Context of its own, which lives as long as it does: SetInterval  *)
(* moves the box of x from call to call, and the SAT solver of the context *)
(* keeps what it has learned.                                              *)
(***************************************************************************)
EXTENDS Integers, FiniteSets

CONSTANTS
  MaxX,    \* the values of x: 1 .. MaxX, boxes are intervals of them
  YValue,  \* the values of y
  Others,  \* the sets of x that satisfy the other assertions
  Phi,     \* the pairs (x, y) that satisfy the body
  Mild,    \* the pairs that violate it by at most delta
  Query    \* [solver -> the pairs that satisfy its strengthened negation]

XValue == 1 .. MaxX
Pair == XValue \X YValue
Box == {{x \in XValue : a <= x /\ x <= b} : a, b \in XValue}
Root == XValue
Solver == {"contractor", "evaluator"}
Counterexamples(s, X) == Query[s] \cap (X \X YValue)

\* The negation is strengthened, more for the evaluator, but where the domain of
\* y is narrow less of it is cut off: neither query contains the other. A pair of
\* a query need not violate Phi: a bound on x alone is filtered into the box of
\* the context when it is asserted, and SetInterval overwrites it.
ASSUME ForallAssumption ==
  /\ MaxX \in Nat \ {0}
  /\ Others \subseteq SUBSET XValue
  /\ Phi \subseteq Pair /\ Mild \subseteq Pair \ Phi
  /\ Query \in [Solver -> SUBSET Pair]

VARIABLES
  other,    \* the x that satisfy the other assertions; never changes
  boxes,    \* the boxes still to look at, in any order (the code keeps a stack)
  current,  \* the box at hand
  searchLeft, \* the side the next search for a counterexample starts on
  refuted,  \* whether the SAT solver of a context has learned a clause
  phase,
  answer
cegisVars == <<other, boxes, current, searchLeft, refuted, phase, answer>>

CegisInit ==
  /\ other \in Others
  /\ boxes = {Root}
  /\ current = {}
  /\ searchLeft = FALSE
  /\ refuted = [s \in Solver |-> FALSE]
  /\ phase = "take"
  /\ answer = "none"

Take ==
  /\ phase = "take"
  /\ \E B \in boxes : boxes' = boxes \ {B} /\ current' = B
  /\ phase' = "others"
  /\ UNCHANGED <<other, searchLeft, refuted, answer>>

Exhausted ==
  /\ phase = "take"
  /\ boxes = {}
  /\ answer' = "unsat"
  /\ phase' = "done"
  /\ UNCHANGED <<other, boxes, current, searchLeft, refuted>>

\* Contracting with a set of solutions keeps those, and is exact on a point.
Contracted(X, solutions) ==
  {B \in Box \cup {{}} :
     /\ X \cap solutions \subseteq B /\ B \subseteq X
     /\ Cardinality(X) = 1 => B \subseteq solutions}

Continue(B, next) == phase' = IF B = {} THEN "take" ELSE next

\* The contractors of the other assertions.
PruneOthers ==
  /\ phase = "others"
  /\ \E B \in Contracted(current, other) :
       current' = B /\ Continue(B, "contractor")
  /\ UNCHANGED <<other, boxes, searchLeft, refuted, answer>>

-----------------------------------------------------------------------------
(* CheckSat of a context on the box at hand. The body is a clause, so the  *)
(* query is a conjunction of literals, all unit clauses: the first time    *)
(* the theory solver refutes them, the clause learned from the explanation *)
(* contradicts them, and nothing takes it back.                            *)

Found(s) ==
  {y \in YValue : ~refuted[s] /\ \E x \in current :
                    <<x, y>> \in Counterexamples(s, current)}

FoundNoneUnasked(s) == refuted' = [refuted EXCEPT ![s] = TRUE]

FoundNone(s) ==
  /\ Found(s) = {}
  /\ refuted' = [refuted EXCEPT ![s] = TRUE]

-----------------------------------------------------------------------------
(* ContractorForall::Prune: the box is contracted with Phi(., y) until it  *)
(* does not change, or there is no counterexample.                         *)

\* CounterexampleRefiner: with --local-optimization the y of a counterexample is
\* moved to where a local optimizer stopped, anywhere in the domain of y; it is
\* left alone when the optimizer fails or there was nothing to optimise.
Refined(y) == {y} \cup YValue

\* The box of x left as it is in the counterexample.
PruneTheCounterexample ==
  /\ phase = "contractor"
  /\ searchLeft' = ~searchLeft
  /\ \E y \in Found("contractor") : \E x \in current :
       /\ <<x, y>> \in Counterexamples("contractor", current)
       /\ \E B \in Contracted({x}, {z \in XValue : <<z, y>> \in Phi}) :
            current' = B /\ Continue(B, "evaluator")
  /\ UNCHANGED <<other, boxes, refuted, answer>>

\* No test for a fixed point.
PruneForever ==
  /\ phase = "contractor"
  /\ searchLeft' = ~searchLeft
  /\ \E y \in Found("contractor") : \E z \in Refined(y) :
       \E B \in Contracted(current, {x \in XValue : <<x, z>> \in Phi}) :
         current' = B /\ Continue(B, "contractor")
  /\ UNCHANGED <<other, boxes, refuted, answer>>

PruneWithCounterexample ==
  /\ phase = "contractor"
  /\ searchLeft' = ~searchLeft
  /\ \E y \in Found("contractor") : \E z \in Refined(y) :
       \E B \in Contracted(current, {x \in XValue : <<x, z>> \in Phi}) :
         /\ current' = B
         /\ Continue(B, IF B = current THEN "evaluator" ELSE "contractor")
  /\ UNCHANGED <<other, boxes, refuted, answer>>

NoCounterexample ==
  /\ phase = "contractor"
  /\ searchLeft' = ~searchLeft
  /\ FoundNone("contractor")
  /\ phase' = "evaluator"
  /\ UNCHANGED <<other, boxes, current, answer>>

-----------------------------------------------------------------------------
(* ForallFormulaEvaluator, the other evaluators, and what the search does  *)
(* with their answers.                                                     *)

Accept == answer' = "sat" /\ phase' = "done" /\ UNCHANGED boxes

BranchLeft ==
  IF Cardinality(current) = 1
  THEN Accept
  ELSE /\ \E B \in Box \ {current} : B \subseteq current /\ boxes' = boxes \cup {B}
       /\ phase' = "take"
       /\ UNCHANGED answer

\* A point cannot be branched on: it is accepted as it is.
BranchBox ==
  IF Cardinality(current) = 1
  THEN Accept
  ELSE /\ \E B, C \in Box \ {current} :
            B \cup C = current /\ B \cap C = {} /\ boxes' = boxes \cup {B, C}
       /\ phase' = "take"
       /\ UNCHANGED answer

\* VALID.
EvaluateValid ==
  /\ phase = "evaluator"
  /\ FoundNone("evaluator")
  /\ IF current \subseteq other THEN Accept ELSE BranchBox
  /\ UNCHANGED <<other, current, searchLeft>>

\* UNKNOWN, with the violation of the counterexample that was found.
EvaluateUnknown ==
  /\ phase = "evaluator"
  /\ \E y \in Found("evaluator") :
       IF current \subseteq other /\ current \X {y} \subseteq Phi \cup Mild
       THEN Accept
       ELSE BranchBox
  /\ UNCHANGED <<other, current, searchLeft, refuted>>

Step ==
  \/ Take \/ Exhausted \/ PruneOthers
  \/ PruneWithCounterexample \/ NoCounterexample
  \/ EvaluateValid \/ EvaluateUnknown

Done == phase = "done" /\ UNCHANGED cegisVars

CegisNext == Step \/ Done

CegisSpec == CegisInit /\ [][CegisNext]_cegisVars /\ WF_cegisVars(Step)

-----------------------------------------------------------------------------
TypeOK ==
  /\ other \in Others /\ boxes \subseteq Box
  /\ current \in Box \cup {{}}
  /\ searchLeft \in BOOLEAN
  /\ refuted \in [Solver -> BOOLEAN]
  /\ phase \in {"take", "others", "done"} \cup Solver
  /\ answer \in {"none", "unsat", "sat"}

Solution(x) == x \in other /\ \A y \in YValue : <<x, y>> \in Phi

(* UNSAT means there is no solution: the box is only contracted with real
   counterexamples, so that a wrong answer of the inner solver never removes
   one (contractor_forall.h, Prune; docs/forall-semantics.md section 4.7). *)
UnsatIsRight == answer = "unsat" => \A x \in XValue : ~Solution(x)

(* A point of the box at hand or of a pending box is kept until the search
   ends: a solution is in one of them. *)
SolutionsAreKept ==
  answer = "none" =>
    \A x \in XValue : Solution(x) =>
      (x \in current /\ phase # "take") \/ \E B \in boxes : x \in B

(* A box that is accepted because no counterexample was found has none: the
   whole box satisfies the formula (forall_formula_evaluator.cc, operator();
   docs/forall-semantics.md section 5). *)
AcceptedIsValid ==
  answer = "sat" /\ Found("evaluator") = {} =>
    Counterexamples("evaluator", current) = {}

(* Without another assertion the first box that has no counterexample is
   accepted, so that the answer is right although the inner solver could not
   be asked again. *)
AcceptedAloneIsValid == other = XValue => AcceptedIsValid

(* The search ends: each pass of the pruning loop removes something or is the
   last, and each branching makes the boxes smaller. *)
SearchEnds == <>(phase = "done")
=============================================================================
