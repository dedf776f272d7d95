--------------------------- MODULE BranchAndPrune ---------------------------
(***************************************************************************)
(* What Icp::CheckSat promises its caller, the theory solver.  The points  *)
(* of the box are dealt with in any order: a point is ruled out by an      *)
(* assertion that is recorded as used, and the search ends when no point   *)
(* is left (UNSAT, and the used assertions alone rule out the whole box)   *)
(* or with a nonempty box of points that were never ruled out and that     *)
(* passes the delta test or cannot be split (delta-SAT).                   *)
(***************************************************************************)
EXTENDS Boxes

VARIABLES
  open,      \* the points of the initial box that are not ruled out
  used,      \* the assertions recorded so far
  verdict,   \* "none" while the search runs
  answer     \* the box left in the contractor status when the search ends

vars == <<open, used, verdict, answer>>

Init ==
  /\ open = Point
  /\ used = {}
  /\ verdict = "none"
  /\ answer = {}

\* Points go away only with the assertions that rule them out.
RuleOut ==
  /\ verdict = "none"
  /\ open' \in SUBSET open
  /\ used' \in SUBSET Constraint
  /\ used \subseteq used'
  /\ \A p \in open \ open' : Excludes(used', p)
  /\ UNCHANGED <<verdict, answer>>

AnswerUnsat ==
  /\ verdict = "none"
  /\ open = {}
  /\ verdict' = "unsat"
  /\ answer' = {}
  /\ UNCHANGED <<open, used>>

AnswerDeltaSat ==
  /\ verdict = "none"
  /\ verdict' = "delta_sat"
  /\ answer' \in SUBSET open
  /\ Answerable(answer')
  /\ UNCHANGED <<open, used>>

Next == RuleOut \/ AnswerUnsat \/ AnswerDeltaSat

Spec == Init /\ [][Next]_vars

-----------------------------------------------------------------------------
\* Every point of the initial box is still open or is ruled out by the
\* assertions recorded as used, so UNSAT comes with a sound explanation.
Sound == \A p \in Point : p \in open \/ Excludes(used, p)
=============================================================================
