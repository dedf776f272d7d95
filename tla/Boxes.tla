------------------------------- MODULE Boxes -------------------------------
(***************************************************************************)
(* What branch-and-prune may assume of a box, of the contractor it is      *)
(* given, of the formula evaluators and of the brancher.                   *)
(*                                                                         *)
(* A box is the set of points it contains; the empty box is {}.  A point   *)
(* is anything the assertions can tell apart: Violates[p] is the set of    *)
(* assertions that are false at p.                                         *)
(***************************************************************************)
EXTENDS Integers

CONSTANTS
  Point,        \* the points of the box the theory solver starts from
  Constraint,   \* the assertions of the theory problem
  Violates,     \* Violates[p]: the assertions that are false at the point p
  DeltaBox,     \* the boxes on which no evaluation is wider than the precision
  Halves        \* Halves[b]: the pairs the brancher makes of b, {} if it fails

Box == SUBSET Point

ASSUME ViolatesAssumption == Violates \in [Point -> SUBSET Constraint]

\* A bisection covers the box with two smaller boxes.  They may share the
\* points of the cut (Box::bisect_continuous uses the same float twice).
ASSUME HalvesAssumption ==
  /\ Halves \in [Box -> SUBSET (Box \X Box)]
  /\ \A b \in Box : \A h \in Halves[b] :
       /\ h[1] \cup h[2] = b
       /\ h[1] # b /\ h[1] # {}
       /\ h[2] # b /\ h[2] # {}

Excludes(used, p) == Violates[p] \cap used # {}

(***************************************************************************)
(* The outcomes of one Contractor::Prune of the box b: a smaller box and   *)
(* the assertions the contractors recorded with AddUsedConstraint.  A      *)
(* sound contractor removes a point only because of an assertion false at  *)
(* it, and records the assertions whose narrowing changed the box, and no  *)
(* other.                                                                  *)
(***************************************************************************)
Prunings(b) ==
  {r \in (SUBSET b) \X (SUBSET Constraint) :
     /\ \A p \in b \ r[1] : Excludes(r[2], p)
     /\ \A c \in r[2] : \E p \in b \ r[1] : c \in Violates[p]}

\* The assertions an evaluator may find UNSAT on all of b.
Refuters(b) == {c \in Constraint : \A p \in b : c \in Violates[p]}

\* EvaluateBox returns a bit set with no bit set.
SmallEnough(b) == b \in DeltaBox

Bisectable(b) == Halves[b] # {}

\* A box the search may answer delta-sat with: it passed the delta test, or
\* the brancher could not split it any further.
Answerable(b) == b # {} /\ (SmallEnough(b) \/ ~Bisectable(b))
=============================================================================
