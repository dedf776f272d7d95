------------------------------- MODULE IcpSeq -------------------------------
(***************************************************************************)
(* IcpSeq::CheckSat: depth-first branch-and-prune with one thread.  The    *)
(* box of the contractor status is the box in hand; the other boxes wait   *)
(* on a stack.  Under --seed-samples small boxes around candidate points   *)
(* are put above the root box and are explored first; they overlap the     *)
(* root box and each other.  The side explored first alternates with every *)
(* branching.                                                              *)
(***************************************************************************)
EXTENDS Boxes, Sequences

CONSTANTS
  SeedSamples,        \* config.seed_samples(), 0: no seed-and-verify pre-pass
  StackLeftBoxFirst   \* config.stack_left_box_first()

ASSUME SeedSamplesAssumption == SeedSamples \in Nat
ASSUME StackLeftBoxFirstAssumption == StackLeftBoxFirst \in BOOLEAN

VARIABLES
  pc,                  \* where CheckSat is
  cs,                  \* the ContractorStatus: the box in hand, the used assertions
  stack,               \* the boxes that wait, the next one first
  explore_left_first,  \* which half the next branching explores first
  verdict              \* what CheckSat returned

vars == <<pc, cs, stack, explore_left_first, verdict>>

Status == [box : Box, used : SUBSET Constraint]

-----------------------------------------------------------------------------
Init ==
  /\ pc = "seed"
  /\ cs = [box |-> Point, used |-> {}]
  /\ stack = <<Point>>
  /\ explore_left_first = ~StackLeftBoxFirst
  /\ verdict = "none"

\* A box of half-width precision around a candidate point, cut with the box.
SmallBoxAround(b) == {s \in SUBSET b : s # {}}

\* A start of the optimizer that throws proposes nothing, and a problem with a
\* forall or an ODE is not seeded: any number of boxes up to SeedSamples.
SeedBoxes(b) == UNION {[1 .. n -> SmallBoxAround(b)] : n \in 0 .. SeedSamples}

\* A slip: the seed boxes replace the root box.
SeedOnly ==
  /\ pc = "seed"
  /\ \E seeds \in SeedBoxes(cs.box) : stack' = seeds
  /\ pc' = "loop"
  /\ UNCHANGED <<cs, explore_left_first, verdict>>

Seed ==
  /\ pc = "seed"
  /\ \E seeds \in SeedBoxes(cs.box) : stack' = seeds \o stack
  /\ pc' = "loop"
  /\ UNCHANGED <<cs, explore_left_first, verdict>>

\* A slip: stack.pop_back() is forgotten.
PopKeeps ==
  /\ pc = "loop"
  /\ stack # <<>>
  /\ cs' = [cs EXCEPT !.box = Head(stack)]
  /\ pc' = "prune"
  /\ UNCHANGED <<stack, explore_left_first, verdict>>

Pop ==
  /\ pc = "loop"
  /\ stack # <<>>
  /\ cs' = [cs EXCEPT !.box = Head(stack)]
  /\ stack' = Tail(stack)
  /\ pc' = "prune"
  /\ UNCHANGED <<explore_left_first, verdict>>

NoSolution ==
  /\ pc = "loop"
  /\ stack = <<>>
  /\ verdict' = "unsat"
  /\ pc' = "done"
  /\ UNCHANGED <<cs, stack, explore_left_first>>

Prune ==
  /\ pc = "prune"
  /\ \E r \in Prunings(cs.box) :
       /\ cs' = [box |-> r[1], used |-> cs.used \cup r[2]]
       /\ pc' = IF r[1] = {} THEN "loop" ELSE "eval"
  /\ UNCHANGED <<stack, explore_left_first, verdict>>

\* A slip: the assertion that refutes the box is not recorded.
InfeasibleUnrecorded ==
  /\ pc = "eval"
  /\ Refuters(cs.box) # {}
  /\ cs' = [cs EXCEPT !.box = {}]
  /\ pc' = "loop"
  /\ UNCHANGED <<stack, explore_left_first, verdict>>

\* EvaluateBox finds an assertion false on the whole box.
Infeasible ==
  /\ pc = "eval"
  /\ \E c \in Refuters(cs.box) : cs' = [box |-> {}, used |-> cs.used \cup {c}]
  /\ pc' = "loop"
  /\ UNCHANGED <<stack, explore_left_first, verdict>>

\* The box passes the delta test, or the brancher returns -1.
Found ==
  /\ pc = "eval"
  /\ Answerable(cs.box)
  /\ verdict' = "delta_sat"
  /\ pc' = "done"
  /\ UNCHANGED <<cs, stack, explore_left_first>>

Branch ==
  /\ pc = "eval"
  /\ ~SmallEnough(cs.box)
  /\ \E h \in Halves[cs.box] :
       stack' = (IF explore_left_first THEN <<h[1], h[2]>> ELSE <<h[2], h[1]>>) \o stack
  /\ explore_left_first' = ~explore_left_first
  /\ pc' = "loop"
  /\ UNCHANGED <<cs, verdict>>

Step == Seed \/ Pop \/ NoSolution \/ Prune \/ Infeasible \/ Found \/ Branch

Finished == pc = "done" /\ UNCHANGED vars

Next == Step \/ Finished

Spec == Init /\ [][Next]_vars

\* CheckSat is a sequential program that the operating system runs.
FairSpec == Spec /\ WF_vars(Step)

-----------------------------------------------------------------------------
TypeOK ==
  /\ pc \in {"seed", "loop", "prune", "eval", "done"}
  /\ cs \in Status
  /\ stack \in Seq(Box)
  /\ explore_left_first \in BOOLEAN
  /\ verdict \in {"none", "unsat", "delta_sat"}

\* The box in the status is still to be dealt with, or is the answer; at the
\* head of the loop it is left over from a box that is dealt with.
InHand == IF pc \in {"prune", "eval", "done"} THEN cs.box ELSE {}

Open ==
  {p \in Point : p \in InHand \/ \E i \in 1 .. Len(stack) : p \in stack[i]}

(* Whatever the seeds and the sides explored first, a point of the box     *)
(* CheckSat was given is in a box that waits, in the box in hand, or is    *)
(* ruled out by an assertion recorded as used: no subspace is dropped.     *)
NoPointLost == \A p \in Point : p \in Open \/ Excludes(cs.used, p)

(* UNSAT leaves the empty box in the status and used assertions that rule  *)
(* out every point; delta-SAT leaves a box that was judged answerable.     *)
VerdictIsJustified ==
  /\ verdict = "unsat" => cs.box = {} /\ \A p \in Point : Excludes(cs.used, p)
  /\ verdict = "delta_sat" => Answerable(cs.box)

\* What makes them inductive: when the stack runs empty, the last box in hand
\* was dropped because it was empty, never because it was cut.
LoopOK ==
  /\ pc = "done" <=> verdict # "none"
  /\ pc = "seed" => cs.box = Point /\ stack = <<Point>>
  /\ pc = "loop" /\ stack = <<>> => cs.box = {}
  /\ pc = "done" /\ verdict = "unsat" => stack = <<>>

IInv == TypeOK /\ NoPointLost /\ VerdictIsJustified /\ LoopOK

-----------------------------------------------------------------------------
(* The search ends although seed boxes are explored twice.                 *)
Terminates == <>(verdict # "none")

\* The search is the abstract one, whatever the seeds and the side taken.
BP == INSTANCE BranchAndPrune WITH
        open <- Open,
        used <- cs.used,
        answer <- IF verdict = "none" THEN {} ELSE cs.box

ImplementsBranchAndPrune == BP!Spec
=============================================================================
