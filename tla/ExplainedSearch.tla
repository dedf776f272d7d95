--------------------------- MODULE ExplainedSearch ---------------------------
(***************************************************************************)
(* Where the explanation of UNSAT comes from.  One or more workers narrow  *)
(* the boxes of a branch-and-prune search, each in a ContractorStatus of   *)
(* its own, in any order of the boxes (the stack of IcpSeq, the shared     *)
(* stack of IcpParallel) and of the assertions (the sequences, fixpoints   *)
(* and worklists of TheorySolver::BuildContractor).  When all boxes are    *)
(* empty, the statuses are joined and TheorySolver takes the explanation.  *)
(*                                                                         *)
(* A contractor narrows only the variables of its assertion and tells      *)
(* nobody about the boxes of the other branches: the explanation has to    *)
(* refute the whole box although no status ever saw it whole.              *)
(***************************************************************************)
EXTENDS ContractorStatus

CONSTANTS
  Worker,      \* the workers of the search; one for IcpSeq
  Root,        \* the box TheorySolver::CheckSat is given
  Violating,   \* Violating[c]: the points at which the assertion c is false
  IntVar,      \* the variables of type INTEGER or BINARY
  Integral     \* the values that are integers

AgreeOn(p, q, vs) == \A v \in vs : p[v] = q[v]

ASSUME WorkerAssumption == Worker # {}
ASSUME RootAssumption == Root \in Box /\ ~IsEmpty(Root)
ASSUME IntVarAssumption == IntVar \in SUBSET Var

\* The truth of an assertion depends on its free variables alone.
ASSUME ViolatingAssumption ==
  /\ Violating \in [Constraint -> SUBSET Point]
  /\ \A c \in Constraint : \A p, q \in Point :
       AgreeOn(p, q, VarsOf[c]) /\ p \in Violating[c] => q \in Violating[c]

VARIABLES
  status,       \* status[w]: the ContractorStatus of worker w
  waiting,      \* the boxes no worker has in hand
  verdict,      \* the verdict of the search
  explanation   \* TheorySolver::explanation_

vars == <<status, waiting, verdict, explanation>>

PointsOf(b) == {p \in Point : InBox(p, b)}

Init ==
  /\ status = [w \in Worker |-> NewStatus(EmptyBox)]
  /\ waiting = {Root}
  /\ verdict = "none"
  /\ explanation = {}

Working(w) == verdict = "none" /\ ~IsEmpty(status[w].box)

Take(w) ==
  /\ verdict = "none"
  /\ IsEmpty(status[w].box)
  /\ \E b \in waiting :
       /\ status' = [status EXCEPT ![w].box = b]
       /\ waiting' = waiting \ {b}
  /\ UNCHANGED <<verdict, explanation>>

-----------------------------------------------------------------------------
\* What the assertion c can make of the box b: its own variables get smaller
\* sets, and no point at which it holds is lost.
Narrowings(b, c) ==
  {d \in [Var -> SUBSET Value] :
     /\ d # b
     /\ \A v \in Var : d[v] \subseteq b[v] /\ (v \notin VarsOf[c] => d[v] = b[v])
     /\ \A p \in Point : InBox(p, b) /\ p \notin Violating[c] => InBox(p, d)}

\* ContractorIbexFwdbwd, ContractorForall, FilterAssertion: the assertion is
\* recorded if and only if the box changed.
Narrow(w) ==
  /\ Working(w)
  /\ \E c \in Constraint : \E d \in Narrowings(status[w].box, c) :
       status' = [status EXCEPT ![w] = AddUsedConstraint([@ EXCEPT !.box = Normal(d)], c)]
  /\ UNCHANGED <<waiting, verdict, explanation>>

\* EvaluateBox, and an ODE or an assertion without variables that is false:
\* the assertion is violated all over the box.
Refute(w) ==
  /\ Working(w)
  /\ \E c \in Constraint :
       /\ PointsOf(status[w].box) \subseteq Violating[c]
       /\ status' = [status EXCEPT ![w] = AddUsedConstraint([@ EXCEPT !.box = EmptyBox], c)]
  /\ UNCHANGED <<waiting, verdict, explanation>>

\* ContractorInteger: the bounds of v are rounded inwards, without an assertion.
RoundToIntegers(w) ==
  /\ Working(w)
  /\ \E v \in IntVar :
       LET inner == status[w].box[v] \cap Integral
       IN  /\ inner # status[w].box[v]
           /\ status' = [status EXCEPT ![w] =
                IF inner = {} THEN AddUnsatWitness([@ EXCEPT !.box = EmptyBox], v)
                ELSE [@ EXCEPT !.box = [status[w].box EXCEPT ![v] = inner]]]
  /\ UNCHANGED <<waiting, verdict, explanation>>

\* ContractorODEs could not integrate: no narrowing.
Inconclusive(w) ==
  /\ Working(w)
  /\ \E c \in Constraint : status' = [status EXCEPT ![w] = AddInconclusiveOde(@, c)]
  /\ UNCHANGED <<waiting, verdict, explanation>>

\* The brancher splits one variable; one half waits, the other is kept.
Branch(w) ==
  /\ Working(w)
  /\ \E v \in Var : \E lo, hi \in SUBSET status[w].box[v] :
       /\ lo # {} /\ hi # {}
       /\ lo \cup hi = status[w].box[v]
       /\ lo # status[w].box[v] /\ hi # status[w].box[v]
       /\ status' = [status EXCEPT ![w].box = [status[w].box EXCEPT ![v] = lo]]
       /\ waiting' = waiting \cup {[status[w].box EXCEPT ![v] = hi]}
  /\ UNCHANGED <<verdict, explanation>>

\* A box of the search passes the delta test.
Found(w) ==
  /\ Working(w)
  /\ verdict' = "delta_sat"
  /\ UNCHANGED <<status, waiting, explanation>>

-----------------------------------------------------------------------------
\* A slip: the statuses of the workers but one are not joined.
JoinedOne ==
  LET w == CHOOSE w \in Worker : TRUE
  IN  [box |-> EmptyBox, used |-> status[w].used, witness |-> status[w].witness,
       inconclusive |-> status[w].inconclusive]

\* InplaceJoin of the statuses of all workers.
Joined ==
  [box |-> EmptyBox,
   used |-> UNION {status[w].used : w \in Worker},
   witness |-> UNION {status[w].witness : w \in Worker},
   inconclusive |-> UNION {status[w].inconclusive : w \in Worker}]

\* The workers have run out of boxes: their statuses are joined, and TheorySolver::CheckSat stores the explanation.
Unsat ==
  /\ verdict = "none"
  /\ waiting = {}
  /\ \A w \in Worker : IsEmpty(status[w].box)
  /\ verdict' = "unsat"
  /\ explanation' = Explanation(Joined)
  /\ UNCHANGED <<status, waiting>>

Done == verdict # "none" /\ UNCHANGED vars

Next ==
  \/ \E w \in Worker :
       \/ Take(w) \/ Narrow(w) \/ Refute(w) \/ RoundToIntegers(w)
       \/ Inconclusive(w) \/ Branch(w) \/ Found(w)
  \/ Unsat
  \/ Done

Spec == Init /\ [][Next]_vars

-----------------------------------------------------------------------------
TypeOK ==
  /\ status \in [Worker -> Status]
  /\ waiting \in SUBSET Box
  /\ verdict \in {"none", "unsat", "delta_sat"}
  /\ explanation \in SUBSET Constraint

\* A point the problem is about: in the box, with integers where they belong.
Candidate(p) == p \in Point /\ InBox(p, Root) /\ \A v \in IntVar : p[v] \in Integral

(* The explanation is a set of assertions that no point of the box         *)
(* satisfies together: the clause TheorySolver's caller learns from it,    *)
(* that they are not all true, is implied by the assertions' meaning.      *)
ExplanationRefutes ==
  verdict = "unsat" =>
    \A p \in Point : Candidate(p) => \E c \in explanation : p \in Violating[c]

-----------------------------------------------------------------------------
\* What makes ExplanationRefutes inductive.

OpenBoxes == waiting \cup {b \in {status[w].box : w \in Worker} : ~IsEmpty(b)}

\* Every recorded assertion is about variables of K only, or about none of K.
Separates(K) == \A c \in Joined.used : VarsOf[c] \subseteq K \/ ~Touches(c, K)

SatisfiesOn(p, K) == \A c \in Joined.used : VarsOf[c] \subseteq K => p \notin Violating[c]

\* Let the recorded assertions fall apart along K and no box have been emptied
\* by a variable outside K.  A point that satisfies those of K can then be
\* followed, in the variables of K, down to a box that is still open: what
\* happened to the other variables is no concern of it.
Coverage ==
  \A K \in SUBSET Var : \A p \in Point :
    Candidate(p) /\ Joined.witness \subseteq K /\ Separates(K) /\ SatisfiesOn(p, K)
      => \E b \in OpenBoxes : \A v \in K : p[v] \in b[v]

UnsatOK ==
  /\ \A b \in waiting : ~IsEmpty(b)
  /\ verdict = "unsat" => OpenBoxes = {} /\ explanation = Explanation(Joined)

IInv == TypeOK /\ Coverage /\ UnsatOK

=============================================================================
