--------------------------- MODULE TheoryFixpoint ---------------------------
(***************************************************************************)
(* The two ways TheorySolver::BuildContractor runs a list of contractors   *)
(* to a fixpoint: ContractorFixpoint makes pass after pass, while          *)
(* ContractorWorklistFixpoint keeps a worklist of those whose input has    *)
(* changed. Prune is called again and again along one branch of the        *)
(* search: the brancher halves a dimension, and the worklist is told which *)
(* (cs->branching_point()), so that it starts with the contractors that    *)
(* read it and trusts the others to have nothing to do.                    *)
(*                                                                         *)
(* A box gives every dimension the interval [0, n] by its width n, which   *)
(* is all the termination condition sees of it.                            *)
(***************************************************************************)
EXTENDS Integers, Sequences

CONSTANTS
  Dim,        \* the dimensions of the box
  NoDim,      \* the branching point -1
  Width,      \* the largest width
  Ctc,        \* the sequence of contractors: Ctc[i][b] is b pruned
  Input,      \* Input[i]: the dimensions the i-th contractor reads
  Threshold   \* 1 / DREAL_EXPERIMENTAL_THEORY_FIXEDPT_THRESHOLD

EmptyBox == [d \in Dim |-> -1]
Box == [Dim -> 0 .. Width] \cup {EmptyBox}
Contractors == 1 .. Len(Ctc)
Within(a, b) == \A d \in Dim : a[d] <= b[d]

ASSUME ThresholdAssumption ==
  /\ Threshold \in Nat \ {0}
  /\ Width \in Nat /\ Dim # {} /\ NoDim \notin Dim

\* A contractor makes a box smaller, the less the larger the box is, and
\* whether it has anything to do depends on its input alone.
ASSUME CtcAssumption ==
  /\ Len(Ctc) \in Nat \ {0}
  /\ \A i \in Contractors :
       /\ Input[i] \subseteq Dim
       /\ \A b \in Box :
            /\ Ctc[i][b] \in Box /\ Within(Ctc[i][b], b)
            /\ Ctc[i][b] # EmptyBox => \A d \in Dim \ Input[i] : Ctc[i][b][d] = b[d]
       /\ \A a, b \in Box : Within(a, b) => Within(Ctc[i][a], Ctc[i][b])
       /\ \A a, b \in Box \ {EmptyBox} : (\A d \in Input[i] : a[d] = b[d]) =>
            (Ctc[i][a] = a <=> Ctc[i][b] = b)

VARIABLES
  kind,             \* "worklist" or "passes", config.use_worklist_fixpoint()
  pc,               \* "call": before a call, "first": filling the worklist,
                    \* "loop": emptying it, "pass", "returned"
  cs_box,           \* cs->box()
  branching_point,
  old_box,          \* old_iv, the box the termination condition looks back at
  todo,             \* the contractors of the first round that are still to run
  worklist,
  ctc_idx,          \* the contractor that runs next
  start,            \* ghost: the box the call started with
  unfinished        \* ghost: a call of this branch ended before its fixpoint

fixpointVars == <<kind, pc, cs_box, branching_point, old_box, todo, worklist,
                  ctc_idx, start, unfinished>>

\* cs->output() after a Prune that started with the output reset.
Output(old, new) == {d \in Dim : new[d] # old[d]}

\* The contractors that read one of the dimensions of out.
Readers(out) == {i \in Contractors : Input[i] \cap out # {}}

\* A slip: a dimension that is a point already counts as one that improves.
TermCondPoint(old, new) ==
  \A d \in Dim : (old[d] - new[d]) * Threshold < old[d]

\* DefaultTerminationCondition: no dimension improved by the threshold.
TermCond(old, new) ==
  \A d \in Dim : old[d] = 0 \/ (old[d] - new[d]) * Threshold < old[d]

Smallest(S) == CHOOSE i \in S : \A j \in S : i <= j

FixpointInit ==
  /\ kind \in {"worklist", "passes"}
  /\ pc = "call"
  /\ cs_box \in [Dim -> 0 .. Width]
  /\ branching_point = NoDim
  /\ old_box = cs_box
  /\ todo = {}
  /\ worklist = {}
  /\ ctc_idx = 1
  /\ start = cs_box
  /\ unfinished = FALSE

\* The worklist runs all contractors once, or those that read the dimension
\* the box was cut in; ContractorFixpoint does not ask.
Call ==
  /\ pc = "call"
  /\ pc' = IF kind = "worklist" THEN "first" ELSE "pass"
  /\ old_box' = cs_box
  /\ todo' = IF branching_point = NoDim THEN Contractors ELSE Readers({branching_point})
  /\ worklist' = {}
  /\ ctc_idx' = 1
  /\ start' = cs_box
  /\ unfinished' = (unfinished /\ kind = "worklist" /\ branching_point # NoDim)
  /\ UNCHANGED <<kind, cs_box, branching_point>>

-----------------------------------------------------------------------------
(* ContractorFixpoint::Prune.                                              *)

\* One contractor of a pass. An empty box returns at once; after the last
\* contractor the termination condition decides on another pass.
Pass ==
  /\ pc = "pass"
  /\ cs_box' = Ctc[ctc_idx][cs_box]
  /\ LET last == ctc_idx = Len(Ctc)
         ends == last /\ TermCond(old_box, cs_box')
     IN  /\ pc' = IF cs_box' = EmptyBox \/ ends THEN "returned" ELSE pc
         /\ unfinished' = (cs_box' # EmptyBox /\ ends /\ cs_box' # old_box)
         /\ ctc_idx' = IF last THEN 1 ELSE ctc_idx + 1
         /\ old_box' = IF last /\ ~ends THEN cs_box' ELSE old_box
  /\ UNCHANGED <<kind, branching_point, todo, worklist, start>>

-----------------------------------------------------------------------------
(* ContractorWorklistFixpoint::Prune.                                      *)

\* One contractor of the first round.
FirstRound ==
  /\ pc = "first" /\ todo # {}
  /\ LET i == Smallest(todo) IN
       /\ cs_box' = Ctc[i][cs_box]
       /\ worklist' = worklist \cup Readers(Output(cs_box, cs_box'))
       /\ todo' = todo \ {i}
  /\ pc' = IF cs_box' = EmptyBox THEN "returned" ELSE "first"
  /\ UNCHANGED <<kind, branching_point, old_box, ctc_idx, start, unfinished>>

\* Nothing to do, or the first round improved no dimension enough; otherwise
\* the loop takes the box as the one to look back at.
EndFirstRound ==
  /\ pc = "first" /\ todo = {}
  /\ IF worklist = {} \/ TermCond(old_box, cs_box)
     THEN /\ pc' = "returned"
          /\ unfinished' = (unfinished \/ worklist # {})
          /\ UNCHANGED <<old_box, ctc_idx>>
     ELSE /\ pc' = "loop"
          /\ old_box' = cs_box
          /\ ctc_idx' = Smallest(worklist)
          /\ UNCHANGED unfinished
  /\ UNCHANGED <<kind, cs_box, branching_point, todo, worklist, start>>

\* find_next, or find_first once past the last one.
NextIndex(S, i) ==
  IF \E j \in S : j > i THEN Smallest({j \in S : j > i}) ELSE Smallest(S)

\* A slip: the contractor is taken off the worklist after it has run, so what
\* it does to its own input is forgotten.
RunAndForget ==
  /\ pc = "loop"
  /\ cs_box' = Ctc[ctc_idx][cs_box]
  /\ worklist' = (worklist \cup Readers(Output(cs_box, cs_box'))) \ {ctc_idx}
  /\ IF cs_box' = EmptyBox \/ worklist' = {}
     THEN pc' = "returned" /\ UNCHANGED ctc_idx
     ELSE ctc_idx' = NextIndex(worklist', ctc_idx) /\ UNCHANGED pc
  /\ UNCHANGED <<kind, branching_point, old_box, todo, start, unfinished>>

\* A turn of the inner while (true): the contractor is taken off the worklist
\* first, so it comes back if it changes what it reads. The loop is left only
\* by a return; the outer do ... while never comes to its condition.
Run ==
  /\ pc = "loop"
  /\ cs_box' = Ctc[ctc_idx][cs_box]
  /\ worklist' = (worklist \ {ctc_idx}) \cup Readers(Output(cs_box, cs_box'))
  /\ IF cs_box' = EmptyBox \/ worklist' = {}
     THEN pc' = "returned" /\ UNCHANGED ctc_idx
     ELSE ctc_idx' = NextIndex(worklist', ctc_idx) /\ UNCHANGED pc
  /\ UNCHANGED <<kind, branching_point, old_box, todo, start, unfinished>>

-----------------------------------------------------------------------------
\* The brancher: a half of the box, and the dimension that was cut, which
\* IcpSeq writes into the status and IcpParallel does not.
Branch ==
  /\ pc = "returned"
  /\ cs_box # EmptyBox
  /\ \E d \in Dim :
       /\ cs_box[d] > 0
       /\ cs_box' = [cs_box EXCEPT ![d] = @ \div 2]
       /\ branching_point' \in {d, NoDim}
  /\ pc' = "call"
  /\ UNCHANGED <<kind, old_box, todo, worklist, ctc_idx, start, unfinished>>

Prune == Call \/ Pass \/ FirstRound \/ EndFirstRound \/ Run

Done == pc = "returned" /\ UNCHANGED fixpointVars

FixpointNext == Prune \/ Branch \/ Done

\* A call of Prune runs to its end; nobody has to call it.
FixpointSpec == FixpointInit /\ [][FixpointNext]_fixpointVars /\ WF_fixpointVars(Prune)

-----------------------------------------------------------------------------
FixpointTypeOK ==
  /\ kind \in {"worklist", "passes"}
  /\ pc \in {"call", "first", "loop", "pass", "returned"}
  /\ cs_box \in Box /\ old_box \in Box /\ start \in Box
  /\ branching_point \in Dim \cup {NoDim}
  /\ todo \subseteq Contractors /\ worklist \subseteq Contractors
  /\ ctc_idx \in Contractors
  /\ unfinished \in BOOLEAN

\* The widest box inside start that no contractor narrows.
GreatestFixpoint ==
  LET fixed == {b \in Box : Within(b, start) /\ \A i \in Contractors : Ctc[i][b] = b}
  IN  CHOOSE b \in fixed : \A c \in fixed : Within(c, b)

(* No wake-up is lost and no call ends early: a call that returns an empty *)
(* box, that emptied its worklist, or whose last pass changed nothing,     *)
(* returns the widest fixpoint inside the box it was given. So do the      *)
(* calls with a branching point, which never ran the other contractors,    *)
(* and it is the same box for both loops and any order of the contractors  *)
(* (theory_solver.cc, 216: a fixpoint's result is order-independent).      *)
QuietReturnIsTheFixpoint ==
  pc = "returned" /\ (cs_box = EmptyBox \/ ~unfinished) => cs_box = GreatestFixpoint

(* Every call returns: contractors that narrow a box by ever smaller steps *)
(* come to an end, and dimensions that are points do not keep them going.  *)
Returns == pc # "returned" ~> pc = "returned"
=============================================================================
