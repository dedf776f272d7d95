---------------------------- MODULE IcpParallel ----------------------------
(***************************************************************************)
(* IcpParallel::CheckSat: the calling thread prunes the box once, puts it  *)
(* on a lock-free stack and starts Jobs workers (Jobs - 1 tasks of the     *)
(* thread pool and itself).  The workers share the stack, the number of    *)
(* boxes that are still to be dealt with and the flag found_delta_sat;     *)
(* each has its own ContractorStatus.  The caller waits for the tasks and  *)
(* joins the statuses.                                                     *)
(*                                                                         *)
(* A step of a worker is what it does up to and including one access to a  *)
(* shared variable.  The stack of libcds is linearizable, so its push and  *)
(* its pop are one step each; the atomics are modelled as sequentially     *)
(* consistent (a relaxed fetch_add is sequenced before the release push    *)
(* that publishes the box it counts).  Which half of a box is pushed       *)
(* alternates per worker in the code and is left open here.                *)
(***************************************************************************)
EXTENDS Boxes, FiniteSets, Sequences

CONSTANTS
  Jobs,           \* config.number_of_jobs()
  PruneMayThrow   \* whether Contractor::Prune may leave by an exception

ASSUME JobsAssumption == Jobs \in Nat /\ Jobs > 1
ASSUME PruneMayThrowAssumption == PruneMayThrow \in BOOLEAN

Worker == 0 .. Jobs - 1
Main == Jobs - 1             \* the worker that runs on the calling thread

VARIABLES
  phase,            \* where CheckSat is
  cs,               \* the caller's ContractorStatus: its box and used assertions
  status,           \* status_vector_[w]
  pc,               \* where worker w is
  need_to_pop,      \* the local flag of worker w
  halves,           \* the two halves of its box a worker is about to push/keep
  global_stack,     \* the shared stack of boxes, top first
  number_of_boxes,  \* boxes in the stack or under processing
  found_delta_sat,  \* -1 or the last worker that found a delta-box
  awaited,          \* how many results the barrier has got
  verdict           \* what CheckSat returned

shared == <<global_stack, number_of_boxes, found_delta_sat>>
caller == <<phase, cs, awaited, verdict>>
vars == <<caller, status, pc, need_to_pop, halves, shared>>

Status == [box : Box, used : SUBSET Constraint]

-----------------------------------------------------------------------------
Init ==
  /\ phase = "prune"
  /\ cs = [box |-> Point, used |-> {}]
  /\ status = [w \in Worker |-> cs]
  /\ pc = [w \in Worker |-> "queued"]
  /\ need_to_pop = [w \in Worker |-> TRUE]
  /\ halves = [w \in Worker |-> <<{}, {}>>]
  /\ global_stack = <<>>
  /\ number_of_boxes = 0
  /\ found_delta_sat = -1
  /\ awaited = 0
  /\ verdict = "none"

Pruned(st, r) == [box |-> r[1], used |-> st.used \cup r[2]]

InitialPrune ==
  /\ phase = "prune"
  /\ \E r \in Prunings(cs.box) : cs' = Pruned(cs, r)
  /\ phase' = "check"
  /\ UNCHANGED <<awaited, verdict, status, pc, need_to_pop, halves, shared>>

ReturnAfterInitialPrune ==
  /\ phase = "check"
  /\ cs.box = {}
  /\ phase' = "done"
  /\ verdict' = "unsat"
  /\ UNCHANGED <<cs, awaited, status, pc, need_to_pop, halves, shared>>

\* The root box is counted, every worker gets a copy of the status, the pool
\* gets its tasks and the calling thread enters Worker.
Launch ==
  /\ phase = "check"
  /\ cs.box # {}
  /\ phase' = "running"
  /\ global_stack' = <<cs.box>>
  /\ number_of_boxes' = 1
  /\ status' = [w \in Worker |-> cs]
  /\ pc' = [pc EXCEPT ![Main] = "head"]
  /\ UNCHANGED <<cs, awaited, verdict, need_to_pop, halves, found_delta_sat>>

-----------------------------------------------------------------------------
Goto(w, label) == pc' = [pc EXCEPT ![w] = label]

\* A thread of the pool takes the task of worker w.
StartTask(w) ==
  /\ phase = "running"
  /\ pc[w] = "queued"
  /\ Goto(w, "head")
  /\ UNCHANGED <<caller, status, need_to_pop, halves, shared>>

\* The first conjunct of the loop condition.
ReadFound(w) ==
  /\ pc[w] = "head"
  /\ Goto(w, IF found_delta_sat = -1 THEN "load" ELSE "exit")
  /\ UNCHANGED <<caller, status, need_to_pop, halves, shared>>

\* The second conjunct, and step 1's test of need_to_pop.
ReadNumber(w) ==
  /\ pc[w] = "load"
  /\ Goto(w, IF number_of_boxes > 0
             THEN IF need_to_pop[w] THEN "pop" ELSE "prune"
             ELSE "exit")
  /\ UNCHANGED <<caller, status, need_to_pop, halves, shared>>

PopFails(w) ==
  /\ pc[w] = "pop"
  /\ global_stack = <<>>
  /\ Goto(w, "head")
  /\ UNCHANGED <<caller, status, need_to_pop, halves, shared>>

Pop(w) ==
  /\ pc[w] = "pop"
  /\ global_stack # <<>>
  /\ status' = [status EXCEPT ![w].box = Head(global_stack)]
  /\ global_stack' = Tail(global_stack)
  /\ Goto(w, "prune")
  /\ UNCHANGED <<caller, need_to_pop, halves, number_of_boxes, found_delta_sat>>

\* A slip: the box is dropped without taking it off the count.
DropBoxUncounted(w, st) ==
  /\ status' = [status EXCEPT ![w] = st]
  /\ Goto(w, "head")
  /\ UNCHANGED <<caller, halves, shared>>

\* number_of_boxes->fetch_sub(1): the worker is done with its box.
DropBox(w, st) ==
  /\ status' = [status EXCEPT ![w] = st]
  /\ number_of_boxes' = number_of_boxes - 1
  /\ Goto(w, "head")
  /\ UNCHANGED <<caller, halves, global_stack, found_delta_sat>>

PruneToEmpty(w) ==
  /\ pc[w] = "prune"
  /\ need_to_pop' = [need_to_pop EXCEPT ![w] = TRUE]
  /\ \E r \in Prunings(status[w].box) :
       r[1] = {} /\ DropBox(w, Pruned(status[w], r))

PruneBox(w) ==
  /\ pc[w] = "prune"
  /\ need_to_pop' = [need_to_pop EXCEPT ![w] = TRUE]
  /\ \E r \in Prunings(status[w].box) :
       r[1] # {} /\ status' = [status EXCEPT ![w] = Pruned(status[w], r)]
  /\ Goto(w, "eval")
  /\ UNCHANGED <<caller, halves, shared>>

\* Prune leaves by an exception: Worker has no handler, the task's future
\* keeps the exception, and the box in hand stays counted.
Throw(w) ==
  /\ PruneMayThrow
  /\ pc[w] = "prune"
  /\ need_to_pop' = [need_to_pop EXCEPT ![w] = TRUE]
  /\ Goto(w, "threw")
  /\ UNCHANGED <<caller, status, halves, shared>>

\* A slip: the assertion that refutes the box is not recorded.
RefuteUnrecorded(w) ==
  /\ pc[w] = "eval"
  /\ Refuters(status[w].box) # {}
  /\ DropBox(w, [box |-> {}, used |-> status[w].used])
  /\ UNCHANGED need_to_pop

\* EvaluateBox finds an assertion false on the whole box.
Refute(w) ==
  /\ pc[w] = "eval"
  /\ \E c \in Refuters(status[w].box) :
       DropBox(w, [box |-> {}, used |-> status[w].used \cup {c}])
  /\ UNCHANGED need_to_pop

\* The box passes the delta test, or cannot be split.
Find(w) ==
  /\ pc[w] = "eval"
  /\ Answerable(status[w].box)
  /\ found_delta_sat' = w
  /\ Goto(w, "found")
  /\ UNCHANGED <<caller, status, need_to_pop, halves, global_stack, number_of_boxes>>

\* ParallelBranch up to its fetch_add.
Branch(w) ==
  /\ pc[w] = "eval"
  /\ ~SmallEnough(status[w].box)
  /\ \E h \in Halves[status[w].box] : halves' = [halves EXCEPT ![w] = h]
  /\ number_of_boxes' = number_of_boxes + 1
  /\ Goto(w, "push")
  /\ UNCHANGED <<caller, status, need_to_pop, global_stack, found_delta_sat>>

\* The rest of ParallelBranch: one half is pushed, the other one is kept.
PushHalf(w) ==
  /\ pc[w] = "push"
  /\ global_stack' = <<halves[w][1]>> \o global_stack
  /\ status' = [status EXCEPT ![w].box = halves[w][2]]
  /\ need_to_pop' = [need_to_pop EXCEPT ![w] = FALSE]
  /\ Goto(w, "head")
  /\ UNCHANGED <<caller, halves, number_of_boxes, found_delta_sat>>

WorkerStep(w) ==
  \/ StartTask(w) \/ ReadFound(w) \/ ReadNumber(w) \/ PopFails(w) \/ Pop(w)
  \/ PruneToEmpty(w) \/ PruneBox(w) \/ Throw(w)
  \/ Refute(w) \/ Find(w) \/ Branch(w) \/ PushHalf(w)

-----------------------------------------------------------------------------
Returned(w) == pc[w] \in {"exit", "found"}

\* A slip: the barrier runs over the statuses, not over the results.
AwaitPastEnd ==
  /\ phase = "running"
  /\ Returned(Main)
  /\ awaited <= Main
  /\ Returned(awaited)
  /\ awaited' = awaited + 1
  /\ UNCHANGED <<phase, cs, verdict, status, pc, need_to_pop, halves, shared>>

\* result.get() of the next result, once this thread's own Worker returned.
Await ==
  /\ phase = "running"
  /\ Returned(Main)
  /\ awaited < Main
  /\ Returned(awaited)
  /\ awaited' = awaited + 1
  /\ UNCHANGED <<phase, cs, verdict, status, pc, need_to_pop, halves, shared>>

\* An exception leaves CheckSat: the caller's own, or one that get() rethrows.
Rethrow ==
  /\ phase = "running"
  /\ \/ pc[Main] = "threw"
     \/ Returned(Main) /\ awaited < Main /\ pc[awaited] = "threw"
  /\ phase' = "threw"
  /\ UNCHANGED <<cs, awaited, verdict, status, pc, need_to_pop, halves, shared>>

JoinedUsed == {c \in Constraint : c \in cs.used \/ \E w \in Worker : c \in status[w].used}

Answer(box, used) ==
  /\ phase' = "done"
  /\ cs' = [box |-> box, used |-> used]
  /\ verdict' = IF found_delta_sat >= 0 THEN "delta_sat" ELSE "unsat"
  /\ UNCHANGED <<awaited, status, pc, need_to_pop, halves, shared>>

\* Slips: the statuses of the pool's workers are not joined; the box is always
\* the caller's; nobody waits for the pool.
JoinMainOnly ==
  /\ phase = "running" /\ Returned(Main) /\ awaited = Main
  /\ Answer(IF found_delta_sat >= 0 THEN status[found_delta_sat].box ELSE {},
            cs.used \cup status[Main].used)

JoinMainBox ==
  /\ phase = "running" /\ Returned(Main) /\ awaited = Main
  /\ Answer(IF found_delta_sat >= 0 THEN status[Main].box ELSE {}, JoinedUsed)

JoinWithoutBarrier ==
  /\ phase = "running" /\ Returned(Main)
  /\ Answer(IF found_delta_sat >= 0 THEN status[found_delta_sat].box ELSE {}, JoinedUsed)

\* InplaceJoin of every status, then the box is that of the worker in
\* found_delta_sat, or empty.
Join ==
  /\ phase = "running"
  /\ Returned(Main)
  /\ awaited = Main
  /\ Answer(IF found_delta_sat >= 0 THEN status[found_delta_sat].box ELSE {}, JoinedUsed)

CallerStep ==
  InitialPrune \/ ReturnAfterInitialPrune \/ Launch \/ Await \/ Rethrow \/ Join

\* CheckSat is over and no thread of the pool runs its task any more.
Finished ==
  /\ phase \in {"done", "threw"}
  /\ \A w \in Worker : pc[w] \notin {"head", "load", "pop", "prune", "eval", "push"}
  /\ UNCHANGED vars

Next == CallerStep \/ (\E w \in Worker : WorkerStep(w)) \/ Finished

Spec == Init /\ [][Next]_vars

\* Every worker runs on a thread of its own (the pool has Jobs - 1 threads and
\* the barrier leaves none of them busy), and the operating system runs them all.
FairSpec ==
  /\ Spec
  /\ WF_vars(CallerStep)
  /\ \A w \in Worker : WF_vars(WorkerStep(w))

-----------------------------------------------------------------------------
TypeOK ==
  /\ phase \in {"prune", "check", "running", "done", "threw"}
  /\ cs \in Status
  /\ status \in [Worker -> Status]
  /\ pc \in [Worker -> {"queued", "head", "load", "pop", "prune", "eval", "push",
                        "exit", "found", "threw"}]
  /\ need_to_pop \in [Worker -> BOOLEAN]
  /\ halves \in [Worker -> Box \X Box]
  /\ global_stack \in Seq(Box)
  /\ number_of_boxes \in Int
  /\ found_delta_sat \in Worker \cup {-1}
  /\ awaited \in 0 .. Main
  /\ verdict \in {"none", "unsat", "delta_sat"}

\* The workers with a box of their own that is still counted: a worker that
\* found an answer or threw never takes its box off the count.
Holding == {w \in Worker :
              \/ pc[w] \in {"prune", "eval", "push", "found", "threw"}
              \/ ~need_to_pop[w]}
Pushing == {w \in Worker : pc[w] = "push"}

\* The points of the boxes that are in the stack or in the hands of a worker.
Pending ==
  {p \in Point : \/ \E i \in 1 .. Len(global_stack) : p \in global_stack[i]
                \/ \E w \in Holding : p \in status[w].box}

\* The points that are not dealt with, in every phase of CheckSat.
Open == IF phase \in {"prune", "check"} \/ verdict = "unsat" THEN cs.box ELSE Pending

(* number_of_boxes is the number of boxes in the stack, in the hands of a  *)
(* worker (one that threw included), or announced by a worker that has not *)
(* pushed them yet: the atomic that decides when the workers stop agrees   *)
(* with the stack and the statuses it does not share a lock with.          *)
CounterCountsBoxes ==
  number_of_boxes = Len(global_stack) + Cardinality(Holding) + Cardinality(Pushing)

(* A worker leaves the loop before anyone found a delta-box only if there  *)
(* is no box left anywhere: the counter never reads 0 while a box is on    *)
(* its way to the stack.                                                   *)
NoBoxAbandoned ==
  (found_delta_sat = -1 /\ \E w \in Worker : pc[w] = "exit")
    => global_stack = <<>> /\ Holding = {}

(* No point of the initial box is lost: it is in a box that will still be  *)
(* processed, or some thread recorded an assertion that rules it out.      *)
NoPointLost == \A p \in Point : p \in Open \/ Excludes(JoinedUsed, p)

(* After UNSAT the assertions in the joined status, whichever worker       *)
(* recorded them, rule out every point of the box CheckSat was given.      *)
UnsatIsExplained ==
  verdict = "unsat" => cs.box = {} /\ \A p \in Point : Excludes(cs.used, p)

(* After delta-SAT the box handed back is one that a worker judged         *)
(* answerable, although several workers may have written found_delta_sat   *)
(* and others went on working in their own statuses.                       *)
AnswerIsJudged == verdict = "delta_sat" => Answerable(cs.box)

(* CheckSat returns a verdict (the stack and the counters, its locals, go  *)
(* away) only when no worker uses them any more.                           *)
NoWorkerOutlivesTheCall ==
  verdict # "none" =>
    \/ \A w \in Worker : Returned(w)
    \/ \A w \in Worker : pc[w] = "queued"   \* no task was ever enqueued

-----------------------------------------------------------------------------
\* What makes the invariants above inductive.

LocalOK ==
  \A w \in Worker :
    /\ pc[w] \in {"queued", "pop", "eval", "push", "found", "threw"} => need_to_pop[w]
    /\ pc[w] = "push" => halves[w] \in Halves[status[w].box]

\* found_delta_sat names a worker whose box is still the one it judged.
FoundOK ==
  /\ \A w \in Worker : pc[w] = "found" => found_delta_sat # -1
  /\ found_delta_sat # -1 => /\ pc[found_delta_sat] = "found"
                             /\ Answerable(status[found_delta_sat].box)

PhaseOK ==
  /\ phase \in {"prune", "check"} =>
       /\ \A w \in Worker : pc[w] = "queued" /\ status[w].used = {}
       /\ global_stack = <<>>
       /\ number_of_boxes = 0
       /\ found_delta_sat = -1
  /\ phase = "done" <=> verdict # "none"
  /\ \A w \in Worker : w < awaited => Returned(w)

IInv ==
  /\ TypeOK
  /\ LocalOK
  /\ FoundOK
  /\ PhaseOK
  /\ CounterCountsBoxes
  /\ NoBoxAbandoned
  /\ NoPointLost
  /\ UnsatIsExplained
  /\ AnswerIsJudged
  /\ NoWorkerOutlivesTheCall

-----------------------------------------------------------------------------
(* The search ends unless Prune throws: idle workers that spin on an empty *)
(* stack do not keep the busy ones from finishing, and the barrier is      *)
(* passed.  A worker that threw leaves its box counted, and the others may *)
(* wait for it for ever.                                                   *)
Terminates == <>(verdict # "none" \/ \E w \in Worker : pc[w] = "threw")

\* The search is the abstract one: points are ruled out by several workers at
\* a time, and the answer is that of the joined status.
BP == INSTANCE BranchAndPrune WITH
        open <- Open,
        used <- JoinedUsed,
        answer <- IF verdict = "none" THEN {} ELSE cs.box

ImplementsBranchAndPrune == BP!Spec
=============================================================================
