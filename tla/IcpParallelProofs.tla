------------------------- MODULE IcpParallelProofs -------------------------
(***************************************************************************)
(* Theorems about IcpParallel for every number of jobs, every set of       *)
(* points and assertions, every sound contractor and every brancher, and   *)
(* about the ids its threads index their tables with (ThreadIds).          *)
(***************************************************************************)
EXTENDS IcpParallel, ThreadIds, FiniteSetTheorems, TLAPS

USE DEF Box, Main

(* The outcome of a Prune is a smaller box and a set of assertions.        *)
LEMMA PruningType ==
  ASSUME NEW st \in Status, NEW r \in Prunings(st.box)
  PROVE  /\ Pruned(st, r) \in Status
         /\ r[1] \in SUBSET st.box
         /\ r[2] \in SUBSET Constraint
BY DEF Prunings, Pruned, Status

LEMMA MainIsAWorker == Main \in Worker /\ Worker \subseteq Int
BY JobsAssumption DEF Worker

(* Every variable of the search keeps its type.                            *)
LEMMA TypeOKInit == Init => TypeOK
BY JobsAssumption DEF Init, TypeOK, Status, Worker

LEMMA TypeOKStep == TypeOK /\ [Next]_vars => TypeOK'
<1> SUFFICES ASSUME TypeOK, [Next]_vars
             PROVE  TypeOK'
  OBVIOUS
<1> USE MainIsAWorker DEF TypeOK
<1>1. CASE InitialPrune
  BY <1>1, PruningType DEF InitialPrune, shared
<1>2. CASE ReturnAfterInitialPrune
  BY <1>2 DEF ReturnAfterInitialPrune, shared
<1>3. CASE Launch
  <2>1. global_stack' \in Seq(Box)
    BY <1>3 DEF Launch, Status
  <2> QED
    BY <1>3, <2>1 DEF Launch, shared
<1>4. CASE Await
  BY <1>4, JobsAssumption DEF Await, shared
<1>5. CASE Rethrow
  BY <1>5 DEF Rethrow, shared
<1>6. CASE Join
  <2>1. found_delta_sat >= 0 => found_delta_sat \in Worker
    BY DEF Worker
  <2>2. JoinedUsed \in SUBSET Constraint
    BY DEF JoinedUsed
  <2> QED
    BY <1>6, <2>1, <2>2 DEF Join, Answer, Status, shared
<1>7. ASSUME NEW w \in Worker, WorkerStep(w)
      PROVE  TypeOK'
  <2>1. CASE StartTask(w)
    BY <2>1 DEF StartTask, Goto, shared, caller
  <2>2. CASE ReadFound(w)
    BY <2>2 DEF ReadFound, Goto, shared, caller
  <2>3. CASE ReadNumber(w)
    BY <2>3 DEF ReadNumber, Goto, shared, caller
  <2>4. CASE PopFails(w)
    BY <2>4 DEF PopFails, Goto, shared, caller
  <2>5. CASE Pop(w)
    <3>1. Head(global_stack) \in Box /\ Tail(global_stack) \in Seq(Box)
      BY <2>5 DEF Pop
    <3> QED
      BY <2>5, <3>1 DEF Pop, Goto, Status, caller
  <2>6. CASE PruneToEmpty(w)
    <3>1. PICK r \in Prunings(status[w].box) : DropBox(w, Pruned(status[w], r))
      BY <2>6 DEF PruneToEmpty
    <3>2. Pruned(status[w], r) \in Status
      BY PruningType
    <3> QED
      BY <2>6, <3>1, <3>2 DEF PruneToEmpty, DropBox, Goto, caller
  <2>7. CASE PruneBox(w)
    <3>1. PICK r \in Prunings(status[w].box) :
            status' = [status EXCEPT ![w] = Pruned(status[w], r)]
      BY <2>7 DEF PruneBox
    <3>2. Pruned(status[w], r) \in Status
      BY PruningType
    <3> QED
      BY <2>7, <3>1, <3>2 DEF PruneBox, Goto, shared, caller
  <2>8. CASE Throw(w)
    BY <2>8 DEF Throw, Goto, shared, caller
  <2>9. CASE Refute(w)
    <3>1. Refuters(status[w].box) \subseteq Constraint
      BY DEF Refuters
    <3> QED
      BY <2>9, <3>1 DEF Refute, DropBox, Goto, Status, caller
  <2>10. CASE Find(w)
    BY <2>10 DEF Find, Goto, caller
  <2>11. CASE Branch(w)
    BY <2>11, HalvesAssumption DEF Branch, Goto, Status, caller
  <2>12. CASE PushHalf(w)
    <3>1. /\ halves[w][1] \in Box
          /\ halves[w][2] \in Box
      OBVIOUS
    <3>2. global_stack' \in Seq(Box)
      BY <2>12, <3>1 DEF PushHalf
    <3> QED
      BY <2>12, <3>1, <3>2 DEF PushHalf, Goto, Status, caller
  <2> QED
    BY <1>7, <2>1, <2>2, <2>3, <2>4, <2>5, <2>6, <2>7, <2>8, <2>9, <2>10,
       <2>11, <2>12 DEF WorkerStep
<1>8. CASE Finished
  BY <1>8 DEF Finished, vars, caller, shared
<1>9. CASE UNCHANGED vars
  BY <1>9 DEF vars, caller, shared
<1> QED
  BY <1>1, <1>2, <1>3, <1>4, <1>5, <1>6, <1>7, <1>8, <1>9 DEF Next, CallerStep

THEOREM TypeCorrect == Spec => []TypeOK
BY TypeOKInit, TypeOKStep, PTL DEF Spec

-----------------------------------------------------------------------------
(* The next-state relation as a case split, for the proofs below.          *)
LEMMA NextCases ==
  ASSUME [Next]_vars
  PROVE  \/ InitialPrune \/ ReturnAfterInitialPrune \/ Launch
         \/ Await \/ Rethrow \/ Join
         \/ \E w \in Worker : WorkerStep(w)
         \/ UNCHANGED vars
BY DEF Next, CallerStep, Finished

(* The local variables of a worker fit its program counter.                *)
LEMMA LocalOKStep == TypeOK /\ LocalOK /\ PhaseOK /\ [Next]_vars => LocalOK'
<1> SUFFICES ASSUME TypeOK, LocalOK, PhaseOK, [Next]_vars
             PROVE  LocalOK'
  OBVIOUS
<1> USE MainIsAWorker DEF TypeOK, LocalOK
<1>1. CASE InitialPrune
  BY <1>1 DEF InitialPrune, shared
<1>2. CASE ReturnAfterInitialPrune
  BY <1>2 DEF ReturnAfterInitialPrune, shared
<1>3. CASE Launch
  BY <1>3 DEF Launch, PhaseOK
<1>4. CASE Await
  BY <1>4 DEF Await, shared
<1>5. CASE Rethrow
  BY <1>5 DEF Rethrow, shared
<1>6. CASE Join
  BY <1>6 DEF Join, Answer, shared
<1>7. ASSUME NEW w \in Worker, WorkerStep(w)
      PROVE  LocalOK'
  <2>1. CASE StartTask(w)
    BY <2>1 DEF StartTask, Goto, shared, caller
  <2>2. CASE ReadFound(w)
    BY <2>2 DEF ReadFound, Goto, shared, caller
  <2>3. CASE ReadNumber(w)
    BY <2>3 DEF ReadNumber, Goto, shared, caller
  <2>4. CASE PopFails(w)
    BY <2>4 DEF PopFails, Goto, shared, caller
  <2>5. CASE Pop(w)
    BY <2>5 DEF Pop, Goto, caller
  <2>6. CASE PruneToEmpty(w)
    <3>1. PICK r \in Prunings(status[w].box) : DropBox(w, Pruned(status[w], r))
      BY <2>6 DEF PruneToEmpty
    <3> QED
      BY <2>6, <3>1 DEF PruneToEmpty, DropBox, Goto, caller
  <2>7. CASE PruneBox(w)
    BY <2>7 DEF PruneBox, Goto, shared, caller
  <2>8. CASE Throw(w)
    BY <2>8 DEF Throw, Goto, shared, caller
  <2>9. CASE Refute(w)
    BY <2>9 DEF Refute, DropBox, Goto, caller
  <2>10. CASE Find(w)
    BY <2>10 DEF Find, Goto, caller
  <2>11. CASE Branch(w)
    BY <2>11 DEF Branch, Goto, caller
  <2>12. CASE PushHalf(w)
    BY <2>12 DEF PushHalf, Goto, caller
  <2> QED
    BY <1>7, <2>1, <2>2, <2>3, <2>4, <2>5, <2>6, <2>7, <2>8, <2>9, <2>10,
       <2>11, <2>12 DEF WorkerStep
<1>8. CASE UNCHANGED vars
  BY <1>8 DEF vars, caller, shared
<1> QED
  BY <1>1, <1>2, <1>3, <1>4, <1>5, <1>6, <1>7, <1>8, NextCases

(* The worker found_delta_sat names stopped with the box it judged.        *)
LEMMA FoundOKStep ==
  TypeOK /\ FoundOK /\ PhaseOK /\ [Next]_vars => FoundOK'
<1> SUFFICES ASSUME TypeOK, FoundOK, PhaseOK, [Next]_vars
             PROVE  FoundOK'
  OBVIOUS
<1> USE MainIsAWorker DEF TypeOK, FoundOK
<1>1. CASE InitialPrune
  BY <1>1 DEF InitialPrune, shared
<1>2. CASE ReturnAfterInitialPrune
  BY <1>2 DEF ReturnAfterInitialPrune, shared
<1>3. CASE Launch
  BY <1>3 DEF Launch, PhaseOK
<1>4. CASE Await
  BY <1>4 DEF Await, shared
<1>5. CASE Rethrow
  BY <1>5 DEF Rethrow, shared
<1>6. CASE Join
  BY <1>6 DEF Join, Answer, shared
<1>7. ASSUME NEW w \in Worker, WorkerStep(w)
      PROVE  FoundOK'
  <2>1. CASE StartTask(w)
    BY <2>1 DEF StartTask, Goto, shared, caller
  <2>2. CASE ReadFound(w)
    BY <2>2 DEF ReadFound, Goto, shared, caller
  <2>3. CASE ReadNumber(w)
    BY <2>3 DEF ReadNumber, Goto, shared, caller
  <2>4. CASE PopFails(w)
    BY <2>4 DEF PopFails, Goto, shared, caller
  <2>5. CASE Pop(w)
    BY <2>5 DEF Pop, Goto, caller
  <2>6. CASE PruneToEmpty(w)
    <3>1. PICK r \in Prunings(status[w].box) : DropBox(w, Pruned(status[w], r))
      BY <2>6 DEF PruneToEmpty
    <3> QED
      BY <2>6, <3>1 DEF PruneToEmpty, DropBox, Goto, caller
  <2>7. CASE PruneBox(w)
    BY <2>7 DEF PruneBox, Goto, shared, caller
  <2>8. CASE Throw(w)
    BY <2>8 DEF Throw, Goto, shared, caller
  <2>9. CASE Refute(w)
    BY <2>9 DEF Refute, DropBox, Goto, caller
  <2>10. CASE Find(w)
    <3>1. found_delta_sat' = w /\ pc'[w] = "found" /\ status' = status
      BY <2>10 DEF Find, Goto
    <3>2. w # -1
      BY JobsAssumption DEF Worker
    <3> QED
      BY <2>10, <3>1, <3>2 DEF Find, Goto
  <2>11. CASE Branch(w)
    BY <2>11 DEF Branch, Goto, caller
  <2>12. CASE PushHalf(w)
    BY <2>12 DEF PushHalf, Goto, caller
  <2> QED
    BY <1>7, <2>1, <2>2, <2>3, <2>4, <2>5, <2>6, <2>7, <2>8, <2>9, <2>10,
       <2>11, <2>12 DEF WorkerStep
<1>8. CASE UNCHANGED vars
  BY <1>8 DEF vars, caller, shared
<1> QED
  BY <1>1, <1>2, <1>3, <1>4, <1>5, <1>6, <1>7, <1>8, NextCases

(* Before the launch no worker has done anything; a result the barrier got *)
(* is that of a worker that returned.                                      *)
LEMMA PhaseOKStep == TypeOK /\ PhaseOK /\ [Next]_vars => PhaseOK'
<1> SUFFICES ASSUME TypeOK, PhaseOK, [Next]_vars
             PROVE  PhaseOK'
  OBVIOUS
<1> USE MainIsAWorker DEF TypeOK, PhaseOK, Returned
<1>1. CASE InitialPrune
  BY <1>1 DEF InitialPrune, shared
<1>2. CASE ReturnAfterInitialPrune
  BY <1>2 DEF ReturnAfterInitialPrune, shared
<1>3. CASE Launch
  BY <1>3 DEF Launch
<1>4. CASE Await
  BY <1>4 DEF Await, shared, Worker
<1>5. CASE Rethrow
  BY <1>5 DEF Rethrow, shared
<1>6. CASE Join
  BY <1>6 DEF Join, Answer, shared
<1>7. ASSUME NEW w \in Worker, WorkerStep(w)
      PROVE  PhaseOK'
  <2>1. CASE StartTask(w)
    BY <2>1 DEF StartTask, Goto, shared, caller
  <2>2. CASE ReadFound(w)
    BY <2>2 DEF ReadFound, Goto, shared, caller
  <2>3. CASE ReadNumber(w)
    BY <2>3 DEF ReadNumber, Goto, shared, caller
  <2>4. CASE PopFails(w)
    BY <2>4 DEF PopFails, Goto, shared, caller
  <2>5. CASE Pop(w)
    BY <2>5 DEF Pop, Goto, caller
  <2>6. CASE PruneToEmpty(w)
    <3>1. PICK r \in Prunings(status[w].box) : DropBox(w, Pruned(status[w], r))
      BY <2>6 DEF PruneToEmpty
    <3> QED
      BY <2>6, <3>1 DEF PruneToEmpty, DropBox, Goto, caller
  <2>7. CASE PruneBox(w)
    BY <2>7 DEF PruneBox, Goto, shared, caller
  <2>8. CASE Throw(w)
    BY <2>8 DEF Throw, Goto, shared, caller
  <2>9. CASE Refute(w)
    BY <2>9 DEF Refute, DropBox, Goto, caller
  <2>10. CASE Find(w)
    BY <2>10 DEF Find, Goto, caller
  <2>11. CASE Branch(w)
    BY <2>11 DEF Branch, Goto, caller
  <2>12. CASE PushHalf(w)
    BY <2>12 DEF PushHalf, Goto, caller
  <2> QED
    BY <1>7, <2>1, <2>2, <2>3, <2>4, <2>5, <2>6, <2>7, <2>8, <2>9, <2>10,
       <2>11, <2>12 DEF WorkerStep
<1>8. CASE UNCHANGED vars
  BY <1>8 DEF vars, caller, shared
<1> QED
  BY <1>1, <1>2, <1>3, <1>4, <1>5, <1>6, <1>7, <1>8, NextCases

-----------------------------------------------------------------------------
(* There are finitely many workers, so their sets can be counted.          *)
LEMMA WorkersFinite ==
  ASSUME NEW S \in SUBSET Worker
  PROVE  /\ IsFiniteSet(S)
         /\ Cardinality(S) \in Nat
         /\ Cardinality(S) = 0 <=> S = {}
         /\ \A w \in Worker \ S : Cardinality(S \cup {w}) = Cardinality(S) + 1
         /\ \A w \in S : Cardinality(S \ {w}) = Cardinality(S) - 1
<1>1. IsFiniteSet(Worker)
  BY JobsAssumption, FS_Interval DEF Worker
<1>2. IsFiniteSet(S)
  BY <1>1, FS_Subset
<1> QED
  BY <1>2, FS_CardinalityType, FS_EmptySet, FS_AddElement, FS_RemoveElement

LEMMA HoldingType == Holding \in SUBSET Worker /\ Pushing \in SUBSET Worker
BY DEF Holding, Pushing

(* A worker step moves at most the worker itself in and out of Holding and *)
(* Pushing.                                                                *)
LEMMA CounterStep ==
  TypeOK /\ LocalOK /\ PhaseOK /\ CounterCountsBoxes /\ [Next]_vars
    => CounterCountsBoxes'
<1> SUFFICES ASSUME TypeOK, LocalOK, PhaseOK, CounterCountsBoxes, [Next]_vars
             PROVE  CounterCountsBoxes'
  OBVIOUS
<1> USE MainIsAWorker DEF TypeOK
<1>a. ASSUME Holding' = Holding, Pushing' = Pushing,
             UNCHANGED <<number_of_boxes, global_stack>>
      PROVE  CounterCountsBoxes'
  BY <1>a DEF CounterCountsBoxes
<1>b. /\ Cardinality(Holding) \in Nat
      /\ Cardinality(Pushing) \in Nat
      /\ Len(global_stack) \in Nat
  BY WorkersFinite, HoldingType
<1>1. CASE InitialPrune
  BY <1>1, <1>a DEF InitialPrune, shared, Holding, Pushing
<1>2. CASE ReturnAfterInitialPrune
  BY <1>2, <1>a DEF ReturnAfterInitialPrune, shared, Holding, Pushing
<1>3. CASE Launch
  <2>1. Holding' = {} /\ Pushing' = {}
    BY <1>3 DEF Launch, PhaseOK, LocalOK, Holding, Pushing
  <2>2. Len(global_stack') = 1 /\ number_of_boxes' = 1
    BY <1>3 DEF Launch
  <2> QED
    BY <2>1, <2>2, FS_EmptySet DEF CounterCountsBoxes
<1>4. CASE Await
  BY <1>4, <1>a DEF Await, shared, Holding, Pushing
<1>5. CASE Rethrow
  BY <1>5, <1>a DEF Rethrow, shared, Holding, Pushing
<1>6. CASE Join
  BY <1>6, <1>a DEF Join, Answer, shared, Holding, Pushing
<1>7. ASSUME NEW w \in Worker, WorkerStep(w)
      PROVE  CounterCountsBoxes'
  <2>0. ASSUME DropBox(w, status'[w]), need_to_pop' = [need_to_pop EXCEPT ![w] = TRUE],
               w \in Holding, w \notin Pushing
        PROVE  CounterCountsBoxes'
    <3>1. Holding' = Holding \ {w} /\ Pushing' = Pushing
      BY <2>0 DEF DropBox, Goto, Holding, Pushing
    <3>2. Cardinality(Holding \ {w}) = Cardinality(Holding) - 1
      BY <2>0, WorkersFinite, HoldingType
    <3> QED
      BY <2>0, <3>1, <3>2, <1>b DEF DropBox, CounterCountsBoxes
  <2>1. CASE StartTask(w)
    BY <2>1, <1>a DEF StartTask, Goto, shared, Holding, Pushing
  <2>2. CASE ReadFound(w)
    BY <2>2, <1>a DEF ReadFound, Goto, shared, Holding, Pushing
  <2>3. CASE ReadNumber(w)
    BY <2>3, <1>a DEF ReadNumber, Goto, shared, Holding, Pushing
  <2>4. CASE PopFails(w)
    BY <2>4, <1>a DEF PopFails, Goto, shared, Holding, Pushing
  <2>5. CASE Pop(w)
    <3>1. w \notin Holding
      BY <2>5 DEF Pop, LocalOK, Holding
    <3>2. Holding' = Holding \cup {w} /\ Pushing' = Pushing
      BY <2>5 DEF Pop, Goto, Holding, Pushing
    <3>3. Cardinality(Holding \cup {w}) = Cardinality(Holding) + 1
      BY <3>1, WorkersFinite, HoldingType
    <3>4. Len(global_stack') = Len(global_stack) - 1
      BY <2>5 DEF Pop
    <3> QED
      BY <2>5, <3>2, <3>3, <3>4, <1>b DEF Pop, CounterCountsBoxes
  <2>6. CASE PruneToEmpty(w)
    <3>1. PICK r \in Prunings(status[w].box) : DropBox(w, Pruned(status[w], r))
      BY <2>6 DEF PruneToEmpty
    <3>2. DropBox(w, status'[w])
      BY <3>1 DEF DropBox
    <3> QED
      BY <2>6, <3>2, <2>0 DEF PruneToEmpty, Holding, Pushing
  <2>7. CASE PruneBox(w)
    BY <2>7, <1>a DEF PruneBox, Goto, shared, Holding, Pushing
  <2>8. CASE Throw(w)
    BY <2>8, <1>a DEF Throw, Goto, shared, Holding, Pushing
  <2>9. CASE Refute(w)
    <3>1. PICK c \in Refuters(status[w].box) :
            DropBox(w, [box |-> {}, used |-> status[w].used \cup {c}])
      BY <2>9 DEF Refute
    <3>2. DropBox(w, status'[w])
      BY <3>1 DEF DropBox
    <3>3. need_to_pop[w] /\ need_to_pop' = need_to_pop
      BY <2>9 DEF Refute, LocalOK
    <3> QED
      BY <2>9, <3>2, <3>3, <2>0 DEF Refute, Holding, Pushing
  <2>10. CASE Find(w)
    BY <2>10, <1>a DEF Find, Goto, Holding, Pushing
  <2>11. CASE Branch(w)
    <3>1. Holding' = Holding /\ Pushing' = Pushing \cup {w} /\ w \notin Pushing
      BY <2>11 DEF Branch, Goto, Holding, Pushing
    <3>2. Cardinality(Pushing \cup {w}) = Cardinality(Pushing) + 1
      BY <3>1, WorkersFinite, HoldingType
    <3> QED
      BY <2>11, <3>1, <3>2, <1>b DEF Branch, CounterCountsBoxes
  <2>12. CASE PushHalf(w)
    <3>1. Holding' = Holding /\ Pushing' = Pushing \ {w} /\ w \in Pushing
      BY <2>12 DEF PushHalf, Goto, Holding, Pushing
    <3>2. Cardinality(Pushing \ {w}) = Cardinality(Pushing) - 1
      BY <3>1, WorkersFinite, HoldingType
    <3>3. halves[w][1] \in Box
      OBVIOUS
    <3>4. Len(global_stack') = Len(global_stack) + 1
      BY <2>12, <3>3 DEF PushHalf
    <3> QED
      BY <2>12, <3>1, <3>2, <3>4, <1>b DEF PushHalf, CounterCountsBoxes
  <2> QED
    BY <1>7, <2>1, <2>2, <2>3, <2>4, <2>5, <2>6, <2>7, <2>8, <2>9, <2>10,
       <2>11, <2>12 DEF WorkerStep
<1>8. CASE UNCHANGED vars
  BY <1>8, <1>a DEF vars, caller, shared, Holding, Pushing
<1> QED
  BY <1>1, <1>2, <1>3, <1>4, <1>5, <1>6, <1>7, <1>8, NextCases

-----------------------------------------------------------------------------
(* A worker that reads the number 0 (or less) reads it when there is no    *)
(* box left; after that no other worker has anything to do.                *)
LEMMA NoNumberNoBox ==
  ASSUME TypeOK, CounterCountsBoxes, ~(number_of_boxes > 0)
  PROVE  global_stack = <<>> /\ Holding = {}
<1>1. /\ Cardinality(Holding) \in Nat
      /\ Cardinality(Pushing) \in Nat
      /\ Len(global_stack) \in Nat
  BY WorkersFinite, HoldingType DEF TypeOK
<1>2. Len(global_stack) = 0 /\ Cardinality(Holding) = 0
  BY <1>1 DEF TypeOK, CounterCountsBoxes
<1>3. Holding = {}
  BY <1>2, WorkersFinite, HoldingType
<1> QED
  BY <1>2, <1>3 DEF TypeOK

LEMMA NoBoxAbandonedStep ==
  TypeOK /\ LocalOK /\ PhaseOK /\ CounterCountsBoxes /\ NoBoxAbandoned /\ [Next]_vars
    => NoBoxAbandoned'
<1> SUFFICES ASSUME TypeOK, LocalOK, PhaseOK, CounterCountsBoxes, NoBoxAbandoned,
                    [Next]_vars
             PROVE  NoBoxAbandoned'
  OBVIOUS
<1> USE MainIsAWorker DEF TypeOK, NoBoxAbandoned
<1>a. ASSUME Holding' = Holding, UNCHANGED <<found_delta_sat, global_stack>>,
             \A w \in Worker : pc'[w] = "exit" => pc[w] = "exit"
      PROVE  NoBoxAbandoned'
  BY <1>a
<1>1. CASE InitialPrune
  BY <1>1, <1>a DEF InitialPrune, shared, Holding
<1>2. CASE ReturnAfterInitialPrune
  BY <1>2, <1>a DEF ReturnAfterInitialPrune, shared, Holding
<1>3. CASE Launch
  BY <1>3 DEF Launch, PhaseOK
<1>4. CASE Await
  BY <1>4, <1>a DEF Await, shared, Holding
<1>5. CASE Rethrow
  BY <1>5, <1>a DEF Rethrow, shared, Holding
<1>6. CASE Join
  BY <1>6, <1>a DEF Join, Answer, shared, Holding
<1>7. ASSUME NEW w \in Worker, WorkerStep(w)
      PROVE  NoBoxAbandoned'
  <2>b. ASSUME w \in Holding, UNCHANGED found_delta_sat,
               \A v \in Worker : pc'[v] = "exit" => pc[v] = "exit"
        PROVE  NoBoxAbandoned'
    BY <2>b
  <2>1. CASE StartTask(w)
    BY <2>1, <1>a DEF StartTask, Goto, shared, Holding
  <2>2. CASE ReadFound(w)
    <3>1. CASE found_delta_sat = -1
      BY <2>2, <3>1, <1>a DEF ReadFound, Goto, shared, Holding
    <3>2. CASE found_delta_sat # -1
      BY <2>2, <3>2 DEF ReadFound, shared
    <3> QED
      BY <3>1, <3>2
  <2>3. CASE ReadNumber(w)
    <3>1. CASE number_of_boxes > 0
      BY <2>3, <3>1, <1>a DEF ReadNumber, Goto, shared, Holding
    <3>2. CASE ~(number_of_boxes > 0)
      <4>1. global_stack = <<>> /\ Holding = {}
        BY <3>2, NoNumberNoBox
      <4>2. Holding' = Holding
        BY <2>3, <3>2 DEF ReadNumber, Goto, Holding
      <4> QED
        BY <2>3, <4>1, <4>2 DEF ReadNumber, shared
    <3> QED
      BY <3>1, <3>2
  <2>4. CASE PopFails(w)
    BY <2>4, <1>a DEF PopFails, Goto, shared, Holding
  <2>5. CASE Pop(w)
    BY <2>5 DEF Pop, Goto
  <2>6. CASE PruneToEmpty(w)
    <3>1. PICK r \in Prunings(status[w].box) : DropBox(w, Pruned(status[w], r))
      BY <2>6 DEF PruneToEmpty
    <3> QED
      BY <2>6, <3>1, <2>b DEF PruneToEmpty, DropBox, Goto, Holding
  <2>7. CASE PruneBox(w)
    BY <2>7, <2>b DEF PruneBox, Goto, shared, Holding
  <2>8. CASE Throw(w)
    BY <2>8, <2>b DEF Throw, Goto, shared, Holding
  <2>9. CASE Refute(w)
    BY <2>9, <2>b DEF Refute, DropBox, Goto, Holding
  <2>10. CASE Find(w)
    <3>1. w # -1
      BY JobsAssumption DEF Worker
    <3> QED
      BY <2>10, <3>1 DEF Find
  <2>11. CASE Branch(w)
    BY <2>11, <2>b DEF Branch, Goto, Holding
  <2>12. CASE PushHalf(w)
    BY <2>12, <2>b DEF PushHalf, Goto, Holding
  <2> QED
    BY <1>7, <2>1, <2>2, <2>3, <2>4, <2>5, <2>6, <2>7, <2>8, <2>9, <2>10,
       <2>11, <2>12 DEF WorkerStep
<1>8. CASE UNCHANGED vars
  BY <1>8, <1>a DEF vars, caller, shared, Holding
<1> QED
  BY <1>1, <1>2, <1>3, <1>4, <1>5, <1>6, <1>7, <1>8, NextCases

-----------------------------------------------------------------------------
(* What one step does to the points that are not dealt with and to the     *)
(* assertions recorded so far.                                             *)
RulesOutOnly ==
  /\ Open' \subseteq Open
  /\ JoinedUsed \subseteq JoinedUsed'
  /\ \A p \in Open \ Open' : Excludes(JoinedUsed', p)

LEMMA OpenType == TypeOK => Open \in SUBSET Point /\ JoinedUsed \in SUBSET Constraint
BY DEF TypeOK, Open, Pending, JoinedUsed, Status

LEMMA OpenTypeNext == TypeOK' => Open' \in SUBSET Point /\ JoinedUsed' \in SUBSET Constraint
BY DEF TypeOK, Open, Pending, JoinedUsed, Status

LEMMA ExcludesMonotone ==
  ASSUME NEW U, NEW V, U \subseteq V, NEW p, Excludes(U, p)
  PROVE  Excludes(V, p)
BY DEF Excludes

(* While the workers run, their steps only rule out points.                *)
LEMMA WorkerRulesOut ==
  ASSUME TypeOK, LocalOK, PhaseOK, NEW w \in Worker, WorkerStep(w)
  PROVE  RulesOutOnly /\ UNCHANGED caller
<1> USE DEF TypeOK
<1>0. ASSUME UNCHANGED <<caller, status, global_stack>>, Holding' = Holding
      PROVE  RulesOutOnly /\ UNCHANGED caller
  <2>1. Open' = Open /\ JoinedUsed' = JoinedUsed
    BY <1>0 DEF Open, Pending, JoinedUsed, caller
  <2> QED
    BY <1>0, <2>1 DEF RulesOutOnly
<1>a. ASSUME NEW box \in SUBSET status[w].box, NEW U \in SUBSET Constraint,
             status' = [status EXCEPT ![w] = [box |-> box, used |-> status[w].used \cup U]],
             \A p \in status[w].box \ box : Excludes(U, p),
             w \in Holding, Holding' \subseteq Holding,
             Holding \ Holding' \subseteq {w}, w \notin Holding' => box = {},
             UNCHANGED <<caller, global_stack>>
      PROVE  RulesOutOnly /\ UNCHANGED caller
  <2>1. /\ status'[w].box = box
        /\ status'[w].used = status[w].used \cup U
        /\ \A v \in Worker \ {w} : status'[v] = status[v]
    BY <1>a
  <2>2. Pending' \subseteq Pending
    BY <1>a, <2>1 DEF Pending, Holding
  <2>3. \A p \in Pending \ Pending' : p \in status[w].box \ box
    BY <1>a, <2>1 DEF Pending, Holding
  <2>4. JoinedUsed \subseteq JoinedUsed' /\ U \subseteq JoinedUsed'
    BY <1>a, <2>1 DEF JoinedUsed, caller
  <2>5. \A p \in Pending \ Pending' : Excludes(JoinedUsed', p)
    BY <1>a, <2>3, <2>4, ExcludesMonotone
  <2> QED
    BY <1>a, <2>2, <2>4, <2>5 DEF RulesOutOnly, Open, caller
<1>b. ASSUME NEW r \in Prunings(status[w].box)
      PROVE  /\ r[1] \in SUBSET status[w].box
             /\ r[2] \in SUBSET Constraint
             /\ \A p \in status[w].box \ r[1] : Excludes(r[2], p)
  BY DEF Prunings
<1>1. CASE StartTask(w)
  BY <1>1, <1>0 DEF StartTask, Goto, shared, Holding
<1>2. CASE ReadFound(w)
  BY <1>2, <1>0 DEF ReadFound, Goto, shared, Holding
<1>3. CASE ReadNumber(w)
  BY <1>3, <1>0 DEF ReadNumber, Goto, shared, Holding
<1>4. CASE PopFails(w)
  BY <1>4, <1>0 DEF PopFails, Goto, shared, Holding
<1>5. CASE Pop(w)
  <2> DEFINE h == Head(global_stack)
             t == Tail(global_stack)
  <2>1. /\ t \in Seq(Box)
        /\ Len(t) = Len(global_stack) - 1
        /\ \A i \in 1 .. Len(t) : t[i] = global_stack[i + 1]
        /\ h = global_stack[1]
        /\ Len(global_stack) \in Nat /\ Len(global_stack) >= 1
    BY <1>5 DEF Pop
  <2>2. \A p : (\E i \in 1 .. Len(global_stack) : p \in global_stack[i])
             <=> p \in h \/ \E i \in 1 .. Len(t) : p \in t[i]
    <3>1. ASSUME NEW p, NEW i \in 1 .. Len(global_stack), p \in global_stack[i]
          PROVE  p \in h \/ \E j \in 1 .. Len(t) : p \in t[j]
      <4>1. CASE i = 1
        BY <2>1, <3>1, <4>1
      <4>2. CASE i # 1
        <5>1. i - 1 \in 1 .. Len(t) /\ t[i - 1] = global_stack[i]
          BY <2>1, <4>2
        <5> QED
          BY <3>1, <5>1
      <4> QED
        BY <4>1, <4>2
    <3>2. ASSUME NEW p, NEW i \in 1 .. Len(t), p \in t[i]
          PROVE  \E j \in 1 .. Len(global_stack) : p \in global_stack[j]
      <4>1. i + 1 \in 1 .. Len(global_stack) /\ t[i] = global_stack[i + 1]
        BY <2>1
      <4> QED
        BY <3>2, <4>1
    <3> QED
      BY <2>1, <3>1, <3>2
  <2>3. /\ global_stack' = t
        /\ status'[w].box = h
        /\ \A v \in Worker : status'[v].used = status[v].used
        /\ \A v \in Worker \ {w} : status'[v].box = status[v].box
        /\ UNCHANGED caller
    BY <1>5 DEF Pop, Status
  <2>4. w \notin Holding /\ Holding' = Holding \cup {w}
    BY <1>5 DEF Pop, Goto, LocalOK, Holding
  <2>5. \A p \in Point : p \in Pending' <=> p \in Pending
    <3>1. ASSUME NEW p \in Point
          PROVE  (\E v \in Holding' : p \in status'[v].box)
                   <=> p \in h \/ \E v \in Holding : p \in status[v].box
      BY <2>3, <2>4 DEF Holding
    <3> QED
      BY <2>2, <2>3, <3>1 DEF Pending
  <2>6. Pending' = Pending
    BY <2>5 DEF Pending
  <2>7. Open' = Open /\ JoinedUsed' = JoinedUsed
    BY <2>3, <2>6 DEF Open, JoinedUsed, caller
  <2> QED
    BY <2>3, <2>7 DEF RulesOutOnly
<1>6. CASE PruneToEmpty(w)
  <2>1. PICK r \in Prunings(status[w].box) :
          r[1] = {} /\ DropBox(w, Pruned(status[w], r))
    BY <1>6 DEF PruneToEmpty
  <2>2. /\ w \in Holding
        /\ Holding' = Holding \ {w}
    BY <1>6, <2>1 DEF PruneToEmpty, DropBox, Goto, Holding
  <2> QED
    BY <1>a, <1>b, <2>1, <2>2 DEF DropBox, Pruned
<1>7. CASE PruneBox(w)
  <2>1. PICK r \in Prunings(status[w].box) :
          status' = [status EXCEPT ![w] = Pruned(status[w], r)]
    BY <1>7 DEF PruneBox
  <2>2. w \in Holding /\ Holding' = Holding
    BY <1>7 DEF PruneBox, Goto, Holding
  <2>3. UNCHANGED <<caller, global_stack>>
    BY <1>7 DEF PruneBox, shared
  <2>4. /\ status' = [status EXCEPT ![w] = [box |-> r[1], used |-> status[w].used \cup r[2]]]
        /\ r[1] \in SUBSET status[w].box
        /\ r[2] \in SUBSET Constraint
        /\ \A p \in status[w].box \ r[1] : Excludes(r[2], p)
    BY <1>b, <2>1 DEF Pruned
  <2> QED
    BY <1>a, <2>2, <2>3, <2>4 DEF Holding
<1>8. CASE Throw(w)
  BY <1>8, <1>0 DEF Throw, Goto, shared, Holding
<1>9. CASE Refute(w)
  <2>1. PICK c \in Refuters(status[w].box) :
          DropBox(w, [box |-> {}, used |-> status[w].used \cup {c}])
    BY <1>9 DEF Refute
  <2>2. {c} \in SUBSET Constraint /\ \A p \in status[w].box : Excludes({c}, p)
    BY DEF Refuters, Excludes
  <2>3. /\ w \in Holding
        /\ Holding' = Holding \ {w}
    BY <1>9, <2>1 DEF Refute, DropBox, Goto, Holding, LocalOK
  <2> QED
    BY <1>a, <2>1, <2>2, <2>3 DEF DropBox
<1>10. CASE Find(w)
  BY <1>10, <1>0 DEF Find, Goto, Holding
<1>11. CASE Branch(w)
  BY <1>11, <1>0 DEF Branch, Goto, Holding
<1>12. CASE PushHalf(w)
  <2> DEFINE l == halves[w][1]
             k == halves[w][2]
  <2>1. l \cup k = status[w].box /\ l \in Box /\ k \in Box
    BY <1>12, HalvesAssumption DEF PushHalf, LocalOK, Status
  <2>2. /\ Len(global_stack') = Len(global_stack) + 1
        /\ global_stack'[1] = l
        /\ \A i \in 1 .. Len(global_stack) : global_stack'[i + 1] = global_stack[i]
        /\ Len(global_stack) \in Nat
    BY <1>12, <2>1 DEF PushHalf
  <2>3. \A p : (\E i \in 1 .. Len(global_stack') : p \in global_stack'[i])
             <=> p \in l \/ \E i \in 1 .. Len(global_stack) : p \in global_stack[i]
    <3>1. ASSUME NEW p, NEW i \in 1 .. Len(global_stack'), p \in global_stack'[i]
          PROVE  p \in l \/ \E j \in 1 .. Len(global_stack) : p \in global_stack[j]
      <4>1. CASE i = 1
        BY <2>2, <3>1, <4>1
      <4>2. CASE i # 1
        <5>1. i - 1 \in 1 .. Len(global_stack) /\ global_stack[i - 1] = global_stack'[i]
          BY <2>2, <4>2
        <5> QED
          BY <3>1, <5>1
      <4> QED
        BY <4>1, <4>2
    <3>2. ASSUME NEW p, NEW i \in 1 .. Len(global_stack), p \in global_stack[i]
          PROVE  \E j \in 1 .. Len(global_stack') : p \in global_stack'[j]
      <4>1. i + 1 \in 1 .. Len(global_stack') /\ global_stack'[i + 1] = global_stack[i]
        BY <2>2
      <4> QED
        BY <3>2, <4>1
    <3>3. ASSUME NEW p, p \in l
          PROVE  \E j \in 1 .. Len(global_stack') : p \in global_stack'[j]
      <4>1. 1 \in 1 .. Len(global_stack')
        BY <2>2
      <4> QED
        BY <2>2, <3>3, <4>1
    <3> QED
      BY <3>1, <3>2, <3>3
  <2>4. /\ status'[w].box = k
        /\ \A v \in Worker : status'[v].used = status[v].used
        /\ \A v \in Worker \ {w} : status'[v].box = status[v].box
        /\ UNCHANGED caller
    BY <1>12 DEF PushHalf, Status
  <2>5. w \in Holding /\ Holding' = Holding
    BY <1>12 DEF PushHalf, Goto, Holding
  <2>6. \A p \in Point : p \in Pending' <=> p \in Pending
    <3>1. ASSUME NEW p \in Point
          PROVE  p \in l \/ (\E v \in Holding' : p \in status'[v].box)
                   <=> \E v \in Holding : p \in status[v].box
      BY <2>1, <2>4, <2>5 DEF Holding
    <3> QED
      BY <2>3, <3>1 DEF Pending
  <2>7. Pending' = Pending
    BY <2>6 DEF Pending
  <2>8. Open' = Open /\ JoinedUsed' = JoinedUsed
    BY <2>4, <2>7 DEF Open, JoinedUsed, caller
  <2> QED
    BY <2>4, <2>8 DEF RulesOutOnly
<1> QED
  BY <1>1, <1>2, <1>3, <1>4, <1>5, <1>6, <1>7, <1>8, <1>9, <1>10, <1>11, <1>12
     DEF WorkerStep

(* Leaving the loop of every worker without an answer means that no point  *)
(* is left.                                                                *)
LEMMA NothingOpenAtJoin ==
  ASSUME TypeOK, FoundOK, PhaseOK, NoBoxAbandoned, Join, ~(found_delta_sat >= 0)
  PROVE  Open = {}
<1>1. found_delta_sat = -1
  BY DEF TypeOK, Worker
<1>2. pc[Main] = "exit"
  BY <1>1, MainIsAWorker DEF Join, Returned, FoundOK
<1>3. global_stack = <<>> /\ Holding = {}
  BY <1>1, <1>2, MainIsAWorker DEF NoBoxAbandoned
<1>4. Pending = {}
  BY <1>3 DEF Pending
<1>5. phase = "running" /\ verdict = "none"
  BY DEF Join, PhaseOK, TypeOK
<1> QED
  BY <1>4, <1>5 DEF Open

LEMMA CallerRulesOut ==
  ASSUME TypeOK, LocalOK, FoundOK, PhaseOK, NoBoxAbandoned, CallerStep
  PROVE  RulesOutOnly
<1> USE MainIsAWorker DEF TypeOK
<1>0. ASSUME Open' = Open, JoinedUsed' = JoinedUsed
      PROVE  RulesOutOnly
  BY <1>0 DEF RulesOutOnly
<1>1. CASE InitialPrune
  <2>1. PICK r \in Prunings(cs.box) : cs' = Pruned(cs, r)
    BY <1>1 DEF InitialPrune
  <2>2. Open = cs.box /\ Open' = cs'.box
    BY <1>1 DEF InitialPrune, Open
  <2>3. JoinedUsed \subseteq JoinedUsed' /\ r[2] \subseteq JoinedUsed'
    BY <1>1, <2>1, PruningType DEF InitialPrune, JoinedUsed, Pruned
  <2>4. \A p \in Open \ Open' : Excludes(r[2], p)
    BY <2>1, <2>2 DEF Prunings, Pruned
  <2>5. cs'.box \subseteq cs.box
    BY <2>1 DEF Prunings, Pruned
  <2> QED
    BY <2>2, <2>3, <2>4, <2>5, ExcludesMonotone DEF RulesOutOnly
<1>2. CASE ReturnAfterInitialPrune
  BY <1>2, <1>0 DEF ReturnAfterInitialPrune, shared, Open, JoinedUsed
<1>3. CASE Launch
  <2>1. JoinedUsed' = JoinedUsed
    BY <1>3 DEF Launch, PhaseOK, JoinedUsed
  <2>2. global_stack' = <<cs.box>> /\ cs.box \in SUBSET Point
    BY <1>3 DEF Launch, Status
  <2>3. \A w \in Worker : need_to_pop[w] /\ pc'[w] \in {"queued", "head"}
    BY <1>3 DEF Launch, PhaseOK, LocalOK
  <2>4. Holding' = {}
    BY <1>3, <2>3 DEF Launch, Holding
  <2>5. Pending' = cs.box
    BY <2>2, <2>4 DEF Pending
  <2>6. Open = cs.box /\ Open' = Pending'
    BY <1>3 DEF Launch, Open, PhaseOK
  <2> QED
    BY <1>0, <2>1, <2>5, <2>6
<1>4. CASE Await
  BY <1>4, <1>0 DEF Await, shared, Open, Pending, Holding, JoinedUsed
<1>5. CASE Rethrow
  BY <1>5, <1>0 DEF Rethrow, shared, Open, Pending, Holding, JoinedUsed, PhaseOK
<1>6. CASE Join
  <2>1. /\ UNCHANGED <<status, pc, need_to_pop, global_stack>>
        /\ cs'.used = JoinedUsed
        /\ phase = "running" /\ phase' = "done" /\ verdict = "none"
    BY <1>6 DEF Join, Answer, shared, PhaseOK
  <2>2. JoinedUsed' = JoinedUsed
    BY <2>1 DEF JoinedUsed
  <2>3. CASE found_delta_sat >= 0
    <3>1. verdict' = "delta_sat"
      BY <1>6, <2>3 DEF Join, Answer
    <3> QED
      BY <1>0, <2>1, <2>2, <3>1 DEF Open, Pending, Holding
  <2>4. CASE ~(found_delta_sat >= 0)
    <3>1. verdict' = "unsat" /\ cs'.box = {}
      BY <1>6, <2>4 DEF Join, Answer
    <3>2. Open = {}
      BY <1>6, <2>4, NothingOpenAtJoin
    <3> QED
      BY <1>0, <2>2, <3>1, <3>2 DEF Open
  <2> QED
    BY <2>3, <2>4
<1> QED
  BY <1>1, <1>2, <1>3, <1>4, <1>5, <1>6 DEF CallerStep

LEMMA StepRulesOut ==
  ASSUME TypeOK, LocalOK, FoundOK, PhaseOK, NoBoxAbandoned, [Next]_vars
  PROVE  RulesOutOnly
<1>1. CASE UNCHANGED vars
  BY <1>1 DEF RulesOutOnly, vars, caller, shared, Open, Pending, Holding, JoinedUsed
<1> QED
  BY <1>1, CallerRulesOut, WorkerRulesOut, NextCases DEF CallerStep

(* No point of the box is lost.                                            *)
LEMMA NoPointLostStep ==
  ASSUME TypeOK, LocalOK, FoundOK, PhaseOK, NoBoxAbandoned, NoPointLost, [Next]_vars
  PROVE  NoPointLost'
BY StepRulesOut, ExcludesMonotone DEF NoPointLost, RulesOutOnly

-----------------------------------------------------------------------------
(* What the caller can rely on once it has a verdict.                      *)
LEMMA ResultsStep ==
  ASSUME IInv, [Next]_vars
  PROVE  UnsatIsExplained' /\ AnswerIsJudged' /\ NoWorkerOutlivesTheCall'
<1> USE MainIsAWorker DEF IInv, TypeOK, UnsatIsExplained, AnswerIsJudged,
                          NoWorkerOutlivesTheCall
<1>0. ASSUME UNCHANGED <<cs, verdict>>, verdict = "none"
      PROVE  UnsatIsExplained' /\ AnswerIsJudged' /\ NoWorkerOutlivesTheCall'
  BY <1>0
<1>1. CASE InitialPrune
  BY <1>1, <1>0 DEF InitialPrune, PhaseOK
<1>2. CASE ReturnAfterInitialPrune
  <2>1. \A p \in Point : Excludes(cs.used, p)
    <3>1. JoinedUsed = cs.used
      BY <1>2 DEF ReturnAfterInitialPrune, PhaseOK, JoinedUsed, Status
    <3>2. Open = {}
      BY <1>2 DEF ReturnAfterInitialPrune, Open
    <3> QED
      BY <3>1, <3>2 DEF NoPointLost
  <2>2. \A w \in Worker : pc'[w] = "queued"
    BY <1>2 DEF ReturnAfterInitialPrune, PhaseOK
  <2> QED
    BY <1>2, <2>1, <2>2 DEF ReturnAfterInitialPrune
<1>3. CASE Launch
  BY <1>3, <1>0 DEF Launch, PhaseOK
<1>4. CASE Await
  BY <1>4, <1>0 DEF Await, PhaseOK
<1>5. CASE Rethrow
  BY <1>5, <1>0 DEF Rethrow, PhaseOK
<1>6. CASE Join
  <2>1. \A w \in Worker : Returned(w)'
    BY <1>6 DEF Join, Answer, PhaseOK, Returned, Worker
  <2>2. CASE found_delta_sat >= 0
    <3>1. Answerable(status[found_delta_sat].box)
      BY <2>2 DEF FoundOK
    <3> QED
      BY <1>6, <2>1, <2>2, <3>1 DEF Join, Answer
  <2>3. CASE ~(found_delta_sat >= 0)
    <3>1. Open = {}
      BY <1>6, <2>3, NothingOpenAtJoin
    <3>2. \A p \in Point : Excludes(JoinedUsed, p)
      BY <3>1 DEF NoPointLost
    <3> QED
      BY <1>6, <2>1, <2>3, <3>2 DEF Join, Answer
  <2> QED
    BY <2>2, <2>3
<1>7. ASSUME NEW w \in Worker, WorkerStep(w)
      PROVE  UnsatIsExplained' /\ AnswerIsJudged' /\ NoWorkerOutlivesTheCall'
  <2>1. UNCHANGED caller
    BY <1>7, WorkerRulesOut
  <2>2. UNCHANGED <<cs, verdict>>
    BY <2>1 DEF caller
  <2>3. verdict = "none"
    <3>1. ~Returned(w)
      BY <1>7 DEF WorkerStep, Returned, StartTask, ReadFound, ReadNumber, PopFails,
           Pop, PruneToEmpty, PruneBox, Throw, Refute, Find, Branch, PushHalf
    <3>2. pc[w] = "queued" => phase = "running"
      BY <1>7 DEF WorkerStep, StartTask, ReadFound, ReadNumber, PopFails,
           Pop, PruneToEmpty, PruneBox, Throw, Refute, Find, Branch, PushHalf
    <3> QED
      BY <3>1, <3>2 DEF PhaseOK
  <2> QED
    BY <1>0, <2>2, <2>3
<1>8. CASE UNCHANGED vars
  BY <1>8 DEF vars, caller, Returned
<1> QED
  BY <1>1, <1>2, <1>3, <1>4, <1>5, <1>6, <1>7, <1>8, NextCases

LEMMA IInvInit == Init => IInv
<1> SUFFICES ASSUME Init
             PROVE  IInv
  OBVIOUS
<1>1. TypeOK
  BY TypeOKInit
<1>2. Holding = {} /\ Pushing = {}
  BY DEF Init, Holding, Pushing
<1>3. CounterCountsBoxes
  BY <1>2, FS_EmptySet DEF Init, CounterCountsBoxes
<1>4. LocalOK /\ FoundOK /\ NoBoxAbandoned
  BY DEF Init, LocalOK, FoundOK, NoBoxAbandoned
<1>5. PhaseOK
  BY JobsAssumption DEF Init, PhaseOK, Worker
<1>6. NoPointLost
  BY DEF Init, NoPointLost, Open
<1>7. UnsatIsExplained /\ AnswerIsJudged /\ NoWorkerOutlivesTheCall
  BY DEF Init, UnsatIsExplained, AnswerIsJudged, NoWorkerOutlivesTheCall
<1> QED
  BY <1>1, <1>3, <1>4, <1>5, <1>6, <1>7 DEF IInv

LEMMA IInvStep == IInv /\ [Next]_vars => IInv'
BY TypeOKStep, LocalOKStep, FoundOKStep, PhaseOKStep, CounterStep,
   NoBoxAbandonedStep, NoPointLostStep, ResultsStep DEF IInv

THEOREM InvariantCorrect == Spec => []IInv
BY IInvInit, IInvStep, PTL DEF Spec

(* The atomic counter agrees with the boxes that exist, and a worker leaves *)
(* the loop on its own only when no box is left, in every interleaving of  *)
(* any number of workers, some of which may throw.                         *)
THEOREM CounterCorrect == Spec => [](CounterCountsBoxes /\ NoBoxAbandoned)
<1>1. IInv => CounterCountsBoxes /\ NoBoxAbandoned
  BY DEF IInv
<1> QED
  BY <1>1, InvariantCorrect, PTL

(* UNSAT comes with assertions that rule out the whole box, whichever      *)
(* workers recorded them.                                                  *)
THEOREM ExplanationCorrect == Spec => [](NoPointLost /\ UnsatIsExplained)
<1>1. IInv => NoPointLost /\ UnsatIsExplained
  BY DEF IInv
<1> QED
  BY <1>1, InvariantCorrect, PTL

(* The delta-box that is handed back was judged by the worker it comes     *)
(* from.                                                                   *)
THEOREM AnswerCorrect == Spec => []AnswerIsJudged
<1>1. IInv => AnswerIsJudged
  BY DEF IInv
<1> QED
  BY <1>1, InvariantCorrect, PTL

\* What is left behind by an exception: this thread's own Worker threw, or the
\* task at whose result the barrier was; the tasks before that one have ended,
\* the others may still be running.
ExceptionIsAWorkers ==
  phase = "threw" =>
    /\ verdict = "none"
    /\ pc[Main] = "threw" \/ (awaited < Main /\ pc[awaited] = "threw")
    /\ \A w \in Worker : w < awaited => Returned(w)

(* A worker that threw does not go on.                                     *)
LEMMA ThrewStays ==
  ASSUME TypeOK, PhaseOK, [Next]_vars, NEW v \in Worker, pc[v] = "threw"
  PROVE  pc'[v] = "threw"
<1> USE MainIsAWorker DEF TypeOK
<1>1. CASE CallerStep
  <2>1. CASE Launch
    BY <2>1 DEF Launch, PhaseOK
  <2>2. CASE ~Launch
    BY <1>1, <2>2 DEF CallerStep, InitialPrune, ReturnAfterInitialPrune, Await, Rethrow, Join, Answer
  <2> QED
    BY <2>1, <2>2
<1>2. ASSUME NEW w \in Worker, WorkerStep(w)
      PROVE  pc'[v] = "threw"
  <2>1. pc[w] # "threw" /\ \E label : pc' = [pc EXCEPT ![w] = label]
    BY <1>2 DEF WorkerStep, StartTask, ReadFound, ReadNumber, PopFails, Pop, PruneToEmpty, PruneBox, Throw,
       Refute, Find, Branch, PushHalf, DropBox, Goto
  <2> QED
    BY <2>1
<1>3. CASE UNCHANGED vars
  BY <1>3 DEF vars
<1>4. CASE Finished
  BY <1>4 DEF Finished, vars
<1> QED
  BY <1>1, <1>2, <1>3, <1>4 DEF Next

(* Only Rethrow ends a call by an exception, and nothing that is said of   *)
(* that end changes afterwards.                                            *)
LEMMA ExceptionStep ==
  ASSUME TypeOK, PhaseOK, TypeOK', PhaseOK', ExceptionIsAWorkers, [Next]_vars
  PROVE  ExceptionIsAWorkers'
<1> SUFFICES ASSUME phase' = "threw"
             PROVE  /\ verdict' = "none"
                    /\ pc'[Main] = "threw" \/ (awaited' < Main /\ pc'[awaited'] = "threw")
                    /\ \A w \in Worker : w < awaited' => Returned(w)'
  BY DEF ExceptionIsAWorkers
<1>1. verdict' = "none" /\ \A w \in Worker : w < awaited' => Returned(w)'
  BY DEF PhaseOK
<1>2. CASE phase = "threw"
  <2>1. awaited' = awaited
    <3>1. CASE CallerStep
      BY <1>2, <3>1 DEF CallerStep, InitialPrune, ReturnAfterInitialPrune, Launch, Await, Rethrow, Join, Answer
    <3>2. ASSUME NEW w \in Worker, WorkerStep(w)
          PROVE  awaited' = awaited
      BY <3>2 DEF WorkerStep, StartTask, ReadFound, ReadNumber, PopFails, Pop, PruneToEmpty, PruneBox, Throw,
         Refute, Find, Branch, PushHalf, DropBox, caller
    <3>3. CASE Finished \/ UNCHANGED vars
      BY <3>3 DEF Finished, vars, caller
    <3> QED
      BY <3>1, <3>2, <3>3 DEF Next
  <2>2. pc[Main] = "threw" \/ (awaited < Main /\ pc[awaited] = "threw")
    BY <1>2 DEF ExceptionIsAWorkers
  <2>3. Main \in Worker /\ (awaited < Main => awaited \in Worker)
    BY MainIsAWorker, JobsAssumption DEF TypeOK, Worker, Main
  <2> QED
    BY <1>1, <2>1, <2>2, <2>3, ThrewStays
<1>3. CASE phase # "threw"
  <2>1. Rethrow
    <3>1. ASSUME NEW w \in Worker, WorkerStep(w)
          PROVE  phase' = phase
      BY <3>1 DEF WorkerStep, StartTask, ReadFound, ReadNumber, PopFails, Pop, PruneToEmpty, PruneBox, Throw,
         Refute, Find, Branch, PushHalf, DropBox, caller
    <3>2. Finished \/ UNCHANGED vars => phase' = phase
      BY DEF Finished, vars, caller
    <3> QED
      BY <1>3, <3>1, <3>2 DEF Next, CallerStep, InitialPrune, ReturnAfterInitialPrune, Launch, Await, Join, Answer
  <2> QED
    BY <1>1, <2>1 DEF Rethrow
<1> QED
  BY <1>2, <1>3

(* CheckSat returns a verdict only after every worker has left Worker      *)
(* normally, so that none uses the stack, the counters or the statuses any *)
(* more and none has thrown.  A call that leaves by an exception does not  *)
(* wait for the others: of it the theorem says only that it has no         *)
(* verdict, whose exception it is, and that the tasks whose results the    *)
(* barrier had got before are over (icp_parallel.cc, the barrier).         *)
THEOREM CallOutlivesWorkers == Spec => [](NoWorkerOutlivesTheCall /\ ExceptionIsAWorkers)
<1>1. Init => ExceptionIsAWorkers
  BY DEF Init, ExceptionIsAWorkers
<1>2. IInv /\ IInv' /\ ExceptionIsAWorkers /\ [Next]_vars => ExceptionIsAWorkers'
  BY ExceptionStep DEF IInv
<1>3. IInv => NoWorkerOutlivesTheCall
  BY DEF IInv
<1> QED
  BY <1>1, <1>2, <1>3, InvariantCorrect, PTL DEF Spec

-----------------------------------------------------------------------------
(* Several workers on a lock-free stack do what the abstract search does.  *)
LEMMA RefinementInit == Init => BP!Init
BY DEF Init, BP!Init, Open, JoinedUsed

LEMMA RefinementStep ==
  ASSUME IInv, [Next]_vars
  PROVE  [BP!Next]_BP!vars
<1> DEFINE answer == IF verdict = "none" THEN {} ELSE cs.box
<1>1. RulesOutOnly
  BY StepRulesOut DEF IInv
<1>2. /\ Open \in SUBSET Point /\ Open' \in SUBSET Point
      /\ JoinedUsed' \in SUBSET Constraint
  BY OpenType, OpenTypeNext, TypeOKStep DEF IInv
<1>a. ASSUME verdict = "none", verdict' = "none"
      PROVE  BP!RuleOut
  BY <1>a, <1>1, <1>2 DEF BP!RuleOut, RulesOutOnly, Excludes, BP!Excludes
<1>3. CASE InitialPrune \/ Launch \/ Await \/ Rethrow
  BY <1>3, <1>a DEF InitialPrune, Launch, Await, Rethrow, IInv, PhaseOK, BP!Next, TypeOK
<1>4. CASE ReturnAfterInitialPrune
  <2>1. Open = {} /\ Open' = {} /\ JoinedUsed' = JoinedUsed
    BY <1>4 DEF ReturnAfterInitialPrune, Open, JoinedUsed, shared
  <2>2. verdict = "none" /\ verdict' = "unsat" /\ cs'.box = {}
    BY <1>4 DEF ReturnAfterInitialPrune, IInv, PhaseOK
  <2> QED
    BY <2>1, <2>2 DEF BP!AnswerUnsat, BP!Next
<1>5. CASE Join
  <2>1. /\ UNCHANGED <<status, pc, need_to_pop, global_stack>>
        /\ cs'.used = JoinedUsed
        /\ phase = "running" /\ phase' = "done" /\ verdict = "none"
    BY <1>5 DEF Join, Answer, shared, PhaseOK, IInv
  <2>2. JoinedUsed' = JoinedUsed
    BY <2>1 DEF JoinedUsed
  <2>3. CASE found_delta_sat >= 0
    <3>1. verdict' = "delta_sat" /\ cs'.box = status[found_delta_sat].box
      BY <1>5, <2>3 DEF Join, Answer
    <3>2. Open' = Open /\ Open = Pending
      BY <2>1, <3>1 DEF Open, Pending, Holding
    <3>3. found_delta_sat \in Holding /\ Answerable(status[found_delta_sat].box)
      BY <2>3 DEF IInv, FoundOK, Holding, TypeOK
    <3>4. status[found_delta_sat].box \subseteq Open
      BY <3>2, <3>3 DEF Pending, IInv, TypeOK, Status, Holding
    <3> QED
      BY <2>1, <2>2, <3>1, <3>2, <3>3, <3>4
         DEF BP!AnswerDeltaSat, BP!Next, Answerable, BP!Answerable, SmallEnough,
             BP!SmallEnough, Bisectable, BP!Bisectable
  <2>4. CASE ~(found_delta_sat >= 0)
    <3>1. verdict' = "unsat" /\ cs'.box = {}
      BY <1>5, <2>4 DEF Join, Answer
    <3>2. Open = {}
      BY <1>5, <2>4, NothingOpenAtJoin DEF IInv
    <3>3. Open' = {}
      BY <3>1 DEF Open
    <3> QED
      BY <2>1, <2>2, <3>1, <3>2, <3>3 DEF BP!AnswerUnsat, BP!Next
  <2> QED
    BY <2>3, <2>4
<1>6. ASSUME NEW w \in Worker, WorkerStep(w)
      PROVE  [BP!Next]_BP!vars
  <2>1. UNCHANGED caller
    BY <1>6, WorkerRulesOut DEF IInv
  <2>2. ~Returned(w) /\ (pc[w] = "queued" => phase = "running")
    BY <1>6 DEF WorkerStep, Returned, StartTask, ReadFound, ReadNumber, PopFails,
         Pop, PruneToEmpty, PruneBox, Throw, Refute, Find, Branch, PushHalf
  <2>3. verdict = "none" /\ verdict' = "none"
    BY <2>1, <2>2 DEF caller, IInv, PhaseOK, NoWorkerOutlivesTheCall
  <2> QED
    BY <1>a, <2>3 DEF BP!Next
<1>7. CASE UNCHANGED vars
  BY <1>7 DEF vars, caller, shared, BP!vars, Open, Pending, Holding, JoinedUsed
<1> QED
  BY <1>3, <1>4, <1>5, <1>6, <1>7, NextCases

(* IcpParallel implements BranchAndPrune.                                  *)
THEOREM Refinement == Spec => ImplementsBranchAndPrune
BY InvariantCorrect, RefinementInit, RefinementStep, PTL
   DEF Spec, ImplementsBranchAndPrune, BP!Spec
-----------------------------------------------------------------------------
(***************************************************************************)
(* The ids of the threads of a call (ThreadIds).  With one client, and any *)
(* number of jobs, every thread of a call has a slot of its own.  The      *)
(* counter is one more than the number of workers that have an id, so the  *)
(* next id is new and below the number of jobs.                            *)
(***************************************************************************)

\* The workers of a call, and those of them that have an id.
PoolWorker == Client \X (1 .. MaxJobs - 1)
Numbered == {t \in PoolWorker : id[t] # NoId}

MainCounts ==
  \A c \in Client :
    /\ id[<<c, 0>>] = NoId => global_thread_id_index = 0 /\ Numbered = {} /\ jobs[c] <= 1
    /\ id[<<c, 0>>] # NoId => id[<<c, 0>>] = 0 /\ global_thread_id_index = 1 + Cardinality(Numbered)

WorkersCount ==
  \A t \in Numbered :
    /\ t[2] < jobs[t[1]]
    /\ id[t] \in 1 .. global_thread_id_index - 1
    /\ \A u \in Numbered : id[u] = id[t] => u = t

IdsIInv == IdsTypeOK /\ MainCounts /\ WorkersCount

LEMMA NumberedFinite ==
  ASSUME NEW c, Client = {c}
  PROVE  /\ IsFiniteSet(Numbered)
         /\ Cardinality(Numbered) \in Nat
PROOF
<1>1. IsFiniteSet(1 .. MaxJobs - 1)
  BY FS_Interval, MaxJobsAssumption
<1>2. IsFiniteSet(Client) BY FS_Singleton
<1>3. IsFiniteSet(PoolWorker) BY <1>1, <1>2, FS_Product DEF PoolWorker
<1>4. IsFiniteSet(Numbered) BY <1>3, FS_Subset DEF Numbered
<1> QED BY <1>4, FS_CardinalityType

\* A call has one job more than it can have numbered workers.
LEMMA NumberedAtMost ==
  ASSUME NEW c, Client = {c}, IdsIInv, jobs[c] >= 1
  PROVE  Cardinality(Numbered) <= jobs[c] - 1
PROOF
<1>j. jobs[c] \in Nat /\ jobs[c] <= MaxJobs
  BY MaxJobsAssumption DEF IdsIInv, IdsTypeOK
<1> DEFINE Ids == 1 .. jobs[c] - 1
           Room == {<<c, j>> : j \in Ids}
<1>1. Numbered \subseteq Room
  <2> SUFFICES ASSUME NEW t \in Numbered PROVE \E j \in Ids : t = <<c, j>>
    OBVIOUS
  <2>1. t \in PoolWorker BY DEF Numbered
  <2>2. t[1] = c /\ t = <<c, t[2]>> /\ t[2] \in 1 .. MaxJobs - 1 BY <2>1 DEF PoolWorker
  <2>3. t[2] < jobs[c] BY <2>2 DEF IdsIInv, WorkersCount
  <2>4. t[2] \in Ids BY <2>2, <2>3, <1>j, MaxJobsAssumption
  <2> QED BY <2>2, <2>4
<1>2. IsFiniteSet(Ids) /\ Cardinality(Ids) = jobs[c] - 1
  <2>1. jobs[c] - 1 \in Int /\ 1 \in Int BY <1>j
  <2>2. /\ IsFiniteSet(Ids)
        /\ Cardinality(Ids) = IF 1 > jobs[c] - 1 THEN 0 ELSE jobs[c] - 1 - 1 + 1
    BY ONLY FS_Interval, <2>1
  <2> QED BY <2>2, <1>j
<1>3. IsFiniteSet(Room) /\ Cardinality(Room) <= Cardinality(Ids)
  <2> DEFINE f == [j \in Ids |-> <<c, j>>]
  <2>1. f \in Surjection(Ids, Room)
    BY DEF Surjection
  <2> HIDE DEF f, Ids, Room
  <2> QED BY ONLY <1>2, <2>1, FS_Surjection
<1>4. Cardinality(Numbered) <= Cardinality(Room)
  BY <1>1, <1>3, FS_Subset
<1> HIDE DEF Room, Ids
<1>5. Cardinality(Room) \in Nat /\ Cardinality(Numbered) \in Nat
  BY <1>3, FS_CardinalityType, NumberedFinite
<1> QED BY <1>2, <1>3, <1>4, <1>5, <1>j

LEMMA IdsIInvInit == ASSUME NEW c, Client = {c}, IdsInit PROVE IdsIInv
PROOF
<1>1. IdsTypeOK BY MaxJobsAssumption DEF IdsInit, IdsTypeOK
<1>2. Numbered = {} BY DEF IdsInit, Numbered, PoolWorker, Thread
<1>3. <<c, 0>> \in Thread BY MaxJobsAssumption DEF Thread
<1>4. MainCounts BY <1>2, <1>3 DEF IdsInit, MainCounts
<1>5. WorkersCount BY <1>2 DEF WorkersCount
<1> QED BY <1>1, <1>4, <1>5 DEF IdsIInv

LEMMA IdsIInvStep == ASSUME NEW c, Client = {c}, IdsIInv, [IdsNext]_idVars PROVE IdsIInv'
PROOF
<1> USE MaxJobsAssumption, NoIdAssumption
<1>t. IdsTypeOK /\ MainCounts /\ WorkersCount BY DEF IdsIInv
<1>m. <<c, 0>> \in Thread /\ <<c, 0>> \notin PoolWorker BY DEF Thread, PoolWorker
<1>w. PoolWorker \subseteq Thread BY DEF PoolWorker, Thread
<1>1. CASE UNCHANGED idVars
  <2>1. IdsTypeOK' BY <1>1, <1>t DEF IdsTypeOK, idVars
  <2>2. Numbered' = Numbered BY <1>1 DEF Numbered, idVars
  <2>3. MainCounts' BY <1>1, <1>t, <2>2 DEF MainCounts, idVars
  <2>4. WorkersCount' BY <1>1, <1>t, <2>2 DEF WorkersCount, idVars
  <2> QED BY <2>1, <2>3, <2>4 DEF IdsIInv
<1>2. CASE OpenCall(c)
  <2>1. Numbered' = Numbered
    BY <1>2, <1>t, <1>m, <1>w DEF OpenCall, GetThreadId, Numbered, IdsTypeOK
  <2>2. Numbered = {}
    <3> SUFFICES ASSUME NEW t \in Numbered PROVE FALSE OBVIOUS
    <3>1. t[1] = c /\ t[2] \in 1 .. MaxJobs - 1 BY DEF Numbered, PoolWorker
    <3> QED BY <3>1, <1>2, <1>t DEF WorkersCount, OpenCall
  <2>3. IdsTypeOK' BY <1>2, <1>t DEF IdsTypeOK, OpenCall, GetThreadId
  <2>4. MainCounts'
    <3>1. Cardinality(Numbered') = 0 BY <2>1, <2>2, FS_EmptySet
    <3> QED BY <3>1, <2>1, <2>2, <1>2, <1>t, <1>m DEF MainCounts, OpenCall, GetThreadId, IdsTypeOK
  <2>5. WorkersCount' BY <2>1, <2>2 DEF WorkersCount
  <2> QED BY <2>3, <2>4, <2>5 DEF IdsIInv
<1>3. CASE CloseCall(c)
  <2>1. Numbered' = {}
    BY <1>3, <1>w DEF CloseCall, Numbered, PoolWorker, Thread
  <2>2. Cardinality(Numbered') = 0 BY <2>1, FS_EmptySet
  <2>3. id'[<<c, 0>>] = id[<<c, 0>>] BY <1>3, <1>m DEF CloseCall
  <2>4. IdsTypeOK' BY <1>3, <1>t DEF IdsTypeOK, CloseCall
  <2>5. MainCounts'
    <3>1. CASE jobs[c] > 1
      BY <3>1, <2>1, <2>2, <2>3, <1>3, <1>t DEF MainCounts, CloseCall, IdsTypeOK
    <3>2. CASE ~(jobs[c] > 1)
      <4>1. Numbered = {}
        <5> SUFFICES ASSUME NEW t \in Numbered PROVE FALSE OBVIOUS
        <5>1. t[1] = c /\ t[2] \in 1 .. MaxJobs - 1 BY DEF Numbered, PoolWorker
        <5>2. jobs[c] \in Nat BY <1>t DEF IdsTypeOK
        <5> QED BY <5>1, <5>2, <3>2, <1>t DEF WorkersCount
      <4> QED BY <4>1, <3>2, <2>1, <2>2, <2>3, <1>3, <1>t DEF MainCounts, CloseCall, IdsTypeOK
    <3> QED BY <3>1, <3>2
  <2>6. WorkersCount' BY <2>1 DEF WorkersCount
  <2> QED BY <2>4, <2>5, <2>6 DEF IdsIInv
<1>4. ASSUME NEW i \in 0 .. MaxJobs - 1, Touch(c, i) PROVE IdsIInv'
  <2> DEFINE t0 == <<c, i>>
             n == global_thread_id_index
  <2>i. t0 \in Thread BY DEF Thread
  <2>1. /\ id[t0] = NoId /\ i < jobs[c] /\ jobs' = jobs
        /\ id' = [id EXCEPT ![t0] = n] /\ global_thread_id_index' = n + 1
    BY <1>4 DEF Touch, GetThreadId
  <2>2. n \in Nat /\ id \in [Thread -> Nat \cup {NoId}] BY <1>t DEF IdsTypeOK
  <2>3. id'[t0] = n /\ \A t \in Thread \ {t0} : id'[t] = id[t] BY <2>1, <2>2, <2>i
  <2>4. IdsTypeOK' BY ONLY <2>1, <2>2, <2>i, <1>t DEF IdsTypeOK, n, t0
  <2> HIDE DEF t0, n
  <2>5. CASE i = 0
    <3>1. Numbered' = Numbered BY <2>3, <2>5, <1>m, <1>w DEF Numbered, t0
    <3>2. n = 0 /\ Numbered = {} BY <2>1, <2>5, <1>t DEF MainCounts, t0, n
    <3>3. Cardinality(Numbered') = 0 BY <3>1, <3>2, FS_EmptySet
    <3>4. MainCounts' BY <3>1, <3>2, <3>3, <2>1, <2>3, <2>5 DEF MainCounts, t0
    <3>5. WorkersCount' BY <3>1, <3>2 DEF WorkersCount
    <3> QED BY <2>4, <3>4, <3>5 DEF IdsIInv
  <2>6. CASE i # 0
    <3>0. t0 \in PoolWorker /\ t0[1] = c /\ t0[2] = i /\ t0 # <<c, 0>>
      BY <2>6 DEF PoolWorker, t0
    <3>1. Numbered' = Numbered \cup {t0}
      BY <2>2, <2>3, <3>0, <1>w DEF Numbered
    <3>2. t0 \notin Numbered BY <2>1 DEF Numbered
    <3>3. id[<<c, 0>>] # NoId /\ id[<<c, 0>>] = 0
      <4>1. jobs[c] \in Nat BY <1>t DEF IdsTypeOK
      <4> QED BY <4>1, <2>1, <2>6, <1>t DEF MainCounts
    <3>4. n = 1 + Cardinality(Numbered) BY <3>3, <1>t DEF MainCounts, n
    <3>5. IsFiniteSet(Numbered) /\ Cardinality(Numbered) \in Nat BY NumberedFinite
    <3>6. Cardinality(Numbered') = Cardinality(Numbered) + 1
      BY <3>1, <3>2, <3>5, FS_AddElement
    <3>7. id'[<<c, 0>>] = 0 BY <2>3, <3>0, <3>3, <1>m
    <3>8. MainCounts' BY <3>4, <3>5, <3>6, <3>7, <2>1 DEF MainCounts
    <3>9. WorkersCount'
      <4> SUFFICES ASSUME NEW t \in Numbered'
                   PROVE  /\ t[2] < jobs[t[1]]
                          /\ id'[t] \in 1 .. n
                          /\ \A u \in Numbered' : id'[u] = id'[t] => u = t
        BY <2>1, <2>2 DEF WorkersCount
      <4>1. \A u \in Numbered : u # t0 /\ u \in Thread /\ id'[u] = id[u] /\ id[u] \in 1 .. n - 1
        BY <3>2, <2>3, <1>w, <1>t DEF WorkersCount, Numbered, n
      <4>2. CASE t = t0
        BY <4>1, <4>2, <3>0, <3>1, <3>4, <3>5, <2>1, <2>3
      <4>3. CASE t \in Numbered
        <5>1. id'[t] \in 1 .. n - 1 BY <4>1, <4>3
        <5>2. t[2] < jobs[t[1]] BY <4>3, <1>t DEF WorkersCount
        <5>3. \A u \in Numbered : id'[u] = id'[t] => u = t BY <4>1, <4>3, <1>t DEF WorkersCount
        <5>4. id'[t0] # id'[t] BY <5>1, <2>2, <2>3
        <5> QED BY <5>1, <5>2, <5>3, <5>4, <3>1, <2>2
      <4> QED BY <4>2, <4>3, <3>1
    <3> QED BY <2>4, <3>8, <3>9 DEF IdsIInv
  <2> QED BY <2>5, <2>6
<1> QED BY <1>1, <1>2, <1>3, <1>4 DEF IdsNext

LEMMA IdsIInvImplies ==
  ASSUME NEW c, Client = {c}, IdsIInv PROVE IdsTypeOK /\ SlotsAreNotShared /\ IdsAreInRange
PROOF
<1> USE MaxJobsAssumption, NoIdAssumption
<1>t. IdsTypeOK /\ MainCounts /\ WorkersCount BY DEF IdsIInv
<1>j. jobs[c] \in Nat BY <1>t DEF IdsTypeOK
<1>1. \A i \in 1 .. MaxJobs - 1 : id[<<c, i>>] # NoId => <<c, i>> \in Numbered
  BY DEF Numbered, PoolWorker
<1>2. SlotsAreNotShared
  <2> SUFFICES ASSUME NEW i \in 0 .. MaxJobs - 1, NEW j \in 0 .. MaxJobs - 1,
                      i < j, j < jobs[c], id[<<c, i>>] # NoId
               PROVE  id[<<c, i>>] # id[<<c, j>>]
    BY DEF SlotsAreNotShared
  <2>1. CASE id[<<c, j>>] = NoId BY <2>1
  <2>2. CASE id[<<c, j>>] # NoId
    <3>1. <<c, j>> \in Numbered BY <1>1, <2>2
    <3>2. id[<<c, j>>] \in 1 .. global_thread_id_index - 1 BY <3>1, <1>t DEF WorkersCount
    <3>3. CASE i = 0
      <4>1. id[<<c, 0>>] = 0 BY <3>3, <1>t DEF MainCounts
      <4> QED BY <4>1, <3>2, <3>3, <1>t DEF IdsTypeOK
    <3>4. CASE i # 0
      <4>1. <<c, i>> \in Numbered BY <1>1, <3>4
      <4> QED BY <4>1, <3>1, <1>t DEF WorkersCount
    <3> QED BY <3>3, <3>4
  <2> QED BY <2>1, <2>2
<1>3. IdsAreInRange
  <2> SUFFICES ASSUME NEW i \in 0 .. MaxJobs - 1, i < jobs[c], id[<<c, i>>] # NoId
               PROVE  id[<<c, i>>] < jobs[c]
    BY DEF IdsAreInRange
  <2>1. CASE i = 0 BY <2>1, <1>t, <1>j DEF MainCounts
  <2>2. CASE i # 0
    <3>1. <<c, i>> \in Numbered BY <1>1, <2>2
    <3>2. id[<<c, i>>] \in 1 .. global_thread_id_index - 1 BY <3>1, <1>t DEF WorkersCount
    <3>3. global_thread_id_index <= jobs[c]
      <4>1. global_thread_id_index = 1 + Cardinality(Numbered) /\ jobs[c] >= 1
        BY <3>1, <2>2, <1>t, <1>j DEF MainCounts
      <4>2. Cardinality(Numbered) <= jobs[c] - 1 BY <4>1, NumberedAtMost
      <4>3. Cardinality(Numbered) \in Nat BY NumberedFinite
      <4> QED BY <4>1, <4>2, <4>3, <1>j
    <3> QED BY <3>2, <3>3, <1>j, <1>t DEF IdsTypeOK
  <2> QED BY <2>1, <2>2
<1> QED BY <1>t, <1>2, <1>3

-----------------------------------------------------------------------------
LEMMA OneClientIInv == ASSUME NEW c, Client = {c} PROVE IdsSpec => []IdsIInv
PROOF
<1>1. IdsInit => IdsIInv BY IdsIInvInit
<1>2. IdsIInv /\ [IdsNext]_idVars => IdsIInv' BY IdsIInvStep
<1> QED BY <1>1, <1>2, PTL DEF IdsSpec

(* As long as one thread calls the solver, whatever the jobs of its calls: *)
(* no slot of a per-thread table is shared (per_thread.h, GetOrCreate).    *)
THEOREM OneClientIsSafe == ASSUME NEW c, Client = {c} PROVE IdsSpec => [](IdsTypeOK /\ SlotsAreNotShared)
PROOF
<1>1. IdsIInv => IdsTypeOK /\ SlotsAreNotShared BY IdsIInvImplies
<1> QED BY <1>1, OneClientIInv, PTL

(* As long as one thread calls the solver, every thread of a call has a    *)
(* slot in its tables and no touch throws (per_thread.h, the bound).       *)
THEOREM OneClientStaysInRange == ASSUME NEW c, Client = {c} PROVE IdsSpec => []IdsAreInRange
PROOF
<1>1. IdsIInv => IdsAreInRange BY IdsIInvImplies
<1> QED BY <1>1, OneClientIInv, PTL
=============================================================================
