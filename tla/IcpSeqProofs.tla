--------------------------- MODULE IcpSeqProofs ---------------------------
(***************************************************************************)
(* Theorems about IcpSeq for every set of points and assertions, every     *)
(* sound contractor, every brancher and any number of seeds.               *)
(***************************************************************************)
EXTENDS IcpSeq, TLAPS

USE DEF Box

LEMMA PruningType ==
  ASSUME NEW b \in Box, NEW r \in Prunings(b)
  PROVE  /\ r[1] \in SUBSET b
         /\ r[2] \in SUBSET Constraint
         /\ \A p \in b : p \in r[1] \/ Excludes(r[2], p)
BY DEF Prunings

(* The seeds are boxes within the box they are made from.                  *)
LEMMA SeedsType ==
  ASSUME NEW b \in Box, NEW seeds \in SeedBoxes(b)
  PROVE  seeds \in Seq(Box) /\ \A i \in 1 .. Len(seeds) : seeds[i] \subseteq b
<1>1. PICK n \in 0 .. SeedSamples : seeds \in [1 .. n -> SmallBoxAround(b)]
  BY DEF SeedBoxes
<1>2. n \in Nat
  BY <1>1, SeedSamplesAssumption
<1>3. seeds \in [1 .. n -> Box]
  BY <1>1 DEF SmallBoxAround
<1>4. seeds \in Seq(Box) /\ Len(seeds) = n
  BY <1>2, <1>3
<1> QED
  BY <1>1, <1>4 DEF SmallBoxAround

LEMMA ExcludesMonotone ==
  ASSUME NEW u, NEW v, u \subseteq v, NEW p, Excludes(u, p)
  PROVE  Excludes(v, p)
BY DEF Excludes

LEMMA TypeOKInit == Init => TypeOK
BY StackLeftBoxFirstAssumption DEF Init, TypeOK, Status

LEMMA TypeOKStep == TypeOK /\ [Next]_vars => TypeOK'
<1> SUFFICES ASSUME TypeOK, [Next]_vars
             PROVE  TypeOK'
  OBVIOUS
<1> USE DEF TypeOK, Status
<1>1. CASE Seed
  BY <1>1, SeedsType DEF Seed
<1>2. CASE Pop
  BY <1>2 DEF Pop
<1>3. CASE NoSolution
  BY <1>3 DEF NoSolution
<1>4. CASE Prune
  BY <1>4, PruningType DEF Prune
<1>5. CASE Infeasible
  BY <1>5 DEF Infeasible, Refuters
<1>6. CASE Found
  BY <1>6 DEF Found
<1>7. CASE Branch
  <2>1. PICK h \in Halves[cs.box] :
          stack' = (IF explore_left_first THEN <<h[1], h[2]>> ELSE <<h[2], h[1]>>) \o stack
    BY <1>7 DEF Branch
  <2>2. h \in Box \X Box
    BY <2>1, HalvesAssumption
  <2>3. <<h[1], h[2]>> \in Seq(Box) /\ <<h[2], h[1]>> \in Seq(Box) /\ stack \in Seq(Box)
    BY <2>2
  <2>4. stack' = <<h[1], h[2]>> \o stack \/ stack' = <<h[2], h[1]>> \o stack
    BY <2>1
  <2>5. ASSUME NEW s \in Seq(Box), NEW t \in Seq(Box)
        PROVE  s \o t \in Seq(Box)
    OBVIOUS
  <2>6. stack' \in Seq(Box)
    BY <2>3, <2>4, <2>5
  <2> QED
    BY <1>7, <2>6 DEF Branch
<1>8. CASE Finished \/ UNCHANGED vars
  BY <1>8 DEF Finished, vars
<1> QED
  BY <1>1, <1>2, <1>3, <1>4, <1>5, <1>6, <1>7, <1>8 DEF Next, Step

(* Every variable of the search keeps its type.                            *)
THEOREM TypeCorrect == Spec => []TypeOK
BY TypeOKInit, TypeOKStep, PTL DEF Spec

-----------------------------------------------------------------------------
\* What every step does to the points: none becomes open again, and a point
\* that is no longer open is ruled out by an assertion that is recorded.
RulesOutOnly ==
  /\ Open' \in SUBSET Open
  /\ cs.used \subseteq cs'.used
  /\ \A p \in Open \ Open' : Excludes(cs'.used, p)

LEMMA StepRulesOut == IInv /\ [Next]_vars => RulesOutOnly
<1> SUFFICES ASSUME IInv, [Next]_vars
             PROVE  RulesOutOnly
  OBVIOUS
<1> USE DEF RulesOutOnly
<1>t. TypeOK /\ TypeOK'
  BY TypeOKStep DEF IInv
<1>1. CASE Seed
  <2>1. PICK seeds \in SeedBoxes(cs.box) : stack' = seeds \o stack
    BY <1>1 DEF Seed
  <2>2. Open \subseteq Point /\ Open' \subseteq Point /\ cs' = cs
    BY <1>1 DEF Seed, Open
  <2>3. seeds \in Seq(Box) /\ stack \in Seq(Box)
    BY <1>t, <2>1, SeedsType DEF TypeOK, Status
  <2>4. ASSUME NEW p \in Open
        PROVE  p \in Open'
    <3>1. PICK i \in 1 .. Len(stack) : p \in stack[i]
      BY <1>1, <2>4 DEF Open, InHand, Seed
    <3>2. Len(seeds) + i \in 1 .. Len(stack') /\ stack'[Len(seeds) + i] = stack[i]
      BY <2>1, <2>3, <3>1
    <3> QED
      BY <3>1, <3>2, <2>4, <2>2 DEF Open
  <2>5. Open = Point
    <3>1. Len(stack) = 1 /\ stack[1] = Point
      BY <1>1 DEF Seed, IInv, LoopOK
    <3> QED
      BY <3>1 DEF Open
  <2> QED
    BY <2>2, <2>4, <2>5
<1>2. CASE Pop
  <2>1. stack \in Seq(Box) /\ stack # <<>> /\ stack' = Tail(stack)
        /\ cs'.box = Head(stack) /\ cs'.used = cs.used
        /\ pc = "loop" /\ pc' = "prune"
    BY <1>2, <1>t DEF Pop, TypeOK, Status
  <2>2. /\ Len(stack') = Len(stack) - 1
        /\ \A i \in 1 .. Len(stack') : stack'[i] = stack[i + 1]
        /\ cs'.box = stack[1] /\ 1 \in 1 .. Len(stack)
    BY <2>1
  <2>3. ASSUME NEW p \in Point
        PROVE  p \in Open <=> p \in Open'
    <3>1. ASSUME NEW i \in 1 .. Len(stack), p \in stack[i]
          PROVE  p \in Open'
      <4>1. CASE i = 1
        BY <2>1, <2>2, <3>1, <4>1 DEF Open, InHand
      <4>2. CASE i # 1
        <5>1. i - 1 \in 1 .. Len(stack') /\ stack'[i - 1] = stack[i]
          BY <2>1, <2>2, <4>2
        <5> QED
          BY <3>1, <5>1 DEF Open
      <4> QED
        BY <4>1, <4>2
    <3>2. ASSUME NEW i \in 1 .. Len(stack'), p \in stack'[i]
          PROVE  p \in Open
      <4>1. i + 1 \in 1 .. Len(stack) /\ p \in stack[i + 1]
        BY <2>1, <2>2, <3>2
      <4> QED
        BY <4>1 DEF Open
    <3>3. p \in cs'.box => p \in Open
      BY <2>2 DEF Open
    <3> QED
      BY <2>1, <3>1, <3>2, <3>3 DEF Open, InHand
  <2> QED
    BY <2>1, <2>3 DEF Open
<1>3. CASE NoSolution
  <2>1. cs' = cs /\ stack' = stack /\ cs.box = {}
    BY <1>3 DEF NoSolution, IInv, LoopOK
  <2> QED
    BY <2>1 DEF Open, InHand
<1>4. CASE Prune
  <2>1. PICK r \in Prunings(cs.box) :
          /\ cs' = [box |-> r[1], used |-> cs.used \cup r[2]]
          /\ pc' = IF r[1] = {} THEN "loop" ELSE "eval"
    BY <1>4 DEF Prune
  <2>2. r[1] \in SUBSET cs.box /\ r[2] \in SUBSET Constraint
        /\ \A p \in cs.box : p \in r[1] \/ Excludes(r[2], p)
    BY <1>t, <2>1, PruningType DEF TypeOK, Status
  <2>3. pc = "prune" /\ stack' = stack
    BY <1>4 DEF Prune
  <2>4. InHand = cs.box /\ InHand' = r[1]
    BY <2>1, <2>3 DEF InHand
  <2>5. \A p \in cs.box : p \in r[1] \/ Excludes(cs'.used, p)
    BY <2>1, <2>2 DEF Excludes
  <2> QED
    BY <2>1, <2>2, <2>3, <2>4, <2>5 DEF Open
<1>5. CASE Infeasible
  <2>1. PICK c \in Refuters(cs.box) : cs' = [box |-> {}, used |-> cs.used \cup {c}]
    BY <1>5 DEF Infeasible
  <2>2. \A p \in cs.box : Excludes(cs'.used, p)
    BY <2>1 DEF Refuters, Excludes
  <2>3. InHand = cs.box /\ InHand' = {} /\ stack' = stack
    BY <1>5 DEF Infeasible, InHand
  <2> QED
    BY <2>1, <2>2, <2>3 DEF Open
<1>6. CASE Found
  BY <1>6 DEF Found, Open, InHand
<1>7. CASE Branch
  <2>1. PICK h \in Halves[cs.box] :
          stack' = (IF explore_left_first THEN <<h[1], h[2]>> ELSE <<h[2], h[1]>>) \o stack
    BY <1>7 DEF Branch
  <2>2. h \in Box \X Box /\ h[1] \cup h[2] = cs.box
    BY <1>t, <2>1, HalvesAssumption DEF TypeOK, Status
  <2>3. stack \in Seq(Box) /\ pc = "eval" /\ pc' = "loop" /\ cs' = cs
    BY <1>7, <1>t DEF Branch, TypeOK
  <2>4. /\ Len(stack') = Len(stack) + 2
        /\ {stack'[1], stack'[2]} = {h[1], h[2]}
        /\ \A i \in 1 .. Len(stack) : stack'[i + 2] = stack[i]
        /\ \A i \in 1 .. Len(stack') : i \notin {1, 2} => stack'[i] = stack[i - 2]
    BY <2>1, <2>2, <2>3
  <2>5. Len(stack) \in Nat
    BY <2>3
  <2>6. ASSUME NEW p \in Point
        PROVE  p \in Open <=> p \in Open'
    <3>1. ASSUME p \in cs.box
          PROVE  p \in Open'
      <4>1. p \in stack'[1] \/ p \in stack'[2]
        BY <2>2, <2>4, <3>1
      <4>2. 1 \in 1 .. Len(stack') /\ 2 \in 1 .. Len(stack')
        BY <2>4, <2>5
      <4> QED
        BY <4>1, <4>2 DEF Open
    <3>2. ASSUME NEW i \in 1 .. Len(stack), p \in stack[i]
          PROVE  p \in Open'
      <4>1. i + 2 \in 1 .. Len(stack') /\ p \in stack'[i + 2]
        BY <2>4, <2>5, <3>2
      <4> QED
        BY <4>1 DEF Open
    <3>3. ASSUME NEW i \in 1 .. Len(stack'), p \in stack'[i]
          PROVE  p \in Open
      <4>1. CASE i \in {1, 2}
        <5>1. p \in cs.box
          BY <2>2, <2>4, <3>3, <4>1
        <5> QED
          BY <5>1, <2>3 DEF Open, InHand
      <4>2. CASE i \notin {1, 2}
        <5>1. i - 2 \in 1 .. Len(stack) /\ p \in stack[i - 2]
          BY <2>4, <2>5, <3>3, <4>2
        <5> QED
          BY <5>1 DEF Open
      <4> QED
        BY <4>1, <4>2
    <3> QED
      BY <2>3, <3>1, <3>2, <3>3 DEF Open, InHand
  <2> QED
    BY <2>3, <2>6 DEF Open
<1>8. CASE Finished \/ UNCHANGED vars
  BY <1>8 DEF Finished, vars, Open, InHand
<1> QED
  BY <1>1, <1>2, <1>3, <1>4, <1>5, <1>6, <1>7, <1>8 DEF Next, Step

LEMMA IInvInit == Init => IInv
<1> SUFFICES ASSUME Init
             PROVE  IInv
  OBVIOUS
<1>1. Open = Point
  <2>1. Len(stack) = 1 /\ stack[1] = Point
    BY DEF Init
  <2> QED
    BY <2>1 DEF Open
<1> QED
  BY <1>1, TypeOKInit DEF Init, IInv, NoPointLost, VerdictIsJustified, LoopOK

LEMMA IInvStep == IInv /\ [Next]_vars => IInv'
<1> SUFFICES ASSUME IInv, [Next]_vars
             PROVE  IInv'
  OBVIOUS
<1>1. TypeOK'
  BY TypeOKStep DEF IInv
<1>2. NoPointLost'
  BY StepRulesOut, ExcludesMonotone DEF RulesOutOnly, IInv, NoPointLost
<1>3. LoopOK'
  <2> USE DEF IInv, LoopOK
  <2>1. CASE Seed
    <3>1. PICK seeds \in SeedBoxes(cs.box) : stack' = seeds \o stack
      BY <2>1 DEF Seed
    <3>2. seeds \in Seq(Box) /\ stack = <<Point>>
      BY <2>1, <3>1, SeedsType DEF Seed, TypeOK, Status
    <3>3. stack' # <<>>
      BY <3>1, <3>2
    <3> QED
      BY <2>1, <3>3 DEF Seed
  <2>2. CASE Pop
    BY <2>2 DEF Pop
  <2>3. CASE NoSolution
    BY <2>3 DEF NoSolution
  <2>4. CASE Prune
    BY <2>4 DEF Prune
  <2>5. CASE Infeasible
    BY <2>5 DEF Infeasible
  <2>6. CASE Found
    BY <2>6 DEF Found
  <2>7. CASE Branch
    <3>1. PICK h \in Halves[cs.box] :
            stack' = (IF explore_left_first THEN <<h[1], h[2]>> ELSE <<h[2], h[1]>>) \o stack
      BY <2>7 DEF Branch
    <3>2. h \in Box \X Box /\ stack \in Seq(Box)
      BY <3>1, HalvesAssumption DEF TypeOK, Status
    <3>3. stack' # <<>>
      BY <3>1, <3>2
    <3> QED
      BY <2>7, <3>3 DEF Branch
  <2>8. CASE Finished \/ UNCHANGED vars
    BY <2>8 DEF Finished, vars
  <2> QED
    BY <2>1, <2>2, <2>3, <2>4, <2>5, <2>6, <2>7, <2>8 DEF Next, Step
<1>4. VerdictIsJustified'
  <2> USE DEF IInv, VerdictIsJustified
  <2>1. CASE NoSolution
    <3>1. cs' = cs /\ cs.box = {} /\ verdict' = "unsat"
      BY <2>1 DEF NoSolution, LoopOK
    <3>2. Open = {}
      BY <2>1 DEF NoSolution, Open, InHand
    <3> QED
      BY <3>1, <3>2 DEF NoPointLost
  <2>2. CASE Found
    BY <2>2 DEF Found, LoopOK
  <2>3. CASE Seed \/ Pop \/ Prune \/ Infeasible \/ Branch
    <3>1. verdict' = verdict /\ verdict = "none"
      BY <2>3 DEF Seed, Pop, Prune, Infeasible, Branch, LoopOK
    <3> QED
      BY <3>1
  <2>4. CASE Finished \/ UNCHANGED vars
    BY <2>4 DEF Finished, vars, Answerable
  <2> QED
    BY <2>1, <2>2, <2>3, <2>4 DEF Next, Step
<1> QED
  BY <1>1, <1>2, <1>3, <1>4 DEF IInv

(* The inductive invariant of the sequential search.                       *)
THEOREM InvariantCorrect == Spec => []IInv
BY IInvInit, IInvStep, PTL DEF Spec

(* No subspace is dropped and both verdicts are justified, whatever the    *)
(* seeds, the brancher and the side explored first.                        *)
THEOREM VerdictCorrect == Spec => [](NoPointLost /\ VerdictIsJustified)
<1>1. IInv => NoPointLost /\ VerdictIsJustified
  BY DEF IInv
<1> QED
  BY <1>1, InvariantCorrect, PTL

-----------------------------------------------------------------------------
LEMMA RefinementInit == Init => BP!Init
<1> SUFFICES ASSUME Init
             PROVE  BP!Init
  OBVIOUS
<1>1. Len(stack) = 1 /\ stack[1] = Point
  BY DEF Init
<1> QED
  BY <1>1 DEF Init, BP!Init, Open

LEMMA RefinementStep == IInv /\ [Next]_vars => [BP!Next]_BP!vars
<1> SUFFICES ASSUME IInv, [Next]_vars
             PROVE  [BP!Next]_BP!vars
  OBVIOUS
<1>1. RulesOutOnly
  BY StepRulesOut
<1>2. TypeOK /\ TypeOK'
  BY TypeOKStep DEF IInv
<1>3. Open \in SUBSET Point /\ cs'.used \in SUBSET Constraint
  BY <1>2 DEF Open, TypeOK, Status
<1>4. CASE Seed \/ Pop \/ Prune \/ Infeasible \/ Branch
  <2>1. verdict' = verdict /\ verdict = "none"
    BY <1>4 DEF Seed, Pop, Prune, Infeasible, Branch, IInv, LoopOK
  <2>2. BP!RuleOut
    BY <1>1, <1>3, <2>1 DEF BP!RuleOut, RulesOutOnly, Excludes, BP!Excludes
  <2> QED
    BY <2>2 DEF BP!Next
<1>5. CASE NoSolution
  <2>1. /\ cs' = cs /\ stack' = stack /\ cs.box = {} /\ stack = <<>>
        /\ verdict = "none" /\ verdict' = "unsat" /\ pc = "loop"
    BY <1>5 DEF NoSolution, IInv, LoopOK
  <2>2. Open = {} /\ Open' = {}
    BY <2>1 DEF Open, InHand
  <2> QED
    BY <2>1, <2>2 DEF BP!AnswerUnsat, BP!Next
<1>6. CASE Found
  <2>1. /\ cs' = cs /\ stack' = stack /\ Answerable(cs.box)
        /\ verdict = "none" /\ verdict' = "delta_sat" /\ pc = "eval" /\ pc' = "done"
    BY <1>6 DEF Found, IInv, LoopOK
  <2>2. Open' = Open /\ cs.box \subseteq Open
    BY <1>2, <2>1 DEF Open, InHand, TypeOK, Status
  <2> QED
    BY <2>1, <2>2 DEF BP!AnswerDeltaSat, BP!Next, Answerable, BP!Answerable,
         SmallEnough, BP!SmallEnough, Bisectable, BP!Bisectable
<1>7. CASE Finished \/ UNCHANGED vars
  BY <1>7 DEF Finished, vars, BP!vars, Open, InHand
<1> QED
  BY <1>4, <1>5, <1>6, <1>7 DEF Next, Step

(* IcpSeq implements BranchAndPrune.                                       *)
THEOREM Refinement == Spec => ImplementsBranchAndPrune
BY InvariantCorrect, RefinementInit, RefinementStep, PTL
   DEF Spec, ImplementsBranchAndPrune, BP!Spec
=============================================================================
