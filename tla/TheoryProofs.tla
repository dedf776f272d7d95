---------------------------- MODULE TheoryProofs ----------------------------
(***************************************************************************)
(* The CDCL(T) loop and the fixpoint of the theory solver.  UNSAT and      *)
(* delta-SAT are right for every CNF, every chain of boxes and every       *)
(* theory solver and pattern matcher that satisfy the assumptions of       *)
(* CdclT.  Both fixpoint loops return the widest fixpoint when they end    *)
(* quietly, for any number of contractors and dimensions and along any     *)
(* branch.                                                                 *)
(***************************************************************************)
EXTENDS CdclT, TheoryFixpoint, WellFoundedInduction, TLAPS

-----------------------------------------------------------------------------
(* The CDCL(T) loop *)

(* A literal and its negation are of the same variable, and exactly one of *)
(* them holds for an assignment.                                            *)
LEMMA LiteralFacts ==
  ASSUME NEW l \in Literal
  PROVE  /\ -l \in Literal
         /\ VarOf(l) \in SatVar
         /\ \A a \in Assignment : Holds(a, -l) <=> ~Holds(a, l)
<1>1. SatVar \subseteq Nat \ {0}
  BY SatVarsAssumption DEF SatVar
<1>2. PICK v \in SatVar : l = v \/ l = -v
  BY DEF Literal
<1>3. v \in Nat /\ v > 0 /\ -v < 0 /\ -(-v) = v
  BY <1>1, <1>2
<1>4. CASE l = v
  BY <1>3, <1>4 DEF Literal, VarOf, Holds, Assignment
<1>5. CASE l = -v
  BY <1>3, <1>5 DEF Literal, VarOf, Holds, Assignment
<1> QED
  BY <1>2, <1>4, <1>5

(* A learned clause holds for every assignment that does not agree with    *)
(* the conjunction it was learned from.                                    *)
LEMMA NegationHolds ==
  ASSUME NEW a \in Assignment, NEW E \in SUBSET Literal, ~Agrees(a, E)
  PROVE  /\ Negation(E) \in SUBSET Literal
         /\ \E l \in Negation(E) : Holds(a, l)
<1>1. PICK l \in E : ~Holds(a, l)
  BY DEF Agrees
<1>2. Holds(a, -l)
  BY <1>1, LiteralFacts
<1> QED
  BY <1>1, <1>2, LiteralFacts DEF Negation

(* The models that SatSolver reads are sets of literals.                   *)
LEMMA ProposedType ==
  ASSUME clauses \subseteq SUBSET Literal, NEW m \in Proposed
  PROVE  m \subseteq Literal
<1>1. Declared(clauses) \subseteq SatVar
  BY LiteralFacts DEF Declared
<1>2. ASSUME NEW a, NEW V \in SUBSET SatVar
      PROVE  Kept(a, V) \subseteq Literal
  BY <1>2 DEF Kept, Literal
<1>3. ASSUME NEW a, NEW d PROVE PartialModel(a, clauses, d) \subseteq Literal
  BY <1>1, <1>2 DEF PartialModel
<1>4. ASSUME NEW a PROVE FullModel(a, clauses) \subseteq Literal
  BY <1>1, <1>2 DEF FullModel
<1>5. CASE RequestFull
  <2>1. PICK a \in Assignment : m = FullModel(a, clauses)
    BY <1>5 DEF Proposed
  <2> QED
    BY <2>1, <1>4
<1>6. CASE ~RequestFull
  <2>1. \E a \in Assignment :
          m \in {PartialModel(a, clauses, d) : d \in SUBSET Mask(a, clauses)}
    BY <1>6 DEF Proposed
  <2>2. PICK a \in Assignment :
          m \in {PartialModel(a, clauses, d) : d \in SUBSET Mask(a, clauses)}
    BY <2>1
  <2>3. PICK d \in SUBSET Mask(a, clauses) : m = PartialModel(a, clauses, d)
    BY <2>2
  <2> QED
    BY <2>3, <1>3
<1> QED
  BY <1>5, <1>6

-----------------------------------------------------------------------------
\* No clause excludes an assignment that solves what was asserted and has no
\* conflict in the box.
ClausesSound ==
  \A a \in Assignment :
    Solves(a) /\ Consistent(a, Conflicts[region]) => Satisfies(a, clauses)

Inv == TypeOK /\ ClausesSound /\ UnsatIsRight

(* What one theory check learns excludes no such assignment.               *)
LEMMA LearnedSound ==
  ASSUME TypeOK, NEW E \in Explanations, NEW P \in PatternClauses(E)
  PROVE  /\ Learned(E, P) \subseteq SUBSET Literal
         /\ \A a \in Assignment :
              Consistent(a, Conflicts[region]) => Satisfies(a, Learned(E, P))
<1>1. /\ E \in SUBSET TheoryLiteral
      /\ E \in SUBSET Literal
      /\ \E C \in Conflicts[region] : C \subseteq E
  BY DEF TypeOK, Explanations, TheoryModel, TheoryLiteral
<1>2. region \in Region
  BY DEF TypeOK
<1>3. \A Q \in Similar(E, region) :
        /\ Q \in SUBSET Literal
        /\ \E C \in Conflicts[region] : C \subseteq Q
  BY <1>1, <1>2, SimilarAssumption DEF TheoryLiteral
<1>4. P \subseteq {Negation(Q) : Q \in Similar(E, region)}
  BY DEF PatternClauses
<1>5. ASSUME NEW a \in Assignment, Consistent(a, Conflicts[region]),
             NEW Q \in SUBSET Literal,
             \E C \in Conflicts[region] : C \subseteq Q
      PROVE  ~Agrees(a, Q)
  BY <1>5 DEF Consistent, Agrees
<1>6. \A c \in Learned(E, P) :
        \E Q \in SUBSET Literal : /\ c = Negation(Q)
                                  /\ \E C \in Conflicts[region] : C \subseteq Q
  BY <1>1, <1>3, <1>4 DEF Learned
<1>7. Learned(E, P) \subseteq SUBSET Literal
  BY <1>6, LiteralFacts DEF Negation
<1>8. ASSUME NEW a \in Assignment, Consistent(a, Conflicts[region]),
             NEW c \in Learned(E, P)
      PROVE  \E l \in c : Holds(a, l)
  <2>1. PICK Q \in SUBSET Literal : /\ c = Negation(Q)
                                    /\ \E C \in Conflicts[region] : C \subseteq Q
    BY <1>6, <1>8
  <2>2. ~Agrees(a, Q)
    BY <2>1, <1>5, <1>8
  <2> QED
    BY <2>1, <2>2, NegationHolds
<1> QED
  BY <1>7, <1>8 DEF Satisfies

LEMMA InitInv == Init => Inv
<1> SUFFICES ASSUME Init PROVE Inv
  OBVIOUS
<1>1. region \in Region
  BY ProblemAssumption DEF Init, Region
<1>2. TypeOK
  <2>1. recent \in Nat /\ limit \in Nat \ {0} /\ calls \in Nat
    BY DEF Init
  <2>2. asserted = {} /\ clauses = {} /\ box = {} /\ model = {}
        /\ phase = "idle" /\ full = FALSE /\ verdict = "none"
    BY DEF Init
  <2>3. fullConstraints \in BOOLEAN
    BY DEF Init
  <2> QED
    BY ONLY <1>1, <2>1, <2>2, <2>3, Zenon DEF TypeOK
<1>3. ClausesSound
  BY DEF Init, ClausesSound, Satisfies
<1>4. UnsatIsRight
  BY DEF Init, UnsatIsRight
<1> QED
  BY <1>2, <1>3, <1>4 DEF Inv

(* Every step of a caller or of the loop keeps the invariant.              *)
LEMMA NextInv == Inv /\ [Next]_vars => Inv'
<1> SUFFICES ASSUME Inv, [Next]_vars PROVE Inv'
  OBVIOUS
<1> USE DEF Inv
<1>1. ASSUME NEW f \in Formulas, AssertFormula(f) PROVE Inv'
  <2>1. TypeOK'
    BY <1>1, ProblemAssumption DEF AssertFormula, TypeOK
  <2>2. ClausesSound'
    BY <1>1 DEF AssertFormula, ClausesSound, Solves, Satisfies, Consistent,
                Agrees
  <2> QED
    BY <2>1, <2>2, <1>1 DEF AssertFormula, UnsatIsRight
<1>2. CASE AssertBound
  <2>1. region \in Region /\ region' \in Region /\ region <= region'
    BY <1>2, ProblemAssumption DEF AssertBound, TypeOK, Region
  <2>2. Conflicts[region] \subseteq Conflicts[region']
    BY <2>1, RegionsShrink
  <2>3. TypeOK'
    BY <1>2, <2>1 DEF AssertBound, TypeOK
  <2>4. ClausesSound'
    BY <1>2, <2>2 DEF AssertBound, ClausesSound, Solves, Consistent
  <2> QED
    BY <2>3, <2>4, <1>2 DEF AssertBound, UnsatIsRight
<1>3. CASE CheckSat
  <2>1. TypeOK'
    BY <1>3 DEF CheckSat, TypeOK
  <2>2. ClausesSound'
    BY <1>3 DEF CheckSat, ClausesSound, Solves
  <2>3. ASSUME IsEmpty(region), NEW a \in Assignment
        PROVE  ~Consistent(a, Conflicts[region])
    BY <2>3 DEF IsEmpty, Consistent, Agrees
  <2>4. UnsatIsRight'
    BY <1>3, <2>3 DEF CheckSat, UnsatIsRight, Solves
  <2> QED
    BY <2>1, <2>2, <2>4
<1>4. CASE SatSolverUnsat
  BY <1>4 DEF SatSolverUnsat, TypeOK, ClausesSound, UnsatIsRight, Solves
<1>5. CASE SatSolverSat
  <2>1. PICK m \in Proposed :
          /\ model' = m
          /\ full' = IsFull(m, clauses)
          /\ box' = Written(box, m)
          /\ IF TheoryModel(m) = {}
             THEN verdict' = "sat" /\ phase' = "idle"
             ELSE phase' = "theory" /\ UNCHANGED verdict
    BY <1>5 DEF SatSolverSat
  <2>2. m \subseteq Literal
    BY ProposedType DEF TypeOK
  <2>3. TypeOK'
    BY <1>5, <2>1, <2>2
       DEF SatSolverSat, TypeOK, IsFull, Written, BooleanModel
  <2> QED
    BY <1>5, <2>1, <2>3
       DEF SatSolverSat, ClausesSound, UnsatIsRight, Solves
<1>6. CASE TheoryUnsat
  <2>1. PICK E \in Explanations : \E P \in PatternClauses(E) :
          clauses' = clauses \cup Learned(E, P)
    BY <1>6 DEF TheoryUnsat
  <2>2. PICK P \in PatternClauses(E) : clauses' = clauses \cup Learned(E, P)
    BY <2>1
  <2>3. /\ Learned(E, P) \subseteq SUBSET Literal
        /\ \A a \in Assignment :
             Consistent(a, Conflicts[region]) => Satisfies(a, Learned(E, P))
    BY LearnedSound
  <2>4. OneLess \in Nat
    BY DEF OneLess, TypeOK
  <2>5. TypeOK'
    BY <1>6, <2>2, <2>3, <2>4 DEF TheoryUnsat, TypeOK
  <2>6. ClausesSound'
    BY <1>6, <2>2, <2>3 DEF TheoryUnsat, ClausesSound, Solves, Satisfies
  <2> QED
    BY <1>6, <2>5, <2>6 DEF TheoryUnsat, UnsatIsRight, Solves
<1>7. CASE TheoryDeltaSat
  BY <1>7 DEF TheoryDeltaSat, TypeOK, ClausesSound, UnsatIsRight, Solves
<1>8. CASE UnderConstrainedDeltaSat
  BY <1>8 DEF UnderConstrainedDeltaSat, BackOff, TypeOK, ClausesSound,
              UnsatIsRight, Solves
<1>9. CASE UNCHANGED vars
  BY <1>9 DEF vars, TypeOK, ClausesSound, UnsatIsRight, Solves
<1> QED
  BY <1>1, <1>2, <1>3, <1>4, <1>5, <1>6, <1>7, <1>8, <1>9 DEF Next, Loop

-----------------------------------------------------------------------------
(* The invariant holds for every instance: the clauses of the SAT solver   *)
(* never exclude an assignment that may have a solution in the box.        *)
THEOREM InvariantCorrect == Spec => [](TypeOK /\ ClausesSound /\ UnsatIsRight)
<1> QED
  BY InitInv, NextInv, PTL DEF Spec, Inv

(* UNSAT is right after every sequence of assertions and calls.            *)
THEOREM UnsatCorrect == Spec => []UnsatIsRight
BY InvariantCorrect, PTL

-----------------------------------------------------------------------------
(* delta-SAT.                                                              *)

\* The literals kept of an assignment are those that hold in it.
LEMMA KeptFacts ==
  ASSUME NEW a \in Assignment, NEW V \in SUBSET SatVar
  PROVE  /\ \A l \in Kept(a, V) : l \in Literal /\ VarOf(l) \in V /\ Holds(a, l)
         /\ \A l \in Literal : VarOf(l) \in V => l \in Kept(a, V) \/ -l \in Kept(a, V)
         /\ \A v \in V : \E l \in Kept(a, V) : VarOf(l) = v
<1>1. SatVar \subseteq Nat \ {0}
  BY SatVarsAssumption DEF SatVar
<1>2. ASSUME NEW v \in V
      PROVE  LET l == IF a[v] THEN v ELSE -v
             IN  l \in Kept(a, V) /\ l \in Literal /\ VarOf(l) = v /\ Holds(a, l)
  <2>1. v \in Nat /\ v > 0 /\ -v < 0 /\ -(-v) = v
    BY <1>1
  <2>2. a[v] \in BOOLEAN
    BY DEF Assignment
  <2>3. CASE a[v]
    BY <2>1, <2>3 DEF Kept, Literal, VarOf, Holds
  <2>4. CASE ~a[v]
    BY <2>1, <2>4 DEF Kept, Literal, VarOf, Holds
  <2> QED
    BY <2>3, <2>4
<1>3. \A l \in Kept(a, V) : \E v \in V : l = IF a[v] THEN v ELSE -v
  BY DEF Kept
<1>4. ASSUME NEW l \in Literal, VarOf(l) \in V
      PROVE  l \in Kept(a, V) \/ -l \in Kept(a, V)
  <2>1. l \in Int /\ (VarOf(l) = l \/ VarOf(l) = -l)
    BY <1>1 DEF Literal, VarOf
  <2>2. VarOf(l) \in Kept(a, V) \/ -VarOf(l) \in Kept(a, V)
    BY <1>2, <1>4
  <2>3. l = -(-l)
    BY <2>1
  <2> QED
    BY <2>1, <2>2, <2>3
<1>5. \A l \in Kept(a, V) : l \in Literal /\ VarOf(l) \in V /\ Holds(a, l)
  BY <1>2, <1>3
<1>6. \A v \in V : \E l \in Kept(a, V) : VarOf(l) = v
  BY <1>2
<1> QED
  BY <1>4, <1>5, <1>6

\* Every variable of a clause is declared.
LEMMA DeclaredFacts ==
  ASSUME clauses \subseteq SUBSET Literal
  PROVE  /\ Declared(clauses) \in SUBSET SatVar
         /\ \A c \in clauses : \A l \in c : l \in Literal /\ VarOf(l) \in Declared(clauses)
BY LiteralFacts DEF Declared

\* A proposed model that omits no variable is what an assignment that satisfies
\* the clauses says of all of them, and one that is asked for omits none.
LEMMA ProposedFull ==
  ASSUME clauses \subseteq SUBSET Literal, NEW m \in Proposed,
         IsFull(m, clauses) \/ RequestFull
  PROVE  /\ IsFull(m, clauses)
         /\ \E a \in Assignment : Satisfies(a, clauses) /\ m = FullModel(a, clauses)
<1> DEFINE D == Declared(clauses)
<1>1. D \in SUBSET SatVar
  BY DeclaredFacts
<1>2. ASSUME NEW a \in Assignment, NEW V \in SUBSET SatVar
      PROVE  {VarOf(l) : l \in Kept(a, V)} = V
  BY <1>2, KeptFacts
<1>3. CASE RequestFull
  <2>1. PICK a \in Assignment : Satisfies(a, clauses) /\ m = FullModel(a, clauses)
    BY <1>3 DEF Proposed
  <2>2. D = {VarOf(l) : l \in m}
    BY <1>1, <1>2, <2>1 DEF FullModel
  <2> QED
    BY <2>1, <2>2 DEF IsFull
<1>4. CASE ~RequestFull
  <2>1. PICK a \in Assignment :
          /\ Satisfies(a, clauses)
          /\ m \in {PartialModel(a, clauses, d) : d \in SUBSET Mask(a, clauses)}
    BY <1>4 DEF Proposed
  <2>2. PICK d \in SUBSET Mask(a, clauses) : m = PartialModel(a, clauses, d)
    BY <2>1
  <2> DEFINE F == Flipped(a, clauses, d)
  <2>3. m = Kept(Flip(a, F), D \ F)
    BY <2>2 DEF PartialModel
  <2> HIDE DEF F
  <2>4. Flip(a, F) \in Assignment
    BY DEF Flip, Assignment
  <2>5. D = {VarOf(l) : l \in m}
    BY <1>4 DEF IsFull
  <2>6. D \ F = D
    <3>1. {VarOf(l) : l \in Kept(Flip(a, F), D \ F)} = D \ F
      BY <1>1, <1>2, <2>4
    <3> QED
      BY <2>3, <2>5, <3>1
  <2>7. \A v \in D : v \notin F
    BY <2>6
  <2>8. \A v \in D : Flip(a, F)[v] = a[v]
    BY <1>1, <2>7 DEF Flip, Assignment
  <2>9. Kept(Flip(a, F), D) = Kept(a, D)
    BY <2>8 DEF Kept
  <2> QED
    BY <1>4, <2>1, <2>3, <2>6, <2>9 DEF FullModel
<1> QED
  BY <1>3, <1>4

\* A model that omits nothing and is not refuted has the assignment that the
\* answer promises: its own on the declared variables and the user's, that of
\* a point on the atoms no clause mentions.
LEMMA NotRefutedExtends ==
  ASSUME TypeOK, NEW a \in Assignment, Satisfies(a, clauses),
         NotRefuted(TheoryModel(FullModel(a, clauses))),
         NEW B \in SUBSET FullModel(a, clauses),
         \A f \in asserted : f \subseteq clauses
  PROVE  \E b \in Assignment :
           Agrees(b, B) /\ Solves(b) /\ Consistent(b, Refutable[region])
<1> DEFINE D == Declared(clauses)
           m == FullModel(a, clauses)
           L == TheoryModel(m)
<1>1. D \in SUBSET SatVar
      /\ \A c \in clauses : \A l \in c : l \in Literal /\ VarOf(l) \in D
  BY DeclaredFacts DEF TypeOK
<1>2. m = Kept(a, D)
  BY DEF FullModel
<1> HIDE DEF D, m
<1>3. /\ \A l \in m : l \in Literal /\ VarOf(l) \in D /\ Holds(a, l)
      /\ \A v \in D : \E l \in m : VarOf(l) = v
  BY <1>1, <1>2, KeptFacts
<1>4. /\ L \in SUBSET TheoryLiteral /\ \A l \in L : Holds(a, l)
      /\ \A C \in Refutable[region] : ~(C \subseteq L)
      /\ region \in Region
  BY <1>3 DEF TheoryModel, TheoryLiteral, NotRefuted, TypeOK, m
<1>5. PICK p \in Assignment :
        /\ \A l \in L : Holds(p, l)
        /\ \A C \in Refutable[region] : \E l \in C : ~Holds(p, l)
  BY ONLY <1>4, PointAssumption
<1> DEFINE b == [v \in SatVar |-> IF v \in TheoryVars THEN p[v] ELSE a[v]]
<1>6. b \in Assignment
  BY DEF Assignment
<1>7. \A v \in SatVar : b[v] = IF v \in TheoryVars THEN p[v] ELSE a[v]
  OBVIOUS
<1> HIDE DEF b
<1>8. ASSUME NEW x \in Assignment, NEW y \in Assignment, NEW l \in Literal,
             x[VarOf(l)] = y[VarOf(l)]
      PROVE  Holds(x, l) <=> Holds(y, l)
  BY <1>8 DEF Holds, VarOf
<1>9. ASSUME NEW v \in D PROVE b[v] = a[v]
  <2>1. CASE v \in TheoryVars
    <3>1. PICK l \in m : VarOf(l) = v
      BY <1>3
    <3>2. l \in Literal /\ Holds(a, l) /\ Holds(p, l)
      BY <1>3, <1>5, <2>1, <3>1 DEF TheoryModel
    <3>3. v \in SatVar /\ b[v] = p[v] /\ a[v] \in BOOLEAN /\ p[v] \in BOOLEAN
      BY <1>1, <1>7, <2>1 DEF Assignment
    <3>4. p[v] = a[v]
      BY <3>1, <3>2, <3>3 DEF Holds, VarOf
    <3> QED
      BY <3>3, <3>4
  <2>2. CASE v \notin TheoryVars
    BY <1>1, <1>7, <2>2
  <2> QED
    BY <2>1, <2>2
<1>10. Agrees(b, B)
  <2>1. \A l \in m : Holds(b, l)
    BY <1>3, <1>6, <1>8, <1>9
  <2> QED
    BY <2>1 DEF Agrees, m
<1>11. Solves(b)
  <2>1. Satisfies(b, clauses)
    BY <1>1, <1>6, <1>8, <1>9 DEF Satisfies
  <2> QED
    BY <2>1 DEF Solves, Satisfies
<1>12. Consistent(b, Refutable[region])
  <2> SUFFICES ASSUME NEW C \in Refutable[region] PROVE \E l \in C : ~Holds(b, l)
    BY DEF Consistent, Agrees
  <2>1. PICK l \in C : ~Holds(p, l)
    BY <1>5
  <2>2. l \in Literal /\ VarOf(l) \in TheoryVars
    BY <1>4, ProblemAssumption DEF TheoryLiteral
  <2>3. b[VarOf(l)] = p[VarOf(l)]
    BY <1>7, <2>2, LiteralFacts
  <2> QED
    BY <1>6, <1>8, <2>1, <2>2, <2>3
<1> QED
  BY <1>6, <1>10, <1>11, <1>12

\* Nothing that was asserted is missing from the clauses.
ClausesCover == \A f \in asserted : f \subseteq clauses

\* The literals written into the box are of declared variables.
BoxDeclared == \A l \in box : l \in Literal /\ VarOf(l) \in Declared(clauses)

\* A full model under check, and the box written for it, is what a truth
\* assignment that satisfies the clauses says.
FullIsAssignment ==
  phase = "theory" /\ full =>
    /\ \E a \in Assignment : Satisfies(a, clauses) /\ model = FullModel(a, clauses)
    /\ box \subseteq model

\* A call runs only in a box that is not empty, and has no answer yet.
CallIsOpen == phase # "idle" => ~IsEmpty(region) /\ verdict = "none"

SatInv ==
  /\ ClausesCover /\ BoxDeclared /\ FullIsAssignment /\ CallIsOpen
  /\ DeltaSatIsRight

\* What a full model writes leaves no other literal in the box.
LEMMA WrittenFull ==
  ASSUME TypeOK, BoxDeclared, NEW a \in Assignment
  PROVE  Written(box, FullModel(a, clauses)) \subseteq FullModel(a, clauses)
<1> DEFINE m == FullModel(a, clauses)
<1>1. Declared(clauses) \in SUBSET SatVar
  BY DeclaredFacts DEF TypeOK
<1>2. \A l \in Literal :
        VarOf(l) \in Declared(clauses) => l \in m \/ -l \in m
  BY <1>1, KeptFacts DEF FullModel
<1>3. \A l \in box : -l \notin m => l \in m
  BY <1>2 DEF BoxDeclared
<1> QED
  BY <1>3 DEF Written, BooleanModel

\* The literals of a proposed model are of declared variables.
LEMMA ProposedDeclared ==
  ASSUME clauses \subseteq SUBSET Literal, NEW m \in Proposed
  PROVE  \A l \in m : l \in Literal /\ VarOf(l) \in Declared(clauses)
<1> DEFINE D == Declared(clauses)
<1>1. D \in SUBSET SatVar
  BY DeclaredFacts
<1> HIDE DEF D
<1>2. CASE RequestFull
  <2>1. PICK a \in Assignment : m = FullModel(a, clauses)
    BY <1>2 DEF Proposed
  <2>2. m = Kept(a, D)
    BY <2>1 DEF FullModel, D
  <2> QED
    BY <1>1, <2>2, KeptFacts DEF D
<1>3. CASE ~RequestFull
  <2>1. PICK a \in Assignment :
          m \in {PartialModel(a, clauses, d) : d \in SUBSET Mask(a, clauses)}
    BY <1>3 DEF Proposed
  <2>2. PICK d \in SUBSET Mask(a, clauses) : m = PartialModel(a, clauses, d)
    BY <2>1
  <2> DEFINE F == Flipped(a, clauses, d)
  <2>3. m = Kept(Flip(a, F), D \ F)
    BY <2>2 DEF PartialModel, D
  <2>4. Flip(a, F) \in Assignment
    BY DEF Flip, Assignment
  <2>5. \A l \in m : l \in Literal /\ VarOf(l) \in D \ F
    BY <1>1, <2>3, <2>4, KeptFacts
  <2> QED
    BY <2>5 DEF D
<1> QED
  BY <1>2, <1>3

LEMMA InitSatInv == Init => SatInv
BY DEF Init, SatInv, ClausesCover, BoxDeclared, FullIsAssignment, CallIsOpen,
       DeltaSatIsRight

(* Every step keeps what the answer delta-SAT rests on.                    *)
LEMMA NextSatInv == TypeOK /\ SatInv /\ [Next]_vars => SatInv'
<1> SUFFICES ASSUME TypeOK, SatInv, [Next]_vars PROVE SatInv'
  OBVIOUS
<1> USE DEF SatInv
<1>1. ASSUME NEW f \in Formulas, AssertFormula(f) PROVE SatInv'
  <2>1. Declared(clauses) \subseteq Declared(clauses')
    BY <1>1 DEF AssertFormula, Declared
  <2>2. ClausesCover' /\ BoxDeclared'
    BY <1>1, <2>1 DEF AssertFormula, ClausesCover, BoxDeclared
  <2> QED
    BY <1>1, <2>2
       DEF AssertFormula, FullIsAssignment, CallIsOpen, DeltaSatIsRight
<1>2. CASE AssertBound
  BY <1>2 DEF AssertBound, ClausesCover, BoxDeclared, FullIsAssignment,
              CallIsOpen, DeltaSatIsRight
<1>3. CASE CheckSat
  <2>1. ClausesCover' /\ BoxDeclared' /\ FullIsAssignment' /\ CallIsOpen'
    BY <1>3 DEF CheckSat, ClausesCover, BoxDeclared, FullIsAssignment, CallIsOpen
  <2>2. ASSUME verdict' = "sat" PROVE DeltaSatIsRight'
    <3>1. ~IsEmpty(region) /\ asserted = {} /\ region \in Region
      BY <1>3, <2>2 DEF CheckSat, TypeOK
    <3>2. \A C \in Refutable[region] : ~(C \subseteq {})
      BY <3>1, ProblemAssumption DEF IsEmpty
    <3> DEFINE b == [v \in SatVar |-> TRUE]
    <3>3. b \in Assignment
      BY DEF Assignment
    <3> HIDE DEF b
    <3>4. ASSUME NEW L \in SUBSET TheoryLiteral, L = {}
          PROVE  \E a \in Assignment :
                   \A C \in Refutable[region] : \E l \in C : ~Holds(a, l)
      <4>1. \A C \in Refutable[region] : ~(C \subseteq L)
        BY <3>2, <3>4
      <4>2. \A l \in L : Holds(b, l)
        BY <3>4
      <4> QED
        BY ONLY <3>1, <3>3, <4>1, <4>2, PointAssumption, L \in SUBSET TheoryLiteral
    <3>5. PICK a \in Assignment :
            \A C \in Refutable[region] : \E l \in C : ~Holds(a, l)
      <4>1. {} \in SUBSET TheoryLiteral
        OBVIOUS
      <4> QED
        BY ONLY <3>4, <4>1, Zenon
    <3>6. Consistent(a, Refutable[region])
      BY <3>5 DEF Consistent, Agrees
    <3> QED
      BY <1>3, <3>1, <3>6 DEF CheckSat, DeltaSatIsRight, Agrees, Solves
  <2> QED
    BY <2>1, <2>2 DEF DeltaSatIsRight
<1>4. CASE SatSolverUnsat
  BY <1>4 DEF SatSolverUnsat, ClausesCover, BoxDeclared, FullIsAssignment,
              CallIsOpen, DeltaSatIsRight
<1>5. CASE SatSolverSat
  <2>1. PICK m \in Proposed :
          /\ model' = m
          /\ full' = IsFull(m, clauses)
          /\ box' = Written(box, m)
          /\ IF TheoryModel(m) = {}
             THEN verdict' = "sat" /\ phase' = "idle"
             ELSE phase' = "theory" /\ UNCHANGED verdict
    BY <1>5 DEF SatSolverSat
  <2>2. clauses' = clauses /\ asserted' = asserted /\ region' = region
        /\ fullConstraints' = fullConstraints /\ phase = "sat"
        /\ clauses \subseteq SUBSET Literal
    BY <1>5 DEF SatSolverSat, TypeOK
  <2>3. BoxDeclared'
    <3>1. \A l \in m : l \in Literal /\ VarOf(l) \in Declared(clauses)
      BY <2>2, ProposedDeclared
    <3> QED
      BY <2>1, <2>2, <3>1 DEF BoxDeclared, Written, BooleanModel
  <2>4. ClausesCover' /\ CallIsOpen'
    BY <2>1, <2>2 DEF ClausesCover, CallIsOpen
  <2>5. ASSUME IsFull(m, clauses) \/ RequestFull
        PROVE  /\ IsFull(m, clauses)
               /\ \E a \in Assignment :
                    Satisfies(a, clauses) /\ m = FullModel(a, clauses)
               /\ box' \subseteq m
    <3>1. /\ IsFull(m, clauses)
          /\ \E a \in Assignment : Satisfies(a, clauses) /\ m = FullModel(a, clauses)
      BY <2>2, <2>5, ProposedFull
    <3> QED
      BY <2>1, <3>1, WrittenFull
  <2>6. FullIsAssignment'
    BY <2>1, <2>2, <2>5 DEF FullIsAssignment
  <2>7. ASSUME verdict' = "sat", fullConstraints \/ ~TheoryOmitted'
        PROVE  \E b \in Assignment : /\ Agrees(b, box')
                                     /\ Solves(b)
                                     /\ Consistent(b, Refutable[region])
    <3>1. TheoryModel(m) = {}
      BY <2>1, <2>2, <2>7 DEF CallIsOpen
    <3>2. IsFull(m, clauses) \/ RequestFull
      BY <2>1, <2>7, <3>1 DEF TheoryOmitted, RequestFull
    <3>3. PICK a \in Assignment : Satisfies(a, clauses) /\ m = FullModel(a, clauses)
      BY <2>5, <3>2
    <3>4. region \in Region /\ {} \notin Refutable[region]
      BY <2>2, ProblemAssumption DEF CallIsOpen, IsEmpty, TypeOK
    <3>5. NotRefuted(TheoryModel(FullModel(a, clauses)))
      BY <3>1, <3>3, <3>4 DEF NotRefuted
    <3> QED
      BY <2>5, <3>2, <3>3, <3>5, NotRefutedExtends DEF ClausesCover
  <2>8. DeltaSatIsRight'
    BY <2>2, <2>7 DEF DeltaSatIsRight, Solves
  <2> QED
    BY <2>3, <2>4, <2>6, <2>8
<1>6. CASE TheoryUnsat
  <2>1. clauses \subseteq clauses'
    BY <1>6 DEF TheoryUnsat
  <2>2. Declared(clauses) \subseteq Declared(clauses')
    BY <2>1 DEF Declared
  <2>3. ClausesCover' /\ BoxDeclared'
    BY <1>6, <2>1, <2>2 DEF TheoryUnsat, ClausesCover, BoxDeclared
  <2> QED
    BY <1>6, <2>3 DEF TheoryUnsat, FullIsAssignment, CallIsOpen, DeltaSatIsRight
<1>7. CASE TheoryDeltaSat
  <2>1. PICK a \in Assignment :
          Satisfies(a, clauses) /\ model = FullModel(a, clauses)
    BY <1>7 DEF TheoryDeltaSat, FullIsAssignment
  <2>2. box \subseteq model
    BY <1>7 DEF TheoryDeltaSat, FullIsAssignment
  <2>3. NotRefuted(TheoryModel(FullModel(a, clauses)))
    BY <1>7, <2>1 DEF TheoryDeltaSat
  <2>4. \E b \in Assignment : /\ Agrees(b, box) /\ Solves(b)
                              /\ Consistent(b, Refutable[region])
    BY <2>1, <2>2, <2>3, NotRefutedExtends DEF ClausesCover
  <2>5. DeltaSatIsRight'
    BY <1>7, <2>4 DEF TheoryDeltaSat, DeltaSatIsRight, Solves
  <2> QED
    BY <1>7, <2>5 DEF TheoryDeltaSat, ClausesCover, BoxDeclared,
                      FullIsAssignment, CallIsOpen
<1>8. CASE UnderConstrainedDeltaSat
  BY <1>8 DEF UnderConstrainedDeltaSat, ClausesCover, BoxDeclared,
              FullIsAssignment, CallIsOpen, DeltaSatIsRight
<1>9. CASE UNCHANGED vars
  BY <1>9 DEF vars, ClausesCover, BoxDeclared, FullIsAssignment, CallIsOpen,
              DeltaSatIsRight, Solves, TheoryOmitted
<1> QED
  BY <1>1, <1>2, <1>3, <1>4, <1>5, <1>6, <1>7, <1>8, <1>9 DEF Next, Loop

(* delta-SAT is right after every sequence of assertions and calls: what   *)
(* the answer says of the Boolean variables extends to an assignment that  *)
(* satisfies everything asserted.                                          *)
THEOREM DeltaSatCorrect == Spec => []DeltaSatIsRight
<1>1. Spec => []TypeOK
  BY InvariantCorrect, PTL
<1>2. Spec => []SatInv
  BY <1>1, InitSatInv, NextSatInv, PTL DEF Spec
<1>3. SatInv => DeltaSatIsRight
  BY DEF SatInv
<1> QED
  BY <1>2, <1>3, PTL

-----------------------------------------------------------------------------
(* The fixpoint of the contractors *)

Quiet(i, b) == Ctc[i][b] = b
Fixed(b) == \A i \in Contractors : Quiet(i, b)

\* No fixpoint inside the start of the call has been cut.
KeepsFixpoints ==
  pc # "call" =>
    \A b \in Box : Within(b, start) /\ Fixed(b) => Within(b, cs_box)

\* Inside a pass the contractors before the next have nothing to do if the
\* box has not changed since the pass began.
PassOK ==
  pc = "pass" =>
    /\ cs_box # EmptyBox /\ Within(cs_box, old_box)
    /\ cs_box = old_box => \A i \in Contractors : i < ctc_idx => Quiet(i, cs_box)

\* What is on no list has nothing to do.
WorklistOK ==
  pc \in {"first", "loop"} =>
    /\ cs_box # EmptyBox
    /\ ~unfinished =>
         \A i \in Contractors \ worklist : (pc = "first" => i \notin todo) => Quiet(i, cs_box)

\* Before a call what does not read the cut dimension has nothing to do.
CallOK ==
  pc = "call" =>
    /\ cs_box # EmptyBox
    /\ branching_point # NoDim /\ ~unfinished =>
         \A i \in Contractors : branching_point \notin Input[i] => Quiet(i, cs_box)

ReturnOK ==
  pc = "returned" => Within(cs_box, start) /\ (cs_box = EmptyBox \/ ~unfinished => Fixed(cs_box))

Progress == pc # "call" => Within(cs_box, start)

IInv ==
  /\ FixpointTypeOK /\ KeepsFixpoints /\ PassOK /\ WorklistOK /\ CallOK /\ ReturnOK /\ Progress

-----------------------------------------------------------------------------
(* Lists of contractors and boxes.                                         *)

\* A set of numbers that is not empty has a smallest one: find_first and
\* find_next return a contractor that is on the worklist.
LEMMA SmallestIsIn ==
  ASSUME NEW S \in SUBSET Nat, S # {}
  PROVE  Smallest(S) \in S
<1> DEFINE R == OpToRel(<, Nat)
<1>1. IsWellFoundedOn(R, Nat)
  BY NatLessThanWellFounded
<1>2. \A a, b \in Nat : a < b => <<a, b>> \in R
  BY DEF OpToRel
<1> HIDE DEF R
<1>3. PICK x \in S : \A y \in S : ~ (<<y, x>> \in R)
  BY <1>1, WFMin
<1>4. \A y \in S : ~ (y < x)
  BY <1>2, <1>3
<1>5. \A y \in S : x <= y
  BY <1>4
<1> QED BY <1>5 DEF Smallest

\* The next contractor of a worklist is on it.
LEMMA NextIsIn ==
  ASSUME NEW S \in SUBSET Contractors, S # {}, NEW i \in Contractors
  PROVE  NextIndex(S, i) \in S
<1>1. S \in SUBSET Nat
  BY CtcAssumption DEF Contractors
<1>2. CASE \E j \in S : j > i
  <2> DEFINE T == {j \in S : j > i}
  <2>1. T \in SUBSET Nat /\ T # {}
    BY <1>1, <1>2
  <2>2. Smallest(T) \in T
    BY <2>1, SmallestIsIn
  <2> QED BY <1>2, <2>2 DEF NextIndex
<1>3. CASE ~ \E j \in S : j > i
  BY <1>1, <1>3, SmallestIsIn DEF NextIndex
<1> QED BY <1>2, <1>3

\* Boxes are ordered by Within, and the empty box is below all of them.
LEMMA BoxOrder ==
  /\ \A a, b \in Box : Within(a, b) /\ Within(b, a) => a = b
  /\ \A a, b, c \in Box : Within(a, b) /\ Within(b, c) => Within(a, c)
  /\ \A a \in Box : Within(a, EmptyBox) => a = EmptyBox
  /\ \A a \in Box : Within(EmptyBox, a) /\ Within(a, a)
  /\ EmptyBox \in Box
  /\ \A a \in [Dim -> 0 .. Width] : a \in Box /\ a # EmptyBox
<1>1. \A a \in Box : a \in [Dim -> -1 .. Width]
  BY ThresholdAssumption DEF Box, EmptyBox
<1>2. \A a, b \in [Dim -> -1 .. Width] : Within(a, b) /\ Within(b, a) => a = b
  <2> SUFFICES ASSUME NEW a \in [Dim -> -1 .. Width], NEW b \in [Dim -> -1 .. Width],
                      Within(a, b), Within(b, a)
               PROVE  a = b
    OBVIOUS
  <2>1. \A d \in Dim : a[d] = b[d]
    <3> TAKE d \in Dim
    <3>1. a[d] \in -1 .. Width /\ b[d] \in -1 .. Width
      OBVIOUS
    <3> QED BY <3>1, ThresholdAssumption DEF Within
  <2> QED BY <2>1
<1>3. \A a, b, c \in [Dim -> -1 .. Width] : Within(a, b) /\ Within(b, c) => Within(a, c)
  <2> SUFFICES ASSUME NEW a \in [Dim -> -1 .. Width], NEW b \in [Dim -> -1 .. Width],
                      NEW c \in [Dim -> -1 .. Width], Within(a, b), Within(b, c),
                      NEW d \in Dim
               PROVE  a[d] <= c[d]
    BY DEF Within
  <2>1. a[d] \in -1 .. Width /\ b[d] \in -1 .. Width /\ c[d] \in -1 .. Width
    OBVIOUS
  <2>2. a[d] <= b[d] /\ b[d] <= c[d]
    BY DEF Within
  <2> QED BY <2>1, <2>2, ThresholdAssumption
<1>4. \A a \in [Dim -> -1 .. Width] : Within(EmptyBox, a) /\ Within(a, a)
  BY ThresholdAssumption DEF Within, EmptyBox
<1>5. EmptyBox \in Box
  BY DEF Box
<1>6. \A a \in [Dim -> 0 .. Width] : a \in Box /\ a # EmptyBox
  BY ThresholdAssumption DEF Box, EmptyBox
<1> QED BY <1>1, <1>2, <1>3, <1>4, <1>5, <1>6

\* The empty box is a fixpoint.
LEMMA EmptyIsFixed == Fixed(EmptyBox)
<1> SUFFICES ASSUME NEW i \in Contractors
             PROVE  Ctc[i][EmptyBox] = EmptyBox
  BY DEF Fixed, Quiet
<1>1. Ctc[i][EmptyBox] \in Box /\ Within(Ctc[i][EmptyBox], EmptyBox)
  BY CtcAssumption, BoxOrder
<1> QED BY <1>1, BoxOrder

\* A contractor leaves every fixpoint inside its box in the result.
LEMMA PruneKeepsFixpoints ==
  ASSUME NEW i \in Contractors, NEW b \in Box
  PROVE  /\ Ctc[i][b] \in Box /\ Within(Ctc[i][b], b)
         /\ \A f \in Box : Within(f, b) /\ Fixed(f) => Within(f, Ctc[i][b])
<1>1. Ctc[i][b] \in Box /\ Within(Ctc[i][b], b)
  BY CtcAssumption
<1>2. ASSUME NEW f \in Box, Within(f, b), Fixed(f)
      PROVE  Within(f, Ctc[i][b])
  <2>1. Within(Ctc[i][f], Ctc[i][b])
    BY <1>2, CtcAssumption
  <2>2. Ctc[i][f] = f
    BY <1>2 DEF Fixed, Quiet
  <2> QED BY <2>1, <2>2
<1> QED BY <1>1, <1>2

\* What reads none of the dimensions in which two boxes differ has something
\* to do in both or in neither.
LEMMA QuietBySameInput ==
  ASSUME NEW j \in Contractors, NEW a \in Box \ {EmptyBox}, NEW b \in Box \ {EmptyBox},
         Input[j] \cap Output(a, b) = {}, Quiet(j, a)
  PROVE  Quiet(j, b)
<1>1. \A d \in Input[j] : a[d] = b[d]
  BY CtcAssumption DEF Output
<1>2. Ctc[j][a] = a <=> Ctc[j][b] = b
  BY <1>1, CtcAssumption
<1> QED BY <1>2 DEF Quiet

\* The wake-up rule: after a contractor has run, what does not read its output
\* has nothing to do, if it had nothing to do before or is that contractor.
LEMMA WakeUp ==
  ASSUME NEW i \in Contractors, NEW b \in Box \ {EmptyBox}, Ctc[i][b] # EmptyBox,
         NEW j \in Contractors \ Readers(Output(b, Ctc[i][b])), j = i \/ Quiet(j, b)
  PROVE  Quiet(j, Ctc[i][b])
<1> DEFINE c == Ctc[i][b]
<1>1. c \in Box \ {EmptyBox}
  BY CtcAssumption
<1>2. Input[j] \cap Output(b, c) = {}
  BY DEF Readers
<1>3. CASE Quiet(j, b)
  BY <1>1, <1>2, <1>3, QuietBySameInput
<1>4. CASE j = i
  <2>1. \A d \in Dim \ Input[i] : c[d] = b[d]
    BY CtcAssumption
  <2>2. \A d \in Dim : c[d] = b[d]
    BY <1>2, <1>4, <2>1 DEF Output
  <2>3. b \in [Dim -> -1 .. Width] /\ c \in [Dim -> -1 .. Width]
    BY <1>1, ThresholdAssumption DEF Box, EmptyBox
  <2>4. c = b
    BY <2>2, <2>3
  <2> QED BY <1>4, <2>4 DEF Quiet
<1> QED BY <1>3, <1>4

-----------------------------------------------------------------------------
(* The inductive invariant, action by action.                              *)

LEMMA InitFixpointInv == FixpointInit => IInv
<1> SUFFICES ASSUME FixpointInit PROVE IInv
  OBVIOUS
<1>1. cs_box \in Box /\ cs_box # EmptyBox /\ 1 \in Contractors
  BY BoxOrder, CtcAssumption DEF FixpointInit, Contractors
<1>2. FixpointTypeOK
  BY <1>1 DEF FixpointInit, FixpointTypeOK
<1>3. CallOK
  BY <1>1 DEF FixpointInit, CallOK
<1> QED
  BY <1>2, <1>3 DEF FixpointInit, IInv, KeepsFixpoints, PassOK, WorklistOK, ReturnOK, Progress

LEMMA CallInv == IInv /\ Call => IInv'
<1> SUFFICES ASSUME IInv, Call PROVE IInv'
  OBVIOUS
<1>1. FixpointTypeOK'
  BY CtcAssumption DEF IInv, FixpointTypeOK, Call, Contractors, Readers
<1>2. cs_box \in Box /\ Within(cs_box, cs_box) /\ cs_box # EmptyBox
  BY BoxOrder DEF IInv, FixpointTypeOK, CallOK, Call
<1>3. KeepsFixpoints' /\ Progress'
  BY <1>2 DEF Call, KeepsFixpoints, Progress
<1>4. PassOK'
  BY <1>2 DEF Call, PassOK, Contractors
<1>5. WorklistOK'
  <2> SUFFICES ASSUME pc' = "first", ~unfinished', NEW i \in Contractors, i \notin todo'
               PROVE  Quiet(i, cs_box)
    BY <1>2 DEF Call, WorklistOK
  <2>1. branching_point # NoDim /\ ~unfinished /\ branching_point \notin Input[i]
    BY DEF Call, Readers, IInv, FixpointTypeOK
  <2> QED BY <2>1 DEF Call, IInv, CallOK
<1> QED BY <1>1, <1>3, <1>4, <1>5 DEF IInv, Call, CallOK, ReturnOK

LEMMA PassInv == IInv /\ Pass => IInv'
<1> SUFFICES ASSUME IInv, Pass PROVE IInv'
  OBVIOUS
<1> DEFINE last == ctc_idx = Len(Ctc)
           ends == last /\ TermCond(old_box, cs_box')
<1>1. /\ pc = "pass" /\ cs_box' = Ctc[ctc_idx][cs_box]
      /\ pc' = IF cs_box' = EmptyBox \/ ends THEN "returned" ELSE pc
      /\ unfinished' = (cs_box' # EmptyBox /\ ends /\ cs_box' # old_box)
      /\ ctc_idx' = IF last THEN 1 ELSE ctc_idx + 1
      /\ old_box' = IF last /\ ~ends THEN cs_box' ELSE old_box
      /\ UNCHANGED <<kind, branching_point, todo, worklist, start>>
  BY DEF Pass
<1>2. ends => last
  OBVIOUS
<1> HIDE DEF ends
<1>3. /\ ctc_idx \in Contractors /\ cs_box \in Box /\ old_box \in Box /\ start \in Box
      /\ cs_box # EmptyBox /\ Within(cs_box, old_box) /\ Within(cs_box, start)
      /\ cs_box = old_box => \A i \in Contractors : i < ctc_idx => Quiet(i, cs_box)
  BY <1>1 DEF IInv, FixpointTypeOK, PassOK, Progress
<1>4. cs_box' \in Box /\ Within(cs_box', cs_box)
  BY <1>1, <1>3, PruneKeepsFixpoints
<1>5. Len(Ctc) \in Nat \ {0} /\ Contractors = 1 .. Len(Ctc)
  BY CtcAssumption DEF Contractors
<1>6. FixpointTypeOK'
  <2>1. ctc_idx' \in Contractors
    BY <1>1, <1>3, <1>5
  <2>2. unfinished' \in BOOLEAN /\ old_box' \in Box /\ pc' \in {"pass", "returned"}
    BY <1>1, <1>3, <1>4
  <2> QED BY <1>1, <1>3, <1>4, <2>1, <2>2 DEF IInv, FixpointTypeOK
<1>7. KeepsFixpoints'
  BY <1>1, <1>3, PruneKeepsFixpoints DEF IInv, KeepsFixpoints
<1>8. Progress'
  BY <1>1, <1>3, <1>4, BoxOrder DEF Progress
<1>9. ASSUME cs_box' = old_box
      PROVE  \A i \in Contractors : i <= ctc_idx => Quiet(i, cs_box')
  <2>1. cs_box' = cs_box /\ cs_box = old_box
    BY <1>3, <1>4, <1>9, BoxOrder
  <2>2. Quiet(ctc_idx, cs_box)
    BY <1>1, <2>1 DEF Quiet
  <2>3. \A i \in Contractors : i <= ctc_idx => i < ctc_idx \/ i = ctc_idx
    BY <1>3, <1>5
  <2> QED BY <1>3, <2>1, <2>2, <2>3
<1>10. PassOK'
  <2> SUFFICES ASSUME pc' = "pass" PROVE PassOK'
    BY DEF PassOK
  <2>1. cs_box' # EmptyBox /\ ~ends
    BY <1>1
  <2>2. CASE last
    <3>1. old_box' = cs_box' /\ ctc_idx' = 1
      BY <1>1, <2>1, <2>2
    <3>2. Within(cs_box', old_box')
      BY <1>4, <3>1, BoxOrder
    <3>3. \A i \in Contractors : ~ (i < ctc_idx')
      BY <1>5, <3>1
    <3> QED BY <2>1, <3>2, <3>3 DEF PassOK
  <2>3. CASE ~last
    <3>1. old_box' = old_box /\ ctc_idx' = ctc_idx + 1
      BY <1>1, <2>3
    <3>2. Within(cs_box', old_box')
      BY <1>3, <1>4, <3>1, BoxOrder
    <3>3. \A i \in Contractors : i < ctc_idx' => i <= ctc_idx
      BY <1>3, <1>5, <3>1
    <3> QED BY <1>9, <2>1, <3>1, <3>2, <3>3 DEF PassOK
  <2> QED BY <2>2, <2>3
<1>11. ReturnOK'
  <2> SUFFICES ASSUME pc' = "returned", cs_box' = EmptyBox \/ ~unfinished'
               PROVE  Fixed(cs_box')
    BY <1>8, <1>1 DEF ReturnOK, Progress
  <2>1. CASE cs_box' = EmptyBox
    BY <2>1, EmptyIsFixed
  <2>2. CASE cs_box' # EmptyBox
    <3>1. ends /\ cs_box' = old_box
      BY <1>1, <2>2
    <3>2. \A i \in Contractors : i <= ctc_idx
      BY <1>2, <1>5, <3>1
    <3> QED BY <1>9, <3>1, <3>2 DEF Fixed
  <2> QED BY <2>1, <2>2
<1>12. WorklistOK' /\ CallOK'
  BY <1>1 DEF WorklistOK, CallOK
<1> QED BY <1>6, <1>7, <1>8, <1>10, <1>11, <1>12 DEF IInv

\* What one contractor does in either half of the worklist loop: it keeps the
\* fixpoints, and what does not read its output stays or becomes quiet.
LEMMA RunOnWorklist ==
  ASSUME IInv, NEW i \in Contractors, pc \in {"first", "loop"}, cs_box' = Ctc[i][cs_box],
         start' = start
  PROVE  /\ cs_box' \in Box
         /\ \A f \in Box : Within(f, start) /\ Fixed(f) => Within(f, cs_box')
         /\ Within(cs_box', start)
         /\ cs_box' # EmptyBox => \A j \in Contractors \ Readers(Output(cs_box, cs_box')) :
                                 j = i \/ Quiet(j, cs_box) => Quiet(j, cs_box')
<1>1. cs_box \in Box /\ start \in Box /\ cs_box # EmptyBox /\ Within(cs_box, start)
  BY DEF IInv, FixpointTypeOK, WorklistOK, Progress
<1>2. cs_box' \in Box /\ Within(cs_box', cs_box)
  BY <1>1, PruneKeepsFixpoints
<1>3. \A f \in Box : Within(f, start) /\ Fixed(f) => Within(f, cs_box')
  BY <1>1, PruneKeepsFixpoints DEF IInv, KeepsFixpoints
<1>4. Within(cs_box', start)
  BY <1>1, <1>2, BoxOrder
<1>5. cs_box' # EmptyBox => \A j \in Contractors \ Readers(Output(cs_box, cs_box')) :
        j = i \/ Quiet(j, cs_box) => Quiet(j, cs_box')
  BY <1>1, WakeUp
<1> QED BY <1>2, <1>3, <1>4, <1>5

LEMMA FirstRoundInv == IInv /\ FirstRound => IInv'
<1> SUFFICES ASSUME IInv, FirstRound PROVE IInv'
  OBVIOUS
<1> DEFINE i == Smallest(todo)
<1>1. /\ pc = "first" /\ todo # {} /\ cs_box' = Ctc[i][cs_box]
      /\ worklist' = worklist \cup Readers(Output(cs_box, cs_box')) /\ todo' = todo \ {i}
      /\ pc' = IF cs_box' = EmptyBox THEN "returned" ELSE "first"
      /\ UNCHANGED <<kind, branching_point, old_box, ctc_idx, start, unfinished>>
  BY DEF FirstRound
<1>2. i \in todo /\ i \in Contractors
  <2>1. todo \in SUBSET Nat
    BY CtcAssumption DEF IInv, FixpointTypeOK, Contractors
  <2> QED BY <1>1, <2>1, SmallestIsIn DEF IInv, FixpointTypeOK
<1> HIDE DEF i
<1>3. /\ cs_box' \in Box
      /\ \A f \in Box : Within(f, start) /\ Fixed(f) => Within(f, cs_box')
      /\ Within(cs_box', start)
      /\ cs_box' # EmptyBox => \A j \in Contractors \ Readers(Output(cs_box, cs_box')) :
                              j = i \/ Quiet(j, cs_box) => Quiet(j, cs_box')
  BY <1>1, <1>2, RunOnWorklist
<1>4. FixpointTypeOK'
  BY <1>1, <1>3 DEF IInv, FixpointTypeOK, Readers
<1>5. KeepsFixpoints' /\ Progress' /\ PassOK' /\ CallOK'
  BY <1>1, <1>3 DEF KeepsFixpoints, Progress, PassOK, CallOK
<1>6. ReturnOK'
  BY <1>1, <1>3, EmptyIsFixed DEF ReturnOK
<1>7. WorklistOK'
  <2> SUFFICES ASSUME cs_box' # EmptyBox, ~unfinished,
                      NEW j \in Contractors \ worklist', j \notin todo'
               PROVE  Quiet(j, cs_box')
    BY <1>1 DEF WorklistOK
  <2>1. j \notin Readers(Output(cs_box, cs_box')) /\ j \notin worklist
    BY <1>1
  <2>2. j = i \/ Quiet(j, cs_box)
    BY <1>1, <2>1 DEF IInv, WorklistOK
  <2> QED BY <1>3, <2>1, <2>2
<1> QED BY <1>4, <1>5, <1>6, <1>7 DEF IInv

LEMMA EndFirstRoundInv == IInv /\ EndFirstRound => IInv'
<1> SUFFICES ASSUME IInv, EndFirstRound PROVE IInv'
  OBVIOUS
<1>1. /\ pc = "first" /\ todo = {}
      /\ UNCHANGED <<kind, cs_box, branching_point, todo, worklist, start>>
  BY DEF EndFirstRound
<1>2. cs_box # EmptyBox /\ Within(cs_box, start)
      /\ (~unfinished => \A i \in Contractors \ worklist : Quiet(i, cs_box))
  BY <1>1 DEF IInv, WorklistOK, Progress
<1>3. CASE worklist = {} \/ TermCond(old_box, cs_box)
  <2>1. /\ pc' = "returned" /\ unfinished' = (unfinished \/ worklist # {})
        /\ UNCHANGED <<old_box, ctc_idx>>
    BY <1>3 DEF EndFirstRound
  <2>2. FixpointTypeOK'
    BY <1>1, <2>1 DEF IInv, FixpointTypeOK
  <2>3. ReturnOK'
    BY <1>1, <1>2, <2>1 DEF ReturnOK, Fixed
  <2>4. KeepsFixpoints' /\ Progress' /\ PassOK' /\ CallOK' /\ WorklistOK'
    BY <1>1, <2>1 DEF IInv, KeepsFixpoints, Progress, PassOK, CallOK, WorklistOK
  <2> QED BY <2>2, <2>3, <2>4 DEF IInv
<1>4. CASE ~ (worklist = {} \/ TermCond(old_box, cs_box))
  <2>1. /\ pc' = "loop" /\ old_box' = cs_box /\ ctc_idx' = Smallest(worklist)
        /\ UNCHANGED unfinished
    BY <1>4 DEF EndFirstRound
  <2>2. Smallest(worklist) \in Contractors
    <3>1. worklist \in SUBSET Nat
      BY CtcAssumption DEF IInv, FixpointTypeOK, Contractors
    <3> QED BY <1>4, <3>1, SmallestIsIn DEF IInv, FixpointTypeOK
  <2>3. FixpointTypeOK'
    BY <1>1, <2>1, <2>2 DEF IInv, FixpointTypeOK
  <2>4. WorklistOK'
    BY <1>1, <1>2, <2>1 DEF WorklistOK
  <2>5. KeepsFixpoints' /\ Progress' /\ PassOK' /\ CallOK' /\ ReturnOK'
    BY <1>1, <2>1 DEF IInv, KeepsFixpoints, Progress, PassOK, CallOK, ReturnOK
  <2> QED BY <2>3, <2>4, <2>5 DEF IInv
<1> QED BY <1>3, <1>4

LEMMA RunInv == IInv /\ Run => IInv'
<1> SUFFICES ASSUME IInv, Run PROVE IInv'
  OBVIOUS
<1>1. /\ pc = "loop" /\ cs_box' = Ctc[ctc_idx][cs_box]
      /\ worklist' = (worklist \ {ctc_idx}) \cup Readers(Output(cs_box, cs_box'))
      /\ UNCHANGED <<kind, branching_point, old_box, todo, start, unfinished>>
      /\ IF cs_box' = EmptyBox \/ worklist' = {}
         THEN pc' = "returned" /\ UNCHANGED ctc_idx
         ELSE ctc_idx' = NextIndex(worklist', ctc_idx) /\ pc' = pc
  BY DEF Run
<1>2. ctc_idx \in Contractors
  BY DEF IInv, FixpointTypeOK
<1>3. /\ cs_box' \in Box
      /\ \A f \in Box : Within(f, start) /\ Fixed(f) => Within(f, cs_box')
      /\ Within(cs_box', start)
      /\ cs_box' # EmptyBox => \A j \in Contractors \ Readers(Output(cs_box, cs_box')) :
                              j = ctc_idx \/ Quiet(j, cs_box) => Quiet(j, cs_box')
  BY <1>1, <1>2, RunOnWorklist
<1>4. worklist' \in SUBSET Contractors
  BY <1>1 DEF IInv, FixpointTypeOK, Readers
<1>5. FixpointTypeOK'
  <2>1. ctc_idx' \in Contractors /\ pc' \in {"loop", "returned"}
    BY <1>1, <1>2, <1>4, NextIsIn
  <2> QED BY <1>1, <1>3, <1>4, <2>1 DEF IInv, FixpointTypeOK
<1>6. KeepsFixpoints' /\ Progress' /\ PassOK' /\ CallOK'
  BY <1>1, <1>3 DEF KeepsFixpoints, Progress, PassOK, CallOK
<1>7. ASSUME cs_box' # EmptyBox, ~unfinished
      PROVE  \A j \in Contractors \ worklist' : Quiet(j, cs_box')
  <2> SUFFICES ASSUME NEW j \in Contractors \ worklist' PROVE Quiet(j, cs_box')
    OBVIOUS
  <2>1. j \notin Readers(Output(cs_box, cs_box')) /\ (j \notin worklist \/ j = ctc_idx)
    BY <1>1
  <2>2. j = ctc_idx \/ Quiet(j, cs_box)
    BY <1>1, <1>7, <2>1 DEF IInv, WorklistOK
  <2> QED BY <1>3, <1>7, <2>1, <2>2
<1>8. WorklistOK'
  BY <1>1, <1>7 DEF WorklistOK
<1>9. ReturnOK'
  <2>1. CASE cs_box' = EmptyBox
    BY <1>1, <1>3, <2>1, EmptyIsFixed DEF ReturnOK
  <2>2. CASE cs_box' # EmptyBox
    BY <1>1, <1>3, <1>7, <2>2 DEF ReturnOK, Fixed
  <2> QED BY <2>1, <2>2
<1> QED BY <1>5, <1>6, <1>8, <1>9 DEF IInv

LEMMA BranchInv == IInv /\ Branch => IInv'
<1> SUFFICES ASSUME IInv, Branch PROVE IInv'
  OBVIOUS
<1>1. PICK d \in Dim : /\ cs_box[d] > 0 /\ cs_box' = [cs_box EXCEPT ![d] = @ \div 2]
                       /\ branching_point' \in {d, NoDim}
  BY DEF Branch
<1>2. /\ pc = "returned" /\ cs_box # EmptyBox /\ pc' = "call"
      /\ UNCHANGED <<kind, old_box, todo, worklist, ctc_idx, start, unfinished>>
  BY DEF Branch
<1>3. cs_box \in [Dim -> 0 .. Width]
  BY <1>2 DEF IInv, FixpointTypeOK, Box
<1>4. cs_box' \in [Dim -> 0 .. Width]
  <2>1. cs_box[d] \in 0 .. Width
    BY <1>3
  <2>2. cs_box[d] \div 2 \in 0 .. Width
    BY <2>1, ThresholdAssumption
  <2> QED BY <1>1, <1>3, <2>2
<1>5. cs_box' \in Box /\ cs_box' # EmptyBox
  BY <1>4, BoxOrder
<1>6. FixpointTypeOK'
  BY <1>1, <1>2, <1>5 DEF IInv, FixpointTypeOK
<1>7. CallOK'
  <2> SUFFICES ASSUME branching_point' = d, ~unfinished, NEW i \in Contractors, d \notin Input[i]
               PROVE  Quiet(i, cs_box')
    BY <1>1, <1>2, <1>5 DEF CallOK
  <2>1. Quiet(i, cs_box)
    BY <1>2 DEF IInv, ReturnOK, Fixed
  <2>2. Input[i] \cap Output(cs_box, cs_box') = {}
    BY <1>1, <1>3, CtcAssumption DEF Output
  <2>3. cs_box \in Box \ {EmptyBox}
    BY <1>2 DEF IInv, FixpointTypeOK
  <2> QED BY <1>5, <2>1, <2>2, <2>3, QuietBySameInput
<1> QED BY <1>2, <1>6, <1>7
  DEF IInv, KeepsFixpoints, PassOK, WorklistOK, ReturnOK, Progress

LEMMA StutterInv == IInv /\ UNCHANGED fixpointVars => IInv'
BY DEF IInv, fixpointVars, FixpointTypeOK, KeepsFixpoints, PassOK, WorklistOK, CallOK, ReturnOK, Progress

-----------------------------------------------------------------------------
\* A fixpoint inside start that all fixpoints inside start lie in is the one
\* GreatestFixpoint names.
LEMMA IInvImpliesQuiet == IInv => QuietReturnIsTheFixpoint
<1> SUFFICES ASSUME IInv, pc = "returned", cs_box = EmptyBox \/ ~unfinished
             PROVE  cs_box = GreatestFixpoint
  BY DEF QuietReturnIsTheFixpoint
<1> DEFINE fixed == {b \in Box : Within(b, start) /\ \A i \in Contractors : Ctc[i][b] = b}
<1>1. cs_box \in fixed
  BY DEF IInv, FixpointTypeOK, ReturnOK, Fixed, Quiet
<1>2. \A c \in fixed : Within(c, cs_box)
  BY DEF IInv, KeepsFixpoints, Fixed, Quiet
<1>3. \A b \in fixed : (\A c \in fixed : Within(c, b)) => b = cs_box
  BY <1>1, <1>2, BoxOrder
<1> QED BY <1>1, <1>2, <1>3 DEF GreatestFixpoint

(* A call of either fixpoint loop that returns an empty box, empties its   *)
(* worklist, or ends with a pass that changed nothing returns the widest   *)
(* box inside the one it was given that no contractor narrows, for every   *)
(* list of contractors and every branch (contractor_worklist_fixpoint.cc,  *)
(* contractor_fixpoint.cc).                                                *)
THEOREM QuietCallsReachTheFixpoint == FixpointSpec => []QuietReturnIsTheFixpoint
<1>1. FixpointInit => IInv
  BY InitFixpointInv
<1>2. IInv /\ [FixpointNext]_fixpointVars => IInv'
  <2> SUFFICES ASSUME IInv, [FixpointNext]_fixpointVars PROVE IInv'
    OBVIOUS
  <2>1. CASE Call
    BY <2>1, CallInv
  <2>2. CASE Pass
    BY <2>2, PassInv
  <2>3. CASE FirstRound
    BY <2>3, FirstRoundInv
  <2>4. CASE EndFirstRound
    BY <2>4, EndFirstRoundInv
  <2>5. CASE Run
    BY <2>5, RunInv
  <2>6. CASE Branch
    BY <2>6, BranchInv
  <2>7. CASE UNCHANGED fixpointVars
    BY <2>7, StutterInv
  <2> QED
    BY <2>1, <2>2, <2>3, <2>4, <2>5, <2>6, <2>7 DEF FixpointNext, Prune, Done
<1>3. IInv => QuietReturnIsTheFixpoint
  BY IInvImpliesQuiet
<1> QED BY <1>1, <1>2, <1>3, PTL DEF FixpointSpec
=============================================================================
