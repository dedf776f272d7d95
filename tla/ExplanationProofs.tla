-------------------------- MODULE ExplanationProofs --------------------------
(***************************************************************************)
(* The explanation of UNSAT is sound for every set of variables, values    *)
(* and assertions, any number of workers and every sound contractor.  One  *)
(* of them is the ODE contractor: it loses no solution and reports what it *)
(* changes, for every flow, all invariants that are linked to it, every    *)
(* duration and whatever CAPD adds to its enclosures; for a flow without   *)
(* parameters the explanation refutes what it and the algebraic            *)
(* contractors have emptied.                                               *)
(***************************************************************************)
EXTENDS ExplainedSearch, OdeContractor, TLAPS

-----------------------------------------------------------------------------
(* The search *)

LEMMA StatusFields ==
  ASSUME NEW s \in Status
  PROVE  /\ s.box \in Box
         /\ s.used \in SUBSET Constraint
         /\ s.witness \in SUBSET Var
         /\ s.inconclusive \in SUBSET Constraint
BY DEF Status

LEMMA EmptyBoxIsEmpty == EmptyBox \in Box /\ IsEmpty(EmptyBox)
BY VarAssumption DEF EmptyBox, Box, IsEmpty

LEMMA RecordedType ==
  ASSUME NEW s \in Status, NEW b \in Box, NEW c \in Constraint
  PROVE  AddUsedConstraint([s EXCEPT !.box = b], c) \in Status
BY VarsOfAssumption DEF AddUsedConstraint, Status

(* The explanation is made of recorded assertions.                         *)
LEMMA ExplanationType == TypeOK => Explanation(Joined) \in SUBSET Constraint
<1> SUFFICES ASSUME TypeOK
             PROVE  Explanation(Joined) \in SUBSET Constraint
  OBVIOUS
<1>1. Joined.used \in SUBSET Constraint /\ Joined.inconclusive \in SUBSET Constraint
  BY StatusFields DEF TypeOK, Joined
<1> QED
  BY <1>1 DEF Explanation, Relational

-----------------------------------------------------------------------------
\* What a step of the worker w may do to its status: the record grows.
Records(w, A, B) ==
  /\ \A u \in Worker \ {w} : status'[u] = status[u]
  /\ status'[w].used = status[w].used \cup A
  /\ status'[w].witness = status[w].witness \cup B

LEMMA JoinedGrows ==
  ASSUME NEW w \in Worker, NEW A, NEW B, Records(w, A, B)
  PROVE  /\ Joined'.used = Joined.used \cup A
         /\ Joined'.witness = Joined.witness \cup B
<1>1. \A u \in Worker : status[u].used \subseteq status'[u].used
  BY DEF Records
<1>2. \A u \in Worker : status'[u].used \subseteq status[u].used \cup A
  BY DEF Records
<1>3. \A u \in Worker : status[u].witness \subseteq status'[u].witness
  BY DEF Records
<1>4. \A u \in Worker : status'[u].witness \subseteq status[u].witness \cup B
  BY DEF Records
<1>5. A \subseteq status'[w].used /\ B \subseteq status'[w].witness
  BY DEF Records
<1>6. Joined'.used = UNION {status'[u].used : u \in Worker}
      /\ Joined'.witness = UNION {status'[u].witness : u \in Worker}
      /\ Joined.used = UNION {status[u].used : u \in Worker}
      /\ Joined.witness = UNION {status[u].witness : u \in Worker}
  BY DEF Joined
<1>7. Joined'.used = Joined.used \cup A
  BY <1>1, <1>2, <1>5, <1>6
<1>8. Joined'.witness = Joined.witness \cup B
  BY <1>3, <1>4, <1>5, <1>6
<1> QED
  BY <1>7, <1>8

(* A box that no worker touches stays open.                                *)
LEMMA OthersStayOpen ==
  ASSUME NEW w \in Worker, \A u \in Worker \ {w} : status'[u] = status[u],
         waiting \subseteq waiting',
         NEW b \in OpenBoxes, b # status[w].box
  PROVE  b \in OpenBoxes'
BY DEF OpenBoxes

(* The step of one worker keeps Coverage if a point that can be followed   *)
(* into the worker's box can be followed into a box that is open after it. *)
LEMMA CoverageStep ==
  ASSUME NEW w \in Worker, NEW A, NEW B, Records(w, A, B), Coverage,
         waiting \subseteq waiting',
         \A K \in SUBSET Var : \A p \in Point :
            /\ Candidate(p)
            /\ Joined'.witness \subseteq K
            /\ Separates(K)' /\ SatisfiesOn(p, K)'
            /\ \A v \in K : p[v] \in status[w].box[v]
            => \E b \in OpenBoxes' : \A v \in K : p[v] \in b[v]
  PROVE  Coverage'
<1> SUFFICES ASSUME NEW K \in SUBSET Var, NEW p \in Point, Candidate(p),
                    Joined'.witness \subseteq K, Separates(K)', SatisfiesOn(p, K)'
             PROVE  \E b \in OpenBoxes' : \A v \in K : p[v] \in b[v]
  BY DEF Coverage, Candidate
<1>1. Joined.used \subseteq Joined'.used /\ Joined.witness \subseteq Joined'.witness
  BY JoinedGrows
<1>2. Separates(K) /\ SatisfiesOn(p, K) /\ Joined.witness \subseteq K
  BY <1>1 DEF Separates, SatisfiesOn
<1>3. PICK b \in OpenBoxes : \A v \in K : p[v] \in b[v]
  BY <1>2 DEF Coverage
<1>4. CASE b = status[w].box
  BY <1>3, <1>4
<1>5. CASE b # status[w].box
  BY <1>3, <1>5, OthersStayOpen DEF Records
<1> QED
  BY <1>4, <1>5

(* A point of some variables of a nonempty box is part of a point of it.   *)
LEMMA PointThrough ==
  ASSUME NEW b \in Box, ~IsEmpty(b), NEW K \in SUBSET Var, NEW p \in Point,
         \A v \in K : p[v] \in b[v]
  PROVE  \E q \in Point : InBox(q, b) /\ AgreeOn(q, p, K)
<1> DEFINE q == [v \in Var |-> IF v \in K THEN p[v] ELSE CHOOSE x : x \in b[v]]
<1>1. \A v \in Var : q[v] \in b[v]
  BY DEF IsEmpty
<1>2. q \in Point
  BY <1>1 DEF Point, Box
<1>3. AgreeOn(q, p, K)
  BY DEF AgreeOn
<1> QED
  BY <1>1, <1>2, <1>3 DEF InBox

(* An assertion about variables of K that holds at p cannot separate p, in *)
(* those variables, from a box.                                            *)
LEMMA HoldsThrough ==
  ASSUME NEW b \in Box, ~IsEmpty(b), NEW K \in SUBSET Var, NEW p \in Point,
         \A v \in K : p[v] \in b[v],
         NEW c \in Constraint, VarsOf[c] \subseteq K, p \notin Violating[c]
  PROVE  \E q \in Point : InBox(q, b) /\ AgreeOn(q, p, K) /\ q \notin Violating[c]
<1>1. PICK q \in Point : InBox(q, b) /\ AgreeOn(q, p, K)
  BY PointThrough
<1>2. AgreeOn(q, p, VarsOf[c])
  BY <1>1 DEF AgreeOn
<1>3. q \notin Violating[c]
  BY <1>2, ViolatingAssumption
<1> QED
  BY <1>1, <1>3

(* What AddUsedConstraint on the narrowed box records.                     *)
LEMMA NarrowRecords ==
  ASSUME TypeOK, NEW w \in Worker, NEW c \in Constraint, NEW nb \in Box,
         status' = [status EXCEPT ![w] = AddUsedConstraint([@ EXCEPT !.box = nb], c)]
  PROVE  /\ Records(w, {c}, IF IsEmpty(nb) THEN VarsOf[c] ELSE {})
         /\ status'[w].box = nb
         /\ status' \in [Worker -> Status]
<1>1. status[w] \in Status /\ status[w].box \in Box
  BY StatusFields DEF TypeOK
<1>2. status'[w] = AddUsedConstraint([status[w] EXCEPT !.box = nb], c)
  BY DEF TypeOK
<1>3. status'[w] \in Status
  BY <1>1, <1>2, RecordedType
<1>4. \A u \in Worker \ {w} : status'[u] = status[u]
  BY DEF TypeOK
<1>5. /\ status'[w].box = nb
      /\ status'[w].used = status[w].used \cup {c}
      /\ status'[w].witness =
           status[w].witness \cup (IF IsEmpty(nb) THEN VarsOf[c] ELSE {})
  BY <1>1, <1>2 DEF AddUsedConstraint, Status
<1>6. status' \in [Worker -> Status]
  BY <1>3, <1>4 DEF TypeOK
<1> QED
  BY <1>4, <1>5, <1>6 DEF Records

LEMMA NormalType ==
  ASSUME NEW d \in Box
  PROVE  Normal(d) \in Box /\ (IsEmpty(Normal(d)) <=> IsEmpty(d))
BY EmptyBoxIsEmpty DEF Normal

LEMMA NarrowStep ==
  ASSUME IInv, NEW w \in Worker, Narrow(w)
  PROVE  IInv'
<1> DEFINE b == status[w].box
<1>a. PICK c \in Constraint : \E d \in Narrowings(b, c) :
        status' = [status EXCEPT ![w] = AddUsedConstraint([@ EXCEPT !.box = Normal(d)], c)]
  BY DEF Narrow
<1>1. PICK d \in Narrowings(b, c) :
        status' = [status EXCEPT ![w] = AddUsedConstraint([@ EXCEPT !.box = Normal(d)], c)]
  BY <1>a
<1>2. /\ waiting' = waiting /\ verdict = "none" /\ verdict' = verdict
      /\ explanation' = explanation /\ ~IsEmpty(b)
  BY DEF Narrow, Working
<1>3. TypeOK /\ b \in Box
  BY StatusFields DEF IInv, TypeOK
<1>4. /\ d \in Box
      /\ \A v \in Var : v \notin VarsOf[c] => d[v] = b[v]
      /\ \A q \in Point : InBox(q, b) /\ q \notin Violating[c] => InBox(q, d)
  BY DEF Narrowings, Box
<1>5. /\ Records(w, {c}, IF IsEmpty(Normal(d)) THEN VarsOf[c] ELSE {})
      /\ status'[w].box = Normal(d)
      /\ status' \in [Worker -> Status]
  BY <1>1, <1>3, <1>4, NormalType, NarrowRecords
<1>6. ASSUME NEW K \in SUBSET Var, NEW p \in Point,
             Joined'.witness \subseteq K, Separates(K)', SatisfiesOn(p, K)',
             \A v \in K : p[v] \in b[v]
      PROVE  \E e \in OpenBoxes' : \A v \in K : p[v] \in e[v]
  <2>1. /\ c \in Joined'.used
        /\ IsEmpty(Normal(d)) => VarsOf[c] \subseteq Joined'.witness
    BY <1>5, JoinedGrows
  <2>2. VarsOf[c] \subseteq K => p \notin Violating[c]
    BY <1>6, <2>1 DEF SatisfiesOn
  <2>3. CASE VarsOf[c] \subseteq K
    <3>1. PICK q \in Point : InBox(q, b) /\ AgreeOn(q, p, K) /\ q \notin Violating[c]
      BY <1>2, <1>3, <1>6, <2>2, <2>3, HoldsThrough
    <3>2. InBox(q, d)
      BY <1>4, <3>1
    <3>3. ~IsEmpty(d) /\ Normal(d) = d
      BY <3>2 DEF InBox, IsEmpty, Normal
    <3>4. d \in OpenBoxes'
      BY <1>5, <3>3 DEF OpenBoxes
    <3>5. \A v \in K : p[v] \in d[v]
      BY <3>1, <3>2 DEF AgreeOn, InBox
    <3> QED
      BY <3>4, <3>5
  <2>4. CASE ~(VarsOf[c] \subseteq K)
    <3>1. ~Touches(c, K)
      BY <1>6, <2>1, <2>4 DEF Separates
    <3>2. ~IsEmpty(Normal(d)) /\ ~IsEmpty(d) /\ Normal(d) = d
      BY <1>4, <1>6, <2>1, <2>4, NormalType DEF Normal
    <3>3. \A v \in K : d[v] = b[v]
      BY <1>4, <3>1 DEF Touches
    <3>4. d \in OpenBoxes'
      BY <1>5, <3>2 DEF OpenBoxes
    <3> QED
      BY <1>6, <3>3, <3>4
  <2> QED
    BY <2>3, <2>4
<1>7. Coverage'
  BY <1>2, <1>5, <1>6, CoverageStep DEF IInv
<1> QED
  BY <1>2, <1>5, <1>7 DEF IInv, TypeOK, UnsatOK

LEMMA RefuteStep ==
  ASSUME IInv, NEW w \in Worker, Refute(w)
  PROVE  IInv'
<1> DEFINE b == status[w].box
<1>1. PICK c \in Constraint :
        /\ PointsOf(b) \subseteq Violating[c]
        /\ status' = [status EXCEPT ![w] = AddUsedConstraint([@ EXCEPT !.box = EmptyBox], c)]
  BY DEF Refute
<1>2. /\ waiting' = waiting /\ verdict = "none" /\ verdict' = verdict
      /\ explanation' = explanation /\ ~IsEmpty(b)
  BY DEF Refute, Working
<1>3. TypeOK /\ b \in Box
  BY StatusFields DEF IInv, TypeOK
<1>4. /\ Records(w, {c}, VarsOf[c])
      /\ status' \in [Worker -> Status]
  BY <1>1, <1>3, EmptyBoxIsEmpty, NarrowRecords
<1>5. ASSUME NEW K \in SUBSET Var, NEW p \in Point,
             Joined'.witness \subseteq K, SatisfiesOn(p, K)',
             \A v \in K : p[v] \in b[v]
      PROVE  FALSE
  <2>1. c \in Joined'.used /\ VarsOf[c] \subseteq Joined'.witness
    BY <1>4, JoinedGrows
  <2>2. VarsOf[c] \subseteq K /\ p \notin Violating[c]
    BY <1>5, <2>1 DEF SatisfiesOn
  <2>3. PICK q \in Point : InBox(q, b) /\ AgreeOn(q, p, K) /\ q \notin Violating[c]
    BY <1>2, <1>3, <1>5, <2>2, HoldsThrough
  <2> QED
    BY <1>1, <2>3 DEF PointsOf
<1>6. Coverage'
  BY <1>2, <1>4, <1>5, CoverageStep DEF IInv
<1> QED
  BY <1>2, <1>4, <1>6 DEF IInv, TypeOK, UnsatOK

LEMMA RoundStep ==
  ASSUME IInv, NEW w \in Worker, RoundToIntegers(w)
  PROVE  IInv'
<1> DEFINE b == status[w].box
<1>1. PICK v \in IntVar :
        LET inner == b[v] \cap Integral
        IN  /\ inner # b[v]
            /\ status' = [status EXCEPT ![w] =
                 IF inner = {} THEN AddUnsatWitness([@ EXCEPT !.box = EmptyBox], v)
                 ELSE [@ EXCEPT !.box = [status[w].box EXCEPT ![v] = inner]]]
  BY DEF RoundToIntegers
<1> DEFINE inner == b[v] \cap Integral
           nb == IF inner = {} THEN EmptyBox ELSE [b EXCEPT ![v] = inner]
<1>2. /\ waiting' = waiting /\ verdict = "none" /\ verdict' = verdict
      /\ explanation' = explanation /\ ~IsEmpty(b)
  BY DEF RoundToIntegers, Working
<1>3. TypeOK /\ status[w] \in Status /\ b \in Box /\ v \in Var
  BY StatusFields, IntVarAssumption DEF IInv, TypeOK
<1>4. nb \in Box
  BY <1>3, EmptyBoxIsEmpty DEF Box
<1>5. /\ status'[w] = IF inner = {} THEN AddUnsatWitness([status[w] EXCEPT !.box = EmptyBox], v)
                      ELSE [status[w] EXCEPT !.box = nb]
      /\ \A u \in Worker \ {w} : status'[u] = status[u]
      /\ status' = [u \in Worker |-> IF u = w THEN status'[w] ELSE status[u]]
  BY <1>1, <1>3 DEF TypeOK
<1>6. /\ status'[w] \in Status
      /\ status'[w].box = nb
      /\ status'[w].used = status[w].used
      /\ status'[w].witness = status[w].witness \cup (IF inner = {} THEN {v} ELSE {})
  <2>1. CASE inner = {}
    <3>1. status'[w] = [status[w] EXCEPT !.box = EmptyBox, !.witness = @ \cup {v}]
      BY <1>3, <1>5, <2>1 DEF AddUnsatWitness, Status
    <3> QED
      BY <1>3, <2>1, <3>1, EmptyBoxIsEmpty DEF Status
  <2>2. CASE inner # {}
    BY <1>3, <1>4, <1>5, <2>2 DEF Status
  <2> QED
    BY <2>1, <2>2
<1>7. Records(w, {}, IF inner = {} THEN {v} ELSE {})
  BY <1>5, <1>6 DEF Records
<1>8. status' \in [Worker -> Status]
  BY <1>3, <1>5, <1>6 DEF TypeOK
<1>9. ASSUME NEW K \in SUBSET Var, NEW p \in Point, Candidate(p),
             Joined'.witness \subseteq K, \A u \in K : p[u] \in b[u]
      PROVE  \E e \in OpenBoxes' : \A u \in K : p[u] \in e[u]
  <2>1. v \in K => p[v] \in inner
    BY <1>9 DEF Candidate
  <2>2. inner # {}
    BY <1>7, <1>9, <2>1, JoinedGrows
  <2>3. nb = [b EXCEPT ![v] = inner] /\ ~IsEmpty(nb)
    BY <1>2, <1>3, <2>2 DEF IsEmpty, Box
  <2>4. nb \in OpenBoxes'
    BY <1>6, <2>3 DEF OpenBoxes
  <2>5. \A u \in K : p[u] \in nb[u]
    BY <1>3, <1>9, <2>1, <2>3 DEF Box
  <2> QED
    BY <2>4, <2>5
<1>10. Coverage'
  BY <1>2, <1>7, <1>9, CoverageStep DEF IInv
<1> QED
  BY <1>2, <1>8, <1>10 DEF IInv, TypeOK, UnsatOK

LEMMA InconclusiveStep ==
  ASSUME IInv, NEW w \in Worker, Inconclusive(w)
  PROVE  IInv'
<1>1. PICK c \in Constraint : status' = [status EXCEPT ![w] = AddInconclusiveOde(@, c)]
  BY DEF Inconclusive
<1>2. /\ waiting' = waiting /\ verdict = "none" /\ verdict' = verdict
      /\ explanation' = explanation /\ ~IsEmpty(status[w].box)
  BY DEF Inconclusive, Working
<1>3. TypeOK /\ status[w] \in Status
  BY DEF IInv, TypeOK
<1>4. /\ status'[w] = AddInconclusiveOde(status[w], c)
      /\ \A u \in Worker \ {w} : status'[u] = status[u]
      /\ status' = [u \in Worker |-> IF u = w THEN status'[w] ELSE status[u]]
  BY <1>1, <1>3 DEF TypeOK
<1>5. /\ status'[w] \in Status
      /\ status'[w].box = status[w].box
      /\ status'[w].used = status[w].used
      /\ status'[w].witness = status[w].witness
  BY <1>3, <1>4 DEF AddInconclusiveOde, Status
<1>6. Records(w, {}, {})
  BY <1>4, <1>5 DEF Records
<1>7. status[w].box \in OpenBoxes'
  BY <1>2, <1>5 DEF OpenBoxes
<1>8. Coverage'
  BY <1>2, <1>6, <1>7, CoverageStep DEF IInv
<1>9. status' \in [Worker -> Status]
  BY <1>3, <1>4, <1>5 DEF TypeOK
<1> QED
  BY <1>2, <1>8, <1>9 DEF IInv, TypeOK, UnsatOK

LEMMA BranchStep ==
  ASSUME IInv, NEW w \in Worker, Branch(w)
  PROVE  IInv'
<1> DEFINE b == status[w].box
<1>1. PICK v \in Var : \E lo, hi \in SUBSET b[v] :
        /\ lo # {} /\ hi # {}
        /\ lo \cup hi = b[v]
        /\ status' = [status EXCEPT ![w].box = [b EXCEPT ![v] = lo]]
        /\ waiting' = waiting \cup {[b EXCEPT ![v] = hi]}
  BY DEF Branch
<1>2. PICK lo \in SUBSET b[v] : \E hi \in SUBSET b[v] :
        /\ lo # {} /\ hi # {}
        /\ lo \cup hi = b[v]
        /\ status' = [status EXCEPT ![w].box = [b EXCEPT ![v] = lo]]
        /\ waiting' = waiting \cup {[b EXCEPT ![v] = hi]}
  BY <1>1
<1>3. PICK hi \in SUBSET b[v] :
        /\ lo # {} /\ hi # {}
        /\ lo \cup hi = b[v]
        /\ status' = [status EXCEPT ![w].box = [b EXCEPT ![v] = lo]]
        /\ waiting' = waiting \cup {[b EXCEPT ![v] = hi]}
  BY <1>2
<1> DEFINE bl == [b EXCEPT ![v] = lo]
           bh == [b EXCEPT ![v] = hi]
<1>4. verdict = "none" /\ verdict' = verdict /\ explanation' = explanation /\ ~IsEmpty(b)
  BY DEF Branch, Working
<1>5. TypeOK /\ status[w] \in Status /\ b \in Box
  BY StatusFields DEF IInv, TypeOK
<1>6. /\ bl \in Box /\ bh \in Box
      /\ \A u \in Var : bl[u] = (IF u = v THEN lo ELSE b[u])
      /\ \A u \in Var : bh[u] = (IF u = v THEN hi ELSE b[u])
  BY <1>5 DEF Box
<1>7. ~IsEmpty(bl) /\ ~IsEmpty(bh)
  BY <1>3, <1>4, <1>6 DEF IsEmpty
<1>8. /\ status'[w] = [status[w] EXCEPT !.box = bl]
      /\ \A u \in Worker \ {w} : status'[u] = status[u]
      /\ status' = [u \in Worker |-> IF u = w THEN status'[w] ELSE status[u]]
  BY <1>3, <1>5 DEF TypeOK
<1>9. /\ status'[w] \in Status
      /\ status'[w].box = bl
      /\ status'[w].used = status[w].used
      /\ status'[w].witness = status[w].witness
  BY <1>5, <1>6, <1>8 DEF Status
<1>10. Records(w, {}, {})
  BY <1>8, <1>9 DEF Records
<1>11. bl \in OpenBoxes' /\ bh \in OpenBoxes'
  BY <1>3, <1>7, <1>9 DEF OpenBoxes
<1>12. ASSUME NEW K \in SUBSET Var, NEW p \in Point, \A u \in K : p[u] \in b[u]
       PROVE  \E e \in OpenBoxes' : \A u \in K : p[u] \in e[u]
  <2> HIDE DEF bl, bh
  <2>1. CASE v \in K /\ p[v] \notin lo
    <3>1. p[v] \in hi
      BY <1>3, <1>12, <2>1
    <3>2. ASSUME NEW u \in K
          PROVE  p[u] \in bh[u]
      <4>1. u \in Var /\ p[u] \in b[u]
        BY <1>12
      <4>2. bh[u] = IF u = v THEN hi ELSE b[u]
        BY <1>6, <4>1
      <4> QED
        BY <4>1, <4>2, <3>1
    <3> QED
      BY <1>11, <3>2
  <2>2. CASE ~(v \in K /\ p[v] \notin lo)
    <3>1. ASSUME NEW u \in K
          PROVE  p[u] \in bl[u]
      <4>1. u \in Var /\ p[u] \in b[u]
        BY <1>12
      <4>2. bl[u] = IF u = v THEN lo ELSE b[u]
        BY <1>6, <4>1
      <4> QED
        BY <4>1, <4>2, <2>2
    <3> QED
      BY <1>11, <3>1
  <2> QED
    BY <2>1, <2>2
<1>13. Coverage'
  BY <1>3, <1>10, <1>12, CoverageStep DEF IInv
<1>14. status' \in [Worker -> Status]
  BY <1>5, <1>8, <1>9 DEF TypeOK
<1> QED
  BY <1>3, <1>4, <1>6, <1>7, <1>13, <1>14 DEF IInv, TypeOK, UnsatOK

LEMMA TakeStep ==
  ASSUME IInv, NEW w \in Worker, Take(w)
  PROVE  IInv'
<1>1. PICK b \in waiting : /\ status' = [status EXCEPT ![w].box = b]
                           /\ waiting' = waiting \ {b}
  BY DEF Take
<1>2. verdict = "none" /\ verdict' = verdict /\ explanation' = explanation
      /\ IsEmpty(status[w].box)
  BY DEF Take
<1>3. TypeOK /\ status[w] \in Status /\ b \in Box /\ ~IsEmpty(b)
  BY DEF IInv, TypeOK, UnsatOK
<1>4. /\ status'[w] = [status[w] EXCEPT !.box = b]
      /\ \A u \in Worker \ {w} : status'[u] = status[u]
      /\ status' = [u \in Worker |-> IF u = w THEN status'[w] ELSE status[u]]
  BY <1>1, <1>3 DEF TypeOK
<1>5. /\ status'[w] \in Status
      /\ status'[w].box = b
      /\ status'[w].used = status[w].used
      /\ status'[w].witness = status[w].witness
  BY <1>3, <1>4 DEF Status
<1>6. Records(w, {}, {})
  BY <1>4, <1>5 DEF Records
<1>7. Joined'.used = Joined.used /\ Joined'.witness = Joined.witness
  BY <1>6, JoinedGrows
<1>8. \A e \in OpenBoxes : e \in OpenBoxes'
  <2>1. b \in OpenBoxes'
    BY <1>3, <1>5 DEF OpenBoxes
  <2>2. ASSUME NEW e \in waiting
        PROVE  e \in OpenBoxes'
    BY <1>1, <2>1, <2>2 DEF OpenBoxes
  <2>3. ASSUME NEW u \in Worker, ~IsEmpty(status[u].box)
        PROVE  status[u].box \in OpenBoxes'
    BY <1>2, <1>4, <2>3 DEF OpenBoxes
  <2> QED
    BY <2>2, <2>3 DEF OpenBoxes
<1>9. Coverage'
  BY <1>7, <1>8 DEF IInv, Coverage, Separates, SatisfiesOn, Candidate
<1>10. status' \in [Worker -> Status]
  BY <1>3, <1>4, <1>5 DEF TypeOK
<1> QED
  BY <1>1, <1>2, <1>9, <1>10 DEF IInv, TypeOK, UnsatOK

LEMMA SameRecordStep ==
  ASSUME IInv, UNCHANGED <<status, waiting>>,
         \/ verdict' = "delta_sat" /\ UNCHANGED explanation
         \/ UNCHANGED <<verdict, explanation>>
         \/ Unsat
  PROVE  IInv'
<1>1. Joined' = Joined /\ OpenBoxes' = OpenBoxes
  BY DEF Joined, OpenBoxes
<1>2. Coverage'
  BY <1>1 DEF IInv, Coverage, Separates, SatisfiesOn, Candidate
<1>3. TypeOK'
  BY ExplanationType DEF IInv, TypeOK, Unsat
<1>4. UnsatOK'
  <2>1. CASE verdict' = "delta_sat" /\ UNCHANGED explanation
    BY <2>1 DEF IInv, UnsatOK
  <2>2. CASE UNCHANGED <<verdict, explanation>>
    BY <1>1, <2>2 DEF IInv, UnsatOK, Explanation, Relational, Seeds, ClosedIn
  <2>3. CASE Unsat
    <3>1. OpenBoxes = {}
      BY <2>3 DEF Unsat, OpenBoxes
    <3>2. explanation' = Explanation(Joined)
      BY <2>3 DEF Unsat
    <3>3. Explanation(Joined)' = Explanation(Joined)
      BY <1>1 DEF Explanation, Relational, Seeds, ClosedIn
    <3> QED
      BY <1>1, <3>1, <3>2, <3>3 DEF IInv, UnsatOK
  <2> QED
    BY <2>1, <2>2, <2>3
<1> QED
  BY <1>2, <1>3, <1>4 DEF IInv

LEMMA IInvInit == Init => IInv
<1> SUFFICES ASSUME Init
             PROVE  IInv
  OBVIOUS
<1>1. TypeOK
  BY RootAssumption, EmptyBoxIsEmpty DEF Init, TypeOK, NewStatus, Status
<1>2. Root \in OpenBoxes
  BY DEF Init, OpenBoxes
<1>3. Coverage
  BY <1>2 DEF Coverage, Candidate, InBox
<1> QED
  BY <1>1, <1>3, RootAssumption DEF IInv, UnsatOK, Init

LEMMA IInvStep == IInv /\ [Next]_vars => IInv'
<1> SUFFICES ASSUME IInv, [Next]_vars
             PROVE  IInv'
  OBVIOUS
<1>1. ASSUME NEW w \in Worker, Found(w)
      PROVE  IInv'
  BY <1>1, SameRecordStep DEF Found
<1>2. CASE Unsat
  BY <1>2, SameRecordStep DEF Unsat
<1>3. CASE Done \/ UNCHANGED vars
  BY <1>3, SameRecordStep DEF Done, vars
<1> QED
  BY <1>1, <1>2, <1>3, TakeStep, NarrowStep, RefuteStep, RoundStep, InconclusiveStep,
     BranchStep DEF Next

(* The record of every status keeps its type, and Coverage holds.          *)
THEOREM InvariantCorrect == Spec => []IInv
BY IInvInit, IInvStep, PTL DEF Spec

-----------------------------------------------------------------------------
(* The relational part of the explanation has the seeds and is closed.     *)
LEMMA RelationalCloses ==
  ASSUME NEW s
  PROVE  Seeds(s) \subseteq Relational(s) /\ ClosedIn(Relational(s), s)
<1>1. Seeds(s) \subseteq Relational(s)
  BY DEF Relational, Seeds
<1>2. ASSUME NEW c \in s.used, c \notin Relational(s),
             NEW e \in Relational(s), Touches(c, VarsOf[e])
      PROVE  FALSE
  <2>1. PICK E \in SUBSET s.used : Seeds(s) \subseteq E /\ ClosedIn(E, s) /\ c \notin E
    BY <1>2 DEF Relational
  <2>2. e \in E
    BY <1>2, <2>1 DEF Relational
  <2> QED
    BY <1>2, <2>1, <2>2 DEF ClosedIn
<1> QED
  BY <1>1, <1>2 DEF ClosedIn

(* The explanation refutes the box: from Coverage, with K the variables of *)
(* the witness and of the explanation.                                     *)
LEMMA Refutes == IInv => ExplanationRefutes
<1> SUFFICES ASSUME IInv, verdict = "unsat", NEW p \in Point, Candidate(p)
             PROVE  \E c \in explanation : p \in Violating[c]
  BY DEF ExplanationRefutes
<1> DEFINE E == Relational(Joined)
           K == Joined.witness \cup UNION {VarsOf[c] : c \in E}
<1>1. Seeds(Joined) \subseteq E /\ ClosedIn(E, Joined)
  BY RelationalCloses
<1>2. /\ Joined.used \subseteq Constraint /\ Joined.witness \subseteq Var
      /\ E \subseteq Joined.used
  BY StatusFields DEF IInv, TypeOK, Joined, Relational
<1>3. K \in SUBSET Var
  BY <1>2, VarsOfAssumption
<1>4. ASSUME NEW c \in Joined.used, Touches(c, K) \/ VarsOf[c] = {}
      PROVE  c \in E
  <2>1. CASE VarsOf[c] = {} \/ Touches(c, Joined.witness)
    BY <1>1, <2>1 DEF Seeds
  <2>2. CASE \E e \in E : Touches(c, VarsOf[e])
    BY <1>1, <2>2 DEF ClosedIn
  <2> QED
    BY <1>4, <2>1, <2>2 DEF Touches
<1>5. Separates(K)
  BY <1>4 DEF Separates
<1>6. ~SatisfiesOn(p, K)
  BY <1>3, <1>5 DEF IInv, Coverage, UnsatOK
<1>7. PICK c \in Joined.used : VarsOf[c] \subseteq K /\ p \in Violating[c]
  BY <1>6 DEF SatisfiesOn
<1>8. c \in E
  BY <1>4, <1>7 DEF Touches
<1>9. explanation = Explanation(Joined)
  BY DEF IInv, UnsatOK
<1> QED
  BY <1>7, <1>8, <1>9 DEF Explanation

(* The learned clause is sound, however the evidence is spread over the    *)
(* branches, the workers and the assertions.                               *)
THEOREM ExplanationCorrect == Spec => []ExplanationRefutes
BY InvariantCorrect, Refutes, PTL

-----------------------------------------------------------------------------
(* The ODE contractor *)

LEMMA NormalIsABox ==
  ASSUME NEW b \in Box
  PROVE  Normal(b) \in Box
BY EmptyBoxIsEmpty DEF Normal

(* What is recorded does not touch the box.                                *)
LEMMA RecordKeepsBox ==
  ASSUME NEW s \in Status, OdeTypeOK, NEW with \in BOOLEAN
  PROVE  Record(s, with) \in Status /\ Record(s, with).box = s.box
<1>1. flow.name \in Constraint /\ Enforced \subseteq Constraint
  BY OdeAssumption DEF OdeTypeOK, Enforced, Accepted
<1>2. \A c \in Constraint : VarsOf[c] \subseteq Var
  BY VarsOfAssumption
<1>3. AddUsedConstraint(s, flow.name) \in Status /\ AddUsedConstraint(s, flow.name).box = s.box
  BY <1>1, <1>2 DEF AddUsedConstraint, Status
<1>4. ASSUME NEW t \in Status
      PROVE  AddUsedConstraints(t, Enforced) \in Status /\ AddUsedConstraints(t, Enforced).box = t.box
  <2>1. UNION {VarsOf[c] : c \in Enforced} \subseteq Var
    BY <1>1, <1>2
  <2>2. QED
    BY <1>1, <2>1 DEF AddUsedConstraints, Status
<1>5. QED
  BY <1>3, <1>4 DEF Record

LEMMA StatusWithBox ==
  ASSUME OdeTypeOK, NEW b \in Box
  PROVE  [cs EXCEPT !.box = b] \in Status /\ [cs EXCEPT !.box = b].box = b
BY DEF OdeTypeOK, Status

LEMMA RefutedIsEmpty == OdeTypeOK => Refuted(cs) \in Status /\ Refuted(cs).box = EmptyBox
BY RecordKeepsBox, StatusWithBox, EmptyBoxIsEmpty DEF Refuted

LEMMA MatchedIsABox == OdeTypeOK => Matched(cs.box) \in Box
<1> SUFFICES ASSUME OdeTypeOK PROVE Matched(cs.box) \in Box
  OBVIOUS
<1>1. cs.box \in Box
  BY DEF OdeTypeOK, Status
<1> DEFINE m == [v \in Var |->
    IF \E pair \in flow.params : v \in {pair[1], pair[2]}
    THEN LET pair == CHOOSE pair \in flow.params : v \in {pair[1], pair[2]}
         IN cs.box[pair[1]] \cap cs.box[pair[2]]
    ELSE cs.box[v]]
<1>2. ASSUME NEW v \in Var PROVE m[v] \in SUBSET Value
  <2>1. CASE \E pair \in flow.params : v \in {pair[1], pair[2]}
    <3>1. PICK pair \in flow.params :
             pair = CHOOSE p \in flow.params : v \in {p[1], p[2]}
      BY <2>1
    <3>2. pair[1] \in Var
      BY <3>1, OdeAssumption DEF OdeTypeOK, IsIntegral
    <3>3. QED
      BY <2>1, <3>1, <3>2, <1>1 DEF Box
  <2>2. QED
    BY <2>1, <1>1 DEF Box
<1>3. m \in Box
  BY <1>2 DEF Box
<1>4. QED
  BY <1>3, NormalIsABox DEF Matched

(* Intersecting the parameters keeps the points where they agree.          *)
LEMMA MatchedKeeps ==
  ASSUME OdeTypeOK, NEW q \in Point, InBox(q, cs.box), Solves(q)
  PROVE  InBox(q, Matched(cs.box)) /\ ~IsEmpty(Matched(cs.box))
<1>1. \A pair \in flow.params : pair[1] \in Var /\ pair[2] \in Var /\ q[pair[1]] = q[pair[2]]
  BY OdeAssumption DEF OdeTypeOK, IsIntegral, Solves
<1> DEFINE m == [v \in Var |->
    IF \E pair \in flow.params : v \in {pair[1], pair[2]}
    THEN LET pair == CHOOSE pair \in flow.params : v \in {pair[1], pair[2]}
         IN cs.box[pair[1]] \cap cs.box[pair[2]]
    ELSE cs.box[v]]
<1>2. ASSUME NEW v \in Var PROVE q[v] \in m[v]
  <2>1. CASE \E pair \in flow.params : v \in {pair[1], pair[2]}
    <3>1. PICK pair \in flow.params :
             /\ v \in {pair[1], pair[2]}
             /\ pair = CHOOSE pr \in flow.params : v \in {pr[1], pr[2]}
      BY <2>1
    <3>2. q[v] \in cs.box[pair[1]] /\ q[v] \in cs.box[pair[2]]
      BY <1>1, <3>1 DEF InBox
    <3>3. QED
      BY <2>1, <3>1, <3>2
  <2>2. QED
    BY <2>1 DEF InBox
<1>3. ~IsEmpty(m)
  BY <1>2 DEF IsEmpty
<1>4. Matched(cs.box) = m
  BY <1>3 DEF Matched, Normal
<1>5. QED
  BY <1>2, <1>3, <1>4 DEF InBox

(* A set is in its hull.                                                   *)
LEMMA HullContains == ASSUME NEW S \in SUBSET Value PROVE S \subseteq Hull(S) /\ Hull(S) \subseteq Value
BY OdeAssumption, SMT DEF Hull

(* The parameter and the duration of a solution are among the values the   *)
(* integration is given.                                                   *)
LEMMA SolutionFacts ==
  ASSUME OdeTypeOK, NEW b \in Box, NEW q \in Point, InBox(q, b), Solves(q)
  PROVE  /\ Parameter(q) \in ParameterValues(b) /\ Parameter(q) \in Value
         /\ Duration(q) \in Window(b) /\ Duration(q) \in Value
         /\ q["x_0"] \in Value /\ q["x_0"] \in b["x_0"]
         /\ q["x_t"] \in Value /\ q["x_t"] \in b["x_t"]
<1>0. IsIntegral(flow)
  BY OdeAssumption DEF OdeTypeOK
<1>1. \A v \in Var : q[v] \in Value /\ q[v] \in b[v]
  BY DEF Point, InBox
<1>2. {"x_0", "x_t", "time"} \subseteq Var
  BY OdeAssumption
<1>3. Parameter(q) \in ParameterValues(b) /\ Parameter(q) \in Value
  <2>1. CASE flow.params = {}
    BY <2>1, OdeAssumption DEF Parameter, ParameterValues
  <2>2. CASE flow.params # {}
    <3>1. PICK pair \in flow.params : pair = CHOOSE pr \in flow.params : TRUE
      BY <2>2
    <3>2. pair[1] \in Var /\ pair[2] \in Var /\ q[pair[1]] = q[pair[2]]
      BY <1>0, <3>1 DEF IsIntegral, Solves
    <3>3. Parameter(q) = q[pair[1]]
      BY <2>2, <3>1 DEF Parameter
    <3>4. ParameterValues(b) = UNION {b[pr[2]] : pr \in flow.params}
      BY <2>2 DEF ParameterValues
    <3>5. QED
      BY <1>1, <3>1, <3>2, <3>3, <3>4
  <2>3. QED
    BY <2>1, <2>2
<1>4. Duration(q) \in Window(b) /\ Duration(q) \in Value
  BY <1>0, <1>1, <1>2 DEF Duration, Window, IsIntegral
<1>5. QED
  BY <1>1, <1>2, <1>3, <1>4

(* Where the state stands still the two ends are equal.                    *)
LEMMA StandingStill ==
  ASSUME OdeTypeOK, NEW b \in Box, NEW q \in Point, InBox(q, b), Solves(q),
         TimeIsZero(b) \/ TrivialFlow
  PROVE  q["x_0"] = q["x_t"]
<1>0. IsIntegral(flow)
  BY OdeAssumption DEF OdeTypeOK
<1>1. q["x_t"] = flow.path[q["x_0"], Parameter(q), Duration(q)]
  BY DEF Solves
<1>2. CASE TimeIsZero(b)
  <2>1. Duration(q) = 0
    BY <1>2, SolutionFacts DEF TimeIsZero
  <2>2. \A x, p \in Value : flow.path[x, p, 0] = x
    BY <1>0 DEF IsIntegral
  <2>3. QED
    BY <1>1, <2>1, <2>2, SolutionFacts
<1>3. CASE TrivialFlow
  <2>1. \A x, p, t \in Value : flow.path[x, p, t] = x
    BY <1>3 DEF TrivialFlow
  <2>2. QED
    BY <1>1, <2>1, SolutionFacts
<1>4. QED
  BY <1>2, <1>3

(* Every state a trajectory can be in is in the enclosure, and every state *)
(* it can have come from in the backward one.                              *)
LEMMA EnclosureContains ==
  ASSUME NEW b, NEW slack, NEW ts, NEW p \in ParameterValues(b), NEW t \in ts,
         NEW x \in Value, NEW y \in Value, y = flow.path[x, p, t]
  PROVE  /\ x \in b["x_0"] => y \in Enclosure(b, "FWD", ts, slack)
         /\ y \in b["x_t"] => x \in Enclosure(b, "BWD", ts, slack)
<1>1. ASSUME x \in b["x_0"] PROVE y \in Enclosure(b, "FWD", ts, slack)
  <2>1. \E u \in b["x_0"], r \in ParameterValues(b), v \in ts : y = flow.path[u, r, v]
    BY <1>1
  <2>2. QED
    BY <2>1 DEF Enclosure
<1>2. ASSUME y \in b["x_t"] PROVE x \in Enclosure(b, "BWD", ts, slack)
  <2>1. \E r \in ParameterValues(b), v \in ts : flow.path[x, r, v] \in b["x_t"]
    BY <1>2
  <2>2. QED
    BY <2>1 DEF Enclosure
<1>3. QED
  BY <1>1, <1>2

(* The slice that holds the duration of a solution is kept, and with it    *)
(* the end state: it is reached before any violation.                      *)
LEMMA SliceOfSolution ==
  ASSUME OdeTypeOK, NEW b \in Box, NEW q \in Point, InBox(q, b), IsSolution(q),
         ~TimeIsZero(b), NEW dir \in {"FWD", "BWD"}, NEW slack
  PROVE  \E k \in Kept(b, dir, slack) :
            /\ Duration(q) \in InWindow(b, k)
            /\ q[End(dir)] \in Gate(b, dir, slack, k)
<1> DEFINE d == Duration(q)
           p == Parameter(q)
           k == IF d = 0 THEN 0 ELSE d - 1
           At(t) == flow.path[q["x_0"], p, t]
<1>0. Solves(q) /\ \A c \in Enforced : StaysInside(c, q)
  BY DEF IsSolution
<1>1. /\ p \in ParameterValues(b) /\ d \in Window(b) /\ d \in Value
      /\ q["x_0"] \in b["x_0"] /\ q["x_t"] \in b["x_t"]
      /\ p \in Value /\ q["x_0"] \in Value /\ q["x_t"] \in Value
  BY <1>0, SolutionFacts
<1>2. Window(b) \subseteq Nat
  <2>1. b["time"] \subseteq Value /\ (flow.window \subseteq Value)
    BY OdeAssumption DEF OdeTypeOK, Box, IsIntegral
  <2>2. QED
    BY <2>1, OdeAssumption DEF Window
<1>3. k \in Nat /\ k <= d /\ d \in {k, k + 1} /\ d \in Nat
  BY <1>1, <1>2
<1>4. k \in Slices(b)
  <2>1. k \in Value
    <3>1. 0 .. d \subseteq Value
      BY <1>1, OdeAssumption
    <3>2. k \in 0 .. d
      BY <1>3
    <3>3. QED
      BY <3>1, <3>2
  <2>2. CASE d = 0
    <3>1. PICK t \in Window(b) : t # 0
      BY DEF TimeIsZero
    <3>2. k < t
      BY <2>2, <3>1, <1>2
    <3>3. QED
      BY <2>1, <3>1, <3>2 DEF Slices
  <2>3. CASE d # 0
    <3>1. k < d
      BY <2>3, <1>3
    <3>2. QED
      BY <2>1, <3>1, <1>1 DEF Slices
  <2>4. QED
    BY <2>2, <2>3
<1>5. d \in InWindow(b, k)
  BY <1>1, <1>3 DEF InWindow
<1>6. q["x_t"] = At(d)
  BY <1>0 DEF Solves
<1>7. k \in Reached(b, dir, slack)
  <2>1. CASE dir = "FWD"
    <3>1. ASSUME NEW c \in Enforced, NEW j \in 0 .. k
          PROVE  \E x \in Enclosure(b, dir, {j, j + 1}, slack) : <<x, p>> \in Allows[c]
      <4>1. j \in 0 .. d
        BY <1>3
      <4>2. <<At(j), p>> \in Allows[c]
        BY <1>0, <4>1 DEF StaysInside
      <4>3. At(j) \in Enclosure(b, dir, {j, j + 1}, slack)
        <5>1. 0 .. d \subseteq Value
          BY <1>1, OdeAssumption
        <5>2. At(j) \in Value
          BY <1>1, <4>1, <5>1, OdeAssumption DEF OdeTypeOK, IsIntegral
        <5>3. QED
          BY <2>1, <1>1, <5>2, EnclosureContains
      <4>4. QED
        BY <4>2, <4>3
    <3>2. QED
      BY <3>1, <1>1, <1>4 DEF Reached
  <2>2. QED
    BY <2>1, <1>4 DEF Reached
<1>8. q[End(dir)] \in Gate(b, dir, slack, k)
  <2>1. CASE dir = "FWD"
    <3>1. q["x_t"] \in Enclosure(b, dir, InWindow(b, k), slack)
      BY <2>1, <1>1, <1>5, <1>6, EnclosureContains
    <3>2. QED
      BY <2>1, <3>1, <1>1, <1>6 DEF Gate, End
  <2>2. CASE dir = "BWD"
    <3>1. q["x_0"] \in Enclosure(b, dir, InWindow(b, k), slack)
      BY <2>2, <1>1, <1>5, <1>6, EnclosureContains
    <3>2. QED
      BY <2>2, <3>1, <1>1 DEF Gate, End
  <2>3. QED
    BY <2>1, <2>2
<1>9. QED
  BY <1>5, <1>7, <1>8 DEF Kept

(* Narrowing to the hull of the slices that are kept keeps a solution.     *)
LEMMA NarrowedKeeps ==
  ASSUME OdeTypeOK, NEW b \in Box, NEW q \in Point, InBox(q, b), IsSolution(q),
         ~TimeIsZero(b), NEW dir \in {"FWD", "BWD"}, NEW slack
  PROVE  Kept(b, dir, slack) # {} /\ InBox(q, Narrowed(b, dir, slack))
<1>1. PICK k \in Kept(b, dir, slack) :
        Duration(q) \in InWindow(b, k) /\ q[End(dir)] \in Gate(b, dir, slack, k)
  BY SliceOfSolution
<1> DEFINE gates == UNION {Gate(b, dir, slack, j) : j \in Kept(b, dir, slack)}
           windows == UNION {InWindow(b, j) : j \in Kept(b, dir, slack)}
<1>2. b["time"] \subseteq Value /\ flow.window \subseteq Value /\ b[End(dir)] \subseteq Value
  BY OdeAssumption DEF OdeTypeOK, Box, IsIntegral, End
<1>3. gates \in SUBSET Value /\ windows \in SUBSET Value
  BY <1>2 DEF Gate, InWindow, Window
<1>4. q[End(dir)] \in gates /\ Duration(q) \in windows
  BY <1>1
<1>5. gates \subseteq Hull(gates) /\ windows \subseteq Hull(windows)
  BY <1>3, HullContains
<1>6. ASSUME NEW v \in Var PROVE q[v] \in Narrowed(b, dir, slack)[v]
  <2>1. CASE v = End(dir)
    BY <2>1, <1>4, <1>5 DEF Narrowed
  <2>2. CASE v # End(dir) /\ v = "time" /\ flow.window = {}
    BY <2>2, <1>4, <1>5 DEF Narrowed, Duration
  <2>3. CASE v # End(dir) /\ ~(v = "time" /\ flow.window = {})
    BY <2>3 DEF Narrowed, InBox
  <2>4. QED
    BY <2>1, <2>2, <2>3
<1>7. QED
  BY <1>1, <1>6 DEF InBox

LEMMA NarrowedIsABox ==
  ASSUME OdeTypeOK, NEW b \in Box, NEW dir, NEW slack
  PROVE  Narrowed(b, dir, slack) \in Box
BY DEF Narrowed, Box, Hull

LEMMA StoodStillIsABox ==
  ASSUME NEW b \in Box
  PROVE  [b EXCEPT !["x_0"] = b["x_0"] \cap b["x_t"], !["x_t"] = b["x_0"] \cap b["x_t"]] \in Box
BY OdeAssumption DEF Box

(* What a call of Prune leaves: a box and a status, the box empty or with  *)
(* its changes beyond those of the parameters in the output, and with      *)
(* every solution it had.                                                  *)
LEMMA PruneIsRight ==
  ASSUME OdeTypeOK, NEW dir \in {"FWD", "BWD"}, Prune(dir)
  PROVE  /\ OdeTypeOK'
         /\ IsEmpty(cs'.box) \/ Changed(Matched(cs.box), cs'.box) \subseteq output'
         /\ \A q \in Point : InBox(q, cs.box) /\ IsSolution(q) => InBox(q, cs'.box)
<1> DEFINE b == Matched(cs.box)
<1>1. b \in Box /\ cs \in Status /\ flow \in Flows
  BY MatchedIsABox DEF OdeTypeOK
<1>2. UNCHANGED <<flow, foralls>>
  BY DEF Prune
<1>3. ASSUME NEW q \in Point, InBox(q, cs.box), IsSolution(q)
      PROVE  InBox(q, b) /\ ~IsEmpty(b) /\ Solves(q)
  BY <1>3, MatchedKeeps DEF IsSolution
<1>4. VarsOf[flow.name] \subseteq Var
  BY <1>1, OdeAssumption, VarsOfAssumption
<1>5. Refuted(cs) \in Status /\ Refuted(cs).box = EmptyBox /\ IsEmpty(EmptyBox)
  BY RefutedIsEmpty, EmptyBoxIsEmpty
<1>6. CASE ParamsDisjoint
  <2>1. UNION {{pair[1], pair[2]} : pair \in flow.params} \subseteq Var
    <3>1. \A pair \in flow.params : pair[1] \in Var /\ pair[2] \in Var
      BY <1>1, OdeAssumption DEF IsIntegral
    <3>2. ASSUME NEW pair \in flow.params PROVE {pair[1], pair[2]} \subseteq Var
      BY <3>1
    <3>3. QED
      BY <3>2
  <2>2. OdeTypeOK' /\ IsEmpty(cs'.box)
    BY <1>2, <1>5, <1>6, <2>1 DEF ParamsDisjoint, OdeTypeOK, Accepted, Links
  <2>3. IsEmpty(b)
    BY <1>6 DEF ParamsDisjoint
  <2>4. QED
    BY <1>3, <2>2, <2>3
<1>7. ASSUME NEW with \in BOOLEAN, StandStill(b, with), TimeIsZero(b) \/ TrivialFlow
      PROVE  /\ OdeTypeOK'
             /\ IsEmpty(cs'.box) \/ Changed(b, cs'.box) \subseteq output'
             /\ \A q \in Point : InBox(q, cs.box) /\ IsSolution(q) => InBox(q, cs'.box)
  <2> DEFINE x == b["x_0"] \cap b["x_t"]
             c == [b EXCEPT !["x_0"] = x, !["x_t"] = x]
  <2>1. ASSUME NEW q \in Point, InBox(q, cs.box), IsSolution(q)
        PROVE  q["x_0"] \in x /\ q["x_t"] \in x
    <3>1. InBox(q, b) /\ Solves(q)
      BY <1>3, <2>1
    <3>2. q["x_0"] = q["x_t"]
      BY <1>1, <1>7, <3>1, StandingStill
    <3>3. QED
      BY <3>1, <3>2, <1>1, SolutionFacts
  <2>2. CASE x = {}
    <3>1. cs' = Refuted(cs) /\ output' = VarsOf[flow.name]
      BY <1>7, <2>2 DEF StandStill
    <3>2. OdeTypeOK' /\ IsEmpty(cs'.box)
      BY <1>2, <1>4, <1>5, <3>1 DEF OdeTypeOK, Accepted, Links
    <3>3. QED
      BY <2>1, <2>2, <3>2
  <2>3. CASE x # {}
    <3>1. cs' = Record([cs EXCEPT !.box = c], with) /\ output' = Changed(b, c)
      BY <1>7, <2>3 DEF StandStill
    <3>2. c \in Box
      BY <1>1, StoodStillIsABox
    <3> HIDE DEF c, x
    <3>3. cs' \in Status /\ cs'.box = c
      BY <3>1, <3>2, <1>7, StatusWithBox, RecordKeepsBox
    <3>4. OdeTypeOK'
      BY <1>2, <3>1, <3>3 DEF OdeTypeOK, Changed, Accepted, Links
    <3>5. ASSUME NEW q \in Point, InBox(q, cs.box), IsSolution(q)
          PROVE  InBox(q, c)
      <4>1. q["x_0"] \in x /\ q["x_t"] \in x /\ InBox(q, b)
        BY <1>3, <2>1, <3>5
      <4>2. QED
        BY <4>1, <1>1 DEF InBox, c, Box
    <3>6. QED
      BY <3>1, <3>3, <3>4, <3>5
  <2>4. QED
    BY <2>2, <2>3
<1>8. CASE NothingConclusive(b)
  <2>1. cs' \in Status /\ cs'.box = b
    BY <1>1, <1>8, OdeAssumption DEF NothingConclusive, AddInconclusiveOde, Status
  <2>2. OdeTypeOK'
    BY <1>2, <1>8, <2>1 DEF NothingConclusive, OdeTypeOK, Accepted, Links
  <2>3. Changed(b, cs'.box) = {}
    BY <2>1 DEF Changed
  <2>4. QED
    BY <1>3, <2>1, <2>2, <2>3
<1>9. ASSUME ~TimeIsZero(b), NEW slack \in Slacks, Integrate(b, dir, slack)
      PROVE  /\ OdeTypeOK'
             /\ IsEmpty(cs'.box) \/ Changed(b, cs'.box) \subseteq output'
             /\ \A q \in Point : InBox(q, cs.box) /\ IsSolution(q) => InBox(q, cs'.box)
  <2> DEFINE c == Narrowed(b, dir, slack)
  <2>1. ASSUME NEW q \in Point, InBox(q, cs.box), IsSolution(q)
        PROVE  Kept(b, dir, slack) # {} /\ InBox(q, c)
    <3>1. InBox(q, b)
      BY <1>3, <2>1
    <3>2. QED
      BY <1>1, <1>9, <2>1, <3>1, NarrowedKeeps
  <2>2. CASE Kept(b, dir, slack) = {}
    <3>1. cs' = Refuted(cs) /\ output' = VarsOf[flow.name]
      BY <1>9, <2>2 DEF Integrate
    <3>2. OdeTypeOK' /\ IsEmpty(cs'.box)
      BY <1>2, <1>4, <1>5, <3>1 DEF OdeTypeOK, Accepted, Links
    <3>3. QED
      BY <2>1, <2>2, <3>2
  <2>3. CASE Kept(b, dir, slack) # {}
    <3>1. /\ cs' = IF c = b THEN [cs EXCEPT !.box = b] ELSE Record([cs EXCEPT !.box = c], TRUE)
          /\ output' = Changed(b, c)
      BY <1>9, <2>3 DEF Integrate
    <3>2. c \in Box
      BY <1>1, NarrowedIsABox
    <3> HIDE DEF c
    <3>3. cs' \in Status /\ cs'.box = c
      BY <3>1, <3>2, <1>1, StatusWithBox, RecordKeepsBox
    <3>4. OdeTypeOK'
      BY <1>2, <3>1, <3>3 DEF OdeTypeOK, Changed, Accepted, Links
    <3>5. QED
      BY <2>1, <3>1, <3>3, <3>4
  <2>4. QED
    BY <2>2, <2>3
<1>10. QED
  BY <1>6, <1>7, <1>8, <1>9 DEF Prune

LEMMA AlgebraIsRight ==
  ASSUME OdeTypeOK, NEW a \in Algebraic, Algebra(a)
  PROVE  OdeTypeOK' /\ Changed(cs.box, cs'.box) \subseteq output'
<1> DEFINE in == {q \in Holds[a] : InBox(q, cs.box)}
           c == [v \in Var |-> IF v \in VarsOf[a] THEN Hull({q[v] : q \in in}) ELSE cs.box[v]]
           b == Normal(c)
<1>1. cs \in Status /\ cs.box \in Box /\ a \in Constraint /\ VarsOf[a] \subseteq Var
  BY OdeAssumption, VarsOfAssumption DEF OdeTypeOK, Status
<1>2. c \in Box
  BY <1>1 DEF Box, Hull
<1> HIDE DEF c
<1>3. b \in Box
  BY <1>2, NormalIsABox
<1>4. /\ cs' = AddUsedConstraint([cs EXCEPT !.box = b], a) /\ output' = Changed(cs.box, b)
      /\ UNCHANGED <<flow, foralls>>
  BY DEF Algebra, c
<1> HIDE DEF b
<1>5. cs' \in Status /\ cs'.box = b
  BY <1>1, <1>3, <1>4 DEF AddUsedConstraint, Status
<1>6. QED
  BY <1>4, <1>5 DEF OdeTypeOK, Changed, Accepted, Links

(* Intersecting the parameters changes nothing else.                       *)
LEMMA MatchedChanges ==
  ASSUME OdeTypeOK, ~IsEmpty(Matched(cs.box)), NEW v \in Var, Matched(cs.box)[v] # cs.box[v]
  PROVE  v \in UNION {{pair[1], pair[2]} : pair \in flow.params}
<1> DEFINE m == [w \in Var |->
    IF \E pair \in flow.params : w \in {pair[1], pair[2]}
    THEN LET pair == CHOOSE pair \in flow.params : w \in {pair[1], pair[2]}
         IN cs.box[pair[1]] \cap cs.box[pair[2]]
    ELSE cs.box[w]]
<1>1. Matched(cs.box) = m
  BY EmptyBoxIsEmpty DEF Matched, Normal
<1>2. \E pair \in flow.params : v \in {pair[1], pair[2]}
  BY <1>1
<1>3. QED
  BY <1>2

LEMMA InitTypeOK == OdeInit => OdeTypeOK
<1> SUFFICES ASSUME OdeInit PROVE OdeTypeOK
  OBVIOUS
<1>1. [v \in Var |-> Value] \in Box
  BY DEF Box
<1>2. cs \in Status
  BY <1>1 DEF OdeInit, NewStatus, Status
<1>3. QED
  BY <1>2 DEF OdeInit, OdeTypeOK

LEMMA StepTypeOK == OdeTypeOK /\ [OdeNext]_odeVars => OdeTypeOK'
<1> SUFFICES ASSUME OdeTypeOK, [OdeNext]_odeVars PROVE OdeTypeOK'
  OBVIOUS
<1>1. CASE \E a \in Algebraic : Algebra(a)
  BY <1>1, AlgebraIsRight
<1>2. CASE \E dir \in {"FWD", "BWD"} : Prune(dir)
  BY <1>2, PruneIsRight
<1>3. CASE UNCHANGED odeVars
  BY <1>3 DEF odeVars, OdeTypeOK, Accepted, Links
<1>4. QED
  BY <1>1, <1>2, <1>3 DEF OdeNext, OdeDone

LEMMA StepKeepsSolutions ==
  ASSUME OdeTypeOK, [OdeNext]_odeVars,
         NEW q \in Point, InBox(q, cs.box), ~InBox(q, cs'.box), IsSolution(q)
  PROVE  \E a \in Algebraic : Algebra(a)
<1>1. CASE \E dir \in {"FWD", "BWD"} : Prune(dir)
  BY <1>1, PruneIsRight
<1>2. CASE UNCHANGED odeVars
  BY <1>2 DEF odeVars
<1>3. QED
  BY <1>1, <1>2 DEF OdeNext, OdeDone

LEMMA StepTellsChanges ==
  ASSUME OdeTypeOK, [OdeNext]_odeVars
  PROVE  \/ Changed(cs.box, cs'.box) \subseteq output' \cup UNION {{pair[1], pair[2]} : pair \in flow.params}
         \/ IsEmpty(cs'.box)
<1>1. CASE \E a \in Algebraic : Algebra(a)
  BY <1>1, AlgebraIsRight
<1>2. CASE \E dir \in {"FWD", "BWD"} : Prune(dir)
  <2>1. PICK dir \in {"FWD", "BWD"} : Prune(dir)
    BY <1>2
  <2>2. IsEmpty(cs'.box) \/ Changed(Matched(cs.box), cs'.box) \subseteq output'
    BY <2>1, PruneIsRight
  <2>3. CASE IsEmpty(Matched(cs.box))
    <3>1. ParamsDisjoint
      BY <2>1, <2>3 DEF Prune
    <3>2. IsEmpty(cs'.box)
      BY <3>1, RefutedIsEmpty, EmptyBoxIsEmpty DEF ParamsDisjoint
    <3>3. QED
      BY <3>2
  <2>4. CASE ~IsEmpty(Matched(cs.box))
    <3>1. ASSUME NEW v \in Changed(cs.box, cs'.box)
          PROVE  \/ v \in Changed(Matched(cs.box), cs'.box)
                 \/ v \in UNION {{pair[1], pair[2]} : pair \in flow.params}
      BY <2>4, <3>1, MatchedChanges DEF Changed
    <3>2. QED
      BY <2>2, <3>1
  <2>5. QED
    BY <2>3, <2>4
<1>3. CASE UNCHANGED odeVars
  BY <1>3 DEF odeVars, Changed
<1>4. QED
  BY <1>1, <1>2, <1>3 DEF OdeNext, OdeDone

(* No call of Prune, forwards or backwards, takes away a point that solves *)
(* the integral and stays inside the invariants linked to it               *)
(* (contractor_odes.cc, Prune).                                            *)
THEOREM SolutionsKept == OdeSpec => PruneKeepsSolutions
<1>1. OdeSpec => []OdeTypeOK
  BY InitTypeOK, StepTypeOK, PTL DEF OdeSpec
<1>2. OdeTypeOK /\ [OdeNext]_odeVars =>
        [(\E q \in Point : InBox(q, cs.box) /\ ~InBox(q, cs'.box) /\ IsSolution(q))
           => \E a \in Algebraic : Algebra(a)]_odeVars
  BY StepKeepsSolutions
<1>3. QED
  BY <1>1, <1>2, PTL DEF OdeSpec, PruneKeepsSolutions

(* What Prune changes it reports, but for the parameters                   *)
(* (contractor_odes.cc, Prune; contractor_status.h, output).               *)
THEOREM ChangesTold == OdeSpec => OutputTellsChanges
<1>1. OdeSpec => []OdeTypeOK
  BY InitTypeOK, StepTypeOK, PTL DEF OdeSpec
<1>2. OdeTypeOK /\ [OdeNext]_odeVars =>
        [\/ Changed(cs.box, cs'.box) \subseteq output' \cup UNION {{pair[1], pair[2]} : pair \in flow.params}
         \/ IsEmpty(cs'.box)]_odeVars
  BY StepTellsChanges
<1>3. QED
  BY <1>1, <1>2, PTL DEF OdeSpec, OutputTellsChanges

-----------------------------------------------------------------------------
(* The explanation, for a flow without parameters.                         *)

\* Every recorded assertion is about variables of K only, or about none of K.
FallsApart(used, K) == \A c \in used : VarsOf[c] \subseteq K \/ ~Touches(c, K)

SolvesOn(used, p, K) == \A c \in used : VarsOf[c] \subseteq K => Satisfied(c, p)

Inside(b, p, K) == ~IsEmpty(b) /\ \A v \in K : p[v] \in b[v]

\* Let the recorded assertions fall apart along K and the witnesses lie in K:
\* a point that satisfies those of K is still in the box, as far as K goes.
Covers(s) ==
  \A K \in SUBSET Var : \A p \in Point :
    s.witness \subseteq K /\ FallsApart(s.used, K) /\ SolvesOn(s.used, p, K)
      => Inside(s.box, p, K)

OdeCoverage == flow.params = {} => Covers(cs)

\* A point of some variables of a nonempty box is part of a point of it.
LEMMA PointInside ==
  ASSUME NEW b \in Box, NEW K \in SUBSET Var, NEW p \in Point, Inside(b, p, K)
  PROVE  \E q \in Point : InBox(q, b) /\ \A v \in K : q[v] = p[v]
<1> DEFINE q == [v \in Var |-> IF v \in K THEN p[v] ELSE CHOOSE x : x \in b[v]]
<1>1. \A v \in Var : q[v] \in b[v]
  BY DEF IsEmpty, Inside
<1>2. q \in Point
  BY <1>1 DEF Point, Box
<1>3. \A v \in K : q[v] = p[v]
  OBVIOUS
<1> QED
  BY <1>1, <1>2, <1>3 DEF InBox

\* The integral and its invariants depend on the variables of the integral.
LEMMA SolutionDepends ==
  ASSUME OdeTypeOK, flow.params = {}, NEW K \in SUBSET Var, VarsOf[flow.name] \subseteq K,
         NEW p \in Point, NEW q \in Point, \A v \in K : q[v] = p[v]
  PROVE  /\ Solves(p) => Solves(q)
         /\ \A c \in Enforced : StaysInside(c, p) => StaysInside(c, q)
<1>1. /\ p["x_0"] = q["x_0"] /\ p["x_t"] = q["x_t"]
      /\ flow.window = {} => p["time"] = q["time"]
  BY FreeVariablesAssumption DEF OdeTypeOK
<1>2. Parameter(p) = 0 /\ Parameter(q) = 0 /\ Duration(p) = Duration(q)
  BY <1>1 DEF Parameter, Duration
<1>3. Solves(p) => Solves(q)
  BY <1>1, <1>2 DEF Solves
<1>4. \A c \in Enforced : StaysInside(c, p) => StaysInside(c, q)
  BY <1>1, <1>2 DEF StaysInside
<1> QED
  BY <1>3, <1>4

LEMMA Meaning ==
  ASSUME OdeTypeOK, NEW p
  PROVE  /\ Satisfied(flow.name, p) <=> Solves(p)
         /\ \A e \in Enforced : Satisfied(e, p) <=> StaysInside(e, p)
<1>1. \A e \in Enforced : e \in Invariants /\ e # flow.name
  BY FreeVariablesAssumption DEF Enforced, OdeTypeOK, Accepted
<1>2. Satisfied(flow.name, p) = Solves(p)
  <2>1. flow.name \notin Invariants
    BY FreeVariablesAssumption DEF OdeTypeOK
  <2> QED
    BY <2>1, Zenon DEF Satisfied
<1>3. ASSUME NEW e \in Enforced PROVE Satisfied(e, p) = StaysInside(e, p)
  <2>1. e \in Invariants /\ e # flow.name
    BY <1>1
  <2> QED
    BY <2>1, Zenon DEF Satisfied
<1> QED
  BY <1>2, <1>3

LEMMA RecordFields ==
  ASSUME OdeTypeOK, NEW s \in Status, NEW with \in BOOLEAN
  PROVE  /\ Record(s, with).used = s.used \cup {flow.name} \cup (IF with THEN Enforced ELSE {})
         /\ s.witness \subseteq Record(s, with).witness
         /\ IsEmpty(s.box) => VarsOf[flow.name] \subseteq Record(s, with).witness
         /\ IsEmpty(s.box) /\ with =>
              \A c \in Enforced : VarsOf[c] \subseteq Record(s, with).witness
<1> DEFINE r == AddUsedConstraint(s, flow.name)
<1>1. /\ r.used = s.used \cup {flow.name} /\ r.box = s.box
      /\ r.witness = IF IsEmpty(s.box) THEN s.witness \cup VarsOf[flow.name] ELSE s.witness
      /\ r \in Status
  <2>1. flow.name \in Constraint /\ VarsOf[flow.name] \subseteq Var
    BY OdeAssumption, VarsOfAssumption DEF OdeTypeOK
  <2> QED
    BY <2>1 DEF AddUsedConstraint, Status
<1> HIDE DEF r
<1>2. CASE with
  <2>1. Record(s, with) = AddUsedConstraints(r, Enforced)
    BY <1>2 DEF Record, r
  <2>2. /\ Record(s, with).used = r.used \cup Enforced
        /\ Record(s, with).witness =
             IF IsEmpty(r.box) THEN r.witness \cup UNION {VarsOf[c] : c \in Enforced}
             ELSE r.witness
    BY <1>1, <2>1 DEF AddUsedConstraints, Status
  <2>3. \A c \in Enforced : VarsOf[c] \subseteq UNION {VarsOf[d] : d \in Enforced}
    OBVIOUS
  <2> QED
    BY <1>1, <1>2, <2>2, <2>3
<1>3. CASE ~with
  BY <1>1, <1>3 DEF Record, r
<1> QED
  BY <1>2, <1>3

\* What a step of the integral may do to a status that covers: it narrows the
\* integral's variables and records it.
LEMMA RecordCovers ==
  ASSUME OdeTypeOK, flow.params = {}, ~IsEmpty(cs.box), Covers(cs),
         NEW c \in Box, NEW with \in BOOLEAN,
         \A v \in Var : c[v] # cs.box[v] => v \in VarsOf[flow.name],
         \A q \in Point :
           InBox(q, cs.box) /\ Solves(q) /\ (with => IsSolution(q)) => InBox(q, c)
  PROVE  Covers(Record([cs EXCEPT !.box = c], with))
<1> DEFINE t == [cs EXCEPT !.box = c]
           s == Record(t, with)
<1>1. /\ cs.box \in Box /\ t \in Status /\ t.box = c
      /\ t.used = cs.used /\ t.witness = cs.witness
  BY DEF OdeTypeOK, Status
<1>2. /\ s.used = cs.used \cup {flow.name} \cup (IF with THEN Enforced ELSE {})
      /\ cs.witness \subseteq s.witness
      /\ IsEmpty(c) => VarsOf[flow.name] \subseteq s.witness
      /\ IsEmpty(c) /\ with => \A e \in Enforced : VarsOf[e] \subseteq s.witness
      /\ s.box = c
  BY <1>1, RecordFields, RecordKeepsBox
<1> HIDE DEF s, t
<1>3. SUFFICES ASSUME NEW K \in SUBSET Var, NEW p \in Point, s.witness \subseteq K,
                      FallsApart(s.used, K), SolvesOn(s.used, p, K)
               PROVE  Inside(c, p, K)
  BY <1>2 DEF Covers, s, t
<1>4. Inside(cs.box, p, K)
  <2>1. FallsApart(cs.used, K) /\ SolvesOn(cs.used, p, K) /\ cs.witness \subseteq K
    BY <1>2, <1>3 DEF FallsApart, SolvesOn
  <2> QED
    BY <2>1 DEF Covers
<1>5. flow.name \in s.used
  BY <1>2
<1>6. CASE VarsOf[flow.name] \subseteq K
  <2>1. Solves(p)
    BY <1>3, <1>5, <1>6, Meaning DEF SolvesOn
  <2>2. ASSUME with, NEW e \in Enforced PROVE StaysInside(e, p)
    <3>1. e \in s.used /\ e \in Invariants /\ e # flow.name
      BY <1>2, <2>2, FreeVariablesAssumption DEF Enforced, OdeTypeOK, Accepted
    <3>2. Touches(e, VarsOf[flow.name])
      BY <3>1, FreeVariablesAssumption DEF Enforced, OdeTypeOK
    <3>3. VarsOf[e] \subseteq K
      BY <1>3, <1>6, <3>1, <3>2 DEF FallsApart, Touches
    <3> QED
      BY <1>3, <3>1, <3>3, Meaning DEF SolvesOn
  <2>3. PICK q \in Point : InBox(q, cs.box) /\ \A v \in K : q[v] = p[v]
    BY <1>1, <1>4, PointInside
  <2>4. Solves(q) /\ (with => IsSolution(q))
    BY <1>6, <2>1, <2>2, <2>3, SolutionDepends DEF IsSolution
  <2>5. InBox(q, c)
    BY <2>3, <2>4
  <2> QED
    BY <2>3, <2>5 DEF InBox, Inside, IsEmpty
<1>7. CASE ~(VarsOf[flow.name] \subseteq K)
  <2>1. ~IsEmpty(c)
    BY <1>2, <1>3, <1>7
  <2>2. ~Touches(flow.name, K)
    BY <1>3, <1>5, <1>7 DEF FallsApart
  <2>3. \A v \in K : c[v] = cs.box[v]
    BY <2>2 DEF Touches
  <2> QED
    BY <1>4, <2>1, <2>3 DEF Inside
<1> QED
  BY <1>6, <1>7

\* Without parameters there is nothing to intersect.
LEMMA NothingMatched ==
  ASSUME OdeTypeOK, flow.params = {}, ~IsEmpty(cs.box)
  PROVE  Matched(cs.box) = cs.box
<1>1. cs.box \in Box
  BY DEF OdeTypeOK, Status
<1>2. cs.box = [v \in Var |-> cs.box[v]]
  BY <1>1 DEF Box
<1>3. Matched(cs.box) = Normal([v \in Var |-> cs.box[v]])
  BY DEF Matched
<1> QED
  BY <1>2, <1>3 DEF Normal

\* When the integral has no solution in the box, its refutation covers.
LEMMA RefutedCovers ==
  ASSUME OdeTypeOK, flow.params = {}, ~IsEmpty(cs.box), Covers(cs),
         \A q \in Point : ~(InBox(q, cs.box) /\ IsSolution(q))
  PROVE  Covers(Refuted(cs))
<1> DEFINE t == [cs EXCEPT !.box = EmptyBox]
           s == Record(t, TRUE)
<1>1. /\ cs.box \in Box /\ t \in Status /\ IsEmpty(t.box)
      /\ t.used = cs.used /\ t.witness = cs.witness
  BY EmptyBoxIsEmpty DEF OdeTypeOK, Status
<1>2. /\ s.used = cs.used \cup {flow.name} \cup Enforced
      /\ cs.witness \subseteq s.witness
      /\ VarsOf[flow.name] \subseteq s.witness
      /\ \A e \in Enforced : VarsOf[e] \subseteq s.witness
  BY <1>1, RecordFields
<1> HIDE DEF s, t
<1>3. SUFFICES ASSUME NEW K \in SUBSET Var, NEW p \in Point, s.witness \subseteq K,
                      FallsApart(s.used, K), SolvesOn(s.used, p, K)
               PROVE  FALSE
  BY DEF Covers, Refuted, s, t
<1>4. Inside(cs.box, p, K)
  <2>1. FallsApart(cs.used, K) /\ SolvesOn(cs.used, p, K) /\ cs.witness \subseteq K
    BY <1>2, <1>3 DEF FallsApart, SolvesOn
  <2> QED
    BY <2>1 DEF Covers
<1>5. Solves(p)
  BY <1>2, <1>3, Meaning DEF SolvesOn
<1>6. ASSUME NEW e \in Enforced PROVE StaysInside(e, p)
  <2>1. e \in s.used /\ e \in Invariants /\ e # flow.name /\ VarsOf[e] \subseteq K
    BY <1>2, <1>3, FreeVariablesAssumption DEF Enforced, OdeTypeOK, Accepted
  <2> QED
    BY <1>3, <2>1, Meaning DEF SolvesOn
<1>7. PICK q \in Point : InBox(q, cs.box) /\ \A v \in K : q[v] = p[v]
  BY <1>1, <1>4, PointInside
<1>8. VarsOf[flow.name] \subseteq K
  BY <1>2, <1>3
<1>9. IsSolution(q)
  BY <1>5, <1>6, <1>7, <1>8, SolutionDepends DEF IsSolution
<1> QED
  BY <1>7, <1>9

\* Where time or the flow stands still, what is recorded explains it.
LEMMA StandStillCovers ==
  ASSUME OdeTypeOK, flow.params = {}, ~IsEmpty(cs.box), Covers(cs), NEW with \in BOOLEAN,
         StandStill(cs.box, with), TimeIsZero(cs.box) \/ TrivialFlow
  PROVE  Covers(cs')
<1> DEFINE b == cs.box
           x == b["x_0"] \cap b["x_t"]
           c == [b EXCEPT !["x_0"] = x, !["x_t"] = x]
<1>1. b \in Box
  BY DEF OdeTypeOK, Status
<1>2. ASSUME NEW q \in Point, InBox(q, b), Solves(q)
      PROVE  q["x_0"] \in x /\ q["x_t"] \in x
  <2>1. q["x_0"] = q["x_t"]
    BY <1>1, <1>2, StandingStill
  <2> QED
    BY <1>1, <1>2, <2>1, SolutionFacts
<1>3. CASE x = {}
  <2>1. cs' = Refuted(cs)
    BY <1>3 DEF StandStill
  <2> QED
    BY <1>2, <1>3, <2>1, RefutedCovers DEF IsSolution
<1>4. CASE x # {}
  <2>1. cs' = Record([cs EXCEPT !.box = c], with)
    BY <1>4 DEF StandStill
  <2>2. c \in Box
    BY <1>1, StoodStillIsABox
  <2>3. \A v \in Var : c[v] = IF v \in {"x_0", "x_t"} THEN x ELSE b[v]
    BY <1>1 DEF Box
  <2> HIDE DEF c
  <2>4. {"x_0", "x_t"} \subseteq VarsOf[flow.name]
    BY FreeVariablesAssumption DEF OdeTypeOK
  <2>5. \A v \in Var : c[v] # b[v] => v \in VarsOf[flow.name]
    BY <2>3, <2>4
  <2>6. \A q \in Point : InBox(q, b) /\ Solves(q) => InBox(q, c)
    BY <1>2, <2>3 DEF InBox
  <2> QED
    BY <2>1, <2>2, <2>5, <2>6, RecordCovers
<1> QED
  BY <1>3, <1>4

\* So does what is recorded of an integration.
LEMMA IntegrateCovers ==
  ASSUME OdeTypeOK, flow.params = {}, ~IsEmpty(cs.box), Covers(cs), NEW dir \in {"FWD", "BWD"},
         NEW slack, ~TimeIsZero(cs.box), Integrate(cs.box, dir, slack)
  PROVE  Covers(cs')
<1> DEFINE b == cs.box
           c == Narrowed(b, dir, slack)
<1>1. b \in Box /\ c \in Box
  BY NarrowedIsABox DEF OdeTypeOK, Status
<1>2. ASSUME NEW q \in Point, InBox(q, b), IsSolution(q)
      PROVE  Kept(b, dir, slack) # {} /\ InBox(q, c)
  BY <1>1, <1>2, NarrowedKeeps
<1>3. CASE Kept(b, dir, slack) = {}
  <2>1. cs' = Refuted(cs)
    BY <1>3 DEF Integrate
  <2> QED
    BY <1>2, <1>3, <2>1, RefutedCovers
<1>4. CASE Kept(b, dir, slack) # {}
  <2>1. cs' = IF c = b THEN [cs EXCEPT !.box = b] ELSE Record([cs EXCEPT !.box = c], TRUE)
    BY <1>4 DEF Integrate
  <2>2. \A v \in Var : c[v] # b[v] => v = End(dir) \/ (v = "time" /\ flow.window = {})
    BY DEF Narrowed
  <2>3. {"x_0", "x_t"} \cup (IF flow.window = {} THEN {"time"} ELSE {}) \subseteq VarsOf[flow.name]
    BY FreeVariablesAssumption DEF OdeTypeOK
  <2>4. \A v \in Var : c[v] # b[v] => v \in VarsOf[flow.name]
    BY <2>2, <2>3 DEF End
  <2> HIDE DEF c
  <2>5. CASE c = b
    <3>1. cs' = cs
      BY <2>1, <2>5 DEF OdeTypeOK, Status
    <3> QED
      BY <3>1
  <2>6. CASE c # b
    BY <1>1, <1>2, <2>1, <2>4, <2>6, RecordCovers
  <2> QED
    BY <2>5, <2>6
<1> QED
  BY <1>3, <1>4

LEMMA PruneCovers ==
  ASSUME OdeTypeOK, flow.params = {}, Covers(cs), NEW dir \in {"FWD", "BWD"}, Prune(dir)
  PROVE  Covers(cs')
<1>1. ~IsEmpty(cs.box)
  BY DEF Prune
<1>2. Matched(cs.box) = cs.box
  BY <1>1, NothingMatched
<1>3. CASE NothingConclusive(cs.box)
  <2>1. cs' = AddInconclusiveOde([cs EXCEPT !.box = cs.box], flow.name)
    BY <1>3 DEF NothingConclusive
  <2>2. cs'.box = cs.box /\ cs'.used = cs.used /\ cs'.witness = cs.witness
    BY <2>1 DEF AddInconclusiveOde, OdeTypeOK, Status
  <2> QED
    BY <2>2 DEF Covers
<1> QED
  BY <1>1, <1>2, <1>3, StandStillCovers, IntegrateCovers DEF Prune, ParamsDisjoint

\* An algebraic contractor records its assertion whenever it narrows.
LEMMA AlgebraCovers ==
  ASSUME OdeTypeOK, flow.params = {}, Covers(cs), NEW a \in Algebraic, Algebra(a)
  PROVE  Covers(cs')
<1> DEFINE in == {q \in Holds[a] : InBox(q, cs.box)}
           c == [v \in Var |-> IF v \in VarsOf[a] THEN Hull({q[v] : q \in in}) ELSE cs.box[v]]
           b == Normal(c)
<1>1. /\ cs \in Status /\ cs.box \in Box /\ a \in Constraint /\ VarsOf[a] \subseteq Var
      /\ ~IsEmpty(cs.box)
  BY OdeAssumption, VarsOfAssumption DEF OdeTypeOK, Status, Algebra
<1>2. c \in Box
  BY <1>1 DEF Box, Hull
<1>3. cs' = AddUsedConstraint([cs EXCEPT !.box = b], a)
  BY DEF Algebra
<1>4. \A v \in Var \ VarsOf[a] : c[v] = cs.box[v]
  OBVIOUS
<1>5. ASSUME NEW q \in in PROVE InBox(q, c)
  <2>1. ASSUME NEW v \in VarsOf[a] PROVE q[v] \in c[v]
    <3> DEFINE S == {r[v] : r \in in}
    <3>1. S \subseteq Value /\ q[v] \in S
      BY <1>1, OdeAssumption DEF Point
    <3>2. S \subseteq Hull(S)
      BY <3>1, HullContains
    <3> QED
      BY <1>1, <3>1, <3>2
  <2>2. \A v \in Var \ VarsOf[a] : q[v] \in c[v]
    BY <1>4 DEF InBox
  <2> QED
    BY <2>1, <2>2 DEF InBox
<1> HIDE DEF c
<1>6. b \in Box /\ (~IsEmpty(c) => b = c)
  BY <1>2, NormalIsABox DEF Normal
<1> HIDE DEF b
<1>7. /\ cs'.box = b /\ cs'.used = cs.used \cup {a}
      /\ cs'.witness = IF IsEmpty(b) THEN cs.witness \cup VarsOf[a] ELSE cs.witness
  BY <1>1, <1>3, <1>6 DEF AddUsedConstraint, Status
<1>8. SUFFICES ASSUME NEW K \in SUBSET Var, NEW p \in Point, cs'.witness \subseteq K,
                      FallsApart(cs'.used, K), SolvesOn(cs'.used, p, K)
               PROVE  Inside(b, p, K)
  BY <1>7 DEF Covers
<1>9. Inside(cs.box, p, K)
  <2>1. FallsApart(cs.used, K) /\ SolvesOn(cs.used, p, K) /\ cs.witness \subseteq K
    BY <1>7, <1>8 DEF FallsApart, SolvesOn
  <2> QED
    BY <2>1 DEF Covers
<1>10. CASE VarsOf[a] \subseteq K
  <2>1. Satisfied(a, p)
    BY <1>7, <1>8, <1>10 DEF SolvesOn
  <2>2. p \in Holds[a]
    <3>1. a # flow.name /\ a \notin Invariants
      BY FreeVariablesAssumption DEF OdeTypeOK
    <3>2. Satisfied(a, p) = (p \in Holds[a])
      BY <3>1, Zenon DEF Satisfied
    <3> QED
      BY <2>1, <3>2
  <2>3. PICK q \in Point : InBox(q, cs.box) /\ \A v \in K : q[v] = p[v]
    BY <1>1, <1>9, PointInside
  <2>4. q \in Holds[a]
    BY <1>10, <2>2, <2>3, FreeVariablesAssumption
  <2>5. InBox(q, c)
    BY <1>5, <2>3, <2>4
  <2>6. ~IsEmpty(c) /\ b = c
    BY <1>6, <2>5 DEF InBox, IsEmpty
  <2> QED
    BY <2>3, <2>5, <2>6 DEF InBox, Inside
<1>11. CASE ~(VarsOf[a] \subseteq K)
  <2>1. ~IsEmpty(b)
    BY <1>7, <1>8, <1>11
  <2>2. b = c
    BY <1>6, <2>1, EmptyBoxIsEmpty DEF Normal, b
  <2>3. ~Touches(a, K)
    BY <1>7, <1>8, <1>11 DEF FallsApart
  <2>4. \A v \in K : c[v] = cs.box[v]
    BY <1>4, <2>3 DEF Touches
  <2> QED
    BY <1>9, <2>1, <2>2, <2>4 DEF Inside
<1> QED
  BY <1>10, <1>11

LEMMA InitOdeCoverage == OdeInit => OdeCoverage
<1> SUFFICES ASSUME OdeInit PROVE Covers(cs)
  BY DEF OdeCoverage
<1>1. cs.box = [v \in Var |-> Value]
  BY DEF OdeInit, NewStatus
<1>2. \A v \in Var : cs.box[v] = Value /\ cs.box[v] # {}
  BY <1>1, OdeAssumption
<1> QED
  BY <1>2 DEF Covers, Inside, IsEmpty, Point

\* What is satisfied depends on the integral alone, which stays.
LEMMA MeaningStays ==
  ASSUME OdeTypeOK, flow' = flow, NEW c, NEW q
  PROVE  Satisfied(c, q)' <=> Satisfied(c, q)
<1>1. Parameter(q)' = Parameter(q) /\ Duration(q)' = Duration(q)
  BY DEF Parameter, Duration
<1>2. Solves(q)' <=> Solves(q)
  BY <1>1 DEF Solves
<1>3. StaysInside(c, q)' <=> StaysInside(c, q)
  BY <1>1 DEF StaysInside
<1>4. flow.name \notin Invariants
  BY FreeVariablesAssumption DEF OdeTypeOK
<1>5. CASE c = flow.name
  <2>1. c = flow'.name /\ c \notin Invariants
    BY <1>4, <1>5
  <2>2. Satisfied(c, q) = Solves(q) /\ Satisfied(c, q)' = Solves(q)'
    BY <1>5, <2>1, Zenon DEF Satisfied
  <2> QED
    BY <1>2, <2>2
<1>6. CASE c \in Invariants
  <2>1. c # flow.name /\ c # flow'.name
    BY <1>4, <1>6
  <2>2. Satisfied(c, q) = StaysInside(c, q) /\ Satisfied(c, q)' = StaysInside(c, q)'
    BY <1>6, <2>1, Zenon DEF Satisfied
  <2> QED
    BY <1>3, <2>2
<1>7. CASE c # flow.name /\ c \notin Invariants
  <2>1. c # flow'.name
    BY <1>7
  <2>2. Satisfied(c, q) = (q \in Holds[c]) /\ Satisfied(c, q)' = (q \in Holds[c])
    BY <1>7, <2>1, Zenon DEF Satisfied
  <2> QED
    BY <2>2
<1> QED
  BY <1>5, <1>6, <1>7

LEMMA StepOdeCoverage == OdeTypeOK /\ OdeCoverage /\ [OdeNext]_odeVars => OdeCoverage'
<1> SUFFICES ASSUME OdeTypeOK, OdeCoverage, [OdeNext]_odeVars, flow'.params = {} PROVE Covers(cs)'
  BY DEF OdeCoverage
<1>1. flow' = flow
  BY DEF OdeNext, Algebra, Prune, OdeDone, odeVars
<1>2. Covers(cs)
  BY <1>1 DEF OdeCoverage
<1>3. Covers(cs')
  <2>1. CASE UNCHANGED odeVars
    BY <1>2, <2>1 DEF odeVars
  <2>2. CASE ~UNCHANGED odeVars
    BY <1>1, <1>2, <2>2, AlgebraCovers, PruneCovers DEF OdeNext, OdeDone
  <2> QED
    BY <2>1, <2>2
<1>4. \A c, q : Satisfied(c, q)' <=> Satisfied(c, q)
  BY <1>1, MeaningStays
<1> QED
  BY <1>3, <1>4 DEF Covers, FallsApart, SolvesOn

\* From OdeCoverage, with K the variables of the witnesses and the explanation.
LEMMA CoverageRefutes == OdeTypeOK /\ OdeCoverage => ExplanationRefutesStates
<1> SUFFICES ASSUME OdeTypeOK, Covers(cs), IsEmpty(cs.box), NEW p \in Point
             PROVE  \E c \in Explanation(cs) : ~Satisfied(c, p)
  BY DEF OdeCoverage, ExplanationRefutesStates, StatusRefutes
<1> DEFINE E == Relational(cs)
           K == cs.witness \cup UNION {VarsOf[c] : c \in E}
<1>1. Seeds(cs) \subseteq E /\ ClosedIn(E, cs)
  BY RelationalCloses
<1>2. cs.used \subseteq Constraint /\ cs.witness \subseteq Var /\ E \subseteq cs.used
  BY DEF OdeTypeOK, Status, Relational
<1>3. K \in SUBSET Var
  BY <1>2, VarsOfAssumption
<1>4. ASSUME NEW c \in cs.used, Touches(c, K) \/ VarsOf[c] = {}
      PROVE  c \in E
  <2>1. CASE VarsOf[c] = {} \/ Touches(c, cs.witness)
    BY <1>1, <2>1 DEF Seeds
  <2>2. CASE \E e \in E : Touches(c, VarsOf[e])
    BY <1>1, <2>2 DEF ClosedIn
  <2> QED
    BY <1>4, <2>1, <2>2 DEF Touches
<1>5. FallsApart(cs.used, K)
  BY <1>4 DEF FallsApart
<1>6. ~SolvesOn(cs.used, p, K)
  BY <1>3, <1>5 DEF Covers, Inside
<1>7. PICK c \in cs.used : VarsOf[c] \subseteq K /\ ~Satisfied(c, p)
  BY <1>6 DEF SolvesOn
<1>8. c \in E
  BY <1>4, <1>7 DEF Touches
<1> QED
  BY <1>7, <1>8 DEF Explanation

(* Without parameters the assertions of the explanation exclude every      *)
(* point, however the integral, its invariants and the other assertions    *)
(* took turns at the box (contractor_odes.cc, Prune;                       *)
(* contractor_status.cc, GenerateExplanation).                             *)
THEOREM StatesExplained == OdeSpec => []ExplanationRefutesStates
<1>1. OdeSpec => []OdeTypeOK
  BY InitTypeOK, StepTypeOK, PTL DEF OdeSpec
<1>2. OdeSpec => []OdeCoverage
  BY <1>1, InitOdeCoverage, StepOdeCoverage, PTL DEF OdeSpec
<1> QED
  BY <1>1, <1>2, CoverageRefutes, PTL
=============================================================================
