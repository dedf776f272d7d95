----------------------------- MODULE Branching -----------------------------
(***************************************************************************)
(* Box::bisect and the choice of the dimension to cut: the widest one, or  *)
(* the one the constraints are most sensitive to (--smear).  The           *)
(* derivatives themselves are ibex's: a column of the Jacobian that the    *)
(* constraint does not mention is zero, the others may have any size.      *)
(***************************************************************************)
EXTENDS Evaluation

CONSTANT Dims     \* the variables of the box in the order of their indices

NoDim == 0
Indices == 1 .. Len(Dims)

Least(S)    == CHOOSE x \in S : \A y \in S : x <= y
Greatest(S) == CHOOSE x \in S : \A y \in S : y <= x

-----------------------------------------------------------------------------
(* Box *)

\* Interval::is_bisectable and mid(): there is a double between the bounds.
IsBisectable(iv) == iv.hi - iv.lo >= 4
Mid(iv) == Down((iv.lo + iv.hi) \div 2)

Floor(x) == x - (x % 4)
Ceil(x)  == -Floor(-x)

\* A slip: both halves keep the integer in the middle.
BisectIntShared(box, v) ==
  LET m == Floor(Mid(box[v]))
  IN  << [box EXCEPT ![v] = Interval(Ceil(@.lo), m)], [box EXCEPT ![v] = Interval(m, Floor(@.hi))] >>
BisectInt(box, v) ==
  LET m == Floor(Mid(box[v]))
  IN  << [box EXCEPT ![v] = Interval(Ceil(@.lo), m)], [box EXCEPT ![v] = Interval(m + 4, Floor(@.hi))] >>

BisectContinuous(box, v) ==
  << [box EXCEPT ![v] = Interval(@.lo, Mid(@))], [box EXCEPT ![v] = Interval(Mid(@), @.hi)] >>

Bisect(box, v) == IF IsInteger(v) THEN BisectInt(box, v) ELSE BisectContinuous(box, v)

-----------------------------------------------------------------------------
(* BranchLargestFirst *)

Candidates(box, active) == {j \in Indices : Dims[j] \in active /\ IsBisectable(box[Dims[j]])}

\* FindMaxDiam: the first of the widest.
LargestFirst(box, active) ==
  LET js == Candidates(box, active)
      widest == {j \in js : \A k \in js : Diam(box[Dims[k]]) <= Diam(box[Dims[j]])}
  IN  IF js = {} THEN NoDim ELSE Least(widest)

-----------------------------------------------------------------------------
(* SmearBrancher *)

\* The bounds of the negated body give the universal variables a box.  A bound
\* of another variable is put on the first of them: the box has no index for
\* it, and operator[] makes one.
BoundVar(g) == IF IsVariable(g.l) THEN g.l.v ELSE g.r.v
OntoFirst(g, ys) ==
  LET y == Variable(CHOOSE y \in ys : TRUE)
  IN  IF ~IsSimpleRelational(g) \/ BoundVar(g) \in ys THEN g
      ELSE [k |-> "rel", op |-> g.op, l |-> IF IsVariable(g.l) THEN y ELSE g.l,
                                      r |-> IF IsVariable(g.l) THEN g.r ELSE y]

AbsorbBounds(gs, ubox) ==
  Folded([g \in gs |-> [b \in [DOMAIN ubox -> Intervals] |-> FilterAssertion(OntoFirst(g, DOMAIN ubox), b).box]],
         ubox, gs)

UniversalDomain(f) ==
  AbsorbBounds({g \in GetClauses(Nnf(f.f, FALSE)) : g.k = "rel"}, [y \in f.y |-> Whole])
IsFinite(ubox) == \A y \in DOMAIN ubox : ubox[y].lo > -Infinity /\ ubox[y].hi < Infinity

\* The rows of the Jacobian: the relations, those of a quantified body too
\* (AddForallLeaves) if they mention the box; and the columns of a row.
Touches(f, box) == RelationVars(f) \cap DOMAIN box # {}
SmearRows(fs, box) ==
  LET relations == UNION {IF f.k # "forall" THEN {f}
                          ELSE IF ~IsFinite(UniversalDomain(f)) THEN {}
                          ELSE {g \in Relations(Nnf(f.f, TRUE)) : Touches(g, box)} : f \in fs}
  IN  {f \in relations : Convert(f) # NoConstraint}
Columns(f, box) == RelationVars(f) \cap DOMAIN box

Infinite == 100      \* an infinite derivative
Sizes == {0, 1, Infinite}

\* The impact of dimension v on a row, in thousandths of the row's total when
\* it is relative; a row without a finite positive total says nothing.
RowTotal(size, box) == SumOver([v \in DOMAIN box |-> size[v] * Diam(box[v])])
IsInformative(size, box, relative) ==
  relative => RowTotal(size, box) > 0 /\ \A v \in DOMAIN box : size[v] # Infinite
Impact(size, box, v, relative) ==
  IF ~IsInformative(size, box, relative) \/ size[v] = Infinite THEN 0
  ELSE (1000 * size[v] * Diam(box[v])) \div (IF relative THEN RowTotal(size, box) ELSE 1)

\* The score of v sums, or takes the largest of, its impacts on the rows.
Score(jacobian, box, v, relative, useMax) ==
  LET impact == [f \in DOMAIN jacobian |-> Impact(jacobian[f], box, v, relative)]
  IN  IF ~useMax THEN SumOver(impact) ELSE Greatest({0} \cup {impact[f] : f \in DOMAIN jacobian})

Jacobians(rows, box) ==
  {j \in [rows -> [DOMAIN box -> Sizes]] :
     \A f \in rows : \A v \in DOMAIN box \ Columns(f, box) : j[f][v] = 0}

\* The first of the active dimensions with the best score, if that is positive.
SmearDim(jacobian, box, active, relative, useMax) ==
  LET js == Candidates(box, active)
      score == [j \in js |-> Score(jacobian, box, Dims[j], relative, useMax)]
      best == {j \in js : score[j] > 0 /\ \A k \in js : score[k] <= score[j]}
  IN  IF best = {} THEN LargestFirst(box, active) ELSE Least(best)

\* What the brancher may choose; without rows it is a dummy.
SmearChoices(fs, box, active, relative, useMax) ==
  LET rows == SmearRows(fs, box)
  IN  IF rows = {} THEN {LargestFirst(box, active)}
      ELSE {SmearDim(j, box, active, relative, useMax) : j \in Jacobians(rows, box)}

Chosen(smear, fs, box, active) ==
  IF smear = "none" THEN {LargestFirst(box, active)}
  ELSE SmearChoices(fs, box, active, smear \in {"sumrel", "maxrel"}, smear \in {"max", "maxrel"})
=============================================================================
