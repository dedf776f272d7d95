---------------------------- MODULE Contractors ----------------------------
(***************************************************************************)
(* The contractors TheorySolver::BuildContractor makes of the literals,    *)
(* and the boxes their Prune may return.  ibex's own contractors are       *)
(* external: they leave a dimension alone or narrow it to the hull of the  *)
(* points their constraints allow, and empty the box only when there are   *)
(* none.  A contractor is a record that names its class; what has nothing  *)
(* to do is the identity, as make_contractor_* make it.                    *)
(***************************************************************************)
EXTENDS Branching

\* The options BuildContractor and GenericContractorGenerator read.
Option(polytope, acid, order, prePrune, inForall) ==
  [polytope |-> polytope, acid |-> acid, order |-> order, prePrune |-> prePrune, inForall |-> inForall]

-----------------------------------------------------------------------------
(* The factories of contractor.cc *)

Id        == [c |-> "id"]
Integral  == [c |-> "integer"]
FwdBwd(f) == [c |-> "fwdbwd", f |-> f]
Polytope(fs) == [c |-> "polytope", fs |-> fs]
Acid(fs)  == [c |-> "acid", fs |-> fs]
\* The fixpoint of the skim, if there is one, and the decider of f.
Forall(f, skim, polytope) == [c |-> "forall", f |-> f, skim |-> skim, polytope |-> polytope]

IsConvertible(f) == f.k # "forall" /\ Convert(f) # NoConstraint
Convertible(fs)  == {f \in fs : IsConvertible(f)}

MakeInteger(box) == IF \E v \in DOMAIN box : IsInteger(v) THEN Integral ELSE Id
MakeFwdBwd(f)  == IF IsConvertible(f) THEN FwdBwd(f) ELSE Id
MakePolytope(fs) == IF Convertible(fs) # {} THEN Polytope(fs) ELSE Id
MakeAcid(fs)   == IF Convertible(fs) # {} THEN Acid(fs) ELSE Id

\* ContractorIbexForall: only a body of relations over a finite domain.
AllRelations(f) ==
  LET all[g \in Body] ==
        IF g.k \in {"and", "or"} THEN \A h \in g.s : all[h] ELSE g.k = "rel" /\ IsConvertible(g)
  IN  all[f]
IsSkimmable(f) == AllRelations(Nnf(f.f, TRUE)) /\ IsFinite(UniversalDomain(f))

-----------------------------------------------------------------------------
(* TheorySolver::BuildContractor *)

BuildForall(f, options) == Forall(f, options.prePrune /\ IsSkimmable(f), options.inForall)
BuildOne(f, options) == IF f.k = "forall" THEN BuildForall(f, options) ELSE MakeFwdBwd(f)

\* Contractor::input().
Input(c) ==
  CASE c.c = "id" -> {}
    [] c.c = "integer" -> {Dims[j] : j \in {k \in Indices : IsInteger(Dims[k])}}
    [] c.c = "fwdbwd" -> RelationVars(c.f)
    [] c.c \in {"polytope", "acid"} -> UNION {LiteralVars(f) : f \in c.fs}
    [] c.c = "forall" -> LiteralVars(c.f)

\* std::stable_sort by the number of variables.
Precedes(size, j, k, order) ==
  \/ order = "asc" /\ size[j] < size[k]
  \/ order = "desc" /\ size[j] > size[k]
  \/ (order = "none" \/ size[j] = size[k]) /\ j < k
Placements(size, order) ==
  {q \in [DOMAIN size -> DOMAIN size] :
     \A m, n \in DOMAIN size : m < n => Precedes(size, q[m], q[n], order)}
Orderings(cs, order) ==
  {[n \in DOMAIN cs |-> cs[place[n]]] :
     place \in Placements([n \in DOMAIN cs |-> Cardinality(Input(cs[n]))], order)}

\* A slip: the integer contractor comes before those that may undo its work.
AssembleIntegerFirst(ctcs, fs, box, options) ==
  << MakeInteger(box) >> \o ctcs
    \o << IF options.polytope THEN MakePolytope(fs) ELSE Id, IF options.acid THEN MakeAcid(fs) ELSE Id >>
\* The integer contractor and those over all literals come after the sorted ones.
Assemble(ctcs, fs, box, options) ==
  ctcs \o << MakeInteger(box) >>
    \o << IF options.polytope THEN MakePolytope(fs) ELSE Id, IF options.acid THEN MakeAcid(fs) ELSE Id >>

-----------------------------------------------------------------------------
(* Contractor::Prune *)

BoxesOver(vs) == [vs -> Intervals]

\* The points of a box, whatever the types of its variables.
RealPoints(box) ==
  {p \in [DOMAIN box -> UNION {box[v].lo .. box[v].hi : v \in DOMAIN box}] :
     \A v \in DOMAIN box : Contains(box[v], p[v])}

Hull(S) == Interval(Down(Least(S)), Up(Greatest(S)))

\* A dimension stays or shrinks to the hull of the points in S.
NarrowTo(box, S) ==
  IF IsEmptyBox(box) THEN {box}
  ELSE IF S = {} THEN {box, EmptyBox(box)}
  ELSE LET hull == [v \in DOMAIN box |-> Hull({p[v] : p \in S})]
       IN  {[v \in DOMAIN box |-> IF v \in vs THEN hull[v] ELSE box[v]] : vs \in SUBSET DOMAIN box}

PruneInteger(box) ==
  LET rounded == [v \in DOMAIN box |->
                    IF IsInteger(v) THEN Interval(Ceil(box[v].lo), Floor(box[v].hi)) ELSE box[v]]
  IN  IF IsEmptyBox(box) THEN box ELSE IF IsEmptyBox(rounded) THEN EmptyBox(box) ELSE rounded

AllowedBy(fs, box) == {p \in RealPoints(box) : \A f \in fs : Allows(Convert(f), p)}

PruneFwdBwd(f, box)    == NarrowTo(box, AllowedBy({f}, box))
PrunePolytope(fs, box) == NarrowTo(box, AllowedBy(Convertible(fs), box))
PruneAcid(fs, box)     == NarrowTo(box, AllowedBy(Convertible(fs), box))

\* CtcForAll over the universal box: its points are reals, whatever the types.
BodyAllows(f, p) ==
  LET allows[g \in Body] ==
        CASE g.k = "and" -> \A h \in g.s : allows[h]
          [] g.k = "or"  -> \E h \in g.s : allows[h]
          [] OTHER -> Allows(Convert(g), p)
  IN  allows[f]
AllowedForAll(f, box) ==
  LET body == Nnf(f.f, TRUE)
      ys == RealPoints(UniversalDomain(f))
  IN  {p \in RealPoints(box) : \A y \in ys : BodyAllows(body, Override(p, y))}

-----------------------------------------------------------------------------
(* GenericContractorGenerator: the contractor of the body of a quantified   *)
(* formula.  prune[g] has the boxes the contractor of g may return.         *)

\* ContractorStatus::InplaceJoin of two boxes.
UnionBox(a, b) ==
  IF IsEmptyBox(a) THEN b ELSE IF IsEmptyBox(b) THEN a
  ELSE [v \in DOMAIN a |-> Interval(Smaller(a[v].lo, b[v].lo), Larger(a[v].hi, b[v].hi))]

\* The contractors of the formulas in S one after the other; an empty box stays.
PruneSeq(prune, S, box) ==
  Folded([g \in S |-> [bs \in SUBSET BoxesOver(DOMAIN box) |->
                         UNION {IF IsEmptyBox(b) THEN {b} ELSE prune[g][b] : b \in bs}]],
         {box}, S)
\* Each on its own copy of the box.
PruneJoin(prune, S, box) ==
  Folded([g \in S |-> [bs \in SUBSET BoxesOver(DOMAIN box) |->
                         {UnionBox(a, b) : a \in prune[g][box], b \in bs}]],
         {EmptyBox(box)}, S)

\* With a polytope the relations of a conjunction are contracted together, last.
PruneConjunction(prune, S, box, polytope) ==
  LET relations == {g \in S : g.k = "rel"}
  IN  IF ~polytope THEN PruneSeq(prune, S, box)
      ELSE UNION {IF IsEmptyBox(b) THEN {b} ELSE NarrowTo(b, AllowedBy(relations, b)) :
                    b \in PruneSeq(prune, S \ relations, box)}

\* A slip: a disjunction is contracted by one disjunct after the other.
PruneDisjunctionSeq(prune, S, box) == PruneSeq(prune, S, box)
PruneDisjunction(prune, S, box) == PruneJoin(prune, S, box)

PruneBody(f, box, polytope) ==
  LET prune[g \in Body] ==
        [b \in BoxesOver(DOMAIN box) |->
           CASE g.k = "and" -> PruneConjunction([h \in g.s |-> prune[h]], g.s, b, polytope)
             [] g.k = "or"  -> PruneDisjunction([h \in g.s |-> prune[h]], g.s, b)
             [] OTHER -> NarrowTo(b, AllowedBy({g}, b))]
  IN  prune[f][box]

-----------------------------------------------------------------------------
(* ContractorForall: the universal variables are pinned at a counterexample *)
(* of the search for one, which may be any point of doubles.                *)

Pinned(box, y) == [v \in DOMAIN box \cup DOMAIN y |-> IF v \in DOMAIN y THEN Point(y[v]) ELSE box[v]]
PinnedPrunings(c, box) ==
  LET ys == {y \in UniversalPoints(c.f.y) : \A v \in DOMAIN y : y[v] % 2 = 0}
  IN  UNION {{[v \in DOMAIN box |-> b[v]] : b \in PruneBody(Nnf(c.f.f, TRUE), Pinned(box, y), c.polytope)} : y \in ys}

\* One round of either; none when no counterexample is found.
PruneForall(c, box) ==
  {box} \cup (IF c.skim THEN NarrowTo(box, AllowedForAll(c.f, box)) ELSE {}) \cup PinnedPrunings(c, box)

Prunings(c, box) ==
  CASE c.c = "id" -> {box}
    [] c.c = "integer" -> {PruneInteger(box)}
    [] c.c = "fwdbwd" -> PruneFwdBwd(c.f, box)
    [] c.c = "polytope" -> PrunePolytope(c.fs, box)
    [] c.c = "acid" -> PruneAcid(c.fs, box)
    [] c.c = "forall" -> PruneForall(c, box)
=============================================================================
