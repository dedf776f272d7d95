-------------------------- MODULE NarrowingProofs --------------------------
(***************************************************************************)
(* The search over boxes of a theory check, proved for every problem,      *)
(* every finite set of expressions and formulas, every start box and every *)
(* setting: what folds and recursive functions compute, what a contractor  *)
(* does to a box, what an evaluator says of one, and the invariants of the *)
(* search.  At the end the search over an exists-forall formula, ForallCegis.*)
(***************************************************************************)
EXTENDS Narrowing, ForallCegis, FiniteSetTheorems, WellFoundedInduction, TLAPS

-----------------------------------------------------------------------------
(* Induction over finite sets, expressions and formulas *)

\* A nonempty set of natural numbers has a least one.
LEMMA LeastNatural ==
  ASSUME NEW T \in SUBSET Nat, T # {}
  PROVE  \E n \in T : \A m \in T : n <= m
<1> DEFINE R == OpToRel(<, Nat)
<1>1. IsWellFoundedOn(R, Nat)
  BY NatLessThanWellFounded
<1>2. \A a, b \in Nat : a < b => <<a, b>> \in R
  BY DEF OpToRel
<1> HIDE DEF R
<1>3. PICK n \in T : \A m \in T : ~ (<<m, n>> \in R)
  BY <1>1, WFMin
<1>4. \A m \in T : ~ (m < n)
  BY <1>2, <1>3
<1> QED BY <1>4

\* What holds of every subset whose proper subsets it holds of.
LEMMA SubsetInduction ==
  ASSUME NEW S, IsFiniteSet(S), NEW T,
         \A D \in SUBSET S : (\A E \in SUBSET D : E # D => E \in T) => D \in T
  PROVE  SUBSET S \subseteq T
<1> DEFINE R == StrictSubsetOrdering(S)
           Rest == (SUBSET S) \ T
<1>1. IsWellFoundedOn(R, SUBSET S)
  BY FS_StrictSubsetOrderingWellFounded, FS_FiniteSubsetsOfFinite
<1>2. \A D, E \in SUBSET S : D \subseteq E /\ D # E => <<D, E>> \in R
  BY DEF StrictSubsetOrdering
<1> HIDE DEF R
<1> SUFFICES ASSUME Rest # {} PROVE FALSE
  OBVIOUS
<1>3. Rest \subseteq SUBSET S
  OBVIOUS
<1>4. PICK D \in Rest : \A E \in Rest : ~ (<<E, D>> \in R)
  <2> HIDE DEF Rest
  <2> QED BY <1>1, <1>3, WFMin
<1>5. D \in SUBSET S /\ D \notin T
  BY <1>4
<1>6. ASSUME NEW E \in SUBSET D, E # D, E \notin T
      PROVE  FALSE
  <2>1. E \in Rest
    BY <1>5, <1>6
  <2>2. <<E, D>> \in R
    BY <1>2, <1>5, <1>6
  <2> QED BY <1>4, <2>1, <2>2
<1>7. D \in T
  BY <1>5, <1>6
<1> QED BY <1>5, <1>7

\* Taking out the element that CHOOSE names leaves a smaller set.
LEMMA ChosenOut ==
  ASSUME NEW D, D # {}
  PROVE  /\ (CHOOSE x \in D : TRUE) \in D
         /\ D \ {CHOOSE x \in D : TRUE} \in SUBSET D
         /\ D \ {CHOOSE x \in D : TRUE} # D
  OBVIOUS

\* A function into the natural numbers is bounded on a finite set.
LEMMA BoundedOnFinite ==
  ASSUME NEW S, IsFiniteSet(S), NEW h \in [S -> Nat]
  PROVE  \E n \in Nat : \A x \in S : h[x] < n
<1> DEFINE T == {D \in SUBSET S : \E n \in Nat : \A x \in D : h[x] < n}
<1>1. ASSUME NEW D \in SUBSET S, \A E \in SUBSET D : E # D => E \in T
      PROVE  D \in T
  <2>1. CASE D = {}
    BY <2>1
  <2>2. CASE D # {}
    <3> DEFINE x == CHOOSE y \in D : TRUE
    <3>1. x \in D /\ D \ {x} \in T
      BY <1>1, <2>2
    <3>2. PICK n \in Nat : \A y \in D \ {x} : h[y] < n
      BY <3>1
    <3> HIDE DEF x
    <3>3. \E k \in Nat : n <= k /\ h[x] < k
      <4>1. CASE h[x] < n
        BY <4>1
      <4>2. CASE ~ (h[x] < n)
        <5> h[x] \in Nat
          BY <3>1
        <5> h[x] + 1 \in Nat /\ n <= h[x] + 1 /\ h[x] < h[x] + 1
          BY <4>2
        <5> QED OBVIOUS
      <4> QED BY <4>1, <4>2
    <3>4. PICK k \in Nat : n <= k /\ h[x] < k
      BY <3>3
    <3>5. \A y \in D : h[y] < k
      BY <3>2, <3>4
    <3> QED BY <3>5
  <2> QED BY <2>1, <2>2
<1> HIDE DEF T
<1>2. SUBSET S \subseteq T
  BY <1>1, SubsetInduction
<1> QED BY <1>2 DEF T

\* What holds at zero and is passed on holds of every natural number.
LEMMA NatSetInduction ==
  ASSUME NEW T, 0 \in T, \A n \in Nat : n \in T => n + 1 \in T
  PROVE  Nat \subseteq T
<1> DEFINE Rest == Nat \ T
<1> SUFFICES ASSUME Rest # {} PROVE FALSE
  OBVIOUS
<1>1. PICK n \in Rest : \A m \in Rest : n <= m
  <2>1. Rest \in SUBSET Nat
    OBVIOUS
  <2> HIDE DEF Rest
  <2> QED BY <2>1, LeastNatural
<1>2. n \in Nat /\ n # 0
  BY <1>1
<1>3. n - 1 \in Nat /\ n - 1 + 1 = n
  BY <1>2
<1>4. n - 1 \in T
  BY <1>1, <1>3
<1> QED BY <1>1, <1>3, <1>4

\* What holds of an expression when it holds of its operands.
LEMMA ExprInduction ==
  ASSUME NEW T, \A e \in Expr : Operands(e) \subseteq T => e \in T
  PROVE  Expr \subseteq T
<1> DEFINE Low == {n \in Nat : \A e \in Expr : Height[e] < n => e \in T}
<1>1. 0 \in Low
  BY ExprAssumption
<1>2. ASSUME NEW n \in Nat, n \in Low PROVE n + 1 \in Low
  <2>1. ASSUME NEW e \in Expr, Height[e] < n + 1 PROVE e \in T
    <3>1. \A x \in Operands(e) : x \in Expr /\ Height[x] < n
      BY <2>1, ExprAssumption
    <3>2. Operands(e) \subseteq T
      BY <1>2, <3>1
    <3> QED BY <3>2
  <2> QED BY <2>1
<1> HIDE DEF Low
<1>3. Nat \subseteq Low
  BY <1>1, <1>2, NatSetInduction
<1>4. ASSUME NEW e \in Expr PROVE e \in T
  <2>1. Height[e] + 1 \in Nat /\ Height[e] < Height[e] + 1
    BY ExprAssumption
  <2> QED BY <1>3, <2>1 DEF Low
<1> QED BY <1>4

\* The heights of the expressions have a bound.
LEMMA ExprBounded == \E n \in Nat : \A e \in Expr : Height[e] < n
<1> DEFINE h == [e \in Expr |-> Height[e]]
<1>1. IsFiniteSet(Expr) /\ h \in [Expr -> Nat]
  BY ExprAssumption
<1>2. \E n \in Nat : \A e \in Expr : h[e] < n
  <2> HIDE DEF h
  <2> QED BY <1>1, BoundedOnFinite
<1> QED BY <1>2

-----------------------------------------------------------------------------
(* The recursive functions satisfy their equations *)

ExprBelow(n) == {e \in Expr : Height[e] < n}

\* The expressions less high than n: they hold their operands, and n + 1 adds those of height
\* n.
LEMMA ExprBelowFacts ==
  /\ ExprBelow(0) = {}
  /\ \A n \in Nat : \A e \in ExprBelow(n + 1) : Operands(e) \subseteq ExprBelow(n)
  /\ \A n \in Nat : ExprBelow(n) \subseteq ExprBelow(n + 1)
  /\ \E n \in Nat : ExprBelow(n) = Expr
<1>1. ExprBelow(0) = {}
  BY ExprAssumption DEF ExprBelow
<1>2. ASSUME NEW n \in Nat, NEW e \in ExprBelow(n + 1), NEW x \in Operands(e)
      PROVE  x \in ExprBelow(n)
  <2>1. e \in Expr /\ Height[e] < n + 1
    BY DEF ExprBelow
  <2>2. x \in Expr /\ Height[x] < Height[e] /\ Height[x] \in Nat /\ Height[e] \in Nat
    BY <2>1, ExprAssumption
  <2> QED BY <2>1, <2>2 DEF ExprBelow
<1>3. \A n \in Nat : ExprBelow(n) \subseteq ExprBelow(n + 1)
  BY ExprAssumption DEF ExprBelow
<1>4. \E n \in Nat : ExprBelow(n) = Expr
  BY ExprBounded DEF ExprBelow
<1> QED BY <1>1, <1>2, <1>3, <1>4

\* VarsOf collects the variables of a node from those of its operands.
LEMMA VarsOfEquation ==
  \A e \in Expr : VarsOf(e) = IF IsVariable(e) THEN {e.v} ELSE UNION {VarsOf(x) : x \in Operands(e)}
<1> DEFINE StepOf(f, e) == IF IsVariable(e) THEN {e.v} ELSE UNION {f[x] : x \in Operands(e)}
           T == {n \in Nat : \E f : f = [e \in ExprBelow(n) |-> StepOf(f, e)]}
<1>1. 0 \in T
  <2>1. [e \in ExprBelow(0) |-> {}] = [e \in ExprBelow(0) |-> StepOf([x \in ExprBelow(0) |-> {}], e)]
    BY ExprBelowFacts
  <2> QED BY <2>1
<1>2. ASSUME NEW n \in Nat, n \in T PROVE n + 1 \in T
  <2>1. PICK f : f = [e \in ExprBelow(n) |-> StepOf(f, e)]
    BY <1>2
  <2> DEFINE g == [e \in ExprBelow(n + 1) |-> StepOf(f, e)]
  <2>2. \A x \in ExprBelow(n) : g[x] = f[x]
    BY <2>1, ExprBelowFacts
  <2>3. ASSUME NEW e \in ExprBelow(n + 1) PROVE g[e] = StepOf(g, e)
    <3>1. g[e] = StepOf(f, e)
      OBVIOUS
    <3>2. \A x \in Operands(e) : g[x] = f[x]
      BY <2>2, ExprBelowFacts
    <3> HIDE DEF g
    <3>3. {g[x] : x \in Operands(e)} = {f[x] : x \in Operands(e)}
      BY <3>2
    <3> QED BY <3>1, <3>3
  <2>4. g = [e \in ExprBelow(n + 1) |-> g[e]]
    OBVIOUS
  <2>5. g = [e \in ExprBelow(n + 1) |-> StepOf(g, e)]
    <3> HIDE DEF g
    <3> QED BY <2>3, <2>4
  <2>6. \E k : k = [e \in ExprBelow(n + 1) |-> StepOf(k, e)]
    <3> HIDE DEF g
    <3> QED BY <2>5
  <2> QED BY <2>6
<1> HIDE DEF T
<1>3. Nat \subseteq T
  BY <1>1, <1>2, NatSetInduction
<1>4. \E f : f = [e \in Expr |-> StepOf(f, e)]
  <2>1. PICK n \in Nat : ExprBelow(n) = Expr
    BY ExprBelowFacts
  <2>2. PICK f : f = [e \in ExprBelow(n) |-> StepOf(f, e)]
    BY <1>3, <2>1 DEF T
  <2> QED BY <2>1, <2>2
<1> DEFINE v == CHOOSE f : f = [e \in Expr |-> StepOf(f, e)]
<1>5. v = [e \in Expr |-> StepOf(v, e)]
  BY <1>4
<1>6. \A e : VarsOf(e) = v[e]
  BY DEF VarsOf
<1> HIDE DEF v
<1> QED BY <1>5, <1>6, ExprAssumption

\* ExactValue is the value of a node from those of its operands.
LEMMA ExactValueEquation ==
  ASSUME NEW p
  PROVE  \A e \in Expr : ExactValue(e, p) = ValueOf(e, p, [x \in Operands(e) |-> ExactValue(x, p)])
<1> DEFINE StepOf(f, e) == ValueOf(e, p, [x \in Operands(e) |-> f[x]])
           T == {n \in Nat : \E f : f = [e \in ExprBelow(n) |-> StepOf(f, e)]}
<1> HIDE DEF StepOf, T
<1>1. 0 \in T
  <2>1. [e \in ExprBelow(0) |-> {}] = [e \in ExprBelow(0) |-> StepOf([x \in ExprBelow(0) |-> {}], e)]
    BY ExprBelowFacts
  <2> QED BY <2>1 DEF T
<1>2. ASSUME NEW n \in Nat, n \in T PROVE n + 1 \in T
  <2>1. PICK f : f = [e \in ExprBelow(n) |-> StepOf(f, e)]
    BY <1>2 DEF T
  <2> DEFINE g == [e \in ExprBelow(n + 1) |-> StepOf(f, e)]
  <2>2. \A x \in ExprBelow(n) : g[x] = f[x]
    BY <2>1, ExprBelowFacts
  <2>3. ASSUME NEW e \in ExprBelow(n + 1) PROVE g[e] = StepOf(g, e)
    <3>1. g[e] = StepOf(f, e)
      OBVIOUS
    <3>2. \A x \in Operands(e) : g[x] = f[x]
      BY <2>2, ExprBelowFacts
    <3> HIDE DEF g
    <3>3. [x \in Operands(e) |-> g[x]] = [x \in Operands(e) |-> f[x]]
      BY <3>2
    <3> QED BY <3>1, <3>3 DEF StepOf
  <2>4. g = [e \in ExprBelow(n + 1) |-> g[e]]
    OBVIOUS
  <2>5. g = [e \in ExprBelow(n + 1) |-> StepOf(g, e)]
    <3> HIDE DEF g
    <3> QED BY <2>3, <2>4
  <2>6. \E k : k = [e \in ExprBelow(n + 1) |-> StepOf(k, e)]
    <3> HIDE DEF g
    <3> QED BY <2>5
  <2> QED BY <2>6 DEF T
<1>3. Nat \subseteq T
  BY <1>1, <1>2, NatSetInduction
<1>4. \E f : f = [e \in Expr |-> StepOf(f, e)]
  <2>1. PICK n \in Nat : ExprBelow(n) = Expr
    BY ExprBelowFacts
  <2>2. PICK f : f = [e \in ExprBelow(n) |-> StepOf(f, e)]
    BY <1>3, <2>1 DEF T
  <2> QED BY <2>1, <2>2
<1> DEFINE v == CHOOSE f : f = [e \in Expr |-> StepOf(f, e)]
<1>5. v = [e \in Expr |-> StepOf(v, e)]
  BY <1>4
<1>6. \A e : ExactValue(e, p) = v[e]
  BY DEF ExactValue, StepOf
<1> HIDE DEF v
<1> SUFFICES ASSUME NEW e \in Expr
             PROVE  v[e] = ValueOf(e, p, [x \in Operands(e) |-> ExactValue(x, p)])
  BY <1>6
<1>7. [x \in Operands(e) |-> v[x]] = [x \in Operands(e) |-> ExactValue(x, p)]
  BY <1>6
<1>8. v[e] = StepOf(v, e)
  BY <1>5
<1> QED BY <1>7, <1>8 DEF StepOf

\* Evaluate is the interval of a node from those of its operands
\* (ExpressionEvaluator::Visit).
LEMMA EvaluateEquation ==
  ASSUME NEW bx
  PROVE  \A e \in Expr : Evaluate(e, bx) = EvaluateNode(e, bx, [x \in Operands(e) |-> Evaluate(x, bx)])
<1> DEFINE StepOf(f, e) == EvaluateNode(e, bx, [x \in Operands(e) |-> f[x]])
           T == {n \in Nat : \E f : f = [e \in ExprBelow(n) |-> StepOf(f, e)]}
<1> HIDE DEF StepOf, T
<1>1. 0 \in T
  <2>1. [e \in ExprBelow(0) |-> {}] = [e \in ExprBelow(0) |-> StepOf([x \in ExprBelow(0) |-> {}], e)]
    BY ExprBelowFacts
  <2> QED BY <2>1 DEF T
<1>2. ASSUME NEW n \in Nat, n \in T PROVE n + 1 \in T
  <2>1. PICK f : f = [e \in ExprBelow(n) |-> StepOf(f, e)]
    BY <1>2 DEF T
  <2> DEFINE g == [e \in ExprBelow(n + 1) |-> StepOf(f, e)]
  <2>2. \A x \in ExprBelow(n) : g[x] = f[x]
    BY <2>1, ExprBelowFacts
  <2>3. ASSUME NEW e \in ExprBelow(n + 1) PROVE g[e] = StepOf(g, e)
    <3>1. g[e] = StepOf(f, e)
      OBVIOUS
    <3>2. \A x \in Operands(e) : g[x] = f[x]
      BY <2>2, ExprBelowFacts
    <3> HIDE DEF g
    <3>3. [x \in Operands(e) |-> g[x]] = [x \in Operands(e) |-> f[x]]
      BY <3>2
    <3> QED BY <3>1, <3>3 DEF StepOf
  <2>4. g = [e \in ExprBelow(n + 1) |-> g[e]]
    OBVIOUS
  <2>5. g = [e \in ExprBelow(n + 1) |-> StepOf(g, e)]
    <3> HIDE DEF g
    <3> QED BY <2>3, <2>4
  <2>6. \E k : k = [e \in ExprBelow(n + 1) |-> StepOf(k, e)]
    <3> HIDE DEF g
    <3> QED BY <2>5
  <2> QED BY <2>6 DEF T
<1>3. Nat \subseteq T
  BY <1>1, <1>2, NatSetInduction
<1>4. \E f : f = [e \in Expr |-> StepOf(f, e)]
  <2>1. PICK n \in Nat : ExprBelow(n) = Expr
    BY ExprBelowFacts
  <2>2. PICK f : f = [e \in ExprBelow(n) |-> StepOf(f, e)]
    BY <1>3, <2>1 DEF T
  <2> QED BY <2>1, <2>2
<1> DEFINE v == CHOOSE f : f = [e \in Expr |-> StepOf(f, e)]
<1>5. v = [e \in Expr |-> StepOf(v, e)]
  BY <1>4
<1>6. \A e : Evaluate(e, bx) = v[e]
  BY DEF Evaluate, StepOf
<1> HIDE DEF v
<1> SUFFICES ASSUME NEW e \in Expr
             PROVE  v[e] = EvaluateNode(e, bx, [x \in Operands(e) |-> Evaluate(x, bx)])
  BY <1>6
<1>7. [x \in Operands(e) |-> v[x]] = [x \in Operands(e) |-> Evaluate(x, bx)]
  BY <1>6
<1>8. v[e] = StepOf(v, e)
  BY <1>5
<1> QED BY <1>7, <1>8 DEF StepOf

\* ConvertExpression is what ibex makes of a node from its operands (IbexConverter::Visit).
LEMMA ConvertEquation ==
  ASSUME NEW p
  PROVE  \A e \in Expr : ConvertExpression(e, p) = ConvertNode(e, p, [x \in Operands(e) |-> ConvertExpression(x, p)])
<1> DEFINE StepOf(f, e) == ConvertNode(e, p, [x \in Operands(e) |-> f[x]])
           T == {n \in Nat : \E f : f = [e \in ExprBelow(n) |-> StepOf(f, e)]}
<1> HIDE DEF StepOf, T
<1>1. 0 \in T
  <2>1. [e \in ExprBelow(0) |-> {}] = [e \in ExprBelow(0) |-> StepOf([x \in ExprBelow(0) |-> {}], e)]
    BY ExprBelowFacts
  <2> QED BY <2>1 DEF T
<1>2. ASSUME NEW n \in Nat, n \in T PROVE n + 1 \in T
  <2>1. PICK f : f = [e \in ExprBelow(n) |-> StepOf(f, e)]
    BY <1>2 DEF T
  <2> DEFINE g == [e \in ExprBelow(n + 1) |-> StepOf(f, e)]
  <2>2. \A x \in ExprBelow(n) : g[x] = f[x]
    BY <2>1, ExprBelowFacts
  <2>3. ASSUME NEW e \in ExprBelow(n + 1) PROVE g[e] = StepOf(g, e)
    <3>1. g[e] = StepOf(f, e)
      OBVIOUS
    <3>2. \A x \in Operands(e) : g[x] = f[x]
      BY <2>2, ExprBelowFacts
    <3> HIDE DEF g
    <3>3. [x \in Operands(e) |-> g[x]] = [x \in Operands(e) |-> f[x]]
      BY <3>2
    <3> QED BY <3>1, <3>3 DEF StepOf
  <2>4. g = [e \in ExprBelow(n + 1) |-> g[e]]
    OBVIOUS
  <2>5. g = [e \in ExprBelow(n + 1) |-> StepOf(g, e)]
    <3> HIDE DEF g
    <3> QED BY <2>3, <2>4
  <2>6. \E k : k = [e \in ExprBelow(n + 1) |-> StepOf(k, e)]
    <3> HIDE DEF g
    <3> QED BY <2>5
  <2> QED BY <2>6 DEF T
<1>3. Nat \subseteq T
  BY <1>1, <1>2, NatSetInduction
<1>4. \E f : f = [e \in Expr |-> StepOf(f, e)]
  <2>1. PICK n \in Nat : ExprBelow(n) = Expr
    BY ExprBelowFacts
  <2>2. PICK f : f = [e \in ExprBelow(n) |-> StepOf(f, e)]
    BY <1>3, <2>1 DEF T
  <2> QED BY <2>1, <2>2
<1> DEFINE v == CHOOSE f : f = [e \in Expr |-> StepOf(f, e)]
<1>5. v = [e \in Expr |-> StepOf(v, e)]
  BY <1>4
<1>6. \A e : ConvertExpression(e, p) = v[e]
  BY DEF ConvertExpression, StepOf
<1> HIDE DEF v
<1> SUFFICES ASSUME NEW e \in Expr
             PROVE  v[e] = ConvertNode(e, p, [x \in Operands(e) |-> ConvertExpression(x, p)])
  BY <1>6
<1>7. [x \in Operands(e) |-> v[x]] = [x \in Operands(e) |-> ConvertExpression(x, p)]
  BY <1>6
<1>8. v[e] = StepOf(v, e)
  BY <1>5
<1> QED BY <1>7, <1>8 DEF StepOf

\* What the instance's formulas are built of.
LEMMA BodyDepths ==
  /\ IsFiniteSet(Body)
  /\ \A f \in Body : Depth[f] \in Nat
  /\ \A f \in Body : \A g \in Children(f) : g \in Body /\ Depth[g] < Depth[f]
<1>1. IsFiniteSet(Body)
  BY BodyAssumption
<1>2. ASSUME NEW f \in Body PROVE Depth[f] \in Nat
  BY BodyAssumption
<1>3. ASSUME NEW f \in Body, NEW g \in Children(f) PROVE g \in Body /\ Depth[g] < Depth[f]
  BY BodyAssumption
<1> QED BY <1>1, <1>2, <1>3

\* The kinds of formulas a body is built of.
LEMMA BodyKinds == \A f \in Body : f.k \in {"true", "false", "rel", "not", "and", "or"}
  BY BodyAssumption

-----------------------------------------------------------------------------
(* The same for the formulas *)

\* What holds of a formula when it holds of its children.
LEMMA BodyInduction ==
  ASSUME NEW T, \A e \in Body : Children(e) \subseteq T => e \in T
  PROVE  Body \subseteq T
<1> DEFINE Low == {n \in Nat : \A e \in Body : Depth[e] < n => e \in T}
<1>1. 0 \in Low
  BY BodyDepths
<1>2. ASSUME NEW n \in Nat, n \in Low PROVE n + 1 \in Low
  <2>1. ASSUME NEW e \in Body, Depth[e] < n + 1 PROVE e \in T
    <3>1. \A x \in Children(e) : x \in Body /\ Depth[x] < n
      BY <2>1, BodyDepths
    <3>2. Children(e) \subseteq T
      BY <1>2, <3>1
    <3> QED BY <3>2
  <2> QED BY <2>1
<1> HIDE DEF Low
<1>3. Nat \subseteq Low
  BY <1>1, <1>2, NatSetInduction
<1>4. ASSUME NEW e \in Body PROVE e \in T
  <2>1. Depth[e] + 1 \in Nat /\ Depth[e] < Depth[e] + 1
    BY BodyDepths
  <2> QED BY <1>3, <2>1 DEF Low
<1> QED BY <1>4

\* The depths of the formulas have a bound.
LEMMA BodyBounded == \E n \in Nat : \A e \in Body : Depth[e] < n
<1> DEFINE h == [e \in Body |-> Depth[e]]
<1>1. IsFiniteSet(Body) /\ h \in [Body -> Nat]
  BY BodyDepths
<1>2. \E n \in Nat : \A e \in Body : h[e] < n
  <2> HIDE DEF h
  <2> QED BY <1>1, BoundedOnFinite
<1> QED BY <1>2

BodyBelow(n) == {e \in Body : Depth[e] < n}

\* The formulas less deep than n: they hold their operands, and n + 1 adds those of depth n.
LEMMA BodyBelowFacts ==
  /\ BodyBelow(0) = {}
  /\ \A n \in Nat : \A e \in BodyBelow(n + 1) : Children(e) \subseteq BodyBelow(n)
  /\ \A n \in Nat : BodyBelow(n) \subseteq BodyBelow(n + 1)
  /\ \E n \in Nat : BodyBelow(n) = Body
<1>1. BodyBelow(0) = {}
  BY BodyDepths DEF BodyBelow
<1>2. ASSUME NEW n \in Nat, NEW e \in BodyBelow(n + 1), NEW x \in Children(e)
      PROVE  x \in BodyBelow(n)
  <2>1. e \in Body /\ Depth[e] < n + 1
    BY DEF BodyBelow
  <2>2. x \in Body /\ Depth[x] < Depth[e] /\ Depth[x] \in Nat /\ Depth[e] \in Nat
    BY <2>1, BodyDepths
  <2> QED BY <2>1, <2>2 DEF BodyBelow
<1>3. \A n \in Nat : BodyBelow(n) \subseteq BodyBelow(n + 1)
  BY BodyDepths DEF BodyBelow
<1>4. \E n \in Nat : BodyBelow(n) = Body
  BY BodyBounded DEF BodyBelow
<1> QED BY <1>1, <1>2, <1>3, <1>4

\* HoldsAt is what a formula says from what its operands say.
LEMMA HoldsAtEquation ==
  ASSUME NEW p
  PROVE  \A e \in Body : HoldsAt(e, p) = Says(e, p, [h \in Children(e) |-> HoldsAt(h, p)])
<1> DEFINE StepOf(f, e) == Says(e, p, [h \in Children(e) |-> f[h]])
           T == {n \in Nat : \E f : f = [e \in BodyBelow(n) |-> StepOf(f, e)]}
<1> HIDE DEF StepOf, T
<1>1. 0 \in T
  <2>1. [e \in BodyBelow(0) |-> {}] = [e \in BodyBelow(0) |-> StepOf([x \in BodyBelow(0) |-> {}], e)]
    BY BodyBelowFacts
  <2> QED BY <2>1 DEF T
<1>2. ASSUME NEW n \in Nat, n \in T PROVE n + 1 \in T
  <2>1. PICK f : f = [e \in BodyBelow(n) |-> StepOf(f, e)]
    BY <1>2 DEF T
  <2> DEFINE g == [e \in BodyBelow(n + 1) |-> StepOf(f, e)]
  <2>2. \A x \in BodyBelow(n) : g[x] = f[x]
    BY <2>1, BodyBelowFacts
  <2>3. ASSUME NEW e \in BodyBelow(n + 1) PROVE g[e] = StepOf(g, e)
    <3>1. g[e] = StepOf(f, e)
      OBVIOUS
    <3>2. \A x \in Children(e) : g[x] = f[x]
      BY <2>2, BodyBelowFacts
    <3> HIDE DEF g
    <3>3. StepOf(g, e) = StepOf(f, e)
      <4>1. [h \in Children(e) |-> g[h]] = [h \in Children(e) |-> f[h]]
        BY <3>2
      <4> QED BY <4>1 DEF StepOf
    <3> QED BY <3>1, <3>3
  <2>4. g = [e \in BodyBelow(n + 1) |-> g[e]]
    OBVIOUS
  <2>5. g = [e \in BodyBelow(n + 1) |-> StepOf(g, e)]
    <3> HIDE DEF g
    <3> QED BY <2>3, <2>4
  <2>6. \E k : k = [e \in BodyBelow(n + 1) |-> StepOf(k, e)]
    <3> HIDE DEF g
    <3> QED BY <2>5
  <2> QED BY <2>6 DEF T
<1>3. Nat \subseteq T
  BY <1>1, <1>2, NatSetInduction
<1>4. \E f : f = [e \in Body |-> StepOf(f, e)]
  <2>1. PICK n \in Nat : BodyBelow(n) = Body
    BY BodyBelowFacts
  <2>2. PICK f : f = [e \in BodyBelow(n) |-> StepOf(f, e)]
    BY <1>3, <2>1 DEF T
  <2> QED BY <2>1, <2>2
<1> DEFINE v == CHOOSE f : f = [e \in Body |-> StepOf(f, e)]
<1>5. v = [e \in Body |-> StepOf(v, e)]
  BY <1>4
<1>6. \A e : HoldsAt(e, p) = v[e]
  BY DEF HoldsAt, StepOf
<1> HIDE DEF v
<1> SUFFICES ASSUME NEW e \in Body
             PROVE  v[e] = Says(e, p, [h \in Children(e) |-> HoldsAt(h, p)])
  BY <1>6
<1>7. [h \in Children(e) |-> v[h]] = [h \in Children(e) |-> HoldsAt(h, p)]
  BY <1>6
<1>8. v[e] = StepOf(v, e)
  BY <1>5
<1> QED BY <1>7, <1>8 DEF StepOf

\* Relations collects the relations of a formula from those of its operands.
LEMMA RelationsEquation ==
  \A e \in Body : Relations(e) = IF e.k = "rel" THEN {e} ELSE UNION {Relations(h) : h \in Children(e)}
<1> DEFINE StepOf(f, e) == IF e.k = "rel" THEN {e} ELSE UNION {f[h] : h \in Children(e)}
           T == {n \in Nat : \E f : f = [e \in BodyBelow(n) |-> StepOf(f, e)]}
<1> HIDE DEF StepOf, T
<1>1. 0 \in T
  <2>1. [e \in BodyBelow(0) |-> {}] = [e \in BodyBelow(0) |-> StepOf([x \in BodyBelow(0) |-> {}], e)]
    BY BodyBelowFacts
  <2> QED BY <2>1 DEF T
<1>2. ASSUME NEW n \in Nat, n \in T PROVE n + 1 \in T
  <2>1. PICK f : f = [e \in BodyBelow(n) |-> StepOf(f, e)]
    BY <1>2 DEF T
  <2> DEFINE g == [e \in BodyBelow(n + 1) |-> StepOf(f, e)]
  <2>2. \A x \in BodyBelow(n) : g[x] = f[x]
    BY <2>1, BodyBelowFacts
  <2>3. ASSUME NEW e \in BodyBelow(n + 1) PROVE g[e] = StepOf(g, e)
    <3>1. g[e] = StepOf(f, e)
      OBVIOUS
    <3>2. \A x \in Children(e) : g[x] = f[x]
      BY <2>2, BodyBelowFacts
    <3> HIDE DEF g
    <3>3. StepOf(g, e) = StepOf(f, e)
      <4>1. {g[h] : h \in Children(e)} = {f[h] : h \in Children(e)}
        BY <3>2
      <4> QED BY <4>1 DEF StepOf
    <3> QED BY <3>1, <3>3
  <2>4. g = [e \in BodyBelow(n + 1) |-> g[e]]
    OBVIOUS
  <2>5. g = [e \in BodyBelow(n + 1) |-> StepOf(g, e)]
    <3> HIDE DEF g
    <3> QED BY <2>3, <2>4
  <2>6. \E k : k = [e \in BodyBelow(n + 1) |-> StepOf(k, e)]
    <3> HIDE DEF g
    <3> QED BY <2>5
  <2> QED BY <2>6 DEF T
<1>3. Nat \subseteq T
  BY <1>1, <1>2, NatSetInduction
<1>4. \E f : f = [e \in Body |-> StepOf(f, e)]
  <2>1. PICK n \in Nat : BodyBelow(n) = Body
    BY BodyBelowFacts
  <2>2. PICK f : f = [e \in BodyBelow(n) |-> StepOf(f, e)]
    BY <1>3, <2>1 DEF T
  <2> QED BY <2>1, <2>2
<1> DEFINE v == CHOOSE f : f = [e \in Body |-> StepOf(f, e)]
<1>5. v = [e \in Body |-> StepOf(v, e)]
  BY <1>4
<1>6. \A e : Relations(e) = v[e]
  BY DEF Relations, StepOf
<1> HIDE DEF v
<1> SUFFICES ASSUME NEW e \in Body
             PROVE  v[e] = IF e.k = "rel" THEN {e} ELSE UNION {v[h] : h \in Children(e)}
  BY <1>6
<1> QED BY <1>5 DEF StepOf

\* BodyAllows follows the conjunctions and disjunctions of a body down to its literals.
LEMMA BodyAllowsEquation ==
  ASSUME NEW p
  PROVE  \A e \in Body :
    BodyAllows(e, p) = CASE e.k = "and" -> \A h \in e.s : BodyAllows(h, p)
                         [] e.k = "or"  -> \E h \in e.s : BodyAllows(h, p)
                         [] OTHER -> Allows(Convert(e), p)
<1> DEFINE StepOf(f, e) == CASE e.k = "and" -> \A h \in e.s : f[h]
                   [] e.k = "or"  -> \E h \in e.s : f[h]
                   [] OTHER -> Allows(Convert(e), p)
           T == {n \in Nat : \E f : f = [e \in BodyBelow(n) |-> StepOf(f, e)]}
<1> HIDE DEF StepOf, T
<1>1. 0 \in T
  <2>1. [e \in BodyBelow(0) |-> {}] = [e \in BodyBelow(0) |-> StepOf([x \in BodyBelow(0) |-> {}], e)]
    BY BodyBelowFacts
  <2> QED BY <2>1 DEF T
<1>2. ASSUME NEW n \in Nat, n \in T PROVE n + 1 \in T
  <2>1. PICK f : f = [e \in BodyBelow(n) |-> StepOf(f, e)]
    BY <1>2 DEF T
  <2> DEFINE g == [e \in BodyBelow(n + 1) |-> StepOf(f, e)]
  <2>2. \A x \in BodyBelow(n) : g[x] = f[x]
    BY <2>1, BodyBelowFacts
  <2>3. ASSUME NEW e \in BodyBelow(n + 1) PROVE g[e] = StepOf(g, e)
    <3>1. g[e] = StepOf(f, e)
      OBVIOUS
    <3>2. \A x \in Children(e) : g[x] = f[x]
      BY <2>2, BodyBelowFacts
    <3> HIDE DEF g
    <3>3. StepOf(g, e) = StepOf(f, e)
      <4>1. e \in Body /\ e.k \in {"true", "false", "rel", "not", "and", "or"}
        BY BodyKinds DEF BodyBelow
      <4>2. e.k = "not" => g[e.f] = f[e.f]
        BY <3>2 DEF Children
      <4>3. e.k \in {"and", "or"} => \A h \in e.s : g[h] = f[h]
        BY <3>2 DEF Children
      <4> QED BY <4>1, <4>3 DEF StepOf
    <3> QED BY <3>1, <3>3
  <2>4. g = [e \in BodyBelow(n + 1) |-> g[e]]
    OBVIOUS
  <2>5. g = [e \in BodyBelow(n + 1) |-> StepOf(g, e)]
    <3> HIDE DEF g
    <3> QED BY <2>3, <2>4
  <2>6. \E k : k = [e \in BodyBelow(n + 1) |-> StepOf(k, e)]
    <3> HIDE DEF g
    <3> QED BY <2>5
  <2> QED BY <2>6 DEF T
<1>3. Nat \subseteq T
  BY <1>1, <1>2, NatSetInduction
<1>4. \E f : f = [e \in Body |-> StepOf(f, e)]
  <2>1. PICK n \in Nat : BodyBelow(n) = Body
    BY BodyBelowFacts
  <2>2. PICK f : f = [e \in BodyBelow(n) |-> StepOf(f, e)]
    BY <1>3, <2>1 DEF T
  <2> QED BY <2>1, <2>2
<1> DEFINE v == CHOOSE f : f = [e \in Body |-> StepOf(f, e)]
<1>5. v = [e \in Body |-> StepOf(v, e)]
  BY <1>4
<1>6. \A e : BodyAllows(e, p) = v[e]
  BY DEF BodyAllows, StepOf
<1> HIDE DEF v
<1> SUFFICES ASSUME NEW e \in Body
             PROVE  v[e] = CASE e.k = "and" -> \A h \in e.s : v[h]
                   [] e.k = "or"  -> \E h \in e.s : v[h]
                   [] OTHER -> Allows(Convert(e), p)
  BY <1>6
<1> QED BY <1>5 DEF StepOf

\* Nnf pushes a negation one level down (Nnfizer::Visit).
LEMMA NnfEquation ==
  \A e \in Body : \A pos \in BOOLEAN :
    Nnf(e, pos) = CASE e.k = "not" -> Nnf(e.f, ~pos)
                    [] e.k = "and" -> IF pos THEN AndF({Nnf(h, TRUE) : h \in e.s}) ELSE OrF({Nnf(h, FALSE) : h \in e.s})
                    [] e.k = "or"  -> IF pos THEN OrF({Nnf(h, TRUE) : h \in e.s}) ELSE AndF({Nnf(h, FALSE) : h \in e.s})
                    [] e.k = "rel" -> IF pos THEN e ELSE Rel(NegateRelop(e.op), e.l, e.r)
                    [] OTHER -> IF pos THEN e ELSE NotF(e)
<1> DEFINE StepOf(f, e) == [pos \in BOOLEAN |->
             CASE e.k = "not" -> f[e.f][~pos]
               [] e.k = "and" -> IF pos THEN AndF({f[h][pos] : h \in e.s}) ELSE OrF({f[h][pos] : h \in e.s})
               [] e.k = "or"  -> IF pos THEN OrF({f[h][pos] : h \in e.s}) ELSE AndF({f[h][pos] : h \in e.s})
               [] e.k = "rel" -> IF pos THEN e ELSE Rel(NegateRelop(e.op), e.l, e.r)
               [] OTHER -> IF pos THEN e ELSE NotF(e)]
           T == {n \in Nat : \E f : f = [e \in BodyBelow(n) |-> StepOf(f, e)]}
<1> HIDE DEF StepOf, T
<1>1. 0 \in T
  <2>1. [e \in BodyBelow(0) |-> {}] = [e \in BodyBelow(0) |-> StepOf([x \in BodyBelow(0) |-> {}], e)]
    BY BodyBelowFacts
  <2> QED BY <2>1 DEF T
<1>2. ASSUME NEW n \in Nat, n \in T PROVE n + 1 \in T
  <2>1. PICK f : f = [e \in BodyBelow(n) |-> StepOf(f, e)]
    BY <1>2 DEF T
  <2> DEFINE g == [e \in BodyBelow(n + 1) |-> StepOf(f, e)]
  <2>2. \A x \in BodyBelow(n) : g[x] = f[x]
    BY <2>1, BodyBelowFacts
  <2>3. ASSUME NEW e \in BodyBelow(n + 1) PROVE g[e] = StepOf(g, e)
    <3>1. g[e] = StepOf(f, e)
      OBVIOUS
    <3>2. \A x \in Children(e) : g[x] = f[x]
      BY <2>2, BodyBelowFacts
    <3> HIDE DEF g
    <3>3. StepOf(g, e) = StepOf(f, e)
      <4>1. e \in Body /\ e.k \in {"true", "false", "rel", "not", "and", "or"}
        BY BodyKinds DEF BodyBelow
      <4>2. e.k = "not" => g[e.f] = f[e.f]
        BY <3>2 DEF Children
      <4>3. e.k \in {"and", "or"} => \A h \in e.s : g[h] = f[h]
        BY <3>2 DEF Children
      <4>4. \A pos \in BOOLEAN : e.k \in {"and", "or"} => {g[h][pos] : h \in e.s} = {f[h][pos] : h \in e.s}
        BY <4>3
      <4> QED BY <4>1, <4>2, <4>4 DEF StepOf
    <3> QED BY <3>1, <3>3
  <2>4. g = [e \in BodyBelow(n + 1) |-> g[e]]
    OBVIOUS
  <2>5. g = [e \in BodyBelow(n + 1) |-> StepOf(g, e)]
    <3> HIDE DEF g
    <3> QED BY <2>3, <2>4
  <2>6. \E k : k = [e \in BodyBelow(n + 1) |-> StepOf(k, e)]
    <3> HIDE DEF g
    <3> QED BY <2>5
  <2> QED BY <2>6 DEF T
<1>3. Nat \subseteq T
  BY <1>1, <1>2, NatSetInduction
<1>4. \E f : f = [e \in Body |-> StepOf(f, e)]
  <2>1. PICK n \in Nat : BodyBelow(n) = Body
    BY BodyBelowFacts
  <2>2. PICK f : f = [e \in BodyBelow(n) |-> StepOf(f, e)]
    BY <1>3, <2>1 DEF T
  <2> QED BY <2>1, <2>2
<1> DEFINE v == CHOOSE f : f = [e \in Body |-> StepOf(f, e)]
<1>5. v = [e \in Body |-> StepOf(v, e)]
  BY <1>4
<1>6. \A e, pos : Nnf(e, pos) = v[e][pos]
  BY DEF Nnf, StepOf
<1> HIDE DEF v
<1> TAKE e \in Body, pos \in BOOLEAN
<1>7. /\ {v[h][TRUE] : h \in e.s} = {Nnf(h, TRUE) : h \in e.s}
      /\ {v[h][FALSE] : h \in e.s} = {Nnf(h, FALSE) : h \in e.s}
      /\ v[e.f][~pos] = Nnf(e.f, ~pos)
  BY <1>6
<1>8. v[e] = StepOf(v, e) /\ Nnf(e, pos) = v[e][pos]
  BY <1>5, <1>6
<1>9. CASE pos = TRUE
  BY <1>7, <1>8, <1>9 DEF StepOf
<1>10. CASE pos = FALSE
  BY <1>7, <1>8, <1>10 DEF StepOf
<1> QED BY <1>9, <1>10

-----------------------------------------------------------------------------
(* Folds over finite sets *)

\* What is left when the first element of D is taken out.
Removed(D) == IF D = {} THEN {} ELSE {D \ {CHOOSE x \in D : TRUE}}

SubsetsBelow(S, n) == {D \in SUBSET S : Cardinality(D) < n}

\* The subsets of fewer than n elements: those of fewer than n + 1 lose one element to become
\* one.
LEMMA SubsetsBelowFacts ==
  ASSUME NEW S, IsFiniteSet(S)
  PROVE  /\ SubsetsBelow(S, 0) = {}
         /\ \A n \in Nat : \A D \in SubsetsBelow(S, n + 1) : Removed(D) \subseteq SubsetsBelow(S, n)
         /\ \A n \in Nat : SubsetsBelow(S, n) \subseteq SubsetsBelow(S, n + 1)
         /\ \E n \in Nat : SubsetsBelow(S, n) = SUBSET S
<1>1. \A D \in SUBSET S : IsFiniteSet(D) /\ Cardinality(D) \in Nat /\ Cardinality(D) <= Cardinality(S)
  BY FS_Subset, FS_CardinalityType
<1>2. Cardinality(S) \in Nat
  BY FS_CardinalityType
<1>3. SubsetsBelow(S, 0) = {}
  BY <1>1 DEF SubsetsBelow
<1>4. ASSUME NEW n \in Nat, NEW D \in SubsetsBelow(S, n + 1), NEW E \in Removed(D)
      PROVE  E \in SubsetsBelow(S, n)
  <2>1. D \in SUBSET S /\ Cardinality(D) < n + 1
    BY DEF SubsetsBelow
  <2>2. D # {} /\ E = D \ {CHOOSE x \in D : TRUE}
    BY DEF Removed
  <2>3. PICK x \in D : E = D \ {x}
    BY <2>2
  <2>4. IsFiniteSet(D)
    BY <1>1, <2>1
  <2>5. Cardinality(E) = Cardinality(D) - 1
    BY <2>3, <2>4, FS_RemoveElement
  <2> QED BY <1>1, <2>1, <2>3, <2>5 DEF SubsetsBelow
<1>5. \A n \in Nat : SubsetsBelow(S, n) \subseteq SubsetsBelow(S, n + 1)
  BY <1>1 DEF SubsetsBelow
<1>6. Cardinality(S) + 1 \in Nat /\ SubsetsBelow(S, Cardinality(S) + 1) = SUBSET S
  BY <1>1, <1>2 DEF SubsetsBelow
<1> QED BY <1>3, <1>4, <1>5, <1>6

IsFold(f, step, base, S) ==
  /\ f[{}] = base
  /\ \A D \in SUBSET S :
       D # {} => f[D] = step[CHOOSE x \in D : TRUE][f[D \ {CHOOSE x \in D : TRUE}]]

\* The fold of S is the value at S of a function that satisfies the equation.
LEMMA FoldedEquation ==
  ASSUME NEW step, NEW base, NEW S, IsFiniteSet(S)
  PROVE  \E f : IsFold(f, step, base, S) /\ Folded(step, base, S) = f[S]
<1> DEFINE StepOf(f, e) == IF e = {} THEN base
                         ELSE step[CHOOSE x \in e : TRUE][f[e \ {CHOOSE x \in e : TRUE}]]
           T == {n \in Nat : \E f : f = [e \in SubsetsBelow(S, n) |-> StepOf(f, e)]}
<1> HIDE DEF StepOf, T
<1>1. 0 \in T
  <2>1. [e \in SubsetsBelow(S, 0) |-> {}] = [e \in SubsetsBelow(S, 0) |-> StepOf([x \in SubsetsBelow(S, 0) |-> {}], e)]
    BY SubsetsBelowFacts
  <2> QED BY <2>1 DEF T
<1>2. ASSUME NEW n \in Nat, n \in T PROVE n + 1 \in T
  <2>1. PICK f : f = [e \in SubsetsBelow(S, n) |-> StepOf(f, e)]
    BY <1>2 DEF T
  <2> DEFINE g == [e \in SubsetsBelow(S, n + 1) |-> StepOf(f, e)]
  <2>2. \A x \in SubsetsBelow(S, n) : g[x] = f[x]
    BY <2>1, SubsetsBelowFacts
  <2>3. ASSUME NEW e \in SubsetsBelow(S, n + 1) PROVE g[e] = StepOf(g, e)
    <3>1. g[e] = StepOf(f, e)
      OBVIOUS
    <3>2. \A x \in Removed(e) : g[x] = f[x]
      BY <2>2, SubsetsBelowFacts
    <3> HIDE DEF g
    <3>3. e # {} => g[e \ {CHOOSE x \in e : TRUE}] = f[e \ {CHOOSE x \in e : TRUE}]
      BY <3>2 DEF Removed
    <3> QED BY <3>1, <3>3 DEF StepOf
  <2>4. g = [e \in SubsetsBelow(S, n + 1) |-> g[e]]
    OBVIOUS
  <2>5. g = [e \in SubsetsBelow(S, n + 1) |-> StepOf(g, e)]
    <3> HIDE DEF g
    <3> QED BY <2>3, <2>4
  <2>6. \E k : k = [e \in SubsetsBelow(S, n + 1) |-> StepOf(k, e)]
    <3> HIDE DEF g
    <3> QED BY <2>5
  <2> QED BY <2>6 DEF T
<1>3. Nat \subseteq T
  BY <1>1, <1>2, NatSetInduction
<1>4. \E f : f = [e \in SUBSET S |-> StepOf(f, e)]
  <2>1. PICK n \in Nat : SubsetsBelow(S, n) = SUBSET S
    BY SubsetsBelowFacts
  <2>2. PICK f : f = [e \in SubsetsBelow(S, n) |-> StepOf(f, e)]
    BY <1>3, <2>1 DEF T
  <2> QED BY <2>1, <2>2
<1> DEFINE v == CHOOSE f : f = [e \in SUBSET S |-> StepOf(f, e)]
<1>5. v = [e \in SUBSET S |-> StepOf(v, e)]
  BY <1>4
<1>6. Folded(step, base, S) = v[S]
  BY DEF Folded, StepOf
<1> HIDE DEF v
<1>7. v[{}] = base
  BY <1>5 DEF StepOf
<1>8. \A D \in SUBSET S :
        D # {} => v[D] = step[CHOOSE x \in D : TRUE][v[D \ {CHOOSE x \in D : TRUE}]]
  BY <1>5 DEF StepOf
<1>9. IsFold(v, step, base, S)
  BY <1>7, <1>8 DEF IsFold
<1> QED BY <1>6, <1>9

\* The fold of the empty set, and of a set with one element more.
LEMMA FoldedEmpty ==
  ASSUME NEW step, NEW base
  PROVE  Folded(step, base, {}) = base
<1>1. IsFiniteSet({})
  BY FS_EmptySet
<1>2. PICK f : IsFold(f, step, base, {}) /\ Folded(step, base, {}) = f[{}]
  BY <1>1, FoldedEquation
<1> QED BY <1>2 DEF IsFold

\* A fold over a set that is not empty ends with the element that was chosen out of it.
LEMMA FoldedStep ==
  ASSUME NEW step, NEW base, NEW S, IsFiniteSet(S), S # {}
  PROVE  LET x == CHOOSE y \in S : TRUE
         IN  Folded(step, base, S) = step[x][Folded(step, base, S \ {x})]
<1> DEFINE x == CHOOSE y \in S : TRUE
           R == S \ {x}
<1>1. IsFiniteSet(R) /\ R \in SUBSET S
  BY FS_Subset
<1>2. PICK f : IsFold(f, step, base, S) /\ Folded(step, base, S) = f[S]
  BY FoldedEquation
<1>3. PICK g : IsFold(g, step, base, R) /\ Folded(step, base, R) = g[R]
  <2> HIDE DEF R
  <2> QED BY <1>1, FoldedEquation
<1> DEFINE T == {D \in SUBSET R : f[D] = g[D]}
<1>4. ASSUME NEW D \in SUBSET R, \A E \in SUBSET D : E # D => E \in T
      PROVE  D \in T
  <2>1. CASE D = {}
    BY <1>2, <1>3, <2>1 DEF IsFold
  <2>2. CASE D # {}
    <3>1. D \ {CHOOSE y \in D : TRUE} \in T
      BY <1>4, <2>2
    <3>2. /\ f[D] = step[CHOOSE y \in D : TRUE][f[D \ {CHOOSE y \in D : TRUE}]]
          /\ g[D] = step[CHOOSE y \in D : TRUE][g[D \ {CHOOSE y \in D : TRUE}]]
      BY <1>1, <1>2, <1>3, <2>2 DEF IsFold
    <3> QED BY <3>1, <3>2
  <2> QED BY <2>1, <2>2
<1>5. R \in T
  <2> HIDE DEF T, R
  <2> QED BY <1>1, <1>4, SubsetInduction
<1>6. f[R] = g[R]
  <2> HIDE DEF R
  <2> QED BY <1>5
<1>7. f[S] = step[x][f[R]]
  BY <1>2 DEF IsFold
<1> QED BY <1>2, <1>3, <1>6, <1>7

\* The prunings of the formulas of a body, for the boxes over V.
PruneNode(prune, e, b, polytope) ==
  CASE e.k = "and" -> PruneConjunction([h \in e.s |-> prune[h]], e.s, b, polytope)
    [] e.k = "or"  -> PruneDisjunction([h \in e.s |-> prune[h]], e.s, b)
    [] OTHER -> NarrowTo(b, AllowedBy({e}, b))
ArePrunings(prune, V, polytope) ==
  /\ \A f, b : DOMAIN b = V => PruneBody(f, b, polytope) = prune[f][b]
  /\ \A e \in Body : \A b \in BoxesOver(V) : prune[e][b] = PruneNode(prune, e, b, polytope)

\* The prunings of the formulas of a body satisfy the equation of their
\* definition.
LEMMA PruneBodyEquation ==
  ASSUME NEW V, NEW polytope
  PROVE  \E prune : ArePrunings(prune, V, polytope)
<1> DEFINE StepOf(f, e) == [b \in BoxesOver(V) |-> PruneNode(f, e, b, polytope)]
           T == {n \in Nat : \E f : f = [e \in BodyBelow(n) |-> StepOf(f, e)]}
<1> HIDE DEF StepOf, T
<1>1. 0 \in T
  <2>1. [e \in BodyBelow(0) |-> {}] = [e \in BodyBelow(0) |-> StepOf([x \in BodyBelow(0) |-> {}], e)]
    BY BodyBelowFacts
  <2> QED BY <2>1 DEF T
<1>2. ASSUME NEW n \in Nat, n \in T PROVE n + 1 \in T
  <2>1. PICK f : f = [e \in BodyBelow(n) |-> StepOf(f, e)]
    BY <1>2 DEF T
  <2> DEFINE g == [e \in BodyBelow(n + 1) |-> StepOf(f, e)]
  <2>2. \A x \in BodyBelow(n) : g[x] = f[x]
    BY <2>1, BodyBelowFacts
  <2>3. ASSUME NEW e \in BodyBelow(n + 1) PROVE g[e] = StepOf(g, e)
    <3>1. g[e] = StepOf(f, e)
      OBVIOUS
    <3>2. \A x \in Children(e) : g[x] = f[x]
      BY <2>2, BodyBelowFacts
    <3> HIDE DEF g
    <3>3. StepOf(g, e) = StepOf(f, e)
      <4>1. e.k \in {"and", "or"} => [h \in e.s |-> g[h]] = [h \in e.s |-> f[h]]
        BY <3>2 DEF Children
      <4> QED BY <4>1 DEF StepOf, PruneNode
    <3> QED BY <3>1, <3>3
  <2>4. g = [e \in BodyBelow(n + 1) |-> g[e]]
    OBVIOUS
  <2>5. g = [e \in BodyBelow(n + 1) |-> StepOf(g, e)]
    <3> HIDE DEF g
    <3> QED BY <2>3, <2>4
  <2>6. \E k : k = [e \in BodyBelow(n + 1) |-> StepOf(k, e)]
    <3> HIDE DEF g
    <3> QED BY <2>5
  <2> QED BY <2>6 DEF T
<1>3. Nat \subseteq T
  BY <1>1, <1>2, NatSetInduction
<1>4. \E f : f = [e \in Body |-> StepOf(f, e)]
  <2>1. PICK n \in Nat : BodyBelow(n) = Body
    BY BodyBelowFacts
  <2>2. PICK f : f = [e \in BodyBelow(n) |-> StepOf(f, e)]
    BY <1>3, <2>1 DEF T
  <2> QED BY <2>1, <2>2
<1> DEFINE v == CHOOSE f : f = [e \in Body |-> StepOf(f, e)]
<1>5. v = [e \in Body |-> StepOf(v, e)]
  BY <1>4
<1>6. ASSUME NEW e, NEW b, DOMAIN b = V PROVE PruneBody(e, b, polytope) = v[e][b]
  BY <1>6 DEF PruneBody, StepOf, PruneNode
<1> HIDE DEF v
<1>7. \A e \in Body : v[e] = StepOf(v, e)
  BY <1>5
<1>8. \A e \in Body : \A b \in BoxesOver(V) : v[e][b] = PruneNode(v, e, b, polytope)
  BY <1>7 DEF StepOf
<1>9. ArePrunings(v, V, polytope)
  BY <1>6, <1>8 DEF ArePrunings
<1> QED BY <1>9

-----------------------------------------------------------------------------
(* Bounds and boxes *)

\* The bounds of the boxes of a check are doubles between -Infinity and
\* Infinity.
IsBound(n) == n \in Int /\ n % 2 = 0 /\ -Infinity <= n /\ n <= Infinity
IsBox(b, V) ==
  /\ b = [v \in V |-> b[v]]
  /\ \A v \in V : b[v] = [lo |-> b[v].lo, hi |-> b[v].hi] /\ IsBound(b[v].lo) /\ IsBound(b[v].hi)

\* The box a is no larger than b.
Within(a, b) == \A v \in DOMAIN b : b[v].lo <= a[v].lo /\ a[v].hi <= b[v].hi

\* A box of all of bs is no larger than b and has the points of P that b has.
Prunes(bs, b, P) ==
  \A a \in bs : IsBox(a, DOMAIN b) /\ Within(a, b) /\ \A p \in P : IsIn(b, p) => IsIn(a, p)

\* Infinity is a bound, and an integer one.
LEMMA InfinityFacts == Infinity \in Nat /\ Infinity % 4 = 0 /\ Infinity % 2 = 0 /\ (-Infinity) % 2 = 0 /\ (-Infinity) % 4 = 0
BY ReachAssumption DEF Infinity

\* Rounding to doubles.
LEMMA DownUp ==
  ASSUME NEW x \in Int
  PROVE  /\ Down(x) \in Int /\ Down(x) % 2 = 0 /\ Down(x) <= x /\ x <= Down(x) + 1
         /\ Up(x) \in Int /\ Up(x) % 2 = 0 /\ x <= Up(x) /\ Up(x) <= x + 1
         /\ \A e \in Int : e % 2 = 0 => (e <= x => e <= Down(x)) /\ (x <= e => Up(x) <= e)
BY DEF Down, Up

\* Rounding to integers, which are multiples of four.
LEMMA FloorCeil ==
  ASSUME NEW x \in Int
  PROVE  /\ Floor(x) \in Int /\ Floor(x) % 4 = 0 /\ Floor(x) % 2 = 0 /\ Floor(x) <= x /\ x <= Floor(x) + 3
         /\ Ceil(x) \in Int /\ Ceil(x) % 4 = 0 /\ Ceil(x) % 2 = 0 /\ x <= Ceil(x) /\ Ceil(x) <= x + 3
         /\ \A m \in Int : m % 4 = 0 => (m <= x => m <= Floor(x)) /\ (x <= m => Ceil(x) <= m)
<1>1. \A n \in Int : Floor(n) \in Int /\ Floor(n) % 4 = 0 /\ Floor(n) % 2 = 0 /\ (-Floor(n)) % 4 = 0 /\ (-Floor(n)) % 2 = 0 /\ Floor(n) <= n /\ n <= Floor(n) + 3
  BY DEF Floor
<1>2. \A m, n \in Int : m % 4 = 0 /\ m <= n => m <= Floor(n)
  BY DEF Floor
<1>3. -x \in Int /\ Ceil(x) = -Floor(-x)
  BY DEF Ceil
<1>4. \A m \in Int : m % 4 = 0 /\ x <= m => Ceil(x) <= m
  <2> TAKE m \in Int
  <2> HAVE m % 4 = 0 /\ x <= m
  <2>1. -m \in Int /\ (-m) % 4 = 0 /\ -m <= -x
    OBVIOUS
  <2>2. -m <= Floor(-x)
    BY <1>2, <1>3, <2>1
  <2>3. Floor(-x) \in Int
    BY <1>1, <1>3
  <2> QED BY <1>3, <2>2, <2>3
<1>5. Ceil(x) \in Int /\ Ceil(x) % 4 = 0 /\ Ceil(x) % 2 = 0 /\ x <= Ceil(x) /\ Ceil(x) <= x + 3
  BY <1>1, <1>3
<1> QED BY <1>1, <1>2, <1>4, <1>5

\* Least and Greatest of a nonempty set of numbers between two others.
LEMMA LeastGreatest ==
  ASSUME NEW l \in Int, NEW h \in Int, NEW S \in SUBSET (l .. h), S # {}
  PROVE  /\ Least(S) \in S /\ \A x \in S : Least(S) <= x
         /\ Greatest(S) \in S /\ \A x \in S : x <= Greatest(S)
<1>1. \E x \in S : \A y \in S : x <= y
  <2> DEFINE D == {x - l : x \in S}
  <2>1. D \in SUBSET Nat /\ D # {}
    OBVIOUS
  <2>2. PICK n \in D : \A m \in D : n <= m
    <3> HIDE DEF D
    <3> QED BY <2>1, LeastNatural
  <2>3. PICK x \in S : n = x - l
    BY <2>2
  <2>4. \A y \in S : x - l <= y - l
    BY <2>2, <2>3
  <2>5. \A y \in S : x <= y
    BY <2>4
  <2> QED BY <2>5
<1>2. \E x \in S : \A y \in S : y <= x
  <2> DEFINE D == {h - x : x \in S}
  <2>1. D \in SUBSET Nat /\ D # {}
    OBVIOUS
  <2>2. PICK n \in D : \A m \in D : n <= m
    <3> HIDE DEF D
    <3> QED BY <2>1, LeastNatural
  <2>3. PICK x \in S : n = h - x
    BY <2>2
  <2>4. \A y \in S : h - x <= h - y
    BY <2>2, <2>3
  <2>5. \A y \in S : y <= x
    BY <2>4
  <2> QED BY <2>5
<1> QED BY <1>1, <1>2 DEF Least, Greatest

\* The hull of points between two bounds has them all and is between these.
LEMMA HullFacts ==
  ASSUME NEW l, NEW h, IsBound(l), IsBound(h), NEW S \in SUBSET (l .. h), S # {}
  PROVE  /\ Hull(S) \in Intervals /\ IsBound(Hull(S).lo) /\ IsBound(Hull(S).hi)
         /\ l <= Hull(S).lo /\ Hull(S).hi <= h
         /\ \A x \in S : Contains(Hull(S), x)
<1>1. l \in Int /\ h \in Int /\ l % 2 = 0 /\ h % 2 = 0 /\ -Infinity <= l /\ h <= Infinity /\ Infinity \in Nat
  BY InfinityFacts DEF IsBound
<1> DEFINE a == Least(S)
           c == Greatest(S)
<1>2. a \in S /\ a \in l .. h /\ (\A x \in S : a <= x) /\ c \in l .. h /\ (\A x \in S : x <= c)
  BY <1>1, LeastGreatest
<1>3. Hull(S) = [lo |-> Down(a), hi |-> Up(c)]
  BY DEF Hull, Interval
<1> HIDE DEF a, c
<1>4. a \in Int /\ c \in Int /\ l <= a /\ c <= h /\ a <= c
  BY <1>1, <1>2
<1>5. Down(a) \in Int /\ Down(a) % 2 = 0 /\ Down(a) <= a /\ l <= Down(a) /\ Up(c) \in Int /\ Up(c) % 2 = 0 /\ c <= Up(c) /\ Up(c) <= h
  BY <1>1, <1>4, DownUp
<1>6. Down(a) <= Infinity /\ -Infinity <= Up(c)
  BY <1>1, <1>4, <1>5
<1> QED BY <1>1, <1>2, <1>3, <1>4, <1>5, <1>6 DEF Intervals, IsBound, Contains

-----------------------------------------------------------------------------
(* The boxes a contractor may return *)

\* Boxes are functions to intervals.
LEMMA BoxType ==
  ASSUME NEW V, NEW b, IsBox(b, V)
  PROVE  b \in BoxesOver(V)
<1>1. b = [v \in V |-> b[v]] /\ \A v \in V : b[v] \in Intervals
  BY DEF IsBox, Intervals, IsBound
<1> QED BY <1>1 DEF BoxesOver

\* The empty box of a box is one, has the same variables and lies within it.
LEMMA EmptyBoxFacts ==
  ASSUME NEW V, NEW b, IsBox(b, V)
  PROVE  IsBox(EmptyBox(b), V) /\ Within(EmptyBox(b), b)
<1>1. DOMAIN b = V /\ \A v \in V : IsBound(b[v].lo) /\ IsBound(b[v].hi)
  BY DEF IsBox
<1>2. IsBound(Infinity) /\ IsBound(-Infinity)
  BY InfinityFacts DEF IsBound
<1> DEFINE a == EmptyBox(b)
<1>3. a = [v \in V |-> [lo |-> Infinity, hi |-> -Infinity]]
  BY <1>1 DEF EmptyBox, Nothing
<1> HIDE DEF a
<1>4. IsBox(a, V)
  BY <1>2, <1>3 DEF IsBox
<1>5. Within(a, b)
  BY <1>1, <1>3 DEF Within, IsBound
<1> QED BY <1>4, <1>5 DEF a

\* NarrowTo keeps the points it is told to keep.
LEMMA NarrowToPrunes ==
  ASSUME NEW V, NEW b, IsBox(b, V), NEW S \in SUBSET RealPoints(b), NEW P,
         \A p \in P : IsIn(b, p) => p \in S
  PROVE  Prunes(NarrowTo(b, S), b, P)
<1>0. /\ DOMAIN b = V /\ b = [v \in V |-> b[v]]
      /\ \A v \in V : b[v] = [lo |-> b[v].lo, hi |-> b[v].hi] /\ IsBound(b[v].lo) /\ IsBound(b[v].hi)
      /\ \A v \in V : b[v].lo \in Int /\ b[v].hi \in Int
  BY DEF IsBox, IsBound
<1>1. IsBox(b, DOMAIN b) /\ Within(b, b) /\ IsBox(EmptyBox(b), DOMAIN b) /\ Within(EmptyBox(b), b)
  <2>1. Within(b, b)
    BY <1>0 DEF Within
  <2> QED BY <1>0, <2>1, EmptyBoxFacts
<1>2. CASE IsEmptyBox(b)
  BY <1>1, <1>2 DEF NarrowTo, Prunes
<1>3. CASE ~IsEmptyBox(b) /\ S = {}
  <2>1. NarrowTo(b, S) = {b, EmptyBox(b)}
    BY <1>3 DEF NarrowTo
  <2>2. \A p \in P : ~IsIn(b, p)
    BY <1>3
  <2> QED BY <1>1, <2>1, <2>2 DEF Prunes
<1>4. CASE ~IsEmptyBox(b) /\ S # {}
  <2> DEFINE hull == [v \in DOMAIN b |-> Hull({p[v] : p \in S})]
  <2>1. ASSUME NEW v \in V
        PROVE  /\ hull[v] = [lo |-> hull[v].lo, hi |-> hull[v].hi] /\ IsBound(hull[v].lo) /\ IsBound(hull[v].hi)
               /\ b[v].lo <= hull[v].lo /\ hull[v].hi <= b[v].hi
               /\ \A p \in S : Contains(hull[v], p[v])
    <3> DEFINE S1 == {p[v] : p \in S}
               l == b[v].lo
               h == b[v].hi
    <3>1. \A p \in S : p[v] \in l .. h
      <4> TAKE p \in S
      <4>1. p \in [DOMAIN b -> UNION {b[w].lo .. b[w].hi : w \in DOMAIN b}] /\ Contains(b[v], p[v])
        BY <1>0 DEF RealPoints
      <4>2. PICK w \in V : p[v] \in b[w].lo .. b[w].hi
        BY <1>0, <4>1
      <4>3. p[v] \in Int
        BY <1>0, <4>2
      <4> QED BY <1>0, <4>1, <4>3 DEF Contains
    <3>2. S1 \in SUBSET (l .. h) /\ S1 # {}
      BY <1>4, <3>1
    <3>3. IsBound(l) /\ IsBound(h)
      BY <1>0
    <3>4. hull[v] = Hull(S1)
      BY <1>0
    <3> HIDE DEF hull
    <3>5. \A p \in S : p[v] \in S1
      OBVIOUS
    <3> HIDE DEF S1, l, h
    <3>6. /\ Hull(S1) \in Intervals /\ IsBound(Hull(S1).lo) /\ IsBound(Hull(S1).hi)
          /\ l <= Hull(S1).lo /\ Hull(S1).hi <= h
          /\ \A x \in S1 : Contains(Hull(S1), x)
      BY <3>2, <3>3, HullFacts
    <3> QED BY <3>4, <3>5, <3>6 DEF l, h, Intervals
  <2>2. ASSUME NEW a \in NarrowTo(b, S)
        PROVE  \E vs \in SUBSET DOMAIN b : a = [v \in DOMAIN b |-> IF v \in vs THEN hull[v] ELSE b[v]]
    BY <1>4 DEF NarrowTo
  <2> HIDE DEF hull
  <2>3. ASSUME NEW vs \in SUBSET V
        PROVE  LET a == [v \in V |-> IF v \in vs THEN hull[v] ELSE b[v]]
               IN  IsBox(a, V) /\ Within(a, b) /\ \A p \in P : IsIn(b, p) => IsIn(a, p)
    <3> DEFINE a == [v \in V |-> IF v \in vs THEN hull[v] ELSE b[v]]
    <3>1. a = [v \in V |-> a[v]] /\ DOMAIN a = V /\ \A v \in V : a[v] = hull[v] \/ a[v] = b[v]
      OBVIOUS
    <3> HIDE DEF a
    <3>2. IsBox(a, V)
      <4>1. \A v \in V : a[v] = [lo |-> a[v].lo, hi |-> a[v].hi] /\ IsBound(a[v].lo) /\ IsBound(a[v].hi)
        BY <1>0, <2>1, <3>1
      <4> QED BY <3>1, <4>1 DEF IsBox
    <3>3. Within(a, b)
      <4>1. ASSUME NEW v \in V PROVE b[v].lo <= a[v].lo /\ a[v].hi <= b[v].hi
        <5>1. CASE a[v] = b[v]
          BY <1>0, <5>1
        <5>2. CASE a[v] = hull[v]
          BY <2>1, <5>2
        <5> QED BY <3>1, <5>1, <5>2
      <4> QED BY <1>0, <4>1 DEF Within
    <3>4. \A p \in P : IsIn(b, p) => IsIn(a, p)
      <4>1. \A p \in P : IsIn(b, p) => \A v \in V : Contains(a[v], p[v])
        BY <1>0, <1>4, <2>1, <3>1 DEF IsIn
      <4> QED BY <3>1, <4>1 DEF IsIn
    <3> QED BY <3>2, <3>3, <3>4 DEF a
  <2>4. ASSUME NEW a \in NarrowTo(b, S)
        PROVE  IsBox(a, V) /\ Within(a, b) /\ \A p \in P : IsIn(b, p) => IsIn(a, p)
    <3>0. PICK vs \in SUBSET DOMAIN b : a = [v \in DOMAIN b |-> IF v \in vs THEN hull[v] ELSE b[v]]
      BY <2>2
    <3>1. vs \in SUBSET V /\ a = [v \in V |-> IF v \in vs THEN hull[v] ELSE b[v]]
      BY <1>0, <3>0
    <3> QED BY <2>3, <3>1
  <2> QED BY <1>0, <2>4 DEF Prunes
<1> QED BY <1>2, <1>3, <1>4

\* A box with its integer variables rounded.
Rounded(b) == \A v \in DOMAIN b : IsInteger(v) => b[v].lo % 4 = 0 /\ b[v].hi % 4 = 0

\* The integer contractor keeps the points where integers are integers.
LEMMA PruneIntegerPrunes ==
  ASSUME NEW V, NEW b, IsBox(b, V), NEW P,
         \A p \in P : \A v \in V : p[v] \in Int /\ (IsInteger(v) => p[v] % 4 = 0)
  PROVE  /\ Prunes({PruneInteger(b)}, b, P)
         /\ ~IsEmptyBox(PruneInteger(b)) => Rounded(PruneInteger(b))
<1>0. /\ DOMAIN b = V /\ b = [v \in V |-> b[v]]
      /\ \A v \in V : b[v] = [lo |-> b[v].lo, hi |-> b[v].hi] /\ IsBound(b[v].lo) /\ IsBound(b[v].hi)
      /\ \A v \in V : b[v].lo \in Int /\ b[v].hi \in Int
  BY DEF IsBox, IsBound
<1>1. IsBox(b, DOMAIN b) /\ Within(b, b) /\ IsBox(EmptyBox(b), DOMAIN b) /\ Within(EmptyBox(b), b)
  <2>1. Within(b, b)
    BY <1>0 DEF Within
  <2> QED BY <1>0, <2>1, EmptyBoxFacts
<1>2. CASE IsEmptyBox(b)
  <2>1. PruneInteger(b) = b
    BY <1>2 DEF PruneInteger
  <2> QED BY <1>1, <1>2, <2>1 DEF Prunes
<1>3. CASE ~IsEmptyBox(b)
  <2> DEFINE a == [v \in V |-> IF IsInteger(v) THEN Interval(Ceil(b[v].lo), Floor(b[v].hi)) ELSE b[v]]
  <2>1. PruneInteger(b) = IF IsEmptyBox(a) THEN EmptyBox(b) ELSE a
    BY <1>0, <1>3 DEF PruneInteger
  <2>2. a = [v \in V |-> a[v]]
    OBVIOUS
  <2>3. \A v \in V : a[v] = IF IsInteger(v) THEN [lo |-> Ceil(b[v].lo), hi |-> Floor(b[v].hi)] ELSE b[v]
    BY DEF Interval
  <2> HIDE DEF a
  <2>4. ASSUME NEW v \in V, IsInteger(v)
        PROVE  /\ a[v] = [lo |-> a[v].lo, hi |-> a[v].hi] /\ IsBound(a[v].lo) /\ IsBound(a[v].hi)
               /\ a[v].lo % 4 = 0 /\ a[v].hi % 4 = 0 /\ b[v].lo <= a[v].lo /\ a[v].hi <= b[v].hi
               /\ \A n \in Int : n % 4 = 0 /\ Contains(b[v], n) => Contains(a[v], n)
    <3> DEFINE l == b[v].lo
               h == b[v].hi
    <3>1. l \in Int /\ h \in Int /\ IsBound(l) /\ IsBound(h)
      BY <1>0
    <3>2. a[v].lo = Ceil(l) /\ a[v].hi = Floor(h) /\ a[v] = [lo |-> Ceil(l), hi |-> Floor(h)]
      BY <2>3, <2>4
    <3>3. b[v].lo = l /\ b[v].hi = h
      OBVIOUS
    <3> HIDE DEF l, h
    <3>4. /\ Ceil(l) \in Int /\ Ceil(l) % 4 = 0 /\ Ceil(l) % 2 = 0 /\ l <= Ceil(l)
          /\ Floor(h) \in Int /\ Floor(h) % 4 = 0 /\ Floor(h) % 2 = 0 /\ Floor(h) <= h
          /\ \A m \in Int : m % 4 = 0 => (m <= h => m <= Floor(h)) /\ (l <= m => Ceil(l) <= m)
      BY <3>1, FloorCeil
    <3>5. Ceil(l) <= Infinity /\ -Infinity <= Floor(h)
      <4>1. -Infinity \in Int /\ Infinity \in Int
        BY InfinityFacts
      <4> QED BY <3>1, <3>4, <4>1, InfinityFacts DEF IsBound
    <3>6. IsBound(Ceil(l)) /\ IsBound(Floor(h))
      BY <3>1, <3>4, <3>5, InfinityFacts DEF IsBound
    <3> QED BY <3>1, <3>2, <3>3, <3>4, <3>6 DEF Contains
  <2>5. IsBox(a, V)
    <3>1. \A v \in V : a[v] = [lo |-> a[v].lo, hi |-> a[v].hi] /\ IsBound(a[v].lo) /\ IsBound(a[v].hi)
      BY <1>0, <2>3, <2>4
    <3> QED BY <2>2, <3>1 DEF IsBox
  <2>6. Within(a, b)
    <3>1. ASSUME NEW v \in V PROVE b[v].lo <= a[v].lo /\ a[v].hi <= b[v].hi
      <4>1. CASE IsInteger(v)
        BY <2>4, <4>1
      <4>2. CASE ~IsInteger(v)
        <5>1. a[v] = b[v]
          BY <2>3, <4>2
        <5>2. b[v].lo \in Int /\ b[v].hi \in Int
          BY <1>0
        <5> QED BY <5>1, <5>2
      <4> QED BY <4>1, <4>2
    <3> QED BY <1>0, <3>1 DEF Within
  <2>7. \A p \in P : IsIn(b, p) => IsIn(a, p)
    BY <1>0, <2>2, <2>3, <2>4 DEF IsIn
  <2>8. Rounded(a)
    BY <2>2, <2>4 DEF Rounded
  <2>9. IsEmptyBox(a) => \A p \in P : ~IsIn(b, p)
    <3> SUFFICES ASSUME NEW v \in DOMAIN a, a[v].lo > a[v].hi, NEW p \in P, IsIn(a, p) PROVE FALSE
      BY <2>7 DEF IsEmptyBox
    <3>1. v \in V /\ a[v].lo \in Int /\ a[v].hi \in Int /\ p[v] \in Int
      BY <2>2, <2>5 DEF IsBox, IsBound
    <3> QED BY <3>1 DEF IsIn, Contains
  <2>10. CASE IsEmptyBox(a)
    <3>1. ~IsEmptyBox(EmptyBox(b)) => Rounded(EmptyBox(b))
      BY InfinityFacts DEF EmptyBox, Nothing, Rounded
    <3> QED BY <1>1, <2>1, <2>9, <2>10, <3>1 DEF Prunes
  <2>11. CASE ~IsEmptyBox(a)
    BY <1>0, <2>1, <2>5, <2>6, <2>7, <2>8, <2>11 DEF Prunes
  <2> QED BY <2>10, <2>11
<1> QED BY <1>2, <1>3

\* The points over the variables in V.
Points(V) == [V -> Int]

\* A point that lies in a box is one of its points.
LEMMA InRealPoints ==
  ASSUME NEW V, NEW b, IsBox(b, V), NEW p \in Points(V), IsIn(b, p)
  PROVE  p \in RealPoints(b)
<1>0. DOMAIN b = V /\ \A v \in V : b[v].lo \in Int /\ b[v].hi \in Int
  BY DEF IsBox, IsBound
<1>1. \A v \in V : Contains(b[v], p[v]) /\ p[v] \in Int
  BY <1>0 DEF IsIn, Points
<1>2. \A v \in V : p[v] \in b[v].lo .. b[v].hi
  BY <1>0, <1>1 DEF Contains
<1>3. p \in [V -> UNION {b[v].lo .. b[v].hi : v \in V}]
  BY <1>2 DEF Points
<1> QED BY <1>0, <1>1, <1>3 DEF RealPoints

\* The points of a box are numbers.
LEMMA RealPointsType ==
  ASSUME NEW V, NEW b, IsBox(b, V), NEW p \in RealPoints(b)
  PROVE  p \in Points(V) /\ IsIn(b, p)
<1>0. DOMAIN b = V /\ \A v \in V : b[v].lo \in Int /\ b[v].hi \in Int
  BY DEF IsBox, IsBound
<1>1. p \in [V -> UNION {b[v].lo .. b[v].hi : v \in V}] /\ \A v \in V : Contains(b[v], p[v])
  BY <1>0 DEF RealPoints
<1>2. \A v \in V : p[v] \in Int
  <2> TAKE v \in V
  <2>1. PICK w \in V : p[v] \in b[w].lo .. b[w].hi
    BY <1>1
  <2> QED BY <1>0, <2>1
<1> QED BY <1>0, <1>1, <1>2 DEF Points, IsIn

\* An empty box has no points.
LEMMA EmptyHasNone ==
  ASSUME NEW V, NEW b, IsBox(b, V), NEW p \in Points(V), IsEmptyBox(b)
  PROVE  ~IsIn(b, p)
<1> SUFFICES ASSUME IsIn(b, p) PROVE FALSE
  OBVIOUS
<1>0. DOMAIN b = V /\ \A v \in V : b[v].lo \in Int /\ b[v].hi \in Int /\ p[v] \in Int
  BY DEF IsBox, IsBound, Points
<1>1. PICK v \in V : b[v].lo > b[v].hi
  BY <1>0 DEF IsEmptyBox
<1> QED BY <1>0, <1>1 DEF IsIn, Contains

\* Prunings one after the other.
LEMMA WithinTransitive ==
  ASSUME NEW V, NEW a, NEW b, NEW c, IsBox(a, V), IsBox(b, V), IsBox(c, V), Within(a, b), Within(b, c)
  PROVE  Within(a, c)
<1>1. ASSUME NEW v \in V PROVE c[v].lo <= a[v].lo /\ a[v].hi <= c[v].hi
  <2>1. /\ a[v].lo \in Int /\ a[v].hi \in Int /\ b[v].lo \in Int /\ b[v].hi \in Int
        /\ c[v].lo \in Int /\ c[v].hi \in Int
    BY DEF IsBox, IsBound
  <2>2. b[v].lo <= a[v].lo /\ a[v].hi <= b[v].hi /\ c[v].lo <= b[v].lo /\ b[v].hi <= c[v].hi
    BY DEF Within, IsBox
  <2> QED BY <2>1, <2>2
<1> QED BY <1>1 DEF Within, IsBox

\* A box lies within itself.
LEMMA WithinReflexive ==
  ASSUME NEW V, NEW b, IsBox(b, V)
  PROVE  Within(b, b)
BY DEF Within, IsBox, IsBound

\* Prunings of prunings are prunings.
LEMMA PrunesTransitive ==
  ASSUME NEW V, NEW b, IsBox(b, V), NEW bs, NEW cs, NEW P, Prunes(bs, b, P),
         \A c \in cs : \E a \in bs : \E as : c \in as /\ Prunes(as, a, P)
  PROVE  Prunes(cs, b, P)
<1>0. DOMAIN b = V
  BY DEF IsBox
<1>1. ASSUME NEW c \in cs
      PROVE  IsBox(c, V) /\ Within(c, b) /\ \A p \in P : IsIn(b, p) => IsIn(c, p)
  <2>1. PICK a \in bs : \E as : c \in as /\ Prunes(as, a, P)
    OBVIOUS
  <2> PICK as : c \in as /\ Prunes(as, a, P)
    BY <2>1
  <2>2. IsBox(a, V) /\ Within(a, b) /\ \A p \in P : IsIn(b, p) => IsIn(a, p)
    BY <1>0 DEF Prunes
  <2>3. DOMAIN a = V
    BY <2>2 DEF IsBox
  <2>4. IsBox(c, V) /\ Within(c, a) /\ \A p \in P : IsIn(a, p) => IsIn(c, p)
    BY <2>1, <2>3 DEF Prunes
  <2>5. Within(c, b)
    BY <2>2, <2>4, WithinTransitive
  <2> QED BY <2>2, <2>4, <2>5
<1> QED BY <1>0, <1>1 DEF Prunes

\* A box pruned by nothing.
LEMMA PrunesNothing ==
  ASSUME NEW V, NEW b, IsBox(b, V), NEW P
  PROVE  Prunes({b}, b, P)
<1>1. DOMAIN b = V
  BY DEF IsBox
<1> QED BY <1>1, WithinReflexive DEF Prunes

\* The contractors of a conjunction keep what each of them keeps.
LEMMA PruneSeqPrunes ==
  ASSUME NEW V, NEW b, IsBox(b, V), NEW S, IsFiniteSet(S), NEW prune, NEW P,
         \A g \in S : \A a \in BoxesOver(V) : IsBox(a, V) => Prunes(prune[g][a], a, P)
  PROVE  Prunes(PruneSeq(prune, S, b), b, P)
<1> DEFINE step == [g \in S |-> [bs \in SUBSET BoxesOver(DOMAIN b) |->
                         UNION {IF IsEmptyBox(c) THEN {c} ELSE prune[g][c] : c \in bs}]]
<1>1. PruneSeq(prune, S, b) = Folded(step, {b}, S)
  BY DEF PruneSeq
<1>2. ASSUME NEW g \in S, NEW bs \in SUBSET BoxesOver(DOMAIN b), NEW c \in step[g][bs]
      PROVE  \E a \in bs : c = a \/ c \in prune[g][a]
  OBVIOUS
<1> HIDE DEF step
<1>3. PICK f : IsFold(f, step, {b}, S) /\ Folded(step, {b}, S) = f[S]
  BY FoldedEquation
<1> DEFINE T == {D \in SUBSET S : Prunes(f[D], b, P)}
<1>4. ASSUME NEW D \in SUBSET S, \A E \in SUBSET D : E # D => E \in T
      PROVE  D \in T
  <2>1. CASE D = {}
    BY <1>3, <2>1, PrunesNothing DEF IsFold
  <2>2. CASE D # {}
    <3> DEFINE x == CHOOSE y \in D : TRUE
               R == D \ {x}
    <3>1. x \in S /\ R \in T /\ R \in SUBSET S /\ f[D] = step[x][f[R]]
      BY <1>3, <1>4, <2>2 DEF IsFold
    <3> HIDE DEF x, R
    <3>2. Prunes(f[R], b, P)
      BY <3>1
    <3>3. \A a \in f[R] : IsBox(a, V)
      BY <3>2 DEF Prunes, IsBox
    <3>4. f[R] \in SUBSET BoxesOver(DOMAIN b)
      BY <3>3, BoxType DEF IsBox
    <3>5. ASSUME NEW c \in f[D]
          PROVE  \E a \in f[R] : \E as : c \in as /\ Prunes(as, a, P)
      <4>1. PICK a \in f[R] : c = a \/ c \in prune[x][a]
        BY <1>2, <3>1, <3>4
      <4>2. IsBox(a, V) /\ a \in BoxesOver(V)
        BY <3>3, BoxType
      <4>3. Prunes({a}, a, P) /\ Prunes(prune[x][a], a, P)
        BY <3>1, <4>2, PrunesNothing
      <4> QED BY <4>1, <4>3
    <3> QED BY <3>2, <3>5, PrunesTransitive
  <2> QED BY <2>1, <2>2
<1> HIDE DEF T
<1>5. S \in T
  BY <1>4, SubsetInduction
<1> QED BY <1>1, <1>3, <1>5 DEF T

\* The smallest box around two has the points of either.
LEMMA UnionBoxFacts ==
  ASSUME NEW V, NEW a, NEW b, NEW c, IsBox(a, V), IsBox(b, V), IsBox(c, V), Within(a, c), Within(b, c)
  PROVE  /\ IsBox(UnionBox(a, b), V) /\ Within(UnionBox(a, b), c)
         /\ \A p \in Points(V) : IsIn(a, p) \/ IsIn(b, p) => IsIn(UnionBox(a, b), p)
<1>1. CASE IsEmptyBox(a)
  BY <1>1, EmptyHasNone DEF UnionBox
<1>2. CASE IsEmptyBox(b) /\ ~IsEmptyBox(a)
  BY <1>2, EmptyHasNone DEF UnionBox
<1>3. CASE ~IsEmptyBox(a) /\ ~IsEmptyBox(b)
  <2> DEFINE u == [v \in V |-> Interval(Smaller(a[v].lo, b[v].lo), Larger(a[v].hi, b[v].hi))]
  <2>1. UnionBox(a, b) = u
    BY <1>3 DEF UnionBox, IsBox
  <2>2. u = [v \in V |-> u[v]]
    OBVIOUS
  <2>3. ASSUME NEW v \in V
        PROVE  /\ u[v] = [lo |-> u[v].lo, hi |-> u[v].hi]
               /\ IsBound(u[v].lo) /\ IsBound(u[v].hi)
               /\ c[v].lo <= u[v].lo /\ u[v].hi <= c[v].hi
               /\ \A n \in Int : Contains(a[v], n) \/ Contains(b[v], n) => Contains(u[v], n)
    <3>1. u[v] = [lo |-> Smaller(a[v].lo, b[v].lo), hi |-> Larger(a[v].hi, b[v].hi)]
      BY DEF Interval
    <3>2. /\ IsBound(a[v].lo) /\ IsBound(b[v].lo) /\ IsBound(a[v].hi) /\ IsBound(b[v].hi)
          /\ c[v].lo <= a[v].lo /\ c[v].lo <= b[v].lo /\ a[v].hi <= c[v].hi /\ b[v].hi <= c[v].hi
      BY DEF IsBox, Within
    <3> HIDE DEF u
    <3> QED BY <3>1, <3>2 DEF IsBound, Smaller, Larger, Contains
  <2> HIDE DEF u
  <2>4. IsBox(u, V)
    BY <2>2, <2>3 DEF IsBox
  <2>5. Within(u, c)
    BY <2>3 DEF Within, IsBox
  <2>6. \A p \in Points(V) : IsIn(a, p) \/ IsIn(b, p) => IsIn(u, p)
    BY <2>2, <2>3 DEF IsIn, Points, IsBox
  <2> QED BY <2>1, <2>4, <2>5, <2>6
<1> QED BY <1>1, <1>2, <1>3

\* The contractors of a disjunction keep what one of them keeps.
LEMMA PruneJoinPrunes ==
  ASSUME NEW V, NEW b, IsBox(b, V), NEW S, IsFiniteSet(S), NEW prune, NEW P \in SUBSET Points(V),
         \A g \in S : Prunes(prune[g][b], b, {}),
         \A p \in P : \E g \in S : Prunes(prune[g][b], b, {p})
  PROVE  Prunes(PruneJoin(prune, S, b), b, P)
<1> DEFINE step == [g \in S |-> [bs \in SUBSET BoxesOver(DOMAIN b) |->
                         {UnionBox(a, c) : a \in prune[g][b], c \in bs}]]
<1>1. PruneJoin(prune, S, b) = Folded(step, {EmptyBox(b)}, S)
  BY DEF PruneJoin
<1>2. ASSUME NEW g \in S, NEW bs \in SUBSET BoxesOver(DOMAIN b), NEW d \in step[g][bs]
      PROVE  \E a \in prune[g][b], c \in bs : d = UnionBox(a, c)
  OBVIOUS
<1> HIDE DEF step
<1>3. PICK f : IsFold(f, step, {EmptyBox(b)}, S) /\ Folded(step, {EmptyBox(b)}, S) = f[S]
  BY FoldedEquation
<1> DEFINE Kept1(D, a) == IsBox(a, V) /\ Within(a, b)
                          /\ \A p \in P : (\E g \in D : Prunes(prune[g][b], b, {p})) /\ IsIn(b, p) => IsIn(a, p)
           T == {D \in SUBSET S : \A a \in f[D] : Kept1(D, a)}
<1>4. ASSUME NEW D \in SUBSET S, \A E \in SUBSET D : E # D => E \in T
      PROVE  D \in T
  <2>1. CASE D = {}
    BY <1>3, <2>1, EmptyBoxFacts DEF IsFold
  <2>2. CASE D # {}
    <3> DEFINE x == CHOOSE y \in D : TRUE
               R == D \ {x}
    <3>0. x \in D /\ R \in SUBSET D /\ R # D
      BY <2>2
    <3>1. x \in S /\ x \in D /\ R \in T /\ R \in SUBSET S /\ f[D] = step[x][f[R]]
      <4>1. R \in T
        <5> HIDE DEF T, R
        <5> QED BY <1>4, <3>0
      <4>2. f[D] = step[x][f[R]]
        BY <1>3, <2>2 DEF IsFold
      <4> HIDE DEF T, x
      <4> QED BY <3>0, <4>1, <4>2
    <3>2. D = R \cup {x}
      BY <3>1
    <3> HIDE DEF x, R
    <3>3. \A c \in f[R] : Kept1(R, c)
      BY <3>1
    <3>4. f[R] \in SUBSET BoxesOver(DOMAIN b)
      BY <3>3, BoxType DEF IsBox
    <3>5. ASSUME NEW d \in f[D] PROVE Kept1(D, d)
      <4>1. PICK a \in prune[x][b], c \in f[R] : d = UnionBox(a, c)
        BY <1>2, <3>1, <3>4
      <4>2. IsBox(a, V) /\ Within(a, b)
        BY <3>1 DEF Prunes, IsBox
      <4>3. IsBox(c, V) /\ Within(c, b)
        BY <3>3
      <4>4. /\ IsBox(d, V) /\ Within(d, b)
            /\ \A p \in Points(V) : IsIn(a, p) \/ IsIn(c, p) => IsIn(d, p)
        BY <4>1, <4>2, <4>3, UnionBoxFacts
      <4>5. ASSUME NEW p \in P, NEW g \in D, Prunes(prune[g][b], b, {p}), IsIn(b, p)
            PROVE  IsIn(d, p)
        <5>1. CASE g = x
          <6>1. IsIn(a, p)
            BY <4>5, <5>1 DEF Prunes
          <6> QED BY <4>4, <6>1
        <5>2. CASE g # x
          <6>1. g \in R
            BY <3>2, <5>2
          <6>2. IsIn(c, p)
            BY <3>3, <4>5, <6>1
          <6> QED BY <4>4, <6>2
        <5> QED BY <5>1, <5>2
      <4> QED BY <4>4, <4>5
    <3> QED BY <3>5
  <2> QED BY <2>1, <2>2
<1> HIDE DEF T
<1>5. S \in T
  BY <1>4, SubsetInduction
<1>6. \A a \in f[S] : Kept1(S, a)
  BY <1>5 DEF T
<1>7. DOMAIN b = V
  BY DEF IsBox
<1> QED BY <1>1, <1>3, <1>6, <1>7 DEF Prunes

\* The relations of the instance and the operands of its connectives.
LEMMA BodyOperands ==
  /\ \A f \in Body : f.k \in {"and", "or"} => IsFiniteSet(f.s) /\ f.s = Children(f) /\ f.s \in SUBSET Body
  /\ \A f \in Body : f.k = "not" => f.f \in Body
  /\ \A f \in Body : Nnf(f, TRUE) \in Body /\ Nnf(f, FALSE) \in Body
<1>1. \A f \in Body : f.k \in {"and", "or"} => IsFiniteSet(f.s)
  BY BodyAssumption
<1>2. \A f \in Body : Children(f) \in SUBSET Body
  BY BodyAssumption
<1>3. \A f \in Body : Nnf(f, TRUE) \in Body /\ Nnf(f, FALSE) \in Body
  BY BodyAssumption
<1>4. \A f : f.k \in {"and", "or"} => f.s = Children(f)
  BY DEF Children
<1>5. \A f : f.k = "not" => Children(f) = {f.f}
  BY DEF Children
<1>6. \A f \in Body : f.k = "not" => f.f \in Body
  BY <1>2, <1>5
<1>7. \A f \in Body : f.k \in {"and", "or"} => IsFiniteSet(f.s) /\ f.s = Children(f) /\ f.s \in SUBSET Body
  BY <1>1, <1>2, <1>4
<1> QED BY <1>3, <1>6, <1>7

\* A contractor of relations keeps the points they allow.
LEMMA AllowedByPrunes ==
  ASSUME NEW V, NEW b, IsBox(b, V), NEW fs, NEW P \in SUBSET Points(V),
         \A p \in P : \A f \in fs : Allows(Convert(f), p)
  PROVE  Prunes(NarrowTo(b, AllowedBy(fs, b)), b, P)
<1>1. AllowedBy(fs, b) \in SUBSET RealPoints(b)
  BY DEF AllowedBy
<1>2. \A p \in P : IsIn(b, p) => p \in AllowedBy(fs, b)
  BY InRealPoints DEF AllowedBy
<1> QED BY <1>1, <1>2, NarrowToPrunes

\* The contractor of a formula in a quantified body keeps the points the
\* formula's converted relations allow.
LEMMA PruneBodyPrunes ==
  ASSUME NEW V, NEW polytope
  PROVE  \A f \in Body : \A b \in BoxesOver(V) :
           IsBox(b, V) => Prunes(PruneBody(f, b, polytope), b, {p \in Points(V) : BodyAllows(f, p)})
<1> DEFINE Allowed(f) == {p \in Points(V) : BodyAllows(f, p)}
<1>0. PICK prune : ArePrunings(prune, V, polytope)
  BY PruneBodyEquation
<1>1. /\ \A f, b : DOMAIN b = V => PruneBody(f, b, polytope) = prune[f][b]
      /\ \A e \in Body : \A b \in BoxesOver(V) :
           /\ e.k = "and" => prune[e][b] = PruneConjunction([h \in e.s |-> prune[h]], e.s, b, polytope)
           /\ e.k = "or"  => prune[e][b] = PruneDisjunction([h \in e.s |-> prune[h]], e.s, b)
           /\ e.k \notin {"and", "or"} => prune[e][b] = NarrowTo(b, AllowedBy({e}, b))
  <2>1. ASSUME NEW e \in Body, NEW b \in BoxesOver(V)
        PROVE  /\ e.k = "and" => prune[e][b] = PruneConjunction([h \in e.s |-> prune[h]], e.s, b, polytope)
               /\ e.k = "or"  => prune[e][b] = PruneDisjunction([h \in e.s |-> prune[h]], e.s, b)
               /\ e.k \notin {"and", "or"} => prune[e][b] = NarrowTo(b, AllowedBy({e}, b))
    <3>1. prune[e][b] = PruneNode(prune, e, b, polytope)
      BY <1>0 DEF ArePrunings
    <3>2. e.k = "and" => PruneNode(prune, e, b, polytope) = PruneConjunction([h \in e.s |-> prune[h]], e.s, b, polytope)
      BY DEF PruneNode
    <3>3. e.k = "or" => PruneNode(prune, e, b, polytope) = PruneDisjunction([h \in e.s |-> prune[h]], e.s, b)
      BY DEF PruneNode
    <3>4. e.k \notin {"and", "or"} => PruneNode(prune, e, b, polytope) = NarrowTo(b, AllowedBy({e}, b))
      BY DEF PruneNode
    <3> QED BY <3>1, <3>2, <3>3, <3>4
  <2>2. \A f, b : DOMAIN b = V => PruneBody(f, b, polytope) = prune[f][b]
    BY <1>0 DEF ArePrunings
  <2> QED BY <2>1, <2>2
<1> DEFINE T == {f \in Body : \A b \in BoxesOver(V) : IsBox(b, V) => Prunes(prune[f][b], b, Allowed(f))}
<1>2. ASSUME NEW f \in Body, Children(f) \subseteq T PROVE f \in T
  <2> SUFFICES ASSUME NEW b \in BoxesOver(V), IsBox(b, V)
               PROVE  Prunes(prune[f][b], b, Allowed(f))
    OBVIOUS
  <2> HIDE DEF T, Allowed
  <2>1. CASE f.k = "and"
    <3> DEFINE sub == [h \in f.s |-> prune[h]]
               relations == {g \in f.s : g.k = "rel"}
    <3>1. prune[f][b] = PruneConjunction(sub, f.s, b, polytope)
      BY <1>1, <2>1
    <3>2. IsFiniteSet(f.s) /\ f.s = Children(f) /\ f.s \in SUBSET Body
      BY <2>1, BodyOperands
    <3>3. \A p \in Allowed(f) : \A h \in f.s : BodyAllows(h, p)
      BY <2>1, BodyAllowsEquation DEF Allowed
    <3>4. ASSUME NEW g \in f.s, NEW a \in BoxesOver(V), IsBox(a, V)
          PROVE  Prunes(sub[g][a], a, Allowed(f))
      <4>1. Prunes(prune[g][a], a, Allowed(g))
        BY <1>2, <3>2, <3>4 DEF T
      <4>2. Allowed(f) \subseteq Allowed(g)
        BY <3>3 DEF Allowed
      <4> QED BY <4>1, <4>2 DEF Prunes
    <3> HIDE DEF sub
    <3>5. CASE ~polytope
      <4>1. prune[f][b] = PruneSeq(sub, f.s, b)
        BY <3>1, <3>5 DEF PruneConjunction
      <4> QED BY <3>2, <3>4, <4>1, PruneSeqPrunes
    <3>6. CASE polytope
      <4> DEFINE bs == PruneSeq(sub, f.s \ relations, b)
      <4>1. prune[f][b] = UNION {IF IsEmptyBox(c) THEN {c} ELSE NarrowTo(c, AllowedBy(relations, c)) : c \in bs}
        BY <3>1, <3>6 DEF PruneConjunction
      <4>2. Prunes(bs, b, Allowed(f))
        <5>1. IsFiniteSet(f.s \ relations)
          BY <3>2, FS_Subset
        <5>2. \A g \in f.s \ relations : \A a \in BoxesOver(V) : IsBox(a, V) => Prunes(sub[g][a], a, Allowed(f))
          BY <3>4
        <5> HIDE DEF relations
        <5> QED BY <5>1, <5>2, PruneSeqPrunes
      <4>3. ASSUME NEW p \in Allowed(f), NEW g \in relations PROVE Allows(Convert(g), p)
        <5>1. g \in Body /\ g.k = "rel" /\ BodyAllows(g, p)
          BY <3>2, <3>3
        <5> QED BY <5>1, BodyAllowsEquation
      <4>4. Allowed(f) \in SUBSET Points(V)
        BY DEF Allowed
      <4> HIDE DEF bs, relations
      <4>5. ASSUME NEW c \in prune[f][b]
            PROVE  \E a \in bs : \E as : c \in as /\ Prunes(as, a, Allowed(f))
        <5>1. PICK a \in bs : c \in IF IsEmptyBox(a) THEN {a} ELSE NarrowTo(a, AllowedBy(relations, a))
          BY <4>1
        <5>2. IsBox(a, V)
          BY <4>2 DEF Prunes, IsBox
        <5>3. Prunes({a}, a, Allowed(f)) /\ Prunes(NarrowTo(a, AllowedBy(relations, a)), a, Allowed(f))
          BY <4>3, <4>4, <5>2, PrunesNothing, AllowedByPrunes
        <5> QED BY <5>1, <5>3
      <4> QED BY <4>2, <4>5, PrunesTransitive
    <3> QED BY <3>5, <3>6
  <2>2. CASE f.k = "or"
    <3> DEFINE sub == [h \in f.s |-> prune[h]]
    <3>1. prune[f][b] = PruneJoin(sub, f.s, b)
      BY <1>1, <2>2 DEF PruneDisjunction
    <3>2. IsFiniteSet(f.s) /\ f.s = Children(f) /\ f.s \in SUBSET Body
      BY <2>2, BodyOperands
    <3>3. \A p \in Allowed(f) : p \in Points(V) /\ \E h \in f.s : BodyAllows(h, p)
      BY <2>2, BodyAllowsEquation DEF Allowed
    <3>4. \A g \in f.s : Prunes(sub[g][b], b, Allowed(g))
      BY <1>2, <3>2 DEF T
    <3> HIDE DEF sub
    <3>5. \A g \in f.s : Prunes(sub[g][b], b, {})
      BY <3>4 DEF Prunes
    <3>6. ASSUME NEW p \in Allowed(f) PROVE \E g \in f.s : Prunes(sub[g][b], b, {p})
      <4>1. PICK g \in f.s : BodyAllows(g, p)
        BY <3>3
      <4>2. p \in Allowed(g)
        BY <3>3, <4>1 DEF Allowed
      <4> QED BY <3>4, <4>2 DEF Prunes
    <3>7. Allowed(f) \in SUBSET Points(V)
      BY DEF Allowed
    <3> QED BY <3>1, <3>2, <3>5, <3>6, <3>7, PruneJoinPrunes
  <2>3. CASE f.k \notin {"and", "or"}
    <3>1. prune[f][b] = NarrowTo(b, AllowedBy({f}, b))
      BY <1>1, <2>3
    <3>2. \A p \in Allowed(f) : Allows(Convert(f), p)
      BY <2>3, BodyAllowsEquation DEF Allowed
    <3>3. Allowed(f) \in SUBSET Points(V)
      BY DEF Allowed
    <3> QED BY <3>1, <3>2, <3>3, AllowedByPrunes
  <2> QED BY <2>1, <2>2, <2>3
<1> HIDE DEF T
<1>3. Body \subseteq T
  BY <1>2, BodyInduction
<1> QED BY <1>1, <1>3 DEF T, IsBox

-----------------------------------------------------------------------------
(* AssertionFilter *)

\* The constants a relation compares with have bounds that are doubles.
IsDoubleConst(e) == IsConst(e) => e.lo \in Int /\ e.lo % 2 = 0 /\ e.hi \in Int /\ e.hi % 2 = 0
HasDoubles(f) == f.k = "rel" => IsDoubleConst(f.l) /\ IsDoubleConst(f.r)

\* Cutting the interval of a variable leaves a box that is no larger.
LEMMA NarrowFacts ==
  ASSUME NEW V, NEW b, IsBox(b, V), NEW v, NEW l \in Int, NEW h \in Int, l % 2 = 0, h % 2 = 0
  PROVE  IsBox(Narrow(b, v, l, h), V) /\ Within(Narrow(b, v, l, h), b)
<1> DEFINE lo == Larger(b[v].lo, l)
           hi == Smaller(b[v].hi, h)
<1>1. CASE lo > hi
  BY <1>1, EmptyBoxFacts DEF Narrow
<1>2. CASE ~(lo > hi) /\ v \in V
  <2>0. DOMAIN b = V /\ b[v] = [lo |-> b[v].lo, hi |-> b[v].hi] /\ IsBound(b[v].lo) /\ IsBound(b[v].hi)
    BY <1>2 DEF IsBox
  <2>1. lo \in Int /\ hi \in Int /\ lo % 2 = 0 /\ hi % 2 = 0 /\ b[v].lo <= lo /\ hi <= b[v].hi /\ lo <= hi
    BY <1>2, <2>0 DEF Larger, Smaller, IsBound
  <2>2. IsBound(lo) /\ IsBound(hi)
    <3> HIDE DEF lo, hi
    <3> QED BY <2>0, <2>1, InfinityFacts DEF IsBound
  <2>3. Narrow(b, v, l, h) = [b EXCEPT ![v] = [lo |-> lo, hi |-> hi]]
    BY <1>2 DEF Narrow
  <2> HIDE DEF lo, hi
  <2> DEFINE a == [b EXCEPT ![v] = [lo |-> lo, hi |-> hi]]
  <2>4. a = [w \in V |-> a[w]] /\ a[v] = [lo |-> lo, hi |-> hi] /\ \A w \in V : w # v => a[w] = b[w]
    BY <1>2, <2>0 DEF IsBox
  <2> HIDE DEF a
  <2>5. IsBox(a, V)
    BY <2>2, <2>4 DEF IsBox
  <2>6. ASSUME NEW w \in V PROVE b[w].lo <= a[w].lo /\ a[w].hi <= b[w].hi
    <3>1. CASE w = v
      BY <2>1, <2>4, <3>1
    <3>2. CASE w # v
      <4>1. a[w] = b[w] /\ b[w].lo \in Int /\ b[w].hi \in Int
        BY <2>4, <3>2 DEF IsBox, IsBound
      <4> QED BY <4>1
    <3> QED BY <3>1, <3>2
  <2> QED BY <2>0, <2>3, <2>5, <2>6 DEF Within, a
<1>3. CASE ~(lo > hi) /\ v \notin V
  <2>1. Narrow(b, v, l, h) = b
    BY <1>3 DEF Narrow, IsBox
  <2> QED BY <2>1, WithinReflexive
<1> QED BY <1>1, <1>2, <1>3

\* The filter leaves the box as it is or cuts it by doubles.
LEMMA FilterRelationShape ==
  ASSUME NEW f, HasDoubles(f), NEW b, NEW positive \in BOOLEAN
  PROVE  \/ FilterRelation(f, b, positive) = Kept(b)
         \/ \E v : \E l, h \in Int : l % 2 = 0 /\ h % 2 = 0 /\ FilterRelation(f, b, positive).box = Narrow(b, v, l, h)
<1> DEFINE Cuts(r) == \E v : \E l, h \in Int : l % 2 = 0 /\ h % 2 = 0 /\ r.box = Narrow(b, v, l, h)
<1>1. Infinity \in Int /\ -Infinity \in Int /\ Infinity % 2 = 0 /\ (-Infinity) % 2 = 0
  BY InfinityFacts
<1>2. ASSUME NEW v, NEW l \in Int, l % 2 = 0
      PROVE  Cuts(UpdateLowerBound(v, l, b)) /\ Cuts(UpdateUpperBound(v, l, b))
  BY <1>1, <1>2 DEF UpdateLowerBound, UpdateUpperBound, Filtered
<1>3. ASSUME NEW v, NEW l \in Int, l % 2 = 0, NEW h \in Int, h % 2 = 0
      PROVE  Cuts(UpdateBoundsViaEquality(v, l, h, b))
  BY <1>3 DEF UpdateBoundsViaEquality, Filtered
<1>4. ASSUME NEW v, NEW l \in Int, l % 2 = 0
      PROVE  Cuts(UpdateStrictLowerBound(v, l, b)) /\ Cuts(UpdateStrictUpperBound(v, l, b))
  <2>1. l + 2 \in Int /\ (l + 2) % 2 = 0 /\ l - 2 \in Int /\ (l - 2) % 2 = 0
    BY <1>4
  <2>2. Cuts(UpdateLowerBound(v, l + 2, b)) /\ Cuts(UpdateUpperBound(v, l - 2, b))
    <3> HIDE DEF Cuts
    <3> QED BY <1>2, <2>1
  <2>3. \A r : Cuts(r) /\ r = Filtered(r.box) => Cuts(KeptToo(r))
    BY DEF KeptToo, Filtered
  <2>4. /\ UpdateLowerBound(v, l, b) = Filtered(UpdateLowerBound(v, l, b).box)
        /\ UpdateUpperBound(v, l, b) = Filtered(UpdateUpperBound(v, l, b).box)
    BY DEF UpdateLowerBound, UpdateUpperBound, Filtered
  <2> HIDE DEF Cuts
  <2> QED BY <1>2, <1>4, <2>2, <2>3, <2>4 DEF UpdateStrictLowerBound, UpdateStrictUpperBound, NextUp, NextDown
<1> HIDE DEF Cuts
<1>5. CASE f.k # "rel"
  BY <1>5 DEF FilterRelation
<1>6. CASE f.k = "rel"
  <2>1. /\ IsConst(f.l) => f.l.lo \in Int /\ f.l.lo % 2 = 0 /\ f.l.hi \in Int /\ f.l.hi % 2 = 0
        /\ IsConst(f.r) => f.r.lo \in Int /\ f.r.lo % 2 = 0 /\ f.r.hi \in Int /\ f.r.hi % 2 = 0
    BY <1>6 DEF HasDoubles, IsDoubleConst
  <2>2. \A pos \in BOOLEAN : FilterEqual(f, b, pos) = Kept(b) \/ Cuts(FilterEqual(f, b, pos))
    BY <1>3, <2>1 DEF FilterEqual
  <2>3. \A pos \in BOOLEAN : FilterGreater(f, b, pos) = Kept(b) \/ Cuts(FilterGreater(f, b, pos))
    BY <1>2, <1>4, <2>1 DEF FilterGreater
  <2>4. \A pos \in BOOLEAN : FilterGreaterOrEqual(f, b, pos) = Kept(b) \/ Cuts(FilterGreaterOrEqual(f, b, pos))
    BY <1>2, <1>4, <2>1 DEF FilterGreaterOrEqual
  <2>5. \/ FilterRelation(f, b, positive) = Kept(b)
        \/ \E pos \in BOOLEAN :
             FilterRelation(f, b, positive) \in {FilterEqual(f, b, pos), FilterGreater(f, b, pos), FilterGreaterOrEqual(f, b, pos)}
    BY <1>6 DEF FilterRelation
  <2>6. FilterRelation(f, b, positive) = Kept(b) \/ Cuts(FilterRelation(f, b, positive))
    BY <2>2, <2>3, <2>4, <2>5
  <2> QED BY <2>6 DEF Cuts
<1> QED BY <1>5, <1>6

\* The filter leaves a box that is no larger.
LEMMA FilterAssertionWithin ==
  ASSUME NEW V, NEW b, IsBox(b, V), NEW f, HasDoubles(Atom(f))
  PROVE  IsBox(FilterAssertion(f, b).box, V) /\ Within(FilterAssertion(f, b).box, b)
<1>1. \E positive \in BOOLEAN : FilterAssertion(f, b) = FilterRelation(Atom(f), b, positive)
  BY DEF FilterAssertion, Atom
<1>2. PICK positive \in BOOLEAN : FilterAssertion(f, b) = FilterRelation(Atom(f), b, positive)
  BY <1>1
<1>3. CASE FilterRelation(Atom(f), b, positive) = Kept(b)
  BY <1>2, <1>3, WithinReflexive DEF Kept
<1>4. CASE \E v : \E l, h \in Int :
             l % 2 = 0 /\ h % 2 = 0 /\ FilterRelation(Atom(f), b, positive).box = Narrow(b, v, l, h)
  <2>1. PICK v : \E l, h \in Int : l % 2 = 0 /\ h % 2 = 0 /\ FilterRelation(Atom(f), b, positive).box = Narrow(b, v, l, h)
    BY <1>4
  <2>2. PICK l \in Int, h \in Int : l % 2 = 0 /\ h % 2 = 0 /\ FilterRelation(Atom(f), b, positive).box = Narrow(b, v, l, h)
    BY <2>1
  <2> QED BY <1>2, <2>2, NarrowFacts
<1> QED BY <1>3, <1>4, FilterRelationShape

\* The constants of the formulas of the instance are doubles or lie between two.
LEMMA BodyHasDoubles ==
  /\ \A e \in Expr : IsDoubleConst(e)
  /\ \A f \in Body : HasDoubles(f)
<1>1. ASSUME NEW e \in Expr PROVE IsDoubleConst(e)
  <2>1. e.k = "const" => e.lo \in Int /\ e.lo % 2 = 0 /\ e.hi \in {e.lo, e.lo + 2}
    BY ExprAssumption DEF IsExpression
  <2> QED BY <2>1 DEF IsDoubleConst, IsConst
<1>2. \A f \in Body : f.k = "rel" => IsRelation(f)
  BY BodyAssumption
<1>3. \A f \in Body : f.k = "rel" => f.l \in Expr /\ f.r \in Expr
  BY <1>2 DEF IsRelation
<1> QED BY <1>1, <1>3 DEF HasDoubles

\* The bounds that are absorbed leave the universal variables a box.
LEMMA UniversalDomainIsBox ==
  ASSUME NEW f, f.f \in Body
  PROVE  IsBox(UniversalDomain(f), f.y)
<1> DEFINE gs == {g \in GetClauses(Nnf(f.f, FALSE)) : g.k = "rel"}
           b == [y \in f.y |-> Whole]
           step == [g \in gs |-> [c \in [DOMAIN b -> Intervals] |-> FilterAssertion(OntoFirst(g, DOMAIN b), c).box]]
<1>1. UniversalDomain(f) = Folded(step, b, gs)
  BY DEF UniversalDomain, AbsorbBounds
<1>2. gs \in SUBSET Body
  <2>1. Nnf(f.f, FALSE) \in Body
    BY BodyOperands
  <2>2. GetClauses(Nnf(f.f, FALSE)) \in SUBSET Body
    <3> DEFINE g == Nnf(f.f, FALSE)
    <3>1. g \in Body /\ (g.k = "and" => g.s \in SUBSET Body)
      BY <2>1, BodyOperands
    <3> HIDE DEF g
    <3>2. GetClauses(g) \in SUBSET Body
      BY <3>1 DEF GetClauses
    <3> QED BY <3>2 DEF g
  <2> QED BY <2>2
<1>3. IsFiniteSet(gs)
  BY <1>2, BodyDepths, FS_Subset
<1>4. DOMAIN b = f.y /\ IsBox(b, f.y)
  <2>1. IsBound(Infinity) /\ IsBound(-Infinity)
    BY InfinityFacts DEF IsBound
  <2>2. b = [y \in f.y |-> b[y]] /\ \A y \in f.y : b[y] = [lo |-> -Infinity, hi |-> Infinity]
    BY DEF Whole
  <2> HIDE DEF b
  <2> QED BY <2>1, <2>2 DEF IsBox
<1>5. ASSUME NEW g \in gs, NEW c, IsBox(c, f.y)
      PROVE  IsBox(step[g][c], f.y)
  <2>1. c \in [DOMAIN b -> Intervals]
    BY <1>4, <1>5, BoxType DEF BoxesOver
  <2>2. step[g][c] = FilterAssertion(OntoFirst(g, DOMAIN b), c).box
    BY <2>1
  <2>3. HasDoubles(OntoFirst(g, DOMAIN b)) /\ OntoFirst(g, DOMAIN b).k = "rel"
    <3>1. g.k = "rel" /\ HasDoubles(g)
      BY <1>2, BodyHasDoubles
    <3> HIDE DEF b
    <3> QED BY <3>1 DEF HasDoubles, IsDoubleConst, IsConst, OntoFirst, Variable
  <2> HIDE DEF b, step
  <2>4. HasDoubles(Atom(OntoFirst(g, DOMAIN b)))
    BY <2>3 DEF Atom
  <2> QED BY <1>5, <2>2, <2>4, FilterAssertionWithin
<1> HIDE DEF step, b, gs
<1>6. PICK s : IsFold(s, step, b, gs) /\ Folded(step, b, gs) = s[gs]
  BY <1>3, FoldedEquation
<1> DEFINE T == {D \in SUBSET gs : IsBox(s[D], f.y)}
<1>7. ASSUME NEW D \in SUBSET gs, \A E \in SUBSET D : E # D => E \in T
      PROVE  D \in T
  <2>1. CASE D = {}
    BY <1>4, <1>6, <2>1 DEF IsFold
  <2>2. CASE D # {}
    <3> DEFINE x == CHOOSE y \in D : TRUE
               R == D \ {x}
    <3>1. x \in D /\ R \in SUBSET D /\ R # D
      BY <2>2
    <3>2. s[D] = step[x][s[R]]
      BY <1>6, <2>2 DEF IsFold
    <3> HIDE DEF x, R
    <3>3. R \in T
      <4> HIDE DEF T
      <4> QED BY <1>7, <3>1
    <3>4. IsBox(s[R], f.y)
      BY <3>3
    <3>5. IsBox(s[D], f.y)
      BY <1>5, <3>1, <3>2, <3>4
    <3> QED BY <3>5
  <2> QED BY <2>1, <2>2
<1> HIDE DEF T
<1>8. gs \in T
  BY <1>3, <1>7, SubsetInduction
<1> QED BY <1>1, <1>6, <1>8 DEF T

-----------------------------------------------------------------------------
(* The contractors of a check *)

\* What the constraints made of a literal allow.
Accepts(f, p) ==
  IF f.k = "forall"
  THEN \A y \in UniversalPoints(f.y) : BodyAllows(Nnf(f.f, TRUE), Override(p, y))
  ELSE Allows(Convert(f), p)

\* A contractor made of the literals in fs.
IsContractor(c, fs) ==
  /\ c.c \in {"id", "integer", "fwdbwd", "polytope", "acid", "forall"}
  /\ c.c = "fwdbwd" => c.f \in fs /\ c.f.k # "forall"
  /\ c.c \in {"polytope", "acid"} => c.fs \subseteq fs
  /\ c.c = "forall" => c.f \in fs /\ c.f.k = "forall" /\ (c.skim => \A v \in c.f.y : ~IsInteger(v))

\* The points where integers are integers and all of fs is accepted.
AcceptedBy(fs, V) ==
  {p \in Points(V) : (\A v \in V : IsInteger(v) => p[v] % 4 = 0) /\ \A f \in fs : Accepts(f, p)}

\* The values at which a counterexample may pin the universal variables.
DoublePoints(Y) == {y \in UniversalPoints(Y) : \A v \in Y : y[v] % 2 = 0}

\* The box b with the variables in Y at the point y.
IsPinned(e, b, V, y, Y) ==
  /\ IsBox(e, V \cup Y) /\ DOMAIN y = Y
  /\ \A v \in V : v \notin Y => e[v] = b[v]
  /\ \A v \in Y : e[v] = Point(y[v])

\* Pinning the universal variables leaves a box.
LEMMA PinnedIsBox ==
  ASSUME NEW V, NEW b, IsBox(b, V), NEW Y, NEW y \in DoublePoints(Y)
  PROVE  IsPinned(Pinned(b, y), b, V, y, Y)
<1>1. DOMAIN b = V /\ DOMAIN y = Y /\ \A v \in Y : y[v] \in -Infinity .. Infinity /\ y[v] % 2 = 0
  BY DEF IsBox, UniversalPoints, DoublePoints
<1>2. \A v \in Y : IsBound(y[v])
  BY <1>1, InfinityFacts DEF IsBound
<1> DEFINE a == [v \in V \cup Y |-> IF v \in Y THEN Point(y[v]) ELSE b[v]]
<1>3. Pinned(b, y) = a
  BY <1>1 DEF Pinned
<1>4. /\ a = [v \in V \cup Y |-> a[v]]
      /\ \A v \in V : v \notin Y => a[v] = b[v]
      /\ \A v \in Y : a[v] = Point(y[v]) /\ a[v] = [lo |-> y[v], hi |-> y[v]]
  BY DEF Point, Interval
<1> HIDE DEF a
<1>5. ASSUME NEW v \in V \cup Y
      PROVE  a[v] = [lo |-> a[v].lo, hi |-> a[v].hi] /\ IsBound(a[v].lo) /\ IsBound(a[v].hi)
  <2>1. CASE v \in Y
    BY <1>2, <1>4, <2>1
  <2>2. CASE v \notin Y
    <3>1. a[v] = b[v] /\ v \in V
      BY <1>4, <2>2
    <3> QED BY <3>1 DEF IsBox
  <2> QED BY <2>1, <2>2
<1>6. IsBox(a, V \cup Y)
  BY <1>4, <1>5 DEF IsBox
<1> QED BY <1>1, <1>3, <1>4, <1>6 DEF IsPinned

\* Contracting with the body at a counterexample.
LEMMA PinnedPrunes ==
  ASSUME NEW V, NEW b, IsBox(b, V), NEW c, c.f.f \in Body, c.f.y \cap V = {},
         NEW P \in SUBSET Points(V),
         \A p \in P : \A y \in UniversalPoints(c.f.y) : BodyAllows(Nnf(c.f.f, TRUE), Override(p, y))
  PROVE  Prunes(PinnedPrunings(c, b), b, P)
<1> DEFINE g == Nnf(c.f.f, TRUE)
           Y == c.f.y
<1>1. g \in Body
  BY BodyOperands
<1>2. DOMAIN b = V /\ b = [v \in V |-> b[v]]
  BY DEF IsBox
<1>3. ASSUME NEW a \in PinnedPrunings(c, b)
      PROVE  \E y \in UniversalPoints(Y) : /\ \A v \in Y : y[v] % 2 = 0
                                           /\ \E d \in PruneBody(g, Pinned(b, y), c.polytope) : a = [v \in V |-> d[v]]
  <2>1. PICK y \in UniversalPoints(Y) : /\ \A v \in DOMAIN y : y[v] % 2 = 0
                                        /\ a \in {[v \in DOMAIN b |-> d[v]] : d \in PruneBody(g, Pinned(b, y), c.polytope)}
    BY DEF PinnedPrunings
  <2>2. DOMAIN y = Y
    BY DEF UniversalPoints
  <2> HIDE DEF g, Y
  <2> QED BY <1>2, <2>1, <2>2
<1> HIDE DEF g
<1>4. ASSUME NEW a \in PinnedPrunings(c, b)
      PROVE  IsBox(a, V) /\ Within(a, b) /\ \A p \in P : IsIn(b, p) => IsIn(a, p)
  <2>1. PICK y \in UniversalPoints(Y) : /\ \A v \in Y : y[v] % 2 = 0
                                        /\ \E d \in PruneBody(g, Pinned(b, y), c.polytope) : a = [v \in V |-> d[v]]
    BY <1>3
  <2>2. PICK d \in PruneBody(g, Pinned(b, y), c.polytope) : a = [v \in V |-> d[v]]
    BY <2>1
  <2> DEFINE W == V \cup Y
             e == Pinned(b, y)
  <2>3. IsBox(e, W) /\ (\A v \in V : e[v] = b[v]) /\ (\A v \in Y : e[v] = Point(y[v])) /\ DOMAIN y = Y
    <3>0. Y \cap V = {}
      OBVIOUS
    <3> HIDE DEF Y
    <3>1. y \in DoublePoints(Y)
      BY <2>1 DEF DoublePoints
    <3>2. /\ IsBox(Pinned(b, y), V \cup Y) /\ DOMAIN y = Y
          /\ \A v \in V : v \notin Y => Pinned(b, y)[v] = b[v]
          /\ \A v \in Y : Pinned(b, y)[v] = Point(y[v])
      <4>1. IsPinned(Pinned(b, y), b, V, y, Y)
        BY <3>1, PinnedIsBox
      <4> HIDE DEF W, e
      <4> QED BY <4>1 DEF IsPinned
    <3> QED BY <3>0, <3>2
  <2>4. V \ Y = V
    OBVIOUS
  <2> HIDE DEF e, Y
  <2>5. e \in BoxesOver(W)
    BY <2>3, BoxType
  <2>6. Prunes(PruneBody(g, e, c.polytope), e, {q \in Points(W) : BodyAllows(g, q)})
    BY <1>1, <2>3, <2>5, PruneBodyPrunes
  <2>7. DOMAIN e = W
    BY <2>3 DEF IsBox
  <2>8. /\ IsBox(d, W) /\ Within(d, e)
        /\ \A q \in Points(W) : BodyAllows(g, q) /\ IsIn(e, q) => IsIn(d, q)
    BY <2>2, <2>6, <2>7 DEF Prunes, e
  <2>9. IsBox(a, V)
    BY <2>2, <2>8 DEF IsBox
  <2>10. Within(a, b)
    <3>1. \A v \in V : e[v].lo <= d[v].lo /\ d[v].hi <= e[v].hi
      BY <2>7, <2>8 DEF Within
    <3> QED BY <1>2, <2>2, <2>3, <2>4, <3>1 DEF Within
  <2>11. ASSUME NEW p \in P, IsIn(b, p) PROVE IsIn(a, p)
    <3> DEFINE q == Override(p, y)
    <3>1. p \in Points(V) /\ DOMAIN p = V /\ \A v \in V : p[v] \in Int
      BY DEF Points
    <3>2. \A v \in Y : y[v] \in Int
      BY <2>1, InfinityFacts DEF UniversalPoints
    <3>3. q = [v \in W |-> IF v \in Y THEN y[v] ELSE p[v]]
      BY <2>3, <3>1 DEF Override
    <3>4. BodyAllows(g, q)
      BY <2>1 DEF g, Y
    <3> HIDE DEF q
    <3>5. q \in Points(W)
      BY <3>1, <3>2, <3>3 DEF Points
    <3>6. (\A v \in V : q[v] = p[v]) /\ (\A v \in Y : q[v] = y[v])
      BY <2>4, <3>3
    <3>7. \A v \in V : Contains(e[v], q[v])
      BY <1>2, <2>3, <2>4, <2>11, <3>6 DEF IsIn
    <3>8. \A v \in Y : Contains(e[v], q[v])
      <4> TAKE v \in Y
      <4>1. e[v] = [lo |-> y[v], hi |-> y[v]] /\ q[v] = y[v] /\ y[v] \in Int
        BY <2>3, <3>2, <3>6 DEF Point, Interval
      <4> QED BY <4>1 DEF Contains
    <3>9. IsIn(e, q)
      BY <2>7, <3>7, <3>8 DEF IsIn
    <3>10. IsIn(d, q)
      BY <2>8, <3>4, <3>5, <3>9
    <3>11. \A v \in V : Contains(d[v], p[v])
      <4>1. DOMAIN d = W
        BY <2>8 DEF IsBox
      <4> QED BY <3>6, <3>10, <4>1 DEF IsIn
    <3> QED BY <2>2, <3>11 DEF IsIn
  <2> QED BY <2>9, <2>10, <2>11
<1> QED BY <1>2, <1>4 DEF Prunes

\* One round of the contractor of a quantified formula.
LEMMA PruneForallPrunes ==
  ASSUME NEW V, NEW b, IsBox(b, V), NEW c, c.f.f \in Body, c.f.y \cap V = {},
         c.skim => \A v \in c.f.y : ~IsInteger(v),
         NEW P \in SUBSET Points(V),
         \A p \in P : \A y \in UniversalPoints(c.f.y) : BodyAllows(Nnf(c.f.f, TRUE), Override(p, y))
  PROVE  Prunes(PruneForall(c, b), b, P)
<1>1. Prunes({b}, b, P)
  BY PrunesNothing
<1>2. Prunes(PinnedPrunings(c, b), b, P)
  BY PinnedPrunes
<1>3. c.skim => Prunes(NarrowTo(b, AllowedForAll(c.f, b)), b, P)
  <2> HAVE c.skim
  <2>1. AllowedForAll(c.f, b) \in SUBSET RealPoints(b)
    BY DEF AllowedForAll
  <2>2. RealPoints(UniversalDomain(c.f)) \subseteq UniversalPoints(c.f.y)
    <3> DEFINE u == UniversalDomain(c.f)
               Y == c.f.y
    <3>1. IsBox(u, Y)
      BY UniversalDomainIsBox
    <3> HIDE DEF u
    <3>2. ASSUME NEW y \in RealPoints(u) PROVE y \in UniversalPoints(Y)
      <4>1. y \in Points(Y) /\ IsIn(u, y)
        BY <3>1, RealPointsType
      <4>2. \A v \in Y : y[v] \in -Infinity .. Infinity
        <5> TAKE v \in Y
        <5>1. y[v] \in Int /\ u[v].lo <= y[v] /\ y[v] <= u[v].hi /\ IsBound(u[v].lo) /\ IsBound(u[v].hi)
          BY <3>1, <4>1 DEF Points, IsIn, IsBox, Contains
        <5> QED BY <5>1, InfinityFacts DEF IsBound
      <4>3. y \in [Y -> -Infinity .. Infinity]
        BY <4>1, <4>2 DEF Points
      <4> QED BY <4>3 DEF UniversalPoints
    <3> QED BY <3>2 DEF u
  <2>3. ASSUME NEW p \in P, IsIn(b, p) PROVE p \in AllowedForAll(c.f, b)
    <3>1. p \in RealPoints(b)
      BY <2>3, InRealPoints
    <3>2. \A y \in RealPoints(UniversalDomain(c.f)) : BodyAllows(Nnf(c.f.f, TRUE), Override(p, y))
      BY <2>2
    <3> QED BY <3>1, <3>2 DEF AllowedForAll
  <2> QED BY <2>1, <2>3, NarrowToPrunes
<1>4. PruneForall(c, b) \subseteq
        {b} \cup (IF c.skim THEN NarrowTo(b, AllowedForAll(c.f, b)) ELSE {}) \cup PinnedPrunings(c, b)
  BY DEF PruneForall
<1> QED BY <1>1, <1>2, <1>3, <1>4 DEF Prunes

\* A contractor made of the literals keeps the points they accept.
LEMMA PruningsPrune ==
  ASSUME NEW b, IsBox(b, DOMAIN StartBox), NEW fs, \A f \in fs : IsLiteral(f),
         NEW c, IsContractor(c, fs)
  PROVE  Prunes(Prunings(c, b), b, AcceptedBy(fs, DOMAIN StartBox))
<1> DEFINE V == DOMAIN StartBox
           P == AcceptedBy(fs, V)
<1>1. P \in SUBSET Points(V) /\ \A p \in P : \A f \in fs : Accepts(f, p)
  BY DEF AcceptedBy
<1>2. \A p \in P : \A v \in V : p[v] \in Int /\ (IsInteger(v) => p[v] % 4 = 0)
  BY DEF AcceptedBy, Points
<1> HIDE DEF V, P
<1>3. IsBox(b, V)
  BY DEF V
<1>4. CASE c.c = "id"
  BY <1>3, <1>4, PrunesNothing DEF Prunings, P
<1>5. CASE c.c = "integer"
  <2>1. Prunings(c, b) = {PruneInteger(b)}
    BY <1>5 DEF Prunings
  <2> QED BY <1>2, <1>3, <2>1, PruneIntegerPrunes DEF P, V
<1>6. CASE c.c = "fwdbwd"
  <2>1. Prunings(c, b) = NarrowTo(b, AllowedBy({c.f}, b))
    BY <1>6 DEF Prunings, PruneFwdBwd
  <2>2. c.f \in fs /\ c.f.k # "forall"
    BY <1>6 DEF IsContractor
  <2>3. \A p \in P : \A f \in {c.f} : Allows(Convert(f), p)
    BY <1>1, <2>2 DEF Accepts
  <2>4. Prunes(NarrowTo(b, AllowedBy({c.f}, b)), b, P)
    BY <1>1, <1>3, <2>3, AllowedByPrunes
  <2> QED BY <2>1, <2>4 DEF P, V
<1>7. CASE c.c \in {"polytope", "acid"}
  <2> DEFINE gs == Convertible(c.fs)
  <2>1. Prunings(c, b) = NarrowTo(b, AllowedBy(gs, b))
    BY <1>7 DEF Prunings, PrunePolytope, PruneAcid
  <2>2. gs \subseteq fs /\ \A f \in gs : f.k # "forall"
    BY <1>7 DEF IsContractor, Convertible, IsConvertible
  <2> HIDE DEF gs
  <2>3. \A p \in P : \A f \in gs : Allows(Convert(f), p)
    BY <1>1, <2>2 DEF Accepts
  <2>4. Prunes(NarrowTo(b, AllowedBy(gs, b)), b, P)
    BY <1>1, <1>3, <2>3, AllowedByPrunes
  <2> QED BY <2>1, <2>4 DEF P, V
<1>8. CASE c.c = "forall"
  <2>1. Prunings(c, b) = PruneForall(c, b)
    BY <1>8 DEF Prunings
  <2>2. c.f \in fs /\ c.f.k = "forall" /\ (c.skim => \A v \in c.f.y : ~IsInteger(v))
    BY <1>8 DEF IsContractor
  <2>3. c.f.f \in Body /\ c.f.y \cap V = {}
    BY <2>2 DEF IsLiteral, V
  <2>4. \A p \in P : \A y \in UniversalPoints(c.f.y) : BodyAllows(Nnf(c.f.f, TRUE), Override(p, y))
    BY <1>1, <2>2 DEF Accepts
  <2>5. Prunes(PruneForall(c, b), b, P)
    BY <1>1, <1>3, <2>2, <2>3, <2>4, PruneForallPrunes
  <2> QED BY <2>1, <2>5 DEF P, V
<1> QED BY <1>4, <1>5, <1>6, <1>7, <1>8 DEF IsContractor

-----------------------------------------------------------------------------
(* Branching *)

\* The dimensions that may be cut are positions of Dims.
LEMMA CandidateFacts ==
  ASSUME NEW b, NEW act, NEW j \in Candidates(b, act)
  PROVE  j \in 1 .. Len(Dims) /\ Dims[j] \in act /\ Dims[j] \in DOMAIN StartBox /\ IsBisectable(b[Dims[j]]) /\ j # NoDim
<1>1. j \in 1 .. Len(Dims) /\ Dims[j] \in act /\ IsBisectable(b[Dims[j]])
  BY DEF Candidates, Indices
<1>2. Dims \in Seq(DOMAIN StartBox)
  BY StartBoxAssumption
<1> QED BY <1>1, <1>2 DEF NoDim

\* The least of some positions.
LEMMA LeastPosition ==
  ASSUME NEW n \in Nat, NEW S \in SUBSET (1 .. n), S # {}
  PROVE  Least(S) \in S
<1> DEFINE l == 1
<1>1. l \in Int /\ n \in Int /\ S \in SUBSET (l .. n)
  OBVIOUS
<1> HIDE DEF l
<1> QED BY <1>1, LeastGreatest

\* The widest dimension is a candidate if there is one.
LEMMA LargestFirstFacts ==
  ASSUME NEW b, IsBox(b, DOMAIN StartBox), NEW act
  PROVE  LET d == LargestFirst(b, act)
         IN  IF Candidates(b, act) = {} THEN d = NoDim ELSE d \in Candidates(b, act)
<1> DEFINE js == Candidates(b, act)
           size(k) == Diam(b[Dims[k]])
           widest == {j \in js : \A k \in js : size(k) <= size(j)}
<1>1. LargestFirst(b, act) = IF js = {} THEN NoDim ELSE Least(widest)
  BY DEF LargestFirst
<1>2. Len(Dims) \in Nat
  BY StartBoxAssumption
<1>3. js \in SUBSET (1 .. Len(Dims))
  BY CandidateFacts
<1>4. \A k \in js : size(k) \in Int /\ size(k) <= 2 * Infinity
  <2> TAKE k \in js
  <2>1. IsBound(b[Dims[k]].lo) /\ IsBound(b[Dims[k]].hi)
    BY CandidateFacts DEF IsBox
  <2> QED BY <2>1, InfinityFacts DEF IsBound, Diam
<1> HIDE DEF js, size
<1>5. CASE js # {}
  <2> DEFINE D == {2 * Infinity - size(k) : k \in js}
  <2>1. D \in SUBSET Nat /\ D # {}
    BY <1>4, <1>5, InfinityFacts
  <2>2. PICK n \in D : \A m \in D : n <= m
    <3> HIDE DEF D
    <3> QED BY <2>1, LeastNatural
  <2>3. PICK j \in js : n = 2 * Infinity - size(j)
    BY <2>2
  <2>4. \A k \in js : 2 * Infinity - size(j) <= 2 * Infinity - size(k)
    BY <2>2, <2>3
  <2>5. \A k \in js : size(k) <= size(j)
    BY <1>4, <2>4, InfinityFacts
  <2>6. widest # {} /\ widest \in SUBSET (1 .. Len(Dims))
    BY <1>3, <2>5
  <2>7. Least(widest) \in widest
    <3> HIDE DEF widest
    <3> QED BY <1>2, <2>6, LeastPosition
  <2> QED BY <1>1, <1>5, <2>7 DEF js
<1>6. CASE js = {}
  BY <1>1, <1>6 DEF js
<1> QED BY <1>5, <1>6

\* So is the dimension the smear branchers choose.
LEMMA ChosenFacts ==
  ASSUME NEW b, IsBox(b, DOMAIN StartBox), NEW act, NEW smear, NEW fs, NEW d \in Chosen(smear, fs, b, act)
  PROVE  IF Candidates(b, act) = {} THEN d = NoDim ELSE d \in Candidates(b, act)
<1>1. LET l == LargestFirst(b, act)
      IN  IF Candidates(b, act) = {} THEN l = NoDim ELSE l \in Candidates(b, act)
  BY LargestFirstFacts
<1>2. ASSUME NEW j, NEW relative, NEW useMax
      PROVE  LET s == SmearDim(j, b, act, relative, useMax)
             IN  IF Candidates(b, act) = {} THEN s = NoDim ELSE s \in Candidates(b, act)
  <2> DEFINE js == Candidates(b, act)
             score == [i \in js |-> Score(j, b, Dims[i], relative, useMax)]
             best == {i \in js : score[i] > 0 /\ \A k \in js : score[k] <= score[i]}
  <2>1. SmearDim(j, b, act, relative, useMax) = IF best = {} THEN LargestFirst(b, act) ELSE Least(best)
    BY DEF SmearDim
  <2>2. best \in SUBSET js /\ best \in SUBSET (1 .. Len(Dims)) /\ Len(Dims) \in Nat
    BY CandidateFacts, StartBoxAssumption
  <2> HIDE DEF best
  <2>3. best # {} => Least(best) \in best
    BY <2>2, LeastPosition
  <2> QED BY <1>1, <2>1, <2>2, <2>3
<1>3. \/ d = LargestFirst(b, act)
      \/ \E j, relative, useMax : d = SmearDim(j, b, act, relative, useMax)
  BY DEF Chosen, SmearChoices
<1> QED BY <1>1, <1>2, <1>3

\* The halves of a box that is cut.
IsCut(a, b, v) ==
  /\ IsBox(a, DOMAIN b) /\ Within(a, b) /\ Diam(a[v]) < Diam(b[v])
  /\ (Rounded(b) => Rounded(a))
  /\ ~IsEmptyBox(b) /\ (IsInteger(v) => Rounded(b)) => ~IsEmptyBox(a)

\* A half that differs from the box in the interval of v only.
LEMMA HalfFacts ==
  ASSUME NEW V, NEW b, IsBox(b, V), NEW v \in V, NEW l, NEW h, IsBound(l), IsBound(h),
         b[v].lo <= l, h <= b[v].hi, b[v].lo < l \/ h < b[v].hi,
         IsInteger(v) => l % 4 = 0 /\ h % 4 = 0,
         (IsInteger(v) => Rounded(b)) => l <= h
  PROVE  IsCut([b EXCEPT ![v] = Interval(l, h)], b, v)
<1> DEFINE a == [b EXCEPT ![v] = Interval(l, h)]
<1>0. DOMAIN b = V /\ b[v].lo \in Int /\ b[v].hi \in Int /\ l \in Int /\ h \in Int
  BY DEF IsBox, IsBound
<1>1. a = [w \in V |-> a[w]] /\ a[v] = [lo |-> l, hi |-> h] /\ \A w \in V : w # v => a[w] = b[w]
  BY <1>0 DEF IsBox, Interval
<1> HIDE DEF a
<1>2. IsBox(a, V)
  BY <1>1 DEF IsBox
<1>3. ASSUME NEW w \in V PROVE b[w].lo <= a[w].lo /\ a[w].hi <= b[w].hi
  <2>1. CASE w = v
    BY <1>1, <2>1
  <2>2. CASE w # v
    <3>1. a[w] = b[w] /\ b[w].lo \in Int /\ b[w].hi \in Int
      BY <1>1, <2>2 DEF IsBox, IsBound
    <3> QED BY <3>1
  <2> QED BY <2>1, <2>2
<1>4. Diam(a[v]) < Diam(b[v])
  BY <1>0, <1>1 DEF Diam
<1>5. Rounded(b) => Rounded(a)
  <2> SUFFICES ASSUME Rounded(b), NEW w \in V, IsInteger(w) PROVE a[w].lo % 4 = 0 /\ a[w].hi % 4 = 0
    BY <1>1 DEF Rounded
  <2>1. CASE w = v
    BY <1>1, <2>1
  <2>2. CASE w # v
    BY <1>0, <1>1, <2>2 DEF Rounded
  <2> QED BY <2>1, <2>2
<1>6. ~IsEmptyBox(b) /\ (IsInteger(v) => Rounded(b)) => ~IsEmptyBox(a)
  <2> SUFFICES ASSUME ~IsEmptyBox(b), IsInteger(v) => Rounded(b), NEW w \in V, a[w].lo > a[w].hi PROVE FALSE
    BY <1>1 DEF IsEmptyBox
  <2>1. w # v
    BY <1>0, <1>1
  <2>2. b[w].lo > b[w].hi
    BY <1>1, <2>1
  <2> QED BY <1>0, <2>2 DEF IsEmptyBox
<1> QED BY <1>0, <1>2, <1>3, <1>4, <1>5, <1>6 DEF IsCut, Within, a

\* Cutting a box gives two that are smaller and leave no point out.
LEMMA BisectFacts ==
  ASSUME NEW V, NEW b, IsBox(b, V), NEW v \in V, IsBisectable(b[v])
  PROVE  /\ IsCut(Bisect(b, v)[1], b, v) /\ IsCut(Bisect(b, v)[2], b, v)
         /\ \A p \in Points(V) :
              (\A w \in V : IsInteger(w) => p[w] % 4 = 0) /\ IsIn(b, p) =>
                IsIn(Bisect(b, v)[1], p) \/ IsIn(Bisect(b, v)[2], p)
<1> DEFINE l == b[v].lo
           h == b[v].hi
           m == Mid(b[v])
<1>1. l \in Int /\ h \in Int /\ IsBound(l) /\ IsBound(h) /\ DOMAIN b = V /\ h - l >= 4
  BY DEF IsBox, IsBound, IsBisectable
<1>2. m \in Int /\ m % 2 = 0 /\ l < m /\ m < h
  <2> DEFINE s == (l + h) \div 2
  <2>1. s \in Int /\ 2 * s <= l + h /\ l + h <= 2 * s + 1
    BY <1>1
  <2>2. m = Down(s)
    BY DEF Mid
  <2> HIDE DEF s, m, l, h
  <2>3. Down(s) \in Int /\ Down(s) % 2 = 0 /\ Down(s) <= s /\ s <= Down(s) + 1
    BY <2>1, DownUp
  <2> QED BY <1>1, <2>1, <2>2, <2>3
<1>3. ASSUME NEW p \in Points(V), NEW a, NEW x, NEW y, a = [b EXCEPT ![v] = Interval(x, y)],
             IsIn(b, p), x <= p[v], p[v] <= y
      PROVE  IsIn(a, p)
  <2>1. DOMAIN a = V /\ a[v] = [lo |-> x, hi |-> y] /\ \A w \in V : w # v => a[w] = b[w]
    BY <1>1, <1>3 DEF Interval
  <2>2. \A w \in V : Contains(b[w], p[w])
    BY <1>1, <1>3 DEF IsIn
  <2> QED BY <1>3, <2>1, <2>2 DEF IsIn, Contains
<1>4. ASSUME NEW p \in Points(V), IsIn(b, p)
      PROVE  l <= p[v] /\ p[v] <= h /\ p[v] \in Int
  BY <1>1, <1>4 DEF IsIn, Contains, Points
<1>5. CASE ~IsInteger(v)
  <2> DEFINE a1 == [b EXCEPT ![v] = Interval(l, m)]
             a2 == [b EXCEPT ![v] = Interval(m, h)]
  <2>1. Bisect(b, v)[1] = a1 /\ Bisect(b, v)[2] = a2
    BY <1>5 DEF Bisect, BisectContinuous
  <2> HIDE DEF l, h, m
  <2>2. IsBound(m) /\ l <= l /\ h <= h /\ l <= m /\ m <= h
    BY <1>1, <1>2, InfinityFacts DEF IsBound
  <2>3. IsCut(a1, b, v)
    BY <1>1, <1>2, <1>5, <2>2, HalfFacts DEF l, h
  <2>4. IsCut(a2, b, v)
    BY <1>1, <1>2, <1>5, <2>2, HalfFacts DEF l, h
  <2>5. ASSUME NEW p \in Points(V), IsIn(b, p) PROVE IsIn(a1, p) \/ IsIn(a2, p)
    <3>1. l <= p[v] /\ p[v] <= h /\ p[v] \in Int
      BY <1>4, <2>5
    <3>2. CASE p[v] <= m
      BY <1>3, <2>5, <3>1, <3>2
    <3>3. CASE m <= p[v]
      BY <1>3, <2>5, <3>1, <3>3
    <3> QED BY <1>2, <3>1, <3>2, <3>3
  <2> QED BY <2>1, <2>3, <2>4, <2>5
<1>6. CASE IsInteger(v)
  <2> DEFINE n == Floor(m)
             x == Ceil(l)
             y == Floor(h)
             a1 == [b EXCEPT ![v] = Interval(x, n)]
             a2 == [b EXCEPT ![v] = Interval(n + 4, y)]
  <2>1. Bisect(b, v)[1] = a1 /\ Bisect(b, v)[2] = a2
    BY <1>6 DEF Bisect, BisectInt
  <2> HIDE DEF l, h, m
  <2>2. /\ n \in Int /\ n % 4 = 0 /\ n % 2 = 0 /\ n <= m /\ m <= n + 3
        /\ x \in Int /\ x % 4 = 0 /\ x % 2 = 0 /\ l <= x /\ x <= l + 3
        /\ y \in Int /\ y % 4 = 0 /\ y % 2 = 0 /\ y <= h /\ h <= y + 3
        /\ \A k \in Int : k % 4 = 0 => (l <= k => x <= k) /\ (k <= h => k <= y) /\ (k <= m => k <= n)
    BY <1>1, <1>2, FloorCeil
  <2>3. Infinity \in Int /\ -Infinity \in Int /\ Infinity % 4 = 0 /\ (-Infinity) % 4 = 0 /\ l <= Infinity /\ h <= Infinity /\ -Infinity <= l /\ -Infinity <= h
    BY <1>1, InfinityFacts DEF IsBound
  <2>4. (n + 4) \in Int /\ (n + 4) % 4 = 0 /\ (n + 4) % 2 = 0
    BY <2>2
  <2> HIDE DEF n, x, y
  <2>5. n <= Infinity /\ -Infinity <= n /\ n + 4 <= Infinity /\ x <= Infinity /\ -Infinity <= y
    <3>1. -Infinity <= n
      BY <1>1, <1>2, <2>2, <2>3
    <3>2. x <= Infinity /\ -Infinity <= y
      BY <2>2, <2>3
    <3>3. n < Infinity
      BY <1>1, <1>2, <2>2, <2>3
    <3>4. n + 4 <= Infinity
      BY <2>2, <2>3, <3>3
    <3> QED BY <2>2, <2>3, <3>1, <3>2, <3>3, <3>4
  <2>6. IsBound(n) /\ IsBound(n + 4) /\ IsBound(x) /\ IsBound(y)
    <3>1. -Infinity <= x /\ y <= Infinity /\ -Infinity <= n + 4
      BY <1>1, <2>2, <2>3, <2>5
    <3> QED BY <2>2, <2>4, <2>5, <3>1 DEF IsBound
  <2>7. n < h /\ l < n + 4
    BY <1>1, <1>2, <2>2
  <2>8. Rounded(b) => x <= n /\ n + 4 <= y
    <3> HAVE Rounded(b)
    <3>1. l % 4 = 0 /\ h % 4 = 0
      BY <1>1, <1>6 DEF Rounded, l, h
    <3>2. x <= l /\ h <= y
      BY <1>1, <2>2, <3>1
    <3>3. l <= n
      BY <1>1, <1>2, <2>2, <3>1
    <3>4. n + 4 <= h
      BY <1>1, <2>2, <2>7, <3>1
    <3> QED BY <1>1, <2>2, <3>2, <3>3, <3>4
  <2>9. IsCut(a1, b, v)
    <3>1. l <= x /\ n <= h /\ (l < x \/ n < h) /\ (IsInteger(v) => x % 4 = 0 /\ n % 4 = 0) /\ ((IsInteger(v) => Rounded(b)) => x <= n)
      BY <1>1, <1>6, <2>2, <2>7, <2>8
    <3> QED BY <2>6, <3>1, HalfFacts DEF l, h
  <2>10. IsCut(a2, b, v)
    <3>1. l <= n + 4 /\ y <= h /\ (l < n + 4 \/ y < h) /\ (IsInteger(v) => (n + 4) % 4 = 0 /\ y % 4 = 0) /\ ((IsInteger(v) => Rounded(b)) => n + 4 <= y)
      BY <1>1, <1>6, <2>2, <2>4, <2>7, <2>8
    <3> DEFINE k == n + 4
    <3> HIDE DEF k
    <3>2. IsBound(k) /\ l <= k /\ y <= h /\ (l < k \/ y < h) /\ (IsInteger(v) => k % 4 = 0 /\ y % 4 = 0) /\ ((IsInteger(v) => Rounded(b)) => k <= y)
      BY <2>6, <3>1 DEF k
    <3>3. IsCut([b EXCEPT ![v] = Interval(k, y)], b, v)
      BY <2>6, <3>2, HalfFacts DEF l, h
    <3> QED BY <3>3 DEF k
  <2>11. ASSUME NEW p \in Points(V), IsIn(b, p), IsInteger(v) => p[v] % 4 = 0 PROVE IsIn(a1, p) \/ IsIn(a2, p)
    <3>1. l <= p[v] /\ p[v] <= h /\ p[v] \in Int /\ p[v] % 4 = 0
      BY <1>4, <1>6, <2>11
    <3>2. x <= p[v] /\ p[v] <= y
      BY <2>2, <3>1
    <3>3. CASE p[v] <= n
      BY <1>3, <2>11, <3>2, <3>3
    <3>4. CASE n < p[v]
      <4>1. n + 4 <= p[v]
        BY <2>2, <3>1, <3>4
      <4> QED BY <1>3, <2>11, <3>2, <4>1
    <3> QED BY <2>2, <3>1, <3>3, <3>4
  <2> QED BY <2>1, <2>9, <2>10, <2>11
<1> QED BY <1>5, <1>6

-----------------------------------------------------------------------------
(* The invariant: the boxes, the contractors and the integer bounds *)

V0 == DOMAIN StartBox
BoxSet == {b \in BoxesOver(V0) : IsBox(b, V0)}

\* The contractors BuildContractor makes of the literals in fs.
ContractorsOf(fs, options) ==
  {Id, Integral, MakePolytope(fs), MakeAcid(fs)} \cup {BuildOne(f, options) : f \in fs}

NoLinear == ~setting.option.polytope /\ ~setting.option.acid

\* The integer contractor is the last that does anything.
IntegerAt(m) ==
  /\ m \in DOMAIN contractor /\ contractor[m] = MakeInteger(StartBox)
  /\ NoLinear => \A n \in DOMAIN contractor : n > m => contractor[n] = Id

\* The boxes to do with their branching points.
Entries == [box : BoxSet, cut : 0 .. Len(Dims)]

TypeInv ==
  /\ literals \in Problems /\ setting \in Settings
  /\ contractor \in Seq(ContractorsOf(LiteralSet, setting.option))
  /\ next \in Nat /\ next >= 1
  /\ worklist \subseteq DOMAIN contractor /\ looping \in BOOLEAN
  /\ stack \in Seq(Entries)
  /\ box \in BoxSet /\ cut \in 0 .. Len(Dims)

\* Without a worklist the first contractor of a pass prunes before the last.
PhaseInv ==
  /\ pc \in {"build", "pop", "prune", "evaluate", "branch", "done"}
  /\ verdict = "delta-sat" => pc = "done"
  /\ pc = "build" => stack = <<>> /\ worklist = {}
  /\ pc \in {"pop", "prune", "evaluate", "branch"} => \E m : IntegerAt(m)
  /\ looping => setting.worklist /\ (pc = "prune" /\ next > Len(contractor) => worklist = {})
  /\ pc = "prune" /\ ~setting.worklist /\ (\E m \in DOMAIN contractor : m < next) => ~IsEmptyBox(box)
  /\ pc \in {"evaluate", "branch"} \/ verdict = "delta-sat" => ~IsEmptyBox(box)

\* In a pass the bounds are integers once the integer contractor has run; in
\* the loop of a worklist they are, or the contractor is still to run.
RoundedInv ==
  RoundsLast =>
    /\ \A m : IntegerAt(m) /\ pc = "prune" /\ ~looping /\ m < next => Rounded(box)
    /\ \A m : IntegerAt(m) /\ pc = "prune" /\ looping => Rounded(box) \/ m \in worklist \/ next = m
    /\ pc \in {"evaluate", "branch"} \/ verdict = "delta-sat" => Rounded(box)

BoxInv == TypeInv /\ PhaseInv /\ RoundedInv

\* The boxes of the check are those of BoxSet.
LEMMA BoxSetFacts ==
  /\ \A b : b \in BoxSet <=> IsBox(b, V0)
  /\ StartBox \in BoxSet /\ ~IsEmptyBox(StartBox)
  /\ \A b \in BoxSet : DOMAIN b = V0
<1>1. \A b : IsBox(b, V0) => b \in BoxesOver(V0)
  BY BoxType
<1>2. StartBox \in BoxesOver(V0)
  BY StartBoxAssumption DEF V0
<1>3. StartBox = [v \in V0 |-> StartBox[v]] /\ \A v \in V0 : StartBox[v] \in Intervals
  BY <1>2 DEF BoxesOver
<1>4. \A v \in V0 : StartBox[v] = [lo |-> StartBox[v].lo, hi |-> StartBox[v].hi] /\ StartBox[v].lo \in Int /\ StartBox[v].hi \in Int
  BY <1>3 DEF Intervals
<1>5. \A v \in V0 : StartBox[v].lo % 2 = 0 /\ StartBox[v].hi % 2 = 0 /\ -Infinity <= StartBox[v].lo
                    /\ StartBox[v].lo <= StartBox[v].hi /\ StartBox[v].hi <= Infinity
  BY StartBoxAssumption DEF V0
<1>6. ASSUME NEW v \in V0
      PROVE  IsBound(StartBox[v].lo) /\ IsBound(StartBox[v].hi)
  <2> DEFINE l == StartBox[v].lo
             h == StartBox[v].hi
  <2>1. l \in Int /\ h \in Int /\ l % 2 = 0 /\ h % 2 = 0 /\ -Infinity <= l /\ l <= h /\ h <= Infinity
    BY <1>4, <1>5
  <2> HIDE DEF l, h
  <2>2. l <= Infinity /\ -Infinity <= h
    BY <2>1, InfinityFacts
  <2>3. IsBound(l) /\ IsBound(h)
    BY <2>1, <2>2 DEF IsBound
  <2> QED BY <2>3 DEF l, h
<1>7. IsBox(StartBox, V0)
  BY <1>3, <1>4, <1>6 DEF IsBox
<1>8. ~IsEmptyBox(StartBox)
  BY <1>4, <1>5 DEF IsEmptyBox, V0
<1>9. \A b : IsBox(b, V0) => DOMAIN b = V0
  BY DEF IsBox
<1> QED BY <1>1, <1>7, <1>8, <1>9 DEF BoxSet

\* The literals of a problem are literals.
LEMMA LiteralsAreLiterals ==
  ASSUME literals \in Problems
  PROVE  /\ \A f \in LiteralSet : IsLiteral(f)
         /\ Len(literals) \in Nat /\ DOMAIN literals = 1 .. Len(literals)
         /\ \A n \in DOMAIN literals : literals[n] \in LiteralSet
<1>1. literals \in Seq({literals[n] : n \in DOMAIN literals}) /\ \A n \in DOMAIN literals : IsLiteral(literals[n])
  BY ProblemsAssumption
<1>2. \A n \in DOMAIN literals : literals[n] \in LiteralSet
  BY DEF LiteralSet
<1>3. \A f \in LiteralSet : IsLiteral(f)
  BY <1>1 DEF LiteralSet
<1> QED BY <1>1, <1>2, <1>3

\* The contractors are made of literals.
LEMMA ContractorsAreContractors ==
  ASSUME literals \in Problems, setting \in Settings, NEW c \in ContractorsOf(LiteralSet, setting.option)
  PROVE  IsContractor(c, LiteralSet)
<1>1. CASE c \in {Id, Integral}
  BY <1>1 DEF IsContractor, Id, Integral
<1>3. CASE c \in {MakePolytope(LiteralSet), MakeAcid(LiteralSet)}
  BY <1>3 DEF IsContractor, MakePolytope, MakeAcid, Polytope, Acid, Id
<1>4. CASE \E f \in LiteralSet : c = BuildOne(f, setting.option)
  <2>1. PICK f \in LiteralSet : c = BuildOne(f, setting.option)
    BY <1>4
  <2>2. CASE f.k = "forall"
    <3> DEFINE o == setting.option
               skim == o.prePrune /\ IsSkimmable(f)
    <3>1. c = [c |-> "forall", f |-> f, skim |-> skim, polytope |-> o.inForall]
      BY <2>1, <2>2 DEF BuildOne, BuildForall, Forall
    <3>2. skim => \A v \in f.y : ~IsInteger(v)
      <4>1. PICK n \in DOMAIN literals : f = literals[n]
        BY DEF LiteralSet
      <4> QED BY <2>2, <4>1, SettingsAssumption
    <3> HIDE DEF skim
    <3> QED BY <2>2, <3>1, <3>2 DEF IsContractor
  <2>3. CASE f.k # "forall"
    <3>1. c = IF IsConvertible(f) THEN [c |-> "fwdbwd", f |-> f] ELSE [c |-> "id"]
      BY <2>1, <2>3 DEF BuildOne, MakeFwdBwd, FwdBwd, Id
    <3> QED BY <2>3, <3>1 DEF IsContractor
  <2> QED BY <2>2, <2>3
<1> QED BY <1>1, <1>3, <1>4 DEF ContractorsOf

\* The integer contractor depends on the variables only.
LEMMA MakeIntegerFacts ==
  ASSUME NEW b \in BoxSet
  PROVE  /\ MakeInteger(b) = MakeInteger(StartBox)
         /\ MakeInteger(StartBox) \in {Id, Integral}
         /\ MakeInteger(StartBox) = Id => Rounded(b)
<1>1. DOMAIN b = V0 /\ DOMAIN StartBox = V0
  BY BoxSetFacts DEF V0
<1>2. Integral # Id
  BY DEF Integral, Id
<1> QED BY <1>1, <1>2 DEF MakeInteger, Rounded

\* The first of S after n, or what is past the last contractor.
LEMMA FindNextFacts ==
  ASSUME TypeInv, NEW S \in SUBSET DOMAIN contractor, NEW n \in Nat
  PROVE  /\ FindNext(S, n) \in Nat /\ FindNext(S, n) >= 1
         /\ \A m \in S : n < m => FindNext(S, n) <= m
         /\ FindNext(S, n) > Len(contractor) => \A m \in S : ~(n < m)
<1> DEFINE later == {m \in S : m > n}
<1>1. DOMAIN contractor = 1 .. Len(contractor) /\ Len(contractor) \in Nat
  BY DEF TypeInv
<1>2. later \in SUBSET (1 .. Len(contractor)) /\ \A m \in S : n < m => m \in later
  BY <1>1
<1>3. FindNext(S, n) = IF later = {} THEN Len(contractor) + 1 ELSE Least(later)
  BY DEF FindNext
<1> HIDE DEF later
<1>4. CASE later = {}
  BY <1>1, <1>2, <1>3, <1>4
<1>5. CASE later # {}
  <2>1. Least(later) \in later /\ \A x \in later : Least(later) <= x
    <3> DEFINE k == Len(contractor)
    <3>1. 1 \in Int /\ k \in Int /\ later \in SUBSET (1 .. k) /\ later # {}
      BY <1>1, <1>2, <1>5
    <3> HIDE DEF k
    <3> QED BY ONLY <3>1, LeastGreatest
  <2>2. Least(later) \in 1 .. Len(contractor)
    BY <1>2, <2>1
  <2> QED BY <1>1, <1>2, <1>3, <1>5, <2>1, <2>2
<1> QED BY <1>4, <1>5

\* A worklist goes round as long as it has a contractor.
LEMMA TakeNextFacts ==
  ASSUME TypeInv, NEW S \in SUBSET DOMAIN contractor, TakeNext(S)
  PROVE  /\ next' \in Nat /\ next' >= 1
         /\ worklist' = S \ {next'}
         /\ next' > Len(contractor) => S = {}
<1>1. next \in Nat /\ 0 \in Nat /\ \A m \in S : 0 < m
  BY DEF TypeInv
<1>2. worklist' = S \ {next'} /\ next' = IF \E m \in S : m > next THEN FindNext(S, next) ELSE FindNext(S, 0)
  BY DEF TakeNext, FindFirst
<1>3. CASE \E m \in S : m > next
  <2>1. \E m \in S : next < m
    BY <1>3
  <2> QED BY <1>1, <1>2, <1>3, <2>1, FindNextFacts
<1>4. CASE ~ \E m \in S : m > next
  BY <1>1, <1>2, <1>4, FindNextFacts
<1> QED BY <1>3, <1>4

\* Who reads the dimensions of a set.
LEMMA RoundFacts ==
  ASSUME NEW d
  PROVE  /\ Round(d) \in SUBSET DOMAIN contractor
         /\ \A vs : Readers(vs) \in SUBSET DOMAIN contractor
         /\ ~setting.worklist => Round(d) = DOMAIN contractor
BY DEF Round, Readers

\* The integer contractor reads every integer variable, so that it is run after
\* such a variable is cut, or is woken when its bounds move.
LEMMA IntegerReads ==
  ASSUME TypeInv, NEW m, IntegerAt(m), MakeInteger(StartBox) = Integral
  PROVE  /\ \A vs : (\E v \in vs : v \in V0 /\ IsInteger(v)) => m \in Readers(vs)
         /\ \A d \in 0 .. Len(Dims) : (setting.worklist /\ d # NoDim => IsInteger(Dims[d])) => m \in Round(d)
<1>1. Input(Integral) = {Dims[j] : j \in {k \in Indices : IsInteger(Dims[k])}}
  BY DEF Input, Integral
<1>2. m \in DOMAIN contractor /\ contractor[m] = Integral
  BY DEF IntegerAt
<1>3. {Dims[j] : j \in DOMAIN Dims} = V0 /\ DOMAIN Dims = Indices
  BY StartBoxAssumption DEF V0, Indices
<1>4. \A v \in V0 : IsInteger(v) => v \in Input(Integral)
  BY <1>1, <1>3
<1>5. ASSUME NEW vs, NEW v \in vs, v \in V0, IsInteger(v) PROVE m \in Readers(vs)
  BY <1>2, <1>4, <1>5 DEF Readers
<1>6. ASSUME NEW d \in 0 .. Len(Dims), setting.worklist /\ d # NoDim => IsInteger(Dims[d]) PROVE m \in Round(d)
  <2>1. CASE setting.worklist /\ d # NoDim
    <3>1. d \in DOMAIN Dims /\ IsInteger(Dims[d])
      BY <1>3, <1>6, <2>1 DEF NoDim, Indices
    <3>2. Dims[d] \in V0
      BY <1>3, <3>1
    <3>3. m \in Readers({Dims[d]})
      BY <1>5, <3>1, <3>2
    <3> QED BY <2>1, <3>3 DEF Round
  <2>2. CASE ~(setting.worklist /\ d # NoDim)
    BY <1>2, <2>2 DEF Round
  <2> QED BY <2>1, <2>2
<1> QED BY <1>5, <1>6

\* What moves an integer bound sets the output bit of an integer variable.
LEMMA MovedIsOutput ==
  ASSUME NEW a \in BoxSet, NEW b \in BoxSet, Rounded(a), ~Rounded(b)
  PROVE  \E v \in Output(a, b) : v \in V0 /\ IsInteger(v)
<1>1. DOMAIN a = V0 /\ DOMAIN b = V0
  BY BoxSetFacts
<1> QED BY <1>1 DEF Rounded, Output

\* The invariant holds when a check begins.
LEMMA InitBoxInv == Init => BoxInv
<1> SUFFICES ASSUME Init PROVE BoxInv
  OBVIOUS
<1>1. TypeInv
  <2>1. NoDim \in 0 .. Len(Dims)
    BY StartBoxAssumption DEF NoDim
  <2> DEFINE S == ContractorsOf(LiteralSet, setting.option)
             E == Entries
  <2>2. <<>> \in Seq(S) /\ <<>> \in Seq(E) /\ 1 \in Nat /\ 1 >= 1
    <3> HIDE DEF S, E
    <3> QED OBVIOUS
  <2>3. contractor \in Seq(S) /\ stack \in Seq(E) /\ next \in Nat /\ next >= 1
    <3> HIDE DEF S, E
    <3> QED BY <2>2 DEF Init
  <2>4. literals \in Problems /\ setting \in Settings /\ worklist \subseteq DOMAIN contractor /\ looping \in BOOLEAN
    BY DEF Init
  <2>5. box \in BoxSet /\ cut \in 0 .. Len(Dims)
    BY <2>1, BoxSetFacts DEF Init
  <2> QED BY <2>3, <2>4, <2>5 DEF TypeInv
<1>2. PhaseInv
  BY DEF Init, PhaseInv
<1>3. RoundedInv
  BY DEF Init, RoundedInv
<1> QED BY <1>1, <1>2, <1>3 DEF BoxInv

\* The filter of a bound leaves a box, and every contractor that is built is one of the
\* literals (TheorySolver::BuildContractor).
LEMMA AddLiteralBoxInv ==
  ASSUME BoxInv, AddLiteral
  PROVE  BoxInv'
<1> USE DEF BoxInv
<1> DEFINE f == literals[next]
           r == FilterAssertion(f, box)
<1>0. /\ literals' = literals /\ setting' = setting /\ stack' = stack /\ LiteralSet' = LiteralSet
      /\ worklist' = worklist /\ looping' = looping /\ cut' = cut /\ worklist = {}
      /\ pc = "build" /\ next <= Len(literals) /\ next' = next + 1 /\ box' = r.box
      /\ contractor' = IF r.filtered THEN contractor ELSE Append(contractor, BuildOne(f, setting.option))
      /\ (pc' = "build" /\ verdict' = verdict) \/ (pc' = "done" /\ verdict' = "unsat")
  BY DEF AddLiteral, Stop, LiteralSet, PhaseInv, problem
<1>1. f \in LiteralSet /\ IsLiteral(f)
  BY <1>0, LiteralsAreLiterals DEF TypeInv
<1>2. box' \in BoxSet
  <2>1. HasDoubles(Atom(f))
    <3>1. f.k = "forall" => Atom(f).k # "rel"
      BY DEF Atom
    <3>2. f.k # "forall" => Atom(f) \in Body
      BY <1>1, BodyOperands DEF IsLiteral, Atom
    <3> QED BY <3>1, <3>2, BodyHasDoubles DEF HasDoubles
  <2>2. IsBox(box, V0)
    BY BoxSetFacts DEF TypeInv
  <2> HIDE DEF f
  <2>3. IsBox(r.box, V0)
    BY <2>1, <2>2, FilterAssertionWithin
  <2> QED BY <1>0, <2>3, BoxSetFacts
<1>3. contractor' \in Seq(ContractorsOf(LiteralSet, setting.option))
  <2>1. BuildOne(f, setting.option) \in ContractorsOf(LiteralSet, setting.option)
    BY <1>1 DEF ContractorsOf
  <2> DEFINE S == ContractorsOf(LiteralSet, setting.option)
             c == BuildOne(f, setting.option)
  <2>2. contractor \in Seq(S) /\ c \in S /\ (contractor' = contractor \/ contractor' = Append(contractor, c))
    BY <1>0, <2>1 DEF TypeInv
  <2> HIDE DEF S, c
  <2>3. contractor' \in Seq(S)
    BY <2>2
  <2> QED BY <2>3 DEF S
<1> HIDE DEF f, r
<1>4. TypeInv'
  BY <1>0, <1>2, <1>3 DEF TypeInv
<1>5. PhaseInv' /\ RoundedInv'
  BY <1>0 DEF PhaseInv, RoundedInv
<1> QED BY <1>4, <1>5

\* The integer contractor is the last but the two of --polytope and --acid
\* (TheorySolver::BuildContractor).
LEMMA AssembleFacts ==
  ASSUME TypeInv, NEW ctcs, ctcs = contractor \/ ctcs \in Orderings(contractor, setting.option.order),
         contractor' = Assemble(ctcs, LiteralSet, box, setting.option), UNCHANGED <<literals, setting>>
  PROVE  /\ contractor' \in Seq(ContractorsOf(LiteralSet, setting.option))
         /\ \E m : IntegerAt(m)'
<1> DEFINE S == ContractorsOf(LiteralSet, setting.option)
           i == MakeInteger(box)
           x == IF setting.option.polytope THEN MakePolytope(LiteralSet) ELSE Id
           y == IF setting.option.acid THEN MakeAcid(LiteralSet) ELSE Id
<1>0. PICK k : k = Len(contractor)
  OBVIOUS
<1>1. contractor \in Seq(S) /\ box \in BoxSet
  BY DEF TypeInv
<1>2. i \in S /\ x \in S /\ y \in S /\ i = MakeInteger(StartBox)
  BY <1>1, MakeIntegerFacts DEF ContractorsOf
<1>3. NoLinear => x = Id /\ y = Id
  BY DEF NoLinear
<1>4. contractor' = ctcs \o <<i>> \o <<x, y>>
  BY DEF Assemble
<1> HIDE DEF S, i, x, y
<1>5. ctcs \in Seq(S) /\ Len(ctcs) = k
  <2>1. CASE ctcs = contractor
    BY <1>0, <1>1, <2>1
  <2>2. CASE ctcs \in Orderings(contractor, setting.option.order)
    <3>1. PICK place \in [DOMAIN contractor -> DOMAIN contractor] : ctcs = [n \in DOMAIN contractor |-> contractor[place[n]]]
      BY <2>2 DEF Orderings, Placements
    <3>2. DOMAIN contractor = 1 .. k /\ k \in Nat
      BY <1>0, <1>1
    <3>3. ctcs = [n \in 1 .. k |-> contractor[place[n]]] /\ \A n \in 1 .. k : contractor[place[n]] \in S
      BY <1>1, <3>1, <3>2
    <3>4. ctcs \in [1 .. k -> S]
      BY <3>3
    <3> QED BY <3>2, <3>4
  <2> QED BY <2>1, <2>2
<1>6. k \in Nat
  BY <1>0, <1>1
<1>7. /\ contractor' \in Seq(S) /\ DOMAIN contractor' = 1 .. k + 3 /\ contractor'[k + 1] = i
      /\ contractor'[k + 2] = x /\ contractor'[k + 3] = y
  BY <1>2, <1>4, <1>5, <1>6
<1>8. \A n \in 1 .. k + 3 : n > k + 1 => n = k + 2 \/ n = k + 3
  BY <1>6
<1>9. NoLinear' = NoLinear
  BY DEF NoLinear
<1>10. IntegerAt(k + 1)'
  <2>1. k + 1 \in DOMAIN contractor'
    BY <1>6, <1>7
  <2>2. NoLinear' => \A n \in DOMAIN contractor' : n > k + 1 => contractor'[n] = Id
    BY <1>3, <1>7, <1>8, <1>9
  <2> QED BY <1>2, <1>7, <2>1, <2>2 DEF IntegerAt
<1> QED BY <1>7, <1>10 DEF S

\* Building the contractor keeps the invariant.
LEMMA BuildContractorBoxInv ==
  ASSUME BoxInv, BuildContractor
  PROVE  BoxInv'
<1> USE DEF BoxInv
<1>0. /\ literals' = literals /\ setting' = setting /\ box' = box /\ next' = next /\ LiteralSet' = LiteralSet
      /\ worklist' = worklist /\ looping' = looping /\ cut' = cut /\ worklist = {}
      /\ pc = "build" /\ stack' = << [box |-> box, cut |-> NoDim] >> /\ pc' = "pop" /\ verdict' = verdict /\ NoLinear' = NoLinear
  BY DEF BuildContractor, LiteralSet, NoLinear, PhaseInv, problem, fixpoint
<1>1. /\ contractor' \in Seq(ContractorsOf(LiteralSet, setting.option))
      /\ \E m : IntegerAt(m)'
  <2>1. CASE literals = <<>>
    <3>1. contractor' = <<MakeInteger(StartBox)>>
      BY <2>1, MakeIntegerFacts DEF BuildContractor, TypeInv
    <3>2. MakeInteger(StartBox) \in ContractorsOf(LiteralSet, setting.option)
      BY BoxSetFacts, MakeIntegerFacts DEF ContractorsOf
    <3> DEFINE i == MakeInteger(StartBox)
    <3>3. DOMAIN contractor' = {1} /\ contractor'[1] = i /\ contractor' \in Seq(ContractorsOf(LiteralSet, setting.option))
      <4> HIDE DEF i
      <4> QED BY <3>1, <3>2 DEF i
    <3>4. IntegerAt(1)'
      BY <3>3 DEF IntegerAt
    <3> QED BY <3>3, <3>4
  <2>2. CASE literals # <<>>
    <3>1. PICK ctcs \in Orderings(contractor, setting.option.order) :
            contractor' = Assemble(ctcs, LiteralSet, box, setting.option)
      BY <2>2 DEF BuildContractor
    <3> QED BY <1>0, <3>1, AssembleFacts
  <2> QED BY <2>1, <2>2
<1>2. stack' \in Seq(Entries)
  <2>1. NoDim \in 0 .. Len(Dims) /\ box \in BoxSet
    BY StartBoxAssumption DEF NoDim, TypeInv
  <2>2. [box |-> box, cut |-> NoDim] \in Entries
    BY <2>1 DEF Entries
  <2> QED BY <1>0, <2>2
<1>3. TypeInv'
  BY <1>0, <1>1, <1>2 DEF TypeInv
<1>4. PhaseInv' /\ RoundedInv'
  BY <1>0, <1>1 DEF PhaseInv, RoundedInv
<1> QED BY <1>3, <1>4

\* Taking a box off the stack keeps the invariant.
LEMMA PopBoxInv ==
  ASSUME BoxInv, Pop
  PROVE  BoxInv'
<1> USE DEF BoxInv
<1>0. /\ literals' = literals /\ setting' = setting /\ contractor' = contractor /\ LiteralSet' = LiteralSet
      /\ pc = "pop" /\ pc' = "prune" /\ verdict' = verdict /\ worklist' = {} /\ looping' = FALSE
      /\ stack # <<>> /\ box' = stack[Len(stack)].box /\ cut' = stack[Len(stack)].cut
      /\ stack' = SubSeq(stack, 1, Len(stack) - 1) /\ next' = FindNext(Round(cut'), 0)
  BY DEF Pop, LiteralSet, FindFirst, problem
<1>1. box' \in BoxSet /\ cut' \in 0 .. Len(Dims) /\ stack' \in Seq(Entries)
  <2>1. stack \in Seq(Entries) /\ stack # <<>>
    BY <1>0 DEF TypeInv
  <2>2. stack[Len(stack)] \in Entries /\ SubSeq(stack, 1, Len(stack) - 1) \in Seq(Entries)
    BY <2>1
  <2> QED BY <1>0, <2>2 DEF Entries
<1>2. /\ next' \in Nat /\ next' >= 1
      /\ \A m \in Round(cut') : next' <= m
  <2>1. Round(cut') \in SUBSET DOMAIN contractor /\ 0 \in Nat /\ \A m \in DOMAIN contractor : 0 < m
    BY RoundFacts DEF TypeInv
  <2> DEFINE S == Round(cut')
  <2>2. S \in SUBSET DOMAIN contractor /\ next' = FindNext(S, 0) /\ \A m \in S : 0 < m
    BY <1>0, <2>1
  <2> HIDE DEF S
  <2>3. next' \in Nat /\ next' >= 1 /\ \A m \in S : next' <= m
    BY <2>1, <2>2, FindNextFacts
  <2> QED BY <2>3 DEF S
<1>3. TypeInv'
  BY <1>0, <1>1, <1>2 DEF TypeInv
<1>4. \A m : IntegerAt(m)' <=> IntegerAt(m)
  BY <1>0 DEF IntegerAt, NoLinear
<1>5. PhaseInv'
  <2>1. ASSUME ~setting.worklist, NEW m \in DOMAIN contractor PROVE ~(m < next')
    <3>1. m \in Round(cut')
      BY <2>1, RoundFacts
    <3> QED BY <1>2, <3>1 DEF TypeInv
  <2> QED BY <1>0, <1>4, <2>1 DEF PhaseInv
<1>6. ASSUME RoundsLast', NEW m, IntegerAt(m), m < next' PROVE Rounded(box')
  <2>1. CASE MakeInteger(StartBox) = Integral
    <3>1. setting.worklist /\ cut' # NoDim => IsInteger(Dims[cut'])
      BY <1>0, <1>6 DEF RoundsLast
    <3>2. m \in Round(cut')
      BY <1>1, <1>6, <2>1, <3>1, IntegerReads
    <3>3. m \in Nat /\ next' <= m
      BY <1>2, <1>6, <3>2 DEF IntegerAt, TypeInv
    <3> QED BY <1>2, <1>6, <3>3
  <2>2. CASE MakeInteger(StartBox) = Id
    BY <1>1, <2>2, MakeIntegerFacts
  <2> QED BY <1>1, <2>1, <2>2, MakeIntegerFacts
<1>7. RoundedInv'
  BY <1>0, <1>4, <1>6 DEF RoundedInv, PhaseInv
<1> QED BY <1>3, <1>5, <1>7

\* What one contractor does to the box.
LEMMA PruneBox ==
  ASSUME BoxInv, Prune
  PROVE  /\ box' \in BoxSet /\ Within(box', box)
         /\ \A p \in AcceptedBy(LiteralSet, V0) : IsIn(box, p) => IsIn(box', p)
         /\ contractor[next] = Integral /\ ~IsEmptyBox(box') => Rounded(box')
         /\ contractor[next] = Id => box' = box
<1> USE DEF BoxInv
<1> DEFINE c == contractor[next]
<1>1. c \in ContractorsOf(LiteralSet, setting.option) /\ box' \in Prunings(c, box)
  BY DEF Prune, TypeInv
<1>2. IsContractor(c, LiteralSet) /\ \A f \in LiteralSet : IsLiteral(f)
  BY <1>1, ContractorsAreContractors, LiteralsAreLiterals DEF TypeInv
<1>3. IsBox(box, V0) /\ DOMAIN box = V0
  BY BoxSetFacts DEF TypeInv
<1> HIDE DEF c
<1>4. Prunes(Prunings(c, box), box, AcceptedBy(LiteralSet, V0))
  BY <1>2, <1>3, PruningsPrune DEF V0
<1>5. box' \in BoxSet /\ Within(box', box) /\ \A p \in AcceptedBy(LiteralSet, V0) : IsIn(box, p) => IsIn(box', p)
  BY <1>1, <1>3, <1>4, BoxSetFacts DEF Prunes
<1>6. c = Integral /\ ~IsEmptyBox(box') => Rounded(box')
  <2> SUFFICES ASSUME c = Integral, ~IsEmptyBox(box') PROVE Rounded(box')
    OBVIOUS
  <2>1. box' = PruneInteger(box)
    BY <1>1 DEF Prunings, Integral
  <2> DEFINE none == {}
  <2>2. \A p \in none : \A v \in V0 : p[v] \in Int /\ (IsInteger(v) => p[v] % 4 = 0)
    OBVIOUS
  <2> HIDE DEF none
  <2>3. ~IsEmptyBox(PruneInteger(box)) => Rounded(PruneInteger(box))
    BY <1>3, <2>2, PruneIntegerPrunes
  <2> QED BY <2>1, <2>3
<1>7. c = Id => box' = box
  BY <1>1 DEF Prunings, Id
<1> QED BY <1>5, <1>6, <1>7 DEF c

\* Pruning keeps the invariant: what comes after the integer contractor does nothing,
\* or wakes it if it moves an integer bound.
LEMMA PruneBoxInv ==
  ASSUME BoxInv, Prune
  PROVE  BoxInv'
<1> USE DEF BoxInv
<1> DEFINE woken == IF setting.worklist THEN worklist \cup Readers(Output(box, box')) ELSE {}
<1>0. /\ literals' = literals /\ setting' = setting /\ contractor' = contractor /\ stack' = stack /\ LiteralSet' = LiteralSet
      /\ looping' = looping /\ cut' = cut
      /\ pc = "prune" /\ verdict' = verdict /\ next <= Len(contractor)
      /\ \/ contractor[next].c = "forall" /\ next' = next /\ worklist' = woken
         \/ ~looping /\ next' = FindNext(Round(cut), next) /\ worklist' = woken
         \/ looping /\ TakeNext(woken)
      /\ pc' = IF IsEmptyBox(box') THEN "pop" ELSE "prune"
  BY DEF Prune, LiteralSet, problem
<1>1. /\ box' \in BoxSet /\ box \in BoxSet
      /\ contractor[next] = Integral /\ ~IsEmptyBox(box') => Rounded(box')
      /\ contractor[next] = Id => box' = box
  BY PruneBox DEF TypeInv
<1>2. woken \in SUBSET DOMAIN contractor /\ next \in Nat /\ next >= 1 /\ next \in DOMAIN contractor
  BY <1>0, RoundFacts DEF TypeInv
<1>3. setting.worklist => woken = worklist \cup Readers(Output(box, box'))
  OBVIOUS
<1> HIDE DEF woken
<1>4. /\ next' \in Nat /\ next' >= 1
      /\ worklist' \in SUBSET DOMAIN contractor /\ woken \ {next'} \subseteq worklist'
      /\ ~looping /\ contractor[next].c # "forall" => \A m \in Round(cut) : next < m => next' <= m
      /\ looping /\ next' > Len(contractor) => worklist' = {}
  <2>1. CASE contractor[next].c = "forall" /\ next' = next /\ worklist' = woken
    BY <1>0, <1>2, <2>1 DEF TypeInv
  <2>2. CASE ~looping /\ next' = FindNext(Round(cut), next) /\ worklist' = woken
    <3>1. Round(cut) \in SUBSET DOMAIN contractor
      BY RoundFacts
    <3>2. next' \in Nat /\ next' >= 1 /\ \A m \in Round(cut) : next < m => next' <= m
      BY <1>2, <2>2, <3>1, FindNextFacts
    <3> QED BY <1>2, <2>2, <3>2
  <2>3. CASE looping /\ TakeNext(woken)
    <3>1. next' \in Nat /\ next' >= 1 /\ worklist' = woken \ {next'} /\ (next' > Len(contractor) => woken = {})
      BY <1>2, <2>3, TakeNextFacts
    <3> QED BY <1>2, <2>3, <3>1
  <2> QED BY <1>0, <2>1, <2>2, <2>3
<1>5. TypeInv'
  BY <1>0, <1>1, <1>4 DEF TypeInv
<1>6. \A m : IntegerAt(m)' <=> IntegerAt(m)
  BY <1>0 DEF IntegerAt, NoLinear
<1>7. PhaseInv'
  BY <1>0, <1>4, <1>6 DEF PhaseInv
<1>8. RoundsLast' = RoundsLast
  BY <1>0 DEF RoundsLast
\* The integer contractor is at m.
<1>9. ASSUME RoundsLast, NEW m, IntegerAt(m), pc' = "prune", ~Rounded(box')
      PROVE  /\ m \in Nat /\ next # m /\ contractor[m] = Integral /\ ~IsEmptyBox(box')
             /\ m \in Round(cut)
             /\ m < next => box' = box
  <2>1. ~IsEmptyBox(box') /\ m \in DOMAIN contractor /\ m \in Nat
    BY <1>0, <1>9 DEF IntegerAt, TypeInv
  <2>2. MakeInteger(StartBox) = Integral
    BY <1>1, <1>9, MakeIntegerFacts
  <2>3. contractor[m] = Integral /\ next # m
    BY <1>1, <1>9, <2>1, <2>2 DEF IntegerAt
  <2>4. NoLinear /\ (setting.worklist /\ cut # NoDim => IsInteger(Dims[cut]))
    BY <1>9 DEF RoundsLast, NoLinear
  <2>5. m \in Round(cut)
    BY <1>9, <2>2, <2>4, IntegerReads DEF TypeInv
  <2>6. m < next => box' = box
    BY <1>1, <1>2, <1>9, <2>4 DEF IntegerAt
  <2> QED BY <2>1, <2>3, <2>5, <2>6
\* A pass.
<1>10. ASSUME RoundsLast, NEW m, IntegerAt(m), pc' = "prune", ~looping, m < next'
       PROVE  Rounded(box')
  <2> SUFFICES ASSUME ~Rounded(box') PROVE FALSE
    OBVIOUS
  <2>1. m \in Nat /\ next # m /\ m \in Round(cut) /\ (m < next => box' = box)
    BY <1>9, <1>10
  <2>2. m < next => Rounded(box)
    BY <1>0, <1>10 DEF RoundedInv
  <2>3. next < m
    BY <1>2, <2>1, <2>2
  <2>4. CASE contractor[next].c = "forall" /\ next' = next
    BY <1>2, <1>10, <2>1, <2>3, <2>4
  <2>5. CASE next' = FindNext(Round(cut), next)
    <3>1. Round(cut) \in SUBSET DOMAIN contractor
      BY RoundFacts
    <3>2. next' <= m
      BY <1>2, <2>1, <2>3, <2>5, <3>1, FindNextFacts
    <3> QED BY <1>4, <1>10, <2>1, <3>2
  <2> QED BY <1>0, <1>10, <2>4, <2>5
\* The loop of a worklist.
<1>11. ASSUME RoundsLast, NEW m, IntegerAt(m), pc' = "prune", looping
       PROVE  Rounded(box') \/ m \in worklist' \/ next' = m
  <2> SUFFICES ASSUME ~Rounded(box') PROVE m \in woken
    BY <1>4
  <2>1. next # m /\ setting.worklist
    BY <1>9, <1>11 DEF PhaseInv
  <2>2. Rounded(box) \/ m \in worklist
    BY <1>0, <1>11, <2>1 DEF RoundedInv
  <2>3. ASSUME Rounded(box) PROVE m \in Readers(Output(box, box'))
    <3>1. \E v \in Output(box, box') : v \in V0 /\ IsInteger(v)
      BY <1>1, <2>3, MovedIsOutput
    <3>2. MakeInteger(StartBox) = Integral
      BY <1>9, <1>11 DEF IntegerAt
    <3> QED BY <1>11, <3>1, <3>2, IntegerReads
  <2> QED BY <1>3, <2>1, <2>2, <2>3
<1>12. RoundedInv'
  BY <1>0, <1>6, <1>8, <1>10, <1>11 DEF RoundedInv, PhaseInv
<1> QED BY <1>5, <1>7, <1>12

\* The end of a pass keeps the invariant: every contractor has pruned.
LEMMA EndPassBoxInv ==
  ASSUME BoxInv, EndPass
  PROVE  BoxInv'
<1> USE DEF BoxInv
<1>0. /\ literals' = literals /\ setting' = setting /\ contractor' = contractor /\ stack' = stack /\ LiteralSet' = LiteralSet
      /\ worklist' = worklist /\ looping' = looping /\ cut' = cut /\ ~setting.worklist
      /\ pc = "prune" /\ verdict' = verdict /\ next > Len(contractor) /\ next' = 1 /\ box' = box
      /\ pc' \in {"prune", "evaluate"}
  BY DEF EndPass, LiteralSet, problem, search
<1>1. TypeInv'
  BY <1>0 DEF TypeInv
<1>2. \A m : IntegerAt(m)' <=> IntegerAt(m)
  BY <1>0 DEF IntegerAt, NoLinear
<1>3. PICK m : IntegerAt(m)
  BY <1>0 DEF PhaseInv
<1>4. m \in DOMAIN contractor /\ m < next /\ ~looping
  BY <1>0, <1>3 DEF IntegerAt, TypeInv, PhaseInv
<1>5. ~IsEmptyBox(box) /\ \A k \in DOMAIN contractor : ~(k < 1)
  BY <1>0, <1>4 DEF TypeInv, PhaseInv
<1>6. PhaseInv'
  BY <1>0, <1>2, <1>4, <1>5 DEF PhaseInv
<1>7. RoundsLast' = RoundsLast
  BY <1>0 DEF RoundsLast
<1>8. RoundsLast => Rounded(box)
  BY <1>0, <1>3, <1>4 DEF RoundedInv
<1>9. RoundedInv'
  BY <1>0, <1>7, <1>8 DEF RoundedInv
<1> QED BY <1>1, <1>6, <1>9

\* So does the return of a worklist: the bounds are integers after the first round,
\* and after the loop nobody is waiting.
LEMMA EndWorklistBoxInv ==
  ASSUME BoxInv, EndWorklist
  PROVE  BoxInv'
<1> USE DEF BoxInv
<1>0. /\ literals' = literals /\ setting' = setting /\ contractor' = contractor /\ stack' = stack /\ LiteralSet' = LiteralSet
      /\ worklist' = {} /\ looping' = FALSE /\ cut' = cut /\ setting.worklist
      /\ pc = "prune" /\ verdict' = verdict /\ next > Len(contractor) /\ next' = 1 /\ box' = box
      /\ pc' = IF IsEmptyBox(box) THEN "pop" ELSE "evaluate"
  BY DEF EndWorklist, LiteralSet, problem, search
<1>1. TypeInv'
  <2>1. 1 \in Nat /\ 1 >= 1 /\ {} \subseteq DOMAIN contractor /\ FALSE \in BOOLEAN
    OBVIOUS
  <2> QED BY <1>0, <2>1 DEF TypeInv
<1>2. \A m : IntegerAt(m)' <=> IntegerAt(m)
  BY <1>0 DEF IntegerAt, NoLinear
<1>3. PICK m : IntegerAt(m)
  BY <1>0 DEF PhaseInv
<1>4. m \in DOMAIN contractor /\ m < next /\ next # m
  BY <1>0, <1>3 DEF IntegerAt, TypeInv
<1>5. PhaseInv'
  BY <1>0, <1>2, <1>3 DEF PhaseInv
<1>6. RoundsLast' = RoundsLast
  BY <1>0 DEF RoundsLast
<1>7. RoundsLast => Rounded(box)
  BY <1>0, <1>3, <1>4 DEF RoundedInv, PhaseInv, TypeInv
<1>8. RoundedInv'
  BY <1>0, <1>6, <1>7 DEF RoundedInv, PhaseInv
<1> QED BY <1>1, <1>5, <1>8

\* The loop of a worklist begins with integer bounds.
LEMMA BeginLoopBoxInv ==
  ASSUME BoxInv, BeginLoop
  PROVE  BoxInv'
<1> USE DEF BoxInv
<1>0. /\ literals' = literals /\ setting' = setting /\ contractor' = contractor /\ stack' = stack /\ LiteralSet' = LiteralSet
      /\ looping' = TRUE /\ cut' = cut /\ setting.worklist /\ worklist # {}
      /\ next' = FindNext(worklist, 0) /\ worklist' = worklist \ {next'}
      /\ pc = "prune" /\ verdict' = verdict /\ next > Len(contractor) /\ box' = box /\ pc' = pc
  BY DEF BeginLoop, LiteralSet, FindFirst, problem, search
<1>1. /\ next' \in Nat /\ next' >= 1 /\ ~(next' > Len(contractor))
      /\ ~looping
  <2>1. worklist \in SUBSET DOMAIN contractor /\ 0 \in Nat /\ \A m \in worklist : 0 < m
    BY DEF TypeInv
  <2>2. next' \in Nat /\ next' >= 1 /\ ~(next' > Len(contractor))
    BY <1>0, <2>1, FindNextFacts
  <2> QED BY <1>0, <2>2 DEF PhaseInv
<1>2. TypeInv'
  BY <1>0, <1>1 DEF TypeInv
<1>3. \A m : IntegerAt(m)' <=> IntegerAt(m)
  BY <1>0 DEF IntegerAt, NoLinear
<1>4. PICK m : IntegerAt(m)
  BY <1>0 DEF PhaseInv
<1>5. m \in DOMAIN contractor /\ m < next
  BY <1>0, <1>4 DEF IntegerAt, TypeInv
<1>6. PhaseInv'
  BY <1>0, <1>1, <1>3 DEF PhaseInv
<1>7. RoundsLast' = RoundsLast
  BY <1>0 DEF RoundsLast
<1>8. RoundsLast => Rounded(box)
  BY <1>0, <1>1, <1>4, <1>5 DEF RoundedInv
<1>9. RoundedInv'
  BY <1>0, <1>7, <1>8 DEF RoundedInv, PhaseInv
<1> QED BY <1>2, <1>6, <1>9

\* The evaluation of a box and an empty stack keep the invariant.
LEMMA DecideBoxInv ==
  ASSUME BoxInv, NoSolution \/ Infeasible \/ EvaluateBox
  PROVE  BoxInv'
<1> USE DEF BoxInv
<1>0. /\ literals' = literals /\ setting' = setting /\ contractor' = contractor /\ stack' = stack /\ LiteralSet' = LiteralSet
      /\ next' = next /\ worklist' = worklist /\ looping' = looping /\ box' = box /\ cut' = cut
      /\ \/ pc' = "done" /\ verdict' = "unsat"
         \/ pc' = "pop" /\ verdict' = verdict /\ pc = "evaluate"
         \/ pc' = "branch" /\ verdict' = verdict /\ pc = "evaluate"
         \/ pc' = "done" /\ verdict' = "delta-sat" /\ pc = "evaluate"
  BY DEF NoSolution, Infeasible, EvaluateBox, Stop, LiteralSet, problem, fixpoint, search
<1>1. TypeInv'
  BY <1>0 DEF TypeInv
<1>2. \A m : IntegerAt(m)' <=> IntegerAt(m)
  BY <1>0 DEF IntegerAt, NoLinear
<1>3. PhaseInv'
  BY <1>0, <1>2 DEF PhaseInv
<1>4. RoundedInv'
  BY <1>0 DEF RoundedInv, RoundsLast, PhaseInv
<1> QED BY <1>1, <1>3, <1>4

\* What a branch does: an answer, or two halves of the box.
LEMMA BranchCases ==
  ASSUME BoxInv, Branch
  PROVE  \/ /\ pc' = "done" /\ verdict' = "delta-sat" /\ stack' = stack
            /\ Candidates(box, active) = {}
         \/ /\ pc' = "pop" /\ verdict' = verdict
            /\ \E v \in V0 : \E one, two \in Entries :
                 /\ v \in active /\ IsBisectable(box[v])
                 /\ stack' = stack \o <<one, two>>
                 /\ {one.box, two.box} = {Bisect(box, v)[1], Bisect(box, v)[2]}
                 /\ IsCut(one.box, box, v) /\ IsCut(two.box, box, v)
<1> USE DEF BoxInv
<1>1. IsBox(box, V0) /\ DOMAIN box = V0
  BY BoxSetFacts DEF TypeInv
<1>2. PICK d \in Chosen(setting.smear, LiteralSet, box, active) :
        IF d = NoDim THEN Stop("delta-sat") /\ UNCHANGED <<stack, leftFirst>>
        ELSE LET halves == Bisect(box, Dims[d])
                 half(n) == [box |-> halves[n], cut |-> d]
                 first == IF leftFirst THEN 1 ELSE 2
             IN  /\ stack' = stack \o << half(3 - first), half(first) >>
                 /\ leftFirst' = ~leftFirst
                 /\ pc' = "pop" /\ UNCHANGED verdict
  BY DEF Branch
<1>3. IF Candidates(box, active) = {} THEN d = NoDim ELSE d \in Candidates(box, active)
  BY <1>1, ChosenFacts DEF V0
<1>4. CASE d = NoDim
  <2>1. Candidates(box, active) = {}
    BY <1>3, <1>4, CandidateFacts
  <2> QED BY <1>2, <1>4, <2>1 DEF Stop
<1>5. CASE d # NoDim
  <2> DEFINE v == Dims[d]
             halves == Bisect(box, v)
  <2>1. v \in V0 /\ v \in active /\ IsBisectable(box[v]) /\ d \in 0 .. Len(Dims)
    BY <1>3, <1>5, CandidateFacts, StartBoxAssumption DEF V0
  <2> DEFINE a == [box |-> halves[1], cut |-> d]
             b == [box |-> halves[2], cut |-> d]
  <2>2. pc' = "pop" /\ verdict' = verdict /\ (stack' = stack \o <<a, b>> \/ stack' = stack \o <<b, a>>)
    <3> DEFINE first == IF leftFirst THEN 1 ELSE 2
               half(n) == [box |-> halves[n], cut |-> d]
    <3>1. pc' = "pop" /\ verdict' = verdict /\ stack' = stack \o <<half(3 - first), half(first)>>
      BY <1>2, <1>5
    <3>2. (first = 1 /\ 3 - first = 2) \/ (first = 2 /\ 3 - first = 1)
      OBVIOUS
    <3>3. a = half(1) /\ b = half(2)
      OBVIOUS
    <3>4. (half(3 - first) = b /\ half(first) = a) \/ (half(3 - first) = a /\ half(first) = b)
      <4> HIDE DEF halves, a, b, first
      <4> QED BY <3>2, <3>3
    <3> HIDE DEF first, halves, a, b, half
    <3> QED BY <3>1, <3>4
  <2> HIDE DEF v
  <2>3. IsCut(halves[1], box, v) /\ IsCut(halves[2], box, v)
    BY <1>1, <2>1, BisectFacts
  <2>4. halves[1] \in BoxSet /\ halves[2] \in BoxSet
    BY <1>1, <2>3, BoxSetFacts DEF IsCut
  <2>5. {a.box, b.box} = {Bisect(box, v)[1], Bisect(box, v)[2]} /\ {b.box, a.box} = {Bisect(box, v)[1], Bisect(box, v)[2]}
    OBVIOUS
  <2>6. a \in Entries /\ b \in Entries
    BY <2>1, <2>4 DEF Entries
  <2>7. IsCut(a.box, box, v) /\ IsCut(b.box, box, v)
    BY <2>3
  <2> HIDE DEF a, b, halves
  <2> QED BY <2>1, <2>2, <2>5, <2>6, <2>7
<1> QED BY <1>4, <1>5

\* A cut keeps the invariant.
LEMMA BranchBoxInv ==
  ASSUME BoxInv, Branch
  PROVE  BoxInv'
<1>0. /\ literals' = literals /\ setting' = setting /\ contractor' = contractor /\ LiteralSet' = LiteralSet
      /\ next' = next /\ worklist' = worklist /\ looping' = looping /\ box' = box /\ cut' = cut /\ pc = "branch"
  BY DEF Branch, LiteralSet, problem, fixpoint
<1>1. /\ \/ pc' = "done" /\ verdict' = "delta-sat"
         \/ pc' = "pop" /\ verdict' = verdict
      /\ stack' \in Seq(Entries)
  <2>1. CASE pc' = "done" /\ verdict' = "delta-sat" /\ stack' = stack
    BY <2>1 DEF BoxInv, TypeInv
  <2>2. CASE pc' = "pop" /\ verdict' = verdict /\ \E one, two \in Entries : stack' = stack \o <<one, two>>
    <3>1. PICK one \in Entries, two \in Entries : stack' = stack \o <<one, two>>
      BY <2>2
    <3>2. stack \in Seq(Entries)
      BY DEF BoxInv, TypeInv
    <3> QED BY <2>2, <3>1, <3>2
  <2> QED BY <2>1, <2>2, BranchCases
<1> USE DEF BoxInv
<1>2. TypeInv'
  BY <1>0, <1>1 DEF TypeInv
<1>3. \A m : IntegerAt(m)' <=> IntegerAt(m)
  BY <1>0 DEF IntegerAt, NoLinear
<1>4. PhaseInv'
  BY <1>0, <1>1, <1>3 DEF PhaseInv
<1>5. RoundedInv'
  BY <1>0, <1>1 DEF RoundedInv, RoundsLast, PhaseInv
<1> QED BY <1>2, <1>4, <1>5

\* In every search, with either fixpoint, the boxes on the stack and at hand are
\* boxes of doubles over the variables with branching points that are
\* dimensions, the contractors are those of the literals, an evaluated or
\* answered box is not empty, and bounds of integers are integers when the
\* integer contractor ran last in the call: until it does the invariant keeps
\* that the contractor is still to come in the pass or on the worklist.
THEOREM BoxesAreRight == Spec => []BoxInv
<1>1. Init => BoxInv
  BY InitBoxInv
<1>2. BoxInv /\ [Next]_vars => BoxInv'
  <2> SUFFICES ASSUME BoxInv, [Next]_vars PROVE BoxInv'
    OBVIOUS
  <2>1. CASE UNCHANGED vars
    BY <2>1 DEF vars, problem, fixpoint, search, BoxInv, TypeInv, PhaseInv, RoundedInv, RoundsLast, IntegerAt, NoLinear, LiteralSet
  <2> QED BY <2>1, AddLiteralBoxInv, BuildContractorBoxInv, PopBoxInv, PruneBoxInv, EndPassBoxInv,
             BeginLoopBoxInv, EndWorklistBoxInv, DecideBoxInv, BranchBoxInv DEF Next
<1> QED BY <1>1, <1>2, PTL DEF Spec

\* Integer variables have integer bounds in every box that is evaluated, cut
\* or answered after a call of the fixpoint that ran the integer contractor
\* last: without --polytope and --acid in every box of a search without a
\* worklist, and with --worklist-fixpoint in the first box and in those cut in
\* an integer variable.
THEOREM IntegerBounds == Spec => []IntegerBoundsAreIntegers
<1>1. BoxInv => IntegerBoundsAreIntegers
  BY DEF BoxInv, RoundedInv, IntegerBoundsAreIntegers, Rounded
<1> QED BY <1>1, BoxesAreRight, PTL

\* Every cut makes two boxes that are smaller in a candidate, no larger in the
\* others and leave no point out; after a call that ran the integer contractor
\* last none of them is empty.
THEOREM Cuts == Spec => CutsAreProper
<1> DEFINE Proper ==
       pc = "branch" /\ pc' = "pop" =>
       LET children == {stack'[Len(stack')].box, stack'[Len(stack') - 1].box}
       IN  /\ \A b \in children :
                /\ ~IsEmptyBox(b) \/ ~RoundsLast
                /\ \A v \in DOMAIN box : box[v].lo <= b[v].lo /\ b[v].hi <= box[v].hi
                /\ \E v \in active : Diam(b[v]) < Diam(box[v])
           /\ \A p \in TypedPoints(box) : \E b \in children : IsIn(b, p)
<1>1. BoxInv /\ [Next]_vars => [Proper]_vars
  <2> SUFFICES ASSUME BoxInv, [Next]_vars, pc = "branch", pc' = "pop" PROVE Proper
    OBVIOUS
  <2>1. Branch
    BY DEF Next, vars, AddLiteral, BuildContractor, Pop, Prune, EndPass, BeginLoop, EndWorklist, NoSolution, Infeasible, EvaluateBox
  <2>2. PICK v \in V0 : \E one, two \in Entries :
                 /\ v \in active /\ IsBisectable(box[v])
                 /\ stack' = stack \o <<one, two>>
                 /\ {one.box, two.box} = {Bisect(box, v)[1], Bisect(box, v)[2]}
                 /\ IsCut(one.box, box, v) /\ IsCut(two.box, box, v)
    BY <2>1, BranchCases
  <2>3. PICK one \in Entries, two \in Entries :
                 /\ v \in active /\ IsBisectable(box[v])
                 /\ stack' = stack \o <<one, two>>
                 /\ {one.box, two.box} = {Bisect(box, v)[1], Bisect(box, v)[2]}
                 /\ IsCut(one.box, box, v) /\ IsCut(two.box, box, v)
    BY <2>2
  <2>4. stack'[Len(stack')] = two /\ stack'[Len(stack') - 1] = one
    BY <2>3 DEF BoxInv, TypeInv
  <2>5. IsBox(box, V0) /\ DOMAIN box = V0 /\ ~IsEmptyBox(box) /\ (RoundsLast => Rounded(box))
    BY BoxSetFacts DEF BoxInv, TypeInv, PhaseInv, RoundedInv
  <2>6. ASSUME NEW b \in {one.box, two.box}
        PROVE  /\ ~IsEmptyBox(b) \/ ~RoundsLast
               /\ \A w \in DOMAIN box : box[w].lo <= b[w].lo /\ b[w].hi <= box[w].hi
               /\ \E w \in active : Diam(b[w]) < Diam(box[w])
    <3>1. IsCut(b, box, v)
      BY <2>3
    <3> QED BY <2>3, <2>5, <3>1 DEF IsCut, Within
  <2>7. ASSUME NEW p \in TypedPoints(box) PROVE IsIn(one.box, p) \/ IsIn(two.box, p)
    <3>1. p \in Points(V0) /\ IsIn(box, p) /\ \A w \in V0 : IsInteger(w) => p[w] % 4 = 0
      BY <2>5, RealPointsType DEF TypedPoints
    <3>2. IsIn(Bisect(box, v)[1], p) \/ IsIn(Bisect(box, v)[2], p)
      BY <2>3, <2>5, <3>1, BisectFacts
    <3> QED BY <2>3, <3>2
  <2> QED BY <2>4, <2>6, <2>7
<1>2. []BoxInv /\ [][Next]_vars => [][Proper]_vars
  BY <1>1, PTL
<1> QED BY <1>2, BoxesAreRight DEF Spec, CutsAreProper

-----------------------------------------------------------------------------
(* Sums and products over finite sets *)

\* A fold depends on the steps of its set only.
LEMMA FoldedAgree ==
  ASSUME NEW S, IsFiniteSet(S), NEW one, NEW two, NEW base, \A x \in S : one[x] = two[x]
  PROVE  Folded(one, base, S) = Folded(two, base, S)
<1>1. PICK f : IsFold(f, one, base, S) /\ Folded(one, base, S) = f[S]
  BY FoldedEquation
<1>2. PICK g : IsFold(g, two, base, S) /\ Folded(two, base, S) = g[S]
  BY FoldedEquation
<1> DEFINE T == {D \in SUBSET S : f[D] = g[D]}
<1>3. ASSUME NEW D \in SUBSET S, \A E \in SUBSET D : E # D => E \in T
      PROVE  D \in T
  <2>1. CASE D = {}
    BY <1>1, <1>2, <2>1 DEF IsFold
  <2>2. CASE D # {}
    <3> DEFINE x == CHOOSE y \in D : TRUE
               R == D \ {x}
    <3>1. R \in T /\ x \in D
      BY <1>3, <2>2
    <3>2. f[D] = one[x][f[R]] /\ g[D] = two[x][g[R]]
      BY <1>1, <1>2, <2>2 DEF IsFold
    <3>3. one[x] = two[x] /\ f[R] = g[R]
      BY <3>1
    <3> HIDE DEF x, R
    <3>4. f[D] = g[D]
      BY <3>2, <3>3
    <3> QED BY <3>4
  <2> QED BY <2>1, <2>2
<1>4. S \in T
  <2> HIDE DEF T
  <2> QED BY <1>3, SubsetInduction
<1> QED BY <1>1, <1>2, <1>4

\* What relates the bases of two folds, and is kept by their steps, relates the folds.
LEMMA FoldedPair ==
  ASSUME NEW S, IsFiniteSet(S), NEW one, NEW two, NEW a, NEW b, NEW R, <<a, b>> \in R,
         \A x \in S : \A m, n : <<m, n>> \in R => <<one[x][m], two[x][n]>> \in R
  PROVE  <<Folded(one, a, S), Folded(two, b, S)>> \in R
<1>1. PICK f : IsFold(f, one, a, S) /\ Folded(one, a, S) = f[S]
  BY FoldedEquation
<1>2. PICK g : IsFold(g, two, b, S) /\ Folded(two, b, S) = g[S]
  BY FoldedEquation
<1> DEFINE T == {D \in SUBSET S : <<f[D], g[D]>> \in R}
<1>3. ASSUME NEW D \in SUBSET S, \A E \in SUBSET D : E # D => E \in T
      PROVE  D \in T
  <2>1. CASE D = {}
    BY <1>1, <1>2, <2>1 DEF IsFold
  <2>2. CASE D # {}
    <3> DEFINE x == CHOOSE y \in D : TRUE
               Q == D \ {x}
    <3>1. Q \in T /\ x \in D
      BY <1>3, <2>2
    <3>2. f[D] = one[x][f[Q]] /\ g[D] = two[x][g[Q]]
      BY <1>1, <1>2, <2>2 DEF IsFold
    <3>3. x \in S /\ <<f[Q], g[Q]>> \in R
      BY <3>1
    <3> HIDE DEF x, Q
    <3>4. <<f[D], g[D]>> \in R
      BY <3>2, <3>3
    <3> QED BY <3>4
  <2> QED BY <2>1, <2>2
<1>4. S \in T
  <2> HIDE DEF T
  <2> QED BY <1>3, SubsetInduction
<1> QED BY <1>1, <1>2, <1>4

\* The sum of g over D.
Total(g, D) == SumOver([x \in D |-> g[x]])

\* A sum is a number, and any of its terms can be taken out.
LEMMA TotalFacts ==
  ASSUME NEW D, IsFiniteSet(D), NEW g, \A x \in D : g[x] \in Int
  PROVE  /\ Total(g, {}) = 0
         /\ \A E \in SUBSET D : Total(g, E) \in Int /\ \A x \in E : Total(g, E) = Total(g, E \ {x}) + g[x]
<1> DEFINE stp == [x \in D |-> [n \in Int |-> n + g[x]]]
           F(E) == Folded(stp, 0, E)
<1>1. ASSUME NEW E \in SUBSET D PROVE Total(g, E) = F(E)
  <2> DEFINE h == [x \in E |-> g[x]]
             mine == [x \in DOMAIN h |-> [n \in Int |-> n + h[x]]]
  <2>1. Total(g, E) = Folded(mine, 0, E)
    BY DEF Total, SumOver
  <2>2. \A x \in E : mine[x] = stp[x]
    OBVIOUS
  <2>3. IsFiniteSet(E)
    BY FS_Subset
  <2> HIDE DEF mine, stp
  <2> QED BY <2>1, <2>2, <2>3, FoldedAgree
<1>2. F({}) = 0
  BY FoldedEmpty
<1>3. ASSUME NEW E \in SUBSET D, E # {}
      PROVE  LET c == CHOOSE y \in E : TRUE IN F(E) = stp[c][F(E \ {c})]
  <2>1. IsFiniteSet(E)
    BY FS_Subset
  <2> HIDE DEF stp
  <2> QED BY <1>3, <2>1, FoldedStep
<1>4. \A x \in D : \A n \in Int : stp[x][n] = n + g[x]
  OBVIOUS
<1> HIDE DEF stp, F
<1> DEFINE T == {E \in SUBSET D : F(E) \in Int /\ \A x \in E : F(E) = F(E \ {x}) + g[x]}
<1>5. ASSUME NEW E \in SUBSET D, \A C \in SUBSET E : C # E => C \in T
      PROVE  E \in T
  <2>1. CASE E = {}
    BY <1>2, <2>1
  <2>2. CASE E # {}
    <3> DEFINE c == CHOOSE y \in E : TRUE
    <3>1. c \in E /\ F(E) = stp[c][F(E \ {c})]
      BY <1>3, <2>2
    <3> HIDE DEF c
    <3>2. F(E \ {c}) \in Int
      BY <1>5, <3>1
    <3>3. F(E) = F(E \ {c}) + g[c] /\ F(E) \in Int
      BY <1>4, <3>1, <3>2
    <3>4. ASSUME NEW x \in E, x # c PROVE F(E) = F(E \ {x}) + g[x]
      <4> DEFINE A == E \ {c}
                 B == E \ {x}
                 C == (E \ {c}) \ {x}
      <4>1. A \in T /\ B \in T /\ x \in A /\ c \in B
        BY <1>5, <3>1, <3>4
      <4>2. A \ {x} = C /\ B \ {c} = C /\ C \in T
        BY <1>5, <3>1
      <4>3. F(A) = F(A \ {x}) + g[x] /\ F(B) = F(B \ {c}) + g[c] /\ F(C) \in Int
        BY <4>1, <4>2
      <4>4. F(A) = F(C) + g[x] /\ F(B) = F(C) + g[c]
        BY <4>2, <4>3
      <4>5. F(E) = F(A) + g[c]
        BY <3>3
      <4>6. g[x] \in Int /\ g[c] \in Int
        BY <3>1, <3>4
      <4> HIDE DEF A, B, C
      <4>7. F(E) = F(B) + g[x]
        BY <4>3, <4>4, <4>5, <4>6
      <4> QED BY <4>7 DEF B
    <3> QED BY <3>3, <3>4
  <2> QED BY <2>1, <2>2
<1> HIDE DEF T
<1>6. SUBSET D \subseteq T
  BY <1>5, SubsetInduction
<1>7. \A E \in SUBSET D : F(E) \in Int /\ \A x \in E : F(E) = F(E \ {x}) + g[x]
  BY <1>6 DEF T
<1>8. \A E \in SUBSET D : \A x \in E : E \ {x} \in SUBSET D
  OBVIOUS
<1>9. Total(g, {}) = 0
  BY <1>1, <1>2
<1>10. \A E \in SUBSET D : Total(g, E) \in Int /\ \A x \in E : Total(g, E) = Total(g, E \ {x}) + g[x]
  BY <1>1, <1>7, <1>8
<1> QED BY <1>9, <1>10

\* The sum of differences is the difference of the sums.
LEMMA TotalDifference ==
  ASSUME NEW D, IsFiniteSet(D), NEW f, NEW g, NEW h,
         \A x \in D : f[x] \in Int /\ g[x] \in Int /\ h[x] = f[x] - g[x]
  PROVE  Total(h, D) = Total(f, D) - Total(g, D)
<1> DEFINE T == {E \in SUBSET D : Total(h, E) = Total(f, E) - Total(g, E)}
<1>1. \A x \in D : h[x] \in Int
  OBVIOUS
<1>2. /\ Total(f, {}) = 0
      /\ \A E \in SUBSET D : Total(f, E) \in Int /\ \A x \in E : Total(f, E) = Total(f, E \ {x}) + f[x]
  BY TotalFacts
<1>4. /\ Total(g, {}) = 0
      /\ \A E \in SUBSET D : Total(g, E) \in Int /\ \A x \in E : Total(g, E) = Total(g, E \ {x}) + g[x]
  BY TotalFacts
<1>5. /\ Total(h, {}) = 0
      /\ \A E \in SUBSET D : Total(h, E) \in Int /\ \A x \in E : Total(h, E) = Total(h, E \ {x}) + h[x]
  BY <1>1, TotalFacts
<1>3. ASSUME NEW E \in SUBSET D, \A C \in SUBSET E : C # E => C \in T
      PROVE  E \in T
  <2>1. CASE E = {}
    BY <1>2, <1>4, <1>5, <2>1
  <2>2. CASE E # {}
    <3>1. PICK x : x \in E
      BY <2>2
    <3> DEFINE C == E \ {x}
    <3>2. C \in SUBSET D /\ C \in T
      BY <1>3, <3>1
    <3>3. /\ Total(f, E) = Total(f, C) + f[x] /\ Total(g, E) = Total(g, C) + g[x]
          /\ Total(h, E) = Total(h, C) + h[x] /\ Total(h, C) = Total(f, C) - Total(g, C)
          /\ Total(f, C) \in Int /\ Total(g, C) \in Int
      BY <1>2, <1>4, <1>5, <3>1, <3>2
    <3>4. f[x] \in Int /\ g[x] \in Int /\ h[x] = f[x] - g[x]
      BY <3>1
    <3> HIDE DEF C
    <3>5. Total(h, E) = Total(f, E) - Total(g, E)
      BY <3>3, <3>4
    <3> QED BY <3>5
  <2> QED BY <2>1, <2>2
<1>6. D \in T
  <2> HIDE DEF T
  <2> QED BY <1>3, SubsetInduction
<1> QED BY <1>6

\* Terms that are zero may be left out.
LEMMA TotalZeros ==
  ASSUME NEW D, IsFiniteSet(D), NEW g, \A x \in D : g[x] \in Int,
         NEW E \in SUBSET D, \A x \in D : x \notin E => g[x] = 0
  PROVE  Total(g, E) = Total(g, D)
<1> DEFINE T == {C \in SUBSET D : E \subseteq C => Total(g, E) = Total(g, C)}
<1>1. ASSUME NEW C \in SUBSET D, \A B \in SUBSET C : B # C => B \in T
      PROVE  C \in T
  <2>1. CASE C \subseteq E
    BY <2>1
  <2>2. CASE ~(C \subseteq E)
    <3>1. PICK x \in C : x \notin E
      BY <2>2
    <3> DEFINE B == C \ {x}
    <3>2. B \in T /\ B \in SUBSET D /\ (E \subseteq C => E \subseteq B)
      BY <1>1, <3>1
    <3>3. Total(g, C) = Total(g, B) + g[x] /\ g[x] = 0 /\ Total(g, B) \in Int
      BY <3>1, <3>2, TotalFacts
    <3> HIDE DEF B
    <3>4. Total(g, C) = Total(g, B)
      BY <3>3
    <3> QED BY <3>2, <3>4
  <2> QED BY <2>1, <2>2
<1>2. D \in T
  <2> HIDE DEF T
  <2> QED BY <1>1, SubsetInduction
<1> QED BY <1>2

\* A sum of larger terms is larger.
LEMMA TotalOrder ==
  ASSUME NEW D, IsFiniteSet(D), NEW f, NEW g, \A x \in D : f[x] \in Int /\ g[x] \in Int /\ f[x] <= g[x]
  PROVE  Total(f, D) <= Total(g, D)
<1> DEFINE T == {E \in SUBSET D : Total(f, E) <= Total(g, E)}
<1>2. /\ Total(f, {}) = 0 /\ Total(g, {}) = 0
      /\ \A E \in SUBSET D : /\ Total(f, E) \in Int /\ \A x \in E : Total(f, E) = Total(f, E \ {x}) + f[x]
                             /\ Total(g, E) \in Int /\ \A x \in E : Total(g, E) = Total(g, E \ {x}) + g[x]
  BY TotalFacts
<1>3. ASSUME NEW E \in SUBSET D, \A C \in SUBSET E : C # E => C \in T
      PROVE  E \in T
  <2>1. CASE E = {}
    BY <1>2, <2>1
  <2>2. CASE E # {}
    <3>1. PICK x : x \in E
      BY <2>2
    <3> DEFINE C == E \ {x}
    <3>2. C \in SUBSET D /\ C \in T
      BY <1>3, <3>1
    <3>3. /\ Total(f, E) = Total(f, C) + f[x] /\ Total(g, E) = Total(g, C) + g[x]
          /\ Total(f, C) <= Total(g, C) /\ Total(f, C) \in Int /\ Total(g, C) \in Int
      BY <1>2, <3>1, <3>2
    <3>4. f[x] \in Int /\ g[x] \in Int /\ f[x] <= g[x]
      BY <3>1
    <3> HIDE DEF C
    <3>5. Total(f, E) <= Total(g, E)
      BY <3>3, <3>4
    <3> QED BY <3>5
  <2> QED BY <2>1, <2>2
<1>4. D \in T
  <2> HIDE DEF T
  <2> QED BY <1>3, SubsetInduction
<1> QED BY <1>4

-----------------------------------------------------------------------------
(* Interval arithmetic *)

\* An interval and a number in it.
Encloses(iv, x) == iv \in Intervals /\ x \in Int /\ Contains(iv, x)

\* The bounds of an interval.
LEMMA IntervalFacts ==
  /\ \A iv \in Intervals : iv.lo \in Int /\ iv.hi \in Int
  /\ \A l, h \in Int : Interval(l, h) \in Intervals /\ Interval(l, h).lo = l /\ Interval(l, h).hi = h
  /\ \A x \in Int : Encloses(Point(x), x)
BY DEF Intervals, Interval, Point, Contains, Encloses

\* A product grows with its factors.
LEMMA ProductOrder ==
  ASSUME NEW a \in Int, NEW b \in Int, NEW c \in Int, a <= b
  PROVE  /\ a * c \in Int /\ b * c \in Int
         /\ c >= 0 => a * c <= b * c /\ c * a <= c * b
         /\ c <= 0 => b * c <= a * c /\ c * b <= c * a
<1>1. b - a \in Nat
  OBVIOUS
<1>2. a * c \in Int /\ b * c \in Int /\ (b - a) * c = b * c - a * c
  OBVIOUS
<1>3. c >= 0 => (b - a) * c >= 0
  BY <1>1
<1>4. c <= 0 => (b - a) * c <= 0
  BY <1>1
<1>5. c * a = a * c /\ c * b = b * c
  OBVIOUS
<1> QED BY <1>2, <1>3, <1>4, <1>5

\* The least and the greatest of four numbers.
LEMMA LeastGreatest4 ==
  ASSUME NEW a \in Int, NEW b \in Int, NEW c \in Int, NEW d \in Int
  PROVE  /\ Least4(a, b, c, d) \in Int /\ Greatest4(a, b, c, d) \in Int
         /\ \A x \in {a, b, c, d} : Least4(a, b, c, d) <= x /\ x <= Greatest4(a, b, c, d)
BY DEF Least4, Greatest4, Smaller, Larger

\* A number between two others times y.
LEMMA ProductBetween ==
  ASSUME NEW l \in Int, NEW h \in Int, NEW x \in Int, l <= x, x <= h, NEW y \in Int
  PROVE  (l * y <= x * y /\ x * y <= h * y) \/ (h * y <= x * y /\ x * y <= l * y)
<1>1. CASE y >= 0
  BY <1>1, ProductOrder
<1>2. CASE y <= 0
  BY <1>2, ProductOrder
<1> QED BY <1>1, <1>2

\* The product of two intervals has the products of their numbers.
LEMMA TimesEncloses ==
  ASSUME NEW i, NEW x, Encloses(i, x), NEW j, NEW y, Encloses(j, y)
  PROVE  Encloses(TimesI(i, j), x * y)
<1>1. /\ i.lo \in Int /\ i.hi \in Int /\ x \in Int /\ i.lo <= x /\ x <= i.hi
      /\ j.lo \in Int /\ j.hi \in Int /\ y \in Int /\ j.lo <= y /\ y <= j.hi
  BY IntervalFacts DEF Encloses, Contains
<1> DEFINE a == i.lo * j.lo
           b == i.lo * j.hi
           c == i.hi * j.lo
           d == i.hi * j.hi
           l == Least4(a, b, c, d)
           h == Greatest4(a, b, c, d)
<1>2. a \in Int /\ b \in Int /\ c \in Int /\ d \in Int /\ x * y \in Int /\ i.lo * y \in Int /\ i.hi * y \in Int
  BY <1>1
<1>3. (i.lo * y <= x * y /\ x * y <= i.hi * y) \/ (i.hi * y <= x * y /\ x * y <= i.lo * y)
  BY <1>1, ProductBetween
<1>4. (a <= i.lo * y /\ i.lo * y <= b) \/ (b <= i.lo * y /\ i.lo * y <= a)
  <2>1. (j.lo * i.lo <= y * i.lo /\ y * i.lo <= j.hi * i.lo) \/ (j.hi * i.lo <= y * i.lo /\ y * i.lo <= j.lo * i.lo)
    BY <1>1, ProductBetween
  <2>2. j.lo * i.lo = a /\ j.hi * i.lo = b /\ y * i.lo = i.lo * y
    BY <1>1
  <2> QED BY <2>1, <2>2
<1>5. (c <= i.hi * y /\ i.hi * y <= d) \/ (d <= i.hi * y /\ i.hi * y <= c)
  <2>1. (j.lo * i.hi <= y * i.hi /\ y * i.hi <= j.hi * i.hi) \/ (j.hi * i.hi <= y * i.hi /\ y * i.hi <= j.lo * i.hi)
    BY <1>1, ProductBetween
  <2>2. j.lo * i.hi = c /\ j.hi * i.hi = d /\ y * i.hi = i.hi * y
    BY <1>1
  <2> QED BY <2>1, <2>2
<1>6. TimesI(i, j) = Interval(l, h)
  BY DEF TimesI
<1> DEFINE u == i.lo * y
           v == i.hi * y
           w == x * y
<1> HIDE DEF a, b, c, d, u, v, w
<1>7. /\ l \in Int /\ h \in Int
      /\ l <= a /\ l <= b /\ l <= c /\ l <= d /\ a <= h /\ b <= h /\ c <= h /\ d <= h
  BY <1>2, LeastGreatest4
<1> HIDE DEF l, h
<1>8. /\ u \in Int /\ v \in Int /\ w \in Int
      /\ (u <= w /\ w <= v) \/ (v <= w /\ w <= u)
      /\ (a <= u /\ u <= b) \/ (b <= u /\ u <= a)
      /\ (c <= v /\ v <= d) \/ (d <= v /\ v <= c)
  BY <1>2, <1>3, <1>4, <1>5 DEF u, v, w
<1>9. l <= w /\ w <= h
  BY <1>2, <1>7, <1>8
<1>10. Encloses(TimesI(i, j), w)
  BY <1>6, <1>7, <1>8, <1>9, IntervalFacts DEF Encloses, Contains
<1> QED BY <1>10 DEF w

\* The square of an interval has the squares of its numbers.
LEMMA SqrEncloses ==
  ASSUME NEW i, NEW x, Encloses(i, x)
  PROVE  Encloses(SqrI(i), x * x)
<1>1. i.lo \in Int /\ i.hi \in Int /\ x \in Int /\ i.lo <= x /\ x <= i.hi
  BY IntervalFacts DEF Encloses, Contains
<1> DEFINE a == i.lo * i.lo
           b == i.hi * i.hi
           w == x * x
           l == IF Contains(i, 0) THEN 0 ELSE Smaller(a, b)
           h == Larger(a, b)
<1>2. SqrI(i) = Interval(l, h)
  BY DEF SqrI
<1>3. a \in Int /\ b \in Int /\ w \in Int /\ w >= 0
  BY <1>1
<1>4. x >= 0 => w <= b
  <2> SUFFICES ASSUME x >= 0 PROVE w <= b
    OBVIOUS
  <2>1. x * x <= i.hi * x /\ i.hi * x <= i.hi * i.hi
    BY <1>1, ProductOrder
  <2>2. i.hi * x \in Int
    BY <1>1
  <2> QED BY <1>3, <2>1, <2>2
<1>5. x <= 0 => w <= a
  <2> SUFFICES ASSUME x <= 0 PROVE w <= a
    OBVIOUS
  <2>1. x * x <= i.lo * x /\ i.lo * x <= i.lo * i.lo
    BY <1>1, ProductOrder
  <2>2. i.lo * x \in Int
    BY <1>1
  <2> QED BY <1>3, <2>1, <2>2
<1>6. i.lo > 0 => a <= w
  <2> SUFFICES ASSUME i.lo > 0 PROVE a <= w
    OBVIOUS
  <2>1. i.lo * i.lo <= x * i.lo /\ x * i.lo <= x * x
    BY <1>1, ProductOrder
  <2>2. x * i.lo \in Int
    BY <1>1
  <2> QED BY <1>3, <2>1, <2>2
<1>7. i.hi < 0 => b <= w
  <2> SUFFICES ASSUME i.hi < 0 PROVE b <= w
    OBVIOUS
  <2>1. i.hi * i.hi <= x * i.hi /\ x * i.hi <= x * x
    BY <1>1, ProductOrder
  <2>2. x * i.hi \in Int
    BY <1>1
  <2> QED BY <1>3, <2>1, <2>2
<1>8. ~Contains(i, 0) <=> i.lo > 0 \/ i.hi < 0
  BY <1>1 DEF Contains
<1> HIDE DEF a, b, w
<1>9. l \in Int /\ h \in Int /\ l <= w /\ w <= h
  BY <1>1, <1>3, <1>4, <1>5, <1>6, <1>7, <1>8 DEF Smaller, Larger
<1> HIDE DEF l, h
<1>10. Encloses(SqrI(i), w)
  BY <1>2, <1>3, <1>9, IntervalFacts DEF Encloses, Contains
<1> QED BY <1>10 DEF w

\* The library's absolute value, minimum, maximum and negation.
LEMMA LibraryEncloses ==
  ASSUME NEW i, NEW x, Encloses(i, x)
  PROVE  /\ Encloses(AbsI(i), Larger(x, -x))
         /\ Encloses(NegateI(i), -x)
         /\ Encloses(Outward(i), x)
<1>1. i.lo \in Int /\ i.hi \in Int /\ x \in Int /\ i.lo <= x /\ x <= i.hi
  BY IntervalFacts DEF Encloses, Contains
<1>2. Encloses(AbsI(i), Larger(x, -x))
  BY <1>1 DEF AbsI, Interval, Intervals, Encloses, Contains, Larger, Smaller, Magnitude
<1>3. Encloses(NegateI(i), -x)
  BY <1>1 DEF NegateI, Interval, Intervals, Encloses, Contains
<1>4. Down(i.lo) \in Int /\ Down(i.lo) <= i.lo /\ Up(i.hi) \in Int /\ i.hi <= Up(i.hi)
  BY <1>1, DownUp
<1>5. Encloses(Outward(i), x)
  BY <1>1, <1>4 DEF Outward, Interval, Intervals, Encloses, Contains
<1> QED BY <1>2, <1>3, <1>5

\* The library's minimum and maximum.
LEMMA MinMaxEncloses ==
  ASSUME NEW i, NEW x, Encloses(i, x), NEW j, NEW y, Encloses(j, y)
  PROVE  /\ Encloses(Interval(Smaller(i.lo, j.lo), Smaller(i.hi, j.hi)), Smaller(x, y))
         /\ Encloses(Interval(Larger(i.lo, j.lo), Larger(i.hi, j.hi)), Larger(x, y))
<1>1. /\ i.lo \in Int /\ i.hi \in Int /\ x \in Int /\ i.lo <= x /\ x <= i.hi
      /\ j.lo \in Int /\ j.hi \in Int /\ y \in Int /\ j.lo <= y /\ y <= j.hi
  BY IntervalFacts DEF Encloses, Contains
<1> QED BY <1>1 DEF Interval, Intervals, Encloses, Contains, Larger, Smaller

\* The sum of intervals has the sums of their numbers.
LEMMA SumEncloses ==
  ASSUME NEW D, IsFiniteSet(D), NEW c \in Int, NEW g, DOMAIN g = D, NEW v, v = [x \in D |-> v[x]],
         \A x \in D : Encloses(g[x], v[x])
  PROVE  SumOver(v) \in Int /\ Encloses(SumI(c, g), c + SumOver(v))
<1> DEFINE lo == [x \in D |-> g[x].lo]
           hi == [x \in D |-> g[x].hi]
<1>1. \A x \in D : v[x] \in Int /\ lo[x] \in Int /\ hi[x] \in Int /\ lo[x] <= v[x] /\ v[x] <= hi[x]
  BY IntervalFacts DEF Encloses, Contains
<1>2. SumOver(v) = Total(v, D) /\ SumOver(lo) = Total(lo, D) /\ SumOver(hi) = Total(hi, D)
  BY DEF Total
<1>3. SumI(c, g) = Interval(c + SumOver(lo), c + SumOver(hi))
  BY DEF SumI
<1> HIDE DEF lo, hi
<1>4. D \in SUBSET D
  OBVIOUS
<1>5. Total(v, D) \in Int
  BY <1>1, <1>4, TotalFacts
<1>6. Total(lo, D) \in Int
  BY <1>1, <1>4, TotalFacts
<1>7. Total(hi, D) \in Int
  BY <1>1, <1>4, TotalFacts
<1>8. Total(lo, D) <= Total(v, D)
  BY <1>1, TotalOrder
<1>9. Total(v, D) <= Total(hi, D)
  BY <1>1, TotalOrder
<1> DEFINE l == c + Total(lo, D)
           h == c + Total(hi, D)
           w == c + Total(v, D)
<1>10. l \in Int /\ h \in Int /\ w \in Int /\ l <= w /\ w <= h
  BY <1>5, <1>6, <1>7, <1>8, <1>9
<1>11. SumI(c, g) = Interval(l, h) /\ w = c + SumOver(v)
  BY <1>2, <1>3
<1> HIDE DEF l, h, w
<1>12. Encloses(SumI(c, g), w)
  BY <1>10, <1>11, IntervalFacts DEF Encloses, Contains
<1> QED BY <1>2, <1>5, <1>11, <1>12

\* The product of intervals has the products of their numbers.
LEMMA ProductEncloses ==
  ASSUME NEW D, IsFiniteSet(D), NEW c \in Int, NEW g, DOMAIN g = D, NEW v, DOMAIN v = D,
         \A x \in D : Encloses(g[x], v[x])
  PROVE  ProductOver(v) \in Int /\ Encloses(ProductI(c, g), c * ProductOver(v))
<1> DEFINE one == [x \in D |-> [iv \in Intervals |-> TimesI(iv, g[x])]]
           two == [x \in D |-> [n \in Int |-> n * v[x]]]
           R == {r \in Intervals \X Int : Encloses(r[1], c * r[2])}
           base == 1
<1>1. ProductI(c, g) = Folded(one, Point(c), D) /\ ProductOver(v) = Folded(two, base, D)
  BY DEF ProductI, ProductOver
<1>2. <<Point(c), base>> \in R
  <2>1. c * 1 = c /\ Encloses(Point(c), c)
    BY IntervalFacts
  <2> QED BY <2>1 DEF Encloses
<1>3. ASSUME NEW x \in D, NEW m, NEW n, <<m, n>> \in R PROVE <<one[x][m], two[x][n]>> \in R
  <2>1. m \in Intervals /\ n \in Int /\ Encloses(m, c * n)
    BY <1>3
  <2>2. Encloses(g[x], v[x]) /\ v[x] \in Int
    BY DEF Encloses
  <2>3. one[x][m] = TimesI(m, g[x]) /\ two[x][n] = n * v[x]
    BY <2>1
  <2>4. Encloses(TimesI(m, g[x]), (c * n) * v[x])
    BY <2>1, <2>2, TimesEncloses
  <2>5. (c * n) * v[x] = c * (n * v[x]) /\ n * v[x] \in Int
    BY <2>1, <2>2
  <2> QED BY <2>3, <2>4, <2>5 DEF Encloses
<1> HIDE DEF one, two, base
<1>4. <<Folded(one, Point(c), D), Folded(two, base, D)>> \in R
  <2> HIDE DEF R
  <2> QED BY <1>2, <1>3, FoldedPair
<1> QED BY <1>1, <1>4

\* A power of an interval has the powers of its numbers.
LEMMA PowerEncloses ==
  ASSUME NEW i, NEW x, Encloses(i, x), NEW n \in Nat
  PROVE  Power(x, n) \in Int /\ Encloses(PowI(i, n), Power(x, n))
<1> DEFINE g == [j \in 1 .. n |-> i]
           v == [j \in 1 .. n |-> x]
<1>1. IsFiniteSet(1 .. n)
  BY FS_Interval
<1>2. DOMAIN g = 1 .. n /\ DOMAIN v = 1 .. n /\ \A j \in 1 .. n : Encloses(g[j], v[j])
  OBVIOUS
<1>3. PowI(i, n) = ProductI(1, g) /\ Power(x, n) = ProductOver(v)
  BY DEF PowI, Power
<1> HIDE DEF g, v
<1>4. ProductOver(v) \in Int /\ Encloses(ProductI(1, g), 1 * ProductOver(v))
  BY <1>1, <1>2, ProductEncloses
<1>5. 1 * ProductOver(v) = ProductOver(v)
  BY <1>4
<1> QED BY <1>3, <1>4, <1>5

\* The first and the second power.
LEMMA SmallPowers ==
  ASSUME NEW x \in Int
  PROVE  Power(x, 1) = x /\ Power(x, 2) = x * x
<1> DEFINE stp(n) == [j \in 1 .. n |-> [m \in Int |-> m * x]]
           one == 1
<1>1. \A n : Power(x, n) = Folded(stp(n), one, 1 .. n)
  <2> TAKE n
  <2> DEFINE v == [j \in 1 .. n |-> x]
  <2>1. Power(x, n) = ProductOver(v) /\ stp(n) = [j \in DOMAIN v |-> [m \in Int |-> m * v[j]]] /\ DOMAIN v = 1 .. n
    BY DEF Power
  <2> QED BY <2>1 DEF ProductOver
<1>2. \A n : \A j \in 1 .. n : stp(n)[j] = [m \in Int |-> m * x]
  OBVIOUS
<1>3. one \in Int /\ one * x = x
  OBVIOUS
<1> HIDE DEF stp, one
<1>4. ASSUME NEW n, NEW j \in 1 .. n PROVE Folded(stp(n), one, {j}) = x
  <2>1. IsFiniteSet({j}) /\ {j} # {} /\ (CHOOSE y \in {j} : TRUE) = j /\ {j} \ {j} = {}
    BY FS_Singleton
  <2>2. Folded(stp(n), one, {j}) = stp(n)[j][Folded(stp(n), one, {})]
    BY <2>1, FoldedStep
  <2>3. Folded(stp(n), one, {}) = one
    BY FoldedEmpty
  <2> QED BY <1>2, <1>3, <2>2, <2>3
<1>5. Power(x, 1) = x
  <2>1. 1 .. 1 = {1} /\ 1 \in 1 .. 1
    OBVIOUS
  <2> QED BY <1>1, <1>4, <2>1
<1>6. Power(x, 2) = x * x
  <2> DEFINE S == 1 .. 2
             j == CHOOSE y \in S : TRUE
  <2>0. 1 \in Int /\ 2 \in Int
    OBVIOUS
  <2>1. IsFiniteSet(S) /\ S # {}
    <3>1. 1 \in S
      OBVIOUS
    <3>2. IsFiniteSet(S)
      BY <2>0, FS_Interval
    <3> QED BY <3>1, <3>2
  <2>2. j \in S
    BY <2>1
  <2>3. Folded(stp(2), one, S) = stp(2)[j][Folded(stp(2), one, S \ {j})]
    <3> HIDE DEF S
    <3> QED BY <2>1, FoldedStep
  <2> HIDE DEF j
  <2>4. \E k \in S : S \ {j} = {k}
    <3>1. CASE j = 1
      <4>1. S \ {j} = {2} /\ 2 \in S
        BY <3>1
      <4> QED BY <4>1
    <3>2. CASE j = 2
      <4>1. S \ {j} = {1} /\ 1 \in S
        BY <3>2
      <4> QED BY <4>1
    <3>3. j = 1 \/ j = 2
      BY <2>2
    <3> QED BY <3>1, <3>2, <3>3
  <2>5. PICK k \in S : S \ {j} = {k}
    BY <2>4
  <2>6. Folded(stp(2), one, S \ {j}) = x
    BY <1>4, <2>5
  <2>7. stp(2)[j][x] = x * x
    BY <1>2, <2>2
  <2> QED BY <1>1, <2>3, <2>6, <2>7
<1> QED BY <1>5, <1>6

-----------------------------------------------------------------------------
(* Division *)

\* The quotient rounded down, by its definition.
LEMMA FloorFacts ==
  ASSUME NEW n \in Int, NEW d \in Int, d > 0
  PROVE  n \div d \in Int /\ d * (n \div d) <= n /\ n < d * (n \div d) + d
OBVIOUS

\* What is less than one more is not larger.
LEMMA Cancel ==
  ASSUME NEW d \in Int, d > 0, NEW q \in Int, NEW r \in Int, d * q < d * r + d
  PROVE  q <= r
<1> SUFFICES ASSUME r + 1 <= q PROVE FALSE
  OBVIOUS
<1>1. d * (r + 1) <= d * q
  BY ProductOrder
<1>2. d * (r + 1) = d * r + d /\ d * r \in Int /\ d * q \in Int
  OBVIOUS
<1> QED BY <1>1, <1>2

\* How a quotient changes with its operands.
LEMMA FloorOrder ==
  ASSUME NEW n \in Int, NEW m \in Int, n <= m, NEW d \in Int, NEW e \in Int, 0 < d, d <= e
  PROVE  /\ n \div d <= m \div d
         /\ n >= 0 => n \div e <= n \div d
         /\ n <= 0 => n \div d <= n \div e
<1> DEFINE nd == n \div d
           md == m \div d
           ne == n \div e
<1>1. /\ nd \in Int /\ d * nd <= n /\ n < d * nd + d
      /\ md \in Int /\ d * md <= m /\ m < d * md + d
      /\ ne \in Int /\ e * ne <= n /\ n < e * ne + e
  BY FloorFacts
<1> HIDE DEF nd, md, ne
<1>2. d * nd \in Int /\ d * md \in Int /\ e * ne \in Int /\ d * ne \in Int /\ e * nd \in Int
  BY <1>1
<1>3. nd <= md
  <2>1. d * nd < d * md + d
    BY <1>1, <1>2
  <2> QED BY <1>1, <2>1, Cancel
<1>4. n >= 0 => ne <= nd
  <2> SUFFICES ASSUME n >= 0 PROVE ne <= nd
    OBVIOUS
  <2>1. ne >= 0
    <3>1. e * 0 < e * ne + e
      BY <1>1, <1>2
    <3> QED BY <1>1, <3>1, Cancel
  <2>2. d * ne <= e * ne
    BY <1>1, <2>1, ProductOrder
  <2>3. d * ne < d * nd + d
    BY <1>1, <1>2, <2>2
  <2> QED BY <1>1, <2>3, Cancel
<1>5. n <= 0 => nd <= ne
  <2> SUFFICES ASSUME n <= 0 PROVE nd <= ne
    OBVIOUS
  <2>1. nd <= 0
    <3>1. d * nd < d * 0 + d
      BY <1>1, <1>2
    <3> QED BY <1>1, <3>1, Cancel
  <2>2. e * nd <= d * nd
    BY <1>1, <2>1, ProductOrder
  <2>3. e * nd < e * ne + e
    BY <1>1, <1>2, <2>2
  <2> QED BY <1>1, <2>3, Cancel
<1> QED BY <1>3, <1>4, <1>5 DEF nd, md, ne

\* A quotient is not larger than the dividend, and its negation rounds up.
LEMMA FloorSize ==
  ASSUME NEW n \in Int, NEW d \in Int, d > 0
  PROVE  /\ n >= 0 => 0 <= n \div d /\ n \div d <= n
         /\ n <= 0 => n <= n \div d /\ n \div d <= 0
         /\ n \div d <= -((-n) \div d)
<1> DEFINE q == n \div d
           r == (-n) \div d
           o == 1
<1>1. q \in Int /\ d * q <= n /\ n < d * q + d
  BY FloorFacts
<1>2. r \in Int /\ d * r <= -n /\ -n < d * r + d
  <2>1. -n \in Int
    OBVIOUS
  <2> QED BY <2>1, FloorFacts
<1>3. n \div 1 = n
  OBVIOUS
<1> HIDE DEF q, r
<1>4. q <= -r
  <2>1. d * q <= d * (-r)
    <3>1. d * (-r) = -(d * r) /\ d * r \in Int /\ d * q \in Int
      BY <1>1, <1>2
    <3> QED BY <1>1, <1>2, <3>1
  <2>2. d * q \in Int /\ d * (-r) \in Int /\ -r \in Int
    BY <1>1, <1>2
  <2>3. d * q < d * (-r) + d
    BY <2>1, <2>2
  <2> QED BY <1>1, <2>2, <2>3, Cancel
<1>5. n >= 0 => 0 <= q /\ q <= n
  <2> SUFFICES ASSUME n >= 0 PROVE 0 <= q /\ q <= n
    OBVIOUS
  <2>1. 0 <= q
    <3>1. d * 0 < d * q + d
      BY <1>1
    <3> QED BY <1>1, <3>1, Cancel
  <2>2. o * q <= d * q
    BY <1>1, <2>1, ProductOrder DEF o
  <2> QED BY <1>1, <2>1, <2>2 DEF o
<1>6. n <= 0 => n <= q /\ q <= 0
  <2> SUFFICES ASSUME n <= 0 PROVE n <= q /\ q <= 0
    OBVIOUS
  <2>1. q <= 0
    <3>1. d * q < d * 0 + d
      BY <1>1
    <3> QED BY <1>1, <3>1, Cancel
  <2>2. d * n <= o * n
    BY ProductOrder DEF o
  <2>3. d * n < d * q + d
    BY <1>1, <2>2 DEF o
  <2> QED BY <1>1, <2>1, <2>3, Cancel
<1> QED BY <1>4, <1>5, <1>6 DEF q, r

\* The least quotient is one of two bounds.
LEMMA FloorLeast ==
  ASSUME NEW l \in Int, NEW x \in Int, l <= x, NEW c \in Int, NEW y \in Int, NEW e \in Int, 0 < c, c <= y, y <= e
  PROVE  l \div c <= x \div y \/ l \div e <= x \div y
<1>1. l \div y <= x \div y
  BY FloorOrder
<1>2. l >= 0 => l \div e <= l \div y
  BY FloorOrder
<1>3. l <= 0 => l \div c <= l \div y
  BY FloorOrder
<1>4. l \div y \in Int /\ x \div y \in Int /\ l \div e \in Int /\ l \div c \in Int
  BY FloorFacts
<1> QED BY <1>1, <1>2, <1>3, <1>4

\* What the two quotients of the model are, by the sign of the divisor.
LEMMA QuotientSigns ==
  ASSUME NEW a \in Int, NEW b \in Int
  PROVE  /\ b > 0 => /\ a \div b \in Int /\ (-a) \div b \in Int
                     /\ Quotient(a, b) = -((-a) \div b) /\ QuotientDown(a, b) = a \div b
         /\ b < 0 => /\ a \div (-b) \in Int /\ (-a) \div (-b) \in Int
                     /\ Quotient(a, b) = -(a \div (-b)) /\ QuotientDown(a, b) = (-a) \div (-b)
<1>1. -a \in Int /\ -b \in Int /\ -(-a) = a
  OBVIOUS
<1>2. CASE b > 0
  <2>1. a \div b \in Int /\ (-a) \div b \in Int
    BY <1>1, <1>2, FloorFacts
  <2>2. Quotient(a, b) = -((-a) \div b)
    BY <1>2 DEF Quotient
  <2>3. Quotient(-a, b) = -((-(-a)) \div b)
    BY <1>2 DEF Quotient
  <2>4. Quotient(-a, b) = -(a \div b)
    BY <1>1, <2>3
  <2>5. QuotientDown(a, b) = -(-(a \div b))
    BY <2>4 DEF QuotientDown
  <2> DEFINE q == a \div b
  <2>6. q \in Int /\ QuotientDown(a, b) = -(-q)
    BY <2>1, <2>5
  <2> HIDE DEF q
  <2>7. QuotientDown(a, b) = q
    BY <2>6
  <2> QED BY <1>2, <2>1, <2>2, <2>7 DEF q
<1>3. CASE b < 0
  <2>1. a \div (-b) \in Int /\ (-a) \div (-b) \in Int
    BY <1>1, <1>3, FloorFacts
  <2>2. Quotient(a, b) = -(a \div (-b))
    BY <1>3 DEF Quotient
  <2>3. Quotient(-a, b) = -((-a) \div (-b))
    BY <1>3 DEF Quotient
  <2> DEFINE q == (-a) \div (-b)
  <2>4. q \in Int /\ QuotientDown(a, b) = -(-q)
    BY <2>1, <2>3 DEF QuotientDown
  <2> HIDE DEF q
  <2>5. QuotientDown(a, b) = q
    BY <2>4
  <2> QED BY <1>3, <2>1, <2>2, <2>5 DEF q
<1> QED BY <1>2, <1>3

\* The quotients of the bounds l, h and c, e lie around that of x and y.
QuotientsBound(l, h, c, e, x, y) ==
  /\ QuotientDown(l, c) \in Int /\ QuotientDown(l, e) \in Int /\ QuotientDown(h, c) \in Int /\ QuotientDown(h, e) \in Int
  /\ Quotient(l, c) \in Int /\ Quotient(l, e) \in Int /\ Quotient(h, c) \in Int /\ Quotient(h, e) \in Int
  /\ Quotient(x, y) \in Int
  /\ \/ QuotientDown(l, c) <= Quotient(x, y) \/ QuotientDown(l, e) <= Quotient(x, y)
     \/ QuotientDown(h, c) <= Quotient(x, y) \/ QuotientDown(h, e) <= Quotient(x, y)
  /\ \/ Quotient(x, y) <= Quotient(l, c) \/ Quotient(x, y) <= Quotient(l, e)
     \/ Quotient(x, y) <= Quotient(h, c) \/ Quotient(x, y) <= Quotient(h, e)

\* The same for the quotients of the model, whatever the sign of the divisor.
LEMMA QuotientBetween ==
  ASSUME NEW l \in Int, NEW x \in Int, NEW h \in Int, l <= x, x <= h,
         NEW c \in Int, NEW y \in Int, NEW e \in Int, c <= y, y <= e, 0 < c \/ e < 0
  PROVE  QuotientsBound(l, h, c, e, x, y)
<1>0. -h \in Int /\ -x \in Int /\ -l \in Int /\ -h <= -x /\ -x <= -l /\ -(-x) = x
  OBVIOUS
<1>1. CASE 0 < c
  <2> DEFINE lc == l \div c
             le == l \div e
             xy == x \div y
             xn == (-x) \div y
             hc == (-h) \div c
             he == (-h) \div e
  <2>1. c > 0 /\ y > 0 /\ e > 0
    BY <1>1
  <2>2. lc \in Int /\ le \in Int /\ xy \in Int /\ xn \in Int /\ hc \in Int /\ he \in Int
    BY <1>0, <2>1, QuotientSigns
  <2>3. QuotientDown(l, c) = lc /\ QuotientDown(l, e) = le
    BY <2>1, QuotientSigns
  <2>4. Quotient(x, y) = -xn /\ Quotient(h, c) = -hc /\ Quotient(h, e) = -he
    BY <2>1, QuotientSigns
  <2>5. \A a \in {l, h} : \A b \in {c, e} : QuotientDown(a, b) \in Int /\ Quotient(a, b) \in Int
    <3>1. ASSUME NEW a \in {l, h}, NEW b \in {c, e} PROVE QuotientDown(a, b) \in Int /\ Quotient(a, b) \in Int
      <4>1. a \in Int /\ b \in Int /\ b > 0
        BY <2>1
      <4> DEFINE q == (-a) \div b
                 d == a \div b
      <4>2. QuotientDown(a, b) = d /\ d \in Int /\ Quotient(a, b) = -q /\ q \in Int
        BY <4>1, QuotientSigns
      <4> HIDE DEF q, d
      <4> QED BY <4>2
    <3> QED BY <3>1
  <2>6. xy <= -xn
    BY <2>1, FloorSize
  <2>7. lc <= xy \/ le <= xy
    BY <1>1, FloorLeast
  <2>8. hc <= xn \/ he <= xn
    BY <1>0, <1>1, FloorLeast
  <2> HIDE DEF lc, le, xy, xn, hc, he
  <2>9. QuotientDown(l, c) <= Quotient(x, y) \/ QuotientDown(l, e) <= Quotient(x, y)
    BY <2>2, <2>3, <2>4, <2>6, <2>7
  <2>10. Quotient(x, y) <= Quotient(h, c) \/ Quotient(x, y) <= Quotient(h, e)
    BY <2>2, <2>4, <2>8
  <2>11. Quotient(x, y) \in Int
    BY <2>2, <2>4
  <2> QED BY <2>5, <2>9, <2>10, <2>11 DEF QuotientsBound
<1>2. CASE e < 0
  <2> DEFINE hc == (-h) \div (-c)
             he == (-h) \div (-e)
             xn == (-x) \div (-y)
             xy == x \div (-y)
             lc == l \div (-c)
             le == l \div (-e)
  <2>1. c < 0 /\ y < 0 /\ e < 0 /\ -c \in Int /\ -y \in Int /\ -e \in Int /\ 0 < -e /\ -e <= -y /\ -y <= -c
    BY <1>2
  <2>2. lc \in Int /\ le \in Int /\ xy \in Int /\ xn \in Int /\ hc \in Int /\ he \in Int
    BY <2>1, QuotientSigns
  <2>3. QuotientDown(h, c) = hc /\ QuotientDown(h, e) = he
    BY <2>1, QuotientSigns
  <2>4. Quotient(x, y) = -xy /\ Quotient(l, c) = -lc /\ Quotient(l, e) = -le
    BY <2>1, QuotientSigns
  <2>5. \A a \in {l, h} : \A b \in {c, e} : QuotientDown(a, b) \in Int /\ Quotient(a, b) \in Int
    <3>1. ASSUME NEW a \in {l, h}, NEW b \in {c, e} PROVE QuotientDown(a, b) \in Int /\ Quotient(a, b) \in Int
      <4>1. a \in Int /\ b \in Int /\ b < 0
        BY <2>1
      <4> DEFINE q == a \div (-b)
                 d == (-a) \div (-b)
      <4>2. QuotientDown(a, b) = d /\ d \in Int /\ Quotient(a, b) = -q /\ q \in Int
        BY <4>1, QuotientSigns
      <4> HIDE DEF q, d
      <4> QED BY <4>2
    <3> QED BY <3>1
  <2>6. xn <= -xy
    <3> DEFINE m == -x
               d == -y
    <3>1. m \in Int /\ d \in Int /\ d > 0 /\ -m = x
      BY <2>1
    <3> HIDE DEF m, d
    <3>2. m \div d <= -((-m) \div d)
      BY <3>1, FloorSize
    <3>3. m \div d <= -(x \div d)
      BY <3>1, <3>2
    <3> QED BY <3>3 DEF m, d
  <2>7. he <= xn \/ hc <= xn
    BY <1>0, <2>1, FloorLeast
  <2>8. le <= xy \/ lc <= xy
    BY <2>1, FloorLeast
  <2> HIDE DEF lc, le, xy, xn, hc, he
  <2>9. QuotientDown(h, c) <= Quotient(x, y) \/ QuotientDown(h, e) <= Quotient(x, y)
    BY <2>2, <2>3, <2>4, <2>6, <2>7
  <2>10. Quotient(x, y) <= Quotient(l, c) \/ Quotient(x, y) <= Quotient(l, e)
    BY <2>2, <2>4, <2>8
  <2>11. Quotient(x, y) \in Int
    BY <2>2, <2>4
  <2> QED BY <2>5, <2>9, <2>10, <2>11 DEF QuotientsBound
<1> QED BY <1>1, <1>2

\* The quotients of two intervals' numbers.
LEMMA DivEncloses ==
  ASSUME NEW i, NEW x, Encloses(i, x), NEW j, NEW y, Encloses(j, y)
  PROVE  Encloses(DivI(i, j), Quotient(x, y))
<1>1. /\ i.lo \in Int /\ i.hi \in Int /\ x \in Int /\ i.lo <= x /\ x <= i.hi
      /\ j.lo \in Int /\ j.hi \in Int /\ y \in Int /\ j.lo <= y /\ y <= j.hi
  BY IntervalFacts DEF Encloses, Contains
<1>2. CASE Contains(j, 0)
  <2> DEFINE m == Larger(Unbounded, Larger(Magnitude(i.lo), Magnitude(i.hi)))
  <2>1. DivI(i, j) = Interval(-m, m)
    BY <1>2 DEF DivI
  <2>2. m \in Int /\ m >= 0 /\ x <= m /\ -x <= m
    BY <1>1 DEF Larger, Magnitude, Unbounded
  <2> HIDE DEF m
  <2>3. Quotient(x, y) \in Int /\ -m <= Quotient(x, y) /\ Quotient(x, y) <= m
    <3>1. CASE y = 0
      BY <2>2, <3>1 DEF Quotient
    <3>2. CASE y < 0
      <4>1. -y \in Int /\ -y > 0
        BY <1>1, <3>2
      <4>2. /\ x >= 0 => 0 <= x \div (-y) /\ x \div (-y) <= x
            /\ x <= 0 => x <= x \div (-y) /\ x \div (-y) <= 0
            /\ x \div (-y) \in Int
        BY <1>1, <4>1, FloorSize, FloorFacts
      <4>3. Quotient(x, y) = -(x \div (-y))
        BY <1>1, <3>2 DEF Quotient
      <4> QED BY <1>1, <2>2, <4>2, <4>3
    <3>3. CASE y > 0
      <4>1. -x \in Int
        BY <1>1
      <4>2. /\ -x >= 0 => 0 <= (-x) \div y /\ (-x) \div y <= -x
            /\ -x <= 0 => -x <= (-x) \div y /\ (-x) \div y <= 0
            /\ (-x) \div y \in Int
        BY <1>1, <3>3, <4>1, FloorSize, FloorFacts
      <4>3. Quotient(x, y) = -((-x) \div y)
        BY <1>1, <3>3 DEF Quotient
      <4> QED BY <1>1, <2>2, <4>2, <4>3
    <3> QED BY <1>1, <3>1, <3>2, <3>3
  <2>4. -m \in Int
    BY <2>2
  <2> QED BY <2>1, <2>2, <2>3, <2>4, IntervalFacts DEF Encloses, Contains
<1>3. CASE ~Contains(j, 0)
  <2> DEFINE a == QuotientDown(i.lo, j.lo)
             b == QuotientDown(i.lo, j.hi)
             c == QuotientDown(i.hi, j.lo)
             d == QuotientDown(i.hi, j.hi)
             e == Quotient(i.lo, j.lo)
             f == Quotient(i.lo, j.hi)
             g == Quotient(i.hi, j.lo)
             k == Quotient(i.hi, j.hi)
             q == Quotient(x, y)
             l == Least4(a, b, c, d)
             h == Greatest4(e, f, g, k)
  <2>1. DivI(i, j) = Interval(l, h)
    BY <1>3 DEF DivI
  <2>2. 0 < j.lo \/ j.hi < 0
    BY <1>1, <1>3 DEF Contains
  <2>3. /\ a \in Int /\ b \in Int /\ c \in Int /\ d \in Int /\ e \in Int /\ f \in Int /\ g \in Int /\ k \in Int /\ q \in Int
        /\ a <= q \/ b <= q \/ c <= q \/ d <= q
        /\ q <= e \/ q <= f \/ q <= g \/ q <= k
    <3> DEFINE il == i.lo
               ih == i.hi
               jl == j.lo
               jh == j.hi
    <3>1. /\ il \in Int /\ ih \in Int /\ jl \in Int /\ jh \in Int
          /\ il <= x /\ x <= ih /\ jl <= y /\ y <= jh /\ (0 < jl \/ jh < 0)
      BY <1>1, <2>2
    <3>2. /\ a = QuotientDown(il, jl) /\ b = QuotientDown(il, jh) /\ c = QuotientDown(ih, jl) /\ d = QuotientDown(ih, jh)
          /\ e = Quotient(il, jl) /\ f = Quotient(il, jh) /\ g = Quotient(ih, jl) /\ k = Quotient(ih, jh) /\ q = Quotient(x, y)
      OBVIOUS
    <3> HIDE DEF il, ih, jl, jh, a, b, c, d, e, f, g, k, q, l, h
    <3>3. x \in Int /\ y \in Int
      BY <1>1
    <3>4. QuotientsBound(il, ih, jl, jh, x, y)
      BY <3>1, <3>3, QuotientBetween
    <3> QED BY <3>2, <3>4 DEF QuotientsBound
  <2>4. /\ a \in Int /\ b \in Int /\ c \in Int /\ d \in Int /\ e \in Int /\ f \in Int /\ g \in Int /\ k \in Int /\ q \in Int
    BY <2>3
  <2>5. a <= q \/ b <= q \/ c <= q \/ d <= q
    BY <2>3
  <2>6. q <= e \/ q <= f \/ q <= g \/ q <= k
    BY <2>3
  <2> HIDE DEF a, b, c, d, e, f, g, k, q
  <2>7. l \in Int /\ l <= a /\ l <= b /\ l <= c /\ l <= d
    BY <2>4, LeastGreatest4
  <2>8. h \in Int /\ e <= h /\ f <= h /\ g <= h /\ k <= h
    BY <2>4, LeastGreatest4
  <2> HIDE DEF l, h
  <2>9. l <= q /\ q <= h
    BY <2>4, <2>5, <2>6, <2>7, <2>8
  <2>10. Encloses(DivI(i, j), q)
    BY <2>1, <2>4, <2>7, <2>8, <2>9, IntervalFacts DEF Encloses, Contains
  <2> QED BY <2>10 DEF q
<1> QED BY <1>2, <1>3

-----------------------------------------------------------------------------
(* The interval of an expression has its values *)

\* What the expressions of the instance look like.
LEMMA ExpressionFacts ==
  ASSUME NEW e \in Expr
  PROVE  /\ IsExpression(e) /\ Operands(e) \subseteq Expr
         /\ e.k \in {"sum", "prod"} => Operands(e) = DOMAIN e.t
         /\ e.k = "op" => Operands(e) = {e.args[j] : j \in DOMAIN e.args}
<1>1. IsExpression(e) /\ \A x \in Operands(e) : x \in Expr
  BY ExprAssumption
<1> QED BY <1>1 DEF Operands

\* A constant encloses its value.
LEMMA ConstEncloses ==
  ASSUME NEW lo \in Int, lo % 2 = 0, NEW hi \in {lo, lo + 2}
  PROVE  Encloses(Interval(lo, hi), (lo + hi) \div 2)
<1>1. hi \in Int /\ (lo + hi) \div 2 \in Int /\ lo <= (lo + hi) \div 2 /\ (lo + hi) \div 2 <= hi
  OBVIOUS
<1> QED BY <1>1, IntervalFacts DEF Encloses, Contains

\* What the library functions make of intervals.
LEMMA OperationEncloses ==
  ASSUME NEW op \in {"abs", "min", "max", "div"}, NEW D, D = IF op = "abs" THEN {1} ELSE {1, 2},
         NEW x, NEW y, \A j \in D : Encloses(x[j], y[j])
  PROVE  Encloses(LibraryI(op, x), Operation(op, y))
<1>1. CASE op = "abs"
  <2>1. Encloses(x[1], y[1])
    BY <1>1
  <2>2. LibraryI(op, x) = AbsI(x[1]) /\ Operation(op, y) = Larger(y[1], -y[1])
    BY <1>1 DEF LibraryI, Operation
  <2> QED BY <2>1, <2>2, LibraryEncloses
<1>2. CASE op # "abs"
  <2>1. Encloses(x[1], y[1]) /\ Encloses(x[2], y[2])
    BY <1>2
  <2>2. CASE op = "min"
    <3>1. LibraryI(op, x) = Interval(Smaller(x[1].lo, x[2].lo), Smaller(x[1].hi, x[2].hi)) /\ Operation(op, y) = Smaller(y[1], y[2])
      BY <2>2 DEF LibraryI, Operation
    <3> QED BY <2>1, <3>1, MinMaxEncloses
  <2>3. CASE op = "max"
    <3>1. LibraryI(op, x) = Interval(Larger(x[1].lo, x[2].lo), Larger(x[1].hi, x[2].hi)) /\ Operation(op, y) = Larger(y[1], y[2])
      BY <2>3 DEF LibraryI, Operation
    <3> QED BY <2>1, <3>1, MinMaxEncloses
  <2>4. CASE op = "div"
    <3>1. LibraryI(op, x) = DivI(x[1], x[2]) /\ Operation(op, y) = Quotient(y[1], y[2])
      BY <2>4 DEF LibraryI, Operation
    <3> QED BY <2>1, <3>1, DivEncloses
  <2> QED BY <1>2, <2>2, <2>3, <2>4
<1> QED BY <1>1, <1>2

\* The value of a node and the interval the evaluator gives it
\* (ExpressionEvaluator).
LEMMA EvaluateNodeEncloses ==
  ASSUME NEW e \in Expr, NEW p, NEW b, NEW sub, NEW val,
         \A x \in Operands(e) : Encloses(sub[x], val[x]),
         IsVariable(e) => Encloses(b[e.v], p[e.v])
  PROVE  Encloses(EvaluateNode(e, b, sub), ValueOf(e, p, val))
<1>1. IsExpression(e)
  BY ExpressionFacts
<1>2. CASE e.k = "var"
  <2>1. EvaluateNode(e, b, sub) = b[e.v] /\ ValueOf(e, p, val) = p[e.v]
    BY <1>2 DEF EvaluateNode, ValueOf
  <2> QED BY <1>2, <2>1 DEF IsVariable
<1>3. CASE e.k = "const"
  <2>1. EvaluateNode(e, b, sub) = Interval(e.lo, e.hi) /\ ValueOf(e, p, val) = (e.lo + e.hi) \div 2
    BY <1>3 DEF EvaluateNode, ValueOf
  <2>2. e.lo \in Int /\ e.lo % 2 = 0 /\ e.hi \in {e.lo, e.lo + 2}
    BY <1>1, <1>3 DEF IsExpression
  <2> QED BY <2>1, <2>2, ConstEncloses
<1>4. CASE e.k = "sum"
  <2> DEFINE D == DOMAIN e.t
             g == [x \in D |-> TimesI(sub[x], Point(e.t[x]))]
             v == [x \in D |-> e.t[x] * val[x]]
  <2>1. EvaluateNode(e, b, sub) = Outward(SumI(e.c, g)) /\ ValueOf(e, p, val) = e.c + SumOver(v)
    BY <1>4 DEF EvaluateNode, ValueOf
  <2>2. e.c \in Int /\ IsFiniteSet(D) /\ D = Operands(e) /\ \A x \in D : e.t[x] \in Int
    BY <1>1, <1>4, ExpressionFacts DEF IsExpression
  <2>3. ASSUME NEW x \in D PROVE Encloses(g[x], v[x])
    <3>1. Encloses(sub[x], val[x]) /\ Encloses(Point(e.t[x]), e.t[x])
      BY <2>2, IntervalFacts
    <3>2. Encloses(TimesI(sub[x], Point(e.t[x])), val[x] * e.t[x])
      BY <3>1, TimesEncloses
    <3>3. val[x] * e.t[x] = e.t[x] * val[x]
      BY <2>2, <3>1 DEF Encloses
    <3> QED BY <3>2, <3>3
  <2>4. DOMAIN g = D /\ v = [x \in D |-> v[x]]
    OBVIOUS
  <2> HIDE DEF g, v, D
  <2>5. Encloses(SumI(e.c, g), e.c + SumOver(v))
    BY <2>2, <2>3, <2>4, SumEncloses
  <2> QED BY <2>1, <2>5, LibraryEncloses
<1>5. CASE e.k = "prod"
  <2> DEFINE D == DOMAIN e.t
             g == [x \in D |-> EvaluatePow(sub[x], e.t[x])]
             v == [x \in D |-> Power(val[x], e.t[x])]
  <2>1. EvaluateNode(e, b, sub) = Outward(ProductI(e.c, g)) /\ ValueOf(e, p, val) = e.c * ProductOver(v)
    BY <1>5 DEF EvaluateNode, ValueOf
  <2>2. e.c \in Int /\ IsFiniteSet(D) /\ D = Operands(e) /\ \A x \in D : e.t[x] \in Nat
    BY <1>1, <1>5, ExpressionFacts DEF IsExpression
  <2>3. ASSUME NEW x \in D PROVE Encloses(g[x], v[x])
    <3>1. Encloses(sub[x], val[x]) /\ val[x] \in Int
      BY <2>2 DEF Encloses
    <3>2. CASE e.t[x] = 2
      <4>1. Power(val[x], e.t[x]) = val[x] * val[x]
        BY <3>1, <3>2, SmallPowers
      <4> QED BY <3>1, <3>2, <4>1, SqrEncloses DEF EvaluatePow
    <3>3. CASE e.t[x] # 2
      BY <2>2, <3>1, <3>3, PowerEncloses DEF EvaluatePow
    <3> QED BY <3>2, <3>3
  <2>4. DOMAIN g = D /\ DOMAIN v = D
    OBVIOUS
  <2> HIDE DEF g, v, D
  <2>5. Encloses(ProductI(e.c, g), e.c * ProductOver(v))
    BY <2>2, <2>3, <2>4, ProductEncloses
  <2> QED BY <2>1, <2>5, LibraryEncloses
<1>6. CASE e.k = "op"
  <2> DEFINE D == DOMAIN e.args
             g == [j \in D |-> sub[e.args[j]]]
             v == [j \in D |-> val[e.args[j]]]
  <2>1. EvaluateNode(e, b, sub) = Outward(LibraryI(e.op, g)) /\ ValueOf(e, p, val) = Operation(e.op, v)
    BY <1>6 DEF EvaluateNode, ValueOf
  <2>2. e.op \in {"abs", "min", "max", "div"} /\ D = IF e.op = "abs" THEN {1} ELSE {1, 2}
    BY <1>1, <1>6 DEF IsExpression
  <2>3. \A j \in D : Encloses(g[j], v[j])
    BY <1>6, ExpressionFacts
  <2> HIDE DEF g, v, D
  <2>4. Encloses(LibraryI(e.op, g), Operation(e.op, v))
    BY <2>2, <2>3, OperationEncloses
  <2> QED BY <2>1, <2>4, LibraryEncloses
<1> QED BY <1>1, <1>2, <1>3, <1>4, <1>5, <1>6 DEF IsExpression

\* The value of a node and what ibex makes of it (IbexConverter).
LEMMA ConvertNodeEncloses ==
  ASSUME NEW e \in Expr, NEW p, NEW sub, NEW val,
         \A x \in Operands(e) : Encloses(sub[x], val[x]),
         IsVariable(e) => p[e.v] \in Int
  PROVE  Encloses(ConvertNode(e, p, sub), ValueOf(e, p, val))
<1>1. IsExpression(e)
  BY ExpressionFacts
<1>2. CASE e.k = "var"
  <2>1. ConvertNode(e, p, sub) = Point(p[e.v]) /\ ValueOf(e, p, val) = p[e.v]
    BY <1>2 DEF ConvertNode, ValueOf
  <2> QED BY <1>2, <2>1, IntervalFacts DEF IsVariable
<1>3. CASE e.k = "const"
  <2>1. ConvertNode(e, p, sub) = Interval(e.lo, e.hi) /\ ValueOf(e, p, val) = (e.lo + e.hi) \div 2
    BY <1>3 DEF ConvertNode, ValueOf
  <2>2. e.lo \in Int /\ e.lo % 2 = 0 /\ e.hi \in {e.lo, e.lo + 2}
    BY <1>1, <1>3 DEF IsExpression
  <2> QED BY <2>1, <2>2, ConstEncloses
<1>4. CASE e.k = "sum"
  <2> DEFINE D == DOMAIN e.t
             g == [x \in D |-> SignedTerm(e.t[x], sub[x])]
             v == [x \in D |-> e.t[x] * val[x]]
  <2>1. ConvertNode(e, p, sub) = SumI(e.c, g) /\ ValueOf(e, p, val) = e.c + SumOver(v)
    BY <1>4 DEF ConvertNode, ValueOf
  <2>2. e.c \in Int /\ IsFiniteSet(D) /\ D = Operands(e) /\ \A x \in D : e.t[x] \in Int
    BY <1>1, <1>4, ExpressionFacts DEF IsExpression
  <2>3. ASSUME NEW x \in D PROVE Encloses(g[x], v[x])
    <3>1. Encloses(sub[x], val[x]) /\ Encloses(Point(e.t[x]), e.t[x]) /\ val[x] \in Int
      BY <2>2, IntervalFacts DEF Encloses
    <3>2. CASE e.t[x] = 1
      <4>1. 1 * val[x] = val[x]
        BY <3>1
      <4> QED BY <3>1, <3>2, <4>1 DEF SignedTerm
    <3>3. CASE e.t[x] = -1
      <4>1. (-1) * val[x] = -val[x] /\ -1 # 1
        BY <3>1
      <4>2. g[x] = NegateI(sub[x]) /\ v[x] = -val[x]
        BY <3>3, <4>1 DEF SignedTerm
      <4> QED BY <3>1, <4>2, LibraryEncloses
    <3>4. CASE e.t[x] # 1 /\ e.t[x] # -1
      <4>1. g[x] = TimesI(Point(e.t[x]), sub[x]) /\ v[x] = e.t[x] * val[x]
        BY <3>4 DEF SignedTerm
      <4> QED BY <3>1, <4>1, TimesEncloses
    <3> QED BY <3>2, <3>3, <3>4
  <2>4. DOMAIN g = D /\ v = [x \in D |-> v[x]]
    OBVIOUS
  <2> HIDE DEF g, v, D
  <2>5. Encloses(SumI(e.c, g), e.c + SumOver(v))
    BY <2>2, <2>3, <2>4, SumEncloses
  <2> QED BY <2>1, <2>5
<1>5. CASE e.k = "prod"
  <2> DEFINE D == DOMAIN e.t
             g == [x \in D |-> PowI(sub[x], e.t[x])]
             v == [x \in D |-> Power(val[x], e.t[x])]
  <2>1. ConvertNode(e, p, sub) = ProductI(e.c, g) /\ ValueOf(e, p, val) = e.c * ProductOver(v)
    BY <1>5 DEF ConvertNode, ValueOf
  <2>2. e.c \in Int /\ IsFiniteSet(D) /\ D = Operands(e) /\ \A x \in D : e.t[x] \in Nat
    BY <1>1, <1>5, ExpressionFacts DEF IsExpression
  <2>3. ASSUME NEW x \in D PROVE Encloses(g[x], v[x])
    BY <2>2, PowerEncloses
  <2>4. DOMAIN g = D /\ DOMAIN v = D
    OBVIOUS
  <2> HIDE DEF g, v, D
  <2>5. Encloses(ProductI(e.c, g), e.c * ProductOver(v))
    BY <2>2, <2>3, <2>4, ProductEncloses
  <2> QED BY <2>1, <2>5
<1>6. CASE e.k = "op"
  <2> DEFINE D == DOMAIN e.args
             g == [j \in D |-> sub[e.args[j]]]
             v == [j \in D |-> val[e.args[j]]]
  <2>1. ConvertNode(e, p, sub) = LibraryI(e.op, g) /\ ValueOf(e, p, val) = Operation(e.op, v)
    BY <1>6 DEF ConvertNode, ValueOf
  <2>2. e.op \in {"abs", "min", "max", "div"} /\ D = IF e.op = "abs" THEN {1} ELSE {1, 2}
    BY <1>1, <1>6 DEF IsExpression
  <2>3. \A j \in D : Encloses(g[j], v[j])
    BY <1>6, ExpressionFacts
  <2> HIDE DEF g, v, D
  <2>4. Encloses(LibraryI(e.op, g), Operation(e.op, v))
    BY <2>2, <2>3, OperationEncloses
  <2> QED BY <2>1, <2>4
<1> QED BY <1>1, <1>2, <1>3, <1>4, <1>5, <1>6 DEF IsExpression

\* The variables of an expression and of its operands.
LEMMA OperandVars ==
  ASSUME NEW V, NEW e \in Expr, VarsOf(e) \subseteq V
  PROVE  /\ IsVariable(e) => e.v \in V
         /\ \A x \in Operands(e) : x \in Expr /\ VarsOf(x) \subseteq V
<1>1. VarsOf(e) = IF IsVariable(e) THEN {e.v} ELSE UNION {VarsOf(x) : x \in Operands(e)}
  BY VarsOfEquation
<1>2. IsVariable(e) => Operands(e) = {}
  BY DEF IsVariable, Operands
<1>3. Operands(e) \subseteq Expr
  BY ExpressionFacts
<1> QED BY <1>1, <1>2, <1>3

\* At every point the constraint of ibex takes an expression to have its
\* value, a number, among others.
LEMMA ConvertExpressionEncloses ==
  ASSUME NEW V, NEW p \in Points(V)
  PROVE  \A e \in Expr : VarsOf(e) \subseteq V => ExactValue(e, p) \in Int /\ Encloses(ConvertExpression(e, p), ExactValue(e, p))
<1> DEFINE T == {e \in Expr : VarsOf(e) \subseteq V => Encloses(ConvertExpression(e, p), ExactValue(e, p))}
<1>1. ASSUME NEW e \in Expr, Operands(e) \subseteq T PROVE e \in T
  <2> SUFFICES ASSUME VarsOf(e) \subseteq V PROVE Encloses(ConvertExpression(e, p), ExactValue(e, p))
    OBVIOUS
  <2> DEFINE sub == [x \in Operands(e) |-> ConvertExpression(x, p)]
             val == [x \in Operands(e) |-> ExactValue(x, p)]
  <2>1. ConvertExpression(e, p) = ConvertNode(e, p, sub) /\ ExactValue(e, p) = ValueOf(e, p, val)
    BY ConvertEquation, ExactValueEquation
  <2>2. \A x \in Operands(e) : Encloses(sub[x], val[x])
    BY <1>1, OperandVars
  <2>3. IsVariable(e) => p[e.v] \in Int
    BY OperandVars DEF Points
  <2> HIDE DEF sub, val, T
  <2> QED BY <2>1, <2>2, <2>3, ConvertNodeEncloses
<1>2. Expr \subseteq T
  <2> HIDE DEF T
  <2> QED BY <1>1, ExprInduction
<1> QED BY <1>2 DEF Encloses

\* The evaluation of an expression on a box has its value at every point of the box.
LEMMA EvaluateEncloses ==
  ASSUME NEW V, NEW b, IsBox(b, V), NEW p \in Points(V), IsIn(b, p)
  PROVE  \A e \in Expr : VarsOf(e) \subseteq V => Encloses(Evaluate(e, b), ExactValue(e, p))
<1> DEFINE T == {e \in Expr : VarsOf(e) \subseteq V => Encloses(Evaluate(e, b), ExactValue(e, p))}
<1>0. \A v \in V : Encloses(b[v], p[v])
  BY DEF IsBox, IsBound, Points, IsIn, Encloses, Intervals
<1>1. ASSUME NEW e \in Expr, Operands(e) \subseteq T PROVE e \in T
  <2> SUFFICES ASSUME VarsOf(e) \subseteq V PROVE Encloses(Evaluate(e, b), ExactValue(e, p))
    OBVIOUS
  <2> DEFINE sub == [x \in Operands(e) |-> Evaluate(x, b)]
             val == [x \in Operands(e) |-> ExactValue(x, p)]
  <2>1. Evaluate(e, b) = EvaluateNode(e, b, sub) /\ ExactValue(e, p) = ValueOf(e, p, val)
    BY EvaluateEquation, ExactValueEquation
  <2>2. \A x \in Operands(e) : Encloses(sub[x], val[x])
    BY <1>1, OperandVars
  <2>3. IsVariable(e) => Encloses(b[e.v], p[e.v])
    BY <1>0, OperandVars
  <2> HIDE DEF sub, val, T
  <2> QED BY <2>1, <2>2, <2>3, EvaluateNodeEncloses
<1>2. Expr \subseteq T
  <2> HIDE DEF T
  <2> QED BY <1>1, ExprInduction
<1> QED BY <1>2

-----------------------------------------------------------------------------
(* The difference of two expressions *)

\* The value of a node that need not be an expression of the instance, but
\* whose operands are.
NodeValue(e, p) == ValueOf(e, p, [x \in Operands(e) |-> ExactValue(x, p)])
Bases(t, p) == ProductOver([x \in DOMAIN t |-> Power(ExactValue(x, p), t[x])])
Weighted(t, p) == SumOver([x \in DOMAIN t |-> t[x] * ExactValue(x, p)])

\* The values of sums, of products and of constants.
LEMMA NodeValueFacts ==
  ASSUME NEW p
  PROVE  /\ \A e \in Expr : ExactValue(e, p) = NodeValue(e, p)
         /\ \A c, t : NodeValue(SumOf(c, t), p) = c + Weighted(t, p)
         /\ \A c, t : NodeValue(ProductOf(c, t), p) = c * Bases(t, p)
         /\ \A c \in Int : NodeValue(Constant(c), p) = c
<1>1. \A e \in Expr : ExactValue(e, p) = NodeValue(e, p)
  BY ExactValueEquation DEF NodeValue
<1>2. ASSUME NEW c, NEW t PROVE NodeValue(SumOf(c, t), p) = c + Weighted(t, p)
  <2> DEFINE e == SumOf(c, t)
             val == [x \in Operands(e) |-> ExactValue(x, p)]
  <2>1. e.k = "sum" /\ e.c = c /\ e.t = t /\ Operands(e) = DOMAIN t
    BY DEF SumOf, Operands
  <2>2. ValueOf(e, p, val) = e.c + SumOver([x \in DOMAIN e.t |-> e.t[x] * val[x]])
    BY <2>1 DEF ValueOf
  <2>3. [x \in DOMAIN e.t |-> e.t[x] * val[x]] = [x \in DOMAIN t |-> t[x] * ExactValue(x, p)]
    BY <2>1
  <2> QED BY <2>1, <2>2, <2>3 DEF NodeValue, Weighted
<1>3. ASSUME NEW c, NEW t PROVE NodeValue(ProductOf(c, t), p) = c * Bases(t, p)
  <2> DEFINE e == ProductOf(c, t)
             val == [x \in Operands(e) |-> ExactValue(x, p)]
  <2>1. e.k = "prod" /\ e.c = c /\ e.t = t /\ Operands(e) = DOMAIN t
    BY DEF ProductOf, Operands
  <2>2. ValueOf(e, p, val) = e.c * ProductOver([x \in DOMAIN e.t |-> Power(val[x], e.t[x])])
    BY <2>1 DEF ValueOf
  <2>3. [x \in DOMAIN e.t |-> Power(val[x], e.t[x])] = [x \in DOMAIN t |-> Power(ExactValue(x, p), t[x])]
    BY <2>1
  <2> QED BY <2>1, <2>2, <2>3 DEF NodeValue, Bases
<1>4. ASSUME NEW c \in Int PROVE NodeValue(Constant(c), p) = c
  <2>1. Constant(c).k = "const" /\ Constant(c).lo = c /\ Constant(c).hi = c /\ (c + c) \div 2 = c
    BY DEF Constant, RealConst
  <2> QED BY <2>1 DEF NodeValue, ValueOf
<1> QED BY <1>1, <1>2, <1>3, <1>4

\* What a term of an expression is.
IsTerm(x, p, V) ==
  /\ NodeValue(x, p) \in Int
  /\ IsVariable(x) => x.v \in V
  /\ \A y \in Operands(x) : y \in Expr /\ VarsOf(y) \subseteq V
  /\ x.k = "prod" => x = ProductOf(1, x.t) /\ Bases(x.t, p) \in Int
  /\ x.k # "prod" => x \in Expr /\ VarsOf(x) \subseteq V
AreTerms(s, p, V) ==
  /\ s.c \in Int /\ IsFiniteSet(DOMAIN s.t)
  /\ \A x \in DOMAIN s.t : s.t[x] \in Int /\ IsTerm(x, p, V)

\* The product of powers of numbers is one.
LEMMA BasesType ==
  ASSUME NEW V, NEW p \in Points(V), NEW e \in Expr, VarsOf(e) \subseteq V, e.k = "prod"
  PROVE  Bases(e.t, p) \in Int /\ e = ProductOf(e.c, e.t)
<1> DEFINE D == DOMAIN e.t
           v == [x \in D |-> Power(ExactValue(x, p), e.t[x])]
           g == [x \in D |-> PowI(Point(ExactValue(x, p)), e.t[x])]
           one == 1
<1>1. IsFiniteSet(D) /\ D = Operands(e) /\ (\A x \in D : e.t[x] \in Nat) /\ e = ProductOf(e.c, e.t)
  BY ExpressionFacts DEF IsExpression
<1>2. ASSUME NEW x \in D PROVE Encloses(g[x], v[x])
  <2>1. x \in Expr /\ VarsOf(x) \subseteq V
    BY <1>1, OperandVars
  <2>2. ExactValue(x, p) \in Int
    BY <2>1, ConvertExpressionEncloses
  <2>3. Encloses(Point(ExactValue(x, p)), ExactValue(x, p))
    BY <2>2, IntervalFacts
  <2> QED BY <1>1, <2>3, PowerEncloses
<1>3. DOMAIN g = D /\ DOMAIN v = D /\ one \in Int /\ Bases(e.t, p) = ProductOver(v)
  BY DEF Bases
<1> HIDE DEF g, v, D, one
<1>4. ProductOver(v) \in Int
  BY <1>1, <1>2, <1>3, ProductEncloses
<1> QED BY <1>1, <1>3, <1>4

\* The terms of an expression add up to it.
LEMMA TermsFacts ==
  ASSUME NEW V, NEW p \in Points(V), NEW e \in Expr, VarsOf(e) \subseteq V
  PROVE  /\ AreTerms(Terms(e), p, V)
         /\ NodeValue(e, p) = Terms(e).c + SumOver([x \in DOMAIN Terms(e).t |-> Terms(e).t[x] * NodeValue(x, p)])
<1> DEFINE s == Terms(e)
           h == [x \in DOMAIN s.t |-> s.t[x] * NodeValue(x, p)]
<1>0. IsExpression(e) /\ NodeValue(e, p) \in Int
  BY ExpressionFacts, NodeValueFacts, ConvertExpressionEncloses
<1>1. \A x : SumOver([y \in {x} |-> h[y]]) = Total(h, {x}) /\ SumOver([y \in {} |-> h[y]]) = Total(h, {})
  BY DEF Total
<1>2. ASSUME NEW x, NEW n \in Int, s = [c |-> 0, t |-> Single(x, n)], IsTerm(x, p, V), NodeValue(e, p) = n * NodeValue(x, p)
      PROVE  AreTerms(s, p, V) /\ NodeValue(e, p) = s.c + SumOver(h)
  <2>1. DOMAIN s.t = {x} /\ s.t[x] = n /\ s.c = 0
    BY <1>2 DEF Single
  <2>2. AreTerms(s, p, V)
    <3>1. IsFiniteSet(DOMAIN s.t)
      BY <2>1, FS_Singleton
    <3>2. \A y \in DOMAIN s.t : s.t[y] \in Int /\ IsTerm(y, p, V)
      BY <1>2, <2>1
    <3>3. s.c \in Int
      BY <2>1
    <3> HIDE DEF s
    <3> QED BY <3>1, <3>2, <3>3 DEF AreTerms
  <2>3. h = [y \in {x} |-> h[y]] /\ h[x] = n * NodeValue(x, p)
    BY <2>1
  <2>4. h[x] \in Int
    BY <1>2, <2>3 DEF IsTerm
  <2>5. SumOver(h) = Total(h, {x})
    BY <2>3 DEF Total
  <2> HIDE DEF h, s
  <2>6. Total(h, {x}) = h[x]
    <3>1. IsFiniteSet({x}) /\ {x} \in SUBSET {x} /\ {} \in SUBSET {x} /\ {x} \ {x} = {} /\ x \in {x}
      BY FS_Singleton
    <3>2. Total(h, {}) = 0 /\ Total(h, {x}) = Total(h, {x} \ {x}) + h[x]
      BY <2>4, <3>1, TotalFacts
    <3>3. Total(h, {x} \ {x}) = Total(h, {})
      BY <3>1, Zenon
    <3> QED BY <2>4, <3>2, <3>3
  <2> QED BY <1>2, <2>1, <2>2, <2>3, <2>4, <2>5, <2>6
<1>3. CASE e.k = "const" /\ e.lo = e.hi
  <2>1. s = [c |-> e.lo, t |-> [x \in {} |-> 0]]
    BY <1>3 DEF Terms
  <2>2. e.lo \in Int /\ (e.lo + e.lo) \div 2 = e.lo
    BY <1>0, <1>3 DEF IsExpression
  <2>3. NodeValue(e, p) = e.lo
    BY <1>3, <2>2 DEF NodeValue, ValueOf
  <2>4. AreTerms(s, p, V) /\ DOMAIN s.t = {} /\ s.c = e.lo
    BY <2>1, <2>2, FS_EmptySet DEF AreTerms
  <2>5. h = [y \in {} |-> h[y]]
    BY <2>4
  <2>6. SumOver(h) = Total(h, {})
    BY <2>5 DEF Total
  <2> HIDE DEF h, s
  <2>7. Total(h, {}) = 0
    BY FS_EmptySet, TotalFacts
  <2> QED BY <2>2, <2>3, <2>4, <2>6, <2>7 DEF h, s
<1>4. CASE e.k = "sum"
  <2>1. s = [c |-> e.c, t |-> e.t]
    BY <1>4 DEF Terms
  <2>2. e.c \in Int /\ IsFiniteSet(DOMAIN e.t) /\ (\A x \in DOMAIN e.t : e.t[x] \in Int) /\ DOMAIN e.t = Operands(e) /\ e = SumOf(e.c, e.t)
        /\ \A x \in DOMAIN e.t : x.k = "prod" => x.c = 1
    BY <1>0, <1>4, ExpressionFacts DEF IsExpression
  <2>3. ASSUME NEW x \in DOMAIN e.t PROVE IsTerm(x, p, V) /\ ExactValue(x, p) = NodeValue(x, p)
    <3>1. x \in Expr /\ VarsOf(x) \subseteq V
      BY <2>2, OperandVars
    <3>2. ExactValue(x, p) = NodeValue(x, p) /\ NodeValue(x, p) \in Int
      BY <3>1, NodeValueFacts, ConvertExpressionEncloses
    <3>3. x.k = "prod" => x = ProductOf(1, x.t) /\ Bases(x.t, p) \in Int
      BY <2>2, <3>1, BasesType
    <3> QED BY <3>1, <3>2, <3>3, OperandVars DEF IsTerm
  <2>4. AreTerms(s, p, V)
    BY <2>1, <2>2, <2>3 DEF AreTerms
  <2>5. h = [x \in DOMAIN e.t |-> e.t[x] * ExactValue(x, p)]
    BY <2>1, <2>3
  <2>6. SumOver(h) = Weighted(e.t, p)
    BY <2>5 DEF Weighted
  <2>7. NodeValue(SumOf(e.c, e.t), p) = e.c + Weighted(e.t, p)
    BY NodeValueFacts
  <2> QED BY <2>1, <2>2, <2>4, <2>6, <2>7
<1>5. CASE e.k = "prod" /\ e.c # 1
  <2> DEFINE x == ProductOf(1, e.t)
             m == Bases(e.t, p)
  <2>1. s = [c |-> 0, t |-> Single(x, e.c)]
    BY <1>5 DEF Terms
  <2>2. m \in Int /\ e = ProductOf(e.c, e.t) /\ e.c \in Int
    BY <1>0, <1>5, BasesType DEF IsExpression
  <2>3. NodeValue(e, p) = e.c * m /\ NodeValue(x, p) = 1 * m
    BY <2>2, NodeValueFacts
  <2>4. x.k = "prod" /\ x = ProductOf(1, x.t) /\ x.t = e.t /\ Operands(x) = Operands(e)
    BY <1>5 DEF ProductOf, Operands
  <2>5. ~IsVariable(x)
    BY <2>4 DEF IsVariable
  <2>6. \A y \in Operands(x) : y \in Expr /\ VarsOf(y) \subseteq V
    BY <2>4, OperandVars
  <2> HIDE DEF m, x
  <2>7. NodeValue(x, p) = m /\ NodeValue(e, p) = e.c * NodeValue(x, p)
    BY <2>2, <2>3
  <2>8. IsTerm(x, p, V)
    BY <2>2, <2>4, <2>5, <2>6, <2>7 DEF IsTerm, m
  <2> QED BY <1>2, <2>1, <2>2, <2>7, <2>8
<1>6. CASE ~(e.k = "const" /\ e.lo = e.hi) /\ e.k # "sum" /\ ~(e.k = "prod" /\ e.c # 1)
  <2> DEFINE n == 1
  <2>1. s = [c |-> 0, t |-> Single(e, n)]
    BY <1>6 DEF Terms
  <2>2. n \in Int /\ NodeValue(e, p) = n * NodeValue(e, p)
    BY <1>0
  <2>3. e.k = "prod" => e = ProductOf(1, e.t) /\ Bases(e.t, p) \in Int
    BY <1>6, BasesType
  <2>4. IsTerm(e, p, V)
    BY <1>0, <2>3, OperandVars DEF IsTerm
  <2> HIDE DEF n, s
  <2> QED BY <1>2, <2>1, <2>2, <2>4 DEF s
<1> QED BY <1>3, <1>4, <1>5, <1>6

\* The product of one number.
LEMMA SingleProduct ==
  ASSUME NEW y, NEW w \in Int
  PROVE  ProductOver([x \in {y} |-> w]) = w
<1> DEFINE D == {y}
           v == [x \in D |-> w]
           stp == [x \in D |-> [n \in Int |-> n * w]]
           one == 1
<1>1. ProductOver(v) = Folded(stp, one, D)
  <2>1. DOMAIN v = D /\ [x \in DOMAIN v |-> [n \in Int |-> n * v[x]]] = stp
    OBVIOUS
  <2> QED BY <2>1 DEF ProductOver
<1>2. IsFiniteSet(D) /\ D # {} /\ (CHOOSE x \in D : TRUE) = y /\ D \ {y} = {}
  BY FS_Singleton
<1>3. stp[y][one] = w
  BY DEF one
<1> HIDE DEF stp, one, D, v
<1>4. Folded(stp, one, D) = stp[y][Folded(stp, one, {})]
  BY <1>2, FoldedStep
<1>5. Folded(stp, one, {}) = one
  BY FoldedEmpty
<1>6. ProductOver(v) = w
  BY <1>1, <1>3, <1>4, <1>5
<1> QED BY <1>6 DEF v, D

\* The coefficients of terms, whether they are there or not.
LEMMA CoefficientTotal ==
  ASSUME NEW V, NEW p, NEW s, AreTerms(s, p, V), NEW D, IsFiniteSet(D), DOMAIN s.t \subseteq D,
         \A x \in D : NodeValue(x, p) \in Int,
         NEW f, f = [x \in D |-> Coefficient(s, x) * NodeValue(x, p)]
  PROVE  /\ \A x \in D : Coefficient(s, x) \in Int /\ f[x] \in Int
         /\ Total(f, D) = SumOver([x \in DOMAIN s.t |-> s.t[x] * NodeValue(x, p)])
<1>1. \A x \in D : Coefficient(s, x) \in Int
  BY DEF AreTerms, Coefficient
<1>2. \A x \in D : f[x] \in Int
  BY <1>1
<1>3. \A x \in D : x \notin DOMAIN s.t => f[x] = 0
  BY DEF Coefficient
<1>4. Total(f, DOMAIN s.t) = Total(f, D)
  BY <1>2, <1>3, TotalZeros
<1>5. [x \in DOMAIN s.t |-> f[x]] = [x \in DOMAIN s.t |-> s.t[x] * NodeValue(x, p)]
  BY DEF Coefficient
<1> QED BY <1>1, <1>2, <1>4, <1>5 DEF Total

\* The difference of two expressions: its variables are theirs, and its value
\* is the difference of their values (drake's operator-).
LEMMA MinusValue ==
  ASSUME NEW V, NEW p \in Points(V), NEW l \in Expr, NEW r \in Expr, VarsOf(l) \subseteq V, VarsOf(r) \subseteq V,
         Minus(l, r) \in Expr
  PROVE  ExactValue(Minus(l, r), p) = ExactValue(l, p) - ExactValue(r, p) /\ VarsOf(Minus(l, r)) \subseteq V
<1> DEFINE a == Terms(l)
           b == Terms(r)
           c == a.c - b.c
           D == DOMAIN a.t \cup DOMAIN b.t
           es == {e \in D : Coefficient(a, e) # Coefficient(b, e)}
           t == [e \in es |-> Coefficient(a, e) - Coefficient(b, e)]
           e1 == CHOOSE e \in es : TRUE
           f == [x \in D |-> Coefficient(a, x) * NodeValue(x, p)]
           g == [x \in D |-> Coefficient(b, x) * NodeValue(x, p)]
           h == [x \in D |-> (Coefficient(a, x) - Coefficient(b, x)) * NodeValue(x, p)]
           d == Minus(l, r)
<1>1. d = IF es = {} THEN Constant(c)
          ELSE IF c = 0 /\ es = {e1} THEN
                 IF t[e1] = 1 THEN e1
                 ELSE IF e1.k = "prod" THEN ProductOf(t[e1], e1.t)
                 ELSE ProductOf(t[e1], Single(e1, 1))
          ELSE SumOf(c, t)
  BY DEF Minus
<1>2. AreTerms(a, p, V) /\ AreTerms(b, p, V)
  BY TermsFacts
<1>3. ExactValue(l, p) = a.c + SumOver([x \in DOMAIN a.t |-> a.t[x] * NodeValue(x, p)])
  BY TermsFacts, NodeValueFacts
<1>4. ExactValue(r, p) = b.c + SumOver([x \in DOMAIN b.t |-> b.t[x] * NodeValue(x, p)])
  BY TermsFacts, NodeValueFacts
<1>5. IsFiniteSet(D) /\ DOMAIN a.t \subseteq D /\ DOMAIN b.t \subseteq D /\ a.c \in Int /\ b.c \in Int
  BY <1>2, FS_Union DEF AreTerms
<1>6. \A x \in D : IsTerm(x, p, V) /\ NodeValue(x, p) \in Int
  BY <1>2 DEF AreTerms, IsTerm
<1>8. \A x \in es : x \in D
  OBVIOUS
<1>9. f = [x \in D |-> Coefficient(a, x) * NodeValue(x, p)] /\ g = [x \in D |-> Coefficient(b, x) * NodeValue(x, p)]
      /\ h = [x \in D |-> (Coefficient(a, x) - Coefficient(b, x)) * NodeValue(x, p)]
      /\ t = [e \in es |-> Coefficient(a, e) - Coefficient(b, e)]
  OBVIOUS
<1>10. es \in SUBSET D /\ \A x \in D : x \notin es <=> Coefficient(a, x) = Coefficient(b, x)
  OBVIOUS
<1>11. es # {} => e1 \in es
  OBVIOUS
<1> HIDE DEF a, b, D, es, t, e1, f, g, h, d
<1>12. /\ \A x \in D : Coefficient(a, x) \in Int /\ f[x] \in Int
       /\ Total(f, D) = SumOver([x \in DOMAIN a.t |-> a.t[x] * NodeValue(x, p)])
  BY <1>2, <1>5, <1>6, <1>9, CoefficientTotal
<1>13. /\ \A x \in D : Coefficient(b, x) \in Int /\ g[x] \in Int
       /\ Total(g, D) = SumOver([x \in DOMAIN b.t |-> b.t[x] * NodeValue(x, p)])
  BY <1>2, <1>5, <1>6, <1>9, CoefficientTotal
<1>14. \A x \in D : h[x] \in Int /\ h[x] = f[x] - g[x]
  <2> TAKE x \in D
  <2> DEFINE m == Coefficient(a, x)
             n == Coefficient(b, x)
             w == NodeValue(x, p)
  <2>1. m \in Int /\ n \in Int /\ w \in Int /\ f[x] = m * w /\ g[x] = n * w /\ h[x] = (m - n) * w
    BY <1>6, <1>9, <1>12, <1>13
  <2> HIDE DEF m, n, w
  <2>2. (m - n) * w = m * w - n * w /\ (m - n) * w \in Int
    BY <2>1
  <2> QED BY <2>1, <2>2
<1>15. Total(h, D) = Total(f, D) - Total(g, D)
  BY <1>5, <1>12, <1>13, <1>14, TotalDifference
<1>16. Total(h, es) = Total(h, D)
  <2>1. \A x \in D : x \notin es => h[x] = 0
    <3> TAKE x \in D
    <3> HAVE x \notin es
    <3> DEFINE m == Coefficient(a, x)
               w == NodeValue(x, p)
    <3>1. m \in Int /\ w \in Int /\ h[x] = (m - m) * w
      BY <1>6, <1>9, <1>10, <1>12
    <3> HIDE DEF m, w
    <3> QED BY <3>1
  <2> QED BY <1>5, <1>10, <1>14, <2>1, TotalZeros
<1>17. Total(f, D) \in Int /\ Total(g, D) \in Int
  <2>1. D \in SUBSET D
    OBVIOUS
  <2>2. Total(f, D) \in Int
    BY <1>5, <1>12, <2>1, TotalFacts
  <2>3. Total(g, D) \in Int
    BY <1>5, <1>13, <2>1, TotalFacts
  <2> QED BY <2>2, <2>3
<1>18. ExactValue(l, p) - ExactValue(r, p) = c + Total(h, es) /\ Total(h, es) \in Int /\ c \in Int
  BY <1>3, <1>4, <1>5, <1>12, <1>13, <1>15, <1>16, <1>17
<1>19. \A x \in es : t[x] \in Int /\ h[x] = t[x] * NodeValue(x, p)
  BY <1>8, <1>9, <1>12, <1>13
<1> HIDE DEF c
<1>20. d \in Expr
  BY DEF d
<1>21. IsFiniteSet(es)
  BY <1>5, <1>10, FS_Subset
<1>22. \A x \in es : x \in Expr => ExactValue(x, p) = NodeValue(x, p) /\ VarsOf(x) \subseteq V
  <2> TAKE x \in es
  <2> HAVE x \in Expr
  <2>1. IsTerm(x, p, V)
    BY <1>6, <1>8
  <2>2. VarsOf(x) = IF IsVariable(x) THEN {x.v} ELSE UNION {VarsOf(y) : y \in Operands(x)}
    BY VarsOfEquation
  <2> QED BY <2>1, <2>2, NodeValueFacts DEF IsTerm
<1>23. VarsOf(d) = IF IsVariable(d) THEN {d.v} ELSE UNION {VarsOf(x) : x \in Operands(d)}
  BY <1>20, VarsOfEquation
<1>24. \A x \in Operands(d) : x \in Expr
  BY <1>20, ExpressionFacts
<1>25. ExactValue(d, p) = NodeValue(d, p)
  BY <1>20, NodeValueFacts
<1>26. CASE es = {}
  <2>1. d = Constant(c)
    BY <1>1, <1>26
  <2>2. Operands(d) = {} /\ ~IsVariable(d)
    BY <2>1 DEF Constant, RealConst, Operands, IsVariable
  <2>3. NodeValue(d, p) = c
    BY <1>18, <2>1, NodeValueFacts
  <2>4. Total(h, es) = 0
    BY <1>5, <1>14, <1>26, TotalFacts
  <2> QED BY <1>18, <1>23, <1>25, <2>2, <2>3, <2>4 DEF d
<1>27. CASE es # {} /\ c = 0 /\ es = {e1}
  <2>1. IsTerm(e1, p, V) /\ t[e1] \in Int /\ h[e1] = t[e1] * NodeValue(e1, p) /\ NodeValue(e1, p) \in Int /\ h[e1] \in Int
    BY <1>6, <1>8, <1>11, <1>14, <1>19, <1>27
  <2>2. Total(h, es) = h[e1]
    <3>1. Total(h, {}) = 0 /\ Total(h, es) = Total(h, es \ {e1}) + h[e1]
      BY <1>5, <1>10, <1>11, <1>14, <1>27, TotalFacts
    <3>2. es \ {e1} = {}
      BY <1>27
    <3>3. Total(h, es \ {e1}) = Total(h, {})
      BY <3>2, Zenon
    <3> QED BY <2>1, <3>1, <3>3
  <2>3. CASE t[e1] = 1
    <3>1. d = e1
      BY <1>1, <1>27, <2>3
    <3>2. NodeValue(d, p) = t[e1] * NodeValue(e1, p)
      BY <2>1, <2>3, <3>1
    <3> QED BY <1>11, <1>18, <1>20, <1>22, <1>25, <1>27, <2>1, <2>2, <3>1, <3>2 DEF d
  <2>4. CASE t[e1] # 1 /\ e1.k = "prod"
    <3> DEFINE m == Bases(e1.t, p)
               n == t[e1]
               w == NodeValue(e1, p)
    <3>1. d = ProductOf(n, e1.t)
      BY <1>1, <1>27, <2>4
    <3>2. e1 = ProductOf(1, e1.t) /\ m \in Int
      BY <2>1, <2>4 DEF IsTerm
    <3>3. NodeValue(d, p) = n * m
      BY <3>1, NodeValueFacts
    <3>4. w = 1 * m
      BY <3>2, NodeValueFacts
    <3>5. Operands(d) = DOMAIN e1.t /\ ~IsVariable(d)
      BY <3>1 DEF ProductOf, Operands, IsVariable
    <3>6. Operands(e1) = DOMAIN e1.t
      BY <2>4 DEF Operands
    <3>7. \A x \in Operands(d) : VarsOf(x) \subseteq V
      BY <2>1, <3>5, <3>6 DEF IsTerm
    <3>8. h[e1] = n * w
      BY <2>1
    <3> HIDE DEF m, n, w
    <3>9. NodeValue(d, p) = h[e1]
      BY <3>2, <3>3, <3>4, <3>8
    <3> QED BY <1>18, <1>23, <1>25, <1>27, <2>1, <2>2, <3>5, <3>7, <3>9 DEF d
  <2>5. CASE t[e1] # 1 /\ e1.k # "prod"
    <3> DEFINE n == t[e1]
               w == NodeValue(e1, p)
               u == Single(e1, 1)
               one == 1
    <3>1. d = ProductOf(n, u)
      BY <1>1, <1>27, <2>5
    <3>2. DOMAIN u = {e1} /\ u[e1] = 1
      BY DEF Single
    <3>3. Operands(d) = {e1} /\ ~IsVariable(d)
      BY <3>1, <3>2 DEF ProductOf, Operands, IsVariable
    <3>4. e1 \in Expr /\ ExactValue(e1, p) = w /\ VarsOf(e1) \subseteq V
      BY <1>11, <1>22, <1>24, <1>27, <3>3
    <3>5. w \in Int /\ n \in Int /\ h[e1] = n * w
      BY <2>1
    <3>6. Bases(u, p) = w
      <4> DEFINE v == [x \in {e1} |-> w]
                 q == [j \in 1 .. 1 |-> w]
      <4>1. Power(w, 1) = w
        BY <3>5, SmallPowers
      <4>2. Bases(u, p) = ProductOver(v)
        <5>1. [x \in DOMAIN u |-> Power(ExactValue(x, p), u[x])] = v
          BY <3>2, <3>4, <4>1
        <5> QED BY <5>1 DEF Bases
      <4>3. ProductOver(v) = w
        BY <3>5, SingleProduct
      <4> QED BY <4>2, <4>3
    <3>7. NodeValue(d, p) = n * Bases(u, p)
      BY <3>1, NodeValueFacts
    <3> HIDE DEF n, w, u
    <3> QED BY <1>18, <1>23, <1>25, <1>27, <2>1, <2>2, <3>3, <3>4, <3>5, <3>6, <3>7 DEF d
  <2> QED BY <2>3, <2>4, <2>5
<1>28. CASE es # {} /\ ~(c = 0 /\ es = {e1})
  <2>1. d = SumOf(c, t)
    BY <1>1, <1>28
  <2>2. DOMAIN t = es
    BY <1>9
  <2>3. Operands(d) = es /\ ~IsVariable(d)
    BY <2>1, <2>2 DEF SumOf, Operands, IsVariable
  <2>4. \A x \in es : ExactValue(x, p) = NodeValue(x, p) /\ VarsOf(x) \subseteq V
    BY <1>22, <1>24, <2>3
  <2>5. [x \in DOMAIN t |-> t[x] * ExactValue(x, p)] = [x \in es |-> h[x]]
    BY <1>19, <2>2, <2>4
  <2>6. NodeValue(d, p) = c + Weighted(t, p)
    BY <2>1, NodeValueFacts
  <2>7. Weighted(t, p) = Total(h, es)
    BY <2>5 DEF Weighted, Total
  <2> QED BY <1>18, <1>23, <1>25, <2>3, <2>4, <2>6, <2>7 DEF d
<1> QED BY <1>26, <1>27, <1>28

-----------------------------------------------------------------------------
(* What a literal says, what the evaluator says of it, and its constraint *)

Relops == {"eq", "neq", "gt", "geq", "lt", "leq"}

\* The comparisons.
LEMMA CompareFacts ==
  ASSUME NEW a, NEW b
  PROVE  /\ Compare("eq", a, b) <=> a = b
         /\ Compare("neq", a, b) <=> a # b
         /\ Compare("gt", a, b) <=> a > b
         /\ Compare("geq", a, b) <=> a >= b
         /\ Compare("lt", a, b) <=> a < b
         /\ Compare("leq", a, b) <=> a <= b
BY DEF Compare

\* The negations of the operators.
LEMMA NegateFacts ==
  /\ NegateRelop("eq") = "neq" /\ NegateRelop("neq") = "eq" /\ NegateRelop("gt") = "leq"
  /\ NegateRelop("geq") = "lt" /\ NegateRelop("lt") = "geq" /\ NegateRelop("leq") = "gt"
BY DEF NegateRelop

\* A comparison is one of the difference with zero, and its negation one by the negated operator.
LEMMA CompareDifference ==
  ASSUME NEW op \in Relops, NEW a \in Int, NEW b \in Int
  PROVE  /\ Compare(op, a, b) <=> Compare(op, a - b, 0)
         /\ NegateRelop(op) \in Relops
         /\ ~Compare(op, a, b) <=> Compare(NegateRelop(op), a, b)
<1>1. CASE op = "eq"
  BY <1>1, CompareFacts, NegateFacts DEF Relops
<1>2. CASE op = "neq"
  BY <1>2, CompareFacts, NegateFacts DEF Relops
<1>3. CASE op = "gt"
  BY <1>3, CompareFacts, NegateFacts DEF Relops
<1>4. CASE op = "geq"
  BY <1>4, CompareFacts, NegateFacts DEF Relops
<1>5. CASE op = "lt"
  BY <1>5, CompareFacts, NegateFacts DEF Relops
<1>6. CASE op = "leq"
  BY <1>6, CompareFacts, NegateFacts DEF Relops
<1> QED BY <1>1, <1>2, <1>3, <1>4, <1>5, <1>6 DEF Relops

\* A relation or its negation over the variables of V.
IsRelational(f, V) == f \in Body /\ f.k \in {"rel", "not"} /\ Atom(f).k = "rel" /\ RelationVars(f) \subseteq V

\* The relation in it.
LEMMA AtomFacts ==
  ASSUME NEW V, NEW f, IsRelational(f, V)
  PROVE  /\ Atom(f) \in Body /\ Atom(f).k = "rel" /\ Atom(f).op \in Relops
         /\ Atom(f).l \in Expr /\ Atom(f).r \in Expr /\ Minus(Atom(f).l, Atom(f).r) \in Expr
         /\ VarsOf(Atom(f).l) \subseteq V /\ VarsOf(Atom(f).r) \subseteq V
         /\ f.k = "not" => f.f = Atom(f)
         /\ f.k = "rel" => f = Atom(f)
         /\ GetRelationalOperator(f) = IF f.k = "not" THEN NegateRelop(Atom(f).op) ELSE Atom(f).op
         /\ GetRelationalOperator(f) \in Relops
<1>1. Atom(f) \in Body
  BY BodyOperands DEF IsRelational, Atom
<1>2. IsRelation(Atom(f))
  BY <1>1, BodyAssumption DEF IsRelational
<1>3. Atom(f).op \in Relops
  BY <1>2 DEF IsRelation, Relops
<1>4. NegateRelop(Atom(f).op) \in Relops
  BY <1>3, NegateFacts DEF Relops
<1>5. f.k = "not" => f.f = Atom(f)
  BY DEF Atom
<1>6. f.k = "rel" => f = Atom(f)
  BY DEF Atom
<1>7. GetRelationalOperator(f) = IF f.k = "not" THEN NegateRelop(Atom(f).op) ELSE Atom(f).op
  BY <1>5, <1>6 DEF GetRelationalOperator, IsRelational
<1> QED BY <1>1, <1>2, <1>3, <1>4, <1>5, <1>6, <1>7 DEF IsRelation, IsRelational, RelationVars

\* A relation holds at a point when the difference compares with zero as its
\* operator says (RelationalFormulaEvaluator).
LEMMA HoldsByDifference ==
  ASSUME NEW V, NEW f, IsRelational(f, V), NEW p \in Points(V)
  PROVE  /\ ExtractExpression(f) \in Expr /\ VarsOf(ExtractExpression(f)) \subseteq V
         /\ ExactValue(ExtractExpression(f), p) \in Int
         /\ HoldsAt(f, p) <=> Compare(GetRelationalOperator(f), ExactValue(ExtractExpression(f), p), 0)
<1> DEFINE g == Atom(f)
           a == ExactValue(g.l, p)
           b == ExactValue(g.r, p)
           d == ExactValue(ExtractExpression(f), p)
           op == g.op
<1>1. ExtractExpression(f) = Minus(g.l, g.r)
  BY DEF ExtractExpression
<1>2. /\ g \in Body /\ g.k = "rel" /\ op \in Relops /\ g.l \in Expr /\ g.r \in Expr /\ Minus(g.l, g.r) \in Expr
      /\ VarsOf(g.l) \subseteq V /\ VarsOf(g.r) \subseteq V
  BY AtomFacts
<1>3. a \in Int /\ b \in Int
  BY <1>2, ConvertExpressionEncloses
<1>4. d = a - b /\ VarsOf(ExtractExpression(f)) \subseteq V
  BY <1>1, <1>2, MinusValue
<1>5. HoldsAt(g, p) <=> Compare(op, a, b)
  <2>1. HoldsAt(g, p) = Says(g, p, [h \in Children(g) |-> HoldsAt(h, p)])
    BY <1>2, HoldsAtEquation
  <2>2. ASSUME NEW sub PROVE Says(g, p, sub) = Compare(op, a, b)
    BY <1>2 DEF Says
  <2> QED BY <2>1, <2>2
<1>6. CASE f.k = "rel"
  <2>1. f = g /\ GetRelationalOperator(f) = op
    BY <1>6, AtomFacts
  <2>2. HoldsAt(f, p) <=> Compare(op, d, 0)
    <3> HIDE DEF a, b, d, op, g
    <3> QED BY <1>2, <1>3, <1>4, <1>5, <2>1, CompareDifference
  <2> QED BY <1>1, <1>2, <1>3, <1>4, <2>1, <2>2
<1>7. CASE f.k = "not"
  <2>1. f.f = g /\ GetRelationalOperator(f) = NegateRelop(op) /\ f \in Body
    BY <1>7, AtomFacts DEF IsRelational
  <2>2. HoldsAt(f, p) <=> ~HoldsAt(g, p)
    <3>1. HoldsAt(f, p) = Says(f, p, [h \in Children(f) |-> HoldsAt(h, p)])
      BY <2>1, HoldsAtEquation
    <3>2. Children(f) = {f.f}
      BY <1>7 DEF Children
    <3>3. ASSUME NEW sub PROVE Says(f, p, sub) = ~sub[f.f]
      BY <1>7 DEF Says
    <3>4. HoldsAt(f, p) = ~([h \in Children(f) |-> HoldsAt(h, p)][f.f])
      BY <3>1, <3>3
    <3> QED BY <2>1, <3>2, <3>4
  <2>3. HoldsAt(f, p) <=> Compare(NegateRelop(op), d, 0)
    <3> HIDE DEF a, b, d, op, g
    <3>1. Compare(NegateRelop(op), a, b) <=> Compare(NegateRelop(op), a - b, 0)
      BY <1>2, <1>3, CompareDifference
    <3>2. ~Compare(op, a, b) <=> Compare(NegateRelop(op), a, b)
      BY <1>2, <1>3, CompareDifference
    <3> QED BY <1>4, <1>5, <2>1, <2>2, <3>1, <3>2
  <2> QED BY <1>1, <1>2, <1>3, <1>4, <2>1, <2>3
<1> QED BY <1>6, <1>7 DEF IsRelational

\* What an evaluator says of a difference that is in an interval is right.
LEMMA VerdictsAreRight ==
  ASSUME NEW iv, NEW d, Encloses(iv, d), NEW op \in Relops
  PROVE  /\ IsValidOn(op, iv) => Compare(op, d, 0)
         /\ IsUnsatOn(op, iv) => ~Compare(op, d, 0)
<1>1. iv.lo \in Int /\ iv.hi \in Int /\ d \in Int /\ iv.lo <= d /\ d <= iv.hi
  BY IntervalFacts DEF Encloses, Contains
<1>2. CASE op = "eq"
  BY <1>1, <1>2, CompareFacts DEF IsValidOn, IsUnsatOn, Contains
<1>3. CASE op = "neq"
  BY <1>1, <1>3, CompareFacts DEF IsValidOn, IsUnsatOn, Contains
<1>4. CASE op = "gt"
  BY <1>1, <1>4, CompareFacts DEF IsValidOn, IsUnsatOn, Contains
<1>5. CASE op = "geq"
  BY <1>1, <1>5, CompareFacts DEF IsValidOn, IsUnsatOn, Contains
<1>6. CASE op = "lt"
  BY <1>1, <1>6, CompareFacts DEF IsValidOn, IsUnsatOn, Contains
<1>7. CASE op = "leq"
  BY <1>1, <1>7, CompareFacts DEF IsValidOn, IsUnsatOn, Contains
<1> QED BY <1>2, <1>3, <1>4, <1>5, <1>6, <1>7 DEF Relops

\* A literal that an evaluator finds UNSAT on a box holds at no point of it.
LEMMA RefutedHasNone ==
  ASSUME NEW V, NEW f, IsRelational(f, V), NEW b, IsBox(b, V), NEW p \in Points(V), IsIn(b, p),
         EvaluateRelational(f, b).type = "UNSAT"
  PROVE  ~HoldsAt(f, p)
<1> DEFINE e == ExtractExpression(f)
           op == GetRelationalOperator(f)
<1>1. Encloses(Evaluate(e, b), ExactValue(e, p))
  BY HoldsByDifference, EvaluateEncloses
<1>2. IsUnsatOn(op, Evaluate(e, b))
  BY DEF EvaluateRelational, Result
<1>3. op \in Relops
  BY AtomFacts
<1>4. HoldsAt(f, p) <=> Compare(op, ExactValue(e, p), 0)
  BY HoldsByDifference
<1> QED BY <1>1, <1>2, <1>3, <1>4, VerdictsAreRight

\* The constraint of a literal allows every point where it holds (IbexConverter).
LEMMA ConstraintAllows ==
  ASSUME NEW V, NEW f, IsRelational(f, V), NEW p \in Points(V), HoldsAt(f, p)
  PROVE  Allows(Convert(f), p)
<1> DEFINE g == Atom(f)
           c == Convert(f)
           d == ExactValue(ExtractExpression(f), p)
           iv == ConvertExpression(ExtractExpression(f), p)
           op == GetRelationalOperator(f)
<1>1. ExtractExpression(f) = Minus(g.l, g.r)
  BY DEF ExtractExpression
<1>2. Encloses(iv, d)
  BY HoldsByDifference, ConvertExpressionEncloses
<1>3. Compare(op, d, 0)
  BY HoldsByDifference
<1>4. iv.lo \in Int /\ iv.hi \in Int /\ d \in Int /\ iv.lo <= d /\ d <= iv.hi
  BY <1>2, IntervalFacts DEF Encloses, Contains
<1>5. g.k = "rel" /\ g.op \in Relops /\ f.k \in {"rel", "not"} /\ op = IF f.k = "not" THEN NegateRelop(g.op) ELSE g.op
  BY AtomFacts DEF IsRelational
<1>6. c = NoConstraint \/ (c = [op |-> c.op, e |-> ExtractExpression(f)] /\ c.op = op /\ op # "neq")
  <2>1. \A o : Constraint(o, g) = [op |-> o, e |-> ExtractExpression(f)]
    BY <1>1 DEF Constraint
  <2>2. CASE g.op = "eq"
    BY <1>5, <2>1, <2>2, NegateFacts DEF Convert
  <2>3. CASE g.op = "neq"
    BY <1>5, <2>1, <2>3, NegateFacts DEF Convert
  <2>4. CASE g.op = "gt"
    BY <1>5, <2>1, <2>4, NegateFacts DEF Convert
  <2>5. CASE g.op = "geq"
    BY <1>5, <2>1, <2>5, NegateFacts DEF Convert
  <2>6. CASE g.op = "lt"
    BY <1>5, <2>1, <2>6, NegateFacts DEF Convert
  <2>7. CASE g.op = "leq"
    BY <1>5, <2>1, <2>7, NegateFacts DEF Convert
  <2> QED BY <1>5, <2>2, <2>3, <2>4, <2>5, <2>6, <2>7 DEF Relops
<1>7. CASE c = NoConstraint
  BY <1>7 DEF Allows
<1>8. CASE c # NoConstraint
  <2>1. c.e = ExtractExpression(f) /\ c.op = op /\ op \in Relops
    BY <1>6, <1>8, AtomFacts
  <2>2. op # "neq"
    BY <1>6, <1>8
  <2>3. CASE op = "eq"
    <3>1. Contains(iv, 0)
      BY <1>3, <1>4, <2>3, CompareFacts DEF Contains
    <3> QED BY <2>1, <2>3, <3>1 DEF Allows
  <2>4. CASE op \in {"gt", "geq"}
    <3>1. iv.hi >= 0
      BY <1>3, <1>4, <2>4, CompareFacts
    <3> QED BY <2>1, <2>4, <3>1 DEF Allows
  <2>5. CASE op \in {"lt", "leq"}
    <3>1. iv.lo <= 0
      BY <1>3, <1>4, <2>5, CompareFacts
    <3> QED BY <2>1, <2>5, <3>1 DEF Allows
  <2> QED BY <2>1, <2>2, <2>3, <2>4, <2>5 DEF Relops
<1> QED BY <1>7, <1>8

-----------------------------------------------------------------------------
(* What a quantified body says, its normal form and its constraints *)

\* All relations of f are over the variables of V.
IsOver(f, V) == \A r \in Relations(f) : RelationVars(r) \subseteq V

\* What a formula says from what its children say.
LEMMA HoldsFacts ==
  ASSUME NEW p
  PROVE  /\ TrueF \in Body => HoldsAt(TrueF, p)
         /\ FalseF \in Body => ~HoldsAt(FalseF, p)
         /\ \A f \in Body : f.k = "true" => HoldsAt(f, p)
         /\ \A f \in Body : f.k = "false" => ~HoldsAt(f, p)
         /\ \A f \in Body : f.k = "rel" => (HoldsAt(f, p) <=> Compare(f.op, ExactValue(f.l, p), ExactValue(f.r, p)))
         /\ \A f \in Body : f.k = "not" => (HoldsAt(f, p) <=> ~HoldsAt(f.f, p))
         /\ \A f \in Body : f.k = "and" => (HoldsAt(f, p) <=> \A h \in f.s : HoldsAt(h, p))
         /\ \A f \in Body : f.k = "or" => (HoldsAt(f, p) <=> \E h \in f.s : HoldsAt(h, p))
<1>0. ASSUME NEW f \in Body PROVE HoldsAt(f, p) = Says(f, p, [h \in Children(f) |-> HoldsAt(h, p)])
  BY HoldsAtEquation
<1>1. ASSUME NEW f \in Body, f.k = "true" PROVE HoldsAt(f, p)
  <2>1. ASSUME NEW sub PROVE Says(f, p, sub)
    BY <1>1 DEF Says
  <2> QED BY <1>0, <2>1
<1>2. ASSUME NEW f \in Body, f.k = "false" PROVE ~HoldsAt(f, p)
  <2>1. ASSUME NEW sub PROVE ~Says(f, p, sub)
    BY <1>2 DEF Says
  <2> QED BY <1>0, <2>1
<1>3. ASSUME NEW f \in Body, f.k = "rel" PROVE HoldsAt(f, p) <=> Compare(f.op, ExactValue(f.l, p), ExactValue(f.r, p))
  <2>1. ASSUME NEW sub PROVE Says(f, p, sub) = Compare(f.op, ExactValue(f.l, p), ExactValue(f.r, p))
    BY <1>3 DEF Says
  <2> QED BY <1>0, <2>1
<1>4. ASSUME NEW f \in Body, f.k = "not" PROVE HoldsAt(f, p) <=> ~HoldsAt(f.f, p)
  <2>1. ASSUME NEW sub PROVE Says(f, p, sub) = ~sub[f.f]
    BY <1>4 DEF Says
  <2>2. f.f \in Children(f)
    BY <1>4 DEF Children
  <2>3. HoldsAt(f, p) = ~([h \in Children(f) |-> HoldsAt(h, p)][f.f])
    BY <1>0, <2>1
  <2> QED BY <2>2, <2>3
<1>5. ASSUME NEW f \in Body, f.k = "and" PROVE HoldsAt(f, p) <=> \A h \in f.s : HoldsAt(h, p)
  <2>1. ASSUME NEW sub PROVE Says(f, p, sub) = \A h \in f.s : sub[h]
    BY <1>5 DEF Says
  <2>2. f.s = Children(f)
    BY <1>5 DEF Children
  <2>3. HoldsAt(f, p) = \A h \in f.s : [g \in Children(f) |-> HoldsAt(g, p)][h]
    BY <1>0, <2>1
  <2> QED BY <2>2, <2>3
<1>6. ASSUME NEW f \in Body, f.k = "or" PROVE HoldsAt(f, p) <=> \E h \in f.s : HoldsAt(h, p)
  <2>1. ASSUME NEW sub PROVE Says(f, p, sub) = \E h \in f.s : sub[h]
    BY <1>6 DEF Says
  <2>2. f.s = Children(f)
    BY <1>6 DEF Children
  <2>3. HoldsAt(f, p) = \E h \in f.s : [g \in Children(f) |-> HoldsAt(g, p)][h]
    BY <1>0, <2>1
  <2> QED BY <2>2, <2>3
<1>7. TrueF.k = "true" /\ FalseF.k = "false"
  BY DEF TrueF, FalseF
<1> QED BY <1>1, <1>2, <1>3, <1>4, <1>5, <1>6, <1>7

\* The relations of a formula from those of its children.
LEMMA RelationsFacts ==
  /\ \A f \in Body : f.k = "rel" => Relations(f) = {f}
  /\ \A f \in Body : f.k \in {"true", "false"} => Relations(f) = {}
  /\ \A f \in Body : f.k = "not" => Relations(f) = Relations(f.f)
  /\ \A f \in Body : f.k \in {"and", "or"} => Relations(f) = UNION {Relations(h) : h \in f.s}
  /\ TrueF \in Body => Relations(TrueF) = {}
  /\ FalseF \in Body => Relations(FalseF) = {}
<1>1. ASSUME NEW f \in Body, f.k # "rel" PROVE Relations(f) = UNION {Relations(h) : h \in Children(f)}
  BY <1>1, RelationsEquation
<1>2. ASSUME NEW f \in Body, f.k \in {"true", "false"} PROVE Relations(f) = {}
  <2>1. Children(f) = {}
    BY <1>2 DEF Children
  <2> QED BY <1>1, <1>2, <2>1
<1>3. ASSUME NEW f \in Body, f.k = "not" PROVE Relations(f) = Relations(f.f)
  <2>1. Children(f) = {f.f}
    BY <1>3 DEF Children
  <2> QED BY <1>1, <1>3, <2>1
<1>4. ASSUME NEW f \in Body, f.k \in {"and", "or"} PROVE Relations(f) = UNION {Relations(h) : h \in f.s}
  <2>1. Children(f) = f.s
    BY <1>4 DEF Children
  <2> QED BY <1>1, <1>4, <2>1
<1>5. TrueF.k = "true" /\ FalseF.k = "false"
  BY DEF TrueF, FalseF
<1> QED BY <1>2, <1>3, <1>4, <1>5, RelationsEquation

\* The formulas that drake's connectives merge.
Merged(kind, unit, fs) == (UNION {IF f.k = kind THEN f.s ELSE {f} : f \in fs}) \ {unit}

\* What drake's connectives make of formulas of the instance.
LEMMA NaryFacts ==
  ASSUME NEW kind \in {"and", "or"}, NEW unit, NEW zero, NEW fs \in SUBSET Body
  PROVE  /\ Merged(kind, unit, fs) \subseteq Body
         /\ \/ zero \in fs /\ Nary(kind, unit, zero, fs) = zero
            \/ zero \notin fs /\ Merged(kind, unit, fs) = {} /\ Nary(kind, unit, zero, fs) = unit
            \/ zero \notin fs /\ Merged(kind, unit, fs) = {Nary(kind, unit, zero, fs)}
            \/ zero \notin fs /\ Nary(kind, unit, zero, fs) = [k |-> kind, s |-> Merged(kind, unit, fs)]
<1> DEFINE M == Merged(kind, unit, fs)
           n == Nary(kind, unit, zero, fs)
<1>1. n = IF zero \in fs THEN zero ELSE IF M = {} THEN unit
          ELSE IF Cardinality(M) = 1 THEN CHOOSE f \in M : TRUE ELSE [k |-> kind, s |-> M]
  BY DEF Nary, Merged
<1>2. M \subseteq Body
  BY BodyOperands DEF Merged
<1>3. IsFiniteSet(M)
  BY <1>2, BodyAssumption, FS_Subset
<1> HIDE DEF M, n
<1>4. Cardinality(M) = 1 => M = {CHOOSE f \in M : TRUE}
  <2> HAVE Cardinality(M) = 1
  <2>1. \E x : M = {x}
    BY <1>3, FS_Singleton
  <2>2. PICK x : M = {x}
    BY <2>1
  <2>3. (CHOOSE f \in {x} : TRUE) = x
    OBVIOUS
  <2> QED BY <2>2, <2>3
<1>5. (zero \in fs /\ n = zero) \/ (zero \notin fs /\ M = {} /\ n = unit) \/ (zero \notin fs /\ M = {n}) \/ (zero \notin fs /\ n = [k |-> kind, s |-> M])
  BY <1>1, <1>4
<1> QED BY <1>2, <1>5 DEF M, n

\* A conjunction holds where its operands do.
LEMMA AndHolds ==
  ASSUME NEW p, NEW fs \in SUBSET Body, AndF(fs) \in Body
  PROVE  /\ HoldsAt(AndF(fs), p) <=> \A h \in fs : HoldsAt(h, p)
         /\ Relations(AndF(fs)) \subseteq UNION {Relations(h) : h \in fs}
<1> DEFINE M == Merged("and", TrueF, fs)
           n == AndF(fs)
<1>1. /\ M \subseteq Body
      /\ \/ FalseF \in fs /\ n = FalseF
         \/ FalseF \notin fs /\ M = {} /\ n = TrueF
         \/ FalseF \notin fs /\ M = {n}
         \/ FalseF \notin fs /\ n = [k |-> "and", s |-> M]
  BY NaryFacts DEF AndF
<1>2. \A m \in M : \E f \in fs : (f.k = "and" /\ m \in f.s) \/ m = f
  BY DEF Merged
<1>3. \A f \in fs : f = TrueF \/ (f.k = "and" /\ \A m \in f.s : m = TrueF \/ m \in M) \/ (f.k # "and" /\ f \in M)
  BY DEF Merged
<1> HIDE DEF M, n
<1>4. \A f \in fs : f.k = "and" => (HoldsAt(f, p) <=> \A h \in f.s : HoldsAt(h, p)) /\ f.s \subseteq Body
  BY HoldsFacts, BodyOperands
<1>5. TrueF \in Body => HoldsAt(TrueF, p)
  BY HoldsFacts
<1>6. (\A m \in M : HoldsAt(m, p)) <=> \A f \in fs : HoldsAt(f, p)
  <2>1. ASSUME \A m \in M : HoldsAt(m, p), NEW f \in fs PROVE HoldsAt(f, p)
    <3>1. CASE f = TrueF
      BY <1>5, <3>1
    <3>2. CASE f.k = "and" /\ \A m \in f.s : m = TrueF \/ m \in M
      BY <1>4, <1>5, <2>1, <3>2
    <3>3. CASE f.k # "and" /\ f \in M
      BY <2>1, <3>3
    <3> QED BY <1>3, <3>1, <3>2, <3>3
  <2>2. ASSUME \A f \in fs : HoldsAt(f, p), NEW m \in M PROVE HoldsAt(m, p)
    BY <1>2, <1>4, <2>2
  <2> QED BY <2>1, <2>2
<1>7. \A m \in M : Relations(m) \subseteq UNION {Relations(h) : h \in fs}
  BY <1>2, RelationsFacts
<1>8. n \in Body
  BY DEF n
<1>9. CASE FalseF \in fs /\ n = FalseF
  <2>1. ~HoldsAt(FalseF, p) /\ Relations(FalseF) = {}
    BY <1>8, <1>9, HoldsFacts, RelationsFacts
  <2> QED BY <1>9, <2>1 DEF n
<1>10. CASE FalseF \notin fs /\ M = {} /\ n = TrueF
  <2>1. HoldsAt(TrueF, p) /\ Relations(TrueF) = {}
    BY <1>8, <1>10, HoldsFacts, RelationsFacts
  <2> QED BY <1>6, <1>10, <2>1 DEF n
<1>11. CASE FalseF \notin fs /\ M = {n}
  BY <1>6, <1>7, <1>11 DEF n
<1>12. CASE FalseF \notin fs /\ n = [k |-> "and", s |-> M]
  <2>1. n.k = "and" /\ n.s = M
    BY <1>12
  <2>2. HoldsAt(n, p) <=> \A m \in M : HoldsAt(m, p)
    BY <1>8, <2>1, HoldsFacts
  <2>3. Relations(n) = UNION {Relations(m) : m \in M}
    BY <1>8, <2>1, RelationsFacts
  <2> QED BY <1>6, <1>7, <2>2, <2>3 DEF n
<1> QED BY <1>1, <1>9, <1>10, <1>11, <1>12

\* A disjunction holds where one of its operands does.
LEMMA OrHolds ==
  ASSUME NEW p, NEW fs \in SUBSET Body, OrF(fs) \in Body
  PROVE  /\ HoldsAt(OrF(fs), p) <=> \E h \in fs : HoldsAt(h, p)
         /\ Relations(OrF(fs)) \subseteq UNION {Relations(h) : h \in fs}
<1> DEFINE M == Merged("or", FalseF, fs)
           n == OrF(fs)
<1>1. /\ M \subseteq Body
      /\ \/ TrueF \in fs /\ n = TrueF
         \/ TrueF \notin fs /\ M = {} /\ n = FalseF
         \/ TrueF \notin fs /\ M = {n}
         \/ TrueF \notin fs /\ n = [k |-> "or", s |-> M]
  BY NaryFacts DEF OrF
<1>2. \A m \in M : \E f \in fs : (f.k = "or" /\ m \in f.s) \/ m = f
  BY DEF Merged
<1>3. \A f \in fs : f = FalseF \/ (f.k = "or" /\ \A m \in f.s : m = FalseF \/ m \in M) \/ (f.k # "or" /\ f \in M)
  BY DEF Merged
<1>4. FalseF.k = "false" /\ TrueF.k = "true"
  BY DEF FalseF, TrueF
<1> HIDE DEF M, n
<1>5. \A f \in fs : f.k = "or" => (HoldsAt(f, p) <=> \E h \in f.s : HoldsAt(h, p)) /\ f.s \subseteq Body
  BY HoldsFacts, BodyOperands
<1>6. FalseF \in Body => ~HoldsAt(FalseF, p)
  BY HoldsFacts
<1>7. (\E m \in M : HoldsAt(m, p)) <=> \E f \in fs : HoldsAt(f, p)
  <2>1. ASSUME NEW f \in fs, HoldsAt(f, p) PROVE \E m \in M : HoldsAt(m, p)
    <3>1. CASE f = FalseF
      BY <1>6, <2>1, <3>1
    <3>2. CASE f.k = "or" /\ \A m \in f.s : m = FalseF \/ m \in M
      BY <1>5, <1>6, <2>1, <3>2
    <3>3. CASE f.k # "or" /\ f \in M
      BY <2>1, <3>3
    <3> QED BY <1>3, <3>1, <3>2, <3>3
  <2>2. ASSUME NEW m \in M, HoldsAt(m, p) PROVE \E f \in fs : HoldsAt(f, p)
    BY <1>2, <1>5, <2>2
  <2> QED BY <2>1, <2>2
<1>8. \A m \in M : Relations(m) \subseteq UNION {Relations(h) : h \in fs}
  BY <1>2, RelationsFacts
<1>9. n \in Body
  BY DEF n
<1>10. CASE TrueF \in fs /\ n = TrueF
  <2>1. HoldsAt(TrueF, p) /\ Relations(TrueF) = {}
    BY <1>9, <1>10, HoldsFacts, RelationsFacts
  <2> QED BY <1>10, <2>1 DEF n
<1>11. CASE TrueF \notin fs /\ M = {} /\ n = FalseF
  <2>1. ~HoldsAt(FalseF, p) /\ Relations(FalseF) = {}
    BY <1>9, <1>11, HoldsFacts, RelationsFacts
  <2> QED BY <1>7, <1>11, <2>1 DEF n
<1>12. CASE TrueF \notin fs /\ M = {n}
  BY <1>7, <1>8, <1>12 DEF n
<1>13. CASE TrueF \notin fs /\ n = [k |-> "or", s |-> M]
  <2>1. n.k = "or" /\ n.s = M
    BY <1>13
  <2>2. HoldsAt(n, p) <=> \E m \in M : HoldsAt(m, p)
    BY <1>9, <2>1, HoldsFacts
  <2>3. Relations(n) = UNION {Relations(m) : m \in M}
    BY <1>9, <2>1, RelationsFacts
  <2> QED BY <1>7, <1>8, <2>2, <2>3 DEF n
<1> QED BY <1>1, <1>10, <1>11, <1>12, <1>13

\* The negation of a relation, which may be a constant.
LEMMA NegatedRelation ==
  ASSUME NEW V, NEW p \in Points(V), NEW f \in Body, f.k = "rel", RelationVars(f) \subseteq V,
         NEW g, g = Rel(NegateRelop(f.op), f.l, f.r), g \in Body
  PROVE  (HoldsAt(g, p) <=> ~HoldsAt(f, p)) /\ \A r \in Relations(g) : RelationVars(r) \subseteq V
<1>1. IsRelational(f, V) /\ Atom(f) = f
  BY DEF IsRelational, Atom
<1>2. f.op \in Relops /\ f.l \in Expr /\ f.r \in Expr /\ VarsOf(f.l) \subseteq V /\ VarsOf(f.r) \subseteq V
  BY <1>1, AtomFacts
<1> DEFINE a == ExactValue(f.l, p)
           b == ExactValue(f.r, p)
           op == NegateRelop(f.op)
<1>3. a \in Int /\ b \in Int
  BY <1>2, ConvertExpressionEncloses
<1>4. HoldsAt(f, p) <=> Compare(f.op, a, b)
  BY HoldsFacts
<1>5. ~Compare(f.op, a, b) <=> Compare(op, a, b)
  BY <1>2, <1>3, CompareDifference
<1>6. CASE IsConst(f.l) /\ IsConst(f.r) /\ f.l.lo = f.l.hi /\ f.r.lo = f.r.hi
  <2>1. a = f.l.lo /\ b = f.r.lo
    <3>1. ASSUME NEW e \in Expr, e.k = "const", e.lo = e.hi PROVE ExactValue(e, p) = e.lo
      <4>1. e.lo \in Int /\ (e.lo + e.lo) \div 2 = e.lo
        BY <3>1, ExpressionFacts DEF IsExpression
      <4>2. NodeValue(e, p) = (e.lo + e.hi) \div 2
        BY <3>1 DEF NodeValue, ValueOf
      <4> QED BY <3>1, <4>1, <4>2, NodeValueFacts
    <3> QED BY <1>2, <1>6, <3>1 DEF IsConst
  <2>2. g = IF Compare(op, a, b) THEN TrueF ELSE FalseF
    BY <1>6, <2>1 DEF Rel
  <2> HIDE DEF a, b, op
  <2>3. CASE Compare(op, a, b)
    <3>1. g = TrueF
      BY <2>2, <2>3
    <3> QED BY <1>4, <1>5, <2>3, <3>1, HoldsFacts, RelationsFacts
  <2>4. CASE ~Compare(op, a, b)
    <3>1. g = FalseF
      BY <2>2, <2>4
    <3> QED BY <1>4, <1>5, <2>4, <3>1, HoldsFacts, RelationsFacts
  <2> QED BY <2>3, <2>4
<1>7. CASE ~(IsConst(f.l) /\ IsConst(f.r) /\ f.l.lo = f.l.hi /\ f.r.lo = f.r.hi)
  <2>1. g = [k |-> "rel", op |-> op, l |-> f.l, r |-> f.r]
    BY <1>7 DEF Rel
  <2>2. g.k = "rel" /\ g.op = op /\ g.l = f.l /\ g.r = f.r
    BY <2>1
  <2>3. HoldsAt(g, p) <=> Compare(op, a, b)
    BY <2>2, HoldsFacts
  <2>4. Relations(g) = {g} /\ Atom(g) = g
    BY <2>2, RelationsFacts DEF Atom
  <2>5. RelationVars(g) \subseteq V
    BY <1>2, <2>2, <2>4 DEF RelationVars
  <2> QED BY <1>4, <1>5, <2>3, <2>4, <2>5
<1> QED BY <1>6, <1>7

\* What the normal form of a formula or of its negation says, and its variables.
IsNormal(f, p, V) ==
  \A pos \in BOOLEAN : /\ IsOver(Nnf(f, pos), V)
                       /\ HoldsAt(Nnf(f, pos), p) <=> (HoldsAt(f, p) <=> pos)

\* The normal form of a conjunction or a disjunction, from those of its operands.
NormalForms(fs, pos) == {Nnf(h, pos) : h \in fs}
AllAre(fs, p, pos)   == \A h \in fs : (HoldsAt(h, p) <=> pos)
AreNormal(fs, p, V)  == \A h \in fs : IsNormal(h, p, V)
SomeIs(fs, p, pos)   == \E h \in fs : (HoldsAt(h, p) <=> pos)
AreOver(fs, V)       == \A h \in fs : IsOver(h, V)
LEMMA NormalOperands ==
  ASSUME NEW V, NEW p, NEW fs \in SUBSET Body, NEW pos \in BOOLEAN, AreNormal(fs, p, V),
         NEW Q, Q = NormalForms(fs, pos)
  PROVE  /\ Q \in SUBSET Body
         /\ AreOver(Q, V)
         /\ (\A g \in Q : HoldsAt(g, p)) <=> AllAre(fs, p, pos)
         /\ (\E g \in Q : HoldsAt(g, p)) <=> SomeIs(fs, p, pos)
<1>1. ASSUME NEW g \in Q PROVE \E h \in fs : g = Nnf(h, pos)
  BY DEF NormalForms
<1>2. ASSUME NEW h \in fs PROVE Nnf(h, pos) \in Q
  BY DEF NormalForms
<1>3. ASSUME NEW h \in fs PROVE IsOver(Nnf(h, pos), V) /\ (HoldsAt(Nnf(h, pos), p) <=> (HoldsAt(h, p) <=> pos)) /\ Nnf(h, pos) \in Body
  BY BodyOperands DEF IsNormal, AreNormal
<1>4. Q \in SUBSET Body
  BY <1>1, <1>3
<1>5. AreOver(Q, V)
  BY <1>1, <1>3 DEF AreOver
<1>6. (\A g \in Q : HoldsAt(g, p)) <=> AllAre(fs, p, pos)
  BY <1>1, <1>2, <1>3 DEF AllAre
<1>7. (\E g \in Q : HoldsAt(g, p)) <=> SomeIs(fs, p, pos)
  BY <1>1, <1>2, <1>3 DEF SomeIs
<1> QED BY <1>4, <1>5, <1>6, <1>7

LEMMA NormalAnd ==
  ASSUME NEW V, NEW p, NEW fs \in SUBSET Body, NEW pos \in BOOLEAN, AreNormal(fs, p, V),
         AndF(NormalForms(fs, pos)) \in Body
  PROVE  /\ IsOver(AndF(NormalForms(fs, pos)), V)
         /\ HoldsAt(AndF(NormalForms(fs, pos)), p) <=> AllAre(fs, p, pos)
<1> DEFINE Q == NormalForms(fs, pos)
<1>1. Q \in SUBSET Body /\ AreOver(Q, V)
      /\ ((\A g \in Q : HoldsAt(g, p)) <=> AllAre(fs, p, pos))
  BY NormalOperands
<1>2. AndF(Q) \in Body
  OBVIOUS
<1> HIDE DEF Q
<1>3. (HoldsAt(AndF(Q), p) <=> \A g \in Q : HoldsAt(g, p)) /\ Relations(AndF(Q)) \subseteq UNION {Relations(g) : g \in Q}
  BY <1>1, <1>2, AndHolds
<1>4. IsOver(AndF(Q), V)
  BY <1>1, <1>3 DEF IsOver, AreOver
<1> QED BY <1>1, <1>3, <1>4 DEF Q

LEMMA NormalOr ==
  ASSUME NEW V, NEW p, NEW fs \in SUBSET Body, NEW pos \in BOOLEAN, AreNormal(fs, p, V),
         OrF(NormalForms(fs, pos)) \in Body
  PROVE  /\ IsOver(OrF(NormalForms(fs, pos)), V)
         /\ HoldsAt(OrF(NormalForms(fs, pos)), p) <=> SomeIs(fs, p, pos)
<1> DEFINE Q == NormalForms(fs, pos)
<1>1. Q \in SUBSET Body /\ AreOver(Q, V)
      /\ ((\E g \in Q : HoldsAt(g, p)) <=> SomeIs(fs, p, pos))
  BY NormalOperands
<1>2. OrF(Q) \in Body
  OBVIOUS
<1> HIDE DEF Q
<1>3. (HoldsAt(OrF(Q), p) <=> \E g \in Q : HoldsAt(g, p)) /\ Relations(OrF(Q)) \subseteq UNION {Relations(g) : g \in Q}
  BY <1>1, <1>2, OrHolds
<1>4. IsOver(OrF(Q), V)
  BY <1>1, <1>3 DEF IsOver, AreOver
<1> QED BY <1>1, <1>3, <1>4 DEF Q

LEMMA NnfHolds ==
  ASSUME NEW V, NEW p \in Points(V)
  PROVE  \A f \in Body : IsOver(f, V) => IsNormal(f, p, V)
<1> DEFINE T == {f \in Body : IsOver(f, V) => IsNormal(f, p, V)}
<1>1. ASSUME NEW f \in Body, Children(f) \subseteq T PROVE f \in T
  <2> SUFFICES ASSUME IsOver(f, V) PROVE IsNormal(f, p, V)
    OBVIOUS
  <2>0. Nnf(f, TRUE) \in Body /\ Nnf(f, FALSE) \in Body /\ f.k \in {"true", "false", "rel", "not", "and", "or"}
    BY BodyOperands, BodyKinds
  <2>1. CASE f.k \in {"true", "false"}
    <3>1. Nnf(f, TRUE) = f /\ Nnf(f, FALSE) = NotF(f)
      BY <2>1, NnfEquation
    <3>2. NotF(f) = IF f.k = "true" THEN FalseF ELSE TrueF
      BY <2>1 DEF NotF
    <3>3. HoldsAt(f, p) <=> f.k = "true"
      BY <2>1, HoldsFacts
    <3>4. HoldsAt(Nnf(f, FALSE), p) <=> ~(f.k = "true")
      <4>1. CASE f.k = "true"
        BY <2>0, <3>1, <3>2, <4>1, HoldsFacts
      <4>2. CASE f.k = "false"
        BY <2>0, <3>1, <3>2, <4>2, HoldsFacts
      <4> QED BY <2>1, <4>1, <4>2
    <3>5. Relations(Nnf(f, FALSE)) = {}
      BY <2>0, <3>1, <3>2, RelationsFacts
    <3> QED BY <3>1, <3>3, <3>4, <3>5 DEF IsNormal, IsOver
  <2>2. CASE f.k = "rel"
    <3>1. Nnf(f, TRUE) = f /\ Nnf(f, FALSE) = Rel(NegateRelop(f.op), f.l, f.r)
      BY <2>2, NnfEquation
    <3>2. RelationVars(f) \subseteq V
      BY <2>2, RelationsFacts DEF IsOver
    <3>3. (HoldsAt(Nnf(f, FALSE), p) <=> ~HoldsAt(f, p)) /\ IsOver(Nnf(f, FALSE), V)
      BY <2>0, <2>2, <3>1, <3>2, NegatedRelation DEF IsOver
    <3> QED BY <3>1, <3>3 DEF IsNormal
  <2>3. CASE f.k = "not"
    <3>1. Nnf(f, TRUE) = Nnf(f.f, FALSE) /\ Nnf(f, FALSE) = Nnf(f.f, TRUE)
      BY <2>3, NnfEquation
    <3>2. f.f \in T /\ IsOver(f.f, V)
      BY <1>1, <2>3, RelationsFacts DEF Children, IsOver
    <3>3. IsNormal(f.f, p, V)
      BY <3>2
    <3>4. HoldsAt(f, p) <=> ~HoldsAt(f.f, p)
      BY <2>3, HoldsFacts
    <3> QED BY <3>1, <3>3, <3>4 DEF IsNormal
  <2>4. CASE f.k \in {"and", "or"}
    <3>1. \A h \in f.s : h \in Body /\ IsNormal(h, p, V)
      <4> TAKE h \in f.s
      <4>1. h \in T /\ Relations(h) \subseteq Relations(f)
        BY <1>1, <2>4, RelationsFacts DEF Children
      <4> QED BY <4>1 DEF IsOver
    <3> HIDE DEF T
    <3>2. f.s \in SUBSET Body /\ AreNormal(f.s, p, V)
      BY <3>1 DEF AreNormal
    <3>3. TRUE \in BOOLEAN /\ FALSE \in BOOLEAN
      OBVIOUS
    <3>5. CASE f.k = "and"
      <4>1. Nnf(f, TRUE) = AndF(NormalForms(f.s, TRUE)) /\ Nnf(f, FALSE) = OrF(NormalForms(f.s, FALSE))
        BY <3>5, NnfEquation DEF NormalForms
      <4>2. IsOver(Nnf(f, TRUE), V) /\ (HoldsAt(Nnf(f, TRUE), p) <=> AllAre(f.s, p, TRUE))
        BY <2>0, <3>2, <3>3, <4>1, NormalAnd
      <4>3. IsOver(Nnf(f, FALSE), V) /\ (HoldsAt(Nnf(f, FALSE), p) <=> SomeIs(f.s, p, FALSE))
        BY <2>0, <3>2, <3>3, <4>1, NormalOr
      <4>4. HoldsAt(f, p) <=> \A h \in f.s : HoldsAt(h, p)
        BY <3>5, HoldsFacts
      <4> QED BY <4>2, <4>3, <4>4 DEF IsNormal, AllAre, SomeIs
    <3>6. CASE f.k = "or"
      <4>1. Nnf(f, TRUE) = OrF(NormalForms(f.s, TRUE)) /\ Nnf(f, FALSE) = AndF(NormalForms(f.s, FALSE))
        BY <3>6, NnfEquation DEF NormalForms
      <4>2. IsOver(Nnf(f, TRUE), V) /\ (HoldsAt(Nnf(f, TRUE), p) <=> SomeIs(f.s, p, TRUE))
        BY <2>0, <3>2, <3>3, <4>1, NormalOr
      <4>3. IsOver(Nnf(f, FALSE), V) /\ (HoldsAt(Nnf(f, FALSE), p) <=> AllAre(f.s, p, FALSE))
        BY <2>0, <3>2, <3>3, <4>1, NormalAnd
      <4>4. HoldsAt(f, p) <=> \E h \in f.s : HoldsAt(h, p)
        BY <3>6, HoldsFacts
      <4> QED BY <4>2, <4>3, <4>4 DEF IsNormal, AllAre, SomeIs
    <3> QED BY <2>4, <3>5, <3>6
  <2> QED BY <2>0, <2>1, <2>2, <2>3, <2>4
<1>2. Body \subseteq T
  <2> HIDE DEF T
  <2> QED BY <1>1, BodyInduction
<1> QED BY <1>2

\* Where a formula holds, its constraints allow the point.
LEMMA BodyAllowsHolds ==
  ASSUME NEW V, NEW p \in Points(V)
  PROVE  \A f \in Body : IsOver(f, V) /\ HoldsAt(f, p) => BodyAllows(f, p)
<1> DEFINE T == {f \in Body : IsOver(f, V) /\ HoldsAt(f, p) => BodyAllows(f, p)}
<1>1. ASSUME NEW f \in Body, Children(f) \subseteq T PROVE f \in T
  <2> SUFFICES ASSUME IsOver(f, V), HoldsAt(f, p) PROVE BodyAllows(f, p)
    OBVIOUS
  <2>0. f.k \in {"true", "false", "rel", "not", "and", "or"}
    BY BodyKinds
  <2>1. CASE f.k \in {"and", "or"}
    <3>1. \A h \in f.s : HoldsAt(h, p) => BodyAllows(h, p)
      <4> TAKE h \in f.s
      <4>1. h \in T /\ Relations(h) \subseteq Relations(f)
        BY <1>1, <2>1, RelationsFacts DEF Children
      <4> QED BY <4>1 DEF IsOver
    <3> HIDE DEF T
    <3>2. CASE f.k = "and"
      <4>1. BodyAllows(f, p) = \A h \in f.s : BodyAllows(h, p)
        BY <3>2, BodyAllowsEquation
      <4>2. \A h \in f.s : HoldsAt(h, p)
        BY <3>2, HoldsFacts
      <4> QED BY <3>1, <4>1, <4>2
    <3>3. CASE f.k = "or"
      <4>1. BodyAllows(f, p) = \E h \in f.s : BodyAllows(h, p)
        BY <3>3, BodyAllowsEquation
      <4>2. \E h \in f.s : HoldsAt(h, p)
        BY <3>3, HoldsFacts
      <4> QED BY <3>1, <4>1, <4>2
    <3> QED BY <2>1, <3>2, <3>3
  <2>2. CASE f.k \notin {"and", "or"}
    <3>1. BodyAllows(f, p) = Allows(Convert(f), p)
      BY <2>2, BodyAllowsEquation
    <3>2. CASE Atom(f).k # "rel"
      <4>1. Convert(f) = NoConstraint
        BY <3>2 DEF Convert
      <4> QED BY <3>1, <4>1 DEF Allows
    <3>3. CASE Atom(f).k = "rel"
      <4>1. f.k \in {"rel", "not"}
        BY <2>0, <2>2, <3>3 DEF Atom
      <4>2. Relations(f) = {Atom(f)} /\ Atom(f) \in Body
        <5>1. CASE f.k = "rel"
          BY <5>1, RelationsFacts DEF Atom
        <5>2. CASE f.k = "not"
          <6>1. Atom(f) = f.f /\ f.f \in Body
            BY <5>2, BodyOperands DEF Atom
          <6> QED BY <3>3, <5>2, <6>1, RelationsFacts
        <5> QED BY <4>1, <5>1, <5>2
      <4>3. RelationVars(f) \subseteq V
        <5>1. RelationVars(Atom(f)) \subseteq V
          BY <4>2 DEF IsOver
        <5>2. Atom(Atom(f)) = Atom(f)
          BY <3>3 DEF Atom
        <5> QED BY <5>1, <5>2 DEF RelationVars
      <4>4. IsRelational(f, V)
        BY <3>3, <4>1, <4>3 DEF IsRelational
      <4> QED BY <3>1, <4>4, ConstraintAllows
    <3> QED BY <3>2, <3>3
  <2> QED BY <2>0, <2>1, <2>2
<1>2. Body \subseteq T
  <2> HIDE DEF T
  <2> QED BY <1>1, BodyInduction
<1> QED BY <1>2

\* A point over the variables of the box and a universal one make a point over all.
LEMMA OverridePoint ==
  ASSUME NEW V, NEW p \in Points(V), NEW Y, NEW y \in UniversalPoints(Y)
  PROVE  Override(p, y) \in Points(V \cup Y)
<1>1. DOMAIN p = V /\ (\A v \in V : p[v] \in Int) /\ DOMAIN y = Y /\ \A v \in Y : y[v] \in Int
  BY InfinityFacts DEF Points, UniversalPoints
<1> QED BY <1>1 DEF Override, Points

\* A literal that holds at a point is accepted there.
LEMMA SatisfiesAccepts ==
  ASSUME NEW f, IsLiteral(f), NEW p \in Points(V0), Satisfies(f, p)
  PROVE  Accepts(f, p) /\ (f.k # "forall" => IsRelational(f, V0))
<1>1. CASE f.k = "forall"
  <2> DEFINE V == V0 \cup f.y
             g == Nnf(f.f, TRUE)
  <2>1. f.f \in Body /\ IsOver(f.f, V)
    BY <1>1 DEF IsLiteral, IsOver, V0
  <2>2. ASSUME NEW y \in UniversalPoints(f.y) PROVE BodyAllows(g, Override(p, y))
    <3> DEFINE q == Override(p, y)
    <3>1. q \in Points(V)
      BY OverridePoint
    <3>2. HoldsAt(f.f, q)
      BY <1>1 DEF Satisfies
    <3> HIDE DEF q, V
    <3>3. IsNormal(f.f, q, V)
      BY <2>1, <3>1, NnfHolds
    <3>4. IsOver(g, V) /\ HoldsAt(g, q)
      BY <3>2, <3>3 DEF IsNormal
    <3>5. g \in Body
      BY <2>1, BodyOperands
    <3>6. BodyAllows(g, q)
      BY <3>1, <3>4, <3>5, BodyAllowsHolds
    <3> QED BY <3>6 DEF q
  <2> QED BY <1>1, <2>2 DEF Accepts
<1>2. CASE f.k # "forall"
  <2>1. IsRelational(f, V0)
    BY <1>2 DEF IsLiteral, IsRelational, V0
  <2>2. HoldsAt(f, p)
    BY <1>2 DEF Satisfies
  <2> QED BY <1>2, <2>1, <2>2, ConstraintAllows DEF Accepts
<1> QED BY <1>1, <1>2

-----------------------------------------------------------------------------
(* What a bound leaves of the box (AssertionFilter) *)

\* Of the points of a box, cutting it at v leaves those between the bounds.
LEMMA NarrowPoints ==
  ASSUME NEW V, NEW b, IsBox(b, V), NEW v \in V, NEW l \in Int, NEW h \in Int, NEW p \in Points(V)
  PROVE  IsIn(Narrow(b, v, l, h), p) <=> IsIn(b, p) /\ l <= p[v] /\ p[v] <= h
<1> DEFINE lo == Larger(b[v].lo, l)
           hi == Smaller(b[v].hi, h)
<1>0. DOMAIN b = V /\ b = [w \in V |-> b[w]] /\ b[v].lo \in Int /\ b[v].hi \in Int /\ p[v] \in Int
  BY DEF IsBox, IsBound, Points
<1>1. /\ lo \in Int /\ hi \in Int
      /\ lo <= p[v] <=> b[v].lo <= p[v] /\ l <= p[v]
      /\ p[v] <= hi <=> p[v] <= b[v].hi /\ p[v] <= h
  BY <1>0 DEF Larger, Smaller
<1>2. IsIn(b, p) => b[v].lo <= p[v] /\ p[v] <= b[v].hi
  BY <1>0 DEF IsIn, Contains
<1>3. CASE lo > hi
  <2>1. Narrow(b, v, l, h) = EmptyBox(b)
    BY <1>3 DEF Narrow
  <2>2. IsBox(EmptyBox(b), V) /\ IsEmptyBox(EmptyBox(b))
    <3>1. EmptyBox(b)[v] = Nothing /\ DOMAIN EmptyBox(b) = V
      BY <1>0 DEF EmptyBox
    <3>2. Infinity \in Nat /\ Infinity > -Infinity
      BY ReachAssumption DEF Infinity
    <3> QED BY <3>1, <3>2, EmptyBoxFacts DEF IsEmptyBox, Nothing
  <2>3. ~(lo <= p[v] /\ p[v] <= hi)
    <3> HIDE DEF lo, hi
    <3> QED BY <1>0, <1>1, <1>3
  <2>4. ~IsIn(EmptyBox(b), p)
    BY <2>2, EmptyHasNone
  <2> QED BY <1>1, <1>2, <2>1, <2>3, <2>4
<1>4. CASE ~(lo > hi)
  <2> DEFINE a == [b EXCEPT ![v] = [lo |-> lo, hi |-> hi]]
  <2>1. Narrow(b, v, l, h) = a
    BY <1>4 DEF Narrow
  <2> HIDE DEF lo, hi
  <2>2. DOMAIN a = V /\ a[v] = [lo |-> lo, hi |-> hi] /\ \A w \in V : w # v => a[w] = b[w]
    BY <1>0
  <2> HIDE DEF a
  <2>3. IsIn(a, p) => IsIn(b, p)
    BY <1>0, <1>1, <2>2 DEF IsIn, Contains
  <2>4. IsIn(a, p) => lo <= p[v] /\ p[v] <= hi
    BY <2>2 DEF IsIn, Contains
  <2>5. IsIn(b, p) /\ lo <= p[v] /\ p[v] <= hi => IsIn(a, p)
    BY <1>0, <2>2 DEF IsIn, Contains
  <2> QED BY <1>1, <1>2, <2>1, <2>3, <2>4, <2>5
<1> QED BY <1>3, <1>4

\* The value of a constant lies between its bounds, no further than a real
\* from the lower one.
LEMMA ConstantValue ==
  ASSUME NEW e \in Expr, IsConst(e), NEW V, NEW p \in Points(V)
  PROVE  /\ e.lo \in Int /\ e.hi \in Int /\ e.lo % 2 = 0 /\ e.hi % 2 = 0
         /\ ExactValue(e, p) \in Int /\ e.lo <= ExactValue(e, p) /\ ExactValue(e, p) <= e.hi
         /\ ExactValue(e, p) <= e.lo + 1 /\ e.hi <= ExactValue(e, p) + 1
<1>1. e.k = "const" /\ e.lo \in Int /\ e.lo % 2 = 0 /\ e.hi \in {e.lo, e.lo + 2}
  BY ExpressionFacts DEF IsExpression, IsConst
<1>2. NodeValue(e, p) = (e.lo + e.hi) \div 2
  BY <1>1 DEF NodeValue, ValueOf
<1>3. ExactValue(e, p) = NodeValue(e, p)
  BY NodeValueFacts
<1> DEFINE lo == e.lo
           hi == e.hi
           c == ExactValue(e, p)
<1>4. lo \in Int /\ lo % 2 = 0 /\ hi \in {lo, lo + 2} /\ c = (lo + hi) \div 2
  BY <1>1, <1>2, <1>3
<1> HIDE DEF lo, hi, c
<1>5. hi \in Int /\ hi % 2 = 0 /\ c \in Int /\ lo <= c /\ c <= hi /\ c <= lo + 1 /\ hi <= c + 1
  BY <1>4
<1> QED BY <1>4, <1>5 DEF lo, hi, c

\* The value of a variable.
LEMMA VariableValue ==
  ASSUME NEW e \in Expr, IsVariable(e), NEW p
  PROVE  ExactValue(e, p) = p[e.v] /\ VarsOf(e) = {e.v}
<1>1. e.k = "var"
  BY DEF IsVariable
<1>2. NodeValue(e, p) = p[e.v]
  BY <1>1 DEF NodeValue, ValueOf
<1> QED BY <1>2, NodeValueFacts, VarsOfEquation

\* The bounds that "v o c" sets, and the box with them.
LowEnd(o, v, c) ==
  IF o \in {"eq", "geq"} THEN c.lo
  ELSE IF o = "gt" THEN (IF IsInteger(v) THEN c.lo ELSE NextUp(c.lo)) ELSE -Infinity
HighEnd(o, v, c) ==
  IF o \in {"eq", "leq"} THEN c.hi
  ELSE IF o = "lt" THEN (IF IsInteger(v) THEN c.hi ELSE NextDown(c.hi)) ELSE Infinity
CutVar(o, v, c, b) == IF o = "neq" THEN b ELSE Narrow(b, v, LowEnd(o, v, c), HighEnd(o, v, c))

\* A relation that is read from the right.
Flip(op) == [eq |-> "eq", neq |-> "neq", gt |-> "lt", geq |-> "leq", lt |-> "gt", leq |-> "geq"][op]

\* The same of a relation "l op r" with a variable and a constant.
CutBy(op, l, r, b) == IF IsVariable(l) THEN CutVar(op, l.v, r, b) ELSE CutVar(Flip(op), r.v, l, b)

LEMMA FlipFacts ==
  /\ Flip("eq") = "eq" /\ Flip("neq") = "neq" /\ Flip("gt") = "lt"
  /\ Flip("geq") = "leq" /\ Flip("lt") = "gt" /\ Flip("leq") = "geq"
BY DEF Flip

\* The updates of the bounds.
LEMMA UpdateFacts ==
  ASSUME NEW v, NEW c, NEW b
  PROVE  /\ UpdateBoundsViaEquality(v, c.lo, c.hi, b).box = CutVar("eq", v, c, b)
         /\ UpdateLowerBound(v, c.lo, b).box = CutVar("geq", v, c, b)
         /\ UpdateUpperBound(v, c.hi, b).box = CutVar("leq", v, c, b)
         /\ UpdateStrictLowerBound(v, c.lo, b).box = CutVar("gt", v, c, b)
         /\ UpdateStrictUpperBound(v, c.hi, b).box = CutVar("lt", v, c, b)
<1>1. \A r : Filtered(r).box = r
  BY DEF Filtered
<1>2. \A r : KeptToo(Filtered(r)).box = r
  BY DEF KeptToo, Filtered
<1>3. UpdateBoundsViaEquality(v, c.lo, c.hi, b).box = CutVar("eq", v, c, b)
  BY <1>1 DEF UpdateBoundsViaEquality, CutVar, LowEnd, HighEnd
<1>4. UpdateLowerBound(v, c.lo, b).box = CutVar("geq", v, c, b)
  BY <1>1 DEF UpdateLowerBound, CutVar, LowEnd, HighEnd
<1>5. UpdateUpperBound(v, c.hi, b).box = CutVar("leq", v, c, b)
  BY <1>1 DEF UpdateUpperBound, CutVar, LowEnd, HighEnd
<1>6. UpdateStrictLowerBound(v, c.lo, b).box = CutVar("gt", v, c, b)
  BY <1>1, <1>2 DEF UpdateStrictLowerBound, UpdateLowerBound, CutVar, LowEnd, HighEnd
<1>7. UpdateStrictUpperBound(v, c.hi, b).box = CutVar("lt", v, c, b)
  BY <1>1, <1>2 DEF UpdateStrictUpperBound, UpdateUpperBound, CutVar, LowEnd, HighEnd
<1> QED BY <1>3, <1>4, <1>5, <1>6, <1>7

\* A relation that bounds a variable cuts it by its operator, whatever side the
\* variable is on and whether the relation is negated; others cut nothing.
LEMMA FilterCuts ==
  ASSUME NEW V, NEW f, IsRelational(f, V), NEW b
  PROVE  FilterAssertion(f, b).box =
           IF IsSimpleRelational(f) THEN CutBy(GetRelationalOperator(f), Atom(f).l, Atom(f).r, b) ELSE b
<1> DEFINE g == Atom(f)
           l == g.l
           r == g.r
<1>0. g.k = "rel" /\ g.op \in Relops /\ f.k \in {"rel", "not"}
      /\ GetRelationalOperator(f) = IF f.k = "not" THEN NegateRelop(g.op) ELSE g.op
  BY AtomFacts DEF IsRelational
<1>1. /\ FilterAssertion(f, b) = FilterRelation(g, b, f.k # "not")
      /\ IsSimpleRelational(f) <=> (IsConst(l) /\ IsVariable(r)) \/ (IsVariable(l) /\ IsConst(r))
  BY <1>0 DEF FilterAssertion, Atom, IsSimpleRelational
<1>2. Kept(b).box = b
  BY DEF Kept
<1>3. ~(IsConst(l) /\ IsVariable(l)) /\ ~(IsConst(r) /\ IsVariable(r))
  BY DEF IsConst, IsVariable
<1> DEFINE simple == (IsConst(l) /\ IsVariable(r)) \/ (IsVariable(l) /\ IsConst(r))
           Cut(op) == IF simple THEN CutBy(op, l, r, b) ELSE b
<1>4. FilterEqual(g, b, TRUE).box = Cut("eq") /\ FilterEqual(g, b, FALSE).box = Cut("neq")
  <2>1. \A w, c : CutVar("neq", w, c, b) = b
    BY DEF CutVar
  <2> QED BY <1>2, <1>3, <2>1, UpdateFacts, FlipFacts DEF FilterEqual, CutBy
<1>5. FilterGreater(g, b, TRUE).box = Cut("gt") /\ FilterGreater(g, b, FALSE).box = Cut("leq")
  BY <1>2, <1>3, UpdateFacts, FlipFacts DEF FilterGreater, CutBy
<1>6. FilterGreaterOrEqual(g, b, TRUE).box = Cut("geq") /\ FilterGreaterOrEqual(g, b, FALSE).box = Cut("lt")
  BY <1>2, <1>3, UpdateFacts, FlipFacts DEF FilterGreaterOrEqual, CutBy
<1>7. ASSUME NEW pos \in BOOLEAN
      PROVE  FilterRelation(g, b, pos).box = Cut(IF pos THEN g.op ELSE NegateRelop(g.op))
  <2> HIDE DEF Cut, simple
  <2>1. CASE g.op = "eq"
    BY <1>0, <1>4, <2>1, NegateFacts DEF FilterRelation
  <2>2. CASE g.op = "neq"
    BY <1>0, <1>4, <2>2, NegateFacts DEF FilterRelation
  <2>3. CASE g.op = "gt"
    BY <1>0, <1>5, <2>3, NegateFacts DEF FilterRelation
  <2>4. CASE g.op = "leq"
    BY <1>0, <1>5, <2>4, NegateFacts DEF FilterRelation
  <2>5. CASE g.op = "geq"
    BY <1>0, <1>6, <2>5, NegateFacts DEF FilterRelation
  <2>6. CASE g.op = "lt"
    BY <1>0, <1>6, <2>6, NegateFacts DEF FilterRelation
  <2> QED BY <1>0, <2>1, <2>2, <2>3, <2>4, <2>5, <2>6 DEF Relops
<1>8. FilterAssertion(f, b).box = Cut(GetRelationalOperator(f))
  <2> HIDE DEF Cut
  <2>1. CASE f.k = "not"
    BY <1>0, <1>1, <1>7, <2>1
  <2>2. CASE f.k # "not"
    BY <1>0, <1>1, <1>7, <2>2
  <2> QED BY <2>1, <2>2
<1> QED BY <1>1, <1>8

\* "a op b" with the difference d of a and b, up to delta.
Approx(op, d, delta) ==
  CASE op = "eq"  -> d \in -delta .. delta
    [] op = "neq" -> TRUE
    [] op = "gt"  -> d > -delta
    [] op = "geq" -> d >= -delta
    [] op = "lt"  -> d < delta
    [] op = "leq" -> d <= delta

LEMMA ApproxFacts ==
  ASSUME NEW d \in Int, NEW delta \in Nat
  PROVE  /\ Approx("eq", d, delta) <=> -delta <= d /\ d <= delta
         /\ Approx("neq", d, delta)
         /\ Approx("gt", d, delta) <=> d > -delta
         /\ Approx("geq", d, delta) <=> d >= -delta
         /\ Approx("lt", d, delta) <=> d < delta
         /\ Approx("leq", d, delta) <=> d <= delta
BY DEF Approx

\* What is left of a box that is cut by "v o c" are the points where it holds,
\* up to the width of a constant and the doubles next to a strict bound.
LEMMA CutVarPoints ==
  ASSUME NEW V, NEW b, IsBox(b, V), NEW p \in Points(V), NEW v \in V, NEW c \in Expr, IsConst(c), NEW o \in Relops,
         NEW delta \in Nat, delta >= 2
  PROVE  /\ IsIn(b, p) /\ Compare(o, p[v], ExactValue(c, p)) /\ (o \in {"gt", "lt"} => p[v] % 2 = 0)
              => IsIn(CutVar(o, v, c, b), p)
         /\ IsIn(CutVar(o, v, c, b), p) => Approx(o, p[v] - ExactValue(c, p), delta)
<1> DEFINE x == ExactValue(c, p)
           y == p[v]
           l == LowEnd(o, v, c)
           h == HighEnd(o, v, c)
<1>1. /\ c.lo \in Int /\ c.hi \in Int /\ c.lo % 2 = 0 /\ c.hi % 2 = 0
      /\ x \in Int /\ c.lo <= x /\ x <= c.hi /\ x <= c.lo + 1 /\ c.hi <= x + 1
  BY ConstantValue
<1>2. y \in Int /\ Infinity \in Int /\ -Infinity \in Int
  BY InfinityFacts DEF Points
<1>3. IsIn(b, p) => -Infinity <= y /\ y <= Infinity
  <2>1. DOMAIN b = V /\ b[v].lo \in Int /\ b[v].hi \in Int /\ -Infinity <= b[v].lo /\ b[v].hi <= Infinity
    BY DEF IsBox, IsBound
  <2>2. IsIn(b, p) => b[v].lo <= y /\ y <= b[v].hi
    BY <2>1 DEF IsIn, Contains
  <2> QED BY <1>2, <2>1, <2>2
<1>4. l \in Int /\ h \in Int
  BY <1>1, <1>2 DEF LowEnd, HighEnd, NextUp, NextDown
<1>5. CASE o = "neq"
  BY <1>1, <1>2, <1>5, ApproxFacts DEF CutVar
<1>6. CASE o # "neq"
  <2>1. CutVar(o, v, c, b) = Narrow(b, v, l, h)
    BY <1>6 DEF CutVar
  <2>2. IsIn(CutVar(o, v, c, b), p) <=> IsIn(b, p) /\ l <= y /\ y <= h
    BY <1>4, <2>1, NarrowPoints
  <2> DEFINE lo == c.lo
             hi == c.hi
  <2>3. CASE o = "eq"
    <3>1. l = lo /\ h = hi
      BY <2>3 DEF LowEnd, HighEnd
    <3> HIDE DEF x, y, l, h, lo, hi
    <3> QED BY <1>1, <1>2, <1>3, <2>2, <2>3, <3>1, CompareFacts, ApproxFacts DEF lo, hi, x, y
  <2>4. CASE o = "geq"
    <3>1. l = lo /\ h = Infinity
      BY <2>4 DEF LowEnd, HighEnd
    <3> HIDE DEF l, h, lo, hi
    <3> QED BY <1>1, <1>2, <1>3, <2>2, <2>4, <3>1, CompareFacts, ApproxFacts DEF lo, hi
  <2>5. CASE o = "leq"
    <3>1. l = -Infinity /\ h = hi
      BY <2>5 DEF LowEnd, HighEnd
    <3> HIDE DEF l, h, lo, hi
    <3> QED BY <1>1, <1>2, <1>3, <2>2, <2>5, <3>1, CompareFacts, ApproxFacts DEF lo, hi
  <2>6. CASE o = "gt"
    <3>1. (l = lo \/ l = lo + 2) /\ h = Infinity
      BY <2>6 DEF LowEnd, HighEnd, NextUp
    <3> HIDE DEF l, h, lo, hi
    <3> QED BY <1>1, <1>2, <1>3, <2>2, <2>6, <3>1, CompareFacts, ApproxFacts DEF lo, hi
  <2>7. CASE o = "lt"
    <3>1. l = -Infinity /\ (h = hi \/ h = hi - 2)
      BY <2>7 DEF LowEnd, HighEnd, NextDown
    <3> HIDE DEF l, h, lo, hi
    <3> QED BY <1>1, <1>2, <1>3, <2>2, <2>7, <3>1, CompareFacts, ApproxFacts DEF lo, hi
  <2> QED BY <1>6, <2>3, <2>4, <2>5, <2>6, <2>7 DEF Relops
<1> QED BY <1>5, <1>6

\* A relation that is read from the right.
LEMMA FlipHolds ==
  ASSUME NEW a \in Int, NEW b \in Int, NEW op \in Relops, NEW delta \in Nat
  PROVE  /\ Flip(op) \in Relops
         /\ Flip(op) \in {"gt", "lt"} <=> op \in {"gt", "lt"}
         /\ Compare(op, a, b) <=> Compare(Flip(op), b, a)
         /\ Approx(op, a - b, delta) <=> Approx(Flip(op), b - a, delta)
<1> DEFINE d == a - b
           e == b - a
<1>0. d \in Int /\ e \in Int /\ e = -d
  OBVIOUS
<1>1. Approx(op, d, delta) <=> Approx(Flip(op), e, delta)
  <2> HIDE DEF d, e
  <2>1. CASE op = "eq"
    BY <1>0, <2>1, ApproxFacts, FlipFacts
  <2>2. CASE op = "neq"
    BY <1>0, <2>2, ApproxFacts, FlipFacts
  <2>3. CASE op = "gt"
    BY <1>0, <2>3, ApproxFacts, FlipFacts
  <2>4. CASE op = "geq"
    BY <1>0, <2>4, ApproxFacts, FlipFacts
  <2>5. CASE op = "lt"
    BY <1>0, <2>5, ApproxFacts, FlipFacts
  <2>6. CASE op = "leq"
    BY <1>0, <2>6, ApproxFacts, FlipFacts
  <2> QED BY <2>1, <2>2, <2>3, <2>4, <2>5, <2>6 DEF Relops
<1>2. Compare(op, a, b) <=> Compare(Flip(op), b, a)
  <2>1. CASE op = "eq"
    BY <2>1, CompareFacts, FlipFacts
  <2>2. CASE op = "neq"
    BY <2>2, CompareFacts, FlipFacts
  <2>3. CASE op = "gt"
    BY <2>3, CompareFacts, FlipFacts
  <2>4. CASE op = "geq"
    BY <2>4, CompareFacts, FlipFacts
  <2>5. CASE op = "lt"
    BY <2>5, CompareFacts, FlipFacts
  <2>6. CASE op = "leq"
    BY <2>6, CompareFacts, FlipFacts
  <2> QED BY <2>1, <2>2, <2>3, <2>4, <2>5, <2>6 DEF Relops
<1>3. Flip(op) \in Relops /\ (Flip(op) \in {"gt", "lt"} <=> op \in {"gt", "lt"})
  BY FlipFacts DEF Relops
<1> QED BY <1>1, <1>2, <1>3

\* What a literal says at a point, of its sides and of its difference.
LEMMA HoldsByOperator ==
  ASSUME NEW V, NEW f, IsRelational(f, V), NEW p \in Points(V)
  PROVE  LET a == ExactValue(Atom(f).l, p)
             b == ExactValue(Atom(f).r, p)
             op == GetRelationalOperator(f)
         IN  /\ a \in Int /\ b \in Int /\ op \in Relops
             /\ HoldsAt(f, p) <=> Compare(op, a, b)
             /\ \A delta : SatisfiesWithin(f, p, delta) = Approx(op, a - b, delta)
<1> DEFINE l == Atom(f).l
           r == Atom(f).r
           a == ExactValue(l, p)
           b == ExactValue(r, p)
           op == GetRelationalOperator(f)
           d == ExactValue(ExtractExpression(f), p)
<1>1. l \in Expr /\ r \in Expr /\ Minus(l, r) \in Expr /\ VarsOf(l) \subseteq V /\ VarsOf(r) \subseteq V /\ op \in Relops
  BY AtomFacts
<1>2. a \in Int /\ b \in Int
  BY <1>1, ConvertExpressionEncloses
<1>3. ExtractExpression(f) = Minus(l, r)
  BY DEF ExtractExpression
<1>4. d = a - b
  BY <1>1, <1>3, MinusValue
<1>5. HoldsAt(f, p) <=> Compare(op, d, 0)
  BY HoldsByDifference
<1>6. \A delta : SatisfiesWithin(f, p, delta) = Approx(op, d, delta)
  BY DEF SatisfiesWithin, Approx
<1> HIDE DEF a, b, op, d, l, r
<1>7. HoldsAt(f, p) <=> Compare(op, a, b)
  BY <1>1, <1>2, <1>4, <1>5, CompareDifference
<1>8. \A delta : SatisfiesWithin(f, p, delta) = Approx(op, a - b, delta)
  BY <1>4, <1>6
<1>9. a \in Int /\ b \in Int /\ op \in Relops
  BY <1>1, <1>2
<1> QED BY <1>7, <1>8, <1>9 DEF a, b, op, l, r

\* The filter keeps the points a bound owes, and leaves points where it holds up
\* to the precision (AssertionFilter).
LEMMA FilterKeepsOwed ==
  ASSUME NEW V, NEW f, IsRelational(f, V), NEW b, IsBox(b, V), NEW p \in Points(V), NEW delta \in Nat, delta >= 2
  PROVE  /\ IsIn(b, p) /\ HoldsAt(f, p) /\ (IsStrictBound(f) => \A v \in RelationVars(f) : p[v] % 2 = 0)
              => IsIn(FilterAssertion(f, b).box, p)
         /\ IsSimpleRelational(f) /\ IsIn(FilterAssertion(f, b).box, p) => SatisfiesWithin(f, p, delta)
<1> DEFINE l == Atom(f).l
           r == Atom(f).r
           op == GetRelationalOperator(f)
           x == ExactValue(l, p)
           y == ExactValue(r, p)
           kept == FilterAssertion(f, b).box
<1>1. /\ l \in Expr /\ r \in Expr /\ VarsOf(l) \subseteq V /\ VarsOf(r) \subseteq V /\ RelationVars(f) = VarsOf(l) \cup VarsOf(r)
      /\ Atom(f).k = "rel"
  BY AtomFacts DEF RelationVars
<1>2. /\ x \in Int /\ y \in Int /\ op \in Relops
      /\ HoldsAt(f, p) <=> Compare(op, x, y)
      /\ SatisfiesWithin(f, p, delta) = Approx(op, x - y, delta)
  BY HoldsByOperator
<1>3. kept = IF IsSimpleRelational(f) THEN CutBy(op, l, r, b) ELSE b
  BY FilterCuts
<1>4. IsSimpleRelational(f) <=> (IsConst(l) /\ IsVariable(r)) \/ (IsVariable(l) /\ IsConst(r))
  BY <1>1 DEF IsSimpleRelational
<1>5. IsStrictBound(f) <=> IsSimpleRelational(f) /\ op \in {"gt", "lt"}
  BY DEF IsStrictBound
<1> HIDE DEF l, r, op, x, y, kept
<1>6. CASE ~IsSimpleRelational(f)
  BY <1>3, <1>5, <1>6 DEF kept
<1>7. CASE IsVariable(l) /\ IsConst(r)
  <2> DEFINE v == l.v
  <2>1. x = p[v] /\ v \in V /\ v \in RelationVars(f)
    BY <1>1, <1>7, VariableValue DEF x
  <2>2. kept = CutVar(op, v, r, b)
    BY <1>3, <1>4, <1>7 DEF CutBy
  <2> HIDE DEF v
  <2>3. /\ IsIn(b, p) /\ Compare(op, p[v], y) /\ (op \in {"gt", "lt"} => p[v] % 2 = 0) => IsIn(kept, p)
        /\ IsIn(kept, p) => Approx(op, p[v] - y, delta)
    BY <1>1, <1>2, <1>7, <2>1, <2>2, CutVarPoints DEF y
  <2> QED BY <1>2, <1>4, <1>5, <1>7, <2>1, <2>3 DEF kept
<1>8. CASE IsConst(l) /\ IsVariable(r)
  <2> DEFINE v == r.v
             o == Flip(op)
  <2>0. ~IsVariable(l)
    BY <1>8 DEF IsConst, IsVariable
  <2>1. y = p[v] /\ v \in V /\ v \in RelationVars(f)
    BY <1>1, <1>8, VariableValue DEF y
  <2>2. kept = CutVar(o, v, l, b)
    BY <1>3, <1>4, <1>8, <2>0 DEF CutBy
  <2>3. /\ o \in Relops /\ (o \in {"gt", "lt"} <=> op \in {"gt", "lt"})
        /\ Compare(op, x, y) <=> Compare(o, y, x)
        /\ Approx(op, x - y, delta) <=> Approx(o, y - x, delta)
    BY <1>2, FlipHolds
  <2> HIDE DEF v, o
  <2>4. /\ IsIn(b, p) /\ Compare(o, p[v], x) /\ (o \in {"gt", "lt"} => p[v] % 2 = 0) => IsIn(kept, p)
        /\ IsIn(kept, p) => Approx(o, p[v] - x, delta)
    BY <1>1, <1>8, <2>1, <2>2, <2>3, CutVarPoints DEF x
  <2> QED BY <1>2, <1>4, <1>5, <1>8, <2>1, <2>3, <2>4 DEF kept
<1> QED BY <1>4, <1>6, <1>7, <1>8

-----------------------------------------------------------------------------
(* No solution is lost, and the answers are delta-sat *)

\* What an evaluator neither refutes nor leaves too uncertain holds up to the
\* precision (RelationalFormulaEvaluator, EvaluateBox).
LEMMA ApproxOnInterval ==
  ASSUME NEW iv, NEW d, Encloses(iv, d), NEW op \in Relops, NEW delta \in Nat,
         IsValidOn(op, iv) \/ (~IsUnsatOn(op, iv) /\ Diam(iv) <= delta)
  PROVE  Approx(op, d, delta)
<1> DEFINE l == iv.lo
           h == iv.hi
<1>1. l \in Int /\ h \in Int /\ d \in Int /\ l <= d /\ d <= h
  BY IntervalFacts DEF Encloses, Contains
<1>2. Diam(iv) = h - l
  BY DEF Diam
<1>3. CASE op = "eq"
  <2>1. (l = 0 /\ h = 0) \/ (l <= 0 /\ 0 <= h /\ h - l <= delta)
    BY <1>1, <1>2, <1>3 DEF IsValidOn, IsUnsatOn, Contains
  <2> HIDE DEF l, h
  <2> QED BY <1>1, <1>3, <2>1, ApproxFacts
<1>4. CASE op = "neq"
  BY <1>1, <1>4, ApproxFacts
<1>5. CASE op = "gt"
  <2>1. l > 0 \/ (h > 0 /\ h - l <= delta)
    BY <1>1, <1>2, <1>5 DEF IsValidOn, IsUnsatOn
  <2> HIDE DEF l, h
  <2> QED BY <1>1, <1>5, <2>1, ApproxFacts
<1>6. CASE op = "geq"
  <2>1. l >= 0 \/ (h >= 0 /\ h - l <= delta)
    BY <1>1, <1>2, <1>6 DEF IsValidOn, IsUnsatOn
  <2> HIDE DEF l, h
  <2> QED BY <1>1, <1>6, <2>1, ApproxFacts
<1>7. CASE op = "lt"
  <2>1. h < 0 \/ (l < 0 /\ h - l <= delta)
    BY <1>1, <1>2, <1>7 DEF IsValidOn, IsUnsatOn
  <2> HIDE DEF l, h
  <2> QED BY <1>1, <1>7, <2>1, ApproxFacts
<1>8. CASE op = "leq"
  <2>1. h <= 0 \/ (l <= 0 /\ h - l <= delta)
    BY <1>1, <1>2, <1>8 DEF IsValidOn, IsUnsatOn
  <2> HIDE DEF l, h
  <2> QED BY <1>1, <1>8, <2>1, ApproxFacts
<1> QED BY <1>3, <1>4, <1>5, <1>6, <1>7, <1>8 DEF Relops

LEMMA EvaluatedHolds ==
  ASSUME NEW V, NEW f, IsRelational(f, V), NEW b, IsBox(b, V), NEW p \in Points(V), IsIn(b, p),
         EvaluateRelational(f, b).type # "UNSAT", ~IsWide(f, b)
  PROVE  SatisfiesWithin(f, p, Precision)
<1> DEFINE e == ExtractExpression(f)
           op == GetRelationalOperator(f)
           iv == Evaluate(e, b)
           d == ExactValue(e, p)
<1>1. Encloses(iv, d) /\ op \in Relops
  BY HoldsByDifference, EvaluateEncloses, AtomFacts
<1>2. EvaluateRelational(f, b) = Result(IF IsValidOn(op, iv) THEN "VALID" ELSE IF IsUnsatOn(op, iv) THEN "UNSAT" ELSE "UNKNOWN", iv)
  BY DEF EvaluateRelational
<1>3. f.k # "forall"
  BY DEF IsRelational
<1>4. SatisfiesWithin(f, p, Precision) = Approx(op, d, Precision)
  BY DEF SatisfiesWithin, Approx
<1> HIDE DEF e, op, iv, d
<1>5. ~(~IsValidOn(op, iv) /\ IsUnsatOn(op, iv))
  BY <1>2 DEF Result
<1>6. ~IsValidOn(op, iv) => ~(Diam(iv) > Precision)
  BY <1>2, <1>3, <1>5 DEF IsWide, Result
<1>7. iv.lo \in Int /\ iv.hi \in Int /\ Precision \in Nat
  BY <1>1, IntervalFacts, PrecisionAssumption DEF Encloses
<1>8. ~IsValidOn(op, iv) => Diam(iv) <= Precision
  BY <1>6, <1>7 DEF Diam
<1> QED BY <1>1, <1>4, <1>5, <1>7, <1>8, ApproxOnInterval
-----------------------------------------------------------------------------
(* No solution is lost *)

\* The solutions are points every literal owes and every constraint allows.
SolutionsInv ==
  \A p \in solutions : p \in AcceptedBy(LiteralSet, V0) /\ \A f \in LiteralSet : IsOwed(f, p)
LossInv == SolutionsInv /\ NoSolutionIsLost

\* Where a solution is.
InStack(s, p) == \E n \in DOMAIN s : IsIn(s[n].box, p)

\* A literal that is not quantified, with what it owes.
LEMMA OwedFacts ==
  ASSUME BoxInv, SolutionsInv, NEW p \in solutions, NEW f \in LiteralSet, f.k # "forall"
  PROVE  /\ p \in Points(V0) /\ IsRelational(f, V0) /\ HoldsAt(f, p)
         /\ IsStrictBound(f) => \A v \in RelationVars(f) : p[v] % 2 = 0
<1>1. p \in Points(V0) /\ IsOwed(f, p)
  BY DEF SolutionsInv, AcceptedBy
<1>2. IsLiteral(f) /\ Satisfies(f, p)
  BY <1>1, LiteralsAreLiterals DEF BoxInv, TypeInv, IsOwed
<1>3. IsRelational(f, V0)
  BY <1>1, <1>2, SatisfiesAccepts
<1>4. HoldsAt(f, p)
  BY <1>2 DEF Satisfies
<1> QED BY <1>1, <1>3, <1>4 DEF IsOwed

LEMMA InitLossInv == Init => LossInv
<1> SUFFICES ASSUME Init PROVE LossInv
  OBVIOUS
<1>1. literals \in Problems /\ box = StartBox /\ pc = "build"
      /\ solutions = {p \in TypedPoints(StartBox) : \A f \in LiteralSet : IsOwed(f, p)}
  BY DEF Init
<1>2. ASSUME NEW p \in solutions
      PROVE  p \in AcceptedBy(LiteralSet, V0) /\ IsIn(StartBox, p) /\ \A f \in LiteralSet : IsOwed(f, p)
  <2>1. p \in RealPoints(StartBox) /\ (\A v \in V0 : IsInteger(v) => p[v] % 4 = 0) /\ \A f \in LiteralSet : IsOwed(f, p)
    BY <1>1 DEF TypedPoints, V0
  <2>2. p \in Points(V0) /\ IsIn(StartBox, p)
    BY <2>1, BoxSetFacts, RealPointsType
  <2>3. ASSUME NEW f \in LiteralSet PROVE Accepts(f, p)
    <3>1. IsLiteral(f) /\ Satisfies(f, p)
      BY <1>1, <2>1, LiteralsAreLiterals DEF IsOwed
    <3> QED BY <2>2, <3>1, SatisfiesAccepts
  <2> QED BY <2>1, <2>2, <2>3 DEF AcceptedBy
<1> QED BY <1>1, <1>2 DEF LossInv, SolutionsInv, NoSolutionIsLost

\* A bound keeps every solution, so that a check that ends with an empty box had none
\* (AssertionFilter, TheorySolver::BuildContractor).
LEMMA AddLiteralLossInv ==
  ASSUME BoxInv, LossInv, AddLiteral
  PROVE  LossInv'
<1> DEFINE f == literals[next]
           r == FilterAssertion(f, box)
<1>0. /\ literals' = literals /\ solutions' = solutions /\ stack' = stack /\ LiteralSet' = LiteralSet
      /\ pc = "build" /\ next <= Len(literals) /\ box' = r.box
      /\ \/ pc' = "build" /\ verdict' = verdict
         \/ pc' = "done" /\ verdict' = "unsat" /\ IsEmptyBox(r.box)
  BY DEF AddLiteral, Stop, LiteralSet, problem
<1>1. f \in LiteralSet /\ IsLiteral(f)
  BY <1>0, LiteralsAreLiterals DEF BoxInv, TypeInv
<1>2. IsBox(box, V0) /\ box' \in BoxSet /\ IsBox(box', V0)
  BY AddLiteralBoxInv, BoxSetFacts DEF BoxInv, TypeInv
<1>3. stack = <<>> /\ verdict # "delta-sat" /\ DOMAIN stack = {}
  BY <1>0 DEF BoxInv, PhaseInv
<1>4. ASSUME NEW p \in solutions PROVE IsIn(box', p) /\ p \in Points(V0)
  <2>1. IsIn(box, p)
    BY <1>0, <1>3 DEF LossInv, NoSolutionIsLost
  <2>2. p \in Points(V0)
    BY DEF LossInv, SolutionsInv, AcceptedBy
  <2>3. CASE f.k = "forall"
    <3>1. r = Kept(box)
      BY <2>3 DEF FilterAssertion, FilterRelation
    <3> QED BY <1>0, <2>1, <2>2, <3>1 DEF Kept
  <2>4. CASE f.k # "forall"
    <3>1. IsRelational(f, V0) /\ HoldsAt(f, p) /\ (IsStrictBound(f) => \A v \in RelationVars(f) : p[v] % 2 = 0)
      BY <1>1, <2>4, OwedFacts DEF LossInv
    <3>2. 2 \in Nat /\ 2 >= 2
      OBVIOUS
    <3> HIDE DEF f
    <3>3. IsIn(r.box, p)
      BY <1>2, <2>1, <2>2, <3>1, <3>2, FilterKeepsOwed
    <3> QED BY <1>0, <2>2, <3>3
  <2> QED BY <2>3, <2>4
<1>5. CASE pc' = "build" /\ verdict' = verdict
  BY <1>0, <1>4, <1>5 DEF LossInv, SolutionsInv, NoSolutionIsLost
<1>6. CASE pc' = "done" /\ verdict' = "unsat" /\ IsEmptyBox(r.box)
  <2>1. solutions = {}
    BY <1>0, <1>2, <1>4, <1>6, EmptyHasNone
  <2> QED BY <1>0, <2>1 DEF LossInv, SolutionsInv, NoSolutionIsLost
<1> QED BY <1>0, <1>5, <1>6

\* The steps that leave every box as it is.
LEMMA SameBoxLossInv ==
  ASSUME BoxInv, LossInv, BuildContractor \/ EndPass \/ BeginLoop \/ NoSolution \/ EvaluateBox
  PROVE  LossInv'
<1>1. literals' = literals /\ solutions' = solutions /\ LiteralSet' = LiteralSet /\ box' = box
  BY DEF BuildContractor, EndPass, BeginLoop, NoSolution, EvaluateBox, LiteralSet, problem, search
<1>2. SolutionsInv'
  BY <1>1 DEF LossInv, SolutionsInv
<1>3. CASE BuildContractor
  <2>1. pc = "build" /\ stack = <<>> /\ verdict # "delta-sat" /\ stack' = << [box |-> box, cut |-> NoDim] >>
    BY <1>3 DEF BuildContractor, BoxInv, PhaseInv
  <2>2. \A p \in solutions : IsIn(box, p)
    BY <2>1 DEF LossInv, NoSolutionIsLost
  <2>3. stack'[1].box = box /\ 1 \in DOMAIN stack'
    BY <2>1
  <2> QED BY <1>1, <1>2, <2>2, <2>3 DEF LossInv, NoSolutionIsLost
<1>4. CASE EndPass \/ BeginLoop
  <2>1. pc = "prune" /\ pc' \in {"prune", "evaluate"} /\ stack' = stack /\ verdict' = verdict
    BY <1>4 DEF EndPass, BeginLoop, search
  <2> QED BY <1>1, <1>2, <2>1 DEF LossInv, NoSolutionIsLost
<1>5. CASE NoSolution
  <2>1. pc = "pop" /\ stack = <<>> /\ verdict # "delta-sat"
    BY <1>5 DEF NoSolution, BoxInv, PhaseInv
  <2>2. solutions = {}
    BY <2>1 DEF LossInv, NoSolutionIsLost
  <2> QED BY <1>1, <1>2, <2>2 DEF LossInv, NoSolutionIsLost
<1>6. CASE EvaluateBox
  <2>1. pc = "evaluate" /\ stack' = stack /\ ((pc' = "branch" /\ verdict' = verdict) \/ verdict' = "delta-sat")
    BY <1>6 DEF EvaluateBox, Stop
  <2> QED BY <1>1, <1>2, <2>1 DEF LossInv, NoSolutionIsLost
<1> QED BY <1>3, <1>4, <1>5, <1>6

\* The box that is taken off the stack has its solutions.
LEMMA PopLossInv ==
  ASSUME BoxInv, LossInv, Pop
  PROVE  LossInv'
<1>0. /\ literals' = literals /\ solutions' = solutions /\ LiteralSet' = LiteralSet
      /\ pc = "pop" /\ pc' = "prune" /\ verdict' = verdict
      /\ stack # <<>> /\ box' = stack[Len(stack)].box /\ stack' = SubSeq(stack, 1, Len(stack) - 1)
  BY DEF Pop, LiteralSet, problem
<1>1. stack \in Seq(Entries) /\ verdict # "delta-sat"
  BY <1>0 DEF BoxInv, TypeInv, PhaseInv
<1>2. ASSUME NEW n \in DOMAIN stack PROVE n = Len(stack) \/ (n \in DOMAIN stack' /\ stack'[n] = stack[n])
  BY <1>0, <1>1
<1>3. ASSUME NEW p \in solutions PROVE InStack(stack', p) \/ IsIn(box', p)
  <2>1. PICK n \in DOMAIN stack : IsIn(stack[n].box, p)
    BY <1>0, <1>1 DEF LossInv, NoSolutionIsLost
  <2> QED BY <1>0, <1>2, <2>1 DEF InStack
<1> QED BY <1>0, <1>3 DEF LossInv, SolutionsInv, NoSolutionIsLost, InStack

\* The contractors keep the solutions of a box, and an empty box has none.
LEMMA PruneLossInv ==
  ASSUME BoxInv, LossInv, Prune
  PROVE  LossInv'
<1>0. /\ literals' = literals /\ solutions' = solutions /\ LiteralSet' = LiteralSet /\ stack' = stack
      /\ pc = "prune" /\ verdict' = verdict /\ pc' = IF IsEmptyBox(box') THEN "pop" ELSE "prune"
  BY DEF Prune, LiteralSet, problem
<1>1. IsBox(box', V0) /\ verdict # "delta-sat"
  BY <1>0, PruneBox, BoxSetFacts DEF BoxInv, PhaseInv
<1>2. ASSUME NEW p \in solutions PROVE InStack(stack, p) \/ IsIn(box', p)
  <2>1. p \in AcceptedBy(LiteralSet, V0)
    BY DEF LossInv, SolutionsInv
  <2>2. InStack(stack, p) \/ IsIn(box, p)
    BY <1>0, <1>1 DEF LossInv, NoSolutionIsLost, InStack
  <2> QED BY <2>1, <2>2, PruneBox
<1>3. CASE IsEmptyBox(box')
  <2>1. ASSUME NEW p \in solutions PROVE ~IsIn(box', p)
    <3>1. p \in Points(V0)
      BY DEF LossInv, SolutionsInv, AcceptedBy
    <3> QED BY <1>1, <1>3, <3>1, EmptyHasNone
  <2> QED BY <1>0, <1>2, <2>1 DEF LossInv, SolutionsInv, NoSolutionIsLost, InStack
<1>4. CASE ~IsEmptyBox(box')
  BY <1>0, <1>2, <1>4 DEF LossInv, SolutionsInv, NoSolutionIsLost, InStack
<1> QED BY <1>3, <1>4

\* A worklist that returns keeps the box, or forgets one that has no solution.
LEMMA EndWorklistLossInv ==
  ASSUME BoxInv, LossInv, EndWorklist
  PROVE  LossInv'
<1>0. /\ literals' = literals /\ solutions' = solutions /\ LiteralSet' = LiteralSet /\ stack' = stack /\ box' = box
      /\ pc = "prune" /\ verdict' = verdict /\ verdict # "delta-sat" /\ pc' = IF IsEmptyBox(box) THEN "pop" ELSE "evaluate"
  BY DEF EndWorklist, LiteralSet, problem, search, BoxInv, PhaseInv
<1>1. ASSUME NEW p \in solutions PROVE InStack(stack, p) \/ IsIn(box, p)
  BY <1>0 DEF LossInv, NoSolutionIsLost, InStack
<1>2. CASE IsEmptyBox(box)
  <2>1. ASSUME NEW p \in solutions PROVE ~IsIn(box, p)
    <3>1. p \in Points(V0) /\ IsBox(box, V0)
      BY BoxSetFacts DEF LossInv, SolutionsInv, AcceptedBy, BoxInv, TypeInv
    <3> QED BY <1>2, <3>1, EmptyHasNone
  <2> QED BY <1>0, <1>1, <2>1 DEF LossInv, SolutionsInv, NoSolutionIsLost, InStack
<1>3. CASE ~IsEmptyBox(box)
  BY <1>0, <1>1, <1>3 DEF LossInv, SolutionsInv, NoSolutionIsLost, InStack
<1> QED BY <1>2, <1>3

\* A box that an evaluator refutes has no solution.
LEMMA InfeasibleLossInv ==
  ASSUME BoxInv, LossInv, Infeasible
  PROVE  LossInv'
<1>0. /\ literals' = literals /\ solutions' = solutions /\ LiteralSet' = LiteralSet /\ stack' = stack /\ box' = box
      /\ pc = "evaluate" /\ IsRefuted(box) /\ verdict' = verdict /\ pc' = "pop" /\ verdict # "delta-sat"
  BY DEF Infeasible, LiteralSet, BoxInv, PhaseInv, problem, search
<1>1. PICK f \in LiteralSet : f.k # "forall" /\ EvaluateRelational(f, box).type = "UNSAT"
  BY <1>0 DEF IsRefuted
<1>2. ASSUME NEW p \in solutions PROVE ~IsIn(box, p)
  <2>1. p \in Points(V0) /\ IsRelational(f, V0) /\ HoldsAt(f, p)
    BY <1>1, OwedFacts DEF LossInv
  <2>2. IsBox(box, V0)
    BY BoxSetFacts DEF BoxInv, TypeInv
  <2> QED BY <1>1, <2>1, <2>2, RefutedHasNone
<1>3. \A p \in solutions : InStack(stack, p)
  BY <1>0, <1>2 DEF LossInv, NoSolutionIsLost, InStack
<1> QED BY <1>0, <1>3 DEF LossInv, SolutionsInv, NoSolutionIsLost, InStack

\* The halves of a box that is cut have its solutions.
LEMMA BranchLossInv ==
  ASSUME BoxInv, LossInv, Branch
  PROVE  LossInv'
<1>0. /\ literals' = literals /\ solutions' = solutions /\ LiteralSet' = LiteralSet /\ pc = "branch" /\ verdict # "delta-sat"
  BY DEF Branch, LiteralSet, BoxInv, PhaseInv, problem
<1>1. SolutionsInv'
  BY <1>0 DEF LossInv, SolutionsInv
<1>2. CASE verdict' = "delta-sat"
  BY <1>1, <1>2 DEF LossInv, NoSolutionIsLost
<1>3. CASE verdict' # "delta-sat"
  <2>1. PICK v \in V0 : \E one, two \in Entries :
                 /\ v \in active /\ IsBisectable(box[v])
                 /\ stack' = stack \o <<one, two>>
                 /\ {one.box, two.box} = {Bisect(box, v)[1], Bisect(box, v)[2]}
                 /\ IsCut(one.box, box, v) /\ IsCut(two.box, box, v)
    BY <1>3, BranchCases
  <2>2. PICK one \in Entries, two \in Entries :
                 /\ v \in active /\ IsBisectable(box[v])
                 /\ stack' = stack \o <<one, two>>
                 /\ {one.box, two.box} = {Bisect(box, v)[1], Bisect(box, v)[2]}
                 /\ IsCut(one.box, box, v) /\ IsCut(two.box, box, v)
    BY <2>1
  <2>3. stack \in Seq(Entries) /\ IsBox(box, V0)
    BY BoxSetFacts DEF BoxInv, TypeInv
  <2> DEFINE k == Len(stack)
  <2>4. /\ k + 1 \in DOMAIN stack' /\ k + 2 \in DOMAIN stack' /\ stack'[k + 1] = one /\ stack'[k + 2] = two
        /\ \A n \in DOMAIN stack : n \in DOMAIN stack' /\ stack'[n] = stack[n]
    BY <2>2, <2>3
  <2> HIDE DEF k
  <2>5. ASSUME NEW p \in solutions PROVE InStack(stack', p)
    <3>1. p \in Points(V0) /\ \A w \in V0 : IsInteger(w) => p[w] % 4 = 0
      BY DEF LossInv, SolutionsInv, AcceptedBy
    <3>2. InStack(stack, p) \/ IsIn(box, p)
      BY <1>0 DEF LossInv, NoSolutionIsLost, InStack
    <3>3. CASE InStack(stack, p)
      BY <2>4, <3>3 DEF InStack
    <3>4. CASE IsIn(box, p)
      <4>1. IsIn(Bisect(box, v)[1], p) \/ IsIn(Bisect(box, v)[2], p)
        BY <2>2, <2>3, <3>1, <3>4, BisectFacts
      <4>2. IsIn(one.box, p) \/ IsIn(two.box, p)
        BY <2>2, <4>1
      <4> QED BY <2>4, <4>2 DEF InStack
    <3> QED BY <3>2, <3>3, <3>4
  <2> QED BY <1>0, <1>1, <2>5 DEF LossInv, NoSolutionIsLost, InStack
<1> QED BY <1>2, <1>3

\* While the search goes on every solution is in a box that is to be done or in
\* the one at hand; a search that ends without a box had none.
THEOREM NoLoss == Spec => []NoSolutionIsLost
<1>1. Init => LossInv
  BY InitLossInv
<1>2. BoxInv /\ LossInv /\ [Next]_vars => LossInv'
  <2> SUFFICES ASSUME BoxInv, LossInv, [Next]_vars PROVE LossInv'
    OBVIOUS
  <2>1. CASE UNCHANGED vars
    BY <2>1 DEF vars, problem, search, LossInv, SolutionsInv, NoSolutionIsLost, LiteralSet
  <2> QED BY <2>1, AddLiteralLossInv, SameBoxLossInv, PopLossInv, PruneLossInv, EndWorklistLossInv, InfeasibleLossInv, BranchLossInv DEF Next
<1>3. LossInv => NoSolutionIsLost
  BY DEF LossInv
<1> QED BY <1>1, <1>2, <1>3, BoxesAreRight, PTL DEF Spec

-----------------------------------------------------------------------------
(* The answers are delta-sat *)

\* The box has absorbed the bounds among fs: at its points they hold up to the
\* precision.
Absorbs(f, b) ==
  f.k # "forall" /\ IsSimpleRelational(f) =>
    \A p \in Points(V0) : IsIn(b, p) => SatisfiesWithin(f, p, Precision)
AbsorbsAll(fs, b) == \A f \in fs : Absorbs(f, b)

\* What EvaluateBox has found when it returns candidates.
Evaluated(f, b, vs) ==
  f.k # "forall" => BranchingVars(f, b) \subseteq vs /\ EvaluateRelational(f, b).type # "UNSAT"

\* The bounds added so far are absorbed; later every box has absorbed all; the
\* candidates are those of the box at hand.
AnswerInv ==
  /\ pc = "build" => \A n \in DOMAIN literals : n < next => Absorbs(literals[n], box)
  /\ pc \in {"pop", "prune", "evaluate", "branch"} => \A n \in DOMAIN stack : AbsorbsAll(LiteralSet, stack[n].box)
  /\ pc \in {"prune", "evaluate", "branch"} => AbsorbsAll(LiteralSet, box)
  /\ pc = "branch" => \A f \in LiteralSet : Evaluated(f, box, active)
  /\ AnswersAreDeltaSat

\* A box within one that has absorbed a bound has.
LEMMA AbsorbsWithin ==
  ASSUME NEW a, NEW b, IsBox(a, V0), IsBox(b, V0), Within(a, b)
  PROVE  /\ \A f : Absorbs(f, b) => Absorbs(f, a)
         /\ \A fs : AbsorbsAll(fs, b) => AbsorbsAll(fs, a)
<1>1. ASSUME NEW p \in Points(V0), IsIn(a, p) PROVE IsIn(b, p)
  <2>0. DOMAIN a = V0 /\ DOMAIN b = V0
    BY DEF IsBox
  <2>1. ASSUME NEW v \in V0 PROVE Contains(b[v], p[v])
    <3>1. a[v].lo \in Int /\ a[v].hi \in Int /\ b[v].lo \in Int /\ b[v].hi \in Int /\ p[v] \in Int
      BY DEF IsBox, IsBound, Points
    <3>2. a[v].lo <= p[v] /\ p[v] <= a[v].hi /\ b[v].lo <= a[v].lo /\ a[v].hi <= b[v].hi
      BY <1>1, <2>0 DEF IsIn, Contains, Within
    <3> QED BY <3>1, <3>2 DEF Contains
  <2> QED BY <2>0, <2>1 DEF IsIn
<1>2. \A f : Absorbs(f, b) => Absorbs(f, a)
  BY <1>1 DEF Absorbs
<1> QED BY <1>2 DEF AbsorbsAll

\* The literals of a check that are not quantified are relations over the box.
LEMMA LiteralIsRelational ==
  ASSUME BoxInv, NEW f \in LiteralSet, f.k # "forall"
  PROVE  IsRelational(f, V0)
<1>1. IsLiteral(f)
  BY LiteralsAreLiterals DEF BoxInv, TypeInv
<1> QED BY <1>1 DEF IsLiteral, IsRelational, V0

\* A literal the evaluators have accepted on the box holds up to the precision,
\* or names variables to cut (EvaluateBox).
LEMMA AcceptedHolds ==
  ASSUME BoxInv, AbsorbsAll(LiteralSet, box), NEW f \in LiteralSet, f.k # "forall",
         EvaluateRelational(f, box).type # "UNSAT"
  PROVE  \/ \A p \in RealPoints(box) : SatisfiesWithin(f, p, Precision)
         \/ BranchingVars(f, box) = RelationVars(f)
<1>1. IsRelational(f, V0) /\ IsBox(box, V0)
  BY LiteralIsRelational, BoxSetFacts DEF BoxInv, TypeInv
<1>2. \A p \in RealPoints(box) : p \in Points(V0) /\ IsIn(box, p)
  BY <1>1, RealPointsType
<1>3. CASE ~IsWide(f, box)
  BY <1>1, <1>2, <1>3, EvaluatedHolds
<1>4. CASE IsSimpleRelational(f)
  BY <1>2, <1>4 DEF AbsorbsAll, Absorbs
<1>5. CASE IsNeq(f)
  <2>1. f.k \in {"rel", "not"} /\ GetRelationalOperator(f) = IF f.k = "not" THEN NegateRelop(Atom(f).op) ELSE Atom(f).op
    BY <1>1, AtomFacts DEF IsRelational
  <2>2. GetRelationalOperator(f) = "neq"
    BY <1>5, <2>1, NegateFacts DEF IsNeq
  <2>3. \A p : SatisfiesWithin(f, p, Precision)
    BY <2>2 DEF SatisfiesWithin
  <2> QED BY <2>3
<1>6. CASE IsWide(f, box) /\ ~IsSimpleRelational(f) /\ ~IsNeq(f)
  BY <1>6 DEF BranchingVars
<1> QED BY <1>3, <1>4, <1>5, <1>6

LEMMA InitAnswerInv == Init => AnswerInv
<1> SUFFICES ASSUME Init PROVE AnswerInv
  OBVIOUS
<1>1. next = 1 /\ pc = "build" /\ verdict = "none"
  BY DEF Init
<1>2. DOMAIN literals = 1 .. Len(literals) /\ Len(literals) \in Nat
  BY LiteralsAreLiterals DEF Init
<1>3. \A n \in DOMAIN literals : ~(n < next)
  BY <1>1, <1>2
<1> QED BY <1>1, <1>3 DEF AnswerInv, AnswersAreDeltaSat

\* The box absorbs the bound that is added and keeps those it has.
LEMMA AddLiteralAnswerInv ==
  ASSUME BoxInv, AnswerInv, AddLiteral
  PROVE  AnswerInv'
<1> DEFINE f == literals[next]
           r == FilterAssertion(f, box)
<1>0. /\ literals' = literals /\ LiteralSet' = LiteralSet /\ pc = "build" /\ next <= Len(literals) /\ next' = next + 1 /\ box' = r.box
      /\ (pc' = "build" /\ verdict' = verdict) \/ (pc' = "done" /\ verdict' = "unsat")
  BY DEF AddLiteral, Stop, LiteralSet, problem
<1>1. f \in LiteralSet /\ IsLiteral(f) /\ DOMAIN literals = 1 .. Len(literals) /\ Len(literals) \in Nat /\ next \in Nat
  BY <1>0, LiteralsAreLiterals DEF BoxInv, TypeInv
<1>2. IsBox(box, V0) /\ IsBox(box', V0) /\ verdict # "delta-sat"
  BY <1>0, AddLiteralBoxInv, BoxSetFacts DEF BoxInv, TypeInv, PhaseInv
<1>3. Absorbs(f, box')
  <2> SUFFICES ASSUME f.k # "forall", IsSimpleRelational(f), NEW p \in Points(V0), IsIn(box', p)
               PROVE  SatisfiesWithin(f, p, Precision)
    BY DEF Absorbs
  <2>1. IsRelational(f, V0)
    BY <1>1, LiteralIsRelational
  <2>2. Precision \in Nat /\ Precision >= 2
    BY PrecisionAssumption
  <2> HIDE DEF f
  <2> QED BY <1>0, <1>2, <2>1, <2>2, FilterKeepsOwed
<1>4. Within(box', box)
  <2>1. HasDoubles(Atom(f))
    <3>1. f.k = "forall" => Atom(f).k # "rel"
      BY DEF Atom
    <3>2. f.k # "forall" => Atom(f) \in Body
      BY <1>1, BodyOperands DEF IsLiteral, Atom
    <3> QED BY <3>1, <3>2, BodyHasDoubles DEF HasDoubles
  <2> HIDE DEF f
  <2> QED BY <1>0, <1>2, <2>1, FilterAssertionWithin
<1>5. ASSUME NEW n \in DOMAIN literals, n < next' PROVE Absorbs(literals[n], box')
  <2>1. CASE n = next
    BY <1>3, <2>1
  <2>2. CASE n < next
    <3>1. Absorbs(literals[n], box)
      BY <1>0, <2>2 DEF AnswerInv
    <3> QED BY <1>2, <1>4, <3>1, AbsorbsWithin
  <2> QED BY <1>0, <1>1, <1>5, <2>1, <2>2
<1> QED BY <1>0, <1>2, <1>5 DEF AnswerInv, AnswersAreDeltaSat

\* The search starts with a box that has absorbed every bound, and every box it
\* looks at is part of it.
LEMMA SearchAnswerInv ==
  ASSUME BoxInv, AnswerInv, BuildContractor \/ Pop \/ Prune \/ EndPass \/ BeginLoop \/ EndWorklist \/ NoSolution \/ Infeasible
  PROVE  AnswerInv'
<1>0. LiteralSet' = LiteralSet /\ literals' = literals /\ verdict' # "delta-sat"
  BY DEF BuildContractor, Pop, Prune, EndPass, BeginLoop, EndWorklist, NoSolution, Infeasible, Stop, LiteralSet,
         BoxInv, PhaseInv, problem
<1>1. AnswersAreDeltaSat'
  BY <1>0 DEF AnswersAreDeltaSat
<1>2. CASE BuildContractor
  <2>1. pc = "build" /\ next > Len(literals) /\ stack' = << [box |-> box, cut |-> NoDim] >> /\ pc' = "pop"
    BY <1>2 DEF BuildContractor
  <2>2. next \in Nat /\ DOMAIN literals = 1 .. Len(literals) /\ Len(literals) \in Nat
    BY LiteralsAreLiterals DEF BoxInv, TypeInv
  <2>3. \A n \in DOMAIN literals : n < next
    BY <2>1, <2>2
  <2>4. AbsorbsAll(LiteralSet, box)
    BY <2>1, <2>3 DEF AnswerInv, AbsorbsAll, LiteralSet
  <2>5. \A n \in DOMAIN stack' : stack'[n].box = box
    BY <2>1
  <2> QED BY <1>0, <1>1, <2>1, <2>4, <2>5 DEF AnswerInv
<1>3. CASE Pop
  <2>1. /\ pc = "pop" /\ pc' = "prune" /\ stack # <<>> /\ stack \in Seq(Entries)
        /\ box' = stack[Len(stack)].box /\ stack' = SubSeq(stack, 1, Len(stack) - 1)
    BY <1>3 DEF Pop, BoxInv, TypeInv
  <2>2. Len(stack) \in DOMAIN stack /\ \A n \in DOMAIN stack' : n \in DOMAIN stack /\ stack'[n] = stack[n]
    BY <2>1
  <2>3. \A n \in DOMAIN stack : AbsorbsAll(LiteralSet, stack[n].box)
    BY <2>1 DEF AnswerInv
  <2> QED BY <1>0, <1>1, <2>1, <2>2, <2>3 DEF AnswerInv
<1>4. CASE Prune
  <2>1. pc = "prune" /\ pc' \in {"pop", "prune"} /\ stack' = stack
    BY <1>4 DEF Prune
  <2>2. IsBox(box, V0) /\ IsBox(box', V0) /\ Within(box', box)
    BY <1>4, PruneBox, BoxSetFacts DEF BoxInv, TypeInv
  <2>3. AbsorbsAll(LiteralSet, box')
    BY <2>1, <2>2, AbsorbsWithin DEF AnswerInv
  <2> QED BY <1>0, <1>1, <2>1, <2>3 DEF AnswerInv
<1>5. CASE EndPass \/ BeginLoop \/ EndWorklist
  <2>1. pc = "prune" /\ pc' \in {"pop", "prune", "evaluate"} /\ stack' = stack /\ box' = box
    BY <1>5 DEF EndPass, BeginLoop, EndWorklist, search
  <2> QED BY <1>0, <1>1, <2>1 DEF AnswerInv
<1>6. CASE NoSolution
  BY <1>0, <1>1, <1>6 DEF AnswerInv, NoSolution, Stop
<1>7. CASE Infeasible
  <2>1. pc = "evaluate" /\ pc' = "pop" /\ stack' = stack
    BY <1>7 DEF Infeasible, search
  <2> QED BY <1>0, <1>1, <2>1 DEF AnswerInv
<1> QED BY <1>2, <1>3, <1>4, <1>5, <1>6, <1>7

\* A box without candidates is an answer.
LEMMA EvaluateBoxAnswerInv ==
  ASSUME BoxInv, AnswerInv, EvaluateBox
  PROVE  AnswerInv'
<1>0. /\ LiteralSet' = LiteralSet /\ literals' = literals /\ stack' = stack /\ box' = box /\ pc = "evaluate" /\ ~IsRefuted(box)
      /\ \/ active' = {} /\ pc' = "done" /\ verdict' = "delta-sat"
         \/ pc' = "branch" /\ verdict' = verdict
  BY DEF EvaluateBox, Stop, LiteralSet, problem
<1>1. PICK decided \in SUBSET {f \in LiteralSet : f.k = "forall"} :
        active' = UNION {BranchingVars(f, box) : f \in LiteralSet \ decided}
  BY DEF EvaluateBox
<1>2. ASSUME NEW f \in LiteralSet PROVE Evaluated(f, box, active')
  <2> SUFFICES ASSUME f.k # "forall" PROVE BranchingVars(f, box) \subseteq active' /\ EvaluateRelational(f, box).type # "UNSAT"
    BY DEF Evaluated
  <2>1. f \in LiteralSet \ decided
    OBVIOUS
  <2>2. BranchingVars(f, box) \subseteq active'
    BY <1>1, <2>1
  <2>3. EvaluateRelational(f, box).type # "UNSAT"
    BY <1>0 DEF IsRefuted
  <2> QED BY <2>2, <2>3
<1>3. AbsorbsAll(LiteralSet, box) /\ verdict # "delta-sat"
  BY <1>0 DEF AnswerInv, BoxInv, PhaseInv
<1>4. CASE pc' = "branch" /\ verdict' = verdict
  BY <1>0, <1>2, <1>3, <1>4 DEF AnswerInv, AnswersAreDeltaSat
<1>5. CASE active' = {} /\ pc' = "done" /\ verdict' = "delta-sat"
  <2>1. ASSUME NEW f \in LiteralSet, f.k # "forall"
        PROVE  \/ \A p \in RealPoints(box) : SatisfiesWithin(f, p, Precision)
               \/ \A v \in RelationVars(f) : ~IsBisectable(box[v])
    <3>1. BranchingVars(f, box) = {} /\ EvaluateRelational(f, box).type # "UNSAT"
      BY <1>2, <1>5, <2>1 DEF Evaluated
    <3> QED BY <1>3, <2>1, <3>1, AcceptedHolds
  <2> QED BY <1>0, <1>5, <2>1 DEF AnswerInv, AnswersAreDeltaSat
<1> QED BY <1>0, <1>4, <1>5

\* A box that cannot be cut is an answer, and what is cut off a box has absorbed what it has.
LEMMA BranchAnswerInv ==
  ASSUME BoxInv, AnswerInv, Branch
  PROVE  AnswerInv'
<1>0. LiteralSet' = LiteralSet /\ literals' = literals /\ box' = box /\ pc = "branch" /\ verdict # "delta-sat"
  BY DEF Branch, LiteralSet, BoxInv, PhaseInv, problem
<1>1. /\ AbsorbsAll(LiteralSet, box) /\ IsBox(box, V0) /\ stack \in Seq(Entries)
      /\ \A n \in DOMAIN stack : AbsorbsAll(LiteralSet, stack[n].box)
      /\ \A f \in LiteralSet : Evaluated(f, box, active)
  BY <1>0, BoxSetFacts DEF AnswerInv, BoxInv, TypeInv
<1>2. CASE pc' = "done" /\ verdict' = "delta-sat" /\ Candidates(box, active) = {}
  <2>1. ASSUME NEW f \in LiteralSet, f.k # "forall"
        PROVE  \/ \A p \in RealPoints(box) : SatisfiesWithin(f, p, Precision)
               \/ \A v \in RelationVars(f) : ~IsBisectable(box[v])
    <3>1. BranchingVars(f, box) \subseteq active /\ EvaluateRelational(f, box).type # "UNSAT" /\ RelationVars(f) \subseteq V0
      BY <1>1, <2>1, LiteralIsRelational DEF Evaluated, IsRelational
    <3>2. ASSUME NEW v \in V0, v \in active PROVE ~IsBisectable(box[v])
      <4>1. PICK j \in DOMAIN Dims : Dims[j] = v
        BY StartBoxAssumption DEF V0
      <4>2. j \in Indices
        BY StartBoxAssumption DEF Indices
      <4> QED BY <1>2, <3>2, <4>1, <4>2 DEF Candidates
    <3> QED BY <1>1, <2>1, <3>1, <3>2, AcceptedHolds
  <2> QED BY <1>0, <1>2, <2>1 DEF AnswerInv, AnswersAreDeltaSat
<1>3. CASE pc' = "pop" /\ verdict' = verdict /\ \E one, two \in Entries :
             stack' = stack \o <<one, two>> /\ Within(one.box, box) /\ Within(two.box, box)
  <2>1. PICK one \in Entries, two \in Entries : stack' = stack \o <<one, two>> /\ Within(one.box, box) /\ Within(two.box, box)
    BY <1>3
  <2>2. AbsorbsAll(LiteralSet, one.box) /\ AbsorbsAll(LiteralSet, two.box)
    <3>1. IsBox(one.box, V0) /\ IsBox(two.box, V0)
      BY BoxSetFacts DEF Entries
    <3> QED BY <1>1, <2>1, <3>1, AbsorbsWithin
  <2>3. \A n \in DOMAIN stack' : (n \in DOMAIN stack /\ stack'[n] = stack[n]) \/ stack'[n] = one \/ stack'[n] = two
    BY <1>1, <2>1
  <2>4. \A n \in DOMAIN stack' : AbsorbsAll(LiteralSet, stack'[n].box)
    BY <1>1, <2>2, <2>3
  <2> QED BY <1>0, <1>3, <2>4 DEF AnswerInv, AnswersAreDeltaSat
<1>4. \/ pc' = "done" /\ verdict' = "delta-sat" /\ Candidates(box, active) = {}
      \/ pc' = "pop" /\ verdict' = verdict /\ \E one, two \in Entries :
             stack' = stack \o <<one, two>> /\ Within(one.box, box) /\ Within(two.box, box)
  BY BranchCases DEF IsCut
<1> QED BY <1>2, <1>3, <1>4

\* A delta-sat answer is one: at every point of the box every literal holds up
\* to the precision, unless there is no double left to cut at.
THEOREM DeltaSat == Spec => []AnswersAreDeltaSat
<1>1. Init => AnswerInv
  BY InitAnswerInv
<1>2. BoxInv /\ AnswerInv /\ [Next]_vars => AnswerInv'
  <2> SUFFICES ASSUME BoxInv, AnswerInv, [Next]_vars PROVE AnswerInv'
    OBVIOUS
  <2>1. CASE UNCHANGED vars
    BY <2>1 DEF vars, problem, search, fixpoint, AnswerInv, AnswersAreDeltaSat, LiteralSet
  <2> QED BY <2>1, AddLiteralAnswerInv, SearchAnswerInv, EvaluateBoxAnswerInv, BranchAnswerInv DEF Next
<1>3. AnswerInv => AnswersAreDeltaSat
  BY DEF AnswerInv
<1> QED BY <1>1, <1>2, <1>3, BoxesAreRight, PTL DEF Spec

-----------------------------------------------------------------------------
(* ForallCegis: UNSAT is right for an exists-forall formula, for all values *)
(* of the constants: also for queries whose models are no counterexamples, *)
(* and for inner solvers that have stopped finding any.                    *)
\* The search ends with its verdict, and no step before has lost a solution.
CegisInv ==
  /\ TypeOK
  /\ phase = "done" <=> answer # "none"
  /\ SolutionsAreKept
  /\ UnsatIsRight

USE DEF Solver

(* The root box holds every x. *)
LEMMA RootIsABox == Root \in Box /\ \A x \in XValue : x \in Root
<1>1. 1 \in XValue /\ MaxX \in XValue
  BY ForallAssumption, SMT DEF XValue
<1>2. XValue = {x \in XValue : 1 <= x /\ x <= MaxX}
  BY ForallAssumption, SMT DEF XValue
<1>3. QED
  BY <1>1, <1>2 DEF Root, Box

(* A contraction is a box or empty, and keeps the solutions it is told of. *)
LEMMA ContractionKeeps ==
  ASSUME NEW X, NEW S, NEW B \in Contracted(X, S)
  PROVE  B \in Box \cup {{}} /\ X \cap S \subseteq B
BY DEF Contracted

LEMMA CegisInitEstablishes == CegisInit => CegisInv
<1> SUFFICES ASSUME CegisInit PROVE CegisInv
  OBVIOUS
<1>1. TypeOK
  BY RootIsABox DEF CegisInit, TypeOK
<1>2. SolutionsAreKept
  BY RootIsABox DEF CegisInit, SolutionsAreKept
<1>3. QED
  BY <1>1, <1>2 DEF CegisInit, CegisInv, UnsatIsRight

LEMMA CegisStepPreserves == CegisInv /\ [CegisNext]_cegisVars => CegisInv'
<1> SUFFICES ASSUME CegisInv, [CegisNext]_cegisVars PROVE CegisInv'
  OBVIOUS
<1> USE DEF CegisInv, TypeOK, SolutionsAreKept, UnsatIsRight, Solution
<1>1. CASE Take
  BY <1>1 DEF Take
<1>2. CASE Exhausted
  BY <1>2 DEF Exhausted
<1>3. CASE PruneOthers
  <2>1. PICK B \in Contracted(current, other) :
          current' = B /\ Continue(B, "contractor")
    BY <1>3 DEF PruneOthers
  <2>2. QED
    BY <1>3, <2>1, ContractionKeeps DEF PruneOthers, Continue
<1>4. CASE PruneWithCounterexample
  <2>1. PICK y \in Found("contractor") : \E z \in Refined(y) :
          \E B \in Contracted(current, {x \in XValue : <<x, z>> \in Phi}) :
            /\ current' = B
            /\ Continue(B, IF B = current THEN "evaluator" ELSE "contractor")
    BY <1>4 DEF PruneWithCounterexample
  <2>2. PICK z \in Refined(y) :
          \E B \in Contracted(current, {x \in XValue : <<x, z>> \in Phi}) :
            /\ current' = B
            /\ Continue(B, IF B = current THEN "evaluator" ELSE "contractor")
    BY <2>1
  <2>3. PICK B \in Contracted(current, {x \in XValue : <<x, z>> \in Phi}) :
            /\ current' = B
            /\ Continue(B, IF B = current THEN "evaluator" ELSE "contractor")
    BY <2>2
  <2>4. z \in YValue
    BY DEF Found, Refined
  <2>5. B \in Box \cup {{}}
        /\ current \cap {x \in XValue : <<x, z>> \in Phi} \subseteq B
    BY <2>3, ContractionKeeps
  <2>6. QED
    BY <1>4, <2>3, <2>4, <2>5 DEF PruneWithCounterexample, Continue
<1>5. CASE NoCounterexample
  BY <1>5 DEF NoCounterexample, FoundNone
<1>6. CASE EvaluateValid
  BY <1>6 DEF EvaluateValid, FoundNone, Accept, BranchBox
<1>7. CASE EvaluateUnknown
  BY <1>7 DEF EvaluateUnknown, Accept, BranchBox
<1>8. CASE UNCHANGED cegisVars
  BY <1>8 DEF cegisVars
<1>9. QED
  BY <1>1, <1>2, <1>3, <1>4, <1>5, <1>6, <1>7, <1>8 DEF CegisNext, Step, Done

(* The search loses no solution before it ends (icp_seq.cc, CheckSat;
   contractor_forall.h, Prune): the strengthening of the other invariants. *)
THEOREM SolutionsCorrect == CegisSpec => [](TypeOK /\ SolutionsAreKept)
<1>1. CegisSpec => []CegisInv
  BY CegisInitEstablishes, CegisStepPreserves, PTL DEF CegisSpec
<1>2. QED
  BY <1>1, PTL DEF CegisInv

(* UNSAT is only answered when no x satisfies the formula
   (contractor_forall.h, Prune; theory_solver.cc, CheckSat). *)
THEOREM UnsatCorrect == CegisSpec => []UnsatIsRight
<1>1. CegisSpec => []CegisInv
  BY CegisInitEstablishes, CegisStepPreserves, PTL DEF CegisSpec
<1>2. QED
  BY <1>1, PTL DEF CegisInv

-----------------------------------------------------------------------------
\* With no other assertion the search ends with the first box for which the
\* evaluator has found no counterexample, so it never asks twice.
AskedOnce ==
  other = XValue =>
    /\ refuted["evaluator"] =>
         phase = "done" /\ Counterexamples("evaluator", current) = {}
    /\ answer = "sat" /\ ~refuted["evaluator"] => Found("evaluator") # {}

(* What is not found when the context is asked for the first time is not there. *)
LEMMA FirstAnswerIsTrue ==
  ASSUME NEW s \in Solver, ~refuted[s], Found(s) = {}
  PROVE  Counterexamples(s, current) = {}
<1> SUFFICES ASSUME NEW pair \in Counterexamples(s, current) PROVE FALSE
  OBVIOUS
<1>1. PICK x \in current, y \in YValue : pair = <<x, y>>
  BY DEF Counterexamples
<1> QED
  BY <1>1 DEF Found

LEMMA AskedOnceStep == CegisInv /\ AskedOnce /\ [CegisNext]_cegisVars => AskedOnce'
<1> SUFFICES ASSUME CegisInv, AskedOnce, [CegisNext]_cegisVars, other = XValue, other' = XValue
             PROVE  AskedOnce'
  BY DEF AskedOnce, CegisNext, Step, Take, Exhausted, PruneOthers, PruneWithCounterexample,
         NoCounterexample, EvaluateValid, EvaluateUnknown, Done, cegisVars
<1> USE DEF CegisInv, TypeOK, AskedOnce
<1>0. current \subseteq other
  BY DEF Box
<1>1. CASE Take
  BY <1>1 DEF Take
<1>2. CASE Exhausted
  BY <1>2 DEF Exhausted
<1>3. CASE PruneOthers
  BY <1>3 DEF PruneOthers, Continue
<1>4. CASE PruneWithCounterexample
  BY <1>4 DEF PruneWithCounterexample, Continue
<1>5. CASE NoCounterexample
  BY <1>5 DEF NoCounterexample, FoundNone
<1>6. CASE EvaluateValid
  <2>1. /\ phase = "evaluator" /\ Found("evaluator") = {} /\ ~refuted["evaluator"]
        /\ refuted' = [refuted EXCEPT !["evaluator"] = TRUE]
        /\ phase' = "done" /\ current' = current
    BY <1>0, <1>6 DEF EvaluateValid, FoundNone, Accept
  <2>2. Counterexamples("evaluator", current) = {}
    BY <2>1, FirstAnswerIsTrue
  <2> QED
    BY <2>1, <2>2 DEF Counterexamples
<1>7. CASE EvaluateUnknown
  <2>1. /\ phase = "evaluator" /\ Found("evaluator") # {}
        /\ current' = current /\ refuted' = refuted
    BY <1>7 DEF EvaluateUnknown
  <2>2. Found("evaluator")' = Found("evaluator")
    BY <2>1 DEF Found, Counterexamples
  <2> QED
    BY <2>1, <2>2
<1>8. CASE UNCHANGED cegisVars
  BY <1>8 DEF cegisVars, Found, Counterexamples
<1>9. QED
  BY <1>1, <1>2, <1>3, <1>4, <1>5, <1>6, <1>7, <1>8 DEF CegisNext, Step, Done

(* Without another assertion a box that is accepted because no             *)
(* counterexample was found has none, for any body and any queries         *)
(* (forall_formula_evaluator.cc, operator(); icp.cc, EvaluateBox).         *)
THEOREM AcceptedAlone == CegisSpec => []AcceptedAloneIsValid
<1>1. CegisInit => AskedOnce
  BY DEF CegisInit, AskedOnce, Solver
<1>2. CegisInv /\ AskedOnce => AcceptedAloneIsValid
  BY DEF CegisInv, AskedOnce, AcceptedAloneIsValid, AcceptedIsValid
<1>3. QED
  BY <1>1, <1>2, CegisInitEstablishes, CegisStepPreserves, AskedOnceStep, PTL DEF CegisSpec
=============================================================================
