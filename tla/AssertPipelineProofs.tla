------------------------ MODULE AssertPipelineProofs ------------------------
(***************************************************************************)
(* What Assert makes of a formula, for formulas of any size and any        *)
(* script. Every call of Assert has less work before it than the call it   *)
(* was made from, strengthening and weakening keep their order at every    *)
(* point, the variables of the SAT solver are those of the script, of the  *)
(* Tseitin cnfizer and of normal predicates that the pattern matcher       *)
(* knows, and what the matcher learns from a conflict has no solution      *)
(* either.                                                                 *)
(*                                                                         *)
(* The formulas are trees without a set that holds them all, so the        *)
(* induction is over the parts of the formula at hand, and every visitor   *)
(* gets the equation of its step from the lemmas of Recursion.             *)
(***************************************************************************)
EXTENDS AssertPipeline, FiniteSetTheorems, WellFoundedInduction, TLAPS

-----------------------------------------------------------------------------
(* Trees *)

\* Every way down from x ends, within one number of steps for all of them.
IsTree(x) == \E n \in Nat : Level(x, n) = {}

\* What holds at zero and is passed on holds of every natural number.
LEMMA NatSet ==
  ASSUME NEW T, 0 \in T, \A n \in Nat : n \in T => n + 1 \in T
  PROVE  Nat \subseteq T
<1> DEFINE R == OpToRel(<, Nat)
           Rest == Nat \ T
<1>1. IsWellFoundedOn(R, Nat)
  BY NatLessThanWellFounded
<1>2. \A a, b \in Nat : a < b => <<a, b>> \in R
  BY DEF OpToRel
<1> HIDE DEF R
<1> SUFFICES ASSUME Rest # {} PROVE FALSE
  OBVIOUS
<1>3. PICK n \in Rest : \A m \in Rest : ~ (<<m, n>> \in R)
  <2>1. Rest \subseteq Nat
    OBVIOUS
  <2> HIDE DEF Rest
  <2> QED BY <1>1, <2>1, WFMin
<1>4. n \in Nat /\ n # 0 /\ n \notin T
  BY <1>3
<1>5. n - 1 \in Nat /\ n - 1 < n /\ n - 1 + 1 = n
  BY <1>4
<1>6. n - 1 \in T
  BY <1>2, <1>3, <1>4, <1>5
<1> QED BY <1>4, <1>5, <1>6

\* What holds of every subset whose proper subsets it holds of.
LEMMA FiniteSetInduction ==
  ASSUME NEW S, IsFiniteSet(S), NEW T,
         \A D \in SUBSET S : (\A E \in SUBSET D : E # D => E \in T) => D \in T
  PROVE  SUBSET S \subseteq T
<1> DEFINE U == {n \in Nat : \A D \in SUBSET S : Cardinality(D) < n => D \in T}
<1>1. \A D \in SUBSET S : IsFiniteSet(D) /\ Cardinality(D) \in Nat
  BY FS_Subset, FS_CardinalityType
<1>2. 0 \in U
  BY <1>1
<1>3. ASSUME NEW n \in Nat, n \in U PROVE n + 1 \in U
  <2> SUFFICES ASSUME NEW D \in SUBSET S, Cardinality(D) < n + 1 PROVE D \in T
    OBVIOUS
  <2>1. ASSUME NEW E \in SUBSET D, E # D PROVE E \in T
    <3>1. Cardinality(E) < Cardinality(D)
      BY <1>1, <2>1, FS_Subset
    <3>2. E \in SUBSET S /\ Cardinality(E) \in Nat /\ Cardinality(D) \in Nat
      BY <1>1
    <3>3. Cardinality(E) < n
      BY <3>1, <3>2
    <3> QED BY <1>3, <3>2, <3>3
  <2> QED BY <2>1
<1>4. Nat \subseteq U
  <2> HIDE DEF U
  <2> QED BY <1>2, <1>3, NatSet
<1>5. ASSUME NEW D \in SUBSET S PROVE D \in T
  <2>1. Cardinality(D) + 1 \in Nat /\ Cardinality(D) < Cardinality(D) + 1
    BY <1>1
  <2> QED BY <1>4, <2>1
<1> QED BY <1>5

\* What is on the levels of a tree.
LEMMA LevelEquation ==
  ASSUME NEW x
  PROVE  /\ Level(x, 0) = {x}
         /\ \A n \in Nat : Level(x, n + 1) = UNION {Children(y) : y \in Level(x, n)}
<1>1. /\ Descent!Iterate(0, {x}, 0) = {x}
      /\ \A n \in Nat : Descent!Iterate(0, {x}, n + 1) = Below(0, n + 1, Descent!Iterate(0, {x}, n))
  BY NatSet, Descent!IterateEquation DEF Descent!NumbersAreInductive
<1> QED BY <1>1 DEF Level, Below

\* What is n + 1 steps below a tree is n steps below one of its children.
LEMMA LevelOfChildren ==
  ASSUME NEW x
  PROVE  \A n \in Nat : Level(x, n + 1) = UNION {Level(z, n) : z \in Children(x)}
<1> DEFINE T == {n \in Nat : Level(x, n + 1) = UNION {Level(z, n) : z \in Children(x)}}
<1>1. 0 \in T
  <2>1. Level(x, 0 + 1) = UNION {Children(y) : y \in {x}}
    BY LevelEquation
  <2>2. \A z : Level(z, 0) = {z}
    BY LevelEquation
  <2> QED BY <2>1, <2>2
<1>2. ASSUME NEW n \in Nat, n \in T PROVE n + 1 \in T
  <2>1. n + 1 \in Nat
    OBVIOUS
  <2>2. Level(x, (n + 1) + 1) = UNION {Children(y) : y \in Level(x, n + 1)}
    BY <2>1, LevelEquation
  <2>3. Level(x, n + 1) = UNION {Level(z, n) : z \in Children(x)}
    BY <1>2
  <2>4. \A z : Level(z, n + 1) = UNION {Children(y) : y \in Level(z, n)}
    BY LevelEquation
  <2>5. UNION {Children(y) : y \in UNION {Level(z, n) : z \in Children(x)}}
          = UNION {UNION {Children(y) : y \in Level(z, n)} : z \in Children(x)}
    OBVIOUS
  <2> QED BY <2>1, <2>2, <2>3, <2>4, <2>5
<1>3. Nat \subseteq T
  <2> HIDE DEF T
  <2> QED BY <1>1, <1>2, NatSet
<1> QED BY <1>3

\* Below an empty level there is nothing.
LEMMA LevelsEnd ==
  ASSUME NEW x, NEW n \in Nat, Level(x, n) = {}
  PROVE  \A m \in Nat : n <= m => Level(x, m) = {}
<1> DEFINE T == {m \in Nat : n <= m => Level(x, m) = {}}
<1>1. 0 \in T
  OBVIOUS
<1>2. ASSUME NEW m \in Nat, m \in T PROVE m + 1 \in T
  <2> SUFFICES ASSUME n <= m + 1 PROVE Level(x, m + 1) = {}
    OBVIOUS
  <2>1. CASE n = m + 1
    BY <2>1
  <2>2. CASE n <= m
    <3>1. Level(x, m) = {}
      BY <1>2, <2>2
    <3> QED BY <3>1, LevelEquation
  <2> QED BY <2>1, <2>2
<1>3. Nat \subseteq T
  <2> HIDE DEF T
  <2> QED BY <1>1, <1>2, NatSet
<1> QED BY <1>3

\* The number of levels of a tree.
Height(x) == CHOOSE n \in Nat : Level(x, n) = {} /\ \A m \in Nat : m < n => Level(x, m) # {}

\* A tree has a height, and its levels are empty from there on.
LEMMA HeightOf ==
  ASSUME NEW x, IsTree(x)
  PROVE  /\ Height(x) \in Nat
         /\ \A n \in Nat : Level(x, n) = {} <=> Height(x) <= n
<1> DEFINE T == {n \in Nat : \A k \in Nat : k <= n /\ Level(x, k) = {} =>
                    \E m \in Nat : Level(x, m) = {} /\ \A l \in Nat : l < m => Level(x, l) # {}}
<1>1. 0 \in T
  <2> SUFFICES ASSUME NEW k \in Nat, k <= 0, Level(x, k) = {}
               PROVE  \E m \in Nat : Level(x, m) = {} /\ \A l \in Nat : l < m => Level(x, l) # {}
    OBVIOUS
  <2>1. \A l \in Nat : l < k => Level(x, l) # {}
    OBVIOUS
  <2> QED BY <2>1
<1>2. ASSUME NEW n \in Nat, n \in T PROVE n + 1 \in T
  <2> SUFFICES ASSUME NEW k \in Nat, k <= n + 1, Level(x, k) = {}
               PROVE  \E m \in Nat : Level(x, m) = {} /\ \A l \in Nat : l < m => Level(x, l) # {}
    OBVIOUS
  <2>1. CASE \A l \in Nat : l < k => Level(x, l) # {}
    BY <2>1
  <2>2. CASE \E l \in Nat : l < k /\ Level(x, l) = {}
    <3>1. PICK l \in Nat : l < k /\ Level(x, l) = {}
      BY <2>2
    <3>2. l <= n
      BY <3>1
    <3> QED BY <1>2, <3>1, <3>2
  <2> QED BY <2>1, <2>2
<1>3. Nat \subseteq T
  <2> HIDE DEF T
  <2> QED BY <1>1, <1>2, NatSet
<1>4. \E m \in Nat : Level(x, m) = {} /\ \A l \in Nat : l < m => Level(x, l) # {}
  <2>1. PICK k \in Nat : Level(x, k) = {}
    BY DEF IsTree
  <2>2. k \in T
    BY <1>3
  <2> QED BY <2>1, <2>2
<1>5. Height(x) \in Nat /\ Level(x, Height(x)) = {} /\ \A l \in Nat : l < Height(x) => Level(x, l) # {}
  BY <1>4 DEF Height
<1> QED BY <1>5, LevelsEnd

\* The children of a tree are trees with fewer levels.
LEMMA ChildOfTree ==
  ASSUME NEW x, IsTree(x), NEW z \in Children(x)
  PROVE  IsTree(z) /\ Height(z) < Height(x)
<1>1. Height(x) \in Nat /\ Level(x, Height(x)) = {}
  BY HeightOf
<1>2. Height(x) # 0
  BY <1>1, LevelEquation
<1>3. Height(x) - 1 \in Nat /\ (Height(x) - 1) + 1 = Height(x)
  BY <1>1, <1>2
<1>4. Level(z, Height(x) - 1) = {}
  <2>1. Level(x, (Height(x) - 1) + 1) = UNION {Level(w, Height(x) - 1) : w \in Children(x)}
    BY <1>3, LevelOfChildren
  <2> QED BY <1>1, <1>3, <2>1
<1>5. IsTree(z)
  BY <1>3, <1>4 DEF IsTree
<1>6. Height(z) <= Height(x) - 1 /\ Height(z) \in Nat
  BY <1>3, <1>4, <1>5, HeightOf
<1> QED BY <1>1, <1>5, <1>6

\* The parts of a tree are what is on its levels.
LEMMA PartsAre ==
  ASSUME NEW x, IsTree(x)
  PROVE  Parts(x) = UNION {Level(x, n) : n \in Nat}
<1> DEFINE Of(n, f) == IF Level(x, n) = {} THEN {} ELSE Level(x, n) \cup f[n + 1]
           From(n) == UNION {Level(x, m) : m \in {k \in Nat : n <= k}}
           v == CHOOSE f : f = [n \in Nat |-> Of(n, f)]
           g == [n \in Nat |-> From(n)]
<1>1. Parts(x) = v[0]
  BY DEF Parts
<1>2. ASSUME NEW n \in Nat PROVE From(n) = Of(n, g)
  <2>1. g[n + 1] = From(n + 1)
    OBVIOUS
  <2>2. CASE Level(x, n) = {}
    <3>1. \A m \in Nat : n <= m => Level(x, m) = {}
      BY <2>2, LevelsEnd
    <3> QED BY <2>2, <3>1
  <2>3. CASE Level(x, n) # {}
    <3>1. \A k \in Nat : n <= k <=> (k = n \/ n + 1 <= k)
      OBVIOUS
    <3>2. From(n) = Level(x, n) \cup From(n + 1)
      BY <3>1
    <3> QED BY <2>1, <2>3, <3>2
  <2> QED BY <2>2, <2>3
<1>3. g = [n \in Nat |-> Of(n, g)]
  <2>1. [n \in Nat |-> From(n)] = [n \in Nat |-> Of(n, g)]
    <3> HIDE DEF From, Of, g
    <3> QED BY <1>2
  <2> QED BY <2>1
<1>4. v = [n \in Nat |-> Of(n, v)]
  <2>1. \E f : f = [n \in Nat |-> Of(n, f)]
    <3> HIDE DEF g, Of
    <3> QED BY <1>3
  <2> HIDE DEF Of
  <2> QED BY <2>1
<1>5. \A n \in Nat : v[n] = Of(n, v)
  <2> HIDE DEF v, Of
  <2> QED BY <1>4
<1> HIDE DEF v
<1> DEFINE H == Height(x)
           T == {k \in Nat : \A n \in Nat : H <= n + k => v[n] = g[n]}
<1>6. H \in Nat /\ \A n \in Nat : Level(x, n) = {} <=> H <= n
  BY HeightOf
<1>7. 0 \in T
  <2> SUFFICES ASSUME NEW n \in Nat, H <= n PROVE v[n] = g[n]
    BY <1>6
  <2>1. Level(x, n) = {}
    BY <1>6
  <2>2. v[n] = {}
    BY <1>5, <2>1
  <2>3. g[n] = {}
    BY <1>2, <2>1
  <2> QED BY <2>2, <2>3
<1>8. ASSUME NEW k \in Nat, k \in T PROVE k + 1 \in T
  <2> SUFFICES ASSUME NEW n \in Nat, H <= n + (k + 1) PROVE v[n] = g[n]
    BY <1>6
  <2>1. n + 1 \in Nat /\ H <= (n + 1) + k
    BY <1>6
  <2>2. v[n + 1] = g[n + 1]
    <3> HIDE DEF g, H
    <3> QED BY <1>8, <2>1
  <2>3. v[n] = Of(n, v)
    <3> HIDE DEF Of
    <3> QED BY <1>5
  <2>4. g[n] = Of(n, g)
    BY <1>2
  <2> HIDE DEF g
  <2> QED BY <2>2, <2>3, <2>4
<1>9. v[0] = g[0]
  <2>1. Nat \subseteq T
    <3> HIDE DEF T
    <3> QED BY <1>7, <1>8, NatSet
  <2>2. H \in T /\ H <= 0 + H
    BY <1>6, <2>1
  <2> HIDE DEF g, H
  <2> QED BY <2>2
<1>10. g[0] = UNION {Level(x, n) : n \in Nat}
  <2>1. {k \in Nat : 0 <= k} = Nat
    OBVIOUS
  <2> QED BY <2>1
<1> QED BY <1>1, <1>9, <1>10

\* The parts of a tree are trees and the tree holds the parts of its parts, of
\* which all but the part itself have fewer levels.
LEMMA PartsOfTree ==
  ASSUME NEW x, IsTree(x)
  PROVE  /\ x \in Parts(x)
         /\ \A z \in Children(x) : Parts(z) \subseteq Parts(x)
         /\ \A y \in Parts(x) : y = x \/ \E z \in Children(x) : y \in Parts(z)
<1>1. Parts(x) = UNION {Level(x, n) : n \in Nat}
  BY PartsAre
<1>2. x \in Parts(x)
  BY <1>1, LevelEquation
<1>3. ASSUME NEW z \in Children(x) PROVE Parts(z) \subseteq Parts(x)
  <2>1. Parts(z) = UNION {Level(z, n) : n \in Nat}
    BY ChildOfTree, PartsAre
  <2>2. \A n \in Nat : n + 1 \in Nat /\ Level(z, n) \subseteq Level(x, n + 1)
    BY LevelOfChildren
  <2> QED BY <1>1, <2>1, <2>2
<1>4. ASSUME NEW y \in Parts(x), y # x PROVE \E z \in Children(x) : y \in Parts(z)
  <2>1. PICK n \in Nat : y \in Level(x, n)
    BY <1>1
  <2>2. n # 0
    BY <1>4, <2>1, LevelEquation
  <2>3. n - 1 \in Nat /\ (n - 1) + 1 = n
    BY <2>2
  <2>4. PICK z \in Children(x) : y \in Level(z, n - 1)
    BY <2>1, <2>3, LevelOfChildren
  <2>5. Parts(z) = UNION {Level(z, k) : k \in Nat}
    BY ChildOfTree, PartsAre
  <2> QED BY <2>3, <2>4, <2>5
<1> QED BY <1>2, <1>3, <1>4

\* Induction over a tree: what holds of a part when it holds of its children.
LEMMA TreeInduction ==
  ASSUME NEW x, IsTree(x), NEW T,
         \A y \in Parts(x) : IsTree(y) /\ Parts(y) \subseteq Parts(x) /\ Children(y) \subseteq T => y \in T
  PROVE  x \in T /\ Parts(x) \subseteq T
<1> DEFINE U == {n \in Nat : \A y \in Parts(x) : IsTree(y) /\ Parts(y) \subseteq Parts(x) /\ Height(y) <= n => Parts(y) \subseteq T}
<1>1. ASSUME NEW n \in Nat, \A m \in Nat : m < n => m \in U PROVE n \in U
  <2> SUFFICES ASSUME NEW y \in Parts(x), IsTree(y), Parts(y) \subseteq Parts(x), Height(y) <= n
               PROVE  Parts(y) \subseteq T
    OBVIOUS
  <2>1. ASSUME NEW z \in Children(y) PROVE Parts(z) \subseteq T
    <3>1. IsTree(z) /\ Height(z) < Height(y) /\ Parts(z) \subseteq Parts(y) /\ z \in Parts(z)
      BY ChildOfTree, PartsOfTree
    <3>2. Height(z) \in Nat /\ Height(y) \in Nat /\ Height(z) < n /\ Height(z) <= Height(z)
      BY <3>1, HeightOf
    <3>3. Height(z) \in U
      BY <1>1, <3>2
    <3> QED BY <3>1, <3>2, <3>3
  <2>2. \A z \in Children(y) : z \in Parts(z)
    BY ChildOfTree, PartsOfTree
  <2>3. y \in T
    BY <2>1, <2>2
  <2> QED BY <2>1, <2>3, PartsOfTree
<1> DEFINE V == {n \in Nat : \A m \in Nat : m < n => m \in U}
<1>2. 0 \in V
  OBVIOUS
<1>3. ASSUME NEW n \in Nat, n \in V PROVE n + 1 \in V
  <2>1. n \in U
    <3> HIDE DEF U
    <3> QED BY <1>1, <1>3
  <2>2. \A m \in Nat : m < n + 1 => m < n \/ m = n
    OBVIOUS
  <2> HIDE DEF U
  <2> QED BY <1>3, <2>1, <2>2
<1>4. Nat \subseteq V
  <2> HIDE DEF V
  <2> QED BY <1>2, <1>3, NatSet
<1>5. Height(x) \in U
  <2>1. Height(x) \in Nat /\ Height(x) + 1 \in Nat /\ Height(x) < Height(x) + 1
    BY HeightOf
  <2> HIDE DEF U
  <2> QED BY <1>4, <2>1
<1>6. Height(x) \in Nat /\ Height(x) <= Height(x) /\ x \in Parts(x)
  BY HeightOf, PartsOfTree
<1> QED BY <1>5, <1>6

\* A part of a tree is a tree, and lower unless it is the tree itself.
LEMMA PartIsTree ==
  ASSUME NEW x, IsTree(x)
  PROVE  \A y \in Parts(x) : /\ IsTree(y)
                             /\ Parts(y) \subseteq Parts(x)
                             /\ Children(y) \subseteq Parts(y)
                             /\ y # x => Height(y) < Height(x)
<1> DEFINE Good(w) == \A y \in Parts(w) : /\ IsTree(y)
                                          /\ Parts(y) \subseteq Parts(w)
                                          /\ Children(y) \subseteq Parts(y)
                                          /\ y # w => Height(y) < Height(w)
           T == {w \in Parts(x) : Good(w)}
<1>1. ASSUME NEW w \in Parts(x), IsTree(w), Parts(w) \subseteq Parts(x), Children(w) \subseteq T PROVE w \in T
  <2> SUFFICES ASSUME NEW y \in Parts(w)
               PROVE  /\ IsTree(y)
                      /\ Parts(y) \subseteq Parts(w)
                      /\ Children(y) \subseteq Parts(y)
                      /\ y # w => Height(y) < Height(w)
    BY <1>1
  <2>1. CASE y = w
    <3>1. \A z \in Children(w) : z \in Parts(z) /\ Parts(z) \subseteq Parts(w)
      BY <1>1, ChildOfTree, PartsOfTree
    <3> QED BY <1>1, <2>1, <3>1
  <2>2. CASE y # w
    <3>1. PICK z \in Children(w) : y \in Parts(z)
      BY <1>1, <2>2, PartsOfTree
    <3>2. Good(z)
      BY <1>1, <3>1
    <3>3. IsTree(z) /\ Height(z) < Height(w) /\ Parts(z) \subseteq Parts(w)
      BY <1>1, <3>1, ChildOfTree, PartsOfTree
    <3>4. IsTree(y) /\ Parts(y) \subseteq Parts(z) /\ Children(y) \subseteq Parts(y) /\ (y # z => Height(y) < Height(z))
      <4> HIDE DEF T
      <4> QED BY <3>1, <3>2
    <3>5. Height(y) \in Nat /\ Height(z) \in Nat /\ Height(w) \in Nat
      BY <1>1, <3>3, <3>4, HeightOf
    <3>6. Height(y) < Height(w)
      BY <3>3, <3>4, <3>5
    <3> QED BY <3>3, <3>4, <3>6
  <2> QED BY <2>1, <2>2
<1>2. x \in T
  <2> HIDE DEF T
  <2> QED BY <1>1, TreeInduction
<1> QED BY <1>2

\* What the lemmas about recursive definitions ask of the parts of a tree.
LEMMA PartsAreRanked ==
  ASSUME NEW x, IsTree(x)
  PROVE  \E S : \E h \in [S -> Nat] :
           /\ x \in S
           /\ S = Parts(x)
           /\ \A y \in S : Parts(y) \subseteq S /\ y \in Parts(y)
           /\ \A y \in S : \A w \in Parts(y) : Parts(w) \subseteq Parts(y) /\ Children(w) \subseteq Parts(y)
           /\ \A y \in S : \A z \in Children(y) : h[z] < h[y]
           /\ \A y \in S : \A w \in Parts(y) : w # y => h[w] < h[y]
<1> DEFINE h == [y \in Parts(x) |-> Height(y)]
<1>1. h \in [Parts(x) -> Nat]
  BY PartIsTree, HeightOf
<1>2. \A y \in Parts(x) : IsTree(y) /\ Parts(y) \subseteq Parts(x) /\ y \in Parts(y)
  BY PartIsTree, PartsOfTree
<1>3. \A y \in Parts(x) : \A w \in Parts(y) : Parts(w) \subseteq Parts(y) /\ Children(w) \subseteq Parts(w) /\ w \in Parts(w)
  BY <1>2, PartIsTree, PartsOfTree
<1>4. ASSUME NEW y \in Parts(x), NEW z \in Children(y) PROVE h[z] < h[y]
  <2>1. z \in Parts(x) /\ y \in Parts(x)
    BY <1>2, <1>3, <1>4
  <2>2. Height(z) < Height(y)
    BY <1>2, <1>4, ChildOfTree
  <2> QED BY <2>1, <2>2
<1>5. ASSUME NEW y \in Parts(x), NEW w \in Parts(y), w # y PROVE h[w] < h[y]
  <2>1. w \in Parts(x) /\ y \in Parts(x)
    BY <1>2, <1>5
  <2>2. Height(w) < Height(y)
    BY <1>2, <1>5, PartIsTree
  <2> QED BY <2>1, <2>2
<1> HIDE DEF h
<1>6. x \in Parts(x)
  BY PartsOfTree
<1> QED BY <1>1, <1>2, <1>3, <1>4, <1>5, <1>6

\* A node with finitely many children, all of them trees, is a tree.
LEMMA NodeOfTrees ==
  ASSUME NEW x, IsFiniteSet(Children(x)), \A z \in Children(x) : IsTree(z)
  PROVE  IsTree(x)
<1> DEFINE C == Children(x)
           T == {D \in SUBSET C : \E n \in Nat : \A z \in D : Height(z) <= n}
<1>1. \A z \in C : Height(z) \in Nat
  BY HeightOf
<1>2. ASSUME NEW D \in SUBSET C, \A E \in SUBSET D : E # D => E \in T PROVE D \in T
  <2>1. CASE D = {}
    <3>1. \A z \in D : Height(z) <= 0
      BY <2>1
    <3> QED BY <3>1
  <2>2. CASE D # {}
    <3>1. PICK z \in D : TRUE
      BY <2>2
    <3>2. D \ {z} \in SUBSET D /\ D \ {z} # D
      BY <3>1
    <3>3. PICK n \in Nat : \A w \in D \ {z} : Height(w) <= n
      BY <1>2, <3>2
    <3>4. Height(z) \in Nat /\ n + Height(z) \in Nat
      BY <1>1, <3>1
    <3>5. \A w \in D : Height(w) <= n + Height(z)
      BY <1>1, <3>3, <3>4
    <3> QED BY <3>4, <3>5
  <2> QED BY <2>1, <2>2
<1>3. C \in T
  <2>1. SUBSET C \subseteq T
    <3>1. IsFiniteSet(C)
      OBVIOUS
    <3> HIDE DEF T, C
    <3> QED BY <1>2, <3>1, FiniteSetInduction
  <2> QED BY <2>1
<1>4. PICK n \in Nat : \A z \in C : Height(z) <= n
  BY <1>3
<1>5. \A z \in C : Level(z, n) = {}
  BY <1>4, HeightOf
<1>6. Level(x, n + 1) = {}
  BY <1>5, LevelOfChildren
<1> QED BY <1>6 DEF IsTree

-----------------------------------------------------------------------------

\* The free variables of a node, of those of its children. The lemmas that
\* follow say the same of every other visitor: what it returns is what its
\* step makes of a node and of what it returns for the children.
LEMMA FreeVarsNode ==
  ASSUME NEW x, IsTree(x)
  PROVE  FreeVars(x) = FreeVarsStep(0, x, [z \in Children(x) |-> FreeVars(z)])
<1>1. FreeVarsVisitor!NumbersAreInductive
  BY NatSet DEF FreeVarsVisitor!NumbersAreInductive
<1>2. \A y \in Parts(x) : FreeVarsVisitor!Visit(0, y) = FreeVarsStep(0, y, [z \in Children(y) |-> FreeVarsVisitor!Visit(0, z)])
  BY <1>1, PartsAreRanked, FreeVarsVisitor!VisitEquation
<1> QED BY <1>2, PartsOfTree DEF FreeVars

\* The meaning of a node.
LEMMA MeaningNode ==
  ASSUME NEW x, IsTree(x), NEW p
  PROVE  Meaning!Visit(p, x) = MeaningStep(p, x, [z \in Children(x) |-> Meaning!Visit(p, z)])
<1>1. Meaning!NumbersAreInductive
  BY NatSet DEF Meaning!NumbersAreInductive
<1>2. \A y \in Parts(x) : Meaning!Visit(p, y) = MeaningStep(p, y, [z \in Children(y) |-> Meaning!Visit(p, z)])
  BY <1>1, PartsAreRanked, Meaning!VisitEquation
<1> QED BY <1>2, PartsOfTree

\* A substitution, at a node.
LEMMA SubstNode ==
  ASSUME NEW x, IsTree(x), NEW p
  PROVE  Substitution!Visit(p, x) = SubstStep(p, x, [z \in Children(x) |-> Substitution!Visit(p, z)])
<1>1. Substitution!NumbersAreInductive
  BY NatSet DEF Substitution!NumbersAreInductive
<1>2. \A y \in Parts(x) : Substitution!Visit(p, y) = SubstStep(p, y, [z \in Children(y) |-> Substitution!Visit(p, z)])
  BY <1>1, PartsAreRanked, Substitution!VisitEquation
<1> QED BY <1>2, PartsOfTree

\* DeltaStrengthen and DeltaWeaken, at a node.
LEMMA StrengthenNode ==
  ASSUME NEW x, IsTree(x), NEW p
  PROVE  Strengthening!Visit(p, x) = StrengthenStep(p, x, [z \in Children(x) |-> Strengthening!Visit(p, z)])
<1>1. Strengthening!NumbersAreInductive
  BY NatSet DEF Strengthening!NumbersAreInductive
<1>2. \A y \in Parts(x) : Strengthening!Visit(p, y) = StrengthenStep(p, y, [z \in Children(y) |-> Strengthening!Visit(p, z)])
  BY <1>1, PartsAreRanked, Strengthening!VisitEquation
<1> QED BY <1>2, PartsOfTree

\* Nnfizer, at a node.
LEMMA NnfNode ==
  ASSUME NEW x, IsTree(x), NEW p
  PROVE  Nnfizer!Visit(p, x) = NnfStep(p, x, [z \in Children(x) |-> Nnfizer!Visit(p, z)])
<1>1. Nnfizer!NumbersAreInductive
  BY NatSet DEF Nnfizer!NumbersAreInductive
<1>2. \A y \in Parts(x) : Nnfizer!Visit(p, y) = NnfStep(p, y, [z \in Children(y) |-> Nnfizer!Visit(p, z)])
  BY <1>1, PartsAreRanked, Nnfizer!VisitEquation
<1> QED BY <1>2, PartsOfTree

\* IfThenElseEliminator, at a node.
LEMMA ITENode ==
  ASSUME NEW x, IsTree(x), NEW p
  PROVE  VisitITE(p, x) = ITEStep(p, x, [z \in Children(x) |-> VisitITE(p, z)])
<1>1. IfThenElseEliminator!NumbersAreInductive
  BY NatSet DEF IfThenElseEliminator!NumbersAreInductive
<1>2. \A y \in Parts(x) : IfThenElseEliminator!Visit(p, y) = ITEStep(p, y, [z \in Children(y) |-> IfThenElseEliminator!Visit(p, z)])
  BY <1>1, PartsAreRanked, IfThenElseEliminator!VisitEquation
<1> QED BY <1>2, PartsOfTree DEF VisitITE

\* PredicateNormalizer, at a node.
LEMMA NormalizeNode ==
  ASSUME NEW x, IsTree(x)
  PROVE  Normalize(x) = NormalizeStep(0, x, [z \in Children(x) |-> Normalize(z)])
<1>1. Normalizer!NumbersAreInductive
  BY NatSet DEF Normalizer!NumbersAreInductive
<1>2. \A y \in Parts(x) : Normalizer!Visit(0, y) = NormalizeStep(0, y, [z \in Children(y) |-> Normalizer!Visit(0, z)])
  BY <1>1, PartsAreRanked, Normalizer!VisitEquation
<1> QED BY <1>2, PartsOfTree DEF Normalize

\* The predicates of a node.
LEMMA PredicatesNode ==
  ASSUME NEW x, IsTree(x)
  PROVE  Predicates(x) = PredicatesStep(0, x, [z \in Children(x) |-> Predicates(z)])
<1>1. PredicatesVisitor!NumbersAreInductive
  BY NatSet DEF PredicatesVisitor!NumbersAreInductive
<1>2. \A y \in Parts(x) : PredicatesVisitor!Visit(0, y) = PredicatesStep(0, y, [z \in Children(y) |-> PredicatesVisitor!Visit(0, z)])
  BY <1>1, PartsAreRanked, PredicatesVisitor!VisitEquation
<1> QED BY <1>2, PartsOfTree DEF Predicates

\* NaiveCnfizer, at a node.
LEMMA CnfNode ==
  ASSUME NEW x, IsTree(x)
  PROVE  NaiveCnfizer!Visit(0, x) = CnfStep(0, x, [z \in Children(x) |-> NaiveCnfizer!Visit(0, z)])
<1>1. NaiveCnfizer!NumbersAreInductive
  BY NatSet DEF NaiveCnfizer!NumbersAreInductive
<1>2. \A y \in Parts(x) : NaiveCnfizer!Visit(0, y) = CnfStep(0, y, [z \in Children(y) |-> NaiveCnfizer!Visit(0, z)])
  BY <1>1, PartsAreRanked, NaiveCnfizer!VisitEquation
<1> QED BY <1>2, PartsOfTree

\* TseitinCnfizer, the subformulas of a node that get a variable.
LEMMA NamedNode ==
  ASSUME NEW x, IsTree(x)
  PROVE  NamedParts(x) = NamedStep(0, x, [z \in Children(x) |-> NamedParts(z)])
<1>1. NamedVisitor!NumbersAreInductive
  BY NatSet DEF NamedVisitor!NumbersAreInductive
<1>2. \A y \in Parts(x) : NamedVisitor!Visit(0, y) = NamedStep(0, y, [z \in Children(y) |-> NamedVisitor!Visit(0, z)])
  BY <1>1, PartsAreRanked, NamedVisitor!VisitEquation
<1> QED BY <1>2, PartsOfTree DEF NamedParts

\* PredicateAbstractor, at a node.
LEMMA AbstractNode ==
  ASSUME NEW x, IsTree(x)
  PROVE  Abstract(x) = AbstractStep(0, x, [z \in Children(x) |-> Abstract(z)])
<1>1. Abstractor!NumbersAreInductive
  BY NatSet DEF Abstractor!NumbersAreInductive
<1>2. \A y \in Parts(x) : Abstractor!Visit(0, y) = AbstractStep(0, y, [z \in Children(y) |-> Abstractor!Visit(0, z)])
  BY <1>1, PartsAreRanked, Abstractor!VisitEquation
<1> QED BY <1>2, PartsOfTree DEF Abstract

\* DeBruijnCanonicalizer, at a node.
LEMMA SequenceNode ==
  ASSUME NEW x, IsTree(x)
  PROVE  CanonicalSequence(x) = SequenceStep(0, x, [z \in Children(x) |-> CanonicalSequence(z)])
<1>1. DeBruijnCanonicalizer!NumbersAreInductive
  BY NatSet DEF DeBruijnCanonicalizer!NumbersAreInductive
<1>2. \A y \in Parts(x) : DeBruijnCanonicalizer!Visit(0, y) = SequenceStep(0, y, [z \in Children(y) |-> DeBruijnCanonicalizer!Visit(0, z)])
  BY <1>1, PartsAreRanked, DeBruijnCanonicalizer!VisitEquation
<1> QED BY <1>2, PartsOfTree DEF CanonicalSequence

\* A renaming of variables, at a node.
LEMMA RenameNode ==
  ASSUME NEW x, IsTree(x), NEW p
  PROVE  Renaming!Visit(p, x) = RenameStep(p, x, [z \in Children(x) |-> Renaming!Visit(p, z)])
<1>1. Renaming!NumbersAreInductive
  BY NatSet DEF Renaming!NumbersAreInductive
<1>2. \A y \in Parts(x) : Renaming!Visit(p, y) = RenameStep(p, y, [z \in Children(y) |-> Renaming!Visit(p, z)])
  BY <1>1, PartsAreRanked, Renaming!VisitEquation
<1> QED BY <1>2, PartsOfTree

\* HasForall, at a node.
LEMMA HasForallNode ==
  ASSUME NEW x, IsTree(x)
  PROVE  HasForall(x) = HasForallStep(0, x, [z \in Children(x) |-> HasForall(z)])
<1>1. ForallFinder!NumbersAreInductive
  BY NatSet DEF ForallFinder!NumbersAreInductive
<1>2. \A y \in Parts(x) : ForallFinder!Visit(0, y) = HasForallStep(0, y, [z \in Children(y) |-> ForallFinder!Visit(0, z)])
  BY <1>1, PartsAreRanked, ForallFinder!VisitEquation
<1> QED BY <1>2, PartsOfTree DEF HasForall

\* The work of a node.
LEMMA WorkNode ==
  ASSUME NEW x, IsTree(x)
  PROVE  WorkCounter!Visit(0, x) = WorkStep(0, x, [z \in Children(x) |-> WorkCounter!Visit(0, z)])
<1>1. WorkCounter!NumbersAreInductive
  BY NatSet DEF WorkCounter!NumbersAreInductive
<1>2. \A y \in Parts(x) : WorkCounter!Visit(0, y) = WorkStep(0, y, [z \in Children(y) |-> WorkCounter!Visit(0, z)])
  BY <1>1, PartsAreRanked, WorkCounter!VisitEquation
<1> QED BY <1>2, PartsOfTree

-----------------------------------------------------------------------------
(* Finite sums *)

\* The sum of f over the set S.
SumOver(f, S) == Sums!Fold(f, 0, S)

\* A sum is that of a set without one element, and what f is there.
LEMMA SumOverEquation ==
  ASSUME NEW f, NEW S, IsFiniteSet(S)
  PROVE  /\ SumOver(f, {}) = 0
         /\ S # {} => \E x \in S : SumOver(f, S) = SumOver(f, S \ {x}) + f[x]
<1>1. Sums!SubsetsAreInductive(S)
  BY FiniteSetInduction DEF Sums!SubsetsAreInductive
<1>2. /\ Sums!Fold(f, 0, {}) = 0
      /\ S # {} => Sums!Fold(f, 0, S) = LET x == CHOOSE y \in S : TRUE IN AddTerm(f, x, Sums!Fold(f, 0, S \ {x}))
  BY <1>1, Sums!FoldEquation
<1> QED BY <1>2 DEF SumOver, AddTerm

\* The sum of numbers is a number, and depends on what it sums only.
LEMMA SumOverType ==
  ASSUME NEW S, IsFiniteSet(S), NEW f, \A x \in S : f[x] \in Nat
  PROVE  SumOver(f, S) \in Nat
<1> DEFINE T == {D \in SUBSET S : SumOver(f, D) \in Nat}
<1>1. ASSUME NEW D \in SUBSET S, \A E \in SUBSET D : E # D => E \in T PROVE D \in T
  <2>1. IsFiniteSet(D)
    BY FS_Subset
  <2>2. CASE D = {}
    BY <2>1, <2>2, SumOverEquation
  <2>3. CASE D # {}
    <3>1. PICK x \in D : SumOver(f, D) = SumOver(f, D \ {x}) + f[x]
      BY <2>1, <2>3, SumOverEquation
    <3>2. D \ {x} \in SUBSET D /\ D \ {x} # D
      OBVIOUS
    <3>3. SumOver(f, D \ {x}) \in Nat /\ f[x] \in Nat
      BY <1>1, <3>2
    <3> QED BY <3>1, <3>3
  <2> QED BY <2>2, <2>3
<1> HIDE DEF T
<1>2. S \in T
  BY <1>1, FiniteSetInduction
<1> QED BY <1>2 DEF T

\* Any element may be taken out first.
LEMMA SumOverWithout ==
  ASSUME NEW S, IsFiniteSet(S), NEW f, \A x \in S : f[x] \in Nat, NEW a \in S
  PROVE  SumOver(f, S) = SumOver(f, S \ {a}) + f[a]
<1> DEFINE T == {D \in SUBSET S : \A c \in D : SumOver(f, D) = SumOver(f, D \ {c}) + f[c]}
<1>1. ASSUME NEW D \in SUBSET S, \A E \in SUBSET D : E # D => E \in T PROVE D \in T
  <2> SUFFICES ASSUME NEW c \in D PROVE SumOver(f, D) = SumOver(f, D \ {c}) + f[c]
    OBVIOUS
  <2>1. IsFiniteSet(D)
    BY FS_Subset
  <2>2. PICK x \in D : SumOver(f, D) = SumOver(f, D \ {x}) + f[x]
    BY <2>1, SumOverEquation
  <2>3. CASE x = c
    BY <2>2, <2>3
  <2>4. CASE x # c
    <3>1. D \ {x} \in SUBSET D /\ D \ {x} # D /\ c \in D \ {x}
      BY <2>4
    <3>2. D \ {c} \in SUBSET D /\ D \ {c} # D /\ x \in D \ {c}
      BY <2>4
    <3>3. SumOver(f, D \ {x}) = SumOver(f, (D \ {x}) \ {c}) + f[c]
      BY <1>1, <3>1
    <3>4. SumOver(f, D \ {c}) = SumOver(f, (D \ {c}) \ {x}) + f[x]
      BY <1>1, <3>2
    <3>5. (D \ {x}) \ {c} = (D \ {c}) \ {x}
      OBVIOUS
    <3>6. SumOver(f, (D \ {c}) \ {x}) \in Nat /\ f[c] \in Nat /\ f[x] \in Nat
      <4>1. IsFiniteSet((D \ {c}) \ {x})
        BY <2>1, FS_Subset
      <4> QED BY <4>1, SumOverType
    <3> QED BY <2>2, <3>3, <3>4, <3>5, <3>6
  <2> QED BY <2>3, <2>4
<1> HIDE DEF T
<1>2. S \in T
  BY <1>1, FiniteSetInduction
<1> QED BY <1>2 DEF T

\* Two functions that agree on a set have one sum over it.
LEMMA SumOverSame ==
  ASSUME NEW S, IsFiniteSet(S), NEW f, NEW g, \A x \in S : f[x] = g[x]
  PROVE  SumOver(f, S) = SumOver(g, S)
<1> DEFINE T == {D \in SUBSET S : SumOver(f, D) = SumOver(g, D)}
           One(D) == CHOOSE y \in D : TRUE
<1>1. ASSUME NEW D \in SUBSET S, \A E \in SUBSET D : E # D => E \in T PROVE D \in T
  <2>1. IsFiniteSet(D)
    BY FS_Subset
  <2>2. CASE D = {}
    BY <2>1, <2>2, SumOverEquation
  <2>3. CASE D # {}
    <3>1. /\ SumOver(f, D) = SumOver(f, D \ {One(D)}) + f[One(D)]
          /\ SumOver(g, D) = SumOver(g, D \ {One(D)}) + g[One(D)]
      <4>1. Sums!SubsetsAreInductive(D)
        BY <2>1, FiniteSetInduction DEF Sums!SubsetsAreInductive
      <4>2. \A p : Sums!Fold(p, 0, D) = LET x == CHOOSE y \in D : TRUE IN AddTerm(p, x, Sums!Fold(p, 0, D \ {x}))
        BY <2>3, <4>1, Sums!FoldEquation
      <4> QED BY <4>2 DEF SumOver, AddTerm
    <3>2. One(D) \in D
      BY <2>3
    <3> HIDE DEF One
    <3>3. D \ {One(D)} \in SUBSET D /\ D \ {One(D)} # D
      BY <3>2
    <3>4. SumOver(f, D \ {One(D)}) = SumOver(g, D \ {One(D)}) /\ f[One(D)] = g[One(D)]
      BY <1>1, <3>2, <3>3
    <3> QED BY <3>1, <3>4
  <2> QED BY <2>2, <2>3
<1> HIDE DEF T
<1>2. S \in T
  BY <1>1, FiniteSetInduction
<1> QED BY <1>2 DEF T

-----------------------------------------------------------------------------
(* The work a set of formulas is for Assert *)

\* The work of one formula.
WorkOf(x) == WorkCounter!Visit(0, x)

\* The work of a set is that of one member and that of the others.
LEMMA WorkOfSet ==
  ASSUME NEW S, IsFiniteSet(S), \A x \in S : WorkOf(x) \in Nat
  PROVE  /\ Work(S) \in Nat
         /\ Work({}) = 0
         /\ \A a \in S : Work(S) = Work(S \ {a}) + WorkOf(a)
<1> DEFINE w == [x \in S |-> WorkOf(x)]
<1>1. \A D \in SUBSET S : Work(D) = SumOver(w, D)
  <2> SUFFICES ASSUME NEW D \in SUBSET S PROVE Work(D) = SumOver(w, D)
    OBVIOUS
  <2> DEFINE v == [f \in D |-> WorkOf(f)]
  <2>1. Work(D) = SumOver(v, D)
    BY DEF Work, Sum, SumOver, WorkOf
  <2>2. IsFiniteSet(D) /\ \A x \in D : v[x] = w[x]
    BY FS_Subset
  <2> HIDE DEF v, w
  <2> QED BY <2>1, <2>2, SumOverSame
<1>2. \A x \in S : w[x] = WorkOf(x)
  OBVIOUS
<1> HIDE DEF w
<1>3. SumOver(w, S) \in Nat
  BY <1>2, SumOverType
<1>4. \A a \in S : SumOver(w, S) = SumOver(w, S \ {a}) + w[a]
  BY <1>2, SumOverWithout
<1>5. SumOver(w, {}) = 0
  BY SumOverEquation
<1> QED BY <1>1, <1>2, <1>3, <1>4, <1>5

\* Together two sets are no more work than each by itself.
LEMMA WorkOfUnion ==
  ASSUME NEW S, IsFiniteSet(S), NEW D, IsFiniteSet(D), \A x \in S \cup D : WorkOf(x) \in Nat
  PROVE  Work(S \cup D) <= Work(S) + Work(D)
<1> DEFINE T == {E \in SUBSET D : Work(S \cup E) <= Work(S) + Work(E)}
<1>1. ASSUME NEW E \in SUBSET D, \A F \in SUBSET E : F # E => F \in T PROVE E \in T
  <2>1. IsFiniteSet(E) /\ IsFiniteSet(S \cup E) /\ \A x \in S \cup E : WorkOf(x) \in Nat
    BY FS_Subset, FS_Union
  <2>2. CASE E \subseteq S
    <3>1. S \cup E = S
      BY <2>2
    <3>2. Work(S) \in Nat /\ Work(E) \in Nat
      BY <2>1, WorkOfSet
    <3>3. Work(S \cup E) = Work(S)
      BY <3>1, Zenon
    <3>4. Work(S \cup E) <= Work(S) + Work(E)
      BY <3>2, <3>3
    <3> QED BY <3>4
  <2>3. CASE ~ (E \subseteq S)
    <3>1. PICK a \in E : a \notin S
      BY <2>3
    <3>2. E \ {a} \in SUBSET E /\ E \ {a} # E /\ IsFiniteSet(E \ {a}) /\ IsFiniteSet(S \cup (E \ {a}))
      BY <2>1, <3>1, FS_Subset, FS_Union
    <3>3. Work(S \cup (E \ {a})) <= Work(S) + Work(E \ {a})
      BY <1>1, <3>2
    <3>4. Work(E) = Work(E \ {a}) + WorkOf(a)
      BY <2>1, <3>1, WorkOfSet
    <3>5. Work(S \cup E) = Work((S \cup E) \ {a}) + WorkOf(a)
      BY <2>1, <3>1, WorkOfSet
    <3>6. (S \cup E) \ {a} = S \cup (E \ {a})
      BY <3>1
    <3>7. Work(S) \in Nat /\ Work(E \ {a}) \in Nat /\ Work(S \cup (E \ {a})) \in Nat /\ WorkOf(a) \in Nat
      <4>1. \A x \in E \ {a} : WorkOf(x) \in Nat
        BY <2>1
      <4>2. \A x \in S \cup (E \ {a}) : WorkOf(x) \in Nat
        BY <2>1
      <4> QED BY <2>1, <3>1, <3>2, <4>1, <4>2, WorkOfSet
    <3>8. Work(S \cup E) = Work(S \cup (E \ {a})) + WorkOf(a)
      BY <3>5, <3>6, Zenon
    <3>9. Work(S \cup E) <= Work(S) + Work(E)
      BY <3>3, <3>4, <3>7, <3>8
    <3> QED BY <3>9
  <2> QED BY <2>2, <2>3
<1> HIDE DEF T
<1>2. D \in T
  BY <1>1, FiniteSetInduction
<1> QED BY <1>2 DEF T

\* Formulas that stand for those of S, and are no more work than those.
LEMMA WorkOfReplaced ==
  ASSUME NEW S, IsFiniteSet(S), NEW H,
         \A x \in S : WorkOf(x) \in Nat /\ IsFiniteSet(H[x]) /\ Work(H[x]) <= WorkOf(x),
         \A x \in S : \A y \in H[x] : WorkOf(y) \in Nat
  PROVE  IsFiniteSet(UNION {H[x] : x \in S}) /\ Work(UNION {H[x] : x \in S}) <= Work(S)
<1> DEFINE U(D) == UNION {H[x] : x \in D}
           T == {D \in SUBSET S : IsFiniteSet(U(D)) /\ Work(U(D)) <= Work(D)}
<1>1. ASSUME NEW D \in SUBSET S, \A E \in SUBSET D : E # D => E \in T PROVE D \in T
  <2>1. IsFiniteSet(D) /\ \A x \in D : WorkOf(x) \in Nat
    BY FS_Subset
  <2>2. CASE D = {}
    <3>1. U(D) = {}
      BY <2>2
    <3>2. Work({}) = 0 /\ IsFiniteSet({})
      BY <2>1, FS_EmptySet, WorkOfSet
    <3> QED BY <2>2, <3>1, <3>2
  <2>3. CASE D # {}
    <3>1. PICK a \in D : TRUE
      BY <2>3
    <3>2. D \ {a} \in SUBSET D /\ D \ {a} # D /\ IsFiniteSet(D \ {a})
      BY <2>1, <3>1, FS_Subset
    <3>3. IsFiniteSet(U(D \ {a})) /\ Work(U(D \ {a})) <= Work(D \ {a})
      <4>1. D \ {a} \in T
        <5> HIDE DEF T
        <5> QED BY <1>1, <3>2
      <4> QED BY <4>1
    <3>4. U(D) = U(D \ {a}) \cup H[a]
      OBVIOUS
    <3>5. \A y \in U(D \ {a}) \cup H[a] : WorkOf(y) \in Nat
      OBVIOUS
    <3>6. IsFiniteSet(H[a]) /\ Work(H[a]) <= WorkOf(a) /\ WorkOf(a) \in Nat
      OBVIOUS
    <3>7. Work(D) = Work(D \ {a}) + WorkOf(a) /\ Work(D \ {a}) \in Nat
      <4>1. \A x \in D \ {a} : WorkOf(x) \in Nat
        BY <2>1
      <4> QED BY <2>1, <3>2, <4>1, WorkOfSet
    <3> HIDE DEF U
    <3>8. IsFiniteSet(U(D \ {a}) \cup H[a]) /\ Work(U(D \ {a}) \cup H[a]) <= Work(U(D \ {a})) + Work(H[a])
      BY <3>3, <3>5, <3>6, FS_Union, WorkOfUnion
    <3>9. Work(U(D \ {a})) \in Nat /\ Work(H[a]) \in Nat /\ Work(U(D \ {a}) \cup H[a]) \in Nat
      <4>1. \A y \in U(D \ {a}) : WorkOf(y) \in Nat
        BY <3>5
      <4>2. \A y \in H[a] : WorkOf(y) \in Nat
        BY <3>5
      <4> QED BY <3>3, <3>5, <3>6, <3>8, <4>1, <4>2, WorkOfSet
    <3>10. Work(U(D)) <= Work(D)
      BY <3>3, <3>4, <3>6, <3>7, <3>8, <3>9
    <3> QED BY <3>4, <3>8, <3>10
  <2> QED BY <2>2, <2>3
<1> HIDE DEF T
<1>2. S \in T
  BY <1>1, FiniteSetInduction
<1> QED BY <1>2 DEF T

-----------------------------------------------------------------------------
(* Trees built of nodes that the constructors build *)

\* Trees of which every part is a node that the constructors build, among
\* them the formulas and the expressions.
WF(x) == IsTree(x) /\ \A y \in Parts(x) : IsNode(y)

\* A formula that the constructors build.
IsForm(x) == WF(x) /\ IsFormula(x)

\* An expression that the constructors build.
IsExpr(x) == WF(x) /\ IsTerm(x)

\* Small sets, and images under a function.
LEMMA FinitePairs ==
  ASSUME NEW a, NEW b, NEW c
  PROVE  IsFiniteSet({a}) /\ IsFiniteSet({a, b}) /\ IsFiniteSet({a, b, c})
<1>1. IsFiniteSet({a}) /\ IsFiniteSet({b}) /\ IsFiniteSet({c})
  BY FS_Singleton
<1>2. IsFiniteSet({a} \cup {b})
  BY <1>1, FS_Union
<1>3. IsFiniteSet(({a} \cup {b}) \cup {c})
  BY <1>1, <1>2, FS_Union
<1>4. {a} \cup {b} = {a, b} /\ ({a} \cup {b}) \cup {c} = {a, b, c}
  OBVIOUS
<1> QED BY <1>1, <1>2, <1>3, <1>4, Zenon

\* What a function makes of a finite set is finite.
LEMMA FiniteImage ==
  ASSUME NEW S, IsFiniteSet(S), NEW f
  PROVE  IsFiniteSet({f[x] : x \in S})
<1> DEFINE T == {f[x] : x \in S}
           g == [x \in S |-> f[x]]
<1>1. g \in Surjection(S, T)
  BY DEF Surjection
<1> HIDE DEF g
<1> QED BY <1>1, FS_Surjection

\* A node has finitely many children.
LEMMA FiniteChildren ==
  ASSUME NEW x, IsNode(x)
  PROVE  IsFiniteSet(Children(x))
<1>1. CASE x.k \in {"and", "or"}
  BY <1>1 DEF IsNode, AreOperands, Children
<1>2. CASE x.k \in {"not", "forall"}
  BY <1>2, FS_Singleton DEF Children
<1>3. CASE x.k = "rel"
  BY <1>3, FinitePairs DEF Children
<1>4. CASE x.k = "op"
  <2>1. Arity[x.op] \in {1, 2} /\ DOMAIN x.args = 1 .. Arity[x.op]
    BY <1>4 DEF IsNode, Arity
  <2>2. Arity[x.op] = 1 => Children(x) = {x.args[1]}
    BY <1>4, <2>1 DEF Children
  <2>3. Arity[x.op] = 2 => Children(x) = {x.args[1], x.args[2]}
    BY <1>4, <2>1 DEF Children
  <2> QED BY <2>1, <2>2, <2>3, FinitePairs, Zenon
<1>5. CASE x.k = "ite"
  BY <1>5, FinitePairs DEF Children
<1>6. CASE x.k \in {"var", "const", "bvar", "true", "false"}
  BY <1>6, FS_EmptySet DEF Children
<1> QED BY <1>1, <1>2, <1>3, <1>4, <1>5, <1>6 DEF IsNode, IsTerm, IsFormula

\* The children of a tree that is built are built.
LEMMA WFChildren ==
  ASSUME NEW x, WF(x)
  PROVE  IsTree(x) /\ IsNode(x) /\ \A z \in Children(x) : WF(z)
  BY PartsOfTree, ChildOfTree DEF WF

\* A node of children that are built is built.
LEMMA WFNode ==
  ASSUME NEW x, IsNode(x), \A z \in Children(x) : WF(z)
  PROVE  WF(x)
<1>1. IsTree(x)
  BY FiniteChildren, NodeOfTrees DEF WF
<1> QED BY <1>1, PartsOfTree DEF WF

\* What holds of a tree that is built, when it holds of a node whenever it
\* holds of the children.
LEMMA ShapeInduction ==
  ASSUME NEW x, WF(x), NEW T,
         \A y \in Parts(x) : WF(y) /\ Children(y) \subseteq T => y \in T
  PROVE  x \in T
<1>1. \A y \in Parts(x) : IsTree(y) /\ Parts(y) \subseteq Parts(x) /\ Children(y) \subseteq T => y \in T
  BY DEF WF
<1>2. IsTree(x)
  BY DEF WF
<1> QED BY <1>1, <1>2, TreeInduction

-----------------------------------------------------------------------------
(* What the constructors make of trees *)

\* Variables and constants are built.
LEMMA LeafWF ==
  /\ IsForm(TrueF) /\ IsForm(FalseF)
  /\ \A v : IsForm(BoolVar(v)) /\ IsExpr(Variable(v))
  /\ \A l, h \in Int : IsExpr(RealConst(l, h))
<1>1. ASSUME NEW x, x.k \in {"true", "false", "bvar", "var", "const"}, IsNode(x) PROVE WF(x)
  <2>1. Children(x) = {}
    BY <1>1 DEF Children
  <2> QED BY <1>1, <2>1, WFNode
<1>2. TrueF.k = "true" /\ IsNode(TrueF) /\ IsFormula(TrueF)
  BY DEF TrueF, IsNode, IsFormula
<1>3. FalseF.k = "false" /\ IsNode(FalseF) /\ IsFormula(FalseF)
  BY DEF FalseF, IsNode, IsFormula
<1>4. ASSUME NEW v PROVE BoolVar(v).k = "bvar" /\ IsNode(BoolVar(v)) /\ IsFormula(BoolVar(v))
  BY DEF BoolVar, IsNode, IsFormula
<1>5. ASSUME NEW v PROVE Variable(v).k = "var" /\ IsNode(Variable(v)) /\ IsTerm(Variable(v))
  BY DEF Variable, IsNode, IsTerm
<1>6. ASSUME NEW l \in Int, NEW h \in Int
      PROVE RealConst(l, h).k = "const" /\ IsNode(RealConst(l, h)) /\ IsTerm(RealConst(l, h))
  BY DEF RealConst, IsNode, IsTerm
<1> QED BY <1>1, <1>2, <1>3, <1>4, <1>5, <1>6 DEF IsForm, IsExpr

\* A relation between two terms is built, or is a truth value if it compares
\* constants.
LEMMA RelWF ==
  ASSUME NEW op \in Relops, NEW l, NEW r, IsExpr(l), IsExpr(r)
  PROVE  /\ IsForm(Rel(op, l, r))
         /\ \/ Rel(op, l, r) = [k |-> "rel", op |-> op, l |-> l, r |-> r]
            \/ Rel(op, l, r) \in {TrueF, FalseF}
<1> DEFINE x == [k |-> "rel", op |-> op, l |-> l, r |-> r]
<1>1. x.k = "rel" /\ x.op = op /\ x.l = l /\ x.r = r /\ x = [k |-> "rel", op |-> x.op, l |-> x.l, r |-> x.r]
  OBVIOUS
<1>2. Rel(op, l, r) \in {x, TrueF, FalseF}
  BY DEF Rel
<1> HIDE DEF x
<1>3. CASE Rel(op, l, r) = x
  <2>1. IsNode(x) /\ IsFormula(x)
    <3>1. x = Rel(x.op, x.l, x.r)
      BY <1>1, <1>3, Zenon
    <3>2. x.op \in Relops /\ IsTerm(x.l) /\ IsTerm(x.r)
      BY <1>1 DEF IsExpr
    <3> QED BY <1>1, <3>1, <3>2 DEF IsNode, IsFormula
  <2>2. Children(x) = {l, r}
    BY <1>1 DEF Children
  <2>3. IsForm(x)
    BY <2>1, <2>2, WFNode DEF IsForm, IsExpr
  <2> QED BY <1>3, <2>3 DEF x
<1> QED BY <1>2, <1>3, LeafWF

\* A negation is built: a double one is taken away.
LEMMA NotWF ==
  ASSUME NEW f, IsForm(f)
  PROVE  IsForm(NotF(f))
<1> DEFINE x == [k |-> "not", f |-> f]
<1>1. CASE f.k = "true"
  BY <1>1, LeafWF DEF NotF
<1>2. CASE f.k = "false"
  BY <1>2, LeafWF DEF NotF
<1>3. CASE f.k = "not"
  <2>1. NotF(f) = f.f /\ Children(f) = {f.f}
    BY <1>3 DEF NotF, Children
  <2>2. IsNode(f) /\ WF(f.f)
    BY <2>1, WFChildren DEF IsForm
  <2> QED BY <1>3, <2>1, <2>2 DEF IsForm, IsNode
<1>4. CASE f.k \notin {"true", "false", "not"}
  <2>1. NotF(f) = x
    BY <1>4 DEF NotF
  <2>2. x.k = "not" /\ x.f = f /\ IsNode(x) /\ IsFormula(x)
    BY <1>4 DEF IsNode, IsFormula, IsForm
  <2> HIDE DEF x
  <2>3. Children(x) = {f}
    BY <2>2 DEF Children
  <2> QED BY <2>1, <2>2, <2>3, WFNode DEF IsForm
<1> QED BY <1>1, <1>2, <1>3, <1>4

\* The operands of a conjunction or a disjunction, merged.
Merged(kind, unit, fs) == (UNION {IF f.k = kind THEN f.s ELSE {f} : f \in fs}) \ {unit}

\* The merged operands are formulas, and none of them is to be merged again.
LEMMA MergedOperands ==
  ASSUME NEW fs, IsFiniteSet(fs), \A f \in fs : IsForm(f), NEW kind \in {"and", "or"}, NEW unit, NEW zero,
         <<kind, unit, zero>> \in {<<"and", TrueF, FalseF>>, <<"or", FalseF, TrueF>>}, zero \notin fs
  PROVE  /\ IsFiniteSet(Merged(kind, unit, fs))
         /\ \A g \in Merged(kind, unit, fs) : IsForm(g) /\ g.k \notin {kind, "true", "false"}
<1> DEFINE part == [f \in fs |-> IF f.k = kind THEN f.s ELSE {f}]
           parts == {part[f] : f \in fs}
<1>1. ASSUME NEW f \in fs PROVE IsFiniteSet(part[f])
  <2>1. CASE f.k = kind
    BY <2>1, WFChildren DEF IsForm, IsNode, AreOperands
  <2>2. CASE f.k # kind
    BY <2>2, FS_Singleton
  <2> QED BY <2>1, <2>2
<1>2. IsFiniteSet(parts)
  <2> HIDE DEF part
  <2> QED BY FiniteImage
<1>3. \A D \in parts : IsFiniteSet(D)
  <2> HIDE DEF part
  <2> QED BY <1>1
<1>4. IsFiniteSet(UNION parts)
  <2> HIDE DEF parts
  <2> QED BY <1>2, <1>3, FS_UNION
<1>5. Merged(kind, unit, fs) = (UNION parts) \ {unit}
  BY DEF Merged
<1>6. IsFiniteSet((UNION parts) \ {unit})
  <2> HIDE DEF parts
  <2> QED BY <1>4, FS_Subset
<1>7. ASSUME NEW g \in Merged(kind, unit, fs) PROVE IsForm(g) /\ g.k \notin {kind, "true", "false"}
  <2>1. PICK f \in fs : g \in part[f]
    BY DEF Merged
  <2>2. CASE f.k = kind
    <3>1. g \in f.s /\ g \in Children(f)
      BY <2>1, <2>2 DEF Children
    <3>2. IsNode(f) /\ WF(g)
      BY <3>1, WFChildren DEF IsForm
    <3> QED BY <2>2, <3>1, <3>2 DEF IsNode, AreOperands, IsForm
  <2>3. CASE f.k # kind
    <3>1. g = f /\ g # unit /\ g # zero
      BY <2>1, <2>3 DEF Merged
    <3>2. IsNode(g) /\ IsForm(g)
      BY <3>1, WFChildren DEF IsForm
    <3>3. g.k \notin {"true", "false"}
      BY <3>1, <3>2 DEF IsNode
    <3> QED BY <2>3, <3>1, <3>2, <3>3
  <2> QED BY <2>2, <2>3
<1> QED BY <1>5, <1>6, <1>7, Zenon

\* What make_conjunction and make_disjunction return.
LEMMA NaryIs ==
  ASSUME NEW fs, NEW kind, NEW unit, NEW zero
  PROVE  LET merged == Merged(kind, unit, fs)
         IN  \/ zero \in fs /\ Nary(kind, unit, zero, fs) = zero
             \/ zero \notin fs /\ merged = {} /\ Nary(kind, unit, zero, fs) = unit
             \/ zero \notin fs /\ merged # {} /\ Cardinality(merged) = 1
                  /\ Nary(kind, unit, zero, fs) = CHOOSE f \in merged : TRUE
             \/ zero \notin fs /\ merged # {} /\ Cardinality(merged) # 1
                  /\ Nary(kind, unit, zero, fs) = [k |-> kind, s |-> merged]
  BY DEF Nary, Merged

\* make_conjunction and make_disjunction return a formula that is built.
LEMMA NaryWF ==
  ASSUME NEW fs, IsFiniteSet(fs), \A f \in fs : IsForm(f), NEW kind \in {"and", "or"}, NEW unit, NEW zero,
         <<kind, unit, zero>> \in {<<"and", TrueF, FalseF>>, <<"or", FalseF, TrueF>>}
  PROVE  IsForm(Nary(kind, unit, zero, fs))
<1> DEFINE merged == Merged(kind, unit, fs)
           x == [k |-> kind, s |-> merged]
<1>1. CASE zero \in fs
  BY <1>1, NaryIs, LeafWF
<1>2. CASE zero \notin fs
  <2>1. IsFiniteSet(merged) /\ \A g \in merged : IsForm(g) /\ g.k \notin {kind, "true", "false"}
    BY <1>2, MergedOperands
  <2> HIDE DEF merged
  <2>2. CASE merged = {}
    BY <1>2, <2>2, NaryIs, LeafWF DEF merged
  <2>3. CASE merged # {} /\ Cardinality(merged) = 1
    BY <1>2, <2>1, <2>3, NaryIs DEF merged
  <2>4. CASE merged # {} /\ Cardinality(merged) # 1
    <3>1. Nary(kind, unit, zero, fs) = x
      BY <1>2, <2>4, NaryIs DEF merged
    <3>2. Cardinality(merged) > 1
      BY <2>1, <2>4, FS_EmptySet, FS_CardinalityType
    <3>3. x.k = kind /\ x.s = merged /\ IsFormula(x)
      BY DEF IsFormula
    <3>4. IsNode(x)
      BY <2>1, <3>2, <3>3 DEF IsNode, AreOperands, IsForm
    <3>5. Children(x) = merged
      BY <3>3 DEF Children
    <3> HIDE DEF x
    <3> QED BY <2>1, <3>1, <3>3, <3>4, <3>5, WFNode DEF IsForm
  <2> QED BY <2>2, <2>3, <2>4
<1> QED BY <1>1, <1>2

\* The same, of the two by their names.
LEMMA AndWF ==
  ASSUME NEW fs, IsFiniteSet(fs), \A f \in fs : IsForm(f)
  PROVE  IsForm(AndF(fs)) /\ IsForm(OrF(fs))
  BY NaryWF DEF AndF, OrF

\* A quantification is built.
LEMMA ForallWF ==
  ASSUME NEW f, IsForm(f), NEW ys, IsFiniteSet(ys)
  PROVE  IsForm(ForallF(ys, f))
<1> DEFINE y == ys \cap FreeVars(f)
           x == [k |-> "forall", y |-> y, f |-> f]
<1>1. IsFiniteSet(y)
  BY FS_Subset
<1> HIDE DEF y
<1>2. x.k = "forall" /\ x.f = f /\ x.y = y /\ IsNode(x) /\ IsFormula(x)
  BY <1>1 DEF IsNode, IsFormula, IsForm
<1>3. ForallF(ys, f) = x
  BY DEF ForallF, y
<1> HIDE DEF x
<1>4. Children(x) = {f}
  BY <1>2 DEF Children
<1> QED BY <1>2, <1>3, <1>4, WFNode DEF IsForm

\* An if-then-else expression is built.
LEMMA IfThenElseWF ==
  ASSUME NEW c, NEW a, NEW b, IsForm(c), IsExpr(a), IsExpr(b)
  PROVE  IsExpr(IfThenElse(c, a, b))
<1> DEFINE x == IfThenElse(c, a, b)
<1>1. x.k = "ite" /\ x.c = c /\ x.a = a /\ x.b = b /\ IsTerm(x)
  BY DEF IfThenElse, IsTerm
<1>2. IsNode(x)
  BY <1>1 DEF IsNode, IsForm, IsExpr
<1> HIDE DEF x
<1>3. Children(x) = {c, a, b}
  BY <1>1 DEF Children
<1> QED BY <1>1, <1>2, <1>3, WFNode DEF IsForm, IsExpr, x

\* An operation with as many arguments as it takes is built.
LEMMA ApplyWF ==
  ASSUME NEW op \in DOMAIN Arity, NEW args, args = [i \in 1 .. Arity[op] |-> args[i]], \A i \in DOMAIN args : IsExpr(args[i])
  PROVE  IsExpr(Apply(op, args))
<1> DEFINE x == Apply(op, args)
<1>1. x.k = "op" /\ x.op = op /\ x.args = args /\ IsTerm(x) /\ x = Apply(x.op, x.args)
  BY DEF Apply, IsTerm
<1> HIDE DEF x
<1>2. IsNode(x)
  BY <1>1 DEF IsNode, IsExpr, IsTerm
<1>3. Children(x) = {args[i] : i \in DOMAIN args}
  BY <1>1 DEF Children
<1> QED BY <1>1, <1>2, <1>3, WFNode DEF IsExpr, x

\* A tree whose children are replaced by trees of their sorts.
LEMMA RebuildWF ==
  ASSUME NEW x, WF(x), NEW sub,
         \A z \in Children(x) : WF(sub[z]) /\ (IsTerm(z) => IsTerm(sub[z])) /\ (IsFormula(z) => IsFormula(sub[z]))
  PROVE  /\ WF(Rebuild(x, sub))
         /\ IsTerm(x) => IsTerm(Rebuild(x, sub))
         /\ IsFormula(x) => IsFormula(Rebuild(x, sub))
<1>0. IsNode(x) /\ \A z \in Children(x) : WF(z)
  BY WFChildren
<1>1. CASE x.k \in {"and", "or"}
  <2>1. IsFormula(x) /\ ~ IsTerm(x)
    BY <1>1 DEF IsFormula, IsTerm
  <2>2. IsFiniteSet({sub[g] : g \in x.s}) /\ \A f \in {sub[g] : g \in x.s} : IsForm(f)
    BY <1>0, <1>1, FiniteImage DEF IsNode, AreOperands, Children, IsForm
  <2>3. Rebuild(x, sub) \in {AndF({sub[g] : g \in x.s}), OrF({sub[g] : g \in x.s})}
    BY <1>1 DEF Rebuild
  <2> QED BY <2>1, <2>2, <2>3, AndWF DEF IsForm
<1>2. CASE x.k = "not"
  <2>1. IsFormula(x) /\ ~ IsTerm(x) /\ IsForm(sub[x.f])
    BY <1>0, <1>2 DEF IsFormula, IsTerm, IsNode, Children, IsForm
  <2>2. Rebuild(x, sub) = NotF(sub[x.f])
    BY <1>2 DEF Rebuild
  <2> QED BY <2>1, <2>2, NotWF DEF IsForm
<1>3. CASE x.k = "forall"
  <2>1. IsFormula(x) /\ ~ IsTerm(x) /\ IsForm(sub[x.f]) /\ IsFiniteSet(x.y)
    BY <1>0, <1>3 DEF IsFormula, IsTerm, IsNode, Children, IsForm
  <2>2. Rebuild(x, sub) = ForallF(x.y, sub[x.f])
    BY <1>3 DEF Rebuild
  <2> QED BY <2>1, <2>2, ForallWF DEF IsForm
<1>4. CASE x.k = "rel"
  <2>1. IsFormula(x) /\ ~ IsTerm(x) /\ IsExpr(sub[x.l]) /\ IsExpr(sub[x.r]) /\ x.op \in Relops
    BY <1>0, <1>4 DEF IsFormula, IsTerm, IsNode, Children, IsExpr
  <2>2. Rebuild(x, sub) = Rel(x.op, sub[x.l], sub[x.r])
    BY <1>4 DEF Rebuild
  <2> QED BY <2>1, <2>2, RelWF DEF IsForm
<1>5. CASE x.k = "ite"
  <2>1. IsTerm(x) /\ ~ IsFormula(x) /\ IsForm(sub[x.c]) /\ IsExpr(sub[x.a]) /\ IsExpr(sub[x.b])
    BY <1>0, <1>5 DEF IsFormula, IsTerm, IsNode, Children, IsExpr, IsForm
  <2>2. Rebuild(x, sub) = IfThenElse(sub[x.c], sub[x.a], sub[x.b])
    BY <1>5 DEF Rebuild
  <2> QED BY <2>1, <2>2, IfThenElseWF DEF IsExpr
<1>6. CASE x.k = "op"
  <2> DEFINE args == [i \in DOMAIN x.args |-> sub[x.args[i]]]
  <2>1. IsTerm(x) /\ ~ IsFormula(x) /\ x.op \in DOMAIN Arity /\ DOMAIN x.args = 1 .. Arity[x.op] /\ x = Apply(x.op, x.args)
    BY <1>0, <1>6 DEF IsFormula, IsTerm, IsNode
  <2>2. \A i \in DOMAIN x.args : IsExpr(sub[x.args[i]])
    BY <1>0, <1>6 DEF IsNode, Children, IsExpr
  <2>3. args = [i \in 1 .. Arity[x.op] |-> args[i]] /\ \A i \in DOMAIN args : IsExpr(args[i])
    BY <2>1, <2>2
  <2>4. Rebuild(x, sub) = [x EXCEPT !.args = args]
    BY <1>6 DEF Rebuild
  <2> HIDE DEF args
  <2>5. [Apply(x.op, x.args) EXCEPT !.args = args] = Apply(x.op, args)
    BY DEF Apply
  <2>6. Rebuild(x, sub) = Apply(x.op, args)
    BY <2>1, <2>4, <2>5, Zenon
  <2>7. IsExpr(Apply(x.op, args))
    BY <2>1, <2>3, ApplyWF
  <2> QED BY <2>1, <2>6, <2>7 DEF IsExpr
<1>7. CASE x.k \in {"var", "const", "bvar", "true", "false"}
  <2>1. Rebuild(x, sub) = x
    BY <1>7 DEF Rebuild
  <2> QED BY <2>1
<1> QED BY <1>0, <1>1, <1>2, <1>3, <1>4, <1>5, <1>6, <1>7 DEF IsNode, IsTerm, IsFormula

-----------------------------------------------------------------------------
(* How much work the trees are that the constructors build *)

\* The work of each kind of node.
LEMMA WorkStepIs ==
  ASSUME NEW x, WF(x)
  PROVE  /\ x.k \in {"and", "or"} => WorkOf(x) = 1 + Work(x.s)
         /\ x.k = "not" => WorkOf(x) = 1 + WorkOf(x.f)
         /\ x.k = "forall" => WorkOf(x) = 1 + Cardinality(x.y) + WorkOf(x.f)
         /\ x.k \notin {"and", "or", "not", "forall"} => WorkOf(x) = 1
<1> DEFINE sub == [z \in Children(x) |-> WorkCounter!Visit(0, z)]
<1>1. WorkOf(x) = WorkStep(0, x, sub)
  BY WorkNode DEF WorkOf, WF
<1>2. CASE x.k \in {"and", "or"}
  <2>1. sub = [f \in x.s |-> WorkCounter!Visit(0, f)]
    BY <1>2 DEF Children
  <2>2. WorkStep(0, x, sub) = 1 + Sum(sub)
    BY <1>2 DEF WorkStep
  <2>3. WorkOf(x) = 1 + Work(x.s)
    BY <1>1, <2>1, <2>2, Zenon DEF Work
  <2> QED BY <1>2, <2>3
<1>3. CASE x.k \in {"not", "forall"}
  <2>1. sub[x.f] = WorkOf(x.f)
    BY <1>3 DEF Children, WorkOf
  <2> HIDE DEF sub
  <2> QED BY <1>1, <1>3, <2>1 DEF WorkStep
<1>4. CASE x.k \notin {"and", "or", "not", "forall"}
  <2> HIDE DEF sub
  <2> QED BY <1>1, <1>4 DEF WorkStep
<1> QED BY <1>2, <1>3, <1>4

\* The work of a formula is a positive number.
LEMMA WorkType ==
  ASSUME NEW x, WF(x)
  PROVE  WorkOf(x) \in Nat /\ WorkOf(x) >= 1
<1> DEFINE T == {y \in Parts(x) : WorkOf(y) \in Nat /\ WorkOf(y) >= 1}
<1>1. ASSUME NEW y \in Parts(x), WF(y), Children(y) \subseteq T PROVE y \in T
  <2>0. IsNode(y) /\ \A z \in Children(y) : WorkOf(z) \in Nat
    BY <1>1, WFChildren
  <2>1. CASE y.k \in {"and", "or"}
    <3>1. IsFiniteSet(y.s) /\ \A z \in y.s : WorkOf(z) \in Nat
      BY <2>0, <2>1 DEF Children, IsNode, AreOperands
    <3>2. Work(y.s) \in Nat
      BY <3>1, WorkOfSet
    <3>3. WorkOf(y) = 1 + Work(y.s)
      BY <1>1, <2>1, WorkStepIs
    <3> QED BY <3>2, <3>3
  <2>2. CASE y.k = "not"
    <3>1. WorkOf(y) = 1 + WorkOf(y.f) /\ WorkOf(y.f) \in Nat
      BY <1>1, <2>0, <2>2, WorkStepIs DEF Children
    <3> QED BY <3>1
  <2>3. CASE y.k = "forall"
    <3>1. WorkOf(y) = 1 + Cardinality(y.y) + WorkOf(y.f) /\ WorkOf(y.f) \in Nat /\ IsFiniteSet(y.y)
      BY <1>1, <2>0, <2>3, WorkStepIs DEF Children, IsNode
    <3>2. Cardinality(y.y) \in Nat
      BY <3>1, FS_CardinalityType
    <3> QED BY <3>1, <3>2
  <2>4. CASE y.k \notin {"and", "or", "not", "forall"}
    <3>1. WorkOf(y) = 1
      BY <1>1, <2>4, WorkStepIs
    <3> QED BY <3>1
  <2> QED BY <2>1, <2>2, <2>3, <2>4
<1>2. x \in T
  <2> HIDE DEF T
  <2> QED BY <1>1, ShapeInduction
<1> QED BY <1>2

\* Fewer formulas are no more work.
LEMMA WorkOfSubset ==
  ASSUME NEW S, IsFiniteSet(S), \A f \in S : WF(f), NEW D \in SUBSET S
  PROVE  Work(D) \in Nat /\ Work(S) \in Nat /\ Work(D) <= Work(S)
<1>1. IsFiniteSet(D) /\ IsFiniteSet(S \ D) /\ \A f \in S : WorkOf(f) \in Nat
  BY FS_Subset, WorkType
<1> DEFINE Rest == S \ D
           T == {E \in SUBSET Rest : Work(D) <= Work(D \cup E)}
<1>2. ASSUME NEW E \in SUBSET Rest, \A F \in SUBSET E : F # E => F \in T PROVE E \in T
  <2>0. Work(D) \in Nat
    BY <1>1, WorkOfSet
  <2>1. CASE E = {}
    <3>1. D \cup E = D
      BY <2>1
    <3>2. Work(D \cup E) = Work(D)
      BY <3>1, Zenon
    <3>3. Work(D) <= Work(D \cup E)
      BY <2>0, <3>2
    <3> QED BY <3>3
  <2>2. CASE E # {}
    <3>1. PICK a \in E : TRUE
      BY <2>2
    <3>2. E \ {a} \in SUBSET E /\ E \ {a} # E
      BY <3>1
    <3>3. Work(D) <= Work(D \cup (E \ {a}))
      <4>1. E \ {a} \in T
        <5> HIDE DEF T
        <5> QED BY <1>2, <3>2
      <4> QED BY <4>1
    <3>4. IsFiniteSet(D \cup E) /\ a \in D \cup E /\ \A f \in D \cup E : WorkOf(f) \in Nat
      BY <1>1, FS_Subset
    <3>5. Work(D \cup E) = Work((D \cup E) \ {a}) + WorkOf(a)
      BY <3>4, WorkOfSet
    <3>6. (D \cup E) \ {a} = D \cup (E \ {a})
      BY <3>1
    <3>7. Work(D \cup E) = Work(D \cup (E \ {a})) + WorkOf(a)
      BY <3>5, <3>6, Zenon
    <3>8. IsFiniteSet(D \cup (E \ {a})) /\ \A f \in D \cup (E \ {a}) : WorkOf(f) \in Nat
      BY <3>4, FS_Subset
    <3>9. Work(D \cup (E \ {a})) \in Nat /\ WorkOf(a) \in Nat
      BY <3>4, <3>8, WorkOfSet
    <3>10. Work(D) <= Work(D \cup E)
      BY <2>0, <3>3, <3>7, <3>9
    <3> QED BY <3>10
  <2> QED BY <2>1, <2>2
<1>3. Rest \in T
  <2>1. SUBSET Rest \subseteq T
    <3>1. IsFiniteSet(Rest)
      BY <1>1
    <3> HIDE DEF Rest, T
    <3> QED BY <1>2, <3>1, FiniteSetInduction
  <2> QED BY <2>1
<1>4. D \cup (S \ D) = S
  OBVIOUS
<1>5. Work(D \cup (S \ D)) = Work(S)
  BY <1>4, Zenon
<1>6. Work(D) <= Work(D \cup (S \ D))
  BY <1>3
<1>7. Work(D) <= Work(S)
  BY <1>5, <1>6
<1>8. Work(D) \in Nat /\ Work(S) \in Nat
  BY <1>1, WorkOfSet
<1> QED BY <1>7, <1>8

\* The work of one formula of a set, and of the others.
LEMMA WorkOfOne ==
  ASSUME NEW S, IsFiniteSet(S), \A f \in S : WF(f), NEW a \in S
  PROVE  /\ Work({a}) = WorkOf(a)
         /\ WorkOf(a) <= Work(S)
         /\ Work(S \ {a}) < Work(S)
<1>1. \A f \in S : WorkOf(f) \in Nat /\ WorkOf(f) >= 1
  BY WorkType
<1>2. /\ IsFiniteSet({a}) /\ \A f \in {a} : WorkOf(f) \in Nat
      /\ IsFiniteSet(S \ {a}) /\ \A f \in S \ {a} : WorkOf(f) \in Nat
  BY <1>1, FS_Singleton, FS_Subset
<1>3. Work({a}) = Work({a} \ {a}) + WorkOf(a)
  BY <1>2, WorkOfSet
<1>4. {a} \ {a} = {}
  OBVIOUS
<1>5. Work({a} \ {a}) = 0
  <2>1. Work({}) = 0
    BY <1>2, WorkOfSet
  <2> QED BY <1>4, <2>1, Zenon
<1>6. Work(S) = Work(S \ {a}) + WorkOf(a) /\ Work(S) \in Nat /\ Work(S \ {a}) \in Nat
  BY <1>1, <1>2, WorkOfSet
<1> QED BY <1>1, <1>3, <1>5, <1>6

\* A negation is at most one step more than what it negates.
LEMMA WorkOfNot ==
  ASSUME NEW f, IsForm(f)
  PROVE  WorkOf(NotF(f)) <= 1 + WorkOf(f)
<1>1. IsForm(NotF(f)) /\ WorkOf(NotF(f)) \in Nat /\ WorkOf(f) \in Nat /\ WorkOf(f) >= 1
  BY NotWF, WorkType DEF IsForm
<1>2. CASE f.k \in {"true", "false"}
  <2>1. NotF(f).k \in {"true", "false"}
    BY <1>2 DEF NotF, TrueF, FalseF
  <2> QED BY <1>1, <2>1, WorkStepIs DEF IsForm
<1>3. CASE f.k = "not"
  <2>1. NotF(f) = f.f
    BY <1>3 DEF NotF
  <2>2. WorkOf(f) = 1 + WorkOf(f.f)
    BY <1>3, WorkStepIs DEF IsForm
  <2> QED BY <1>1, <2>1, <2>2
<1>4. CASE f.k \notin {"true", "false", "not"}
  <2>1. NotF(f).k = "not" /\ NotF(f).f = f
    BY <1>4 DEF NotF
  <2>2. WorkOf(NotF(f)) = 1 + WorkOf(f)
    BY <1>1, <2>1, WorkStepIs DEF IsForm
  <2> QED BY <1>1, <2>2
<1> QED BY <1>2, <1>3, <1>4

\* Merging operands makes no work.
LEMMA WorkOfNary ==
  ASSUME NEW fs, IsFiniteSet(fs), \A f \in fs : IsForm(f), NEW kind \in {"and", "or"}, NEW unit, NEW zero,
         <<kind, unit, zero>> \in {<<"and", TrueF, FalseF>>, <<"or", FalseF, TrueF>>}
  PROVE  WorkOf(Nary(kind, unit, zero, fs)) <= 1 + Work(fs)
<1> DEFINE merged == Merged(kind, unit, fs)
           H == [f \in fs |-> IF f.k = kind THEN f.s ELSE {f}]
           x == Nary(kind, unit, zero, fs)
<1> SUFFICES WorkOf(x) <= 1 + Work(fs)
  OBVIOUS
<1>0. \A f \in fs : WF(f) /\ WorkOf(f) \in Nat /\ WorkOf(f) >= 1
  BY WorkType DEF IsForm
<1>1. Work(fs) \in Nat /\ IsForm(x) /\ WorkOf(x) \in Nat
  BY <1>0, WorkOfSet, WorkType, NaryWF DEF IsForm
<1>2. CASE x \in {TrueF, FalseF}
  <2>1. x.k \in {"true", "false"}
    BY <1>2 DEF TrueF, FalseF
  <2> HIDE DEF x
  <2>2. WorkOf(x) = 1
    BY <1>1, <2>1, WorkStepIs DEF IsForm
  <2> QED BY <1>1, <2>2
<1>3. CASE zero \notin fs
  <2>1. IsFiniteSet(merged) /\ \A g \in merged : IsForm(g) /\ WF(g)
    BY <1>3, MergedOperands DEF IsForm
  <2>2. ASSUME NEW f \in fs
        PROVE  IsFiniteSet(H[f]) /\ Work(H[f]) <= WorkOf(f) /\ \A y \in H[f] : WF(y)
    <3>1. CASE f.k = kind
      <4>1. H[f] = f.s /\ IsNode(f) /\ \A y \in f.s : WF(y)
        BY <3>1, <1>0, WFChildren DEF Children
      <4>2. IsFiniteSet(f.s)
        BY <3>1, <4>1 DEF IsNode, AreOperands
      <4>3. WorkOf(f) = 1 + Work(f.s)
        BY <3>1, <1>0, WorkStepIs
      <4>4. Work(f.s) \in Nat
        BY <4>1, <4>2, WorkType, WorkOfSet
      <4>5. Work(f.s) <= WorkOf(f)
        BY <4>3, <4>4
      <4> HIDE DEF H
      <4> QED BY <4>1, <4>2, <4>5, Zenon
    <3>2. CASE f.k # kind
      <4>1. H[f] = {f}
        BY <3>2
      <4>2. Work({f}) = WorkOf(f) /\ IsFiniteSet({f})
        BY <1>0, WorkOfOne, FS_Singleton
      <4>3. Work({f}) <= WorkOf(f)
        BY <1>0, <4>2
      <4>4. \A y \in {f} : WF(y)
        BY <1>0
      <4> HIDE DEF H
      <4> QED BY <4>1, <4>2, <4>3, <4>4, Zenon
    <3> QED BY <3>1, <3>2
  <2> DEFINE all == UNION {H[f] : f \in fs}
  <2>3. IsFiniteSet(all) /\ Work(all) <= Work(fs)
    <3> HIDE DEF H
    <3>1. \A f \in fs : \A y \in H[f] : WorkOf(y) \in Nat
      BY <2>2, WorkType
    <3> QED BY <1>0, <2>2, <3>1, WorkOfReplaced
  <2>4. \A y \in all : WF(y)
    <3> HIDE DEF H
    <3> QED BY <2>2
  <2>5. merged \in SUBSET all
    BY DEF Merged
  <2>6. Work(merged) \in Nat /\ Work(merged) <= Work(fs)
    <3> HIDE DEF merged, all
    <3>1. Work(merged) \in Nat /\ Work(all) \in Nat /\ Work(merged) <= Work(all)
      BY <2>3, <2>4, <2>5, WorkOfSubset
    <3> QED BY <1>1, <2>3, <3>1
  <2>7. CASE x = [k |-> kind, s |-> merged]
    <3>1. x.k \in {"and", "or"} /\ x.s = merged
      <4> HIDE DEF merged, x
      <4> QED BY <2>7
    <3>2. WorkOf(x) = 1 + Work(x.s)
      <4> HIDE DEF merged, x
      <4> QED BY <1>1, <3>1, WorkStepIs DEF IsForm
    <3>3. Work(x.s) = Work(merged)
      <4> HIDE DEF merged, x
      <4> QED BY <3>1, Zenon
    <3> HIDE DEF merged, x
    <3> QED BY <1>1, <2>6, <3>2, <3>3
  <2>8. CASE merged # {} /\ x = CHOOSE f \in merged : TRUE
    <3> HIDE DEF merged, x
    <3>1. x \in merged
      BY <2>8
    <3>2. WorkOf(x) <= Work(merged)
      BY <2>1, <3>1, WorkOfOne
    <3> QED BY <1>1, <2>6, <3>2
  <2>9. x \in {TrueF, FalseF} \/ x = [k |-> kind, s |-> merged] \/ (merged # {} /\ x = CHOOSE f \in merged : TRUE)
    BY <1>3, NaryIs
  <2> QED BY <1>2, <2>7, <2>8, <2>9
<1>4. zero \in fs => x \in {TrueF, FalseF}
  BY NaryIs
<1> QED BY <1>2, <1>3, <1>4

\* The same, of conjunctions and disjunctions by their names.
LEMMA WorkOfAnd ==
  ASSUME NEW fs, IsFiniteSet(fs), \A f \in fs : IsForm(f)
  PROVE  WorkOf(AndF(fs)) <= 1 + Work(fs) /\ WorkOf(OrF(fs)) <= 1 + Work(fs)
  BY WorkOfNary DEF AndF, OrF

\* A quantifier is a step for itself and one for each variable.
LEMMA WorkOfForall ==
  ASSUME NEW f, IsForm(f), NEW ys, IsFiniteSet(ys)
  PROVE  WorkOf(ForallF(ys, f)) <= 1 + Cardinality(ys) + WorkOf(f)
<1>1. /\ ForallF(ys, f).k = "forall" /\ ForallF(ys, f).f = f
      /\ ForallF(ys, f).y = ys \cap FreeVars(f)
  BY DEF ForallF
<1>2. WorkOf(ForallF(ys, f)) = 1 + Cardinality(ys \cap FreeVars(f)) + WorkOf(f)
  BY <1>1, ForallWF, WorkStepIs, Zenon DEF IsForm
<1>3. Cardinality(ys \cap FreeVars(f)) <= Cardinality(ys) /\ Cardinality(ys) \in Nat /\ Cardinality(ys \cap FreeVars(f)) \in Nat
  BY FS_Subset, FS_CardinalityType
<1>4. WorkOf(f) \in Nat
  BY WorkType DEF IsForm
<1> QED BY <1>2, <1>3, <1>4

-----------------------------------------------------------------------------
(* Substitution *)

\* Children that are no more work make a tree that is no more work.
LEMMA WorkOfRebuild ==
  ASSUME NEW x, WF(x), NEW sub,
         \A z \in Children(x) : WF(sub[z]) /\ (IsTerm(z) => IsTerm(sub[z])) /\ (IsFormula(z) => IsFormula(sub[z])),
         \A z \in Children(x) : WorkOf(sub[z]) <= WorkOf(z)
  PROVE  WorkOf(Rebuild(x, sub)) <= WorkOf(x)
<1> DEFINE r == Rebuild(x, sub)
<1> SUFFICES WorkOf(r) <= WorkOf(x)
  OBVIOUS
<1>0. IsNode(x) /\ (\A z \in Children(x) : WF(z)) /\ WF(r)
  BY WFChildren, RebuildWF
<1>1. WorkOf(r) \in Nat /\ WorkOf(x) \in Nat /\ WorkOf(x) >= 1
  BY <1>0, WorkType
<1>2. CASE x.k \in {"and", "or"}
  <2> DEFINE H == [g \in x.s |-> {sub[g]}]
             fs == UNION {H[g] : g \in x.s}
  <2>1. IsFiniteSet(x.s) /\ Children(x) = x.s /\ (\A g \in x.s : IsForm(g))
    BY <1>0, <1>2 DEF IsNode, AreOperands, Children, IsForm
  <2>2. \A g \in x.s : IsForm(sub[g])
    BY <2>1 DEF IsForm
  <2>3. ASSUME NEW g \in x.s PROVE IsFiniteSet(H[g]) /\ Work(H[g]) <= WorkOf(g) /\ H[g] = {sub[g]}
    <3>1. H[g] = {sub[g]}
      OBVIOUS
    <3>2. IsFiniteSet({sub[g]}) /\ \A y \in {sub[g]} : WF(y)
      BY <2>2, <2>3, FS_Singleton DEF IsForm
    <3>3. Work({sub[g]}) = WorkOf(sub[g])
      BY <3>2, WorkOfOne
    <3>4. Work({sub[g]}) <= WorkOf(g)
      BY <2>1, <2>3, <3>3
    <3> HIDE DEF H
    <3> QED BY <3>1, <3>2, <3>4, Zenon
  <2>4. IsFiniteSet(fs) /\ Work(fs) <= Work(x.s)
    <3>1. \A g \in x.s : WorkOf(g) \in Nat /\ \A y \in H[g] : WorkOf(y) \in Nat
      <4> HIDE DEF H
      <4> QED BY <2>1, <2>2, <2>3, WorkType DEF IsForm
    <3> HIDE DEF H
    <3> QED BY <2>1, <2>3, <3>1, WorkOfReplaced
  <2>5. fs = {sub[g] : g \in x.s}
    OBVIOUS
  <2>6. \A f \in fs : IsForm(f)
    <3> HIDE DEF fs
    <3> QED BY <2>2, <2>5
  <2> HIDE DEF fs
  <2>7. r \in {AndF(fs), OrF(fs)}
    BY <1>2, <2>5, Zenon DEF Rebuild
  <2>8. WorkOf(r) <= 1 + Work(fs)
    BY <2>4, <2>6, <2>7, WorkOfAnd
  <2>9. Work(fs) \in Nat /\ Work(x.s) \in Nat
    BY <2>1, <2>4, <2>6, WorkType, WorkOfSet DEF IsForm
  <2>10. WorkOf(x) = 1 + Work(x.s)
    BY <1>2, WorkStepIs
  <2> HIDE DEF r
  <2> QED BY <1>1, <2>4, <2>8, <2>9, <2>10
<1>3. CASE x.k = "not"
  <2>1. r = NotF(sub[x.f]) /\ IsForm(sub[x.f]) /\ WorkOf(sub[x.f]) <= WorkOf(x.f) /\ WF(x.f)
    BY <1>0, <1>3 DEF Rebuild, IsNode, Children, IsForm
  <2>2. WorkOf(r) <= 1 + WorkOf(sub[x.f])
    BY <2>1, WorkOfNot
  <2>3. WorkOf(x) = 1 + WorkOf(x.f)
    BY <1>3, WorkStepIs
  <2>4. WorkOf(sub[x.f]) \in Nat /\ WorkOf(x.f) \in Nat
    BY <2>1, WorkType DEF IsForm
  <2> HIDE DEF r
  <2> QED BY <1>1, <2>1, <2>2, <2>3, <2>4
<1>4. CASE x.k = "forall"
  <2>1. r = ForallF(x.y, sub[x.f]) /\ IsForm(sub[x.f]) /\ WorkOf(sub[x.f]) <= WorkOf(x.f) /\ WF(x.f) /\ IsFiniteSet(x.y)
    BY <1>0, <1>4 DEF Rebuild, IsNode, Children, IsForm
  <2>2. WorkOf(r) <= 1 + Cardinality(x.y) + WorkOf(sub[x.f])
    BY <2>1, WorkOfForall
  <2>3. WorkOf(x) = 1 + Cardinality(x.y) + WorkOf(x.f)
    BY <1>4, WorkStepIs
  <2>4. WorkOf(sub[x.f]) \in Nat /\ WorkOf(x.f) \in Nat /\ Cardinality(x.y) \in Nat
    BY <2>1, WorkType, FS_CardinalityType DEF IsForm
  <2> HIDE DEF r
  <2> QED BY <1>1, <2>1, <2>2, <2>3, <2>4
<1>5. CASE x.k \notin {"and", "or", "not", "forall"}
  <2>1. r.k \notin {"and", "or", "not", "forall"}
    <3>1. CASE x.k = "rel"
      <4>1. r = Rel(x.op, sub[x.l], sub[x.r])
        BY <3>1 DEF Rebuild
      <4> QED BY <4>1 DEF Rel, TrueF, FalseF
    <3>2. CASE x.k = "op"
      <4>1. r = [x EXCEPT !.args = [i \in DOMAIN x.args |-> sub[x.args[i]]]]
        BY <3>2 DEF Rebuild
      <4>2. r.k = "op"
        BY <3>2, <4>1
      <4> QED BY <4>2
    <3>3. CASE x.k = "ite"
      BY <3>3 DEF Rebuild, IfThenElse
    <3>4. CASE x.k \notin {"rel", "op", "ite"}
      BY <1>5, <3>4 DEF Rebuild
    <3> QED BY <3>1, <3>2, <3>3, <3>4
  <2> HIDE DEF r
  <2>2. WorkOf(r) = 1
    BY <1>0, <2>1, WorkStepIs
  <2> QED BY <1>1, <2>2
<1> QED BY <1>2, <1>3, <1>4, <1>5

\* An expression in place of a variable leaves a tree of the same sort, which is
\* no more work when the expression is a constant.
LEMMA SubstBuilds ==
  ASSUME NEW x, WF(x), NEW v, NEW e, IsExpr(e)
  PROVE  /\ WF(Subst(x, v, e))
         /\ IsTerm(x) => IsTerm(Subst(x, v, e))
         /\ IsFormula(x) => IsFormula(Subst(x, v, e))
         /\ WorkOf(Subst(x, v, e)) <= WorkOf(x)
<1> DEFINE p == [v |-> v, e |-> e]
           T == {y \in Parts(x) : /\ WF(Subst(y, v, e))
                                  /\ IsTerm(y) => IsTerm(Subst(y, v, e))
                                  /\ IsFormula(y) => IsFormula(Subst(y, v, e))
                                  /\ WorkOf(Subst(y, v, e)) <= WorkOf(y)}
<1>1. ASSUME NEW y \in Parts(x), WF(y), Children(y) \subseteq T PROVE y \in T
  <2> DEFINE sub == [z \in Children(y) |-> Substitution!Visit(p, z)]
             s == Subst(y, v, e)
  <2> SUFFICES /\ WF(s) /\ (IsTerm(y) => IsTerm(s)) /\ (IsFormula(y) => IsFormula(s))
               /\ WorkOf(s) <= WorkOf(y)
    OBVIOUS
  <2>1. s = SubstStep(p, y, sub)
    <3>1. IsTree(y)
      BY <1>1 DEF WF
    <3>2. Substitution!Visit(p, y) = SubstStep(p, y, sub)
      BY <3>1, SubstNode
    <3> QED BY <3>2 DEF Subst
  <2>2. \A z \in Children(y) : sub[z] = Subst(z, v, e)
    BY DEF Subst
  <2> HIDE DEF sub, s
  <2>3. /\ \A z \in Children(y) : WF(sub[z]) /\ (IsTerm(z) => IsTerm(sub[z])) /\ (IsFormula(z) => IsFormula(sub[z]))
        /\ \A z \in Children(y) : WorkOf(sub[z]) <= WorkOf(z)
    BY <1>1, <2>2
  <2>4. WorkOf(y) \in Nat /\ WorkOf(y) >= 1
    BY <1>1, WorkType
  <2>5. CASE y.k = "var" /\ y.v = v
    <3>1. s = e
      BY <2>1, <2>5 DEF SubstStep
    <3>2. e.k \notin {"and", "or", "not", "forall"} /\ WF(e) /\ IsTerm(e)
      BY DEF IsExpr, IsTerm
    <3>3. WorkOf(e) = 1
      BY <3>2, WorkStepIs
    <3>4. IsTerm(y) /\ ~ IsFormula(y)
      BY <2>5 DEF IsTerm, IsFormula
    <3> QED BY <2>4, <3>1, <3>2, <3>3, <3>4
  <2>6. CASE y.k = "forall" /\ v \in y.y
    <3>1. s = y
      BY <2>1, <2>6 DEF SubstStep
    <3> QED BY <1>1, <2>4, <3>1
  <2>7. CASE ~ (y.k = "var" /\ y.v = v) /\ ~ (y.k = "forall" /\ v \in y.y)
    <3>1. s = Rebuild(y, sub)
      BY <2>1, <2>7 DEF SubstStep
    <3> QED BY <1>1, <2>3, <3>1, RebuildWF, WorkOfRebuild
  <2> QED BY <2>5, <2>6, <2>7
<1>2. x \in T
  <2> HIDE DEF T
  <2> QED BY <1>1, ShapeInduction
<1> QED BY <1>2

-----------------------------------------------------------------------------
(* Negation normal form, and the bounds of universal variables *)

\* The negation normal form of a formula, and that of its negation, are
\* built.
LEMMA NnfWF ==
  ASSUME NEW x, WF(x), NEW p, IsFormula(x)
  PROVE  \A positive \in BOOLEAN : IsForm(Nnfizer!Visit(p, x)[positive])
<1> DEFINE N(y) == Nnfizer!Visit(p, y)
           T == {y \in Parts(x) : IsFormula(y) => \A positive \in BOOLEAN : IsForm(N(y)[positive])}
<1>1. ASSUME NEW y \in Parts(x), WF(y), Children(y) \subseteq T PROVE y \in T
  <2> SUFFICES ASSUME IsFormula(y), NEW positive \in BOOLEAN PROVE IsForm(N(y)[positive])
    OBVIOUS
  <2> DEFINE sub == [z \in Children(y) |-> N(z)]
             operands == {sub[g][positive] : g \in Children(y)}
             Else == IF positive THEN y ELSE NotF(y)
  <2>1. N(y) = NnfStep(p, y, sub)
    BY <1>1, NnfNode DEF WF
  <2>2. \A z \in Children(y) : sub[z] = N(z)
    OBVIOUS
  <2>3. IsNode(y) /\ IsForm(y) /\ \A z \in Children(y) : WF(z)
    BY <1>1, WFChildren DEF IsForm
  <2> HIDE DEF N, sub
  <2>4. N(y)[positive] =
          CASE y.k = "not" -> sub[y.f][~positive]
            [] y.k \in {"and", "or"} -> IF positive <=> y.k = "and" THEN AndF(operands) ELSE OrF(operands)
            [] y.k = "rel" /\ ~positive /\ p -> Rel(NegateRelop(y.op), y.l, y.r)
            [] OTHER -> Else
    BY <2>1 DEF NnfStep
  <2>5. CASE y.k = "not"
    <3>1. y.f \in Children(y) /\ IsFormula(y.f)
      BY <2>3, <2>5 DEF Children, IsNode
    <3>2. IsForm(sub[y.f][~positive])
      BY <1>1, <2>2, <3>1
    <3>3. N(y)[positive] = sub[y.f][~positive]
      BY <2>4, <2>5
    <3> QED BY <3>2, <3>3
  <2>6. CASE y.k \in {"and", "or"}
    <3>1. IsFiniteSet(Children(y)) /\ \A g \in Children(y) : IsFormula(g)
      BY <2>3, <2>6 DEF Children, IsNode, AreOperands
    <3>2. \A f \in operands : IsForm(f)
      BY <1>1, <2>2, <3>1
    <3>3. IsFiniteSet(operands)
      <4> DEFINE h == [g \in Children(y) |-> sub[g][positive]]
      <4>1. operands = {h[g] : g \in Children(y)}
        OBVIOUS
      <4>2. IsFiniteSet({h[g] : g \in Children(y)})
        <5> HIDE DEF h
        <5> QED BY <3>1, FiniteImage
      <4> HIDE DEF h, operands
      <4> QED BY <4>1, <4>2, Zenon
    <3> HIDE DEF operands
    <3>4. N(y)[positive] \in {AndF(operands), OrF(operands)}
      BY <2>4, <2>6
    <3>5. IsForm(AndF(operands)) /\ IsForm(OrF(operands))
      BY <3>2, <3>3, AndWF
    <3> QED BY <3>4, <3>5
  <2>7. CASE y.k \notin {"not", "and", "or"}
    <3>1. IsForm(Else)
      BY <2>3, NotWF
    <3>2. CASE y.k = "rel" /\ ~positive /\ p
      <4>1. IsExpr(y.l) /\ IsExpr(y.r) /\ y.op \in Relops
        BY <2>3, <3>2 DEF Children, IsNode, IsExpr
      <4>2. NegateRelop(y.op) \in Relops
        BY <4>1 DEF Relops, NegateRelop
      <4>3. IsForm(Rel(NegateRelop(y.op), y.l, y.r))
        BY <4>1, <4>2, RelWF
      <4> QED BY <2>4, <2>7, <3>2, <4>3
    <3>3. CASE ~ (y.k = "rel" /\ ~positive /\ p)
      BY <2>4, <2>7, <3>1, <3>3
    <3> QED BY <3>2, <3>3
  <2> QED BY <2>5, <2>6, <2>7
<1>2. x \in T
  <2> HIDE DEF T
  <2> QED BY <1>1, ShapeInduction
<1> QED BY <1>2

\* The bounds of a box.
Intervals == [lo : Int, hi : Int]

\* The intervals a filter may start from.
LEMMA ConstantsAre ==
  Infinity \in Int /\ Whole \in Intervals /\ Nothing \in Intervals /\ Nothing.lo > Nothing.hi
  BY ReachAssumption DEF Infinity, Whole, Nothing, Intervals

\* What the intervals of c hold, those of b do.
IsWithin(b, c) == \A v \in DOMAIN b : \A n \in Int : c[v].lo <= n /\ n <= c[v].hi => b[v].lo <= n /\ n <= b[v].hi

\* The empty box lies in any other.
LEMMA EmptyBoxWithin ==
  ASSUME NEW b, NEW D, b \in [D -> Intervals]
  PROVE  EmptyBox(b) \in [D -> Intervals] /\ IsWithin(b, EmptyBox(b))
<1>1. EmptyBox(b) = [v \in D |-> Nothing] /\ DOMAIN b = D
  BY DEF EmptyBox
<1>2. Nothing.lo \in Int /\ Nothing.hi \in Int /\ Nothing.lo > Nothing.hi
  BY ConstantsAre DEF Intervals
<1>3. \A v \in D : EmptyBox(b)[v] = Nothing
  BY <1>1
<1>4. EmptyBox(b) \in [D -> Intervals]
  BY <1>1, ConstantsAre
<1>5. IsWithin(b, EmptyBox(b))
  BY <1>1, <1>2, <1>3 DEF IsWithin
<1> QED BY <1>4, <1>5

\* Narrowing one variable leaves a box inside the one before.
LEMMA NarrowType ==
  ASSUME NEW b, NEW D, b \in [D -> Intervals], NEW v, NEW l \in Int, NEW h \in Int
  PROVE  Narrow(b, v, l, h) \in [D -> Intervals] /\ IsWithin(b, Narrow(b, v, l, h))
<1> DEFINE c == [b EXCEPT ![v] = [lo |-> Larger(b[v].lo, l), hi |-> Smaller(b[v].hi, h)]]
<1>1. DOMAIN b = D /\ DOMAIN c = D /\ \A u \in D : b[u].lo \in Int /\ b[u].hi \in Int
  BY DEF Intervals
<1>2. EmptyBox(b) \in [D -> Intervals] /\ IsWithin(b, EmptyBox(b))
  BY EmptyBoxWithin
<1>3. Narrow(b, v, l, h) \in {EmptyBox(b), c}
  BY DEF Narrow
<1>4. \A u \in D : u # v => c[u] = b[u]
  OBVIOUS
<1>5. v \in D => c[v] = [lo |-> Larger(b[v].lo, l), hi |-> Smaller(b[v].hi, h)]
  OBVIOUS
<1>6. c = [u \in D |-> c[u]]
  OBVIOUS
<1> HIDE DEF c
<1>7. ASSUME v \in D PROVE /\ c[v] \in Intervals
                          /\ \A n \in Int : c[v].lo <= n /\ n <= c[v].hi => b[v].lo <= n /\ n <= b[v].hi
  BY <1>1, <1>5, <1>7 DEF Larger, Smaller, Intervals
<1>8. c \in [D -> Intervals]
  BY <1>4, <1>6, <1>7
<1>9. IsWithin(b, c)
  BY <1>1, <1>4, <1>7 DEF IsWithin
<1> QED BY <1>2, <1>3, <1>8, <1>9

\* What the filter makes of a box is a box of the same variables, inside it.
LEMMA FilterType ==
  ASSUME NEW f, IsForm(f), NEW b, NEW D, b \in [D -> Intervals]
  PROVE  LET r == FilterAssertion(f, b)
         IN  r.box \in [D -> Intervals] /\ IsWithin(b, r.box) /\ r.filtered \in BOOLEAN
<1> DEFINE Good(r) == r.box \in [D -> Intervals] /\ IsWithin(b, r.box) /\ r.filtered \in BOOLEAN
<1>1. ASSUME NEW v, NEW l \in Int, NEW h \in Int
      PROVE  /\ Good(UpdateBoundsViaEquality(v, l, h, b))
             /\ Good(UpdateLowerBound(v, l, b)) /\ Good(UpdateUpperBound(v, h, b))
             /\ Good(UpdateStrictLowerBound(v, l, b)) /\ Good(UpdateStrictUpperBound(v, h, b))
  <2>1. \A m, n \in Int : Narrow(b, v, m, n) \in [D -> Intervals] /\ IsWithin(b, Narrow(b, v, m, n))
    BY NarrowType
  <2>2. \A c : c \in [D -> Intervals] /\ IsWithin(b, c) => Good(Filtered(c)) /\ Good(KeptToo(Filtered(c)))
    BY DEF Filtered, KeptToo
  <2>3. Good(UpdateBoundsViaEquality(v, l, h, b))
    BY <2>1, <2>2 DEF UpdateBoundsViaEquality
  <2>4. \A m \in Int : Good(UpdateLowerBound(v, m, b)) /\ Good(KeptToo(UpdateLowerBound(v, m, b)))
    <3> HIDE DEF Good
    <3> QED BY <2>1, <2>2, ConstantsAre DEF UpdateLowerBound
  <2>5. \A m \in Int : Good(UpdateUpperBound(v, m, b)) /\ Good(KeptToo(UpdateUpperBound(v, m, b)))
    <3> HIDE DEF Good
    <3>1. -Infinity \in Int
      BY ConstantsAre
    <3> QED BY <2>1, <2>2, <3>1 DEF UpdateUpperBound
  <2>6. NextUp(l) \in Int /\ NextDown(h) \in Int
    BY DEF NextUp, NextDown
  <2> HIDE DEF Good
  <2> QED BY <2>3, <2>4, <2>5, <2>6 DEF UpdateStrictLowerBound, UpdateStrictUpperBound
<1>2. Good(Kept(b))
  BY DEF Kept, IsWithin
<1> HIDE DEF Good
<1>3. ASSUME NEW g, IsForm(g), g.k = "rel" PROVE /\ IsConst(g.l) => {g.l.lo, g.l.hi} \subseteq Int
                                                 /\ IsConst(g.r) => {g.r.lo, g.r.hi} \subseteq Int
  <2>1. g.l \in Children(g) /\ g.r \in Children(g)
    BY <1>3 DEF Children
  <2>2. IsNode(g.l) /\ IsNode(g.r)
    BY <1>3, <2>1, WFChildren DEF IsForm
  <2> QED BY <2>2 DEF IsNode, IsConst
<1>4. ASSUME NEW g, IsForm(g), NEW positive \in BOOLEAN PROVE Good(FilterRelation(g, b, positive))
  <2>1. CASE g.k # "rel"
    BY <1>2, <2>1 DEF FilterRelation
  <2>2. CASE g.k = "rel"
    <3> DEFINE A(r) == Good(r)
    <3>1. /\ IsConst(g.l) => g.l.lo \in Int /\ g.l.hi \in Int
          /\ IsConst(g.r) => g.r.lo \in Int /\ g.r.hi \in Int
      BY <1>3, <1>4, <2>2
    <3>2. \A q \in BOOLEAN : Good(FilterEqual(g, b, q))
      BY <1>1, <1>2, <3>1 DEF FilterEqual
    <3>3. \A q \in BOOLEAN : Good(FilterGreater(g, b, q))
      BY <1>1, <1>2, <3>1 DEF FilterGreater
    <3>4. \A q \in BOOLEAN : Good(FilterGreaterOrEqual(g, b, q))
      BY <1>1, <1>2, <3>1 DEF FilterGreaterOrEqual
    <3> QED BY <1>2, <3>2, <3>3, <3>4 DEF FilterRelation
  <2> QED BY <2>1, <2>2
<1>5. CASE f.k = "not"
  <2>1. IsForm(f.f)
    BY <1>5, WFChildren DEF IsForm, IsNode, Children
  <2>2. FilterAssertion(f, b) = FilterRelation(f.f, b, FALSE)
    BY <1>5 DEF FilterAssertion
  <2> QED BY <1>4, <2>1, <2>2 DEF Good
<1>6. CASE f.k # "not"
  <2>1. FilterAssertion(f, b) = FilterRelation(f, b, TRUE)
    BY <1>6 DEF FilterAssertion
  <2> QED BY <1>4, <2>1 DEF Good
<1> QED BY <1>5, <1>6

\* The conjuncts of a formula are formulas.
LEMMA ClausesOf ==
  ASSUME NEW f, IsForm(f)
  PROVE  IsFiniteSet(GetClauses(f)) /\ \A c \in GetClauses(f) : IsForm(c)
<1>1. CASE f.k = "and"
  <2>1. IsNode(f) /\ \A c \in f.s : WF(c)
    BY <1>1, WFChildren DEF IsForm, Children
  <2> QED BY <1>1, <2>1 DEF GetClauses, IsNode, AreOperands, IsForm
<1>2. CASE f.k # "and"
  BY <1>2, FS_Singleton DEF GetClauses
<1> QED BY <1>1, <1>2

\* The box of the universal variables bounds each of them.
LEMMA UniversalBoxType ==
  ASSUME NEW f, IsForm(f), f.k = "forall"
  PROVE  UniversalBox(f) \in [f.y -> Intervals]
<1> DEFINE cs == {c \in GetClauses(Nnf(NotF(f.f), TRUE)) : FreeVars(c) \subseteq f.y}
           start == [v \in f.y |-> Whole]
           T == {D \in SUBSET cs : Absorb(D, start) \in [f.y -> Intervals]}
<1>1. IsForm(f.f)
  BY WFChildren DEF IsForm, IsNode, Children
<1>2. IsForm(NotF(f.f))
  BY <1>1, NotWF
<1>3. IsForm(Nnf(NotF(f.f), TRUE))
  BY <1>2, NnfWF DEF Nnf, IsForm
<1>4. IsFiniteSet(cs) /\ \A c \in cs : IsForm(c)
  BY <1>3, ClausesOf, FS_Subset
<1>5. start \in [f.y -> Intervals]
  BY ConstantsAre
<1> HIDE DEF cs, start
<1>6. ASSUME NEW D \in SUBSET cs, \A E \in SUBSET D : E # D => E \in T PROVE D \in T
  <2>1. IsFiniteSet(D)
    BY <1>4, FS_Subset
  <2>2. Absorption!SubsetsAreInductive(D)
    BY <2>1, FiniteSetInduction DEF Absorption!SubsetsAreInductive
  <2>3. /\ Absorption!Fold(0, start, {}) = start
        /\ D # {} => Absorption!Fold(0, start, D) =
             LET x == CHOOSE y \in D : TRUE IN AbsorbNext(0, x, Absorption!Fold(0, start, D \ {x}))
    BY <2>2, Absorption!FoldEquation
  <2>4. CASE D = {}
    BY <1>5, <2>3, <2>4 DEF Absorb
  <2>5. CASE D # {}
    <3>1. PICK x \in D : Absorb(D, start) = FilterAssertion(x, Absorb(D \ {x}, start)).box
      BY <2>3, <2>5 DEF Absorb, AbsorbNext
    <3>2. D \ {x} \in SUBSET D /\ D \ {x} # D
      BY <3>1
    <3>3. Absorb(D \ {x}, start) \in [f.y -> Intervals]
      <4>1. D \ {x} \in T
        <5> HIDE DEF T
        <5> QED BY <1>6, <3>2
      <4> QED BY <4>1
    <3>4. IsForm(x)
      BY <1>4
    <3>5. Absorb(D, start) \in [f.y -> Intervals]
      BY <3>1, <3>3, <3>4, FilterType
    <3> QED BY <3>5
  <2> QED BY <2>4, <2>5
<1>7. cs \in T
  <2>1. SUBSET cs \subseteq T
    <3> HIDE DEF T
    <3> QED BY <1>4, <1>6, FiniteSetInduction
  <2> QED BY <2>1
<1> QED BY <1>7 DEF UniversalBox, cs, start

\* The formula that is left when universal variables have the only values they
\* may have is no more work.
LEMMA SubstAllBuilds ==
  ASSUME NEW f, IsForm(f), NEW vs, IsFiniteSet(vs), NEW ubox, \A v \in vs : ubox[v] \in Intervals
  PROVE  IsForm(SubstAll(f, vs, ubox)) /\ WorkOf(SubstAll(f, vs, ubox)) <= WorkOf(f)
<1> DEFINE T == {D \in SUBSET vs : IsForm(SubstAll(f, D, ubox)) /\ WorkOf(SubstAll(f, D, ubox)) <= WorkOf(f)}
<1>1. WorkOf(f) \in Nat
  BY WorkType DEF IsForm
<1>2. ASSUME NEW D \in SUBSET vs, \A E \in SUBSET D : E # D => E \in T PROVE D \in T
  <2>1. IsFiniteSet(D)
    BY FS_Subset
  <2>2. PointSubstitution!SubsetsAreInductive(D)
    BY <2>1, FiniteSetInduction DEF PointSubstitution!SubsetsAreInductive
  <2>3. /\ PointSubstitution!Fold(ubox, f, {}) = f
        /\ D # {} => PointSubstitution!Fold(ubox, f, D) =
             LET x == CHOOSE y \in D : TRUE IN SubstNext(ubox, x, PointSubstitution!Fold(ubox, f, D \ {x}))
    BY <2>2, PointSubstitution!FoldEquation
  <2>4. CASE D = {}
    <3>1. SubstAll(f, D, ubox) = f
      BY <2>3, <2>4 DEF SubstAll
    <3>2. IsForm(SubstAll(f, D, ubox)) /\ WorkOf(SubstAll(f, D, ubox)) <= WorkOf(f)
      BY <1>1, <3>1
    <3> QED BY <3>2
  <2>5. CASE D # {}
    <3>1. PICK x \in D : SubstAll(f, D, ubox) = Subst(SubstAll(f, D \ {x}, ubox), x, Constant(ubox[x].lo))
      BY <2>3, <2>5 DEF SubstAll, SubstNext
    <3>2. D \ {x} \in SUBSET D /\ D \ {x} # D
      BY <3>1
    <3>3. IsForm(SubstAll(f, D \ {x}, ubox)) /\ WorkOf(SubstAll(f, D \ {x}, ubox)) <= WorkOf(f)
      <4>1. D \ {x} \in T
        <5> HIDE DEF T
        <5> QED BY <1>2, <3>2
      <4> QED BY <4>1
    <3>4. IsExpr(Constant(ubox[x].lo))
      BY LeafWF DEF Constant, Intervals
    <3> DEFINE g == SubstAll(f, D \ {x}, ubox)
               r == Subst(g, x, Constant(ubox[x].lo))
    <3>5. IsForm(r) /\ WorkOf(r) <= WorkOf(g)
      <4> HIDE DEF g
      <4> QED BY <3>3, <3>4, SubstBuilds DEF IsForm, g
    <3>6. WorkOf(r) \in Nat /\ WorkOf(g) \in Nat
      <4> HIDE DEF g, r
      <4> QED BY <3>3, <3>5, WorkType DEF IsForm, g
    <3>7. IsForm(r) /\ WorkOf(r) <= WorkOf(f)
      <4>1. WorkOf(g) <= WorkOf(f)
        BY <3>3
      <4> HIDE DEF g, r
      <4> QED BY <1>1, <3>5, <3>6, <4>1
    <3>8. SubstAll(f, D, ubox) = r
      BY <3>1
    <3> QED BY <3>7, <3>8
  <2> QED BY <2>4, <2>5
<1>3. vs \in T
  <2>1. SUBSET vs \subseteq T
    <3> HIDE DEF T
    <3> QED BY <1>2, FiniteSetInduction
  <2> QED BY <2>1
<1> QED BY <1>3

\* EliminatePointUniversals returns a formula that is less work than the one
\* it was given, unless it is that formula.
LEMMA EliminateBuilds ==
  ASSUME NEW f, IsForm(f), f.k = "forall", EliminatePointUniversals(f) # f
  PROVE  IsForm(EliminatePointUniversals(f)) /\ WorkOf(EliminatePointUniversals(f)) < WorkOf(f)
<1> DEFINE pinned == Pinned(f)
           ubox == UniversalBox(f)
           result == SubstAll(f.f, pinned, ubox)
           e == EliminatePointUniversals(f)
<1> SUFFICES IsForm(e) /\ WorkOf(e) < WorkOf(f)
  OBVIOUS
<1>1. IsForm(f.f) /\ IsFiniteSet(f.y)
  BY WFChildren DEF IsForm, IsNode, Children
<1>2. ubox \in [f.y -> Intervals]
  BY UniversalBoxType
<1>3. pinned \in SUBSET f.y
  BY DEF Pinned
<1>4. e = IF pinned = {} THEN f ELSE IF pinned = f.y THEN result ELSE ForallF(f.y \ pinned, result)
  BY Zenon DEF EliminatePointUniversals
<1> HIDE DEF ubox, pinned, e
<1>5. pinned # {}
  BY <1>4 DEF e
<1>6. IsFiniteSet(pinned) /\ \A v \in pinned : ubox[v] \in Intervals
  BY <1>1, <1>2, <1>3, FS_Subset
<1>7. IsForm(result) /\ WorkOf(result) <= WorkOf(f.f)
  BY <1>1, <1>6, SubstAllBuilds
<1> HIDE DEF result
<1>8. WorkOf(f) = 1 + Cardinality(f.y) + WorkOf(f.f)
  BY WorkStepIs DEF IsForm
<1>9. WorkOf(f.f) \in Nat /\ Cardinality(f.y) \in Nat /\ WorkOf(result) \in Nat
  BY <1>1, <1>7, WorkType, FS_CardinalityType DEF IsForm
<1>10. CASE pinned = f.y
  <2>1. e = result
    BY <1>4, <1>5, <1>10, Zenon
  <2> QED BY <1>7, <1>8, <1>9, <2>1
<1>11. CASE pinned # f.y
  <2> DEFINE rest == f.y \ pinned
  <2>1. e = ForallF(rest, result)
    BY <1>4, <1>5, <1>11, Zenon
  <2>2. IsFiniteSet(rest) /\ Cardinality(rest) < Cardinality(f.y) /\ Cardinality(rest) \in Nat
    <3>1. rest \in SUBSET f.y /\ rest # f.y
      BY <1>3, <1>5
    <3> HIDE DEF rest
    <3> QED BY <1>1, <3>1, FS_Subset, FS_CardinalityType
  <2> HIDE DEF rest
  <2>3. IsForm(ForallF(rest, result)) /\ WorkOf(ForallF(rest, result)) <= 1 + Cardinality(rest) + WorkOf(result)
    BY <1>7, <2>2, ForallWF, WorkOfForall
  <2>4. WorkOf(ForallF(rest, result)) \in Nat
    BY <2>3, WorkType DEF IsForm
  <2> QED BY <1>7, <1>8, <1>9, <2>1, <2>2, <2>3, <2>4
<1> QED BY <1>10, <1>11

-----------------------------------------------------------------------------
(* The functions that take each argument to a member of its set *)

\* The functions on D that choose from each set of sets.
ChoicesFrom(sets, D) == {f \in [D -> UNION {sets[v] : v \in D}] : \A v \in D : f[v] \in sets[v]}

\* There is one function on no variables.
LEMMA EmptyFunction ==
  ASSUME NEW S, NEW f, f \in [{} -> S]
  PROVE  f = <<>>
  OBVIOUS

\* Product gives all the choices, whatever the order in which the sets are
\* gone through.
LEMMA ProductIs ==
  ASSUME NEW sets, IsFiniteSet(DOMAIN sets)
  PROVE  Product(sets) = ChoicesFrom(sets, DOMAIN sets)
<1> DEFINE all == DOMAIN sets
           P(D) == Products!Fold(sets, {<<>>}, D)
           T == {D \in SUBSET all : P(D) = ChoicesFrom(sets, D)}
<1> HIDE DEF all
<1>0. IsFiniteSet(all)
  BY DEF all
<1>1. ASSUME NEW D \in SUBSET all, \A E \in SUBSET D : E # D => E \in T PROVE D \in T
  <2> SUFFICES P(D) = ChoicesFrom(sets, D)
    OBVIOUS
  <2>1. IsFiniteSet(D)
    BY <1>0, FS_Subset
  <2>2. Products!SubsetsAreInductive(D)
    BY <2>1, FiniteSetInduction DEF Products!SubsetsAreInductive
  <2>3. /\ P({}) = {<<>>}
        /\ D # {} => P(D) = LET x == CHOOSE y \in D : TRUE IN AddArgument(sets, x, P(D \ {x}))
    BY <2>2, Products!FoldEquation
  <2>4. CASE D = {}
    <3>1. <<>> \in [D -> UNION {sets[v] : v \in D}]
      BY <2>4
    <3>2. \A f \in [D -> UNION {sets[v] : v \in D}] : f = <<>>
      BY <2>4, EmptyFunction
    <3>3. ChoicesFrom(sets, D) = {<<>>}
      BY <2>4, <3>1, <3>2 DEF ChoicesFrom
    <3>4. P(D) = {<<>>}
      <4> HIDE DEF P
      <4> QED BY <2>3, <2>4
    <3> QED BY <3>3, <3>4, Zenon
  <2>5. CASE D # {}
    <3>1. PICK x \in D : P(D) = AddArgument(sets, x, P(D \ {x}))
      <4> HIDE DEF P
      <4> QED BY <2>3, <2>5
    <3> DEFINE E == D \ {x}
    <3>2. E \in SUBSET D /\ E # D
      BY <3>1
    <3>3. P(E) = ChoicesFrom(sets, E)
      <4>1. E \in T
        <5> HIDE DEF T, E
        <5> QED BY <1>1, <3>2
      <4> QED BY <4>1
    <3> HIDE DEF P
    <3>10. P(D) = AddArgument(sets, x, P(E))
      BY <3>1
    <3>4. P(D) = {Override(f, [u \in {x} |-> n]) : f \in ChoicesFrom(sets, E), n \in sets[x]}
      <4> HIDE DEF E
      <4>1. AddArgument(sets, x, P(E)) = AddArgument(sets, x, ChoicesFrom(sets, E))
        BY <3>3, Zenon
      <4>2. P(D) = AddArgument(sets, x, ChoicesFrom(sets, E))
        BY <3>10, <4>1, Zenon
      <4> QED BY <4>2 DEF AddArgument
    <3>5. ASSUME NEW f \in ChoicesFrom(sets, E), NEW n \in sets[x]
          PROVE  Override(f, [u \in {x} |-> n]) \in ChoicesFrom(sets, D)
      <4> DEFINE g == Override(f, [u \in {x} |-> n])
      <4>1. DOMAIN f = E /\ \A v \in E : f[v] \in sets[v]
        BY DEF ChoicesFrom
      <4>2. g = [v \in D |-> IF v \in {x} THEN n ELSE f[v]]
        <5>1. E \cup {x} = D
          OBVIOUS
        <5>2. g = [v \in E \cup {x} |-> IF v \in {x} THEN [u \in {x} |-> n][v] ELSE f[v]]
          BY <4>1 DEF Override
        <5> QED BY <5>1, <5>2
      <4> HIDE DEF g
      <4>3. \A v \in D : g[v] \in sets[v]
        BY <4>1, <4>2
      <4>4. g \in [D -> UNION {sets[v] : v \in D}]
        BY <4>2, <4>3
      <4> QED BY <4>3, <4>4 DEF ChoicesFrom, g
    <3>6. ASSUME NEW g \in ChoicesFrom(sets, D)
          PROVE  \E f \in ChoicesFrom(sets, E), n \in sets[x] : g = Override(f, [u \in {x} |-> n])
      <4> DEFINE f == [v \in E |-> g[v]]
      <4>1. g \in [D -> UNION {sets[v] : v \in D}] /\ \A v \in D : g[v] \in sets[v]
        BY DEF ChoicesFrom
      <4>2. f \in ChoicesFrom(sets, E)
        BY <4>1 DEF ChoicesFrom
      <4>3. Override(f, [u \in {x} |-> g[x]]) = [v \in D |-> g[v]]
        <5>1. E \cup {x} = D
          OBVIOUS
        <5>2. Override(f, [u \in {x} |-> g[x]]) = [v \in E \cup {x} |-> IF v \in {x} THEN [u \in {x} |-> g[x]][v] ELSE f[v]]
          BY DEF Override
        <5> QED BY <5>1, <5>2
      <4>4. g = [v \in D |-> g[v]]
        BY <4>1
      <4> HIDE DEF f
      <4>5. g = Override(f, [u \in {x} |-> g[x]])
        BY <4>3, <4>4, Zenon
      <4> QED BY <4>1, <4>2, <4>5
    <3>7. \A g : g \in P(D) <=> g \in ChoicesFrom(sets, D)
      <4> HIDE DEF E
      <4>1. \A g \in P(D) : g \in ChoicesFrom(sets, D)
        <5> SUFFICES ASSUME NEW g \in P(D) PROVE g \in ChoicesFrom(sets, D)
          OBVIOUS
        <5>1. PICK f \in ChoicesFrom(sets, E), n \in sets[x] : g = Override(f, [u \in {x} |-> n])
          BY <3>4
        <5>2. Override(f, [u \in {x} |-> n]) \in ChoicesFrom(sets, D)
          BY <3>5
        <5> QED BY <5>1, <5>2, Zenon
      <4>2. \A g \in ChoicesFrom(sets, D) : g \in P(D)
        BY <3>4, <3>6
      <4> QED BY <4>1, <4>2
    <3> HIDE DEF E
    <3> QED BY <3>7
  <2> QED BY <2>4, <2>5
<1>2. all \in T
  <2>1. SUBSET all \subseteq T
    <3> HIDE DEF T
    <3> QED BY <1>0, <1>1, FiniteSetInduction
  <2> QED BY <2>1
<1>3. P(all) = ChoicesFrom(sets, all)
  BY <1>2
<1> QED BY <1>3 DEF Product, all

\* An assignment of numbers to the variables vs.
LEMMA AssignmentsAre ==
  ASSUME NEW vs, IsFiniteSet(vs)
  PROVE  /\ Assignments(vs) = {a \in [vs -> Int] : \A v \in vs : a[v] \in ValuesOf(v)}
         /\ \A v : ValuesOf(v) \subseteq Int /\ 0 \in ValuesOf(v)
<1> DEFINE sets == [v \in vs |-> ValuesOf(v)]
<1>1. \A v : ValuesOf(v) \subseteq Int /\ 0 \in ValuesOf(v)
  BY ReachAssumption DEF ValuesOf
<1>2. Assignments(vs) = ChoicesFrom(sets, vs)
  <2>1. DOMAIN sets = vs
    OBVIOUS
  <2> HIDE DEF sets
  <2>2. Product(sets) = ChoicesFrom(sets, vs)
    BY <2>1, ProductIs
  <2> QED BY <2>2 DEF Assignments, sets
<1>3. \A v \in vs : sets[v] = ValuesOf(v)
  OBVIOUS
<1> HIDE DEF sets
<1>4. ASSUME NEW a PROVE a \in ChoicesFrom(sets, vs) <=> a \in [vs -> Int] /\ \A v \in vs : a[v] \in ValuesOf(v)
  <2>1. ASSUME a \in ChoicesFrom(sets, vs) PROVE a \in [vs -> Int] /\ \A v \in vs : a[v] \in ValuesOf(v)
    BY <1>1, <1>3, <2>1 DEF ChoicesFrom
  <2>2. ASSUME a \in [vs -> Int], \A v \in vs : a[v] \in ValuesOf(v) PROVE a \in ChoicesFrom(sets, vs)
    <3>1. \A v \in vs : a[v] \in sets[v]
      BY <1>3, <2>2
    <3>2. a \in [vs -> UNION {sets[v] : v \in vs}]
      BY <2>2, <3>1
    <3> QED BY <3>1, <3>2 DEF ChoicesFrom
  <2> QED BY <2>1, <2>2
<1> QED BY <1>1, <1>2, <1>4

-----------------------------------------------------------------------------
(* Free and bound variables *)

\* The free variables of each kind of node.
LEMMA FreeVarsAre ==
  ASSUME NEW x, IsTree(x)
  PROVE  /\ x.k \in {"var", "bvar"} => FreeVars(x) = {x.v}
         /\ x.k = "forall" => FreeVars(x) = FreeVars(x.f) \ x.y
         /\ x.k \notin {"var", "bvar", "forall"} => FreeVars(x) = UNION {FreeVars(z) : z \in Children(x)}
<1> DEFINE sub == [z \in Children(x) |-> FreeVars(z)]
<1>1. FreeVars(x) = FreeVarsStep(0, x, sub)
  BY FreeVarsNode
<1>2. UNION {sub[z] : z \in Children(x)} = UNION {FreeVars(z) : z \in Children(x)}
  OBVIOUS
<1>3. x.k = "forall" => UNION {FreeVars(z) : z \in Children(x)} = FreeVars(x.f)
  BY DEF Children
<1> HIDE DEF sub
<1>4. CASE x.k \in {"var", "bvar"}
  BY <1>1, <1>4 DEF FreeVarsStep
<1>5. CASE x.k = "forall"
  <2>1. FreeVars(x) = (UNION {sub[z] : z \in Children(x)}) \ x.y
    BY <1>1, <1>5 DEF FreeVarsStep
  <2> QED BY <1>2, <1>3, <1>5, <2>1
<1>6. CASE x.k \notin {"var", "bvar", "forall"}
  <2>1. FreeVars(x) = UNION {sub[z] : z \in Children(x)}
    BY <1>1, <1>6 DEF FreeVarsStep
  <2> QED BY <1>2, <1>6, <2>1
<1> QED BY <1>4, <1>5, <1>6

\* The bound variables of a node and of its children.
LEMMA BoundVarsAre ==
  ASSUME NEW x, IsTree(x)
  PROVE  /\ \A z \in Children(x) : BoundVars(z) \subseteq BoundVars(x)
         /\ x.k = "forall" => x.y \subseteq BoundVars(x)
  BY PartsOfTree DEF BoundVars

-----------------------------------------------------------------------------
(* What a tree says at a point depends on the values of its free variables *)

\* A point gives each of its variables a number.
IsPoint(env) == env \in [DOMAIN env -> Int]

\* The meaning of x as a function of the points on vs.
M(vs, x) == Meaning!Visit(vs, x)

\* The value of each kind of node.
MeaningAs(vs, x, env) ==
  /\ x.k = "var" => M(vs, x)[env] = env[x.v]
  /\ x.k = "const" => M(vs, x)[env] = (x.lo + x.hi) \div 2
  /\ x.k = "op" => M(vs, x)[env] = Operation(x.op, [i \in DOMAIN x.args |-> M(vs, x.args[i])[env]])
  /\ x.k = "ite" => M(vs, x)[env] = IF M(vs, x.c)[env] THEN M(vs, x.a)[env] ELSE M(vs, x.b)[env]
  /\ x.k = "bvar" => M(vs, x)[env] = (env[x.v] = 1)
  /\ x.k = "true" => M(vs, x)[env] = TRUE
  /\ x.k = "false" => M(vs, x)[env] = FALSE
  /\ x.k = "rel" => M(vs, x)[env] = Compare(x.op, M(vs, x.l)[env], M(vs, x.r)[env])
  /\ x.k = "not" => M(vs, x)[env] = ~ M(vs, x.f)[env]
  /\ x.k = "and" => M(vs, x)[env] = \A g \in x.s : M(vs, g)[env]
  /\ x.k = "or" => M(vs, x)[env] = \E g \in x.s : M(vs, g)[env]
  /\ x.k = "forall" => M(vs, x)[env] = \A a \in Assignments(x.y) : M(vs, x.f)[Override(env, a)]

\* The meaning of a tree is what its node makes of the meanings of the
\* children.
LEMMA MeaningIs ==
  ASSUME NEW x, IsTree(x), NEW vs, NEW env \in [vs -> Int]
  PROVE  MeaningAs(vs, x, env)
<1> USE DEF MeaningAs
<1> DEFINE sub == [z \in Children(x) |-> M(vs, z)]
<1>1. M(vs, x) = MeaningStep(vs, x, sub)
  BY MeaningNode DEF M
<1>2. \A z \in Children(x) : sub[z] = M(vs, z)
  OBVIOUS
<1> HIDE DEF sub
<1>3. CASE x.k = "op"
  <2>1. \A i \in DOMAIN x.args : x.args[i] \in Children(x)
    BY <1>3 DEF Children
  <2>2. [i \in DOMAIN x.args |-> sub[x.args[i]][env]] = [i \in DOMAIN x.args |-> M(vs, x.args[i])[env]]
    BY <1>2, <2>1
  <2>3. M(vs, x)[env] = Operation(x.op, [i \in DOMAIN x.args |-> sub[x.args[i]][env]])
    BY <1>1, <1>3 DEF MeaningStep
  <2> QED BY <1>3, <2>2, <2>3
<1>4. CASE x.k \in {"var", "const", "bvar", "true", "false"}
  BY <1>1, <1>4 DEF MeaningStep
<1>5. CASE x.k = "and"
  <2>1. M(vs, x)[env] = \A g \in x.s : sub[g][env]
    BY <1>1, <1>5 DEF MeaningStep
  <2>2. \A g \in x.s : sub[g] = M(vs, g)
    BY <1>2, <1>5 DEF Children
  <2>3. (\A g \in x.s : sub[g][env]) = (\A g \in x.s : M(vs, g)[env])
    BY <2>2
  <2> QED BY <1>5, <2>1, <2>3
<1>9. CASE x.k = "or"
  <2>1. M(vs, x)[env] = \E g \in x.s : sub[g][env]
    BY <1>1, <1>9 DEF MeaningStep
  <2>2. \A g \in x.s : sub[g] = M(vs, g)
    BY <1>2, <1>9 DEF Children
  <2>3. (\E g \in x.s : sub[g][env]) = (\E g \in x.s : M(vs, g)[env])
    BY <2>2
  <2> QED BY <1>9, <2>1, <2>3
<1>6. CASE x.k = "not"
  <2>1. M(vs, x)[env] = ~ sub[x.f][env]
    BY <1>1, <1>6 DEF MeaningStep
  <2>2. sub[x.f] = M(vs, x.f)
    BY <1>2, <1>6 DEF Children
  <2> QED BY <1>6, <2>1, <2>2
<1>10. CASE x.k = "forall"
  <2>1. M(vs, x)[env] = \A a \in Assignments(x.y) : sub[x.f][Override(env, a)]
    BY <1>1, <1>10 DEF MeaningStep
  <2>2. sub[x.f] = M(vs, x.f)
    BY <1>2, <1>10 DEF Children
  <2> QED BY <1>10, <2>1, <2>2
<1>7. CASE x.k = "rel"
  BY <1>1, <1>2, <1>7 DEF MeaningStep, Children
<1>8. CASE x.k = "ite"
  BY <1>1, <1>2, <1>8 DEF MeaningStep, Children
<1> QED BY <1>3, <1>4, <1>5, <1>6, <1>7, <1>8, <1>9, <1>10

\* The point where the variables of a have other values.
OverrideAs(env, a, vs, ys) ==
  /\ Override(env, a) \in [vs \cup ys -> Int]
  /\ \A v \in ys : Override(env, a)[v] = a[v]
  /\ \A v \in vs : v \notin ys => Override(env, a)[v] = env[v]

\* The point env with the values of a is one on the variables of both.
LEMMA OverrideIs ==
  ASSUME NEW env, NEW a, NEW vs, NEW ys, env \in [vs -> Int], a \in [ys -> Int]
  PROVE  OverrideAs(env, a, vs, ys)
<1>1. DOMAIN env = vs /\ DOMAIN a = ys
  OBVIOUS
<1>2. Override(env, a) = [v \in vs \cup ys |-> IF v \in ys THEN a[v] ELSE env[v]]
  BY <1>1 DEF Override
<1> HIDE DEF Override
<1> QED BY <1>2 DEF OverrideAs

\* Two points, on whatever variables, that agree on the free variables.
Agree(x, env, other) == \A v \in FreeVars(x) : env[v] = other[v]

\* Every variable of x, free or bound, has a place in the points on vs.
Covers(vs, x) == FreeVars(x) \cup BoundVars(x) \subseteq vs

\* Points with a place for the variables of a node have one for those of its
\* children.
LEMMA CoversChildren ==
  ASSUME NEW x, WF(x), NEW vs, Covers(vs, x)
  PROVE  \A z \in Children(x) : Covers(vs, z)
<1> SUFFICES ASSUME NEW z \in Children(x) PROVE Covers(vs, z)
  OBVIOUS
<1>1. IsTree(x) /\ BoundVars(z) \subseteq vs
  BY BoundVarsAre DEF WF, Covers
<1>2. CASE x.k = "forall"
  <2>1. z = x.f /\ FreeVars(x) = FreeVars(z) \ x.y /\ x.y \subseteq vs
    BY <1>1, <1>2, FreeVarsAre, BoundVarsAre DEF Children, Covers
  <2> QED BY <1>1, <2>1 DEF Covers
<1>3. CASE x.k # "forall"
  <2>1. x.k \notin {"var", "bvar"}
    BY DEF Children
  <2>2. FreeVars(z) \subseteq FreeVars(x)
    BY <1>1, <1>3, <2>1, FreeVarsAre
  <2> QED BY <1>1, <2>2 DEF Covers
<1> QED BY <1>2, <1>3

\* Points that agree on the free variables of a node agree on those of its
\* children, unless the node binds some.
LEMMA AgreeChildren ==
  ASSUME NEW x, WF(x), NEW env, NEW other, Agree(x, env, other), x.k # "forall"
  PROVE  \A z \in Children(x) : Agree(z, env, other)
<1>1. IsTree(x)
  BY DEF WF
<1>2. x.k \notin {"var", "bvar"} => \A z \in Children(x) : FreeVars(z) \subseteq FreeVars(x)
  BY <1>1, FreeVarsAre
<1>3. x.k \in {"var", "bvar"} => Children(x) = {}
  BY DEF Children
<1> QED BY <1>2, <1>3 DEF Agree

\* The meaning depends on the free variables only, and not on which other
\* variables the point has.
LEMMA Coincidence ==
  ASSUME NEW x, WF(x), NEW vs, NEW ws, Covers(vs, x), Covers(ws, x),
         NEW env \in [vs -> Int], NEW other \in [ws -> Int], Agree(x, env, other)
  PROVE  M(vs, x)[env] = M(ws, x)[other]
<1> DEFINE Same(y) == \A e \in [vs -> Int], o \in [ws -> Int] : Agree(y, e, o) => M(vs, y)[e] = M(ws, y)[o]
           T == {y \in Parts(x) : Covers(vs, y) /\ Covers(ws, y) => Same(y)}
<1>1. ASSUME NEW y \in Parts(x), WF(y), Children(y) \subseteq T PROVE y \in T
  <2> SUFFICES ASSUME Covers(vs, y), Covers(ws, y), NEW e \in [vs -> Int], NEW o \in [ws -> Int], Agree(y, e, o)
               PROVE  M(vs, y)[e] = M(ws, y)[o]
    OBVIOUS
  <2>1. \A z \in Children(y) : Same(z)
    BY <1>1, CoversChildren
  <2>2. y.k # "forall" => \A z \in Children(y) : M(vs, z)[e] = M(ws, z)[o]
    BY <1>1, <2>1, AgreeChildren
  <2>3. IsTree(y) /\ IsNode(y)
    BY <1>1, WFChildren
  <2> HIDE DEF Same, T
  <2>13. MeaningAs(vs, y, e) /\ MeaningAs(ws, y, o)
    BY <2>3, MeaningIs
  <2>4. CASE y.k \in {"var", "bvar"}
    <3>1. e[y.v] = o[y.v]
      BY <2>3, <2>4, FreeVarsAre DEF Agree
    <3> QED BY <2>13, <2>4, <3>1 DEF MeaningAs
  <2>5. CASE y.k \in {"const", "true", "false"}
    BY <2>13, <2>5 DEF MeaningAs
  <2>6. CASE y.k = "op"
    <3>1. \A i \in DOMAIN y.args : M(vs, y.args[i])[e] = M(ws, y.args[i])[o]
      BY <2>2, <2>6 DEF Children
    <3>2. [i \in DOMAIN y.args |-> M(vs, y.args[i])[e]] = [i \in DOMAIN y.args |-> M(ws, y.args[i])[o]]
      BY <3>1
    <3>3. M(vs, y)[e] = Operation(y.op, [i \in DOMAIN y.args |-> M(vs, y.args[i])[e]])
      BY <2>13, <2>6 DEF MeaningAs
    <3>4. M(ws, y)[o] = Operation(y.op, [i \in DOMAIN y.args |-> M(ws, y.args[i])[o]])
      BY <2>13, <2>6 DEF MeaningAs
    <3> QED BY <3>2, <3>3, <3>4
  <2>7. CASE y.k = "ite"
    <3>1. M(vs, y.c)[e] = M(ws, y.c)[o] /\ M(vs, y.a)[e] = M(ws, y.a)[o] /\ M(vs, y.b)[e] = M(ws, y.b)[o]
      BY <2>2, <2>7 DEF Children
    <3> QED BY <2>13, <2>7, <3>1 DEF MeaningAs
  <2>8. CASE y.k = "rel"
    <3>1. M(vs, y.l)[e] = M(ws, y.l)[o] /\ M(vs, y.r)[e] = M(ws, y.r)[o]
      BY <2>2, <2>8 DEF Children
    <3> QED BY <2>13, <2>8, <3>1 DEF MeaningAs
  <2>9. CASE y.k = "not"
    <3>1. M(vs, y.f)[e] = M(ws, y.f)[o]
      BY <2>2, <2>9 DEF Children
    <3> QED BY <2>13, <2>9, <3>1 DEF MeaningAs
  <2>10. CASE y.k = "and"
    <3>1. \A g \in y.s : M(vs, g)[e] = M(ws, g)[o]
      BY <2>2, <2>10 DEF Children
    <3>2. (\A g \in y.s : M(vs, g)[e]) = (\A g \in y.s : M(ws, g)[o])
      BY <3>1
    <3> QED BY <2>13, <2>10, <3>2 DEF MeaningAs
  <2>11. CASE y.k = "or"
    <3>1. \A g \in y.s : M(vs, g)[e] = M(ws, g)[o]
      BY <2>2, <2>11 DEF Children
    <3>2. (\E g \in y.s : M(vs, g)[e]) = (\E g \in y.s : M(ws, g)[o])
      BY <3>1
    <3> QED BY <2>13, <2>11, <3>2 DEF MeaningAs
  <2>12. CASE y.k = "forall"
    <3>1. IsFiniteSet(y.y) /\ FreeVars(y) = FreeVars(y.f) \ y.y /\ y.y \subseteq BoundVars(y)
      BY <2>3, <2>12, FreeVarsAre, BoundVarsAre DEF IsNode
    <3>2. vs \cup y.y = vs /\ ws \cup y.y = ws
      BY <3>1 DEF Covers
    <3>3. ASSUME NEW a \in Assignments(y.y)
          PROVE  M(vs, y.f)[Override(e, a)] = M(ws, y.f)[Override(o, a)]
      <4>1. a \in [y.y -> Int]
        BY <3>1, AssignmentsAre
      <4>0. OverrideAs(e, a, vs, y.y) /\ OverrideAs(o, a, ws, y.y)
        BY <4>1, OverrideIs
      <4>2. Override(e, a) \in [vs -> Int] /\ Override(o, a) \in [ws -> Int]
        BY <3>2, <4>0 DEF OverrideAs
      <4>3. Agree(y.f, Override(e, a), Override(o, a))
        <5> SUFFICES ASSUME NEW v \in FreeVars(y.f) PROVE Override(e, a)[v] = Override(o, a)[v]
          BY DEF Agree
        <5>1. CASE v \in y.y
          BY <4>0, <5>1 DEF OverrideAs
        <5>2. CASE v \notin y.y
          <6>1. v \in FreeVars(y) /\ v \in vs /\ v \in ws
            BY <3>1, <5>2 DEF Covers
          <6>2. e[v] = o[v]
            BY <6>1 DEF Agree
          <6> QED BY <4>0, <5>2, <6>1, <6>2 DEF OverrideAs
        <5> QED BY <5>1, <5>2
      <4>4. Same(y.f)
        BY <2>1, <2>12 DEF Children
      <4> QED BY <4>2, <4>3, <4>4 DEF Same
    <3>4. (\A a \in Assignments(y.y) : M(vs, y.f)[Override(e, a)]) = (\A a \in Assignments(y.y) : M(ws, y.f)[Override(o, a)])
      BY <3>3
    <3> QED BY <2>13, <2>12, <3>4 DEF MeaningAs
  <2> QED BY <2>3, <2>4, <2>5, <2>6, <2>7, <2>8, <2>9, <2>10, <2>11, <2>12 DEF IsNode, IsTerm, IsFormula
<1>2. x \in T
  <2> HIDE DEF T
  <2> QED BY <1>1, ShapeInduction
<1> QED BY <1>2

-----------------------------------------------------------------------------
(* What a tree says at a point that gives its free variables a value *)

\* The point env gives a number to each free variable of x.
Fits(env, x) == IsPoint(env) /\ FreeVars(x) \subseteq DOMAIN env

\* The value at a point is the meaning at any point with the places for bound
\* variables.
LEMMA AtIs ==
  ASSUME NEW x, WF(x), NEW env, Fits(env, x), NEW vs, Covers(vs, x), NEW e \in [vs -> Int], Agree(x, e, env)
  PROVE  M(vs, x)[e] = At(x, env)
<1> DEFINE bound == [v \in BoundVars(x) |-> 0]
           ws == DOMAIN env \cup DOMAIN bound
           o == Override(bound, env)
<1>1. env \in [DOMAIN env -> Int] /\ bound \in [BoundVars(x) -> Int] /\ DOMAIN bound = BoundVars(x)
  BY DEF Fits, IsPoint
<1>2. OverrideAs(bound, env, BoundVars(x), DOMAIN env)
  BY <1>1, OverrideIs
<1>3. At(x, env) = M(ws, x)[o]
  <2> HIDE DEF bound, ws
  <2> QED BY <1>1 DEF At, MeaningOver, M, bound, ws, o
<1>4. BoundVars(x) \cup DOMAIN env = ws
  BY <1>1
<1> HIDE DEF bound, ws, o
<1>5. o \in [ws -> Int] /\ \A v \in DOMAIN env : o[v] = env[v]
  BY <1>2, <1>4 DEF OverrideAs, o
<1>6. Covers(ws, x) /\ Agree(x, e, o)
  BY <1>4, <1>5 DEF Covers, Agree, Fits
<1> QED BY <1>3, <1>5, <1>6, Coincidence

\* The value at a point depends on the free variables only.
LEMMA AtSame ==
  ASSUME NEW x, WF(x), NEW env, NEW other, Fits(env, x), Fits(other, x), Agree(x, env, other)
  PROVE  At(x, env) = At(x, other)
<1> DEFINE bound == [v \in BoundVars(x) |-> 0]
           vs == DOMAIN env \cup BoundVars(x)
           e == Override(bound, env)
<1>1. env \in [DOMAIN env -> Int] /\ bound \in [BoundVars(x) -> Int]
  BY DEF Fits, IsPoint
<1>2. OverrideAs(bound, env, BoundVars(x), DOMAIN env)
  BY <1>1, OverrideIs
<1> HIDE DEF bound
<1>3. e \in [vs -> Int] /\ \A v \in DOMAIN env : e[v] = env[v]
  <2>1. BoundVars(x) \cup DOMAIN env = vs
    OBVIOUS
  <2> QED BY <1>2, <2>1 DEF OverrideAs
<1> HIDE DEF e
<1>4. Covers(vs, x)
  BY DEF Covers, Fits
<1>5. Agree(x, e, env) /\ Agree(x, e, other)
  BY <1>3 DEF Agree, Fits
<1> HIDE DEF vs
<1>6. M(vs, x)[e] = At(x, env) /\ M(vs, x)[e] = At(x, other)
  BY <1>3, <1>4, <1>5, AtIs
<1> QED BY <1>6

\* The value of each kind of node, at a point.
AtAs(x, env) ==
  /\ x.k = "var" => At(x, env) = env[x.v]
  /\ x.k = "const" => At(x, env) = (x.lo + x.hi) \div 2
  /\ x.k = "op" => At(x, env) = Operation(x.op, [i \in DOMAIN x.args |-> At(x.args[i], env)])
  /\ x.k = "ite" => At(x, env) = IF At(x.c, env) THEN At(x.a, env) ELSE At(x.b, env)
  /\ x.k = "bvar" => At(x, env) = (env[x.v] = 1)
  /\ x.k = "true" => At(x, env) = TRUE
  /\ x.k = "false" => At(x, env) = FALSE
  /\ x.k = "rel" => At(x, env) = Compare(x.op, At(x.l, env), At(x.r, env))
  /\ x.k = "not" => At(x, env) = ~ At(x.f, env)
  /\ x.k = "and" => At(x, env) = \A g \in x.s : At(g, env)
  /\ x.k = "or" => At(x, env) = \E g \in x.s : At(g, env)
  /\ x.k = "forall" => At(x, env) = \A a \in Assignments(x.y) : At(x.f, Override(env, a))

\* A point for a node is a point for its children, when it has the values of
\* bound variables.
LEMMA FitsChildren ==
  ASSUME NEW x, WF(x), NEW env, Fits(env, x)
  PROVE  /\ x.k # "forall" => \A z \in Children(x) : Fits(env, z)
         /\ x.k = "forall" => \A a \in Assignments(x.y) : Fits(Override(env, a), x.f) /\ a \in [x.y -> Int]
<1>1. IsTree(x) /\ IsNode(x)
  BY WFChildren
<1>2. CASE x.k \in {"var", "bvar"}
  BY <1>2 DEF Children
<1>3. CASE x.k = "forall"
  <2> SUFFICES ASSUME NEW a \in Assignments(x.y) PROVE Fits(Override(env, a), x.f) /\ a \in [x.y -> Int]
    BY <1>3
  <2>1. a \in [x.y -> Int]
    BY <1>1, <1>3, AssignmentsAre DEF IsNode
  <2>2. OverrideAs(env, a, DOMAIN env, x.y)
    BY <2>1, OverrideIs DEF Fits, IsPoint
  <2>3. FreeVars(x) = FreeVars(x.f) \ x.y
    BY <1>1, <1>3, FreeVarsAre
  <2>4. Override(env, a) \in [DOMAIN env \cup x.y -> Int]
    BY <2>2 DEF OverrideAs
  <2>5. DOMAIN Override(env, a) = DOMAIN env \cup x.y
    BY <2>4
  <2>6. FreeVars(x.f) \subseteq DOMAIN env \cup x.y
    BY <2>3 DEF Fits
  <2>7. Override(env, a) \in [DOMAIN Override(env, a) -> Int]
    BY <2>4
  <2> QED BY <2>1, <2>5, <2>6, <2>7 DEF Fits, IsPoint
<1>4. CASE x.k \notin {"var", "bvar", "forall"}
  BY <1>1, <1>4, FreeVarsAre DEF Fits
<1> QED BY <1>2, <1>3, <1>4

\* The value of a node is what the node makes of the values of its children.
LEMMA AtNode ==
  ASSUME NEW x, WF(x), NEW env, Fits(env, x)
  PROVE  AtAs(x, env)
<1> DEFINE bound == [v \in BoundVars(x) |-> 0]
           vs == DOMAIN env \cup BoundVars(x)
           e == Override(bound, env)
<1>1. env \in [DOMAIN env -> Int] /\ bound \in [BoundVars(x) -> Int]
  BY DEF Fits, IsPoint
<1>2. OverrideAs(bound, env, BoundVars(x), DOMAIN env)
  BY <1>1, OverrideIs
<1> HIDE DEF bound
<1>3. e \in [vs -> Int] /\ \A v \in DOMAIN env : e[v] = env[v]
  <2>1. BoundVars(x) \cup DOMAIN env = vs
    OBVIOUS
  <2> QED BY <1>2, <2>1 DEF OverrideAs
<1> HIDE DEF e
<1>4. Covers(vs, x)
  BY DEF Covers, Fits
<1>5. Agree(x, e, env)
  BY <1>3 DEF Agree, Fits
<1>6. BoundVars(x) \subseteq vs
  OBVIOUS
<1> HIDE DEF vs
<1>7. M(vs, x)[e] = At(x, env)
  BY <1>3, <1>4, <1>5, AtIs
<1>8. IsTree(x) /\ IsNode(x) /\ \A z \in Children(x) : WF(z)
  BY WFChildren
<1>9. MeaningAs(vs, x, e)
  BY <1>3, <1>8, MeaningIs
<1>10. ASSUME x.k # "forall" PROVE \A z \in Children(x) : M(vs, z)[e] = At(z, env)
  BY <1>3, <1>4, <1>5, <1>8, <1>10, AtIs, FitsChildren, AgreeChildren, CoversChildren
<1>11. CASE x.k \in {"var", "bvar"}
  <2>1. e[x.v] = env[x.v]
    BY <1>5, <1>8, <1>11, FreeVarsAre DEF Agree
  <2> QED BY <1>7, <1>9, <1>11, <2>1 DEF MeaningAs, AtAs
<1>12. CASE x.k \in {"const", "true", "false"}
  BY <1>7, <1>9, <1>12 DEF MeaningAs, AtAs
<1>13. CASE x.k = "op"
  <2>1. \A i \in DOMAIN x.args : M(vs, x.args[i])[e] = At(x.args[i], env)
    BY <1>10, <1>13 DEF Children
  <2>2. [i \in DOMAIN x.args |-> M(vs, x.args[i])[e]] = [i \in DOMAIN x.args |-> At(x.args[i], env)]
    BY <2>1
  <2>3. M(vs, x)[e] = Operation(x.op, [i \in DOMAIN x.args |-> M(vs, x.args[i])[e]])
    BY <1>9, <1>13 DEF MeaningAs
  <2> QED BY <1>7, <1>13, <2>2, <2>3 DEF AtAs
<1>14. CASE x.k = "ite"
  <2>1. M(vs, x.c)[e] = At(x.c, env) /\ M(vs, x.a)[e] = At(x.a, env) /\ M(vs, x.b)[e] = At(x.b, env)
    BY <1>10, <1>14 DEF Children
  <2> QED BY <1>7, <1>9, <1>14, <2>1 DEF MeaningAs, AtAs
<1>15. CASE x.k = "rel"
  <2>1. M(vs, x.l)[e] = At(x.l, env) /\ M(vs, x.r)[e] = At(x.r, env)
    BY <1>10, <1>15 DEF Children
  <2> QED BY <1>7, <1>9, <1>15, <2>1 DEF MeaningAs, AtAs
<1>16. CASE x.k = "not"
  <2>1. M(vs, x.f)[e] = At(x.f, env)
    BY <1>10, <1>16 DEF Children
  <2> QED BY <1>7, <1>9, <1>16, <2>1 DEF MeaningAs, AtAs
<1>17. CASE x.k = "and"
  <2>1. \A g \in x.s : M(vs, g)[e] = At(g, env)
    BY <1>10, <1>17 DEF Children
  <2>2. (\A g \in x.s : M(vs, g)[e]) = (\A g \in x.s : At(g, env))
    BY <2>1
  <2> QED BY <1>7, <1>9, <1>17, <2>2 DEF MeaningAs, AtAs
<1>18. CASE x.k = "or"
  <2>1. \A g \in x.s : M(vs, g)[e] = At(g, env)
    BY <1>10, <1>18 DEF Children
  <2>2. (\E g \in x.s : M(vs, g)[e]) = (\E g \in x.s : At(g, env))
    BY <2>1
  <2> QED BY <1>7, <1>9, <1>18, <2>2 DEF MeaningAs, AtAs
<1>19. CASE x.k = "forall"
  <2>1. ASSUME NEW a \in Assignments(x.y) PROVE M(vs, x.f)[Override(e, a)] = At(x.f, Override(env, a))
    <3>1. a \in [x.y -> Int] /\ Fits(Override(env, a), x.f)
      BY <1>19, FitsChildren
    <3>2. OverrideAs(e, a, vs, x.y) /\ OverrideAs(env, a, DOMAIN env, x.y)
      BY <1>1, <1>3, <3>1, OverrideIs
    <3>3. vs \cup x.y = vs /\ FreeVars(x) = FreeVars(x.f) \ x.y
      BY <1>6, <1>8, <1>19, BoundVarsAre, FreeVarsAre
    <3>4. Override(e, a) \in [vs -> Int]
      BY <3>2, <3>3 DEF OverrideAs
    <3>5. Agree(x.f, Override(e, a), Override(env, a))
      <4> SUFFICES ASSUME NEW v \in FreeVars(x.f) PROVE Override(e, a)[v] = Override(env, a)[v]
        BY DEF Agree
      <4>1. CASE v \in x.y
        BY <3>2, <4>1 DEF OverrideAs
      <4>2. CASE v \notin x.y
        <5>1. v \in FreeVars(x) /\ v \in vs /\ v \in DOMAIN env
          BY <1>4, <3>3, <4>2 DEF Covers, Fits
        <5>2. e[v] = env[v]
          BY <1>3, <5>1
        <5> QED BY <3>2, <4>2, <5>1, <5>2 DEF OverrideAs
      <4> QED BY <4>1, <4>2
    <3>6. WF(x.f) /\ Covers(vs, x.f)
      BY <1>4, <1>8, <1>19, CoversChildren DEF Children
    <3> QED BY <3>1, <3>4, <3>5, <3>6, AtIs
  <2>2. (\A a \in Assignments(x.y) : M(vs, x.f)[Override(e, a)]) = (\A a \in Assignments(x.y) : At(x.f, Override(env, a)))
    BY <2>1
  <2> QED BY <1>7, <1>9, <1>19, <2>2 DEF MeaningAs, AtAs
<1> QED BY <1>8, <1>11, <1>12, <1>13, <1>14, <1>15, <1>16, <1>17, <1>18, <1>19 DEF IsNode, IsTerm, IsFormula

-----------------------------------------------------------------------------
(* The free variables of what the constructors build *)

\* The free variables of leaves.
LEMMA FreeVarsOfLeaves ==
  /\ FreeVars(TrueF) = {} /\ FreeVars(FalseF) = {}
  /\ \A v : FreeVars(BoolVar(v)) = {v} /\ FreeVars(Variable(v)) = {v}
  /\ \A l, h \in Int : FreeVars(RealConst(l, h)) = {}
<1>1. IsTree(TrueF) /\ TrueF.k = "true" /\ Children(TrueF) = {}
  BY LeafWF DEF IsForm, WF, TrueF, Children
<1>2. IsTree(FalseF) /\ FalseF.k = "false" /\ Children(FalseF) = {}
  BY LeafWF DEF IsForm, WF, FalseF, Children
<1>3. ASSUME NEW v PROVE IsTree(BoolVar(v)) /\ BoolVar(v).k = "bvar" /\ BoolVar(v).v = v
  BY LeafWF DEF IsForm, WF, BoolVar
<1>4. ASSUME NEW v PROVE IsTree(Variable(v)) /\ Variable(v).k = "var" /\ Variable(v).v = v
  BY LeafWF DEF IsExpr, WF, Variable
<1>5. ASSUME NEW l \in Int, NEW h \in Int
      PROVE IsTree(RealConst(l, h)) /\ RealConst(l, h).k = "const" /\ Children(RealConst(l, h)) = {}
  BY LeafWF DEF IsExpr, WF, RealConst, Children
<1>6. \A v : FreeVars(BoolVar(v)) = {v}
  BY <1>3, FreeVarsAre
<1>7. \A v : FreeVars(Variable(v)) = {v}
  BY <1>4, FreeVarsAre
<1>8. \A x : IsTree(x) /\ x.k \in {"true", "false", "const"} /\ Children(x) = {} => FreeVars(x) = {}
  BY FreeVarsAre
<1> QED BY <1>1, <1>2, <1>5, <1>6, <1>7, <1>8

\* A relation has no other free variables than its sides.
LEMMA FreeVarsOfRel ==
  ASSUME NEW op \in Relops, NEW l, NEW r, IsExpr(l), IsExpr(r)
  PROVE  FreeVars(Rel(op, l, r)) \subseteq FreeVars(l) \cup FreeVars(r)
<1> DEFINE x == Rel(op, l, r)
<1>1. IsTree(x)
  BY RelWF DEF IsForm, WF
<1>2. CASE x = [k |-> "rel", op |-> op, l |-> l, r |-> r]
  <2>1. x.k = "rel" /\ Children(x) = {l, r}
    BY <1>2 DEF Children
  <2> HIDE DEF x
  <2> QED BY <1>1, <2>1, FreeVarsAre DEF x
<1>3. CASE x \in {TrueF, FalseF}
  BY <1>3, FreeVarsOfLeaves
<1> QED BY <1>2, <1>3, RelWF

\* A negation has the free variables of what it negates.
LEMMA FreeVarsOfNot ==
  ASSUME NEW f, IsForm(f)
  PROVE  FreeVars(NotF(f)) = FreeVars(f)
<1> DEFINE x == NotF(f)
<1>0. IsTree(f) /\ IsTree(x) /\ IsNode(f)
  BY NotWF, WFChildren DEF IsForm
<1>1. CASE f.k \in {"true", "false"}
  <2>1. f \in {TrueF, FalseF} /\ x \in {TrueF, FalseF}
    BY <1>0, <1>1 DEF IsNode, NotF
  <2> QED BY <2>1, FreeVarsOfLeaves
<1>2. CASE f.k = "not"
  <2>1. x = f.f /\ Children(f) = {f.f}
    BY <1>2 DEF NotF, Children
  <2> HIDE DEF x
  <2> QED BY <1>0, <1>2, <2>1, FreeVarsAre DEF x
<1>3. CASE f.k \notin {"true", "false", "not"}
  <2>1. x.k = "not" /\ Children(x) = {f}
    BY <1>3 DEF NotF, Children
  <2> HIDE DEF x
  <2> QED BY <1>0, <2>1, FreeVarsAre DEF x
<1> QED BY <1>1, <1>2, <1>3

\* Merged operands have no other free variables than the operands.
LEMMA FreeVarsOfNary ==
  ASSUME NEW fs, IsFiniteSet(fs), \A f \in fs : IsForm(f), NEW kind \in {"and", "or"}, NEW unit, NEW zero,
         <<kind, unit, zero>> \in {<<"and", TrueF, FalseF>>, <<"or", FalseF, TrueF>>}
  PROVE  FreeVars(Nary(kind, unit, zero, fs)) \subseteq UNION {FreeVars(f) : f \in fs}
<1> DEFINE x == Nary(kind, unit, zero, fs)
           merged == Merged(kind, unit, fs)
           all == UNION {FreeVars(f) : f \in fs}
<1> SUFFICES FreeVars(x) \subseteq all
  OBVIOUS
<1>1. IsTree(x)
  BY NaryWF DEF IsForm, WF
<1>2. CASE x \in {TrueF, FalseF}
  <2> HIDE DEF x
  <2> QED BY <1>2, FreeVarsOfLeaves
<1>3. ASSUME NEW g \in merged PROVE FreeVars(g) \subseteq all
  <2>1. PICK f \in fs : g \in IF f.k = kind THEN f.s ELSE {f}
    BY DEF Merged
  <2>2. CASE f.k = kind
    <3>1. IsTree(f) /\ g \in Children(f) /\ f.k \notin {"var", "bvar", "forall"}
      BY <2>1, <2>2 DEF IsForm, WF, Children
    <3>2. FreeVars(g) \subseteq FreeVars(f)
      BY <3>1, FreeVarsAre
    <3> QED BY <3>2
  <2>3. CASE f.k # kind
    BY <2>1, <2>3
  <2> QED BY <2>2, <2>3
<1>4. CASE merged # {} /\ x = CHOOSE f \in merged : TRUE
  <2> HIDE DEF merged, x, all
  <2> QED BY <1>3, <1>4
<1>5. CASE x = [k |-> kind, s |-> merged]
  <2> HIDE DEF merged, x, all
  <2>1. x.k \in {"and", "or"} /\ Children(x) = merged
    BY <1>5 DEF Children
  <2>2. FreeVars(x) = UNION {FreeVars(z) : z \in merged}
    BY <1>1, <2>1, FreeVarsAre
  <2> QED BY <1>3, <2>2
<1> QED BY <1>2, <1>4, <1>5, NaryIs

\* The same, of conjunctions and disjunctions by their names.
LEMMA FreeVarsOfAnd ==
  ASSUME NEW fs, IsFiniteSet(fs), \A f \in fs : IsForm(f)
  PROVE  /\ FreeVars(AndF(fs)) \subseteq UNION {FreeVars(f) : f \in fs}
         /\ FreeVars(OrF(fs)) \subseteq UNION {FreeVars(f) : f \in fs}
  BY FreeVarsOfNary DEF AndF, OrF

\* A quantifier takes its variables away, the ones that do not occur too.
LEMMA FreeVarsOfForall ==
  ASSUME NEW f, IsForm(f), NEW ys, IsFiniteSet(ys)
  PROVE  FreeVars(ForallF(ys, f)) = FreeVars(f) \ ys
<1> DEFINE x == ForallF(ys, f)
<1>1. x.k = "forall" /\ x.f = f /\ x.y = ys \cap FreeVars(f)
  BY DEF ForallF
<1>2. IsTree(x)
  BY ForallWF DEF IsForm, WF
<1> HIDE DEF x
<1>3. FreeVars(x) = FreeVars(f) \ (ys \cap FreeVars(f))
  BY <1>1, <1>2, FreeVarsAre
<1> QED BY <1>3 DEF x

-----------------------------------------------------------------------------
(* What the constructors build says *)

\* A comparison of numbers is true or false.
LEMMA CompareType ==
  ASSUME NEW op \in Relops, NEW a \in Int, NEW b \in Int
  PROVE  Compare(op, a, b) \in BOOLEAN
<1>1. CASE op = "eq"
  BY <1>1 DEF Compare
<1>2. CASE op = "neq"
  BY <1>2 DEF Compare
<1>3. CASE op = "lt"
  BY <1>3 DEF Compare
<1>4. CASE op = "leq"
  BY <1>4 DEF Compare
<1>5. CASE op = "gt"
  BY <1>5 DEF Compare
<1>6. CASE op = "geq"
  BY <1>6 DEF Compare
<1> QED BY <1>1, <1>2, <1>3, <1>4, <1>5, <1>6 DEF Relops

\* The value of an expression is a number, that of a formula is true or
\* false.
LEMMA AtType ==
  ASSUME NEW x, WF(x), NEW env, Fits(env, x)
  PROVE  (IsTerm(x) => At(x, env) \in Int) /\ (IsFormula(x) => At(x, env) \in BOOLEAN)
<1> DEFINE Typed(y) == (IsTerm(y) => At(y, env) \in Int) /\ (IsFormula(y) => At(y, env) \in BOOLEAN)
           T == {y \in Parts(x) : Fits(env, y) => Typed(y)}
<1>1. ASSUME NEW y \in Parts(x), WF(y), Children(y) \subseteq T PROVE y \in T
  <2> SUFFICES ASSUME Fits(env, y) PROVE Typed(y)
    OBVIOUS
  <2>1. AtAs(y, env) /\ IsNode(y) /\ IsTree(y)
    BY <1>1, AtNode, WFChildren
  <2>2. y.k # "forall" => \A z \in Children(y) : Typed(z)
    BY <1>1, FitsChildren
  <2> HIDE DEF T
  <2>3. CASE y.k \in {"and", "or", "not", "forall", "bvar", "rel", "true", "false"}
    <3>1. At(y, env) \in BOOLEAN
      <4>1. CASE y.k = "rel"
        <5>1. At(y.l, env) \in Int /\ At(y.r, env) \in Int /\ y.op \in Relops
          BY <2>1, <2>2, <4>1 DEF IsNode, Children
        <5>2. Compare(y.op, At(y.l, env), At(y.r, env)) \in BOOLEAN
          BY <5>1, CompareType
        <5> QED BY <2>1, <4>1, <5>2 DEF AtAs
      <4>2. CASE y.k # "rel"
        BY <2>1, <2>3, <4>2 DEF AtAs
      <4> QED BY <4>1, <4>2
    <3> QED BY <2>3, <3>1 DEF IsTerm
  <2>4. CASE y.k = "var"
    <3>1. y.v \in DOMAIN env
      BY <2>1, <2>4, FreeVarsAre DEF Fits
    <3>2. At(y, env) \in Int
      BY <2>1, <2>4, <3>1 DEF AtAs, Fits, IsPoint
    <3> QED BY <2>4, <3>2 DEF IsFormula
  <2>5. CASE y.k = "const"
    <3>1. At(y, env) \in Int
      BY <2>1, <2>5 DEF AtAs, IsNode
    <3> QED BY <2>5, <3>1 DEF IsFormula
  <2>6. CASE y.k = "ite"
    <3>1. At(y.a, env) \in Int /\ At(y.b, env) \in Int
      BY <2>1, <2>2, <2>6 DEF IsNode, Children
    <3>2. At(y, env) \in Int
      BY <2>1, <2>6, <3>1 DEF AtAs
    <3> QED BY <2>6, <3>2 DEF IsFormula
  <2>7. CASE y.k = "op"
    <3> DEFINE a == [i \in DOMAIN y.args |-> At(y.args[i], env)]
    <3>1. DOMAIN y.args = 1 .. Arity[y.op] /\ y.op \in DOMAIN Arity /\ \A i \in DOMAIN y.args : IsTerm(y.args[i])
      BY <2>1, <2>7 DEF IsNode
    <3>2. \A i \in DOMAIN y.args : At(y.args[i], env) \in Int
      BY <2>2, <2>7, <3>1 DEF Children
    <3>3. \A i \in 1 .. Arity[y.op] : a[i] \in Int
      BY <3>1, <3>2
    <3>4. At(y, env) = Operation(y.op, a)
      BY <2>1, <2>7 DEF AtAs
    <3> HIDE DEF a
    <3>5. y.op \in {"add", "sub", "mul", "min", "max", "div"} => a[1] \in Int /\ a[2] \in Int
      BY <3>3 DEF Arity
    <3>6. y.op = "abs" => a[1] \in Int
      BY <3>3 DEF Arity
    <3>7. y.op \in {"add", "sub", "mul", "min", "max", "div", "abs"}
      BY <3>1 DEF Arity
    <3>8. CASE y.op = "abs"
      <4>1. Operation(y.op, a) = Larger(a[1], -a[1])
        BY <3>8 DEF Operation
      <4> QED BY <2>7, <3>4, <3>6, <3>8, <4>1 DEF Larger, IsFormula
    <3>9. CASE y.op = "div"
      <4>1. Operation(y.op, a) = Quotient(a[1], a[2])
        BY <3>9 DEF Operation
      <4>2. \A m, n \in Int : Quotient(m, n) \in Int
        <5> SUFFICES ASSUME NEW m \in Int, NEW n \in Int PROVE Quotient(m, n) \in Int
          OBVIOUS
        <5>1. n < 0 => m \div (-n) \in Int
          OBVIOUS
        <5>2. n > 0 => (-m) \div n \in Int
          OBVIOUS
        <5> QED BY <5>1, <5>2 DEF Quotient
      <4> QED BY <2>7, <3>4, <3>5, <3>9, <4>1, <4>2 DEF IsFormula
    <3>10. CASE y.op = "mul"
      <4>1. Operation(y.op, a) = a[1] * a[2]
        BY <3>10 DEF Operation
      <4> QED BY <2>7, <3>4, <3>5, <3>10, <4>1 DEF IsFormula
    <3>11. CASE y.op \in {"add", "sub", "min", "max"}
      <4>1. Operation(y.op, a) \in {a[1] + a[2], a[1] - a[2], Smaller(a[1], a[2]), Larger(a[1], a[2])}
        BY <3>11 DEF Operation
      <4> QED BY <2>7, <3>4, <3>5, <3>11, <4>1 DEF Smaller, Larger, IsFormula
    <3> QED BY <3>7, <3>8, <3>9, <3>10, <3>11
  <2> QED BY <2>1, <2>3, <2>4, <2>5, <2>6, <2>7 DEF IsNode, IsTerm, IsFormula
<1>2. x \in T
  <2> HIDE DEF T
  <2> QED BY <1>1, ShapeInduction
<1> QED BY <1>2

\* What the truth values say at a point.
LEMMA AtLeaves ==
  ASSUME NEW env, IsPoint(env)
  PROVE  /\ At(TrueF, env) = TRUE /\ At(FalseF, env) = FALSE
         /\ Fits(env, TrueF) /\ Fits(env, FalseF)
<1>1. Fits(env, TrueF) /\ Fits(env, FalseF)
  BY FreeVarsOfLeaves DEF Fits
<1>2. AtAs(TrueF, env) /\ AtAs(FalseF, env)
  BY <1>1, AtNode, LeafWF DEF IsForm
<1> QED BY <1>1, <1>2 DEF AtAs, TrueF, FalseF

\* What a relation says at a point, also when it is a truth value already.
LEMMA AtRel ==
  ASSUME NEW op \in Relops, NEW l, NEW r, IsExpr(l), IsExpr(r), NEW env, Fits(env, l), Fits(env, r)
  PROVE  /\ Fits(env, Rel(op, l, r))
         /\ At(Rel(op, l, r), env) = Compare(op, At(l, env), At(r, env))
<1> DEFINE x == Rel(op, l, r)
<1>1. Fits(env, x)
  BY FreeVarsOfRel DEF Fits
<1>2. CASE IsConst(l) /\ IsConst(r) /\ l.lo = l.hi /\ r.lo = r.hi
  <2>1. x = IF Compare(op, l.lo, r.lo) THEN TrueF ELSE FalseF
    BY <1>2 DEF Rel
  <2>2. l.lo \in Int /\ r.lo \in Int
    BY <1>2, WFChildren DEF IsExpr, IsNode, IsConst
  <2>3. AtAs(l, env) /\ AtAs(r, env)
    BY AtNode DEF IsExpr
  <2>4. At(l, env) = l.lo /\ At(r, env) = r.lo
    BY <1>2, <2>2, <2>3 DEF AtAs, IsConst
  <2>5. Compare(op, l.lo, r.lo) \in BOOLEAN
    BY <2>2, CompareType
  <2> HIDE DEF x
  <2>6. At(x, env) = Compare(op, l.lo, r.lo)
    BY <2>1, <2>5, AtLeaves DEF Fits
  <2> QED BY <1>1, <2>4, <2>6 DEF x
<1>3. CASE ~ (IsConst(l) /\ IsConst(r) /\ l.lo = l.hi /\ r.lo = r.hi)
  <2>1. x.k = "rel" /\ x.op = op /\ x.l = l /\ x.r = r
    BY <1>3 DEF Rel
  <2>2. AtAs(x, env)
    BY <1>1, AtNode, RelWF DEF IsForm
  <2> HIDE DEF x
  <2> QED BY <1>1, <2>1, <2>2 DEF AtAs, x
<1> QED BY <1>2, <1>3

\* What a negation says at a point, also when it takes one away.
LEMMA AtNot ==
  ASSUME NEW f, IsForm(f), NEW env, Fits(env, f)
  PROVE  Fits(env, NotF(f)) /\ At(NotF(f), env) = ~ At(f, env)
<1> DEFINE x == NotF(f)
<1>1. Fits(env, x) /\ IsForm(x)
  BY FreeVarsOfNot, NotWF DEF Fits
<1>2. AtAs(x, env) /\ AtAs(f, env) /\ At(f, env) \in BOOLEAN
  BY <1>1, AtNode, AtType DEF IsForm
<1>3. CASE f.k = "true"
  BY <1>1, <1>2, <1>3, AtLeaves DEF NotF, AtAs, Fits
<1>4. CASE f.k = "false"
  BY <1>1, <1>2, <1>4, AtLeaves DEF NotF, AtAs, Fits
<1>5. CASE f.k = "not"
  <2>1. x = f.f
    BY <1>5 DEF NotF
  <2>2. IsForm(f.f) /\ Fits(env, f.f)
    BY <1>1, <1>5, WFChildren DEF NotF
  <2>3. At(f.f, env) \in BOOLEAN
    BY <2>2, AtType DEF IsForm
  <2>4. At(f, env) = ~ At(f.f, env)
    BY <1>2, <1>5 DEF AtAs
  <2> QED BY <1>1, <2>1, <2>3, <2>4
<1>6. CASE f.k \notin {"true", "false", "not"}
  <2>1. x.k = "not" /\ x.f = f
    BY <1>6 DEF NotF
  <2> HIDE DEF x
  <2> QED BY <1>1, <1>2, <2>1 DEF AtAs, x
<1> QED BY <1>3, <1>4, <1>5, <1>6

\* What the operands of a conjunction say, merged or not.
LEMMA AtMerged ==
  ASSUME NEW fs, IsFiniteSet(fs), \A f \in fs : IsForm(f), NEW env, IsPoint(env), \A f \in fs : Fits(env, f),
         NEW kind \in {"and", "or"}, NEW unit, NEW zero,
         <<kind, unit, zero>> \in {<<"and", TrueF, FalseF>>, <<"or", FalseF, TrueF>>}
  PROVE  /\ \A g \in Merged(kind, unit, fs) : Fits(env, g)
         /\ kind = "and" => ((\A f \in fs : At(f, env)) <=> \A g \in Merged(kind, unit, fs) : At(g, env))
         /\ kind = "or" => ((\E f \in fs : At(f, env)) <=> \E g \in Merged(kind, unit, fs) : At(g, env))
<1> DEFINE part == [f \in fs |-> IF f.k = kind THEN f.s ELSE {f}]
<1>1. ASSUME NEW f \in fs
      PROVE  /\ \A g \in part[f] : Fits(env, g)
             /\ kind = "and" => (At(f, env) <=> \A g \in part[f] : At(g, env))
             /\ kind = "or" => (At(f, env) <=> \E g \in part[f] : At(g, env))
  <2>1. AtAs(f, env)
    BY AtNode DEF IsForm
  <2>2. CASE f.k = kind
    <3>1. \A g \in f.s : Fits(env, g)
      BY <2>2, FitsChildren DEF IsForm, Children
    <3>2. part[f] = f.s
      BY <2>2
    <3> HIDE DEF part
    <3> QED BY <2>1, <2>2, <3>1, <3>2 DEF AtAs
  <2>3. CASE f.k # kind
    BY <2>3
  <2> QED BY <2>2, <2>3
<1>2. Merged(kind, unit, fs) = (UNION {part[f] : f \in fs}) \ {unit}
  BY DEF Merged
<1>3. (kind = "and" => At(unit, env)) /\ (kind = "or" => ~ At(unit, env))
  BY AtLeaves
<1> HIDE DEF part
<1>4. \A g : g \in Merged(kind, unit, fs) <=> g # unit /\ \E f \in fs : g \in part[f]
  BY <1>2
<1>5. \A g \in Merged(kind, unit, fs) : Fits(env, g)
  BY <1>1, <1>4
<1>6. ASSUME kind = "and" PROVE (\A f \in fs : At(f, env)) <=> \A g \in Merged(kind, unit, fs) : At(g, env)
  BY <1>1, <1>3, <1>4, <1>6
<1>7. ASSUME kind = "or" PROVE (\E f \in fs : At(f, env)) <=> \E g \in Merged(kind, unit, fs) : At(g, env)
  BY <1>1, <1>3, <1>4, <1>7
<1> QED BY <1>5, <1>6, <1>7

\* make_conjunction and make_disjunction mean the conjunction and the
\* disjunction of the operands.
LEMMA AtNary ==
  ASSUME NEW fs, IsFiniteSet(fs), \A f \in fs : IsForm(f), NEW env, IsPoint(env), \A f \in fs : Fits(env, f),
         NEW kind \in {"and", "or"}, NEW unit, NEW zero,
         <<kind, unit, zero>> \in {<<"and", TrueF, FalseF>>, <<"or", FalseF, TrueF>>}
  PROVE  /\ Fits(env, Nary(kind, unit, zero, fs))
         /\ kind = "and" => (At(Nary(kind, unit, zero, fs), env) <=> \A f \in fs : At(f, env))
         /\ kind = "or" => (At(Nary(kind, unit, zero, fs), env) <=> \E f \in fs : At(f, env))
<1> DEFINE x == Nary(kind, unit, zero, fs)
           merged == Merged(kind, unit, fs)
<1>1. Fits(env, x) /\ IsForm(x)
  <2>1. FreeVars(x) \subseteq UNION {FreeVars(f) : f \in fs}
    BY FreeVarsOfNary
  <2>2. \A f \in fs : FreeVars(f) \subseteq DOMAIN env
    BY DEF Fits
  <2> QED BY <2>1, <2>2, NaryWF DEF Fits
<1>2. AtAs(x, env)
  BY <1>1, AtNode DEF IsForm
<1>3. /\ kind = "and" => ((\A f \in fs : At(f, env)) <=> \A g \in merged : At(g, env))
      /\ kind = "or" => ((\E f \in fs : At(f, env)) <=> \E g \in merged : At(g, env))
  BY AtMerged
<1>4. (kind = "and" => At(unit, env) /\ ~ At(zero, env)) /\ (kind = "or" => ~ At(unit, env) /\ At(zero, env))
  BY AtLeaves
<1>5. \/ zero \in fs /\ x = zero
      \/ merged = {} /\ x = unit
      \/ merged # {} /\ zero \notin fs /\ Cardinality(merged) = 1 /\ x = CHOOSE f \in merged : TRUE
      \/ x = [k |-> kind, s |-> merged]
  BY NaryIs
<1>6. zero \notin fs => IsFiniteSet(merged)
  BY MergedOperands
<1> HIDE DEF x, merged
<1>7. CASE zero \in fs /\ x = zero
  <2> QED BY <1>1, <1>4, <1>7 DEF x
<1>8. CASE merged = {} /\ x = unit
  BY <1>1, <1>3, <1>4, <1>8 DEF x
<1>9. CASE merged # {} /\ zero \notin fs /\ Cardinality(merged) = 1 /\ x = CHOOSE f \in merged : TRUE
  <2>1. x \in merged
    BY <1>9
  <2>2. \A g \in merged : g = x
    <3> SUFFICES ASSUME NEW g \in merged, g # x PROVE FALSE
      OBVIOUS
    <3>1. {g, x} \in SUBSET merged /\ {g, x} # {}
      BY <2>1
    <3>2. Cardinality({g} \cup {x}) = 2
      <4>1. IsFiniteSet({g}) /\ Cardinality({g}) = 1
        BY FS_Singleton
      <4>2. Cardinality({g} \cup {x}) = 1 + 1
        BY <4>1, FS_AddElement
      <4> QED BY <4>2
    <3>3. {g} \cup {x} \in SUBSET merged
      BY <2>1
    <3>4. Cardinality({g} \cup {x}) <= Cardinality(merged)
      BY <1>6, <1>9, <3>3, FS_Subset
    <3> QED BY <1>9, <3>2, <3>4
  <2> QED BY <1>1, <1>3, <2>1, <2>2 DEF x
<1>10. CASE x = [k |-> kind, s |-> merged]
  <2>1. x.k = kind /\ x.s = merged
    BY <1>10
  <2> QED BY <1>1, <1>2, <1>3, <2>1 DEF AtAs, x
<1> QED BY <1>5, <1>7, <1>8, <1>9, <1>10

\* The same, of the two by their names.
LEMMA AtAnd ==
  ASSUME NEW fs, IsFiniteSet(fs), \A f \in fs : IsForm(f), NEW env, IsPoint(env), \A f \in fs : Fits(env, f)
  PROVE  /\ Fits(env, AndF(fs)) /\ Fits(env, OrF(fs))
         /\ At(AndF(fs), env) <=> \A f \in fs : At(f, env)
         /\ At(OrF(fs), env) <=> \E f \in fs : At(f, env)
  BY AtNary DEF AndF, OrF

-----------------------------------------------------------------------------
(* Strengthening *)

\* A tree in which nothing is quantified and no expression branches.
Plain(x) == \A y \in Parts(x) : y.k \notin {"forall", "ite"}

\* A tree is plain if its node is and its children are.
LEMMA PlainChildren ==
  ASSUME NEW x, WF(x)
  PROVE  Plain(x) <=> x.k \notin {"forall", "ite"} /\ \A z \in Children(x) : Plain(z)
  BY PartsOfTree DEF Plain, WF

\* Terms hold formulas only as conditions, and the connectives are searched.
LEMMA NoForallIsPlain ==
  ASSUME NEW x, WF(x), IsFormula(x), ~ HasForall(x), ~ HasITE(x)
  PROVE  Plain(x)
<1> DEFINE Quiet(y) == (IsFormula(y) => ~ HasForall(y)) /\ \A z \in Parts(y) : z.k # "ite"
           T == {y \in Parts(x) : Quiet(y) => Plain(y)}
<1>1. ASSUME NEW y \in Parts(x), WF(y), Children(y) \subseteq T PROVE y \in T
  <2> SUFFICES ASSUME Quiet(y) PROVE Plain(y)
    OBVIOUS
  <2>1. y.k # "ite" /\ \A z \in Children(y) : \A w \in Parts(z) : w.k # "ite"
    BY <1>1, PartsOfTree DEF WF
  <2>2. HasForall(y) <=> (y.k = "forall" \/ (IsConnective(y) /\ \E g \in Children(y) : HasForall(g)))
    BY <1>1, HasForallNode DEF WF, HasForallStep
  <2>3. y.k # "forall"
    BY <2>2 DEF IsFormula
  <2>4. \A z \in Children(y) : IsFormula(z) => ~ HasForall(z)
    <3>0. IsNode(y)
      BY <1>1, WFChildren
    <3>1. CASE IsConnective(y)
      BY <2>2, <3>1 DEF IsConnective, IsFormula
    <3>2. CASE ~ IsConnective(y)
      <4>1. \A z \in Children(y) : IsTerm(z)
        BY <3>0, <3>2, <2>1, <2>3 DEF IsConnective, IsNode, Children
      <4> QED BY <4>1 DEF IsTerm, IsFormula
    <3> QED BY <3>1, <3>2
  <2>5. \A z \in Children(y) : Plain(z)
    BY <1>1, <2>1, <2>4
  <2> QED BY <1>1, <2>1, <2>3, <2>5, PlainChildren
<1>2. x \in T
  <2> HIDE DEF T
  <2> QED BY <1>1, ShapeInduction
<1>3. Quiet(x)
  BY DEF HasITE
<1> QED BY <1>2, <1>3

\* The value of a constant.
LEMMA AtConst ==
  ASSUME NEW l \in Int, NEW h \in Int, NEW env, IsPoint(env)
  PROVE  Fits(env, RealConst(l, h)) /\ At(RealConst(l, h), env) = (l + h) \div 2
<1>1. Fits(env, RealConst(l, h))
  BY FreeVarsOfLeaves DEF Fits
<1>2. AtAs(RealConst(l, h), env)
  BY <1>1, AtNode, LeafWF DEF IsExpr
<1> QED BY <1>1, <1>2 DEF AtAs, RealConst

\* Twice c is c when it is halved.
LEMMA HalfPlus ==
  ASSUME NEW s \in Int, NEW c \in Int
  PROVE  (s + 2 * c) \div 2 = s \div 2 + c
<1>1. \A n \in Int : n \div 2 \in Int /\ 2 * (n \div 2) <= n /\ n < 2 * (n \div 2) + 2
  OBVIOUS
<1>2. \A p, q \in Int : 2 * p <= s /\ s < 2 * p + 2 /\ 2 * q <= s + 2 * c /\ s + 2 * c < 2 * q + 2 => q = p + c
  OBVIOUS
<1> QED BY <1>1, <1>2

\* A sum with a constant is an expression.
LEMMA PlusWF ==
  ASSUME NEW e, IsExpr(e), NEW c \in Int
  PROVE  IsExpr(Plus(e, c))
<1>1. CASE IsConst(e)
  <2>1. e.lo \in Int /\ e.hi \in Int
    BY <1>1, WFChildren DEF IsNode, IsConst, IsExpr
  <2> QED BY <1>1, <2>1, LeafWF DEF Plus
<1>2. CASE ~ IsConst(e)
  <2> DEFINE args == <<e, Constant(c)>>
  <2>1. args = [i \in 1 .. Arity["add"] |-> args[i]] /\ DOMAIN args = {1, 2} /\ "add" \in DOMAIN Arity
    BY DEF Arity
  <2>2. IsExpr(Constant(c))
    BY LeafWF DEF Constant
  <2>3. \A i \in DOMAIN args : IsExpr(args[i])
    BY <2>1, <2>2
  <2>4. IsExpr(Apply("add", args))
    <3> HIDE DEF args
    <3> QED BY <2>1, <2>3, ApplyWF
  <2> QED BY <1>2, <2>4 DEF Plus
<1> QED BY <1>1, <1>2

\* The value of a sum with a constant, folded or not.
LEMMA AtPlus ==
  ASSUME NEW e, IsExpr(e), NEW c \in Int, NEW env, Fits(env, e)
  PROVE  /\ Fits(env, Plus(e, c))
         /\ At(Plus(e, c), env) = At(e, env) + c
<1>0. At(e, env) \in Int /\ IsPoint(env) /\ IsNode(e)
  BY AtType, WFChildren DEF IsExpr, Fits
<1>1. CASE IsConst(e)
  <2>1. e = RealConst(e.lo, e.hi) /\ e.lo \in Int /\ e.hi \in Int
    BY <1>0, <1>1 DEF IsNode, IsConst
  <2>2. At(e, env) = (e.lo + e.hi) \div 2
    BY <1>0, <2>1, AtConst
  <2>3. Plus(e, c) = RealConst(e.lo + c, e.hi + c)
    BY <1>1 DEF Plus
  <2>4. At(Plus(e, c), env) = (e.lo + c + e.hi + c) \div 2 /\ Fits(env, Plus(e, c))
    BY <1>0, <2>1, <2>3, AtConst
  <2>5. (e.lo + c + e.hi + c) \div 2 = (e.lo + e.hi) \div 2 + c
    <3>1. e.lo + c + e.hi + c = (e.lo + e.hi) + 2 * c /\ e.lo + e.hi \in Int
      BY <2>1
    <3> QED BY <3>1, HalfPlus
  <2> QED BY <2>1, <2>2, <2>3, <2>4, <2>5, LeafWF
<1>2. CASE ~ IsConst(e) /\ c = 0
  BY <1>0, <1>2 DEF Plus
<1>3. CASE ~ IsConst(e) /\ c # 0
  <2> DEFINE args == <<e, Constant(c)>>
             x == Apply("add", args)
  <2>1. Plus(e, c) = x
    BY <1>3 DEF Plus
  <2>2. IsExpr(Constant(c)) /\ At(Constant(c), env) = c /\ FreeVars(Constant(c)) = {}
    <3>1. (c + c) \div 2 = c
      OBVIOUS
    <3> QED BY <1>0, <3>1, AtConst, LeafWF, FreeVarsOfLeaves DEF Constant
  <2>3. args = [i \in 1 .. Arity["add"] |-> args[i]] /\ DOMAIN args = {1, 2}
    BY DEF Arity
  <2>4. IsExpr(x)
    BY <2>1, PlusWF, Zenon
  <2>5. x.k = "op" /\ x.op = "add" /\ x.args = args /\ Children(x) = {e, Constant(c)}
    BY <2>3 DEF Apply, Children
  <2>6. Fits(env, x)
    <3> HIDE DEF x, args
    <3>1. FreeVars(x) = UNION {FreeVars(z) : z \in {e, Constant(c)}}
      BY <2>4, <2>5, FreeVarsAre DEF IsExpr, WF
    <3> QED BY <2>2, <3>1 DEF Fits
  <2>7. At(x, env) = Operation("add", [i \in {1, 2} |-> At(args[i], env)])
    <3> HIDE DEF x, args
    <3>1. At(x, env) = Operation(x.op, [i \in DOMAIN x.args |-> At(x.args[i], env)])
      BY <2>4, <2>5, <2>6, AtNode DEF AtAs, IsExpr
    <3> QED BY <2>3, <2>5, <3>1, Zenon
  <2>8. At(x, env) = At(e, env) + c
    BY <2>2, <2>7 DEF Operation
  <2> QED BY <2>1, <2>4, <2>6, <2>8
<1> QED BY <1>1, <1>2, <1>3

\* The relation with d between its sides.
LEMMA AtStrengthenRel ==
  ASSUME NEW op \in Relops, NEW l, NEW r, IsExpr(l), IsExpr(r), NEW d \in Int
  PROVE  /\ IsForm(StrengthenRel(op, l, r, d))
         /\ \A env : Fits(env, l) /\ Fits(env, r) =>
              /\ Fits(env, StrengthenRel(op, l, r, d))
              /\ op \in {"gt", "geq"} =>
                   (At(StrengthenRel(op, l, r, d), env) <=> Compare(op, At(l, env), At(r, env) + d))
              /\ op \in {"lt", "leq"} =>
                   (At(StrengthenRel(op, l, r, d), env) <=> Compare(op, At(l, env) + d, At(r, env)))
<1> DEFINE x == StrengthenRel(op, l, r, d)
<1>1. ASSUME NEW env, Fits(env, l), Fits(env, r)
      PROVE  /\ Fits(env, x)
             /\ op \in {"gt", "geq"} => (At(x, env) <=> Compare(op, At(l, env), At(r, env) + d))
             /\ op \in {"lt", "leq"} => (At(x, env) <=> Compare(op, At(l, env) + d, At(r, env)))
  <2>1. At(l, env) \in Int /\ At(r, env) \in Int
    BY <1>1, AtType DEF IsExpr
  <2>2. ASSUME NEW e, IsExpr(e), Fits(env, e), NEW c \in {d, -d}
        PROVE  IsExpr(Plus(e, c)) /\ Fits(env, Plus(e, c)) /\ At(Plus(e, c), env) = At(e, env) + c
    BY <2>2, AtPlus, PlusWF
  <2>3. CASE x = Rel(op, Plus(l, -d), r) /\ op \in {"gt", "geq"}
    <3>1. Fits(env, x) /\ At(x, env) = Compare(op, At(l, env) + (-d), At(r, env))
      BY <1>1, <2>2, <2>3, AtRel
    <3>2. \A a, b \in Int : Compare(op, a + (-d), b) <=> Compare(op, a, b + d)
      BY <2>3 DEF Compare
    <3>3. Compare(op, At(l, env) + (-d), At(r, env)) <=> Compare(op, At(l, env), At(r, env) + d)
      BY <2>1, <3>2
    <3> QED BY <2>3, <3>1, <3>3
  <2>4. CASE x = Rel(op, l, Plus(r, d)) /\ op \in {"gt", "geq"}
    <3>1. Fits(env, x) /\ At(x, env) = Compare(op, At(l, env), At(r, env) + d)
      BY <1>1, <2>2, <2>4, AtRel
    <3> QED BY <2>4, <3>1
  <2>5. CASE x = Rel(op, l, Plus(r, -d)) /\ op \notin {"gt", "geq"}
    <3>1. Fits(env, x) /\ At(x, env) = Compare(op, At(l, env), At(r, env) + (-d))
      BY <1>1, <2>2, <2>5, AtRel
    <3>2. op \in {"lt", "leq"} => \A a, b \in Int : Compare(op, a, b + (-d)) <=> Compare(op, a + d, b)
      BY DEF Compare
    <3>3. op \in {"lt", "leq"} =>
            (Compare(op, At(l, env), At(r, env) + (-d)) <=> Compare(op, At(l, env) + d, At(r, env)))
      BY <2>1, <3>2
    <3> QED BY <2>5, <3>1, <3>3
  <2>6. CASE x = Rel(op, Plus(l, d), r) /\ op \notin {"gt", "geq"}
    <3>1. Fits(env, x) /\ At(x, env) = Compare(op, At(l, env) + d, At(r, env))
      BY <1>1, <2>2, <2>6, AtRel
    <3> QED BY <2>6, <3>1
  <2> QED BY <2>3, <2>4, <2>5, <2>6 DEF StrengthenRel
<1>2. IsForm(x)
  <2>1. ASSUME NEW e, IsExpr(e), NEW c \in {d, -d} PROVE IsExpr(Plus(e, c))
    BY <2>1, PlusWF
  <2> QED BY <2>1, RelWF DEF StrengthenRel
<1> QED BY <1>1, <1>2

-----------------------------------------------------------------------------
\* What is proved of the visit of a node: terms are left alone, and a
\* formula lies between what is made of it.
Between(x, stronger, weaker) ==
  /\ IsForm(stronger) /\ IsForm(weaker)
  /\ \A env : Fits(env, x) =>
       /\ Fits(env, stronger) /\ Fits(env, weaker)
       /\ At(stronger, env) => At(x, env)
       /\ At(x, env) => At(weaker, env)

\* Terms stay as they are, and a formula lies between what is made of it.
StrengthenedAs(x, visit) ==
  /\ IsTerm(x) => \A strong \in BOOLEAN : visit[strong] = x
  /\ IsFormula(x) => Between(x, visit[TRUE], visit[FALSE])

\* A formula that stays as it is lies between itself and itself.
LEMMA BetweenItself ==
  ASSUME NEW x, IsForm(x)
  PROVE  Between(x, x, x)
  BY DEF Between

\* A term stays as it is: no formula is in it.
LEMMA StrengthenTerm ==
  ASSUME NEW x, IsExpr(x), x.k # "ite", NEW sub, NEW d \in Int,
         \A z \in Children(x) : IsTerm(z) => \A strong \in BOOLEAN : sub[z][strong] = z
  PROVE  \A strong \in BOOLEAN : StrengthenStep(d, x, sub)[strong] = x
<1> SUFFICES ASSUME NEW strong \in BOOLEAN PROVE StrengthenStep(d, x, sub)[strong] = x
  OBVIOUS
<1> DEFINE operands == [z \in Children(x) |-> sub[z][strong]]
<1>1. IsNode(x) /\ IsTerm(x)
  BY WFChildren DEF IsExpr
<1>2. StrengthenStep(d, x, sub)[strong] = Rebuild(x, operands)
  BY <1>1 DEF StrengthenStep, IsTerm
<1>3. CASE x.k = "op"
  <2>1. \A i \in DOMAIN x.args : x.args[i] \in Children(x) /\ IsTerm(x.args[i])
    BY <1>1, <1>3 DEF IsNode, Children
  <2>2. \A i \in DOMAIN x.args : operands[x.args[i]] = x.args[i]
    BY <2>1
  <2>3. x = [k |-> "op", op |-> x.op, args |-> x.args] /\ x.args = [i \in DOMAIN x.args |-> x.args[i]]
    BY <1>1, <1>3 DEF IsNode, Apply
  <2> HIDE DEF operands
  <2>4. [i \in DOMAIN x.args |-> operands[x.args[i]]] = x.args
    BY <2>2, <2>3
  <2>5. Rebuild(x, operands) = [x EXCEPT !.args = [i \in DOMAIN x.args |-> operands[x.args[i]]]]
    BY <1>3 DEF Rebuild
  <2>6. [x EXCEPT !.args = x.args] = x
    BY <2>3
  <2> QED BY <1>2, <2>4, <2>5, <2>6
<1>4. CASE x.k \in {"var", "const"}
  BY <1>2, <1>4 DEF Rebuild
<1> QED BY <1>1, <1>3, <1>4 DEF IsTerm

\* The comparisons of numbers.
LEMMA Comparisons ==
  ASSUME NEW a \in Int, NEW b \in Int
  PROVE  /\ Compare("eq", a, b) <=> a = b
         /\ Compare("neq", a, b) <=> a # b
         /\ Compare("lt", a, b) <=> a < b
         /\ Compare("leq", a, b) <=> a <= b
         /\ Compare("gt", a, b) <=> a > b
         /\ Compare("geq", a, b) <=> a >= b
  BY DEF Compare

\* Moving a bound by d > 0.
LEMMA ComparisonsMove ==
  ASSUME NEW a \in Int, NEW b \in Int, NEW d \in Int, d > 0
  PROVE  /\ Compare("eq", a, b) => Compare("geq", a, b + (-d)) /\ Compare("leq", a + (-d), b)
         /\ Compare("gt", a, b + d) \/ Compare("lt", a + d, b) => Compare("neq", a, b)
         /\ \A op \in {"gt", "geq"} : (Compare(op, a, b + d) => Compare(op, a, b)) /\ (Compare(op, a, b) => Compare(op, a, b + (-d)))
         /\ \A op \in {"lt", "leq"} : (Compare(op, a + d, b) => Compare(op, a, b)) /\ (Compare(op, a, b) => Compare(op, a + (-d), b))
<1>1. a + d \in Int /\ b + d \in Int /\ a + (-d) \in Int /\ b + (-d) \in Int
  OBVIOUS
<1>2. Compare("eq", a, b) => Compare("geq", a, b + (-d)) /\ Compare("leq", a + (-d), b)
  BY <1>1, Comparisons
<1>3. Compare("gt", a, b + d) \/ Compare("lt", a + d, b) => Compare("neq", a, b)
  BY <1>1, Comparisons
<1>4. \A op \in {"gt", "geq"} : (Compare(op, a, b + d) => Compare(op, a, b)) /\ (Compare(op, a, b) => Compare(op, a, b + (-d)))
  BY <1>1, Comparisons
<1>5. \A op \in {"lt", "leq"} : (Compare(op, a + d, b) => Compare(op, a, b)) /\ (Compare(op, a, b) => Compare(op, a + (-d), b))
  BY <1>1, Comparisons
<1> QED BY <1>2, <1>3, <1>4, <1>5

\* A relation lies between its strengthened and its weakened form.
LEMMA StrengthenRelation ==
  ASSUME NEW x, IsForm(x), x.k = "rel", NEW sub, NEW d \in Int, d > 0,
         \A z \in Children(x) : \A strong \in BOOLEAN : sub[z][strong] = z
  PROVE  Between(x, StrengthenStep(d, x, sub)[TRUE], StrengthenStep(d, x, sub)[FALSE])
<1> DEFINE S(strong) == StrengthenStep(d, x, sub)[strong]
           R(op, e) == StrengthenRel(op, x.l, x.r, e)
<1>1. IsNode(x) /\ x.op \in Relops /\ IsExpr(x.l) /\ IsExpr(x.r) /\ Children(x) = {x.l, x.r}
  <2>1. IsNode(x) /\ Children(x) = {x.l, x.r}
    BY WFChildren DEF IsForm, Children
  <2> QED BY <2>1, WFChildren DEF IsForm, IsExpr, IsNode
<1>2. ASSUME NEW strong \in BOOLEAN
      PROVE  LET e == IF strong THEN d ELSE -d IN
             /\ x.op = "eq" => S(strong) = IF strong THEN x ELSE AndF({R("geq", e), R("leq", e)})
             /\ x.op = "neq" => S(strong) = IF strong THEN OrF({R("gt", e), R("lt", e)}) ELSE TrueF
             /\ x.op \notin {"eq", "neq"} => S(strong) = R(x.op, e)
  <2> DEFINE operands == [z \in Children(x) |-> sub[z][strong]]
             e == IF strong THEN d ELSE -d
  <2>1. operands[x.l] = x.l /\ operands[x.r] = x.r
    BY <1>1
  <2>2. (e > 0 <=> strong) /\ (e <= 0 <=> ~ strong)
    OBVIOUS
  <2>3. /\ x.op = "eq" => S(strong) = IF strong THEN x
                                      ELSE AndF({StrengthenRel(op, x.l, x.r, e) : op \in {"geq", "leq"}})
        /\ x.op = "neq" => S(strong) = IF strong THEN OrF({StrengthenRel(op, x.l, x.r, e) : op \in {"gt", "lt"}})
                                       ELSE TrueF
        /\ x.op \notin {"eq", "neq"} => S(strong) = R(x.op, e)
    BY <2>1, <2>2 DEF StrengthenStep
  <2>4. \A a, b : {StrengthenRel(op, x.l, x.r, e) : op \in {a, b}} = {R(a, e), R(b, e)}
    OBVIOUS
  <2> HIDE DEF R, S, e
  <2> QED BY <2>3, <2>4, Zenon DEF e, R
<1>3. ASSUME NEW op \in Relops, NEW e \in {d, -d} PROVE IsForm(R(op, e))
  BY <1>1, <1>3, AtStrengthenRel
<1>4. ASSUME NEW op \in Relops, NEW e \in {d, -d}, NEW env, Fits(env, x)
      PROVE  /\ Fits(env, R(op, e))
             /\ op \in {"gt", "geq"} => (At(R(op, e), env) <=> Compare(op, At(x.l, env), At(x.r, env) + e))
             /\ op \in {"lt", "leq"} => (At(R(op, e), env) <=> Compare(op, At(x.l, env) + e, At(x.r, env)))
  <2>1. Fits(env, x.l) /\ Fits(env, x.r)
    BY <1>1, <1>4, FitsChildren DEF IsForm
  <2> QED BY <1>1, <1>4, <2>1, AtStrengthenRel
<1>5. ASSUME NEW env, Fits(env, x)
      PROVE  /\ At(x.l, env) \in Int /\ At(x.r, env) \in Int /\ IsPoint(env)
             /\ At(x, env) = Compare(x.op, At(x.l, env), At(x.r, env))
  <2>1. Fits(env, x.l) /\ Fits(env, x.r)
    BY <1>1, <1>5, FitsChildren DEF IsForm
  <2>2. AtAs(x, env)
    BY <1>5, AtNode DEF IsForm
  <2> QED BY <1>1, <1>5, <2>1, <2>2, AtType DEF IsExpr, AtAs, Fits
<1> HIDE DEF R, S
<1>6. CASE x.op = "eq"
  <2> DEFINE both == {R("geq", -d), R("leq", -d)}
  <2>1. S(TRUE) = x /\ S(FALSE) = AndF(both)
    BY <1>2, <1>6
  <2>2. IsFiniteSet(both) /\ \A f \in both : IsForm(f)
    BY <1>3, FinitePairs DEF Relops
  <2>3. ASSUME NEW env, Fits(env, x)
        PROVE  Fits(env, AndF(both)) /\ (At(x, env) => At(AndF(both), env))
    <3>1. /\ Fits(env, R("geq", -d)) /\ Fits(env, R("leq", -d))
          /\ At(R("geq", -d), env) <=> Compare("geq", At(x.l, env), At(x.r, env) + (-d))
          /\ At(R("leq", -d), env) <=> Compare("leq", At(x.l, env) + (-d), At(x.r, env))
      BY <1>4, <2>3 DEF Relops
    <3>2. \A f \in both : Fits(env, f)
      BY <3>1
    <3>3. At(x, env) => \A f \in both : At(f, env)
      BY <1>5, <1>6, <2>3, <3>1, ComparisonsMove
    <3>4. Fits(env, AndF(both)) /\ (At(AndF(both), env) <=> \A f \in both : At(f, env))
      <4> HIDE DEF both
      <4> QED BY <1>5, <2>2, <2>3, <3>2, AtAnd
    <3> QED BY <3>3, <3>4
  <2> HIDE DEF both
  <2> QED BY <2>1, <2>2, <2>3, AndWF DEF Between, S
<1>7. CASE x.op = "neq"
  <2> DEFINE both == {R("gt", d), R("lt", d)}
  <2>1. S(TRUE) = OrF(both) /\ S(FALSE) = TrueF
    BY <1>2, <1>7
  <2>2. IsFiniteSet(both) /\ \A f \in both : IsForm(f)
    BY <1>3, FinitePairs DEF Relops
  <2>3. ASSUME NEW env, Fits(env, x)
        PROVE  /\ Fits(env, OrF(both)) /\ (At(OrF(both), env) => At(x, env))
               /\ Fits(env, TrueF) /\ At(TrueF, env)
    <3>1. /\ Fits(env, R("gt", d)) /\ Fits(env, R("lt", d))
          /\ At(R("gt", d), env) <=> Compare("gt", At(x.l, env), At(x.r, env) + d)
          /\ At(R("lt", d), env) <=> Compare("lt", At(x.l, env) + d, At(x.r, env))
      BY <1>4, <2>3 DEF Relops
    <3>2. \A f \in both : Fits(env, f)
      BY <3>1
    <3>3. (\E f \in both : At(f, env)) => At(x, env)
      BY <1>5, <1>7, <2>3, <3>1, ComparisonsMove
    <3>4. Fits(env, OrF(both)) /\ (At(OrF(both), env) <=> \E f \in both : At(f, env))
      <4> HIDE DEF both
      <4> QED BY <1>5, <2>2, <2>3, <3>2, AtAnd
    <3> QED BY <1>5, <2>3, <3>3, <3>4, AtLeaves
  <2> HIDE DEF both
  <2> QED BY <2>1, <2>2, <2>3, AndWF, LeafWF DEF Between, S
<1>8. CASE x.op \in {"gt", "geq", "lt", "leq"}
  <2>1. S(TRUE) = R(x.op, d) /\ S(FALSE) = R(x.op, -d)
    BY <1>2, <1>8
  <2>2. ASSUME NEW env, Fits(env, x)
        PROVE  /\ Fits(env, R(x.op, d)) /\ (At(R(x.op, d), env) => At(x, env))
               /\ Fits(env, R(x.op, -d)) /\ (At(x, env) => At(R(x.op, -d), env))
    <3>1. \A e \in {d, -d} :
            /\ Fits(env, R(x.op, e))
            /\ x.op \in {"gt", "geq"} => (At(R(x.op, e), env) <=> Compare(x.op, At(x.l, env), At(x.r, env) + e))
            /\ x.op \in {"lt", "leq"} => (At(R(x.op, e), env) <=> Compare(x.op, At(x.l, env) + e, At(x.r, env)))
      BY <1>1, <1>4, <2>2
    <3> QED BY <1>5, <1>8, <2>2, <3>1, ComparisonsMove
  <2>3. IsForm(R(x.op, d)) /\ IsForm(R(x.op, -d))
    BY <1>1, <1>3
  <2> QED BY <2>1, <2>2, <2>3 DEF Between, S
<1> QED BY <1>1, <1>6, <1>7, <1>8 DEF Relops, S

\* A connective of formulas that lie between theirs lies between its own; a
\* negation turns them round.
LEMMA StrengthenConnective ==
  ASSUME NEW x, IsForm(x), x.k \in {"not", "and", "or"}, NEW sub, NEW d \in Int,
         \A z \in Children(x) : IsForm(z) /\ Between(z, sub[z][TRUE], sub[z][FALSE])
  PROVE  Between(x, StrengthenStep(d, x, sub)[TRUE], StrengthenStep(d, x, sub)[FALSE])
<1> DEFINE S(strong) == StrengthenStep(d, x, sub)[strong]
<1>1. \A env : Fits(env, x) => AtAs(x, env) /\ IsPoint(env) /\ \A z \in Children(x) : Fits(env, z)
  BY AtNode, FitsChildren DEF IsForm, Fits
<1>2. CASE x.k = "not"
  <2>1. S(TRUE) = NotF(sub[x.f][FALSE]) /\ S(FALSE) = NotF(sub[x.f][TRUE])
    BY <1>2 DEF StrengthenStep, StrengthenNegation
  <2>2. x.f \in Children(x)
    BY <1>2 DEF Children
  <2>3. Between(x.f, sub[x.f][TRUE], sub[x.f][FALSE])
    BY <2>2
  <2> HIDE DEF S
  <2>4. ASSUME NEW env, Fits(env, x)
        PROVE  /\ Fits(env, S(TRUE)) /\ (At(S(TRUE), env) => At(x, env))
               /\ Fits(env, S(FALSE)) /\ (At(x, env) => At(S(FALSE), env))
    <3>1. At(x, env) = ~ At(x.f, env) /\ Fits(env, x.f)
      BY <1>1, <1>2, <2>2, <2>4 DEF AtAs
    <3>2. \A b \in BOOLEAN : Fits(env, NotF(sub[x.f][b])) /\ At(NotF(sub[x.f][b]), env) = ~ At(sub[x.f][b], env)
      <4>1. \A b \in BOOLEAN : IsForm(sub[x.f][b]) /\ Fits(env, sub[x.f][b])
        BY <2>3, <3>1 DEF Between
      <4> QED BY <4>1, AtNot
    <3> QED BY <2>1, <2>3, <3>1, <3>2 DEF Between
  <2> QED BY <2>1, <2>3, <2>4, NotWF DEF Between, S
<1>3. CASE x.k \in {"and", "or"}
  <2> DEFINE of(strong) == {sub[z][strong] : z \in Children(x)}
  <2>1. ASSUME NEW strong \in BOOLEAN PROVE S(strong) = IF x.k = "and" THEN AndF(of(strong)) ELSE OrF(of(strong))
    <3> DEFINE operands == [z \in Children(x) |-> sub[z][strong]]
    <3>1. x.s = Children(x)
      BY <1>3 DEF Children
    <3>2. S(strong) = Rebuild(x, operands)
      BY <1>3 DEF StrengthenStep
    <3>3. {operands[g] : g \in x.s} = of(strong)
      BY <3>1
    <3> HIDE DEF operands, S, of
    <3> QED BY <1>3, <3>2, <3>3 DEF Rebuild
  <2>2. \A strong \in BOOLEAN : IsFiniteSet(of(strong)) /\ \A f \in of(strong) : IsForm(f)
    <3>1. IsFiniteSet(Children(x))
      BY WFChildren, FiniteChildren DEF IsForm
    <3>2. ASSUME NEW strong \in BOOLEAN PROVE IsFiniteSet(of(strong))
      <4> DEFINE h == [z \in Children(x) |-> sub[z][strong]]
      <4>1. of(strong) = {h[z] : z \in Children(x)}
        OBVIOUS
      <4> HIDE DEF h, of
      <4> QED BY <3>1, <4>1, FiniteImage
    <3> QED BY <3>2 DEF Between
  <2>3. ASSUME NEW env, Fits(env, x)
        PROVE  /\ \A strong \in BOOLEAN : \A f \in of(strong) : Fits(env, f)
               /\ (\A f \in of(TRUE) : At(f, env)) => \A z \in Children(x) : At(z, env)
               /\ (\A z \in Children(x) : At(z, env)) => \A f \in of(FALSE) : At(f, env)
               /\ (\E f \in of(TRUE) : At(f, env)) => \E z \in Children(x) : At(z, env)
               /\ (\E z \in Children(x) : At(z, env)) => \E f \in of(FALSE) : At(f, env)
    <3>1. \A z \in Children(x) : Fits(env, z)
      BY <1>1, <2>3
    <3>2. \A z \in Children(x) : /\ Fits(env, sub[z][TRUE]) /\ (At(sub[z][TRUE], env) => At(z, env))
                                 /\ Fits(env, sub[z][FALSE]) /\ (At(z, env) => At(sub[z][FALSE], env))
      BY <3>1 DEF Between
    <3>0. \A strong \in BOOLEAN : \A f : f \in of(strong) <=> \E z \in Children(x) : f = sub[z][strong]
      OBVIOUS
    <3>10. \A z \in Children(x) : sub[z][TRUE] \in of(TRUE) /\ sub[z][FALSE] \in of(FALSE)
      BY <3>0
    <3> HIDE DEF of
    <3>3. \A strong \in BOOLEAN : \A f \in of(strong) : Fits(env, f)
      <4> SUFFICES ASSUME NEW strong \in BOOLEAN, NEW f \in of(strong) PROVE Fits(env, f)
        OBVIOUS
      <4>1. PICK z \in Children(x) : f = sub[z][strong]
        BY <3>0
      <4> QED BY <3>2, <4>1
    <3>4. (\A f \in of(TRUE) : At(f, env)) => \A z \in Children(x) : At(z, env)
      BY <3>2, <3>10
    <3>5. (\A z \in Children(x) : At(z, env)) => \A f \in of(FALSE) : At(f, env)
      <4> SUFFICES ASSUME \A z \in Children(x) : At(z, env), NEW f \in of(FALSE) PROVE At(f, env)
        OBVIOUS
      <4>1. PICK z \in Children(x) : f = sub[z][FALSE]
        BY <3>0
      <4> QED BY <3>2, <4>1
    <3>6. (\E f \in of(TRUE) : At(f, env)) => \E z \in Children(x) : At(z, env)
      <4> SUFFICES ASSUME NEW f \in of(TRUE), At(f, env) PROVE \E z \in Children(x) : At(z, env)
        OBVIOUS
      <4>1. PICK z \in Children(x) : f = sub[z][TRUE]
        BY <3>0
      <4> QED BY <3>2, <4>1
    <3>7. (\E z \in Children(x) : At(z, env)) => \E f \in of(FALSE) : At(f, env)
      BY <3>2, <3>10
    <3> QED BY <3>3, <3>4, <3>5, <3>6, <3>7
  <2> HIDE DEF of, S
  <2>4. ASSUME NEW env, Fits(env, x)
        PROVE  /\ Fits(env, S(TRUE)) /\ (At(S(TRUE), env) => At(x, env))
               /\ Fits(env, S(FALSE)) /\ (At(x, env) => At(S(FALSE), env))
    <3>1. \A strong \in BOOLEAN :
            /\ Fits(env, AndF(of(strong))) /\ Fits(env, OrF(of(strong)))
            /\ At(AndF(of(strong)), env) <=> \A f \in of(strong) : At(f, env)
            /\ At(OrF(of(strong)), env) <=> \E f \in of(strong) : At(f, env)
      BY <1>1, <2>2, <2>3, <2>4, AtAnd
    <3>2. /\ x.k = "and" => (At(x, env) <=> \A z \in Children(x) : At(z, env))
          /\ x.k = "or" => (At(x, env) <=> \E z \in Children(x) : At(z, env))
      BY <1>1, <1>3, <2>4 DEF AtAs, Children
    <3> QED BY <1>3, <2>1, <2>3, <2>4, <3>1, <3>2
  <2> QED BY <1>3, <2>1, <2>2, <2>4, AndWF DEF Between, S
<1> QED BY <1>2, <1>3

-----------------------------------------------------------------------------

\* What the script asserts is a formula that is built.
LEMMA BuiltForm ==
  ASSUME NEW f, IsBuilt(f)
  PROVE  IsForm(f)
<1>1. Cardinality(Parts(f)) \in Nat
  BY FS_CardinalityType DEF IsBuilt
<1> QED BY <1>1 DEF IsBuilt, IsForm, WF, IsTree

-----------------------------------------------------------------------------
(* The calls of Assert that are not finished *)

\* The calls that are not finished are finitely many, and of formulas.
TodoIsBuilt ==
  /\ Len(asserted) \in Nat
  /\ IsFiniteSet(todo)
  /\ \A f \in todo : IsForm(f)

\* Before the first assertion there are no calls.
LEMMA TodoInit == Init => TodoIsBuilt
  BY FS_EmptySet DEF Init, TodoIsBuilt

\* What each step makes of the calls that are not finished.
LEMMA TodoStep ==
  ASSUME [Next]_vars
  PROVE  \/ UNCHANGED <<todo, asserted>>
         \/ todo = {} /\ \E f \in Inputs[Len(asserted) + 1] :
              Len(asserted) < Len(Inputs) /\ todo' = {f} /\ asserted' = Append(asserted, f)
         \/ UNCHANGED asserted /\ \E f \in todo : todo' = todo \ {f}
         \/ UNCHANGED asserted /\ \E f \in todo : f.k = "and" /\ todo' = (todo \ {f}) \cup f.s
         \/ UNCHANGED asserted /\ \E f \in todo :
              f.k = "forall" /\ EliminatePointUniversals(f) # f /\ todo' = (todo \ {f}) \cup {EliminatePointUniversals(f)}
<1>1. CASE Next
  <2>1. CASE Len(asserted) < Len(Inputs) /\ \E f \in Inputs[Len(asserted) + 1] : Submit(f)
    BY <2>1 DEF Submit
  <2>2. CASE \E f \in todo : Assert(f)
    BY <2>2 DEF Assert, Skip, Refute, Split, Reject, Eliminate, Bound, Keep, Throw, Finish
  <2>3. CASE MayLearn /\ \E E \in Explanations : Learn(E)
    BY <2>3 DEF Learn
  <2> QED BY <1>1, <2>1, <2>2, <2>3 DEF Next
<1>2. CASE UNCHANGED vars
  BY <1>2 DEF vars
<1> QED BY <1>1, <1>2

\* A step leaves finitely many calls, of formulas that are built.
LEMMA TodoNext ==
  ASSUME TodoIsBuilt, [Next]_vars
  PROVE  TodoIsBuilt'
<1> USE DEF TodoIsBuilt
<1>1. CASE UNCHANGED <<todo, asserted>>
  BY <1>1
<1>2. CASE todo = {} /\ \E f \in Inputs[Len(asserted) + 1] :
             Len(asserted) < Len(Inputs) /\ todo' = {f} /\ asserted' = Append(asserted, f)
  <2>1. PICK f \in Inputs[Len(asserted) + 1] :
          Len(asserted) < Len(Inputs) /\ todo' = {f} /\ asserted' = Append(asserted, f)
    BY <1>2
  <2>2. Len(asserted) + 1 \in 1 .. Len(Inputs)
    BY <2>1, InputsAssumption
  <2>3. IsForm(f)
    BY <2>2, BuiltForm, InputsAssumption
  <2>4. IsFiniteSet({f})
    BY FS_Singleton
  <2> QED BY <2>1, <2>3, <2>4
<1>3. CASE UNCHANGED asserted /\ \E f \in todo : todo' = todo \ {f}
  BY <1>3, FS_Subset
<1>4. CASE UNCHANGED asserted /\ \E f \in todo : f.k = "and" /\ todo' = (todo \ {f}) \cup f.s
  <2>1. PICK f \in todo : f.k = "and" /\ todo' = (todo \ {f}) \cup f.s
    BY <1>4
  <2>2. IsFiniteSet(f.s) /\ \A g \in f.s : IsForm(g)
    BY <2>1, ClausesOf DEF GetClauses
  <2>3. IsFiniteSet(todo \ {f})
    BY FS_Subset
  <2>4. IsFiniteSet((todo \ {f}) \cup f.s)
    BY <2>2, <2>3, FS_Union
  <2> QED BY <1>4, <2>1, <2>2, <2>4
<1>5. CASE UNCHANGED asserted /\ \E f \in todo :
             f.k = "forall" /\ EliminatePointUniversals(f) # f /\ todo' = (todo \ {f}) \cup {EliminatePointUniversals(f)}
  <2>1. PICK f \in todo : f.k = "forall" /\ EliminatePointUniversals(f) # f
                            /\ todo' = (todo \ {f}) \cup {EliminatePointUniversals(f)}
    BY <1>5
  <2>2. IsForm(EliminatePointUniversals(f))
    BY <2>1, EliminateBuilds
  <2>3. IsFiniteSet((todo \ {f}) \cup {EliminatePointUniversals(f)})
    BY FS_Subset, FS_Singleton, FS_Union
  <2> QED BY <1>5, <2>1, <2>2, <2>3
<1> QED BY <1>1, <1>2, <1>3, <1>4, <1>5, TodoStep

\* In every state the calls that are not finished are of formulas that are
\* built.
LEMMA TodoInvariant == Spec => []TodoIsBuilt
<1> QED BY TodoInit, TodoNext, PTL DEF Spec

\* A call that gives way to others with less work before them.
LEMMA LessWork ==
  ASSUME TodoIsBuilt, NEW f \in todo, NEW S, IsFiniteSet(S), \A g \in S : WF(g), Work(S) < WorkOf(f)
  PROVE  Work((todo \ {f}) \cup S) < Work(todo)
<1> DEFINE rest == todo \ {f}
<1>1. IsFiniteSet(todo) /\ \A g \in todo : WorkOf(g) \in Nat
  BY WorkType DEF TodoIsBuilt, IsForm
<1>2. IsFiniteSet(rest) /\ \A g \in rest : WorkOf(g) \in Nat
  BY <1>1, FS_Subset
<1>3. Work(todo) = Work(rest) + WorkOf(f)
  BY <1>1, WorkOfSet
<1> HIDE DEF rest
<1>4. \A g \in rest \cup S : WorkOf(g) \in Nat
  BY <1>2, WorkType
<1>5. Work(rest \cup S) <= Work(rest) + Work(S)
  BY <1>2, <1>4, WorkOfUnion
<1>6. IsFiniteSet(rest \cup S)
  BY <1>2, FS_Union
<1>7. Work(rest \cup S) \in Nat /\ Work(rest) \in Nat /\ Work(S) \in Nat /\ WorkOf(f) \in Nat
  BY <1>1, <1>2, <1>4, <1>6, WorkOfSet
<1>8. Work(rest \cup S) < Work(todo)
  BY <1>3, <1>5, <1>7
<1> QED BY <1>8 DEF rest

\* A call that makes others leaves less work than there was.
LEMMA EachCallHasLessWork ==
  ASSUME TodoIsBuilt, [Next]_vars, vars' # vars, todo # {}, ~halted'
  PROVE  Work(todo') < Work(todo)
<1>1. UNCHANGED <<todo, asserted>> => FALSE
  <2>1. CASE Next
    <3>1. PICK f \in todo : Assert(f)
      BY <2>1 DEF Next, Submit, MayLearn
    <3>2. ~ Reject(f) /\ ~ Throw(f)
      BY DEF Reject, Throw
    <3>3. todo' # todo
      <4>1. CASE Split(f)
        <5>1. f \notin f.s
          <6>1. IsTree(f) /\ f.s = Children(f)
            BY <4>1 DEF Split, Children, TodoIsBuilt, IsForm, WF
          <6>2. Height(f) \in Nat
            BY <6>1, HeightOf
          <6> QED BY <6>1, <6>2, ChildOfTree
        <5> QED BY <4>1, <5>1 DEF Split
      <4>2. CASE Eliminate(f)
        BY <4>2 DEF Eliminate
      <4>3. CASE Skip(f) \/ Refute(f) \/ Bound(f) \/ Keep(f)
        BY <4>3 DEF Skip, Refute, Bound, Keep, Finish
      <4> QED BY <3>1, <3>2, <4>1, <4>2, <4>3 DEF Assert
    <3> QED BY <3>3
  <2> QED BY <2>1
<1>2. CASE \E f \in todo : todo' = todo \ {f}
  <2>1. IsFiniteSet(todo) /\ \A f \in todo : WF(f)
    BY DEF TodoIsBuilt, IsForm
  <2>2. PICK f \in todo : todo' = todo \ {f}
    BY <1>2
  <2>3. Work(todo \ {f}) < Work(todo)
    BY <2>1, WorkOfOne
  <2> QED BY <2>2, <2>3, Zenon
<1>3. CASE \E f \in todo : f.k = "and" /\ todo' = (todo \ {f}) \cup f.s
  <2>1. PICK f \in todo : f.k = "and" /\ todo' = (todo \ {f}) \cup f.s
    BY <1>3
  <2>2. IsForm(f) /\ WF(f)
    BY DEF TodoIsBuilt, IsForm
  <2>3. IsFiniteSet(f.s) /\ \A g \in f.s : WF(g)
    BY <2>1, <2>2, ClausesOf DEF GetClauses, IsForm
  <2>4. WorkOf(f) = 1 + Work(f.s)
    BY <2>1, <2>2, WorkStepIs
  <2>5. Work(f.s) \in Nat
    BY <2>3, WorkType, WorkOfSet
  <2>6. Work(f.s) < WorkOf(f)
    BY <2>4, <2>5
  <2>7. Work((todo \ {f}) \cup f.s) < Work(todo)
    BY <2>3, <2>6, LessWork
  <2> QED BY <2>1, <2>7, Zenon
<1>4. CASE \E f \in todo :
             f.k = "forall" /\ EliminatePointUniversals(f) # f /\ todo' = (todo \ {f}) \cup {EliminatePointUniversals(f)}
  <2>1. PICK f \in todo : f.k = "forall" /\ EliminatePointUniversals(f) # f
                            /\ todo' = (todo \ {f}) \cup {EliminatePointUniversals(f)}
    BY <1>4
  <2> DEFINE e == EliminatePointUniversals(f)
  <2>2. IsForm(e) /\ WorkOf(e) < WorkOf(f)
    BY <2>1, EliminateBuilds DEF TodoIsBuilt
  <2>3. todo' = (todo \ {f}) \cup {e}
    BY <2>1
  <2> HIDE DEF e
  <2>4. IsFiniteSet({e}) /\ \A g \in {e} : WF(g)
    BY <2>2, FS_Singleton DEF IsForm
  <2>5. Work({e}) = WorkOf(e)
    BY <2>4, WorkOfOne
  <2>6. Work({e}) < WorkOf(f)
    BY <2>2, <2>5
  <2>7. Work((todo \ {f}) \cup {e}) < Work(todo)
    BY <2>4, <2>6, LessWork
  <2> QED BY <2>3, <2>7, Zenon
<1> QED BY <1>1, <1>2, <1>3, <1>4, TodoStep

\* Assert comes to an end: a call of it has less work before it than the one it
\* was made from.
THEOREM AssertReturnsAlways == Spec => AssertReturns
<1>1. ASSUME TodoIsBuilt, [Next]_vars
      PROVE  [todo # {} /\ ~halted' => Work(todo') < Work(todo)]_vars
  <2> SUFFICES ASSUME vars' # vars, todo # {}, ~halted' PROVE Work(todo') < Work(todo)
    OBVIOUS
  <2> QED BY <1>1, EachCallHasLessWork
<1> QED BY <1>1, TodoInvariant, PTL DEF Spec, AssertReturns

-----------------------------------------------------------------------------

\* DeltaStrengthen returns a stronger formula and DeltaWeaken a weaker one.
LEMMA Strengthened ==
  ASSUME NEW x, WF(x), Plain(x), NEW d \in Int, d > 0
  PROVE  StrengthenedAs(x, Strengthening!Visit(d, x))
<1> DEFINE V(y) == Strengthening!Visit(d, y)
           T == {y \in Parts(x) : Plain(y) => StrengthenedAs(y, V(y))}
<1>1. ASSUME NEW y \in Parts(x), WF(y), Children(y) \subseteq T PROVE y \in T
  <2> SUFFICES ASSUME Plain(y) PROVE StrengthenedAs(y, V(y))
    OBVIOUS
  <2> DEFINE sub == [z \in Children(y) |-> V(z)]
  <2>1. V(y) = StrengthenStep(d, y, sub)
    BY <1>1, StrengthenNode DEF WF
  <2>2. IsNode(y) /\ y.k \notin {"ite", "forall"} /\ \A z \in Children(y) : WF(z) /\ Plain(z)
    BY <1>1, WFChildren, PlainChildren
  <2>3. \A z \in Children(y) : StrengthenedAs(z, sub[z])
    BY <1>1, <2>2
  <2> HIDE DEF sub, V, T
  <2>4. CASE IsTerm(y)
    <3>1. \A strong \in BOOLEAN : StrengthenStep(d, y, sub)[strong] = y
      BY <1>1, <2>2, <2>3, <2>4, StrengthenTerm DEF IsExpr, StrengthenedAs
    <3>2. ~ IsFormula(y)
      BY <2>4 DEF IsTerm, IsFormula
    <3> QED BY <2>1, <3>1, <3>2 DEF StrengthenedAs
  <2>5. CASE y.k = "rel"
    <3>1. \A z \in Children(y) : IsTerm(z)
      BY <2>2, <2>5 DEF IsNode, Children
    <3>2. \A z \in Children(y) : \A strong \in BOOLEAN : sub[z][strong] = z
      BY <2>3, <3>1 DEF StrengthenedAs
    <3>3. IsForm(y)
      BY <1>1, <2>5 DEF IsForm, IsFormula
    <3> QED BY <2>1, <2>5, <3>2, <3>3, StrengthenRelation DEF StrengthenedAs, IsTerm
  <2>6. CASE y.k \in {"not", "and", "or"}
    <3>1. \A z \in Children(y) : IsFormula(z)
      BY <2>2, <2>6 DEF IsNode, AreOperands, Children
    <3>2. \A z \in Children(y) : IsForm(z) /\ Between(z, sub[z][TRUE], sub[z][FALSE])
      BY <2>2, <2>3, <3>1 DEF StrengthenedAs, IsForm
    <3>3. IsForm(y)
      BY <1>1, <2>6 DEF IsForm, IsFormula
    <3> QED BY <2>1, <2>6, <3>2, <3>3, StrengthenConnective DEF StrengthenedAs, IsTerm
  <2>7. CASE y.k \in {"true", "false", "bvar"}
    <3>1. \A strong \in BOOLEAN : StrengthenStep(d, y, sub)[strong] = y
      BY <2>7 DEF StrengthenStep, Rebuild
    <3>2. IsForm(y)
      BY <1>1, <2>7 DEF IsForm, IsFormula
    <3> QED BY <2>1, <2>7, <3>1, <3>2, BetweenItself DEF StrengthenedAs, IsTerm
  <2> QED BY <2>2, <2>4, <2>5, <2>6, <2>7 DEF IsNode, IsFormula
<1>2. x \in T
  <2> HIDE DEF T
  <2> QED BY <1>1, ShapeInduction
<1> QED BY <1>2

\* A tree has finitely many free variables.
LEMMA FreeVarsFinite ==
  ASSUME NEW x, WF(x)
  PROVE  IsFiniteSet(FreeVars(x))
<1> DEFINE T == {y \in Parts(x) : IsFiniteSet(FreeVars(y))}
<1>1. ASSUME NEW y \in Parts(x), WF(y), Children(y) \subseteq T PROVE y \in T
  <2> SUFFICES IsFiniteSet(FreeVars(y))
    OBVIOUS
  <2>1. IsFiniteSet(Children(y)) /\ \A z \in Children(y) : IsFiniteSet(FreeVars(z))
    BY <1>1, WFChildren, FiniteChildren
  <2>2. CASE y.k \in {"var", "bvar"}
    <3>1. FreeVars(y) = {y.v}
      BY <1>1, <2>2, FreeVarsAre DEF WF
    <3>2. IsFiniteSet({y.v})
      BY FS_Singleton
    <3> QED BY <3>1, <3>2, Zenon
  <2>3. CASE y.k = "forall"
    <3>1. FreeVars(y) \subseteq FreeVars(y.f) /\ y.f \in Children(y)
      BY <1>1, <2>3, FreeVarsAre DEF WF, Children
    <3> QED BY <2>1, <3>1, FS_Subset
  <2>4. CASE y.k \notin {"var", "bvar", "forall"}
    <3> DEFINE h == [z \in Children(y) |-> FreeVars(z)]
               below == {h[z] : z \in Children(y)}
    <3>1. FreeVars(y) = UNION {FreeVars(z) : z \in Children(y)}
      BY <1>1, <2>4, FreeVarsAre DEF WF
    <3>2. {FreeVars(z) : z \in Children(y)} = below
      OBVIOUS
    <3>3. \A vs \in below : IsFiniteSet(vs)
      BY <2>1
    <3> HIDE DEF h
    <3>4. IsFiniteSet(below)
      BY <2>1, FiniteImage
    <3> HIDE DEF below
    <3> QED BY <3>1, <3>2, <3>3, <3>4, FS_UNION, Zenon
  <2> QED BY <2>2, <2>3, <2>4
<1>2. x \in T
  <2> HIDE DEF T
  <2> QED BY <1>1, ShapeInduction
<1> QED BY <1>2

-----------------------------------------------------------------------------
(* What was asserted *)

\* The formulas the script may assert.
Given == UNION {Inputs[n] : n \in 1 .. Len(Inputs)}

\* What has been asserted is a list of them.
AssertedAreGiven == asserted \in Seq(Given)

\* They are formulas that are built.
LEMMA GivenAreForms == \A f \in Given : IsForm(f)
  BY BuiltForm, InputsAssumption DEF Given

\* In every state what has been asserted is a list of given formulas.
LEMMA AssertedInvariant == Spec => []AssertedAreGiven
<1>1. Init => AssertedAreGiven
  BY DEF Init, AssertedAreGiven
<1>2. ASSUME AssertedAreGiven, [Next]_vars PROVE AssertedAreGiven'
  <2>1. CASE asserted' = asserted
    BY <1>2, <2>1 DEF AssertedAreGiven
  <2>2. CASE \E f \in Inputs[Len(asserted) + 1] : Len(asserted) < Len(Inputs) /\ asserted' = Append(asserted, f)
    <3>1. PICK f \in Inputs[Len(asserted) + 1] : Len(asserted) < Len(Inputs) /\ asserted' = Append(asserted, f)
      BY <2>2
    <3>2. Len(asserted) + 1 \in 1 .. Len(Inputs)
      BY <1>2, <3>1, InputsAssumption DEF AssertedAreGiven
    <3>3. f \in Given
      BY <3>2 DEF Given
    <3> QED BY <1>2, <3>1, <3>3 DEF AssertedAreGiven
  <2> QED BY <1>2, <2>1, <2>2, TodoStep
<1> QED BY <1>1, <1>2, PTL DEF Spec

\* The points of a set where a formula holds.
LEMMA ModelsAre ==
  ASSUME NEW f, NEW vs, NEW points, points \subseteq [vs -> Int]
  PROVE  Models(f, vs, points) = {p \in points : At(f, p)}
<1>1. \A p \in points : DOMAIN p = vs /\ p \in [vs -> Int]
  OBVIOUS
<1>2. \A p \in points : At(f, p) = MeaningOver(vs, f)[p]
  BY <1>1, Zenon DEF At
<1> QED BY <1>2 DEF Models

\* A strengthened assertion implies the assertion, and the assertion a weakened
\* one, at every point.
THEOREM StrengtheningAlwaysOrdered == Spec => []StrengtheningIsOrdered
<1>1. ASSUME AssertedAreGiven PROVE StrengtheningIsOrdered
  <2> SUFFICES ASSUME NEW n \in DOMAIN asserted, ~ HasForall(asserted[n]), ~ HasITE(asserted[n]),
                      NEW points, points = Assignments(FreeVars(asserted[n]))
               PROVE  /\ Models(DeltaStrengthen(asserted[n], 2), FreeVars(asserted[n]), points)
                            \subseteq Models(asserted[n], FreeVars(asserted[n]), points)
                      /\ Models(asserted[n], FreeVars(asserted[n]), points)
                            \subseteq Models(DeltaWeaken(asserted[n], 2), FreeVars(asserted[n]), points)
    BY DEF StrengtheningIsOrdered
  <2>1. asserted[n] \in Given
    BY <1>1 DEF AssertedAreGiven
  <2>2. IsForm(asserted[n])
    BY <2>1, GivenAreForms
  <2>3. StrengthenedAs(asserted[n], Strengthening!Visit(2, asserted[n]))
    BY <2>2, NoForallIsPlain, Strengthened DEF IsForm
  <2>4. points \subseteq [FreeVars(asserted[n]) -> Int]
    BY <2>2, FreeVarsFinite, AssignmentsAre DEF IsForm
  <2>5. \A p \in points : Fits(p, asserted[n])
    BY <2>4 DEF Fits, IsPoint
  <2>6. \A p \in points : /\ At(DeltaStrengthen(asserted[n], 2), p) => At(asserted[n], p)
                          /\ At(asserted[n], p) => At(DeltaWeaken(asserted[n], 2), p)
    BY <2>2, <2>3, <2>5 DEF StrengthenedAs, Between, IsForm, DeltaStrengthen, DeltaWeaken
  <2> QED BY <2>4, <2>6, ModelsAre
<1> QED BY <1>1, AssertedInvariant, PTL

-----------------------------------------------------------------------------
(* What the leaves of a tree are *)

\* The Boolean variables in x are among K.vars and the free ones among K.names,
\* and there is no quantifier in x unless K.forall says so; none binds a dummy.
Over(K, x) == /\ \A y \in Parts(x) : /\ y.k = "bvar" => y.v \in K.vars
                                     /\ y.k = "forall" => K.forall /\ \A v \in y.y : ~ IsDummy(v)
              /\ FreeVars(x) \subseteq K.names

\* A formula that is built over K.
OverForm(K, x) == IsForm(x) /\ Over(K, x)

\* K with more free variables.
With(K, more) == [vars |-> K.vars, forall |-> K.forall, names |-> K.names \cup more]

\* No quantifier in x binds a dummy.
BindsNoDummy(x) == \A z \in Parts(x) : z.k = "forall" => \A v \in z.y : ~ IsDummy(v)

\* What is over K is over everything more.
LEMMA OverMore ==
  ASSUME NEW K, NEW L, K.vars \subseteq L.vars, K.names \subseteq L.names, K.forall => L.forall, NEW x, Over(K, x)
  PROVE  Over(L, x)
BY DEF Over

\* With more variables, what is over K still is.
LEMMA OverWith ==
  ASSUME NEW K, NEW more, NEW less, less \subseteq more, NEW x
  PROVE  /\ Over(K, x) => Over(With(K, more), x)
         /\ Over(With(K, less), x) => Over(With(K, more), x)
         /\ OverForm(K, x) => OverForm(With(K, more), x)
         /\ OverForm(With(K, less), x) => OverForm(With(K, more), x)
BY DEF Over, With, OverForm

\* The children of a tree over K are over K, and so are its own leaf and
\* quantifier.
LEMMA OverChildren ==
  ASSUME NEW K, NEW x, WF(x), Over(K, x)
  PROVE  /\ x.k # "forall" => \A z \in Children(x) : Over(K, z)
         /\ x.k = "forall" => K.forall /\ Over(With(K, x.y), x.f) /\ \A v \in x.y : ~ IsDummy(v)
         /\ x.k = "bvar" => x.v \in K.vars
         /\ FreeVars(x) \subseteq K.names
<1>1. IsTree(x) /\ x \in Parts(x) /\ \A z \in Children(x) : Parts(z) \subseteq Parts(x)
  BY PartsOfTree DEF WF
<1>2. CASE x.k # "forall"
  <2>1. \A z \in Children(x) : FreeVars(z) \subseteq FreeVars(x)
    BY <1>1, <1>2, FreeVarsAre DEF Children
  <2> QED BY <1>1, <1>2, <2>1 DEF Over
<1>3. CASE x.k = "forall"
  <2>1. FreeVars(x) = FreeVars(x.f) \ x.y /\ x.f \in Children(x)
    BY <1>1, <1>3, FreeVarsAre DEF Children
  <2>2. FreeVars(x.f) \subseteq With(K, x.y).names
    BY <2>1 DEF Over, With
  <2>3. With(K, x.y).vars = K.vars /\ With(K, x.y).forall = K.forall
    BY DEF With
  <2>4. Over(With(K, x.y), x.f)
    BY <1>1, <2>1, <2>2, <2>3 DEF Over
  <2> QED BY <1>1, <1>3, <2>4 DEF Over
<1> QED BY <1>2, <1>3

\* A node of children over K is over K, if its own leaf and quantifier are.
LEMMA OverNode ==
  ASSUME NEW K, NEW x, WF(x), x.k # "forall", \A z \in Children(x) : Over(K, z),
         x.k = "bvar" => x.v \in K.vars, x.k \in {"var", "bvar"} => x.v \in K.names
  PROVE  Over(K, x)
<1>1. IsTree(x) /\ \A y \in Parts(x) : y = x \/ \E z \in Children(x) : y \in Parts(z)
  BY PartsOfTree DEF WF
<1>2. FreeVars(x) \subseteq K.names
  BY <1>1, FreeVarsAre DEF Over
<1> QED BY <1>1, <1>2 DEF Over

\* Truth values, terms and the Boolean variables of K are over K.
LEMMA OverLeaves ==
  ASSUME NEW K
  PROVE  /\ Over(K, TrueF) /\ Over(K, FalseF)
         /\ \A v \in K.names : Over(K, Variable(v)) /\ (v \in K.vars => Over(K, BoolVar(v)))
         /\ \A l, h \in Int : Over(K, RealConst(l, h))
<1>1. Over(K, TrueF)
  <2>1. WF(TrueF) /\ TrueF.k = "true" /\ Children(TrueF) = {}
    BY LeafWF DEF IsForm, TrueF, Children
  <2> QED BY <2>1, OverNode
<1>2. Over(K, FalseF)
  <2>1. WF(FalseF) /\ FalseF.k = "false" /\ Children(FalseF) = {}
    BY LeafWF DEF IsForm, FalseF, Children
  <2> QED BY <2>1, OverNode
<1>3. ASSUME NEW v \in K.names PROVE Over(K, Variable(v)) /\ (v \in K.vars => Over(K, BoolVar(v)))
  <2>1. WF(Variable(v)) /\ Variable(v).k = "var" /\ Variable(v).v = v /\ Children(Variable(v)) = {}
    BY LeafWF DEF IsExpr, Variable, Children
  <2>2. WF(BoolVar(v)) /\ BoolVar(v).k = "bvar" /\ BoolVar(v).v = v /\ Children(BoolVar(v)) = {}
    BY LeafWF DEF IsForm, BoolVar, Children
  <2> QED BY <2>1, <2>2, OverNode
<1>4. ASSUME NEW l \in Int, NEW h \in Int PROVE Over(K, RealConst(l, h))
  <2>1. WF(RealConst(l, h)) /\ RealConst(l, h).k = "const" /\ Children(RealConst(l, h)) = {}
    BY LeafWF DEF IsExpr, RealConst, Children
  <2> QED BY <2>1, OverNode
<1> QED BY <1>1, <1>2, <1>3, <1>4

\* A relation between terms over K is over K.
LEMMA RelOver ==
  ASSUME NEW K, NEW op \in Relops, NEW l, NEW r, IsExpr(l), IsExpr(r), Over(K, l), Over(K, r)
  PROVE  OverForm(K, Rel(op, l, r))
<1> DEFINE x == [k |-> "rel", op |-> op, l |-> l, r |-> r]
<1>1. IsForm(Rel(op, l, r)) /\ (Rel(op, l, r) = x \/ Rel(op, l, r) \in {TrueF, FalseF})
  BY RelWF
<1>2. CASE Rel(op, l, r) = x
  <2>1. x.k = "rel" /\ Children(x) = {l, r}
    BY DEF Children
  <2> HIDE DEF x
  <2> QED BY <1>1, <1>2, <2>1, OverNode DEF IsForm, OverForm
<1>3. CASE Rel(op, l, r) \in {TrueF, FalseF}
  BY <1>1, <1>3, OverLeaves DEF OverForm
<1> QED BY <1>1, <1>2, <1>3

\* So is a negation.
LEMMA NotOver ==
  ASSUME NEW K, NEW f, OverForm(K, f)
  PROVE  OverForm(K, NotF(f))
<1> DEFINE x == [k |-> "not", f |-> f]
<1>1. IsForm(NotF(f)) /\ IsForm(f) /\ WF(f) /\ Over(K, f)
  BY NotWF DEF OverForm, IsForm
<1>2. CASE f.k \in {"true", "false"}
  BY <1>1, <1>2, OverLeaves DEF NotF, OverForm
<1>3. CASE f.k = "not"
  <2>1. NotF(f) = f.f /\ Children(f) = {f.f}
    BY <1>3 DEF NotF, Children
  <2> QED BY <1>1, <1>3, <2>1, OverChildren DEF OverForm
<1>4. CASE f.k \notin {"true", "false", "not"}
  <2>1. NotF(f) = x
    BY <1>4 DEF NotF
  <2>2. x.k = "not" /\ Children(x) = {f}
    BY DEF Children
  <2> HIDE DEF x
  <2> QED BY <1>1, <2>1, <2>2, OverNode DEF OverForm, IsForm
<1> QED BY <1>2, <1>3, <1>4

\* So is what make_conjunction and make_disjunction return: merged operands
\* bring no new leaves.
LEMMA NaryOver ==
  ASSUME NEW K, NEW fs, IsFiniteSet(fs), \A f \in fs : OverForm(K, f),
         NEW kind \in {"and", "or"}, NEW unit, NEW zero,
         <<kind, unit, zero>> \in {<<"and", TrueF, FalseF>>, <<"or", FalseF, TrueF>>}
  PROVE  OverForm(K, Nary(kind, unit, zero, fs))
<1> DEFINE merged == Merged(kind, unit, fs)
           x == [k |-> kind, s |-> merged]
<1>0. IsForm(Nary(kind, unit, zero, fs)) /\ \A f \in fs : IsForm(f) /\ WF(f) /\ Over(K, f)
  BY NaryWF DEF OverForm, IsForm
<1>1. ASSUME NEW g \in merged PROVE Over(K, g)
  <2>1. PICK f \in fs : g \in (IF f.k = kind THEN f.s ELSE {f})
    BY <1>1 DEF Merged
  <2>2. CASE f.k = kind
    <3>1. g \in Children(f) /\ f.k # "forall"
      BY <2>1, <2>2 DEF Children
    <3> QED BY <1>0, <3>1, OverChildren
  <2>3. CASE f.k # kind
    BY <1>0, <2>1, <2>3
  <2> QED BY <2>2, <2>3
<1> HIDE DEF merged
<1>2. CASE Nary(kind, unit, zero, fs) \in {zero, unit}
  BY <1>0, <1>2, OverLeaves DEF OverForm
<1>3. CASE merged # {} /\ Nary(kind, unit, zero, fs) = CHOOSE f \in merged : TRUE
  BY <1>0, <1>1, <1>3 DEF OverForm
<1>4. CASE Nary(kind, unit, zero, fs) = x
  <2>1. x.k = kind /\ x.s = merged /\ Children(x) = merged
    BY DEF Children
  <2> HIDE DEF x
  <2> QED BY <1>0, <1>1, <1>4, <2>1, OverNode DEF OverForm, IsForm
<1> QED BY <1>2, <1>3, <1>4, NaryIs DEF merged

\* The same, of the two by their names.
LEMMA AndOver ==
  ASSUME NEW K, NEW fs, IsFiniteSet(fs), \A f \in fs : OverForm(K, f)
  PROVE  OverForm(K, AndF(fs)) /\ OverForm(K, OrF(fs))
BY NaryOver DEF AndF, OrF

\* A quantification is over K if K has quantifiers, its body is over K with
\* the quantified variables, and none of these is a dummy.
LEMMA ForallOver ==
  ASSUME NEW K, K.forall, NEW ys, IsFiniteSet(ys), \A v \in ys : ~ IsDummy(v), NEW f, OverForm(With(K, ys), f)
  PROVE  OverForm(K, ForallF(ys, f))
<1> DEFINE x == ForallF(ys, f)
<1>1. IsForm(x) /\ FreeVars(x) = FreeVars(f) \ ys
  BY ForallWF, FreeVarsOfForall DEF OverForm
<1>2. x.k = "forall" /\ x.f = f /\ x.y \subseteq ys
  BY DEF ForallF
<1> HIDE DEF x
<1>3. \A y \in Parts(x) : y = x \/ y \in Parts(f)
  BY <1>1, <1>2, PartsOfTree DEF IsForm, WF, Children
<1>4. FreeVars(x) \subseteq K.names
  BY <1>1 DEF OverForm, Over, With
<1>5. \A y \in Parts(f) : /\ y.k = "bvar" => y.v \in K.vars
                          /\ y.k = "forall" => K.forall /\ \A v \in y.y : ~ IsDummy(v)
  BY DEF OverForm, Over, With
<1> QED BY <1>1, <1>2, <1>3, <1>4, <1>5 DEF OverForm, Over, x

\* A node rebuilt of children over K is over K.
LEMMA RebuildOver ==
  ASSUME NEW K, NEW x, WF(x), x.k # "forall", x.k \in {"var", "bvar"} => Over(K, x), NEW sub,
         \A z \in Children(x) : WF(sub[z]) /\ (IsTerm(z) => IsTerm(sub[z])) /\ (IsFormula(z) => IsFormula(sub[z])),
         \A z \in Children(x) : Over(K, sub[z])
  PROVE  Over(K, Rebuild(x, sub))
<1> DEFINE r == Rebuild(x, sub)
<1>0. IsNode(x) /\ WF(r)
  BY WFChildren, RebuildWF
<1>1. CASE x.k \in {"and", "or"}
  <2>1. IsFiniteSet({sub[g] : g \in x.s}) /\ \A f \in {sub[g] : g \in x.s} : OverForm(K, f)
    BY <1>0, <1>1, FiniteImage DEF IsNode, AreOperands, Children, IsForm, OverForm
  <2>2. Rebuild(x, sub) \in {AndF({sub[g] : g \in x.s}), OrF({sub[g] : g \in x.s})}
    BY <1>1 DEF Rebuild
  <2> QED BY <2>1, <2>2, AndOver DEF OverForm
<1>2. CASE x.k = "not"
  <2>1. OverForm(K, sub[x.f])
    BY <1>0, <1>2 DEF IsNode, Children, IsForm, OverForm
  <2>2. Rebuild(x, sub) = NotF(sub[x.f])
    BY <1>2 DEF Rebuild
  <2> QED BY <2>1, <2>2, NotOver DEF OverForm
<1>4. CASE x.k = "rel"
  <2>1. IsExpr(sub[x.l]) /\ IsExpr(sub[x.r]) /\ x.op \in Relops /\ Over(K, sub[x.l]) /\ Over(K, sub[x.r])
    BY <1>0, <1>4 DEF IsNode, Children, IsExpr
  <2>2. Rebuild(x, sub) = Rel(x.op, sub[x.l], sub[x.r])
    BY <1>4 DEF Rebuild
  <2> QED BY <2>1, <2>2, RelOver DEF OverForm
<1>5. CASE x.k = "ite"
  <2>1. Rebuild(x, sub) = IfThenElse(sub[x.c], sub[x.a], sub[x.b]) /\ Children(x) = {x.c, x.a, x.b}
    BY <1>5 DEF Rebuild, Children
  <2>2. r.k = "ite" /\ Children(r) = {sub[x.c], sub[x.a], sub[x.b]}
    BY <2>1 DEF IfThenElse, Children
  <2> HIDE DEF r
  <2> QED BY <1>0, <2>1, <2>2, OverNode DEF r
<1>6. CASE x.k = "op"
  <2> DEFINE args == [i \in DOMAIN x.args |-> sub[x.args[i]]]
  <2>1. r = [x EXCEPT !.args = args] /\ x = Apply(x.op, x.args)
    BY <1>0, <1>6 DEF Rebuild, IsNode
  <2> HIDE DEF args
  <2>2. [Apply(x.op, x.args) EXCEPT !.args = args] = Apply(x.op, args)
    BY DEF Apply
  <2>3. r = Apply(x.op, args)
    BY <2>1, <2>2, Zenon
  <2>4. r.k = "op" /\ r.args = args
    BY <2>3 DEF Apply
  <2>5. Children(r) = {args[i] : i \in DOMAIN args}
    BY <2>4, Zenon DEF Children
  <2>6. \A i \in DOMAIN args : Over(K, args[i])
    BY <1>6 DEF args, Children
  <2> HIDE DEF r
  <2> QED BY <1>0, <2>4, <2>5, <2>6, OverNode DEF r
<1>7. CASE x.k \in {"var", "const", "bvar", "true", "false"}
  <2>1. Rebuild(x, sub) = x /\ Children(x) = {}
    BY <1>7 DEF Rebuild, Children
  <2> QED BY <1>7, <2>1, OverNode
<1> QED BY <1>0, <1>1, <1>2, <1>4, <1>5, <1>6, <1>7 DEF IsNode, IsTerm, IsFormula

-----------------------------------------------------------------------------

\* Conjunctions and disjunctions of what is made of the members of a set.
LEMMA ImagesOver ==
  ASSUME NEW K, NEW S, IsFiniteSet(S), NEW sub, \A z \in S : OverForm(K, sub[z])
  PROVE  OverForm(K, AndF({sub[z] : z \in S})) /\ OverForm(K, OrF({sub[z] : z \in S}))
<1>1. IsFiniteSet({sub[z] : z \in S})
  BY FiniteImage
<1> QED BY <1>1, AndOver

\* A term takes the place of a variable, which is not in the result unless a
\* Boolean variable has its name.
LEMMA SubstOver ==
  ASSUME NEW K, K.vars \subseteq K.names, NEW v, NEW x, WF(x), Over(With(K, {v}), x), NEW e, IsExpr(e), Over(K, e)
  PROVE  Over(K, Subst(x, v, e))
<1> DEFINE p == [v |-> v, e |-> e]
           T == {y \in Parts(x) : \A L : L.vars \subseteq L.names /\ Over(With(L, {v}), y) /\ Over(L, e)
                                            => Over(L, Subst(y, v, e))}
<1>1. ASSUME NEW y \in Parts(x), WF(y), Children(y) \subseteq T PROVE y \in T
  <2> DEFINE sub == [z \in Children(y) |-> Substitution!Visit(p, z)]
             s == Subst(y, v, e)
  <2> SUFFICES ASSUME NEW L, L.vars \subseteq L.names, Over(With(L, {v}), y), Over(L, e) PROVE Over(L, s)
    OBVIOUS
  <2>1. s = SubstStep(p, y, sub)
    <3>1. IsTree(y)
      BY <1>1 DEF WF
    <3>2. Substitution!Visit(p, y) = SubstStep(p, y, sub)
      BY <3>1, SubstNode
    <3> QED BY <3>2 DEF Subst
  <2>2. \A z \in Children(y) : sub[z] = Subst(z, v, e)
    BY DEF Subst
  <2> HIDE DEF sub, s
  <2>3. IsNode(y) /\ IsTree(y) /\ \A z \in Children(y) : WF(z)
    BY <1>1, WFChildren
  <2>4. \A z \in Children(y) : WF(sub[z]) /\ (IsTerm(z) => IsTerm(sub[z])) /\ (IsFormula(z) => IsFormula(sub[z]))
    BY <2>2, <2>3, SubstBuilds
  <2>5. With(L, {v}).vars = L.vars /\ With(L, {v}).names = L.names \cup {v} /\ With(L, {v}).forall = L.forall
    BY DEF With
  <2>6. s = IF y.k = "var" /\ y.v = v THEN e ELSE IF y.k = "forall" /\ v \in y.y THEN y ELSE Rebuild(y, sub)
    BY <2>1 DEF SubstStep
  <2>7. CASE y.k \in {"var", "bvar"}
    <3>1. s = e \/ s = y
      BY <2>6, <2>7 DEF Rebuild
    <3>2. FreeVars(y) = {y.v} /\ Children(y) = {}
      BY <2>3, <2>7, FreeVarsAre DEF Children
    <3>3. s = y => y.v \in L.names
      <4>1. y.k = "bvar" => y.v \in L.vars
        BY <1>1, <2>5, OverChildren
      <4>2. y.v \in L.names \cup {v}
        BY <2>5, <3>2 DEF Over
      <4>3. CASE y.k = "var" /\ y.v = v
        <5>1. s = e
          BY <2>6, <4>3
        <5> SUFFICES ASSUME e = y PROVE y.v \in L.names
          BY <5>1
        <5> QED BY <3>2 DEF Over
      <4> QED BY <2>7, <4>1, <4>2, <4>3
    <3>4. s = y => Over(L, y)
      BY <1>1, <2>5, <2>7, <3>2, <3>3, OverChildren, OverNode
    <3> QED BY <3>1, <3>4
  <2>8. CASE y.k = "forall" /\ v \in y.y
    <3>1. s = y
      BY <2>6, <2>8
    <3>2. FreeVars(y) = FreeVars(y.f) \ y.y
      BY <2>3, <2>8, FreeVarsAre
    <3>3. FreeVars(y) \subseteq L.names
      BY <2>5, <2>8, <3>2 DEF Over
    <3> QED BY <2>5, <3>1, <3>3 DEF Over
  <2>9. CASE y.k = "forall" /\ v \notin y.y
    <3> DEFINE M1 == With(L, y.y)
    <3>1. y.f \in Children(y) /\ IsFormula(y.f) /\ IsFiniteSet(y.y)
      BY <2>3, <2>9 DEF Children, IsNode
    <3>2. L.forall /\ Over(With(With(L, {v}), y.y), y.f) /\ \A u \in y.y : ~ IsDummy(u)
      BY <1>1, <2>5, <2>9, OverChildren
    <3>3. M1.vars \subseteq M1.names /\ Over(M1, e)
      BY OverWith DEF With
    <3>4. Over(With(M1, {v}), y.f)
      BY <3>2 DEF Over, With
    <3> HIDE DEF M1
    <3>5. Over(M1, sub[y.f])
      BY <1>1, <2>2, <3>1, <3>3, <3>4
    <3>6. OverForm(M1, sub[y.f])
      BY <2>4, <3>1, <3>5 DEF OverForm, IsForm
    <3>7. s = ForallF(y.y, sub[y.f])
      BY <2>6, <2>9 DEF Rebuild
    <3> QED BY <3>1, <3>2, <3>6, <3>7, ForallOver DEF M1, OverForm
  <2>10. CASE y.k \notin {"var", "bvar", "forall"}
    <3>1. \A z \in Children(y) : Over(With(L, {v}), z)
      BY <1>1, <2>10, OverChildren
    <3>2. \A z \in Children(y) : Over(L, sub[z])
      BY <1>1, <2>2, <3>1
    <3>3. s = Rebuild(y, sub)
      BY <2>6, <2>10
    <3> QED BY <1>1, <2>4, <2>10, <3>2, <3>3, RebuildOver
  <2> QED BY <2>7, <2>8, <2>9, <2>10
<1>2. x \in T
  <2> HIDE DEF T
  <2> QED BY <1>1, ShapeInduction
<1> QED BY <1>2

\* Putting numbers for variables brings no leaves.
LEMMA SubstAllOver ==
  ASSUME NEW K, K.vars \subseteq K.names, NEW vs, IsFiniteSet(vs), NEW f, OverForm(With(K, vs), f),
         NEW ubox, \A v \in vs : ubox[v] \in Intervals
  PROVE  OverForm(K, SubstAll(f, vs, ubox))
<1> DEFINE T == {D \in SUBSET vs : \A L : L.vars \subseteq L.names /\ OverForm(With(L, D), f)
                                             => OverForm(L, SubstAll(f, D, ubox))}
<1>1. ASSUME NEW D \in SUBSET vs, \A E \in SUBSET D : E # D => E \in T PROVE D \in T
  <2> SUFFICES ASSUME NEW L, L.vars \subseteq L.names, OverForm(With(L, D), f) PROVE OverForm(L, SubstAll(f, D, ubox))
    OBVIOUS
  <2>1. IsFiniteSet(D)
    BY FS_Subset
  <2>2. PointSubstitution!SubsetsAreInductive(D)
    BY <2>1, FiniteSetInduction DEF PointSubstitution!SubsetsAreInductive
  <2>3. /\ PointSubstitution!Fold(ubox, f, {}) = f
        /\ D # {} => PointSubstitution!Fold(ubox, f, D) =
             LET x == CHOOSE y \in D : TRUE IN SubstNext(ubox, x, PointSubstitution!Fold(ubox, f, D \ {x}))
    BY <2>2, PointSubstitution!FoldEquation
  <2>4. CASE D = {}
    <3>1. SubstAll(f, D, ubox) = f
      BY <2>3, <2>4 DEF SubstAll
    <3> QED BY <2>4, <3>1 DEF OverForm, Over, With
  <2>5. CASE D # {}
    <3>1. PICK x \in D : SubstAll(f, D, ubox) = Subst(SubstAll(f, D \ {x}, ubox), x, Constant(ubox[x].lo))
      BY <2>3, <2>5 DEF SubstAll, SubstNext
    <3>2. D \ {x} \in SUBSET D /\ D \ {x} # D
      BY <3>1
    <3> DEFINE g == SubstAll(f, D \ {x}, ubox)
               c == Constant(ubox[x].lo)
               W == With(L, {x})
    <3>3. W.vars \subseteq W.names /\ OverForm(With(W, D \ {x}), f)
      BY DEF OverForm, Over, With
    <3>4. OverForm(W, g)
      <4>1. D \ {x} \in T
        <5> HIDE DEF T
        <5> QED BY <1>1, <3>2
      <4> HIDE DEF W
      <4> QED BY <3>3, <4>1
    <3>5. IsExpr(c) /\ Over(L, c)
      BY LeafWF, OverLeaves DEF Constant, Intervals
    <3> HIDE DEF g, c
    <3>6. OverForm(L, Subst(g, x, c))
      BY <3>4, <3>5, SubstBuilds, SubstOver DEF OverForm, IsForm
    <3>7. SubstAll(f, D, ubox) = Subst(g, x, c)
      BY <3>1 DEF g, c
    <3> QED BY <3>6, <3>7
  <2> QED BY <2>4, <2>5
<1>3. vs \in T
  <2>1. SUBSET vs \subseteq T
    <3> HIDE DEF T
    <3> QED BY <1>1, FiniteSetInduction
  <2> QED BY <2>1
<1> QED BY <1>3

\* EliminatePointUniversals brings no leaves.
LEMMA EliminateOver ==
  ASSUME NEW K, K.vars \subseteq K.names, NEW f, OverForm(K, f), f.k = "forall"
  PROVE  OverForm(K, EliminatePointUniversals(f))
<1> DEFINE pinned == Pinned(f)
           ubox == UniversalBox(f)
           result == SubstAll(f.f, pinned, ubox)
           e == EliminatePointUniversals(f)
           L == With(K, f.y \ pinned)
<1>1. /\ OverForm(With(K, f.y), f.f) /\ IsFiniteSet(f.y) /\ K.forall
      /\ \A v \in f.y : ~ IsDummy(v)
  BY WFChildren, OverChildren DEF OverForm, IsForm, IsNode, Children
<1>2. ubox \in [f.y -> Intervals]
  BY UniversalBoxType DEF OverForm
<1>3. pinned \in SUBSET f.y
  BY DEF Pinned
<1>4. e = IF pinned = {} THEN f ELSE IF pinned = f.y THEN result ELSE ForallF(f.y \ pinned, result)
  BY Zenon DEF EliminatePointUniversals
<1> HIDE DEF ubox, pinned, e
<1>5. IsFiniteSet(pinned) /\ \A v \in pinned : ubox[v] \in Intervals
  BY <1>1, <1>2, <1>3, FS_Subset
<1>6. L.vars \subseteq L.names /\ OverForm(With(L, pinned), f.f)
  BY <1>1, <1>3 DEF OverForm, Over, With
<1> HIDE DEF L
<1>7. OverForm(L, result)
  BY <1>5, <1>6, SubstAllOver
<1>8. pinned = f.y => OverForm(K, result)
  BY <1>1, <1>5, SubstAllOver
<1> HIDE DEF result
<1>9. IsFiniteSet(f.y \ pinned) /\ \A v \in f.y \ pinned : ~ IsDummy(v)
  BY <1>1, FS_Subset
<1>10. OverForm(K, ForallF(f.y \ pinned, result))
  BY <1>1, <1>7, <1>9, ForallOver DEF L
<1>11. OverForm(K, e)
  BY <1>4, <1>8, <1>10, Zenon
<1> QED BY <1>11 DEF e

\* Nnfizer brings no leaves, with either sign.
LEMMA NnfOver ==
  ASSUME NEW K, NEW x, OverForm(K, x), NEW p
  PROVE  \A positive \in BOOLEAN : OverForm(K, Nnfizer!Visit(p, x)[positive])
<1> DEFINE N(y) == Nnfizer!Visit(p, y)
           T == {y \in Parts(x) : OverForm(K, y) => \A positive \in BOOLEAN : OverForm(K, N(y)[positive])}
<1>1. ASSUME NEW y \in Parts(x), WF(y), Children(y) \subseteq T PROVE y \in T
  <2> SUFFICES ASSUME OverForm(K, y), NEW positive \in BOOLEAN PROVE OverForm(K, N(y)[positive])
    OBVIOUS
  <2> DEFINE sub == [z \in Children(y) |-> N(z)]
             h == [g \in Children(y) |-> sub[g][positive]]
             operands == {h[g] : g \in Children(y)}
             Else == IF positive THEN y ELSE NotF(y)
  <2>1. N(y) = NnfStep(p, y, sub)
    BY <1>1, NnfNode DEF WF
  <2>2. \A z \in Children(y) : sub[z] = N(z)
    OBVIOUS
  <2>3. IsNode(y) /\ IsForm(y) /\ \A z \in Children(y) : WF(z) /\ (y.k # "forall" => Over(K, z))
    BY <1>1, WFChildren, OverChildren DEF OverForm
  <2> HIDE DEF N, sub
  <2>4. N(y)[positive] =
          CASE y.k = "not" -> sub[y.f][~positive]
            [] y.k \in {"and", "or"} -> IF positive <=> y.k = "and" THEN AndF(operands) ELSE OrF(operands)
            [] y.k = "rel" /\ ~positive /\ p -> Rel(NegateRelop(y.op), y.l, y.r)
            [] OTHER -> Else
    <3>1. {sub[g][positive] : g \in Children(y)} = operands
      OBVIOUS
    <3> HIDE DEF operands
    <3> QED BY <2>1, <3>1 DEF NnfStep
  <2>5. CASE y.k = "not"
    <3>1. y.f \in Children(y) /\ IsFormula(y.f)
      BY <2>3, <2>5 DEF Children, IsNode
    <3>2. OverForm(K, sub[y.f][~positive])
      BY <1>1, <2>2, <2>3, <2>5, <3>1 DEF OverForm, IsForm
    <3>3. N(y)[positive] = sub[y.f][~positive]
      BY <2>4, <2>5
    <3> QED BY <3>2, <3>3
  <2>6. CASE y.k \in {"and", "or"}
    <3>1. IsFiniteSet(Children(y)) /\ \A g \in Children(y) : IsFormula(g)
      BY <2>3, <2>6 DEF Children, IsNode, AreOperands
    <3>2. \A g \in Children(y) : OverForm(K, h[g])
      BY <1>1, <2>2, <2>3, <2>6, <3>1 DEF OverForm, IsForm
    <3> HIDE DEF h
    <3>3. OverForm(K, AndF(operands)) /\ OverForm(K, OrF(operands))
      BY <3>1, <3>2, ImagesOver
    <3> HIDE DEF operands
    <3>4. N(y)[positive] \in {AndF(operands), OrF(operands)}
      BY <2>4, <2>6
    <3> QED BY <3>3, <3>4
  <2>7. CASE y.k \notin {"not", "and", "or"}
    <3>1. OverForm(K, Else)
      BY NotOver
    <3>2. CASE y.k = "rel" /\ ~positive /\ p
      <4>1. IsExpr(y.l) /\ IsExpr(y.r) /\ y.op \in Relops /\ Over(K, y.l) /\ Over(K, y.r)
        BY <2>3, <3>2 DEF Children, IsNode, IsExpr
      <4>2. NegateRelop(y.op) \in Relops
        BY <4>1 DEF Relops, NegateRelop
      <4>3. OverForm(K, Rel(NegateRelop(y.op), y.l, y.r))
        BY <4>1, <4>2, RelOver
      <4> QED BY <2>4, <2>7, <3>2, <4>3
    <3>3. CASE ~ (y.k = "rel" /\ ~positive /\ p)
      <4>1. N(y)[positive] = Else
        <5> HIDE DEF Else, operands
        <5> QED BY <2>4, <2>7, <3>3
      <4> QED BY <3>1, <4>1
    <3> QED BY <3>2, <3>3
  <2> QED BY <2>5, <2>6, <2>7
<1>2. x \in T
  <2> HIDE DEF T
  <2> QED BY <1>1, ShapeInduction DEF OverForm, IsForm
<1> QED BY <1>2

\* The conjuncts of a formula are finitely many, and have no other leaves.
LEMMA ConjunctsOver ==
  ASSUME NEW K, NEW f, OverForm(K, f)
  PROVE  IsFiniteSet(GetClauses(f)) /\ \A c \in GetClauses(f) : OverForm(K, c)
<1>1. IsFiniteSet(GetClauses(f)) /\ \A c \in GetClauses(f) : IsForm(c)
  BY ClausesOf DEF OverForm
<1>2. \A c \in GetClauses(f) : Over(K, c)
  BY OverChildren DEF OverForm, IsForm, GetClauses, Children
<1> QED BY <1>1, <1>2 DEF OverForm

-----------------------------------------------------------------------------
(* The predicates of what the constructors build *)

\* The predicates of a formula are those of its operands, a relation and a
\* quantification being one itself.
LEMMA PredicatesAre ==
  ASSUME NEW x, WF(x)
  PROVE  /\ x.k \in {"rel", "forall"} => Predicates(x) = {x}
         /\ IsConnective(x) => Predicates(x) = UNION {Predicates(g) : g \in Children(x)}
         /\ x.k \notin {"rel", "forall"} /\ ~ IsConnective(x) => Predicates(x) = {}
<1> DEFINE sub == [z \in Children(x) |-> Predicates(z)]
<1>1. Predicates(x) = PredicatesStep(0, x, sub)
  BY PredicatesNode DEF WF
<1>2. {sub[g] : g \in Children(x)} = {Predicates(g) : g \in Children(x)}
  OBVIOUS
<1>3. x.k \in {"rel", "forall"} => Predicates(x) = {x}
  BY <1>1 DEF PredicatesStep, IsConnective
<1>4. IsConnective(x) => Predicates(x) = UNION {sub[g] : g \in Children(x)}
  BY <1>1 DEF PredicatesStep, IsConnective
<1>5. x.k \notin {"rel", "forall"} /\ ~ IsConnective(x) => Predicates(x) = {}
  BY <1>1 DEF PredicatesStep
<1> QED BY <1>2, <1>3, <1>4, <1>5, Zenon

\* What a literal is about: a relation or a quantification.
IsPredicate(p) == IsForm(p) /\ p.k \in {"rel", "forall"}

\* A formula has finitely many predicates, which are parts of it.
LEMMA PredicatesType ==
  ASSUME NEW x, WF(x)
  PROVE  /\ IsFiniteSet(Predicates(x))
         /\ Predicates(x) \subseteq Parts(x)
         /\ \A p \in Predicates(x) : IsPredicate(p) /\ FreeVars(p) \subseteq FreeVars(x)
<1> DEFINE T == {y \in Parts(x) : /\ IsFiniteSet(Predicates(y))
                                  /\ Predicates(y) \subseteq Parts(y)
                                  /\ \A p \in Predicates(y) : IsPredicate(p) /\ FreeVars(p) \subseteq FreeVars(y)}
<1>1. ASSUME NEW y \in Parts(x), WF(y), Children(y) \subseteq T PROVE y \in T
  <2> DEFINE P == Predicates(y)
  <2> SUFFICES /\ IsFiniteSet(P) /\ P \subseteq Parts(y)
               /\ \A p \in P : IsPredicate(p) /\ FreeVars(p) \subseteq FreeVars(y)
    OBVIOUS
  <2>1. IsFiniteSet(Children(y)) /\ y \in Parts(y) /\ \A z \in Children(y) : Parts(z) \subseteq Parts(y)
    BY <1>1, WFChildren, FiniteChildren, PartsOfTree DEF WF
  <2>2. \A z \in Children(y) : /\ IsFiniteSet(Predicates(z))
                               /\ Predicates(z) \subseteq Parts(z)
                               /\ \A p \in Predicates(z) : IsPredicate(p) /\ FreeVars(p) \subseteq FreeVars(z)
    BY <1>1
  <2>3. CASE y.k \in {"rel", "forall"}
    <3>1. P = {y}
      BY <1>1, <2>3, PredicatesAre
    <3>2. IsPredicate(y)
      BY <1>1, <2>3 DEF IsPredicate, IsForm, IsFormula
    <3> QED BY <2>1, <3>1, <3>2, FS_Singleton
  <2>4. CASE IsConnective(y)
    <3> DEFINE h == [z \in Children(y) |-> Predicates(z)]
               below == {h[z] : z \in Children(y)}
    <3>1. {Predicates(g) : g \in Children(y)} = below
      OBVIOUS
    <3>2. P = UNION {Predicates(g) : g \in Children(y)}
      BY <1>1, <2>4, PredicatesAre
    <3>3. \A z \in Children(y) : h[z] = Predicates(z)
      OBVIOUS
    <3> HIDE DEF h, P
    <3>4. IsFiniteSet(below)
      BY <2>1, FiniteImage
    <3> DEFINE All(S) == \A p \in S : IsPredicate(p) /\ FreeVars(p) \subseteq FreeVars(y)
    <3>9. \A z \in Children(y) : FreeVars(z) \subseteq FreeVars(y)
      BY <1>1, <2>4, FreeVarsAre DEF WF, IsConnective
    <3>5. \A S \in below : IsFiniteSet(S) /\ S \subseteq Parts(y) /\ All(S)
      BY <2>1, <2>2, <3>3, <3>9
    <3> HIDE DEF below
    <3>6. P = UNION below
      BY <3>1, <3>2, Zenon
    <3>7. IsFiniteSet(UNION below)
      BY <3>4, <3>5, FS_UNION
    <3>8. IsFiniteSet(P)
      BY <3>6, <3>7, Zenon
    <3>10. P \subseteq Parts(y) /\ All(P)
      BY <3>5, <3>6
    <3> QED BY <3>8, <3>10
  <2>5. CASE y.k \notin {"rel", "forall"} /\ ~ IsConnective(y)
    <3>1. P = {}
      BY <1>1, <2>5, PredicatesAre
    <3> QED BY <3>1, FS_EmptySet
  <2> QED BY <2>3, <2>4, <2>5
<1>2. x \in T
  <2> HIDE DEF T
  <2> QED BY <1>1, ShapeInduction
<1> QED BY <1>2

\* Truth values and Boolean variables have none.
LEMMA PredicatesOfLeaves ==
  /\ Predicates(TrueF) = {} /\ Predicates(FalseF) = {}
  /\ \A v : Predicates(BoolVar(v)) = {}
<1>1. WF(TrueF) /\ TrueF.k = "true" /\ WF(FalseF) /\ FalseF.k = "false"
  BY LeafWF DEF IsForm, TrueF, FalseF
<1>2. \A v : WF(BoolVar(v)) /\ BoolVar(v).k = "bvar"
  BY LeafWF DEF IsForm, BoolVar
<1>3. \A x : WF(x) /\ x.k \in {"true", "false", "bvar"} => Predicates(x) = {}
  BY PredicatesAre DEF IsConnective
<1> QED BY <1>1, <1>2, <1>3

\* A relation is its only predicate, or is a truth value.
LEMMA PredicatesOfRel ==
  ASSUME NEW op \in Relops, NEW l, NEW r, IsExpr(l), IsExpr(r)
  PROVE  Predicates(Rel(op, l, r)) \subseteq {Rel(op, l, r)}
<1> DEFINE x == Rel(op, l, r)
<1>1. WF(x)
  BY RelWF DEF IsForm
<1>2. CASE x = [k |-> "rel", op |-> op, l |-> l, r |-> r]
  <2>1. x.k = "rel"
    BY <1>2
  <2> HIDE DEF x
  <2> QED BY <1>1, <2>1, PredicatesAre DEF x
<1>3. CASE x \in {TrueF, FalseF}
  BY <1>3, PredicatesOfLeaves
<1> QED BY <1>2, <1>3, RelWF

\* A negation has the predicates of what it negates.
LEMMA PredicatesOfNot ==
  ASSUME NEW f, IsForm(f)
  PROVE  Predicates(NotF(f)) = Predicates(f)
<1> DEFINE x == NotF(f)
<1>0. WF(f) /\ WF(x) /\ IsNode(f)
  BY NotWF, WFChildren DEF IsForm
<1>1. CASE f.k \in {"true", "false"}
  <2>1. f \in {TrueF, FalseF} /\ x \in {TrueF, FalseF}
    BY <1>0, <1>1 DEF IsNode, NotF
  <2> QED BY <2>1, PredicatesOfLeaves
<1>2. CASE f.k = "not"
  <2>1. x = f.f /\ Children(f) = {f.f} /\ IsConnective(f)
    BY <1>2 DEF NotF, Children, IsConnective
  <2> HIDE DEF x
  <2>2. Predicates(f) = UNION {Predicates(g) : g \in Children(f)}
    BY <1>0, <2>1, PredicatesAre
  <2> QED BY <2>1, <2>2 DEF x
<1>3. CASE f.k \notin {"true", "false", "not"}
  <2>1. x.k = "not" /\ Children(x) = {f} /\ IsConnective(x)
    BY <1>3 DEF NotF, Children, IsConnective
  <2> HIDE DEF x
  <2>2. Predicates(x) = UNION {Predicates(g) : g \in Children(x)}
    BY <1>0, <2>1, PredicatesAre
  <2> QED BY <2>1, <2>2 DEF x
<1> QED BY <1>1, <1>2, <1>3

\* Merged operands have no other predicates than the operands.
LEMMA PredicatesOfNary ==
  ASSUME NEW fs, IsFiniteSet(fs), \A f \in fs : IsForm(f), NEW kind \in {"and", "or"}, NEW unit, NEW zero,
         <<kind, unit, zero>> \in {<<"and", TrueF, FalseF>>, <<"or", FalseF, TrueF>>}
  PROVE  Predicates(Nary(kind, unit, zero, fs)) \subseteq UNION {Predicates(f) : f \in fs}
<1> DEFINE x == Nary(kind, unit, zero, fs)
           merged == Merged(kind, unit, fs)
           all == UNION {Predicates(f) : f \in fs}
<1> SUFFICES Predicates(x) \subseteq all
  OBVIOUS
<1>1. WF(x)
  BY NaryWF DEF IsForm
<1>2. CASE x \in {TrueF, FalseF}
  <2> HIDE DEF x
  <2> QED BY <1>2, PredicatesOfLeaves
<1>3. ASSUME NEW g \in merged PROVE Predicates(g) \subseteq all
  <2>1. PICK f \in fs : g \in IF f.k = kind THEN f.s ELSE {f}
    BY DEF Merged
  <2>2. CASE f.k = kind
    <3>1. WF(f) /\ g \in Children(f) /\ IsConnective(f)
      BY <2>1, <2>2 DEF IsForm, Children, IsConnective
    <3>2. Predicates(g) \subseteq Predicates(f)
      BY <3>1, PredicatesAre
    <3> QED BY <3>2
  <2>3. CASE f.k # kind
    BY <2>1, <2>3
  <2> QED BY <2>2, <2>3
<1>4. CASE merged # {} /\ x = CHOOSE f \in merged : TRUE
  <2> HIDE DEF merged, x, all
  <2> QED BY <1>3, <1>4
<1>5. CASE x = [k |-> kind, s |-> merged]
  <2> HIDE DEF merged, x, all
  <2>1. x.k \in {"and", "or"} /\ Children(x) = merged /\ IsConnective(x)
    BY <1>5 DEF Children, IsConnective
  <2>2. Predicates(x) = UNION {Predicates(z) : z \in merged}
    BY <1>1, <2>1, PredicatesAre
  <2> QED BY <1>3, <2>2
<1> QED BY <1>2, <1>4, <1>5, NaryIs

\* The same, of conjunctions and disjunctions by their names.
LEMMA PredicatesOfAnd ==
  ASSUME NEW fs, IsFiniteSet(fs), \A f \in fs : IsForm(f)
  PROVE  /\ Predicates(AndF(fs)) \subseteq UNION {Predicates(f) : f \in fs}
         /\ Predicates(OrF(fs)) \subseteq UNION {Predicates(f) : f \in fs}
  BY PredicatesOfNary DEF AndF, OrF

-----------------------------------------------------------------------------
(* The normaliser *)

\* What is inserted in the trie for a predicate.
Inserted(p) == IF p.k = "forall" \/ p.op \in NormalKinds THEN p ELSE Rel(NegateRelop(p.op), p.l, p.r)

\* PredicateNormalizer brings no leaves, and every predicate it leaves is the
\* one that is inserted for a predicate of the formula: an == or a >= or a >
\* never reaches the SAT solver.
LEMMA NormalizeOver ==
  ASSUME NEW K, NEW x, OverForm(K, x)
  PROVE  /\ OverForm(K, Normalize(x))
         /\ Predicates(Normalize(x)) \subseteq InsertedAtoms(x)
<1> DEFINE T == {y \in Parts(x) : OverForm(K, y) => /\ OverForm(K, Normalize(y))
                                                    /\ Predicates(Normalize(y)) \subseteq InsertedAtoms(y)}
<1>1. ASSUME NEW y \in Parts(x), WF(y), Children(y) \subseteq T PROVE y \in T
  <2> DEFINE N == Normalize(y)
             sub == [z \in Children(y) |-> Normalize(z)]
  <2> SUFFICES ASSUME OverForm(K, y) PROVE OverForm(K, N) /\ Predicates(N) \subseteq InsertedAtoms(y)
    OBVIOUS
  <2>1. N = NormalizeStep(0, y, sub)
    BY <1>1, NormalizeNode DEF WF
  <2>2. \A z \in Children(y) : sub[z] = Normalize(z)
    OBVIOUS
  <2>3. IsNode(y) /\ IsForm(y) /\ \A z \in Children(y) : WF(z) /\ (y.k # "forall" => Over(K, z))
    BY <1>1, WFChildren, OverChildren DEF OverForm
  <2>4. InsertedAtoms(y) = {Inserted(p) : p \in Predicates(y)}
    BY DEF InsertedAtoms, Inserted
  <2> HIDE DEF N, sub
  <2>5. CASE y.k = "rel" /\ y.op \notin NormalKinds
    <3> DEFINE r == Rel(NegateRelop(y.op), y.l, y.r)
    <3>1. IsExpr(y.l) /\ IsExpr(y.r) /\ y.op \in Relops /\ Over(K, y.l) /\ Over(K, y.r)
      BY <2>3, <2>5 DEF Children, IsNode, IsExpr
    <3>2. NegateRelop(y.op) \in Relops
      BY <3>1 DEF Relops, NegateRelop
    <3>3. OverForm(K, r) /\ Predicates(r) \subseteq {r}
      BY <3>1, <3>2, RelOver, PredicatesOfRel
    <3>4. N = NotF(r)
      BY <2>1, <2>5 DEF NormalizeStep, IsConnective
    <3>5. Predicates(y) = {y} /\ Inserted(y) = r
      BY <1>1, <2>5, PredicatesAre DEF Inserted
    <3> HIDE DEF r
    <3>6. Predicates(N) = Predicates(r)
      BY <3>3, <3>4, PredicatesOfNot DEF OverForm
    <3>7. r \in InsertedAtoms(y)
      BY <2>4, <3>5
    <3> QED BY <3>3, <3>4, <3>6, <3>7, NotOver
  <2>6. CASE IsConnective(y)
    <3>1. \A z \in Children(y) : IsFormula(z)
      BY <2>3, <2>6 DEF IsConnective, Children, IsNode, AreOperands
    <3>2. \A z \in Children(y) : OverForm(K, sub[z]) /\ Predicates(sub[z]) \subseteq InsertedAtoms(z)
      BY <1>1, <2>2, <2>3, <2>6, <3>1 DEF OverForm, IsForm, IsConnective
    <3>3. \A z \in Children(y) : Predicates(z) \subseteq Predicates(y)
      BY <1>1, <2>6, PredicatesAre
    <3>4. \A z \in Children(y) : Predicates(sub[z]) \subseteq InsertedAtoms(y)
      BY <3>2, <3>3 DEF InsertedAtoms
    <3>5. CASE y.k = "not"
      <4>1. N = NotF(sub[y.f]) /\ y.f \in Children(y)
        BY <2>1, <2>6, <3>5 DEF NormalizeStep, Rebuild, Children
      <4> QED BY <3>2, <3>4, <4>1, NotOver, PredicatesOfNot DEF OverForm
    <3>6. CASE y.k \in {"and", "or"}
      <4> DEFINE fs == {sub[z] : z \in Children(y)}
      <4>1. {sub[g] : g \in y.s} = fs /\ IsFiniteSet(Children(y))
        BY <2>3, <3>6, FiniteChildren DEF Children
      <4>2. N \in {AndF(fs), OrF(fs)}
        <5> HIDE DEF fs
        <5> QED BY <2>1, <2>6, <3>6, <4>1 DEF NormalizeStep, Rebuild
      <4>3. OverForm(K, AndF(fs)) /\ OverForm(K, OrF(fs))
        BY <3>2, <4>1, ImagesOver
      <4>4. IsFiniteSet(fs)
        BY <4>1, FiniteImage
      <4>5. \A f \in fs : IsForm(f) /\ Predicates(f) \subseteq InsertedAtoms(y)
        BY <3>2, <3>4 DEF OverForm
      <4> HIDE DEF fs
      <4>6. Predicates(N) \subseteq UNION {Predicates(f) : f \in fs}
        BY <4>2, <4>4, <4>5, PredicatesOfAnd
      <4> QED BY <4>2, <4>3, <4>5, <4>6
    <3> QED BY <2>6, <3>5, <3>6 DEF IsConnective
  <2>7. CASE ~ (y.k = "rel" /\ y.op \notin NormalKinds) /\ ~ IsConnective(y)
    <3>1. N = y
      BY <2>1, <2>7 DEF NormalizeStep
    <3>2. \A p \in Predicates(y) : p = y /\ Inserted(p) = p
      BY <1>1, <2>7, PredicatesAre DEF Inserted
    <3>3. Predicates(y) \subseteq InsertedAtoms(y)
      BY <2>4, <3>2
    <3> QED BY <3>1, <3>3
  <2> QED BY <2>5, <2>6, <2>7
<1>2. x \in T
  <2> HIDE DEF T
  <2> QED BY <1>1, ShapeInduction DEF OverForm, IsForm
<1> QED BY <1>2

-----------------------------------------------------------------------------
(* IfThenElseEliminator *)

\* A definition of an if-then-else: finitely many conditions, and a formula.
IsDefinition(K, d) == /\ IsFiniteSet(d.path) /\ \A g \in d.path : OverForm(K, g)
                      /\ OverForm(K, d.def)

\* What IfThenElseEliminator returns for a node, with the definitions and the
\* variables that go with it.
IsVisit(K, r) ==
  /\ r = [result |-> r.result, vars |-> r.vars, added |-> r.added]
  /\ WF(r.result) /\ Over(With(K, r.vars), r.result)
  /\ IsFiniteSet(r.vars) /\ \A v \in r.vars : ~ IsDummy(v)
  /\ IsFiniteSet(r.added) /\ \A d \in r.added : IsDefinition(With(K, r.vars), d)

\* A definition over K is one over K with more variables.
LEMMA DefinitionMore ==
  ASSUME NEW K, NEW more, NEW less, less \subseteq more, NEW d, IsDefinition(With(K, less), d)
  PROVE  IsDefinition(With(K, more), d)
BY OverWith DEF IsDefinition

\* A definition as the clause that is added to the formula.
LEMMA DefinitionOver ==
  ASSUME NEW K, NEW d, IsDefinition(K, d)
  PROVE  OverForm(K, OrF({NotF(AndF(d.path)), d.def}))
<1>1. OverForm(K, NotF(AndF(d.path)))
  BY AndOver, NotOver DEF IsDefinition
<1>2. IsFiniteSet({NotF(AndF(d.path)), d.def})
  BY FinitePairs
<1>3. \A f \in {NotF(AndF(d.path)), d.def} : OverForm(K, f)
  BY <1>1 DEF IsDefinition
<1> QED BY <1>2, <1>3, AndOver

\* A result with the clauses of its definitions.
LEMMA ProcessedOver ==
  ASSUME NEW J, NEW r, IsVisit(J, r), IsFormula(r.result)
  PROVE  OverForm(With(J, r.vars), Processed(r))
<1> DEFINE K == With(J, r.vars)
           h == [d \in r.added |-> OrF({NotF(AndF(d.path)), d.def})]
           S == r.added
           clause == AndF(Added(r.added))
<1>1. Added(r.added) = {h[d] : d \in S}
  BY DEF Added
<1>2. \A d \in S : OverForm(K, h[d])
  <2>1. \A d \in S : IsDefinition(K, d)
    BY DEF IsVisit
  <2> HIDE DEF K
  <2> QED BY <2>1, DefinitionOver
<1>3. IsFiniteSet(S)
  BY DEF IsVisit
<1> HIDE DEF h, S
<1>4. OverForm(K, AndF({h[d] : d \in S}))
  BY <1>2, <1>3, ImagesOver
<1>5. OverForm(K, clause)
  BY <1>1, <1>4, Zenon
<1>6. OverForm(K, r.result)
  BY DEF IsVisit, OverForm, IsForm
<1> HIDE DEF clause, K
<1>7. IsFiniteSet({r.result, clause}) /\ \A f \in {r.result, clause} : OverForm(K, f)
  BY <1>5, <1>6, FinitePairs
<1>8. OverForm(K, AndF({r.result, clause}))
  BY <1>7, AndOver
<1>9. Processed(r) = r.result \/ Processed(r) = AndF({r.result, clause})
  BY DEF Processed, clause
<1> QED BY <1>6, <1>8, <1>9, Zenon DEF K

\* The definitions of a branch, where a condition holds.
Under(new, g, b) == {[path |-> d.path \cup {g}, def |-> d.def] :
                       d \in b.added \cup {[path |-> {}, def |-> Rel("eq", Variable(new), b.result)]}}

\* The definitions of a branch stay finitely many, and over K.
LEMMA UnderOver ==
  ASSUME NEW K, NEW new, new \in K.names, NEW g, OverForm(K, g), NEW b, IsTerm(b.result), WF(b.result), Over(K, b.result),
         IsFiniteSet(b.added), \A d \in b.added : IsDefinition(K, d)
  PROVE  IsFiniteSet(Under(new, g, b)) /\ \A d \in Under(new, g, b) : IsDefinition(K, d)
<1> DEFINE own == [path |-> {}, def |-> Rel("eq", Variable(new), b.result)]
           S == b.added \cup {own}
           h == [d \in S |-> [path |-> d.path \cup {g}, def |-> d.def]]
<1>1. IsDefinition(K, own)
  <2>1. IsExpr(Variable(new)) /\ Over(K, Variable(new)) /\ IsExpr(b.result) /\ Over(K, b.result) /\ "eq" \in Relops
    BY LeafWF, OverLeaves DEF IsExpr, Relops
  <2>2. OverForm(K, own.def)
    BY <2>1, RelOver
  <2>3. own.path = {} /\ IsFiniteSet({})
    BY FS_EmptySet
  <2> HIDE DEF own
  <2> QED BY <2>2, <2>3 DEF IsDefinition
<1>2. IsFiniteSet(S)
  BY FS_Singleton, FS_Union
<1>3. \A d \in S : IsDefinition(K, d)
  BY <1>1
<1>4. Under(new, g, b) = {h[d] : d \in S}
  BY DEF Under
<1> HIDE DEF S
<1>5. ASSUME NEW d \in S PROVE IsDefinition(K, h[d])
  <2>1. IsFiniteSet(d.path \cup {g}) /\ \A f \in d.path \cup {g} : OverForm(K, f)
    BY <1>3, FS_Singleton, FS_Union DEF IsDefinition
  <2>2. OverForm(K, d.def)
    BY <1>3 DEF IsDefinition
  <2>3. h[d].path = d.path \cup {g} /\ h[d].def = d.def
    OBVIOUS
  <2> HIDE DEF h
  <2> QED BY <2>1, <2>2, <2>3 DEF IsDefinition
<1> HIDE DEF h
<1>6. IsFiniteSet({h[d] : d \in S})
  BY <1>2, FiniteImage
<1> QED BY <1>4, <1>5, <1>6

\* An if-then-else expression is replaced by a term, and its definitions are
\* over K.
LEMMA VisitIteOver ==
  ASSUME NEW J, NEW n, NEW e, NEW sub, \A z \in {e.c, e.a, e.b} : IsVisit(J, sub[z]),
         IsFormula(sub[e.c].result), IsTerm(sub[e.a].result), IsTerm(sub[e.b].result)
  PROVE  IsVisit(J, VisitIfThenElse(n, e, sub)) /\ IsTerm(VisitIfThenElse(n, e, sub).result)
<1> DEFINE new == ITEVar(n, e)
           condition == sub[e.c].result
           r == VisitIfThenElse(n, e, sub)
           all == {new} \cup sub[e.c].vars \cup sub[e.a].vars \cup sub[e.b].vars
           K == With(J, all)
<1>1. r = [result |-> Variable(new), vars |-> all,
           added  |-> sub[e.c].added \cup Under(new, condition, sub[e.a]) \cup Under(new, NotF(condition), sub[e.b])]
  BY DEF VisitIfThenElse, Under
<1>2. ASSUME NEW z \in {e.c, e.a, e.b}
      PROVE  /\ WF(sub[z].result) /\ Over(K, sub[z].result)
             /\ IsFiniteSet(sub[z].added) /\ \A d \in sub[z].added : IsDefinition(K, d)
  <2>1. sub[z].vars \subseteq all
    OBVIOUS
  <2> HIDE DEF all
  <2> QED BY <2>1, OverWith, DefinitionMore DEF IsVisit
<1>3. new \in K.names /\ ~ IsDummy(new)
  BY DEF With, IsDummy, ITEVar
<1>4. IsFiniteSet(all) /\ \A v \in all : ~ IsDummy(v)
  <2>1. /\ IsFiniteSet(sub[e.c].vars) /\ IsFiniteSet(sub[e.a].vars) /\ IsFiniteSet(sub[e.b].vars) /\ IsFiniteSet({new})
        /\ \A v \in sub[e.c].vars \cup sub[e.a].vars \cup sub[e.b].vars : ~ IsDummy(v)
    BY FS_Singleton DEF IsVisit
  <2> HIDE DEF new
  <2> QED BY <1>3, <2>1, FS_Union
<1> HIDE DEF all, K, new, r
<1>5. OverForm(K, condition) /\ OverForm(K, NotF(condition))
  BY <1>2, NotOver DEF OverForm, IsForm
<1> HIDE DEF condition
<1> DEFINE A == Under(new, condition, sub[e.a])
           B == Under(new, NotF(condition), sub[e.b])
<1>6. /\ IsFiniteSet(A) /\ \A d \in A : IsDefinition(K, d)
      /\ IsFiniteSet(B) /\ \A d \in B : IsDefinition(K, d)
  BY <1>2, <1>3, <1>5, UnderOver
<1>7. r.added = sub[e.c].added \cup A \cup B /\ r.vars = all /\ r.result = Variable(new)
      /\ r = [result |-> r.result, vars |-> r.vars, added |-> r.added]
  BY <1>1
<1> HIDE DEF A, B
<1>8. IsFiniteSet(r.added) /\ \A d \in r.added : IsDefinition(K, d)
  BY <1>2, <1>6, <1>7, FS_Union
<1>9. WF(r.result) /\ Over(K, r.result) /\ IsTerm(r.result)
  BY <1>3, <1>7, LeafWF, OverLeaves DEF IsExpr
<1>10. K = With(J, r.vars)
  BY <1>7 DEF K
<1> QED BY <1>4, <1>7, <1>8, <1>9, <1>10 DEF IsVisit, r

\* The definitions under a quantifier stay under it.
LEMMA VisitForallOver ==
  ASSUME NEW K, K.forall, NEW f, IsFiniteSet(f.y), \A v \in f.y : ~ IsDummy(v),
         NEW m, IsVisit(With(K, f.y), m), IsFormula(m.result)
  PROVE  IsVisit(K, VisitQuantified(f, m)) /\ IsFormula(VisitQuantified(f, m).result)
<1> DEFINE negated == [m EXCEPT !.result = NotF(@)]
           eliminated == Processed(negated)
           normal == Nnf(NotF(eliminated), FALSE)
           result == ForallF(f.y \cup m.vars, normal)
           J == With(K, f.y)
           L == With(K, f.y \cup m.vars)
<1>1. negated = [result |-> NotF(m.result), vars |-> m.vars, added |-> m.added]
  <2> DEFINE a == m.result
             b == m.vars
             c == m.added
             m2 == [result |-> a, vars |-> b, added |-> c]
  <2>1. m = m2
    BY DEF IsVisit
  <2>2. [m2 EXCEPT !.result = NotF(@)] = [result |-> NotF(a), vars |-> b, added |-> c]
    <3> HIDE DEF a, b, c
    <3> QED OBVIOUS
  <2>3. [m EXCEPT !.result = NotF(@)] = [m2 EXCEPT !.result = NotF(@)]
    <3> HIDE DEF m2
    <3> QED BY <2>1, Zenon
  <2> HIDE DEF m2
  <2> QED BY <2>2, <2>3, Zenon
<1>2. OverForm(With(J, m.vars), m.result)
  BY DEF IsVisit, OverForm, IsForm
<1>3. OverForm(With(J, m.vars), NotF(m.result))
  BY <1>2, NotOver
<1>4. negated.result = NotF(m.result) /\ negated.vars = m.vars /\ negated.added = m.added
  BY <1>1
<1>5. IsVisit(J, negated) /\ IsFormula(negated.result)
  <2>1. negated = [result |-> negated.result, vars |-> negated.vars, added |-> negated.added]
    BY <1>1
  <2> HIDE DEF negated
  <2> QED BY <1>3, <1>4, <2>1 DEF IsVisit, OverForm, IsForm
<1> HIDE DEF negated
<1>6. OverForm(With(J, m.vars), NotF(eliminated))
  BY <1>4, <1>5, ProcessedOver, NotOver
<1> HIDE DEF eliminated
<1>7. OverForm(L, NotF(eliminated))
  BY <1>6 DEF OverForm, Over, With
<1> HIDE DEF L
<1>8. OverForm(L, normal)
  BY <1>7, NnfOver DEF Nnf
<1> HIDE DEF normal
<1>9. IsFiniteSet(f.y \cup m.vars) /\ \A v \in f.y \cup m.vars : ~ IsDummy(v)
  BY FS_Union DEF IsVisit
<1>10. OverForm(K, result)
  BY <1>8, <1>9, ForallOver DEF L
<1>11. VisitQuantified(f, m) = [result |-> result, vars |-> {}, added |-> {}]
  BY DEF VisitQuantified, NoITE, result, normal, eliminated, negated
<1> HIDE DEF result
<1>12. OverForm(With(K, {}), result)
  BY <1>10, OverWith
<1> QED BY <1>11, <1>12, FS_EmptySet DEF IsVisit, OverForm, IsForm

\* Finitely many finite sets have a finite union.
LEMMA UnionOfImages ==
  ASSUME NEW S, IsFiniteSet(S), NEW h, \A z \in S : IsFiniteSet(h[z])
  PROVE  IsFiniteSet(UNION {h[z] : z \in S})
<1>1. IsFiniteSet({h[z] : z \in S})
  BY FiniteImage
<1>2. \A T \in {h[z] : z \in S} : IsFiniteSet(T)
  OBVIOUS
<1> QED BY <1>1, <1>2, FS_UNION

\* IfThenElseEliminator brings no leaves, makes terms of terms, and formulas
\* of formulas.
LEMMA VisitITEOver ==
  ASSUME NEW K, NEW x, WF(x), Over(K, x), NEW n
  PROVE  /\ IsVisit(K, VisitITE(n, x))
         /\ IsTerm(x) => IsTerm(VisitITE(n, x).result)
         /\ IsFormula(x) => IsFormula(VisitITE(n, x).result)
<1> DEFINE V(y) == VisitITE(n, y)
           Good(L, y) == /\ IsVisit(L, V(y))
                         /\ IsTerm(y) => IsTerm(V(y).result)
                         /\ IsFormula(y) => IsFormula(V(y).result)
           T == {y \in Parts(x) : \A L : Over(L, y) => Good(L, y)}
<1>1. ASSUME NEW y \in Parts(x), WF(y), Children(y) \subseteq T PROVE y \in T
  <2> SUFFICES ASSUME NEW L, Over(L, y) PROVE Good(L, y)
    OBVIOUS
  <2> DEFINE sub == [z \in Children(y) |-> V(z)]
  <2>1. V(y) = ITEStep(n, y, sub)
    BY <1>1, ITENode DEF WF
  <2>2. IsNode(y) /\ \A z \in Children(y) : WF(z)
    BY <1>1, WFChildren
  <2>3. \A z \in Children(y) : sub[z] = V(z) /\ \A J : Over(J, z) => Good(J, z)
    <3> HIDE DEF Good, V
    <3> QED BY <1>1, <2>2
  <2> HIDE DEF sub, V
  <2>4. y.k # "forall" => \A z \in Children(y) : /\ IsVisit(L, sub[z])
                                                 /\ IsTerm(z) => IsTerm(sub[z].result)
                                                 /\ IsFormula(z) => IsFormula(sub[z].result)
    BY <1>1, <2>3, OverChildren
  <2>5. CASE y.k = "ite"
    <3>1. /\ \A z \in {y.c, y.a, y.b} : z \in Children(y)
          /\ IsFormula(y.c) /\ IsTerm(y.a) /\ IsTerm(y.b)
      BY <2>2, <2>5 DEF Children, IsNode
    <3>2. V(y) = VisitIfThenElse(n, y, sub)
      BY <2>1, <2>5 DEF ITEStep
    <3>3. IsVisit(L, V(y)) /\ IsTerm(V(y).result)
      BY <2>4, <2>5, <3>1, <3>2, VisitIteOver
    <3>4. ~ IsFormula(y)
      BY <2>5 DEF IsFormula
    <3> QED BY <3>3, <3>4
  <2>6. CASE y.k = "forall"
    <3>1. y.f \in Children(y) /\ IsFormula(y.f) /\ IsFiniteSet(y.y)
      BY <2>2, <2>6 DEF Children, IsNode
    <3>5. L.forall /\ Over(With(L, y.y), y.f) /\ \A v \in y.y : ~ IsDummy(v)
      BY <1>1, <2>6, OverChildren
    <3>6. IsVisit(With(L, y.y), sub[y.f]) /\ IsFormula(sub[y.f].result)
      BY <2>3, <3>1, <3>5
    <3>2. V(y) = VisitQuantified(y, sub[y.f])
      BY <2>1, <2>6 DEF ITEStep
    <3>3. IsVisit(L, V(y)) /\ IsFormula(V(y).result)
      BY <3>1, <3>2, <3>5, <3>6, VisitForallOver
    <3>4. ~ IsTerm(y)
      BY <2>6 DEF IsTerm
    <3> QED BY <3>3, <3>4
  <2>7. CASE y.k \notin {"ite", "forall"}
    <3> DEFINE results == [z \in Children(y) |-> sub[z].result]
               hv == [z \in Children(y) |-> sub[z].vars]
               ha == [z \in Children(y) |-> sub[z].added]
               vs == UNION {hv[z] : z \in Children(y)}
               ds == UNION {ha[z] : z \in Children(y)}
    <3>1. V(y) = [result |-> Rebuild(y, results), vars |-> vs, added |-> ds]
      <4>1. {sub[z].vars : z \in Children(y)} = {hv[z] : z \in Children(y)}
        OBVIOUS
      <4>2. {sub[z].added : z \in Children(y)} = {ha[z] : z \in Children(y)}
        OBVIOUS
      <4>3. V(y) = [result |-> Rebuild(y, results), vars |-> UNION {sub[z].vars : z \in Children(y)},
                    added |-> UNION {sub[z].added : z \in Children(y)}]
        BY <2>1, <2>7 DEF ITEStep
      <4> HIDE DEF hv, ha, results
      <4> QED BY <4>1, <4>2, <4>3, Zenon
    <3>2. IsFiniteSet(Children(y))
      BY <2>2, FiniteChildren
    <3> DEFINE K2 == With(L, vs)
    <3>3. \A z \in Children(y) : hv[z] = sub[z].vars /\ ha[z] = sub[z].added /\ results[z] = sub[z].result /\ hv[z] \subseteq vs
      OBVIOUS
    <3> HIDE DEF results, hv, ha
    <3>4. \A z \in Children(y) : /\ WF(results[z]) /\ Over(K2, results[z])
                                 /\ IsTerm(z) => IsTerm(results[z])
                                 /\ IsFormula(z) => IsFormula(results[z])
                                 /\ IsFiniteSet(hv[z]) /\ \A v \in hv[z] : ~ IsDummy(v)
                                 /\ IsFiniteSet(ha[z]) /\ \A d \in ha[z] : IsDefinition(K2, d)
      <4> HIDE DEF vs
      <4> QED BY <2>4, <2>7, <3>3, OverWith, DefinitionMore DEF IsVisit
    <3>5. IsFiniteSet(vs) /\ IsFiniteSet(ds)
      BY <3>2, <3>4, UnionOfImages
    <3>6. (\A d \in ds : IsDefinition(K2, d)) /\ \A v \in vs : ~ IsDummy(v)
      BY <3>4
    <3> DEFINE r == Rebuild(y, results)
    <3> HIDE DEF vs, ds
    <3>9. y.k \in {"var", "bvar"} => Over(K2, y)
      BY OverWith
    <3> HIDE DEF K2
    <3>7. WF(r) /\ (IsTerm(y) => IsTerm(r)) /\ (IsFormula(y) => IsFormula(r)) /\ Over(K2, r)
      BY <1>1, <2>7, <3>4, <3>9, RebuildWF, RebuildOver
    <3> HIDE DEF r
    <3>8. V(y) = [result |-> r, vars |-> vs, added |-> ds]
      BY <3>1 DEF r
    <3> QED BY <3>5, <3>6, <3>7, <3>8 DEF IsVisit, K2
  <2> QED BY <2>5, <2>6, <2>7
<1>2. x \in T
  <2> HIDE DEF T
  <2> QED BY <1>1, ShapeInduction
<1> QED BY <1>2

\* The same, of the formula it is called for.
LEMMA ProcessITEOver ==
  ASSUME NEW K, NEW f, OverForm(K, f), NEW n
  PROVE  LET noITE == ProcessITE(n, f)
         IN  OverForm(With(K, noITE.vars), noITE.result) /\ IsFiniteSet(noITE.vars)
<1>1. IsVisit(K, VisitITE(n, f)) /\ IsFormula(VisitITE(n, f).result)
  BY VisitITEOver DEF OverForm, IsForm
<1>2. OverForm(With(K, VisitITE(n, f).vars), Processed(VisitITE(n, f)))
  BY <1>1, ProcessedOver
<1> QED BY <1>1, <1>2 DEF ProcessITE, IsVisit

-----------------------------------------------------------------------------
(* NaiveCnfizer *)

\* There are finitely many ways to choose from finitely many finite sets.
LEMMA ProductFinite ==
  ASSUME NEW sets, IsFiniteSet(DOMAIN sets), \A v \in DOMAIN sets : IsFiniteSet(sets[v])
  PROVE  IsFiniteSet(Product(sets))
<1> DEFINE all == DOMAIN sets
           P(D) == Products!Fold(sets, {<<>>}, D)
           T == {D \in SUBSET all : IsFiniteSet(P(D))}
<1>0. IsFiniteSet(all)
  OBVIOUS
<1>1. ASSUME NEW D \in SUBSET all, \A E \in SUBSET D : E # D => E \in T PROVE D \in T
  <2> SUFFICES IsFiniteSet(P(D))
    OBVIOUS
  <2> HIDE DEF all
  <2>1. IsFiniteSet(D)
    BY <1>0, FS_Subset
  <2>2. Products!SubsetsAreInductive(D)
    BY <2>1, FiniteSetInduction DEF Products!SubsetsAreInductive
  <2>3. /\ P({}) = {<<>>}
        /\ D # {} => P(D) = LET x == CHOOSE y \in D : TRUE IN AddArgument(sets, x, P(D \ {x}))
    BY <2>2, Products!FoldEquation
  <2>4. CASE D = {}
    <3>1. P(D) = {<<>>}
      <4> HIDE DEF P
      <4> QED BY <2>3, <2>4
    <3>2. IsFiniteSet({<<>>})
      BY FS_Singleton
    <3> QED BY <3>1, <3>2, Zenon
  <2>5. CASE D # {}
    <3>1. PICK x \in D : P(D) = AddArgument(sets, x, P(D \ {x}))
      <4> HIDE DEF P
      <4> QED BY <2>3, <2>5
    <3> DEFINE E == D \ {x}
    <3>2. E \in SUBSET D /\ E # D
      BY <3>1
    <3>3. IsFiniteSet(P(E))
      <4>1. E \in T
        <5> HIDE DEF T, E
        <5> QED BY <1>1, <3>2
      <4> QED BY <4>1
    <3>4. P(D) = AddArgument(sets, x, P(E))
      BY <3>1
    <3> HIDE DEF P, E
    <3> DEFINE fs == P(E)
               S == fs \X sets[x]
               G(f, n) == Override(f, [u \in {x} |-> n])
               h == [z \in S |-> G(z[1], z[2])]
    <3>5. IsFiniteSet(S)
      <4>1. IsFiniteSet(sets[x])
        BY DEF all
      <4> QED BY <3>3, <4>1, FS_Product
    <3>6. AddArgument(sets, x, fs) = {h[z] : z \in S}
      <4> HIDE DEF fs
      <4> DEFINE A == {G(f, n) : f \in fs, n \in sets[x]}
                 B == {h[z] : z \in S}
      <4>1. AddArgument(sets, x, fs) = A
        BY DEF AddArgument
      <4> HIDE DEF G
      <4>2. ASSUME NEW a \in A PROVE a \in B
        <5>1. PICK f \in fs, n \in sets[x] : a = G(f, n)
          OBVIOUS
        <5>2. <<f, n>> \in S /\ h[<<f, n>>] = G(f, n)
          OBVIOUS
        <5> HIDE DEF h, S
        <5> QED BY <5>1, <5>2
      <4>3. ASSUME NEW b \in B PROVE b \in A
        <5>1. PICK z \in S : b = h[z]
          OBVIOUS
        <5>2. z[1] \in fs /\ z[2] \in sets[x] /\ h[z] = G(z[1], z[2])
          OBVIOUS
        <5> HIDE DEF h, S
        <5> QED BY <5>1, <5>2
      <4> HIDE DEF A, B
      <4>4. A = B
        BY <4>2, <4>3
      <4>5. AddArgument(sets, x, fs) = B
        BY <4>1, <4>4, Zenon
      <4> QED BY <4>5 DEF B
    <3> HIDE DEF G
    <3> HIDE DEF h, S
    <3>7. IsFiniteSet({h[z] : z \in S})
      BY <3>5, FiniteImage
    <3> QED BY <3>4, <3>6, <3>7, Zenon
  <2> QED BY <2>4, <2>5
<1>2. all \in T
  <2>1. SUBSET all \subseteq T
    <3> HIDE DEF T, all
    <3> QED BY <1>0, <1>1, FiniteSetInduction
  <2> QED BY <2>1
<1> QED BY <1>2 DEF Product

\* Distributing disjunctions over conjunctions brings no leaves.
LEMMA DistributeOver ==
  ASSUME NEW K, NEW cnfs, IsFiniteSet(cnfs), \A c \in cnfs : OverForm(K, c)
  PROVE  OverForm(K, DistributeAll(cnfs))
<1> DEFINE sets == [c \in cnfs |-> GetClauses(c)]
           P == Product(sets)
           h == [choice \in P |-> OrF({choice[c] : c \in cnfs})]
<1>1. /\ DOMAIN sets = cnfs
      /\ \A c \in cnfs : sets[c] = GetClauses(c)
  OBVIOUS
<1>2. \A c \in cnfs : IsFiniteSet(GetClauses(c)) /\ \A g \in GetClauses(c) : OverForm(K, g)
  BY ConjunctsOver
<1>3. DistributeAll(cnfs) = AndF({h[choice] : choice \in P})
  <2>1. {OrF({choice[c] : c \in cnfs}) : choice \in P} = {h[choice] : choice \in P}
    OBVIOUS
  <2>2. DistributeAll(cnfs) = AndF({OrF({choice[c] : c \in cnfs}) : choice \in P})
    BY Zenon DEF DistributeAll
  <2> HIDE DEF h
  <2> QED BY <2>1, <2>2, Zenon
<1> HIDE DEF sets
<1>4. IsFiniteSet(P)
  BY <1>1, <1>2, ProductFinite
<1>5. P = ChoicesFrom(sets, cnfs)
  BY <1>1, ProductIs
<1>6. ASSUME NEW choice \in P PROVE OverForm(K, h[choice])
  <2>1. \A c \in cnfs : OverForm(K, choice[c])
    BY <1>1, <1>2, <1>5 DEF ChoicesFrom
  <2>2. OverForm(K, OrF({choice[c] : c \in cnfs}))
    <3> HIDE DEF P, h
    <3> QED BY <2>1, ImagesOver
  <2>3. h[choice] = OrF({choice[c] : c \in cnfs})
    OBVIOUS
  <2> HIDE DEF h
  <2> QED BY <2>2, <2>3, Zenon
<1> HIDE DEF h, P
<1>7. OverForm(K, AndF({h[choice] : choice \in P}))
  BY <1>4, <1>6, ImagesOver
<1> QED BY <1>3, <1>7, Zenon

\* Nor does splitting an equality or a disequality in two.
LEMMA EqualityOver ==
  ASSUME NEW K, NEW o1 \in Relops, NEW o2 \in Relops, NEW l, NEW r, IsExpr(l), IsExpr(r), Over(K, l), Over(K, r)
  PROVE  /\ OverForm(K, AndF({Rel(o1, l, r), Rel(o2, l, r)}))
         /\ OverForm(K, OrF({Rel(o1, l, r), Rel(o2, l, r)}))
<1>1. IsFiniteSet({Rel(o1, l, r), Rel(o2, l, r)})
  BY FinitePairs
<1>2. \A f \in {Rel(o1, l, r), Rel(o2, l, r)} : OverForm(K, f)
  BY RelOver
<1> QED BY <1>1, <1>2, AndOver

\* NaiveCnfizer brings no leaves.
LEMMA CnfVisitOver ==
  ASSUME NEW K, NEW x, OverForm(K, x)
  PROVE  OverForm(K, NaiveCnfizer!Visit(0, x))
<1> DEFINE C(y) == NaiveCnfizer!Visit(0, y)
           T == {y \in Parts(x) : OverForm(K, y) => OverForm(K, C(y))}
<1>1. ASSUME NEW y \in Parts(x), WF(y), Children(y) \subseteq T PROVE y \in T
  <2> SUFFICES ASSUME OverForm(K, y) PROVE OverForm(K, C(y))
    OBVIOUS
  <2> DEFINE sub == [z \in Children(y) |-> C(z)]
  <2>1. C(y) = CnfStep(0, y, sub)
    BY <1>1, CnfNode DEF WF
  <2>2. \A z \in Children(y) : sub[z] = C(z)
    OBVIOUS
  <2>3. IsNode(y) /\ IsForm(y) /\ \A z \in Children(y) : WF(z) /\ (y.k # "forall" => Over(K, z))
    BY <1>1, WFChildren, OverChildren DEF OverForm
  <2> HIDE DEF sub, C
  <2>4. CASE y.k = "rel"
    <3>1. IsExpr(y.l) /\ IsExpr(y.r) /\ Over(K, y.l) /\ Over(K, y.r)
      BY <2>3, <2>4 DEF Children, IsNode, IsExpr
    <3>2. C(y) \in {y, AndF({Rel("geq", y.l, y.r), Rel("leq", y.l, y.r)}), OrF({Rel("gt", y.l, y.r), Rel("lt", y.l, y.r)})}
      BY <2>1, <2>4 DEF CnfStep
    <3>3. "geq" \in Relops /\ "leq" \in Relops /\ "gt" \in Relops /\ "lt" \in Relops
      BY DEF Relops
    <3>4. /\ OverForm(K, AndF({Rel("geq", y.l, y.r), Rel("leq", y.l, y.r)}))
          /\ OverForm(K, OrF({Rel("gt", y.l, y.r), Rel("lt", y.l, y.r)}))
      BY <3>1, <3>3, EqualityOver
    <3> QED BY <3>2, <3>4
  <2>5. CASE y.k \in {"and", "or"}
    <3> DEFINE fs == {sub[z] : z \in Children(y)}
    <3>1. \A z \in Children(y) : IsFormula(z)
      BY <2>3, <2>5 DEF Children, IsNode, AreOperands
    <3>2. \A z \in Children(y) : OverForm(K, sub[z])
      BY <1>1, <2>2, <2>3, <2>5, <3>1 DEF OverForm, IsForm
    <3>3. {sub[g] : g \in y.s} = fs /\ IsFiniteSet(Children(y))
      BY <2>3, <2>5, FiniteChildren DEF Children
    <3>4. C(y) \in {AndF(fs), DistributeAll(fs)}
      <4> HIDE DEF fs
      <4> QED BY <2>1, <2>5, <3>3 DEF CnfStep
    <3>5. OverForm(K, AndF(fs))
      BY <3>2, <3>3, ImagesOver
    <3>6. IsFiniteSet(fs) /\ \A f \in fs : OverForm(K, f)
      BY <3>2, <3>3, FiniteImage
    <3> HIDE DEF fs
    <3>7. OverForm(K, DistributeAll(fs))
      BY <3>6, DistributeOver
    <3> QED BY <3>4, <3>5, <3>7
  <2>6. CASE y.k \notin {"rel", "and", "or"}
    <3>1. C(y) = y
      BY <2>1, <2>6 DEF CnfStep
    <3> QED BY <3>1
  <2> QED BY <2>4, <2>5, <2>6
<1>2. x \in T
  <2> HIDE DEF T
  <2> QED BY <1>1, ShapeInduction DEF OverForm, IsForm
<1> QED BY <1>2

\* The same, of the formula it is called for.
LEMMA NaiveCnfOver ==
  ASSUME NEW K, NEW f, OverForm(K, f)
  PROVE  OverForm(K, NaiveCnf(f))
<1>1. OverForm(K, Nnf(f, TRUE))
  BY NnfOver DEF Nnf
<1> QED BY <1>1, CnfVisitOver DEF NaiveCnf

\* The quantifications of the single clauses of a body, which are finitely
\* many and at least one.
LEMMA ForallClausesOver ==
  ASSUME NEW K, NEW f, OverForm(K, f), f.k = "forall"
  PROVE  /\ IsFiniteSet(ForallClauses(f)) /\ ForallClauses(f) # {}
         /\ \A c \in ForallClauses(f) : OverForm(K, c)
<1> DEFINE cnf == NaiveCnf(f.f)
           S == GetClauses(cnf)
           h == [c \in S |-> IF HaveIntersection(FreeVars(c), f.y) THEN ForallF(f.y, c) ELSE c]
           L == With(K, f.y)
<1>1. OverForm(L, f.f) /\ IsFiniteSet(f.y) /\ K.forall /\ \A v \in f.y : ~ IsDummy(v)
  BY WFChildren, OverChildren DEF OverForm, IsForm, IsNode, Children
<1> HIDE DEF L
<1>2. OverForm(L, cnf)
  BY <1>1, NaiveCnfOver
<1>3. ForallClauses(f) = {h[c] : c \in S}
  BY DEF ForallClauses
<1> HIDE DEF cnf
<1>4. IsFiniteSet(S) /\ \A c \in S : OverForm(L, c)
  BY <1>2, ConjunctsOver
<1>5. S # {}
  <2>1. IsNode(cnf)
    BY <1>2, WFChildren DEF OverForm, IsForm
  <2>2. CASE cnf.k = "and"
    <3>1. S = cnf.s /\ Cardinality(cnf.s) > 1
      BY <2>1, <2>2 DEF GetClauses, IsNode, AreOperands
    <3>2. cnf.s # {}
      <4> SUFFICES ASSUME cnf.s = {} PROVE FALSE
        OBVIOUS
      <4>1. Cardinality(cnf.s) = 0
        BY FS_EmptySet, Zenon
      <4> QED BY <3>1, <4>1
    <3> QED BY <3>1, <3>2
  <2>3. CASE cnf.k # "and"
    BY <2>3 DEF GetClauses
  <2> QED BY <2>2, <2>3
<1> HIDE DEF S
<1>6. ASSUME NEW c \in S PROVE OverForm(K, h[c])
  <2>1. OverForm(K, ForallF(f.y, c))
    BY <1>1, <1>4, ForallOver DEF L
  <2>2. IF HaveIntersection(FreeVars(c), f.y) THEN h[c] = ForallF(f.y, c) ELSE h[c] = c
    OBVIOUS
  <2>3. ~ HaveIntersection(FreeVars(c), f.y) => OverForm(K, c)
    BY <1>4 DEF HaveIntersection, OverForm, Over, With, L
  <2> HIDE DEF h
  <2> QED BY <2>1, <2>2, <2>3
<1> HIDE DEF h
<1>7. IsFiniteSet({h[c] : c \in S})
  BY <1>4, FiniteImage
<1> QED BY <1>3, <1>5, <1>6, <1>7

-----------------------------------------------------------------------------
(* Clauses over some variables and of some predicates *)

\* The predicates of c are of the variables in L.known, and without quantifiers
\* among those in P.
ClauseOver(L, P, c) == /\ OverForm(L, c) /\ (L.forall \/ Predicates(c) \subseteq P)
                       /\ \A p \in Predicates(c) : FreeVars(p) \subseteq L.known

\* Finitely many such clauses.
ClausesOver(L, P, cs) == IsFiniteSet(cs) /\ \A c \in cs : ClauseOver(L, P, c)

\* Negation, and in the lemmas that follow the other connectives, leave such
\* clauses.
LEMMA NotClause ==
  ASSUME NEW L, NEW P, NEW c, ClauseOver(L, P, c)
  PROVE  ClauseOver(L, P, NotF(c))
BY NotOver, PredicatesOfNot DEF ClauseOver, OverForm

\* Conjunctions and disjunctions of such clauses.
LEMMA AndClause ==
  ASSUME NEW L, NEW P, NEW cs, ClausesOver(L, P, cs)
  PROVE  ClauseOver(L, P, AndF(cs)) /\ ClauseOver(L, P, OrF(cs))
<1>1. IsFiniteSet(cs) /\ \A c \in cs : OverForm(L, c) /\ IsForm(c)
  BY DEF ClausesOver, ClauseOver, OverForm
<1>2. OverForm(L, AndF(cs)) /\ OverForm(L, OrF(cs))
  BY <1>1, AndOver
<1>3. /\ Predicates(AndF(cs)) \subseteq UNION {Predicates(f) : f \in cs}
      /\ Predicates(OrF(cs)) \subseteq UNION {Predicates(f) : f \in cs}
  BY <1>1, PredicatesOfAnd
<1>4. L.forall \/ UNION {Predicates(f) : f \in cs} \subseteq P
  BY DEF ClausesOver, ClauseOver
<1>5. \A p \in UNION {Predicates(f) : f \in cs} : FreeVars(p) \subseteq L.known
  BY DEF ClausesOver, ClauseOver
<1> QED BY <1>2, <1>3, <1>4, <1>5 DEF ClauseOver

\* A disjunction of two.
LEMMA PairClause ==
  ASSUME NEW L, NEW P, NEW c, ClauseOver(L, P, c), NEW d, ClauseOver(L, P, d)
  PROVE  ClauseOver(L, P, OrF({c, d}))
<1>1. IsFiniteSet({c, d})
  BY FinitePairs
<1> QED BY <1>1, AndClause DEF ClausesOver

\* What is made of the members of a finite set.
LEMMA ImageClauses ==
  ASSUME NEW L, NEW P, NEW S, IsFiniteSet(S), NEW h, \A z \in S : ClauseOver(L, P, h[z])
  PROVE  ClausesOver(L, P, {h[z] : z \in S})
<1>1. IsFiniteSet({h[z] : z \in S})
  BY FiniteImage
<1> QED BY <1>1 DEF ClausesOver

\* Two sets of clauses.
LEMMA UnionClauses ==
  ASSUME NEW L, NEW P, NEW cs, ClausesOver(L, P, cs), NEW ds, ClausesOver(L, P, ds)
  PROVE  ClausesOver(L, P, cs \cup ds)
BY FS_Union DEF ClausesOver

\* The conjuncts of one.
LEMMA ConjunctClauses ==
  ASSUME NEW L, NEW P, NEW c, ClauseOver(L, P, c)
  PROVE  ClausesOver(L, P, GetClauses(c))
<1>1. IsFiniteSet(GetClauses(c)) /\ \A d \in GetClauses(c) : OverForm(L, d)
  BY ConjunctsOver DEF ClauseOver
<1>2. \A d \in GetClauses(c) : Predicates(d) \subseteq Predicates(c)
  <2>1. CASE c.k = "and"
    <3>1. GetClauses(c) = Children(c) /\ IsConnective(c) /\ WF(c)
      BY <2>1 DEF GetClauses, Children, IsConnective, ClauseOver, OverForm, IsForm
    <3> QED BY <3>1, PredicatesAre
  <2>2. CASE c.k # "and"
    BY <2>2 DEF GetClauses
  <2> QED BY <2>1, <2>2
<1> QED BY <1>1, <1>2 DEF ClausesOver, ClauseOver

-----------------------------------------------------------------------------
(* The subformulas that get a variable *)

\* The subformulas that get a variable: the connectives and what they are
\* made of.
LEMMA NamedAre ==
  ASSUME NEW x, WF(x)
  PROVE  /\ ~ IsNamed(x) => NamedParts(x) = {}
         /\ IsNamed(x) => x \in NamedParts(x)
         /\ IsNamed(x) /\ IsConnective(x) => NamedParts(x) = {x} \cup UNION {NamedParts(z) : z \in Children(x)}
         /\ IsNamed(x) /\ ~ IsConnective(x) => NamedParts(x) = {x}
<1> DEFINE sub == [z \in Children(x) |-> NamedParts(z)]
<1>1. NamedParts(x) = NamedStep(0, x, sub)
  BY NamedNode DEF WF
<1>2. {sub[g] : g \in Children(x)} = {NamedParts(z) : z \in Children(x)}
  OBVIOUS
<1>3. ~ IsNamed(x) => NamedParts(x) = {}
  BY <1>1 DEF NamedStep
<1>4. IsNamed(x) /\ IsConnective(x) => NamedParts(x) = {x} \cup UNION {sub[g] : g \in Children(x)}
  BY <1>1 DEF NamedStep
<1>5. IsNamed(x) /\ ~ IsConnective(x) => NamedParts(x) = {x}
  BY <1>1 DEF NamedStep
<1>6. IsNamed(x) /\ IsConnective(x) => NamedParts(x) = {x} \cup UNION {NamedParts(z) : z \in Children(x)}
  <2> HIDE DEF sub
  <2> QED BY <1>2, <1>4, Zenon
<1> QED BY <1>3, <1>5, <1>6

\* They are finitely many, with no other leaves and predicates than the
\* formula, and an operand that needs a variable is among them.
LEMMA NamedOver ==
  ASSUME NEW K, NEW x, WF(x), Over(K, x)
  PROVE  /\ IsFiniteSet(NamedParts(x))
         /\ \A g \in NamedParts(x) : /\ OverForm(K, g) /\ IsNamed(g) /\ Predicates(g) \subseteq Predicates(x)
                                     /\ IsConnective(g) => \A z \in Children(g) : IsNamed(z) => z \in NamedParts(x)
<1> DEFINE Good(y) == /\ IsFiniteSet(NamedParts(y))
                      /\ \A g \in NamedParts(y) : /\ OverForm(K, g) /\ IsNamed(g) /\ Predicates(g) \subseteq Predicates(y)
                                                  /\ IsConnective(g) => \A z \in Children(g) :
                                                                          IsNamed(z) => z \in NamedParts(y)
           T == {y \in Parts(x) : Over(K, y) => Good(y)}
<1>1. ASSUME NEW y \in Parts(x), WF(y), Children(y) \subseteq T PROVE y \in T
  <2> SUFFICES ASSUME Over(K, y) PROVE Good(y)
    OBVIOUS
  <2>1. IsFiniteSet(Children(y)) /\ \A z \in Children(y) : WF(z) /\ (y.k # "forall" => Over(K, z) /\ Good(z))
    BY <1>1, WFChildren, FiniteChildren, OverChildren
  <2>2. CASE ~ IsNamed(y)
    <3>1. NamedParts(y) = {}
      BY <1>1, <2>2, NamedAre
    <3> QED BY <3>1, FS_EmptySet
  <2>3. IsNamed(y) => OverForm(K, y)
    BY <1>1 DEF IsNamed, OverForm, IsForm, IsFormula
  <2>4. CASE IsNamed(y) /\ ~ IsConnective(y)
    <3>1. NamedParts(y) = {y}
      BY <1>1, <2>4, NamedAre
    <3> QED BY <2>3, <2>4, <3>1, FS_Singleton
  <2>5. CASE IsNamed(y) /\ IsConnective(y)
    <3> IsFiniteSet(Children(y)) /\ \A z \in Children(y) : WF(z) /\ Over(K, z) /\ Good(z)
      BY <2>1, <2>5 DEF IsConnective
    <3> DEFINE h == [z \in Children(y) |-> NamedParts(z)]
               below == UNION {h[z] : z \in Children(y)}
    <3>1. NamedParts(y) = {y} \cup below
      <4>1. {NamedParts(z) : z \in Children(y)} = {h[z] : z \in Children(y)}
        OBVIOUS
      <4>2. NamedParts(y) = {y} \cup UNION {NamedParts(z) : z \in Children(y)}
        BY <1>1, <2>5, NamedAre
      <4> HIDE DEF h
      <4> QED BY <4>1, <4>2, Zenon
    <3>2. \A z \in Children(y) : h[z] = NamedParts(z)
      OBVIOUS
    <3> HIDE DEF h
    <3>3. IsFiniteSet(below)
      BY <2>1, <3>2, UnionOfImages
    <3>4. IsFiniteSet(NamedParts(y))
      <4>1. IsFiniteSet({y})
        BY FS_Singleton
      <4> HIDE DEF below
      <4>2. IsFiniteSet({y} \cup below)
        BY <3>3, <4>1, FS_Union
      <4> QED BY <3>1, <4>2, Zenon
    <3>5. \A z \in Children(y) : Predicates(z) \subseteq Predicates(y) /\ NamedParts(z) \subseteq NamedParts(y)
      <4>1. \A z \in Children(y) : Predicates(z) \subseteq Predicates(y)
        BY <1>1, <2>5, PredicatesAre
      <4>2. \A z \in Children(y) : NamedParts(z) \subseteq below
        BY <3>2
      <4> HIDE DEF below
      <4> QED BY <3>1, <4>1, <4>2
    <3>6. ASSUME NEW g \in NamedParts(y)
          PROVE /\ OverForm(K, g) /\ IsNamed(g) /\ Predicates(g) \subseteq Predicates(y)
                /\ IsConnective(g) => \A z \in Children(g) : IsNamed(z) => z \in NamedParts(y)
      <4>1. CASE g = y
        <5>1. \A z \in Children(y) : IsNamed(z) => z \in NamedParts(z)
          BY <2>1, NamedAre
        <5> QED BY <2>3, <2>5, <3>5, <4>1, <5>1
      <4>2. CASE g # y
        <5>1. PICK z \in Children(y) : g \in NamedParts(z)
          BY <3>1, <3>2, <4>2
        <5>2. /\ OverForm(K, g) /\ IsNamed(g) /\ Predicates(g) \subseteq Predicates(z)
              /\ IsConnective(g) => \A w \in Children(g) : IsNamed(w) => w \in NamedParts(z)
          BY <2>1, <5>1
        <5> QED BY <3>5, <5>2
      <4> QED BY <4>1, <4>2
    <3> QED BY <3>4, <3>6
  <2> QED BY <2>2, <2>4, <2>5
<1>2. x \in T
  <2> HIDE DEF T
  <2> QED BY <1>1, ShapeInduction
<1> QED BY <1>2

-----------------------------------------------------------------------------
(* The clauses of the TseitinCnfizer *)

\* The variables of K and those of the cnfizer for f.
WithNames(K, n, f) == [vars   |-> K.vars \cup {TseitinVar(n, g) : g \in NamedParts(f)},
                       forall |-> K.forall,
                       names  |-> K.names \cup {TseitinVar(n, g) : g \in NamedParts(f)},
                       known  |-> K.names]

\* What is over K is also over K and the variables of the cnfizer.
LEMMA MoreNames ==
  ASSUME NEW K, NEW n, NEW f
  PROVE  LET L == WithNames(K, n, f)
         IN  /\ L.forall = K.forall /\ K.vars \subseteq L.vars /\ K.names \subseteq L.names
             /\ \A g \in NamedParts(f) : TseitinVar(n, g) \in L.vars \cap L.names
             /\ \A x : Over(K, x) => Over(L, x)
             /\ \A x : OverForm(K, x) => OverForm(L, x) /\ \A p \in Predicates(x) : FreeVars(p) \subseteq L.known
<1> DEFINE L == WithNames(K, n, f)
<1>1. /\ L.forall = K.forall /\ K.vars \subseteq L.vars /\ K.names \subseteq L.names /\ L.known = K.names
      /\ \A g \in NamedParts(f) : TseitinVar(n, g) \in L.vars \cap L.names
  BY DEF WithNames
<1> HIDE DEF L
<1>2. \A x : Over(K, x) => Over(L, x)
  BY <1>1, OverMore
<1>3. \A x : OverForm(K, x) => \A p \in Predicates(x) : FreeVars(p) \subseteq L.known
  BY <1>1, PredicatesType DEF OverForm, IsForm, Over
<1> QED BY <1>1, <1>2, <1>3 DEF OverForm, L

\* What TseitinCnfizer puts for an operand: its variable, or itself.
LEMMA VisitedOver ==
  ASSUME NEW K, NEW n, NEW f, NEW g, OverForm(K, g), IsNamed(g) => g \in NamedParts(f)
  PROVE  ClauseOver(WithNames(K, n, f), Predicates(g), Visited(n, g))
<1> DEFINE L == WithNames(K, n, f)
<1>1. /\ L.forall = K.forall
      /\ \A h \in NamedParts(f) : TseitinVar(n, h) \in L.vars \cap L.names
      /\ \A x : OverForm(K, x) => OverForm(L, x) /\ \A p \in Predicates(x) : FreeVars(p) \subseteq L.known
  BY MoreNames
<1> HIDE DEF L
<1> SUFFICES ClauseOver(L, Predicates(g), Visited(n, g))
  BY DEF L
<1>2. CASE IsNamed(g)
  <2>1. Visited(n, g) = BoolVar(TseitinVar(n, g))
    BY <1>2 DEF Visited
  <2>2. TseitinVar(n, g) \in L.vars \cap L.names
    BY <1>1, <1>2
  <2>3. OverForm(L, BoolVar(TseitinVar(n, g)))
    BY <2>2, LeafWF, OverLeaves DEF OverForm
  <2> QED BY <2>1, <2>3, PredicatesOfLeaves DEF ClauseOver
<1>3. CASE ~ IsNamed(g) /\ g.k # "forall"
  <2>1. Visited(n, g) = g
    BY <1>3 DEF Visited
  <2> QED BY <1>1, <2>1 DEF ClauseOver
<1>4. CASE ~ IsNamed(g) /\ g.k = "forall"
  <2>1. Visited(n, g) = CHOOSE c \in ForallClauses(g) : TRUE
    BY <1>4 DEF Visited
  <2>2. Visited(n, g) \in ForallClauses(g)
    BY <1>4, <2>1, ForallClausesOver
  <2>3. OverForm(K, Visited(n, g)) /\ K.forall
    BY <1>4, <2>2, ForallClausesOver, OverChildren DEF OverForm, IsForm
  <2> QED BY <1>1, <2>3 DEF ClauseOver
<1> QED BY <1>2, <1>3, <1>4

\* The definition of such a variable, b <=> g, has the leaves of the formula,
\* the variables of the cnfizer, and the predicates of the formula.
LEMMA DefinitionOverNames ==
  ASSUME NEW K, NEW n, NEW f, OverForm(K, f), NEW g \in NamedParts(f)
  PROVE  ClauseOver(WithNames(K, n, f), Predicates(f), Definition(n, g))
<1> DEFINE L == WithNames(K, n, f)
           P == Predicates(f)
           d == Definition(n, g)
<1>1. /\ L.forall = K.forall
      /\ \A x : OverForm(K, x) => OverForm(L, x) /\ \A p \in Predicates(x) : FreeVars(p) \subseteq L.known
  BY MoreNames
<1>2. /\ OverForm(K, g) /\ IsNamed(g) /\ Predicates(g) \subseteq P
      /\ IsConnective(g) => \A z \in Children(g) : IsNamed(z) => z \in NamedParts(f)
  BY NamedOver DEF OverForm, IsForm
<1>3. IsNode(g) /\ WF(g) /\ \A z \in Children(g) : WF(z) /\ (IsConnective(g) => Over(K, z))
  BY <1>2, WFChildren, OverChildren DEF OverForm, IsForm, IsConnective
<1>4. CASE IsConnective(g)
  <2> DEFINE h == [z \in Children(g) |-> Visited(n, z)]
  <2>1. IsFiniteSet(Children(g)) /\ \A z \in Children(g) : OverForm(K, z)
    BY <1>3, <1>4, FiniteChildren DEF IsConnective, Children, IsNode, AreOperands, OverForm, IsForm
  <2>2. \A z \in Children(g) : Predicates(z) \subseteq P
    BY <1>2, <1>3, <1>4, PredicatesAre
  <2>3. \A z \in Children(g) : ClauseOver(L, Predicates(z), Visited(n, z))
    <3> HIDE DEF L
    <3> QED BY <1>2, <1>4, <2>1, VisitedOver DEF L
  <2>4. \A z \in Children(g) : ClauseOver(L, P, h[z])
    <3> HIDE DEF L
    <3> QED BY <2>2, <2>3 DEF ClauseOver
  <2>5. {Visited(n, z) : z \in Children(g)} = {h[z] : z \in Children(g)}
    OBVIOUS
  <2>6. CASE g.k = "not"
    <3>1. d = NotF(h[g.f]) /\ g.f \in Children(g)
      BY <2>6 DEF Definition, Children
    <3> HIDE DEF h, L, d
    <3> QED BY <2>4, <3>1, NotClause DEF L, d
  <2>7. CASE g.k \in {"and", "or"}
    <3>1. Children(g) = g.s
      BY <2>7 DEF Children
    <3> DEFINE cs == {h[z] : z \in Children(g)}
    <3>2. {Visited(n, z) : z \in g.s} = cs
      BY <2>5, <3>1
    <3> HIDE DEF h, L
    <3>3. ClausesOver(L, P, cs)
      BY <2>1, <2>4, ImageClauses
    <3> HIDE DEF cs
    <3>4. d \in {AndF(cs), OrF(cs)}
      BY <2>7, <3>2 DEF Definition
    <3> HIDE DEF d
    <3> QED BY <3>3, <3>4, AndClause DEF L, d
  <2> QED BY <1>4, <2>6, <2>7 DEF IsConnective
<1>5. CASE ~ IsConnective(g)
  <2>1. g.k = "forall"
    BY <1>2, <1>5 DEF IsNamed, IsConnective
  <2>2. K.forall
    BY <1>2, <2>1, OverChildren DEF OverForm, IsForm
  <2>3. IsFiniteSet(ForallClauses(g)) /\ \A c \in ForallClauses(g) : OverForm(K, c)
    BY <1>2, <2>1, ForallClausesOver
  <2>4. d = AndF(ForallClauses(g))
    BY <2>1 DEF Definition
  <2>5. OverForm(K, d)
    BY <2>3, <2>4, AndOver
  <2> HIDE DEF d, L
  <2> QED BY <1>1, <2>2, <2>5 DEF ClauseOver, d, L
<1> QED BY <1>4, <1>5

\* Cnfize makes clauses of a definition, with the same leaves and predicates.
LEMMA CnfizeOver ==
  ASSUME NEW L, NEW P, NEW b, ClauseOver(L, P, b), NEW d, ClauseOver(L, P, d), IsConnective(d)
  PROVE  ClausesOver(L, P, CnfizeDefinition(b, d))
<1> DEFINE C == CnfizeDefinition(b, d)
<1>0. ClauseOver(L, P, NotF(b)) /\ ClauseOver(L, P, NotF(d))
  BY NotClause
<1>1. CASE d.k \in {"and", "or"}
  <2> DEFINE S == d.s
             hn == [g \in S |-> NotF(g)]
             ha == [g \in S |-> OrF({NotF(b), g})]
             ho == [g \in S |-> OrF({NotF(g), b})]
  <2>1. IsNode(d) /\ \A g \in Children(d) : WF(g) /\ Over(L, g)
    BY <1>1, WFChildren, OverChildren DEF ClauseOver, OverForm, IsForm
  <2>2. IsFiniteSet(S) /\ \A g \in S : OverForm(L, g)
    BY <1>1, <2>1 DEF Children, IsNode, AreOperands, OverForm, IsForm
  <2>3. \A g \in S : Predicates(g) \subseteq Predicates(d)
    <3>1. WF(d) /\ Children(d) = S
      BY <1>1 DEF ClauseOver, OverForm, IsForm, Children
    <3> QED BY <3>1, PredicatesAre
  <2> HIDE DEF S
  <2>4. \A g \in S : ClauseOver(L, P, g) /\ ClauseOver(L, P, NotF(g))
    BY <2>2, <2>3, NotClause DEF ClauseOver
  <2>5. /\ \A g \in S : ClauseOver(L, P, hn[g]) /\ ClauseOver(L, P, ha[g]) /\ ClauseOver(L, P, ho[g])
    BY <1>0, <2>4, PairClause
  <2>6. /\ {NotF(g) : g \in S} = {hn[g] : g \in S}
        /\ {OrF({NotF(b), g}) : g \in S} = {ha[g] : g \in S}
        /\ {OrF({NotF(g), b}) : g \in S} = {ho[g] : g \in S}
    OBVIOUS
  <2> HIDE DEF hn, ha, ho
  <2>7. /\ ClausesOver(L, P, {hn[g] : g \in S}) /\ ClausesOver(L, P, {ha[g] : g \in S})
        /\ ClausesOver(L, P, {ho[g] : g \in S})
    BY <2>2, <2>5, ImageClauses
  <2> DEFINE A == {NotF(g) : g \in S}
             B == {OrF({NotF(b), g}) : g \in S}
             O == {OrF({NotF(g), b}) : g \in S}
             c1 == OrF(A \cup {b})
             c2 == OrF({NotF(b), d})
  <2>8. ClausesOver(L, P, A) /\ ClausesOver(L, P, B) /\ ClausesOver(L, P, O)
    <3> DEFINE A1 == {hn[g] : g \in S}
               B1 == {ha[g] : g \in S}
               O1 == {ho[g] : g \in S}
    <3>1. A = A1 /\ B = B1 /\ O = O1
      BY <2>6
    <3>2. ClausesOver(L, P, A1) /\ ClausesOver(L, P, B1) /\ ClausesOver(L, P, O1)
      BY <2>7
    <3> HIDE DEF A, B, O, A1, B1, O1
    <3> QED BY <3>1, <3>2, Zenon
  <2>9. ClausesOver(L, P, {b})
    BY FS_Singleton DEF ClausesOver
  <2>10. CASE d.k = "and"
    <3>1. C = B \cup {c1}
      BY <2>10 DEF CnfizeDefinition, S
    <3> HIDE DEF A, B, C
    <3>2. ClauseOver(L, P, c1)
      BY <2>8, <2>9, UnionClauses, AndClause
    <3> HIDE DEF c1
    <3>3. ClausesOver(L, P, {c1})
      BY <3>2, FS_Singleton DEF ClausesOver
    <3>4. ClausesOver(L, P, B \cup {c1})
      BY <2>8, <3>3, UnionClauses
    <3> QED BY <3>1, <3>4 DEF C
  <2>11. CASE d.k = "or"
    <3>1. C = {c2} \cup O
      BY <2>11 DEF CnfizeDefinition, S
    <3> HIDE DEF O, C
    <3>2. ClauseOver(L, P, c2)
      BY <1>0, PairClause
    <3> HIDE DEF c2
    <3>3. ClausesOver(L, P, {c2})
      BY <3>2, FS_Singleton DEF ClausesOver
    <3>4. ClausesOver(L, P, {c2} \cup O)
      BY <2>8, <3>3, UnionClauses
    <3> QED BY <3>1, <3>4 DEF C
  <2> QED BY <1>1, <2>10, <2>11
<1>2. CASE d.k = "not"
  <2>1. C = {Imply(b, d), Imply(d, b)}
    BY <1>2 DEF CnfizeDefinition
  <2>2. ClauseOver(L, P, Imply(b, d)) /\ ClauseOver(L, P, Imply(d, b))
    BY <1>0, PairClause DEF Imply
  <2>3. IsFiniteSet({Imply(b, d), Imply(d, b)})
    BY FinitePairs
  <2> QED BY <2>1, <2>2, <2>3 DEF ClausesOver
<1> QED BY <1>1, <1>2 DEF IsConnective

\* TseitinCnfizer returns finitely many clauses over the leaves of the
\* formula and its own variables, and without quantifiers their predicates
\* are those of the formula.
LEMMA TseitinOver ==
  ASSUME NEW K, NEW n, NEW f, OverForm(K, f), IsCnfizable(n, f)
  PROVE  ClausesOver(WithNames(K, n, f), Predicates(f), TseitinCnf(n, f))
<1> DEFINE L == WithNames(K, n, f)
           P == Predicates(f)
           Inner == NamedParts(f) \ {f}
           h == [g \in Inner |-> CnfizeDefinition(BoolVar(TseitinVar(n, g)), Definition(n, g)) \ {TrueF}]
           below == UNION {h[g] : g \in Inner}
<1>0. WF(f)
  BY DEF OverForm, IsForm
<1>1. CASE NamedParts(f) = {}
  <2>1. ~ IsNamed(f)
    BY <1>0, <1>1, NamedAre
  <2>2. ClauseOver(L, P, Visited(n, f))
    BY <2>1, VisitedOver
  <2>3. TseitinCnf(n, f) = {Visited(n, f)}
    BY <1>1 DEF TseitinCnf
  <2> HIDE DEF L, P
  <2>4. ClausesOver(L, P, {Visited(n, f)})
    BY <2>2, FS_Singleton DEF ClausesOver
  <2> QED BY <2>3, <2>4 DEF L, P
<1>2. CASE NamedParts(f) # {}
  <2>1. f \in NamedParts(f)
    BY <1>0, <1>2, NamedAre
  <2>2. ClausesOver(L, P, GetClauses(Definition(n, f)))
    BY <2>1, DefinitionOverNames, ConjunctClauses
  <2>3. IsFiniteSet(Inner) /\ \A g \in Inner : g \in NamedParts(f)
    BY <1>0, NamedOver, FS_Subset DEF OverForm
  <2>4. ASSUME NEW g \in Inner PROVE ClausesOver(L, P, h[g])
    <3> DEFINE b == BoolVar(TseitinVar(n, g))
    <3>1. TseitinVar(n, g) \in L.vars \cap L.names
      BY <2>3, MoreNames
    <3>2. ClauseOver(L, P, b)
      <4> HIDE DEF L, P
      <4> QED BY <3>1, LeafWF, OverLeaves, PredicatesOfLeaves DEF ClauseOver, OverForm
    <3>3. ClauseOver(L, P, Definition(n, g)) /\ IsConnective(Definition(n, g))
      BY <2>3, DefinitionOverNames DEF IsCnfizable
    <3>4. h[g] = CnfizeDefinition(b, Definition(n, g)) \ {TrueF}
      OBVIOUS
    <3> HIDE DEF b, L, P, h
    <3>5. ClausesOver(L, P, CnfizeDefinition(b, Definition(n, g)))
      BY <3>2, <3>3, CnfizeOver
    <3> QED BY <3>4, <3>5, FS_Subset DEF ClausesOver
  <2>5. TseitinCnf(n, f) = GetClauses(Definition(n, f)) \cup below
    <3>1. {CnfizeDefinition(BoolVar(TseitinVar(n, g)), Definition(n, g)) \ {TrueF} : g \in NamedParts(f) \ {f}}
            = {h[g] : g \in Inner}
      OBVIOUS
    <3>2. TseitinCnf(n, f) = GetClauses(Definition(n, f)) \cup
            UNION {CnfizeDefinition(BoolVar(TseitinVar(n, g)), Definition(n, g)) \ {TrueF} : g \in NamedParts(f) \ {f}}
      BY <1>2, Zenon DEF TseitinCnf
    <3> HIDE DEF h, Inner
    <3> QED BY <3>1, <3>2, Zenon
  <2> HIDE DEF L, P, h, Inner
  <2>6. IsFiniteSet(below)
    BY <2>3, <2>4, UnionOfImages DEF ClausesOver
  <2>7. ClausesOver(L, P, below)
    BY <2>4, <2>6 DEF ClausesOver
  <2> HIDE DEF below
  <2>8. ClausesOver(L, P, GetClauses(Definition(n, f)) \cup below)
    BY <2>2, <2>7, UnionClauses
  <2> QED BY <2>5, <2>8 DEF L, P
<1> QED BY <1>1, <1>2

-----------------------------------------------------------------------------
(* PredicateAbstractor *)

\* The variables that PredicateAbstractor gives to predicates.
VarsOf(P) == {PredicateVar(p) : p \in P}

\* What PredicateAbstractor returns has Boolean variables of the formula and
\* variables of its predicates, nothing else.
LEMMA AbstractVars ==
  ASSUME NEW L, NEW x, OverForm(L, x)
  PROVE  IsForm(Abstract(x)) /\ FreeVars(Abstract(x)) \subseteq L.vars \cup VarsOf(Predicates(x))
<1> DEFINE Good(y) == IsForm(Abstract(y)) /\ FreeVars(Abstract(y)) \subseteq L.vars \cup VarsOf(Predicates(y))
           T == {y \in Parts(x) : OverForm(L, y) => Good(y)}
<1>1. ASSUME NEW y \in Parts(x), WF(y), Children(y) \subseteq T PROVE y \in T
  <2> DEFINE A == Abstract(y)
             all == L.vars \cup VarsOf(Predicates(y))
             sub == [z \in Children(y) |-> Abstract(z)]
  <2> SUFFICES ASSUME OverForm(L, y) PROVE IsForm(A) /\ FreeVars(A) \subseteq all
    OBVIOUS
  <2>1. A = AbstractStep(0, y, sub)
    BY <1>1, AbstractNode DEF WF
  <2>2. \A z \in Children(y) : sub[z] = Abstract(z)
    OBVIOUS
  <2>3. IsNode(y) /\ IsForm(y) /\ \A z \in Children(y) : WF(z) /\ (y.k # "forall" => Over(L, z))
    BY <1>1, WFChildren, OverChildren DEF OverForm
  <2> HIDE DEF A, sub
  <2>4. CASE y.k \in {"rel", "forall"}
    <3>1. A = BoolVar(PredicateVar(y))
      BY <2>1, <2>4 DEF AbstractStep, IsConnective
    <3>2. PredicateVar(y) \in VarsOf(Predicates(y))
      <4>1. y \in Predicates(y)
        BY <1>1, <2>4, PredicatesAre
      <4> QED BY <4>1 DEF VarsOf
    <3>3. IsForm(A) /\ FreeVars(A) = {PredicateVar(y)}
      BY <3>1, LeafWF, FreeVarsOfLeaves
    <3> QED BY <3>2, <3>3
  <2>5. CASE IsConnective(y)
    <3>1. \A z \in Children(y) : IsFormula(z)
      BY <2>3, <2>5 DEF IsConnective, Children, IsNode, AreOperands
    <3>2. \A z \in Children(y) : Good(z)
      BY <1>1, <2>3, <2>5, <3>1 DEF OverForm, IsForm, IsConnective
    <3>3. \A z \in Children(y) : VarsOf(Predicates(z)) \subseteq VarsOf(Predicates(y))
      <4>1. \A z \in Children(y) : Predicates(z) \subseteq Predicates(y)
        BY <1>1, <2>5, PredicatesAre
      <4> QED BY <4>1 DEF VarsOf
    <3>4. \A z \in Children(y) : IsForm(sub[z]) /\ FreeVars(sub[z]) \subseteq all
      BY <2>2, <3>2, <3>3
    <3> HIDE DEF all
    <3>5. CASE y.k = "not"
      <4>1. A = NotF(sub[y.f]) /\ y.f \in Children(y)
        BY <2>1, <2>5, <3>5 DEF AbstractStep, Rebuild, Children
      <4> QED BY <3>4, <4>1, NotWF, FreeVarsOfNot
    <3>6. CASE y.k \in {"and", "or"}
      <4> DEFINE fs == {sub[z] : z \in Children(y)}
      <4>1. {sub[g] : g \in y.s} = fs /\ IsFiniteSet(Children(y))
        BY <2>3, <3>6, FiniteChildren DEF Children
      <4>2. IsFiniteSet(fs)
        BY <4>1, FiniteImage
      <4>3. \A f \in fs : IsForm(f) /\ FreeVars(f) \subseteq all
        BY <3>4
      <4> HIDE DEF fs
      <4>4. A \in {AndF(fs), OrF(fs)}
        BY <2>1, <2>5, <3>6, <4>1 DEF AbstractStep, Rebuild
      <4>5. FreeVars(A) \subseteq UNION {FreeVars(f) : f \in fs} /\ IsForm(A)
        BY <4>2, <4>3, <4>4, FreeVarsOfAnd, AndWF
      <4> QED BY <4>3, <4>5
    <3> QED BY <2>5, <3>5, <3>6 DEF IsConnective
  <2>6. CASE y.k \notin {"rel", "forall"} /\ ~ IsConnective(y)
    <3>1. A = y
      BY <2>1, <2>6 DEF AbstractStep
    <3>2. CASE y.k = "bvar"
      <4>1. FreeVars(y) = {y.v} /\ y.v \in L.vars
        BY <1>1, <3>2, FreeVarsAre, OverChildren DEF WF, OverForm
      <4> QED BY <2>3, <3>1, <4>1
    <3>3. CASE y.k \in {"true", "false"}
      <4>1. y \in {TrueF, FalseF}
        BY <2>3, <3>3 DEF IsNode
      <4> QED BY <2>3, <3>1, <4>1, FreeVarsOfLeaves
    <3> QED BY <2>3, <2>6, <3>2, <3>3 DEF IsForm, IsFormula, IsConnective
  <2> QED BY <2>4, <2>5, <2>6
<1>2. x \in T
  <2> HIDE DEF T
  <2> QED BY <1>1, ShapeInduction DEF OverForm, IsForm
<1> QED BY <1>2

-----------------------------------------------------------------------------
(* The variables of the SAT solver *)

\* MakeSatVar adds the variables of a clause to the list, and no others.
LEMMA MakeSatVarsType ==
  ASSUME NEW S, NEW known \in Seq(S), NEW vs, IsFiniteSet(vs), vs \subseteq S
  PROVE  MakeSatVars(known, vs) \in Seq(S)
<1> DEFINE T == {D \in SUBSET vs : MakeSatVars(known, D) \in Seq(S)}
<1>1. ASSUME NEW D \in SUBSET vs, \A E \in SUBSET D : E # D => E \in T PROVE D \in T
  <2>1. IsFiniteSet(D)
    BY FS_Subset
  <2>2. SatVarMaking!SubsetsAreInductive(D)
    BY <2>1, FiniteSetInduction DEF SatVarMaking!SubsetsAreInductive
  <2>3. /\ SatVarMaking!Fold(0, known, {}) = known
        /\ D # {} => SatVarMaking!Fold(0, known, D) =
             LET x == CHOOSE y \in D : TRUE IN MakeSatVar(0, x, SatVarMaking!Fold(0, known, D \ {x}))
    BY <2>2, SatVarMaking!FoldEquation
  <2>4. CASE D = {}
    BY <2>3, <2>4 DEF MakeSatVars
  <2>5. CASE D # {}
    <3>1. PICK x \in D : MakeSatVars(known, D) = MakeSatVar(0, x, MakeSatVars(known, D \ {x}))
      BY <2>3, <2>5 DEF MakeSatVars
    <3>2. D \ {x} \in SUBSET D /\ D \ {x} # D
      BY <3>1
    <3>3. MakeSatVars(known, D \ {x}) \in Seq(S)
      <4>1. D \ {x} \in T
        <5> HIDE DEF T
        <5> QED BY <1>1, <3>2
      <4> QED BY <4>1
    <3>4. x \in S
      OBVIOUS
    <3>5. MakeSatVars(known, D) \in Seq(S)
      BY <3>1, <3>3, <3>4 DEF MakeSatVar
    <3> QED BY <3>5
  <2> QED BY <2>4, <2>5
<1>2. vs \in T
  <2>1. SUBSET vs \subseteq T
    <3> HIDE DEF T
    <3> QED BY <1>1, FiniteSetInduction
  <2> QED BY <2>1
<1> QED BY <1>2

-----------------------------------------------------------------------------
(* The matcher *)

\* A sorted list has finitely many members.
LEMMA SortedLength ==
  ASSUME NEW key, IsFiniteSet(DOMAIN key)
  PROVE  Len(SortedBy(key)) \in Nat
<1> DEFINE all == DOMAIN key
           F(D) == Ordering!Fold(key, <<>>, D)
           T == {D \in SUBSET all : \E S : F(D) \in Seq(S)}
<1>1. ASSUME NEW D \in SUBSET all, \A E \in SUBSET D : E # D => E \in T PROVE D \in T
  <2> SUFFICES \E S : F(D) \in Seq(S)
    OBVIOUS
  <2> HIDE DEF all
  <2>1. IsFiniteSet(D)
    BY FS_Subset DEF all
  <2>2. Ordering!SubsetsAreInductive(D)
    BY <2>1, FiniteSetInduction DEF Ordering!SubsetsAreInductive
  <2>3. /\ F({}) = <<>>
        /\ D # {} => F(D) = LET x == CHOOSE y \in D : TRUE IN InsertByKey(key, x, F(D \ {x}))
    BY <2>2, Ordering!FoldEquation
  <2>4. CASE D = {}
    <3>1. F(D) = <<>>
      <4> HIDE DEF F
      <4> QED BY <2>3, <2>4
    <3>2. <<>> \in Seq({})
      OBVIOUS
    <3> HIDE DEF F
    <3> QED BY <3>1, <3>2
  <2>5. CASE D # {}
    <3>1. PICK x \in D : F(D) = InsertByKey(key, x, F(D \ {x}))
      <4> HIDE DEF F
      <4> QED BY <2>3, <2>5
    <3>2. D \ {x} \in SUBSET D /\ D \ {x} # D
      BY <3>1
    <3>3. D \ {x} \in T
      <4> HIDE DEF T
      <4> QED BY <1>1, <3>2
    <3>4. PICK S : F(D \ {x}) \in Seq(S)
      BY <3>3
    <3> DEFINE s == F(D \ {x})
               before == Cardinality({i \in DOMAIN s : key[s[i]] <= key[x]})
               e == [i \in 1 .. Len(s) + 1 |-> IF i <= before THEN s[i] ELSE IF i = before + 1 THEN x ELSE s[i - 1]]
               R == {e[i] : i \in 1 .. Len(s) + 1}
    <3>5. Len(s) \in Nat
      <4>1. s \in Seq(S)
        BY <3>4
      <4> HIDE DEF s
      <4> QED BY <4>1
    <3>6. F(D) = e
      BY <3>1 DEF InsertByKey
    <3> HIDE DEF F, s
    <3>7. e \in [1 .. Len(s) + 1 -> R]
      <4>1. e = [i \in 1 .. Len(s) + 1 |-> e[i]]
        OBVIOUS
      <4> HIDE DEF e
      <4> QED BY <4>1
    <3> HIDE DEF e, R
    <3>8. e \in Seq(R)
      BY <3>5, <3>7
    <3> QED BY <3>6, <3>8
  <2> QED BY <2>4, <2>5
<1>2. all \in T
  <2>1. SUBSET all \subseteq T
    <3> HIDE DEF T
    <3> QED BY <1>1, FiniteSetInduction
  <2> QED BY <2>1
<1>3. PICK S : F(all) \in Seq(S)
  BY <1>2
<1>4. SortedBy(key) \in Seq(S)
  BY <1>3 DEF SortedBy
<1> QED BY <1>4

\* A match consists of literals that are in the trie.
LEMMA MatchedLeaves ==
  ASSUME NEW b, NEW known, NEW conflict, IsFiniteSet(conflict)
  PROVE  UNION FindSimilar(b, known, conflict) \subseteq known
<1> DEFINE literals == MostVariablesFirst(conflict)
           p == [box |-> b, known |-> known, literals |-> literals]
           base == {[leaves |-> {}, mapping |-> {}]}
           It(n) == Matching!Iterate(p, base, n)
           T == {n \in Nat : \A m \in It(n) : m.leaves \subseteq known}
<1>1. Len(literals) \in Nat
  <2> DEFINE key == [f \in conflict |-> -Cardinality(FreeVars(f))]
  <2>1. DOMAIN key = conflict
    OBVIOUS
  <2> HIDE DEF key
  <2>2. Len(SortedBy(key)) \in Nat
    BY <2>1, SortedLength
  <2> QED BY <2>2 DEF MostVariablesFirst, key
<1> HIDE DEF literals
<1>2. Matching!NumbersAreInductive
  BY NatSet DEF Matching!NumbersAreInductive
<1>3. /\ It(0) = base
      /\ \A n \in Nat : It(n + 1) = MatchNext(p, n + 1, It(n))
  BY <1>2, Matching!IterateEquation
<1>4. 0 \in T
  <2>1. \A m \in base : m.leaves = {}
    OBVIOUS
  <2> HIDE DEF It, base
  <2> QED BY <1>3, <2>1
<1>5. ASSUME NEW n \in Nat, n \in T PROVE n + 1 \in T
  <2>1. \A m \in It(n) : m.leaves \subseteq known
    BY <1>5
  <2>2. It(n + 1) = MatchNext(p, n + 1, It(n))
    BY <1>3
  <2> HIDE DEF It
  <2>3. ASSUME NEW r \in MatchNext(p, n + 1, It(n)) PROVE r.leaves \subseteq known
    <3>1. PICK m \in It(n) : \E next \in MatchesOfLiteral(b, known, literals[n + 1], m.mapping) :
                                r = [leaves |-> m.leaves \cup {next.leaf}, mapping |-> next.mapping]
      BY <2>3 DEF MatchNext
    <3>2. PICK next \in MatchesOfLiteral(b, known, literals[n + 1], m.mapping) :
                 r = [leaves |-> m.leaves \cup {next.leaf}, mapping |-> next.mapping]
      BY <3>1
    <3>3. next.leaf \in known
      BY DEF MatchesOfLiteral, TreeOf
    <3> QED BY <2>1, <3>2, <3>3
  <2> HIDE DEF p
  <2> QED BY <2>2, <2>3
<1>6. Len(literals) \in T
  <2> HIDE DEF T
  <2> QED BY <1>1, <1>2, <1>4, <1>5 DEF Matching!NumbersAreInductive
<1>7. \A m \in It(Len(literals)) : m.leaves \subseteq known
  BY <1>6
<1>8. FindSimilar(b, known, conflict) = {m.leaves : m \in It(Len(literals))}
  BY DEF FindSimilar, MatchLiterals, literals
<1> HIDE DEF It
<1> QED BY <1>7, <1>8

-----------------------------------------------------------------------------
(* The box gets smaller *)

\* The box has an interval for each variable of the script.
BoxIsBuilt == box \in [DOMAIN box -> Intervals] /\ ScriptVars \subseteq DOMAIN box

\* What a step may do to the box.
LEMMA BoxBecomes ==
  ASSUME [Next]_vars
  PROVE  \/ box' = box
         \/ box' = EmptyBox(box)
         \/ \E f \in todo : box' = FilterAssertion(f, box).box
         \/ \E f \in todo : \E more : box' = [v \in DOMAIN box \cup more |->
                                            IF v \in DOMAIN box THEN FilterAssertion(f, box).box[v] ELSE Whole]
<1>1. CASE UNCHANGED vars
  BY <1>1 DEF vars
<1>2. CASE Len(asserted) < Len(Inputs) /\ \E f \in Inputs[Len(asserted) + 1] : Submit(f)
  BY <1>2 DEF Submit
<1>3. CASE MayLearn /\ \E E \in Explanations : Learn(E)
  BY <1>3 DEF Learn
<1>4. ASSUME NEW f \in todo, Keep(f)
      PROVE  \E more : box' = [v \in DOMAIN box \cup more |->
                                 IF v \in DOMAIN box THEN FilterAssertion(f, box).box[v] ELSE Whole]
  <2> DEFINE more == ProcessITE(Len(asserted), f).vars
  <2>1. box' = [v \in DOMAIN box \cup more |->
                  IF v \in DOMAIN box THEN FilterAssertion(f, box).box[v] ELSE Whole]
    BY <1>4, Zenon DEF Keep
  <2> HIDE DEF more
  <2> QED BY <2>1
<1>5. ASSUME NEW f \in todo, Assert(f), ~ Keep(f)
      PROVE  box' = box \/ box' = EmptyBox(box) \/ box' = FilterAssertion(f, box).box
  BY <1>5 DEF Assert, Skip, Refute, Split, Reject, Eliminate, Bound, Throw
<1> QED BY <1>1, <1>2, <1>3, <1>4, <1>5 DEF Next

\* A step adds variables to the box and takes values from the others, never
\* the other way round.
LEMMA BoxStep ==
  ASSUME BoxIsBuilt, TodoIsBuilt, [Next]_vars
  PROVE  BoxIsBuilt' /\ DOMAIN box \subseteq DOMAIN box' /\ IsWithin(box, box')
<1> DEFINE D == DOMAIN box
<1>1. box \in [D -> Intervals] /\ ScriptVars \subseteq D
  BY DEF BoxIsBuilt
<1>2. IsWithin(box, box)
  BY DEF IsWithin
<1>3. EmptyBox(box) \in [D -> Intervals] /\ IsWithin(box, EmptyBox(box))
  BY <1>1, EmptyBoxWithin
<1>4. \A f \in todo : FilterAssertion(f, box).box \in [D -> Intervals] /\ IsWithin(box, FilterAssertion(f, box).box)
  BY <1>1, FilterType DEF TodoIsBuilt
<1> HIDE DEF D
<1>5. ScriptVars' = ScriptVars
  OBVIOUS
<1>6. ASSUME NEW c \in [D -> Intervals], IsWithin(box, c), box' = c
      PROVE  BoxIsBuilt' /\ D \subseteq DOMAIN box' /\ IsWithin(box, box')
  BY <1>1, <1>5, <1>6 DEF BoxIsBuilt
<1>7. ASSUME NEW f \in todo, NEW more,
             box' = [v \in D \cup more |-> IF v \in D THEN FilterAssertion(f, box).box[v] ELSE Whole]
      PROVE  BoxIsBuilt' /\ D \subseteq DOMAIN box' /\ IsWithin(box, box')
  <2> DEFINE c == FilterAssertion(f, box).box
  <2>1. c \in [D -> Intervals] /\ IsWithin(box, c)
    BY <1>4
  <2>2. box' = [v \in D \cup more |-> IF v \in D THEN c[v] ELSE Whole]
    BY <1>7
  <2> HIDE DEF c
  <2>3. DOMAIN box' = D \cup more /\ \A v \in D : box'[v] = c[v]
    BY <2>2
  <2>4. \A v \in D \cup more : box'[v] \in Intervals
    BY <2>1, <2>2, ConstantsAre
  <2>5. box' \in [DOMAIN box' -> Intervals]
    BY <2>2, <2>3, <2>4
  <2>6. IsWithin(box, box')
    BY <2>1, <2>3 DEF IsWithin, D
  <2> QED BY <1>1, <1>5, <2>3, <2>5, <2>6 DEF BoxIsBuilt
<1> QED BY <1>1, <1>2, <1>3, <1>4, <1>6, <1>7, BoxBecomes DEF D

\* In every state the box has an interval for each variable of the script.
LEMMA BoxInvariant == Spec => []BoxIsBuilt
<1>1. Init => BoxIsBuilt
  <2> SUFFICES ASSUME Init PROVE BoxIsBuilt
    OBVIOUS
  <2>1. box = [v \in ScriptVars |-> Whole]
    BY DEF Init
  <2> QED BY <2>1, ConstantsAre DEF BoxIsBuilt
<1>2. BoxIsBuilt /\ TodoIsBuilt /\ [Next]_vars => BoxIsBuilt'
  BY BoxStep
<1> QED BY <1>1, <1>2, TodoInvariant, PTL DEF Spec

-----------------------------------------------------------------------------
(* The literals of the SAT solver *)

\* Whether the script has asserted a quantifier; its clauses are not inserted
\* in the trie.
SomeQuantifier == \E m \in DOMAIN asserted : HasQuantifier(asserted[m])

\* The leaves of what the script asserts.
Script == [vars   |-> {v \in ScriptVars : IsBoolean(v)},
           forall |-> SomeQuantifier,
           names  |-> ScriptVars]

\* The free variables of x are among names, and its quantifiers bind no
\* dummy.
HasNames(names, x) == BindsNoDummy(x) /\ FreeVars(x) \subseteq names

\* A predicate as PredicateNormalizer leaves it.
IsNormal(names, p) == IsPredicate(p) /\ HasNames(names, p) /\ (p.k = "rel" => p.op \in NormalKinds)

\* A predicate that has been inserted with both signs.
IsInserted(known, p) == {p, NotF(p)} \subseteq known

\* The trie has finitely many formulas, each with the two literals of each of
\* its predicates.
AreNormal(names, known) ==
  /\ IsFiniteSet(known)
  /\ \A f \in known : /\ IsForm(f) /\ HasNames(names, f)
                      /\ \A p \in Predicates(f) : IsNormal(names, p) /\ IsInserted(known, p)

\* A variable that stands for a predicate stands for a normal one over the
\* box, which is in the trie unless there is a quantifier.
NamesKnown ==
  \A v \in DOMAIN formulaOf : IsNormal(DOMAIN box, formulaOf[v]) /\ (SomeQuantifier \/ IsInserted(patterns, formulaOf[v]))

\* The inductive invariant of TheoryLiteralsAreKnown: what is still to be
\* asserted has the leaves and variables of the script, a variable of the SAT
\* solver is a Boolean variable of the script, one of a cnfizer, or one of a
\* predicate, and that predicate is normal, has its literals in the trie,
\* unless there is a quantifier, and no variable that the box does not have.
LiteralsAreKnown ==
  /\ \A f \in todo : OverForm(Script, f)
  /\ satVars \in Seq(Script.vars \cup tseitin \cup DOMAIN formulaOf)
  /\ NamesKnown
  /\ AreNormal(DOMAIN box, patterns)

\* A formula that the script may assert has Boolean variables for Boolean
\* leaves, free variables of the script, and the quantifiers that
\* HasQuantifier finds.
LEMMA GivenAreOver ==
  ASSUME NEW f \in Given, NEW K, \A v : IsBoolean(v) => v \in K.vars, ScriptVars \subseteq K.names,
         HasQuantifier(f) => K.forall
  PROVE  OverForm(K, f)
<1>1. IsBuilt(f)
  BY InputsAssumption DEF Given
<1>2. \A x \in Parts(f) : /\ x.k = "bvar" => IsBoolean(x.v)
                          /\ x.k = "forall" => HasQuantifier(f) /\ \A v \in x.y : ~ IsDummy(v)
  BY <1>1 DEF IsBuilt, HasQuantifier
<1>3. FreeVars(f) \subseteq K.names
  BY <1>1 DEF IsBuilt
<1>4. Over(K, f)
  BY <1>2, <1>3 DEF Over
<1> QED BY <1>4, GivenAreForms DEF OverForm

\* What is over K has the names of K, and so have its predicates.
LEMMA OverNames ==
  ASSUME NEW K, NEW x, OverForm(K, x)
  PROVE  /\ HasNames(K.names, x)
         /\ \A p \in Predicates(x) : IsPredicate(p) /\ OverForm(K, p) /\ BindsNoDummy(p)
<1>1. WF(x) /\ Over(K, x) /\ IsTree(x)
  BY DEF OverForm, IsForm, WF
<1> DEFINE T == {y \in Parts(x) : Parts(y) \subseteq Parts(x)}
<1>2. \A y \in Parts(x) : Parts(y) \subseteq Parts(x)
  <2>1. \A y \in Parts(x) : IsTree(y) /\ Parts(y) \subseteq Parts(x) /\ Children(y) \subseteq T => y \in T
    OBVIOUS
  <2>2. Parts(x) \subseteq T
    <3> HIDE DEF T
    <3> QED BY <1>1, <2>1, TreeInduction
  <2> QED BY <2>2
<1>3. BindsNoDummy(x)
  BY <1>1 DEF Over, BindsNoDummy
<1>4. ASSUME NEW p \in Predicates(x) PROVE IsPredicate(p) /\ OverForm(K, p) /\ BindsNoDummy(p)
  <2>1. p \in Parts(x) /\ IsPredicate(p) /\ FreeVars(p) \subseteq FreeVars(x)
    BY <1>1, PredicatesType
  <2>2. Parts(p) \subseteq Parts(x)
    BY <1>2, <2>1
  <2>3. Over(K, p)
    BY <1>1, <2>1, <2>2 DEF Over
  <2>4. BindsNoDummy(p)
    BY <1>3, <2>2 DEF BindsNoDummy
  <2> QED BY <2>1, <2>3, <2>4 DEF OverForm, IsPredicate
<1> QED BY <1>1, <1>3, <1>4 DEF HasNames, Over

\* A formula that binds no dummy is over what it has.
LEMMA NamesOver ==
  ASSUME NEW names, NEW x, IsForm(x), HasNames(names, x)
  PROVE  OverForm([vars |-> {y.v : y \in Parts(x)}, forall |-> TRUE, names |-> names], x)
BY DEF HasNames, BindsNoDummy, OverForm, Over

\* A negation has no other names.
LEMMA NotHasNames ==
  ASSUME NEW names, NEW x, IsForm(x), HasNames(names, x)
  PROVE  IsForm(NotF(x)) /\ HasNames(names, NotF(x))
<1> DEFINE K == [vars |-> {y.v : y \in Parts(x)}, forall |-> TRUE, names |-> names]
<1>1. K.names = names /\ OverForm(K, x)
  BY NamesOver
<1> HIDE DEF K
<1>2. OverForm(K, NotF(x))
  BY <1>1, NotOver
<1> QED BY <1>1, <1>2, OverNames DEF OverForm

\* A literal of a predicate has that predicate alone.
LEMMA PredicatesOfLiteral ==
  ASSUME NEW p, IsPredicate(p)
  PROVE  IsForm(NotF(p)) /\ Predicates(p) = {p} /\ Predicates(NotF(p)) = {p}
<1>1. IsForm(p) /\ WF(p)
  BY DEF IsPredicate, IsForm
<1>2. Predicates(p) = {p}
  BY <1>1, PredicatesAre DEF IsPredicate
<1> QED BY <1>1, <1>2, NotWF, PredicatesOfNot

\* What is inserted in the trie for a predicate is normal.
LEMMA InsertedIs ==
  ASSUME NEW K, NEW q, IsPredicate(q), OverForm(K, q)
  PROVE  /\ OverForm(K, Inserted(q))
         /\ \A p \in Predicates(Inserted(q)) : p = Inserted(q) /\ IsNormal(K.names, p)
<1> DEFINE p == Inserted(q)
           r == Rel(NegateRelop(q.op), q.l, q.r)
<1> SUFFICES OverForm(K, p) /\ \A g \in Predicates(p) : g = p /\ IsPredicate(g) /\ (g.k = "rel" => g.op \in NormalKinds)
  BY OverNames DEF IsNormal, HasNames, OverForm, Over
<1>1. IsNode(q) /\ WF(q) /\ \A z \in Children(q) : WF(z)
  BY WFChildren DEF IsPredicate, IsForm
<1>2. CASE q.k = "forall" \/ q.op \in NormalKinds
  <2>1. p = q
    BY <1>2 DEF Inserted
  <2>2. q.k = "rel" => q.op \in NormalKinds
    BY <1>2
  <2> HIDE DEF p
  <2> QED BY <2>1, <2>2, PredicatesOfLiteral DEF IsPredicate, p
<1>3. CASE q.k = "rel" /\ q.op \notin NormalKinds
  <2>1. p = r
    BY <1>3 DEF Inserted
  <2>2. IsExpr(q.l) /\ IsExpr(q.r) /\ q.op \in Relops
    BY <1>1, <1>3 DEF Children, IsNode, IsExpr
  <2>3. NegateRelop(q.op) \in NormalKinds /\ NegateRelop(q.op) \in Relops
    BY <1>3, <2>2 DEF Relops, NormalKinds, NegateRelop
  <2>4. Predicates(r) \subseteq {r} /\ (r.k = "rel" => r.op \in NormalKinds)
    <3>1. r = [k |-> "rel", op |-> NegateRelop(q.op), l |-> q.l, r |-> q.r] \/ r \in {TrueF, FalseF}
      BY <2>2, <2>3, RelWF
    <3>2. r.k = "rel" => r.op \in NormalKinds
      BY <2>3, <3>1 DEF TrueF, FalseF
    <3> QED BY <2>2, <2>3, <3>2, PredicatesOfRel
  <2>5. OverForm(K, r)
    <3>1. Over(K, q.l) /\ Over(K, q.r)
      BY <1>1, <1>3, OverChildren DEF OverForm, Children
    <3> QED BY <2>2, <2>3, <3>1, RelOver
  <2> HIDE DEF p, r
  <2>6. \A g \in Predicates(r) : g = r /\ IsPredicate(g)
    BY <2>4, <2>5, PredicatesType DEF OverForm, IsForm
  <2> QED BY <2>1, <2>4, <2>5, <2>6 DEF p
<1> QED BY <1>2, <1>3 DEF IsPredicate

\* The trie with the atoms of a formula.
LEMMA InsertAtoms ==
  ASSUME NEW K, NEW names, names \subseteq K.names,
         NEW known, AreNormal(names, known),
         NEW x, OverForm(K, x),
         NEW more, more = known \cup UNION {{p, NotF(p)} : p \in InsertedAtoms(x)}
  PROVE  /\ AreNormal(K.names, more)
         /\ \A p \in InsertedAtoms(x) : IsInserted(more, p)
<1> DEFINE S == Predicates(x)
           h == [q \in S |-> {Inserted(q), NotF(Inserted(q))}]
<1>1. IsFiniteSet(S) /\ \A q \in S : IsPredicate(q) /\ OverForm(K, q)
  BY PredicatesType, OverNames DEF OverForm, IsForm
<1>2. InsertedAtoms(x) = {Inserted(q) : q \in S}
  BY DEF InsertedAtoms, Inserted
<1>3. UNION {{p, NotF(p)} : p \in InsertedAtoms(x)} = UNION {h[q] : q \in S}
  <2> DEFINE A == {{p, NotF(p)} : p \in InsertedAtoms(x)}
             B == {h[q] : q \in S}
  <2>1. \A a \in A : a \in B
    <3> SUFFICES ASSUME NEW p \in InsertedAtoms(x) PROVE {p, NotF(p)} \in B
      OBVIOUS
    <3>1. PICK q \in S : p = Inserted(q)
      BY <1>2
    <3>2. h[q] = {p, NotF(p)}
      BY <3>1
    <3> HIDE DEF h
    <3> QED BY <3>2
  <2>2. \A b \in B : b \in A
    <3> SUFFICES ASSUME NEW q \in S PROVE h[q] \in A
      OBVIOUS
    <3>1. h[q] = {Inserted(q), NotF(Inserted(q))} /\ Inserted(q) \in InsertedAtoms(x)
      BY <1>2
    <3> HIDE DEF h
    <3> QED BY <3>1
  <2> HIDE DEF A, B
  <2>3. A = B
    BY <2>1, <2>2
  <2> QED BY <2>3, Zenon DEF A, B
<1>4. \A q \in S : h[q] = {Inserted(q), NotF(Inserted(q))} /\ IsFiniteSet(h[q])
  BY FinitePairs
<1> HIDE DEF h, S
<1> DEFINE new == UNION {h[q] : q \in S}
<1>5. IsFiniteSet(new)
  BY <1>1, <1>4, UnionOfImages
<1>6. more = known \cup new
  BY <1>3, Zenon
<1>7. \A q \in S : Inserted(q) \in new /\ NotF(Inserted(q)) \in new
  BY <1>4
<1>8. ASSUME NEW f \in new
      PROVE  /\ IsForm(f) /\ HasNames(K.names, f)
             /\ \A p \in Predicates(f) : IsNormal(K.names, p) /\ {p, NotF(p)} \subseteq new
  <2>1. PICK q \in S : f \in {Inserted(q), NotF(Inserted(q))}
    BY <1>4
  <2>2. /\ IsForm(Inserted(q)) /\ HasNames(K.names, Inserted(q))
        /\ \A p \in Predicates(Inserted(q)) : p = Inserted(q) /\ IsNormal(K.names, p)
    BY <1>1, InsertedIs, OverNames DEF OverForm
  <2>3. IsForm(f) /\ HasNames(K.names, f) /\ Predicates(f) = Predicates(Inserted(q))
    BY <2>1, <2>2, NotHasNames, PredicatesOfNot
  <2> HIDE DEF new
  <2> QED BY <1>7, <2>2, <2>3
<1> HIDE DEF new
<1>9. IsFiniteSet(more)
  <2>1. IsFiniteSet(known \cup new)
    BY <1>5, FS_Union DEF AreNormal
  <2> QED BY <1>6, <2>1, Zenon
<1>10. \A f \in more : /\ IsForm(f) /\ HasNames(K.names, f)
                       /\ \A p \in Predicates(f) : IsNormal(K.names, p) /\ IsInserted(more, p)
  <2> SUFFICES ASSUME NEW f \in more
               PROVE  /\ IsForm(f) /\ HasNames(K.names, f)
                      /\ \A p \in Predicates(f) : IsNormal(K.names, p) /\ IsInserted(more, p)
    OBVIOUS
  <2>1. CASE f \in known
    BY <1>6, <2>1 DEF IsInserted, AreNormal, IsNormal, HasNames
  <2>2. CASE f \in new
    BY <1>6, <1>8, <2>2 DEF IsInserted
  <2> QED BY <1>6, <2>1, <2>2
<1>11. \A p \in InsertedAtoms(x) : IsInserted(more, p)
  BY <1>2, <1>6, <1>7 DEF IsInserted
<1> QED BY <1>9, <1>10, <1>11 DEF AreNormal

-----------------------------------------------------------------------------
(* Each predicate gets a variable *)

\* New predicates add their variables to the table, and a variable gets a
\* predicate of its name.
LEMMA NamesOfPredicates ==
  ASSUME NEW names, NEW P,
         NEW more, more = Override(names, [v \in {PredicateVar(p) : p \in P} |-> v[2]])
  PROVE  /\ DOMAIN more = DOMAIN names \cup VarsOf(P)
         /\ \A v \in DOMAIN more : \/ v \in DOMAIN names /\ more[v] = names[v]
                                   \/ more[v] \in P
<1> DEFINE g == [v \in {PredicateVar(p) : p \in P} |-> v[2]]
<1>1. DOMAIN g = VarsOf(P)
  BY DEF VarsOf
<1>2. \A v \in VarsOf(P) : g[v] \in P
  <2> SUFFICES ASSUME NEW p \in P PROVE g[PredicateVar(p)] \in P
    BY DEF VarsOf
  <2>1. PredicateVar(p) \in {PredicateVar(q) : q \in P}
    OBVIOUS
  <2>2. g[PredicateVar(p)] = PredicateVar(p)[2]
    BY <2>1
  <2>3. PredicateVar(p)[2] = p
    BY DEF PredicateVar
  <2> HIDE DEF g
  <2> QED BY <2>2, <2>3
<1>3. more = Override(names, g)
  OBVIOUS
<1> HIDE DEF g
<1> QED BY <1>1, <1>2, <1>3 DEF Override

-----------------------------------------------------------------------------
(* The steps *)

\* Variables do not change in kind, and a quantifier that was asserted stays
\* so.
LEMMA ScriptGrows ==
  ASSUME AssertedAreGiven, [Next]_vars
  PROVE  Script'.vars = Script.vars /\ Script'.names = Script.names /\ (SomeQuantifier => SomeQuantifier')
<1>1. Script'.vars = Script.vars /\ Script'.names = Script.names
  BY DEF Script
<1>2. CASE asserted' = asserted
  BY <1>1, <1>2 DEF SomeQuantifier
<1>3. CASE \E f : asserted' = Append(asserted, f)
  <2>1. PICK f : asserted' = Append(asserted, f)
    BY <1>3
  <2>2. \A m \in DOMAIN asserted : m \in DOMAIN asserted' /\ asserted'[m] = asserted[m]
    BY <2>1 DEF AssertedAreGiven
  <2> QED BY <1>1, <2>2 DEF SomeQuantifier
<1> QED BY <1>2, <1>3, TodoStep

\* Only an assertion that is kept and a learned clause reach the SAT solver.
LEMMA SolverStep ==
  ASSUME [Next]_vars
  PROVE  \/ UNCHANGED <<satVars, tseitin, formulaOf, patterns>>
         \/ \E f \in todo : Keep(f)
         \/ \E E \in Explanations : Learn(E)
<1>1. CASE Next
  <2>1. CASE Len(asserted) < Len(Inputs) /\ \E f \in Inputs[Len(asserted) + 1] : Submit(f)
    BY <2>1 DEF Submit, solverVars
  <2>2. CASE \E f \in todo : Assert(f)
    BY <2>2 DEF Assert, Skip, Refute, Split, Reject, Eliminate, Bound, Throw, solverVars
  <2>3. CASE MayLearn /\ \E E \in Explanations : Learn(E)
    BY <2>3
  <2> QED BY <1>1, <2>1, <2>2, <2>3 DEF Next
<1>2. CASE UNCHANGED vars
  BY <1>2 DEF vars
<1> QED BY <1>1, <1>2

\* The calls of Assert.
LEMMA TodoOver ==
  ASSUME AssertedAreGiven, AssertedAreGiven', TodoIsBuilt, LiteralsAreKnown, [Next]_vars
  PROVE  \A f \in todo' : OverForm(Script', f)
<1> DEFINE K == Script
           L == Script'
<1>1. \A f \in todo : OverForm(K, f)
  BY DEF LiteralsAreKnown
<1>2. L.vars = K.vars /\ L.names = K.names /\ (K.forall => L.forall) /\ K.vars \subseteq K.names
  BY ScriptGrows DEF Script
<1>3. (\A v : IsBoolean(v) => v \in L.vars) /\ ScriptVars \subseteq L.names /\ L.forall = SomeQuantifier'
  <2>1. \A v : IsBoolean(v) => v \in ScriptVars
    BY DEF IsBoolean, ScriptVars
  <2>2. L.vars = {v \in ScriptVars : IsBoolean(v)} /\ L.names = ScriptVars /\ L.forall = SomeQuantifier'
    BY DEF Script
  <2> QED BY <2>1, <2>2
<1> HIDE DEF K, L
<1> SUFFICES \A f \in todo' : OverForm(L, f)
  BY DEF L
<1>4. \A f : OverForm(K, f) => OverForm(L, f)
  BY <1>2, OverMore DEF OverForm
<1>5. CASE UNCHANGED <<todo, asserted>>
  BY <1>1, <1>4, <1>5
<1>6. CASE todo = {} /\ \E f \in Inputs[Len(asserted) + 1] :
             Len(asserted) < Len(Inputs) /\ todo' = {f} /\ asserted' = Append(asserted, f)
  <2>1. PICK f \in Inputs[Len(asserted) + 1] :
          Len(asserted) < Len(Inputs) /\ todo' = {f} /\ asserted' = Append(asserted, f)
    BY <1>6
  <2>2. Len(asserted) + 1 \in 1 .. Len(Inputs)
    BY <2>1, InputsAssumption DEF TodoIsBuilt
  <2>3. f \in Given
    BY <2>2 DEF Given
  <2>4. Len(asserted) + 1 \in DOMAIN asserted' /\ asserted'[Len(asserted) + 1] = f
    BY <2>1 DEF AssertedAreGiven
  <2>5. HasQuantifier(f) => L.forall
    BY <1>3, <2>4 DEF SomeQuantifier
  <2>6. OverForm(L, f)
    BY <1>3, <2>3, <2>5, GivenAreOver
  <2> QED BY <2>1, <2>6
<1>7. CASE UNCHANGED asserted /\ \E f \in todo : todo' = todo \ {f}
  BY <1>1, <1>4, <1>7
<1>8. CASE UNCHANGED asserted /\ \E f \in todo : f.k = "and" /\ todo' = (todo \ {f}) \cup f.s
  <2>1. PICK f \in todo : f.k = "and" /\ todo' = (todo \ {f}) \cup f.s
    BY <1>8
  <2>2. \A g \in f.s : OverForm(K, g)
    BY <1>1, <2>1, ConjunctsOver DEF GetClauses
  <2> QED BY <1>1, <1>4, <2>1, <2>2
<1>9. CASE UNCHANGED asserted /\ \E f \in todo :
             f.k = "forall" /\ EliminatePointUniversals(f) # f /\ todo' = (todo \ {f}) \cup {EliminatePointUniversals(f)}
  <2>1. PICK f \in todo : f.k = "forall" /\ todo' = (todo \ {f}) \cup {EliminatePointUniversals(f)}
    BY <1>9
  <2>2. OverForm(K, EliminatePointUniversals(f))
    BY <1>1, <1>2, <2>1, EliminateOver
  <2> QED BY <1>1, <1>4, <2>1, <2>2
<1> QED BY <1>5, <1>6, <1>7, <1>8, <1>9, TodoStep

\* New predicates get variables.
LEMMA NamesAreNormal ==
  ASSUME NamesKnown, NEW known, patterns \subseteq patterns', SomeQuantifier => SomeQuantifier',
         DOMAIN box \subseteq DOMAIN box',
         \A p \in known : IsNormal(DOMAIN box', p) /\ (SomeQuantifier' \/ IsInserted(patterns', p)),
         formulaOf' = Override(formulaOf, [v \in {PredicateVar(p) : p \in known} |-> v[2]])
  PROVE  DOMAIN formulaOf' = DOMAIN formulaOf \cup VarsOf(known) /\ NamesKnown'
<1>1. /\ DOMAIN formulaOf' = DOMAIN formulaOf \cup VarsOf(known)
      /\ \A v \in DOMAIN formulaOf' : \/ v \in DOMAIN formulaOf /\ formulaOf'[v] = formulaOf[v]
                                      \/ formulaOf'[v] \in known
  BY NamesOfPredicates
<1>2. \A v \in DOMAIN formulaOf : IsNormal(DOMAIN box, formulaOf[v]) /\ (SomeQuantifier \/ IsInserted(patterns, formulaOf[v]))
  BY DEF NamesKnown
<1>3. \A p : /\ IsInserted(patterns, p) => IsInserted(patterns', p)
             /\ IsNormal(DOMAIN box, p) => IsNormal(DOMAIN box', p)
  BY DEF IsInserted, IsNormal, HasNames
<1> QED BY <1>1, <1>2, <1>3 DEF NamesKnown

\* A kept assertion gives the SAT solver variables as the invariant says.
LEMMA KeepKnown ==
  ASSUME AssertedAreGiven, TodoIsBuilt, BoxIsBuilt, LiteralsAreKnown, NEW f \in todo, Keep(f)
  PROVE  /\ satVars' \in Seq(Script'.vars \cup tseitin' \cup DOMAIN formulaOf')
         /\ NamesKnown'
         /\ AreNormal(DOMAIN box', patterns')
<1> DEFINE n == Len(asserted)
           x == ProcessITE(n, f).result
           g == Normalize(x)
           K == Script
           more == ProcessITE(n, f).vars
           J == With(K, more)
           L == WithNames(J, n, g)
           P == Predicates(g)
           cnf == TseitinCnf(n, g)
           hp == [c \in cnf |-> Predicates(c)]
           hv == [c \in cnf |-> FreeVars(Abstract(c))]
           known == UNION {hp[c] : c \in cnf}
           vs == UNION {hv[c] : c \in cnf}
<1>1. /\ IsCnfizable(n, g)
      /\ \A c \in cnf : IsAbstractable(c)
      /\ patterns' = patterns \cup UNION {{p, NotF(p)} : p \in InsertedAtoms(x)}
      /\ AddFormula(n, g)
      /\ asserted' = asserted
      /\ DOMAIN box' = DOMAIN box \cup more
  BY DEF Keep
<1>2. /\ tseitin' = tseitin \cup {TseitinVar(n, h) : h \in NamedParts(g)}
      /\ formulaOf' = Override(formulaOf, [v \in {PredicateVar(p) : p \in known} |-> v[2]])
      /\ satVars' = MakeSatVars(satVars, vs)
  <2>1. {Predicates(c) : c \in cnf} = {hp[c] : c \in cnf}
    OBVIOUS
  <2>2. {FreeVars(c) : c \in {Abstract(d) : d \in cnf}} = {hv[c] : c \in cnf}
    <3>1. \A c \in cnf : hv[c] = FreeVars(Abstract(c))
      OBVIOUS
    <3> HIDE DEF cnf, hv
    <3> QED BY <3>1
  <2>3. /\ tseitin' = tseitin \cup {TseitinVar(n, h) : h \in NamedParts(g)}
        /\ formulaOf' = Override(formulaOf, [v \in {PredicateVar(p) : p \in UNION {Predicates(c) : c \in cnf}} |-> v[2]])
        /\ satVars' = MakeSatVars(satVars, UNION {FreeVars(c) : c \in {Abstract(d) : d \in cnf}})
    BY <1>1, Zenon DEF AddFormula
  <2> HIDE DEF hp, hv, cnf
  <2>4. UNION {Predicates(c) : c \in cnf} = known /\ UNION {FreeVars(c) : c \in {Abstract(d) : d \in cnf}} = vs
    BY <2>1, <2>2, Zenon
  <2> HIDE DEF known, vs
  <2> QED BY <2>3, <2>4, Zenon
<1>3. /\ SomeQuantifier' = SomeQuantifier /\ Script'.vars = K.vars
      /\ J.vars = K.vars /\ J.forall = SomeQuantifier /\ J.names = ScriptVars \cup more
  BY <1>1 DEF SomeQuantifier, Script, With
<1>4. OverForm(K, f)
  BY DEF LiteralsAreKnown
<1> HIDE DEF n
<1>5. OverForm(J, x)
  <2> HIDE DEF K
  <2> QED BY <1>4, ProcessITEOver
<1> HIDE DEF x, J
<1>6. OverForm(J, g) /\ P \subseteq InsertedAtoms(x)
  BY <1>5, NormalizeOver
<1> HIDE DEF g
<1>7. ClausesOver(L, P, cnf)
  BY <1>1, <1>6, TseitinOver
<1>8. /\ L.vars = K.vars \cup {TseitinVar(n, h) : h \in NamedParts(g)}
      /\ L.forall = SomeQuantifier /\ L.known = ScriptVars \cup more
  BY <1>3 DEF WithNames
<1> HIDE DEF more
<1>20. L.known \subseteq DOMAIN box' /\ DOMAIN box \subseteq DOMAIN box'
  BY <1>1, <1>8 DEF BoxIsBuilt
<1>9. /\ AreNormal(DOMAIN box', patterns')
      /\ \A p \in InsertedAtoms(x) : IsInserted(patterns', p)
  <2> DEFINE B == With(J, DOMAIN box')
  <2>1. AreNormal(DOMAIN box, patterns)
    BY DEF LiteralsAreKnown
  <2>2. B.names = DOMAIN box'
    BY <1>3, <1>8, <1>20 DEF With
  <2>3. OverForm(B, x)
    BY <1>5, OverWith
  <2> HIDE DEF B
  <2>4. DOMAIN box \subseteq B.names
    BY <1>20, <2>2
  <2> QED BY <1>1, <2>1, <2>2, <2>3, <2>4, InsertAtoms
<1> HIDE DEF K, L, P, cnf
<1>10. ASSUME NEW c \in cnf
       PROVE  /\ hp[c] = Predicates(c) /\ IsFiniteSet(hp[c])
              /\ \A p \in hp[c] : IsNormal(DOMAIN box', p) /\ (SomeQuantifier \/ p \in InsertedAtoms(x))
              /\ IsFiniteSet(hv[c]) /\ hv[c] \subseteq L.vars \cup VarsOf(hp[c])
  <2>1. /\ OverForm(L, c) /\ (SomeQuantifier \/ Predicates(c) \subseteq P)
        /\ \A p \in Predicates(c) : FreeVars(p) \subseteq L.known
    BY <1>7, <1>8 DEF ClausesOver, ClauseOver
  <2>2. IsFiniteSet(Predicates(c)) /\ \A p \in Predicates(c) : IsPredicate(p) /\ BindsNoDummy(p)
    BY <2>1, PredicatesType, OverNames DEF OverForm, IsForm
  <2>3. \A p \in Predicates(c) : IsNormal(DOMAIN box', p)
    BY <1>1, <1>20, <2>1, <2>2 DEF IsAbstractable, IsNormal, HasNames
  <2>4. IsForm(Abstract(c)) /\ FreeVars(Abstract(c)) \subseteq L.vars \cup VarsOf(Predicates(c))
    BY <2>1, AbstractVars
  <2>5. IsFiniteSet(FreeVars(Abstract(c)))
    BY <2>4, FreeVarsFinite DEF IsForm
  <2>6. hp[c] = Predicates(c) /\ hv[c] = FreeVars(Abstract(c))
    OBVIOUS
  <2> HIDE DEF hp, hv
  <2> QED BY <1>6, <2>1, <2>2, <2>3, <2>4, <2>5, <2>6
<1> HIDE DEF hp, hv
<1>11. IsFiniteSet(vs) /\ vs \subseteq L.vars \cup VarsOf(known)
  <2>1. IsFiniteSet(cnf)
    BY <1>7 DEF ClausesOver
  <2>2. IsFiniteSet(vs)
    BY <1>10, <2>1, UnionOfImages
  <2>3. \A c \in cnf : VarsOf(hp[c]) \subseteq VarsOf(known)
    BY DEF VarsOf
  <2>4. vs \subseteq L.vars \cup VarsOf(known)
    BY <1>10, <2>3
  <2> QED BY <2>2, <2>4
<1>12. \A p \in known : IsNormal(DOMAIN box', p) /\ (SomeQuantifier' \/ IsInserted(patterns', p))
  BY <1>3, <1>9, <1>10
<1> HIDE DEF known, vs
<1>13. DOMAIN formulaOf' = DOMAIN formulaOf \cup VarsOf(known) /\ NamesKnown'
  BY <1>1, <1>2, <1>3, <1>12, <1>20, NamesAreNormal DEF LiteralsAreKnown
<1>14. satVars' \in Seq(Script'.vars \cup tseitin' \cup DOMAIN formulaOf')
  <2> DEFINE S == Script'.vars \cup tseitin' \cup DOMAIN formulaOf'
             old == K.vars \cup tseitin \cup DOMAIN formulaOf
  <2>1. satVars \in Seq(old)
    BY DEF LiteralsAreKnown, K
  <2>2. old \subseteq S /\ vs \subseteq S
    BY <1>2, <1>3, <1>8, <1>11, <1>13
  <2> HIDE DEF S, old
  <2>3. satVars \in Seq(S)
    BY <2>1, <2>2
  <2>4. MakeSatVars(satVars, vs) \in Seq(S)
    BY <1>11, <2>2, <2>3, MakeSatVarsType
  <2> QED BY <1>2, <2>4 DEF S
<1> QED BY <1>9, <1>13, <1>14

\* So does a learned clause: its literals are in the trie.
LEMMA LearnKnown ==
  ASSUME LiteralsAreKnown, NEW E \in Explanations, Learn(E)
  PROVE  /\ satVars' \in Seq(Script'.vars \cup tseitin' \cup DOMAIN formulaOf')
         /\ NamesKnown'
         /\ AreNormal(DOMAIN box', patterns')
<1> DEFINE lits == UNION learned'
           hp == [f \in lits |-> Predicates(f)]
           known == UNION {hp[f] : f \in lits}
<1>1. /\ learned' = {E} \/ learned' = {E} \cup FindSimilar(box, patterns, E)
      /\ formulaOf' = Override(formulaOf, [v \in {PredicateVar(p) : p \in known} |-> v[2]])
      /\ satVars' = MakeSatVars(satVars, VarsOf(known))
      /\ UNCHANGED <<box, tseitin, patterns, asserted>>
  <2>1. {Predicates(f) : f \in lits} = {hp[f] : f \in lits}
    OBVIOUS
  <2>2. /\ \E found \in {{}, FindSimilar(box, patterns, E)} : learned' = {E} \cup found
        /\ formulaOf' = Override(formulaOf, [v \in {PredicateVar(p) : p \in UNION {Predicates(f) : f \in lits}} |-> v[2]])
        /\ satVars' = MakeSatVars(satVars, {PredicateVar(p) : p \in UNION {Predicates(f) : f \in lits}})
        /\ UNCHANGED <<box, tseitin, patterns, asserted>>
    BY Zenon DEF Learn
  <2> HIDE DEF hp, lits
  <2>3. UNION {Predicates(f) : f \in lits} = known
    BY <2>1, Zenon
  <2> HIDE DEF known
  <2>4. /\ formulaOf' = Override(formulaOf, [v \in {PredicateVar(p) : p \in known} |-> v[2]])
        /\ satVars' = MakeSatVars(satVars, {PredicateVar(p) : p \in known})
    BY <2>2, <2>3, Zenon
  <2>5. learned' = {E} \/ learned' = {E} \cup FindSimilar(box, patterns, E)
    BY <2>2
  <2> QED BY <2>2, <2>4, <2>5 DEF VarsOf
<1>2. SomeQuantifier' = SomeQuantifier /\ Script' = Script
  BY <1>1 DEF SomeQuantifier, Script
<1>3. E \subseteq TheoryLiterals /\ IsFiniteSet(E)
  <2>1. PICK f \in TheoryLiterals, g \in TheoryLiterals : E = {f, g}
    BY DEF Explanations
  <2>2. IsFiniteSet({f, g})
    BY FinitePairs
  <2> QED BY <2>1, <2>2, Zenon
<1>4. IsFiniteSet(lits) /\ lits \subseteq E \cup patterns
  <2>1. UNION FindSimilar(box, patterns, E) \subseteq patterns
    BY <1>3, MatchedLeaves
  <2>2. lits \subseteq E \cup patterns
    BY <1>1, <2>1
  <2>3. IsFiniteSet(E \cup patterns)
    BY <1>3, FS_Union DEF LiteralsAreKnown, AreNormal
  <2> HIDE DEF lits
  <2> QED BY <2>2, <2>3, FS_Subset
<1> HIDE DEF lits
<1>5. \A f \in lits : hp[f] = Predicates(f)
  OBVIOUS
<1> HIDE DEF hp
<1>6. ASSUME NEW f \in lits
      PROVE  /\ IsFiniteSet(hp[f])
             /\ \A p \in hp[f] : IsNormal(DOMAIN box, p) /\ (SomeQuantifier \/ IsInserted(patterns, p))
  <2>1. CASE f \in patterns
    <3>1. IsForm(f) /\ \A p \in Predicates(f) : IsNormal(DOMAIN box, p) /\ IsInserted(patterns, p)
      BY <2>1 DEF LiteralsAreKnown, AreNormal
    <3>2. IsFiniteSet(Predicates(f))
      BY <3>1, PredicatesType DEF IsForm
    <3> QED BY <1>5, <3>1, <3>2
  <2>2. CASE f \in E
    <3>1. PICK v \in DOMAIN formulaOf : f \in {formulaOf[v], NotF(formulaOf[v])}
      BY <1>3, <2>2 DEF TheoryLiterals
    <3> DEFINE q == formulaOf[v]
    <3>2. IsNormal(DOMAIN box, q) /\ (SomeQuantifier \/ IsInserted(patterns, q))
      BY DEF LiteralsAreKnown, NamesKnown
    <3> HIDE DEF q
    <3>3. hp[f] = {q}
      BY <1>5, <3>1, <3>2, PredicatesOfLiteral DEF IsNormal, q
    <3>4. IsFiniteSet({q})
      BY FS_Singleton
    <3> QED BY <3>2, <3>3, <3>4
  <2> QED BY <1>4, <2>1, <2>2
<1>7. IsFiniteSet(known)
  BY <1>4, <1>6, UnionOfImages
<1>8. \A p \in known : IsNormal(DOMAIN box', p) /\ (SomeQuantifier' \/ IsInserted(patterns', p))
  BY <1>1, <1>2, <1>6
<1> HIDE DEF known
<1>9. DOMAIN formulaOf' = DOMAIN formulaOf \cup VarsOf(known) /\ NamesKnown'
  BY <1>1, <1>2, <1>8, NamesAreNormal DEF LiteralsAreKnown
<1>10. IsFiniteSet(VarsOf(known))
  <2> DEFINE h == [p \in known |-> PredicateVar(p)]
  <2>1. VarsOf(known) = {h[p] : p \in known}
    BY DEF VarsOf
  <2> HIDE DEF h
  <2> QED BY <1>7, <2>1, FiniteImage
<1>11. satVars' \in Seq(Script'.vars \cup tseitin' \cup DOMAIN formulaOf')
  <2> DEFINE S == Script'.vars \cup tseitin' \cup DOMAIN formulaOf'
             old == Script.vars \cup tseitin \cup DOMAIN formulaOf
             vs == VarsOf(known)
  <2>1. satVars \in Seq(old)
    BY DEF LiteralsAreKnown
  <2>2. old \subseteq S /\ vs \subseteq S
    BY <1>1, <1>2, <1>9
  <2> HIDE DEF S, old, vs
  <2>3. satVars \in Seq(S)
    BY <2>1, <2>2
  <2>4. MakeSatVars(satVars, vs) \in Seq(S)
    BY <1>10, <2>2, <2>3, MakeSatVarsType DEF vs
  <2> QED BY <1>1, <2>4 DEF S, vs
<1>12. AreNormal(DOMAIN box', patterns')
  BY <1>1 DEF LiteralsAreKnown
<1> QED BY <1>9, <1>11, <1>12

\* Every step keeps the invariant.
LEMMA KnownNext ==
  ASSUME AssertedAreGiven, AssertedAreGiven', TodoIsBuilt, BoxIsBuilt, LiteralsAreKnown, [Next]_vars
  PROVE  LiteralsAreKnown'
<1>1. \A f \in todo' : OverForm(Script', f)
  BY TodoOver
<1>2. CASE UNCHANGED <<satVars, tseitin, formulaOf, patterns>>
  <2>1. (SomeQuantifier => SomeQuantifier') /\ DOMAIN box \subseteq DOMAIN box'
    BY ScriptGrows, BoxStep
  <2>2. Script'.vars = Script.vars
    BY ScriptGrows
  <2>3. satVars' \in Seq(Script'.vars \cup tseitin' \cup DOMAIN formulaOf')
    BY <1>2, <2>2, Zenon DEF LiteralsAreKnown
  <2>4. \A names, more : names \subseteq more => \A x : HasNames(names, x) => HasNames(more, x)
    BY DEF HasNames
  <2>5. \A p : IsNormal(DOMAIN box, p) => IsNormal(DOMAIN box', p)
    BY <2>1, <2>4 DEF IsNormal
  <2>6. NamesKnown'
    BY <1>2, <2>1, <2>5 DEF LiteralsAreKnown, NamesKnown
  <2>7. AreNormal(DOMAIN box', patterns')
    BY <1>2, <2>1, <2>4, <2>5 DEF LiteralsAreKnown, AreNormal
  <2> QED BY <1>1, <2>3, <2>6, <2>7 DEF LiteralsAreKnown
<1>3. CASE \E f \in todo : Keep(f)
  BY <1>1, <1>3, KeepKnown DEF LiteralsAreKnown
<1>4. CASE \E E \in Explanations : Learn(E)
  BY <1>1, <1>4, LearnKnown DEF LiteralsAreKnown
<1> QED BY <1>2, <1>3, <1>4, SolverStep

\* The literals are known in every state.
LEMMA KnownInvariant == Spec => []LiteralsAreKnown
<1>1. Init => LiteralsAreKnown
  BY FS_EmptySet DEF Init, LiteralsAreKnown, AreNormal, NamesKnown
<1> QED BY <1>1, KnownNext, AssertedInvariant, TodoInvariant, BoxInvariant, PTL DEF Spec

\* Whatever formulas are asserted, of any size, and whatever is learned: a
\* variable of the SAT solver is a Boolean variable of the script, a variable
\* of the Tseitin cnfizer, or the name of a predicate that was normalised;
\* and without quantifiers both literals of that predicate are in the trie of
\* the pattern matcher, so that every conflict over them can be matched
\* (context_impl.cc, Context::Impl::Assert, and sat_solver.cc,
\* SatSolver::MakeSatVar).
THEOREM TheoryLiteralsAlwaysKnown == Spec => []TheoryLiteralsAreKnown
<1>1. Spec => []LiteralsAreKnown
  BY KnownInvariant
<1>2. LiteralsAreKnown => TheoryLiteralsAreKnown
  <2> SUFFICES ASSUME LiteralsAreKnown, NEW n \in DOMAIN satVars
               PROVE  LET v == satVars[n]
                      IN  \/ IsBoolean(v) \/ v \in tseitin
                          \/ /\ v \in DOMAIN formulaOf
                             /\ LET f == formulaOf[v]
                                IN  f.k = "rel" => /\ f.op \in NormalKinds
                                                   /\ \/ {f, NotF(f)} \subseteq patterns
                                                      \/ \E m \in DOMAIN asserted : HasQuantifier(asserted[m])
    BY DEF TheoryLiteralsAreKnown
  <2> DEFINE v == satVars[n]
  <2>1. v \in Script.vars \cup tseitin \cup DOMAIN formulaOf
    BY DEF LiteralsAreKnown
  <2>2. v \in Script.vars => IsBoolean(v)
    BY DEF Script
  <2>3. v \in DOMAIN formulaOf => IsNormal(DOMAIN box, formulaOf[v]) /\ (SomeQuantifier \/ IsInserted(patterns, formulaOf[v]))
    BY DEF LiteralsAreKnown, NamesKnown
  <2> QED BY <2>1, <2>2, <2>3 DEF IsNormal, IsInserted, SomeQuantifier
<1> QED BY <1>1, <1>2, PTL

-----------------------------------------------------------------------------
(* Sequences that the matcher makes *)

\* The sequence s has exactly the members of S.
IsListOf(s, S) == s \in Seq(S) /\ \A e \in S : \E i \in DOMAIN s : s[i] = e

\* The members of such a sequence, and their numbers.
LEMMA ElementsOfList ==
  ASSUME NEW S, NEW s, IsListOf(s, S)
  PROVE  /\ Elements(s) = S
         /\ Len(s) \in Nat /\ DOMAIN s = 1 .. Len(s)
         /\ \A i \in 1 .. Len(s) : s[i] \in S
  BY DEF IsListOf, Elements

\* InsertByKey inserts one member and keeps the others.
LEMMA Inserting ==
  ASSUME NEW S, NEW s, IsListOf(s, S), NEW key, NEW x
  PROVE  IsListOf(InsertByKey(key, x, s), S \cup {x})
<1> DEFINE lower == {i \in DOMAIN s : key[s[i]] <= key[x]}
           before == Cardinality(lower)
           e == [i \in 1 .. Len(s) + 1 |-> IF i <= before THEN s[i] ELSE IF i = before + 1 THEN x ELSE s[i - 1]]
<1>1. Len(s) \in Nat /\ DOMAIN s = 1 .. Len(s) /\ \A i \in 1 .. Len(s) : s[i] \in S
  BY ElementsOfList
<1>2. before \in 0 .. Len(s)
  <2>1. lower \subseteq 1 .. Len(s)
    BY <1>1
  <2> HIDE DEF lower
  <2>2. IsFiniteSet(1 .. Len(s)) /\ Cardinality(1 .. Len(s)) = Len(s)
    BY <1>1, FS_Interval
  <2>3. IsFiniteSet(lower) /\ Cardinality(lower) <= Cardinality(1 .. Len(s))
    BY <2>1, <2>2, FS_Subset
  <2>4. Cardinality(lower) \in Nat
    BY <2>3, FS_CardinalityType
  <2> QED BY <1>1, <2>2, <2>3, <2>4
<1>3. InsertByKey(key, x, s) = e
  BY DEF InsertByKey
<1> HIDE DEF before
<1>4. \A i \in 1 .. Len(s) + 1 : e[i] \in S \cup {x}
  <2> SUFFICES ASSUME NEW i \in 1 .. Len(s) + 1 PROVE e[i] \in S \cup {x}
    OBVIOUS
  <2>1. i <= before => i \in 1 .. Len(s)
    BY <1>1, <1>2
  <2>2. ~ (i <= before) /\ i # before + 1 => i - 1 \in 1 .. Len(s)
    BY <1>1, <1>2
  <2> QED BY <1>1, <2>1, <2>2
<1>5. e \in Seq(S \cup {x})
  <2>1. e \in [1 .. Len(s) + 1 -> S \cup {x}]
    BY <1>4
  <2>2. Len(s) + 1 \in Nat
    BY <1>1
  <2> HIDE DEF e
  <2> QED BY <2>1, <2>2
<1>6. \A y \in S \cup {x} : \E i \in 1 .. Len(s) + 1 : e[i] = y
  <2> SUFFICES ASSUME NEW y \in S \cup {x} PROVE \E i \in 1 .. Len(s) + 1 : e[i] = y
    OBVIOUS
  <2>1. CASE y = x
    <3>1. before + 1 \in 1 .. Len(s) + 1 /\ ~ (before + 1 <= before)
      BY <1>1, <1>2
    <3>2. e[before + 1] = x
      BY <3>1
    <3> HIDE DEF e
    <3> QED BY <2>1, <3>1, <3>2
  <2>2. CASE y \in S
    <3>1. PICK j \in 1 .. Len(s) : s[j] = y
      BY <1>1, <2>2 DEF IsListOf
    <3>2. j \in 1 .. Len(s) + 1 /\ j + 1 \in 1 .. Len(s) + 1 /\ j + 1 - 1 = j
      BY <1>1
    <3>3. CASE j <= before
      <4>1. e[j] = y
        BY <3>1, <3>2, <3>3
      <4> HIDE DEF e
      <4> QED BY <3>2, <4>1
    <3>4. CASE ~ (j <= before)
      <4>1. ~ (j + 1 <= before) /\ j + 1 # before + 1
        BY <1>2, <3>4
      <4>2. e[j + 1] = y
        BY <3>1, <3>2, <4>1
      <4> HIDE DEF e
      <4> QED BY <3>2, <4>2
    <3> QED BY <3>3, <3>4
  <2> QED BY <2>1, <2>2
<1>7. DOMAIN e = 1 .. Len(s) + 1
  OBVIOUS
<1> HIDE DEF e
<1> QED BY <1>3, <1>5, <1>6, <1>7 DEF IsListOf

\* SortedBy returns every argument of the key.
LEMMA SortedIs ==
  ASSUME NEW key, IsFiniteSet(DOMAIN key)
  PROVE  IsListOf(SortedBy(key), DOMAIN key)
<1> DEFINE all == DOMAIN key
           F(D) == Ordering!Fold(key, <<>>, D)
           T == {D \in SUBSET all : IsListOf(F(D), D)}
<1>1. ASSUME NEW D \in SUBSET all, \A E \in SUBSET D : E # D => E \in T PROVE D \in T
  <2> SUFFICES IsListOf(F(D), D)
    OBVIOUS
  <2> HIDE DEF all
  <2>1. IsFiniteSet(D)
    BY FS_Subset DEF all
  <2>2. Ordering!SubsetsAreInductive(D)
    BY <2>1, FiniteSetInduction DEF Ordering!SubsetsAreInductive
  <2>3. /\ F({}) = <<>>
        /\ D # {} => F(D) = LET x == CHOOSE y \in D : TRUE IN InsertByKey(key, x, F(D \ {x}))
    BY <2>2, Ordering!FoldEquation
  <2>4. CASE D = {}
    <3>1. F(D) = <<>>
      <4> HIDE DEF F
      <4> QED BY <2>3, <2>4
    <3>2. IsListOf(<<>>, {})
      <4>1. <<>> \in Seq({})
        OBVIOUS
      <4> QED BY <4>1 DEF IsListOf
    <3> HIDE DEF F
    <3> QED BY <2>4, <3>1, <3>2, Zenon
  <2>5. CASE D # {}
    <3>1. PICK x \in D : F(D) = InsertByKey(key, x, F(D \ {x}))
      <4> HIDE DEF F
      <4> QED BY <2>3, <2>5
    <3>2. D \ {x} \in SUBSET D /\ D \ {x} # D
      BY <3>1
    <3>3. IsListOf(F(D \ {x}), D \ {x})
      <4>1. D \ {x} \in T
        <5> HIDE DEF T
        <5> QED BY <1>1, <3>2
      <4> QED BY <4>1
    <3>4. (D \ {x}) \cup {x} = D
      BY <3>1
    <3> HIDE DEF F
    <3> QED BY <3>1, <3>3, <3>4, Inserting
  <2> QED BY <2>4, <2>5
<1>2. all \in T
  <2>1. SUBSET all \subseteq T
    <3> HIDE DEF T
    <3> QED BY <1>1, FiniteSetInduction
  <2> QED BY <2>1
<1> QED BY <1>2 DEF SortedBy

\* One sequence after another.
LEMMA Joined ==
  ASSUME NEW S, NEW a \in Seq(S), NEW b \in Seq(S)
  PROVE  a \o b \in Seq(S) /\ Elements(a \o b) = Elements(a) \cup Elements(b)
<1>1. a \o b \in Seq(S)
  OBVIOUS
<1>2. /\ DOMAIN (a \o b) = 1 .. Len(a) + Len(b)
      /\ DOMAIN a = 1 .. Len(a) /\ DOMAIN b = 1 .. Len(b) /\ Len(a) \in Nat /\ Len(b) \in Nat
      /\ \A i \in 1 .. Len(a) + Len(b) : (a \o b)[i] = IF i <= Len(a) THEN a[i] ELSE b[i - Len(a)]
  OBVIOUS
<1> DEFINE c == a \o b
<1> HIDE DEF c
<1>3. ASSUME NEW e \in Elements(c) PROVE e \in Elements(a) \cup Elements(b)
  <2>1. PICK i \in 1 .. Len(a) + Len(b) : e = c[i]
    BY <1>2, <1>3 DEF Elements, c
  <2>2. CASE i <= Len(a)
    <3>1. i \in DOMAIN a /\ e = a[i]
      BY <1>2, <2>1, <2>2 DEF c
    <3> QED BY <3>1 DEF Elements
  <2>3. CASE ~ (i <= Len(a))
    <3>1. i - Len(a) \in DOMAIN b /\ e = b[i - Len(a)]
      BY <1>2, <2>1, <2>3 DEF c
    <3> QED BY <3>1 DEF Elements
  <2> QED BY <2>2, <2>3
<1>4. ASSUME NEW e \in Elements(a) PROVE e \in Elements(c)
  <2>1. PICK i \in DOMAIN a : e = a[i]
    BY <1>4 DEF Elements
  <2>2. i \in 1 .. Len(a) + Len(b) /\ i <= Len(a)
    BY <1>2
  <2>3. c[i] = e /\ i \in DOMAIN c
    BY <1>2, <2>1, <2>2 DEF c
  <2> QED BY <2>3 DEF Elements
<1>5. ASSUME NEW e \in Elements(b) PROVE e \in Elements(c)
  <2>1. PICK i \in DOMAIN b : e = b[i]
    BY <1>5 DEF Elements
  <2>2. i + Len(a) \in 1 .. Len(a) + Len(b) /\ ~ (i + Len(a) <= Len(a)) /\ i + Len(a) - Len(a) = i
    BY <1>2
  <2>3. c[i + Len(a)] = e /\ i + Len(a) \in DOMAIN c
    BY <1>2, <2>1, <2>2 DEF c
  <2> QED BY <2>3 DEF Elements
<1> QED BY <1>1, <1>3, <1>4, <1>5 DEF c

\* Join returns the members of all the sequences.
LEMMA JoinIs ==
  ASSUME NEW S, NEW ss, Len(ss) \in Nat, \A i \in 1 .. Len(ss) : ss[i] \in Seq(S)
  PROVE  /\ Join(ss) \in Seq(S)
         /\ Elements(Join(ss)) = UNION {Elements(ss[i]) : i \in 1 .. Len(ss)}
<1> DEFINE J(n) == Joining!Iterate(ss, <<>>, n)
           Good(n) == /\ J(n) \in Seq(S)
                      /\ Elements(J(n)) = UNION {Elements(ss[i]) : i \in 1 .. n}
           T == {n \in Nat : n <= Len(ss) => Good(n)}
<1>1. J(0) = <<>> /\ \A n \in Nat : J(n + 1) = J(n) \o ss[n + 1]
  <2>1. Joining!NumbersAreInductive
    BY NatSet DEF Joining!NumbersAreInductive
  <2>2. /\ Joining!Iterate(ss, <<>>, 0) = <<>>
        /\ \A n \in Nat : Joining!Iterate(ss, <<>>, n + 1) = AppendNext(ss, n + 1, Joining!Iterate(ss, <<>>, n))
    BY <2>1, Joining!IterateEquation
  <2> QED BY <2>2 DEF AppendNext
<1> HIDE DEF J
<1>2. 0 \in T
  <2>1. Elements(<<>>) = {}
    BY DEF Elements
  <2>2. UNION {Elements(ss[i]) : i \in 1 .. 0} = {}
    <3>1. 1 .. 0 = {}
      OBVIOUS
    <3> QED BY <3>1, Zenon
  <2>3. <<>> \in Seq(S)
    OBVIOUS
  <2>4. Good(0)
    BY <1>1, <2>1, <2>2, <2>3
  <2> HIDE DEF Good
  <2> QED BY <2>4
<1>3. ASSUME NEW n \in Nat, n \in T PROVE n + 1 \in T
  <2> SUFFICES ASSUME n + 1 <= Len(ss) PROVE Good(n + 1)
    OBVIOUS
  <2>1. Good(n) /\ n + 1 \in 1 .. Len(ss) /\ ss[n + 1] \in Seq(S)
    <3>1. n <= Len(ss) /\ n + 1 \in 1 .. Len(ss)
      OBVIOUS
    <3> QED BY <1>3, <3>1
  <2>2. J(n + 1) = J(n) \o ss[n + 1]
    BY <1>1
  <2>3. J(n + 1) \in Seq(S)
    <3>1. J(n) \o ss[n + 1] \in Seq(S)
      BY <2>1, Joined
    <3> QED BY <2>2, <3>1
  <2>4. Elements(J(n) \o ss[n + 1]) = Elements(J(n)) \cup Elements(ss[n + 1])
    BY <2>1, Joined
  <2>5. UNION {Elements(ss[i]) : i \in 1 .. n + 1} = (UNION {Elements(ss[i]) : i \in 1 .. n}) \cup Elements(ss[n + 1])
    <3>1. 1 .. n + 1 = (1 .. n) \cup {n + 1}
      OBVIOUS
    <3> QED BY <3>1, Zenon
  <2> QED BY <2>1, <2>2, <2>3, <2>4, <2>5
<1>4. Nat \subseteq T
  <2> HIDE DEF T
  <2> QED BY <1>2, <1>3, NatSet
<1> QED BY <1>4 DEF Join, J

\* A sequence without repetitions.
IsOneToOne(s) == \A i, j \in DOMAIN s : s[i] = s[j] => i = j

\* A member that was not there does not come twice.
LEMMA AppendingNew ==
  ASSUME NEW S, NEW s, IsListOf(s, S), IsOneToOne(s), NEW x, x \notin S
  PROVE  IsListOf(Append(s, x), S \cup {x}) /\ IsOneToOne(Append(s, x))
<1> DEFINE t == Append(s, x)
<1>1. Len(s) \in Nat /\ DOMAIN s = 1 .. Len(s) /\ \A i \in 1 .. Len(s) : s[i] \in S
  BY ElementsOfList
<1>2. /\ t \in Seq(S \cup {x}) /\ DOMAIN t = 1 .. Len(s) + 1
      /\ t[Len(s) + 1] = x /\ \A i \in 1 .. Len(s) : t[i] = s[i]
  <2>1. s \in Seq(S \cup {x})
    BY DEF IsListOf
  <2> QED BY <1>1, <2>1
<1> HIDE DEF t
<1>3. IsListOf(t, S \cup {x})
  <2>1. ASSUME NEW e \in S \cup {x} PROVE \E i \in DOMAIN t : t[i] = e
    <3>1. CASE e = x
      BY <1>1, <1>2, <3>1
    <3>2. CASE e \in S
      <4>1. PICK i \in 1 .. Len(s) : s[i] = e
        BY <1>1, <3>2 DEF IsListOf
      <4>2. i \in 1 .. Len(s) + 1
        BY <1>1
      <4> QED BY <1>2, <4>1, <4>2
    <3> QED BY <3>1, <3>2
  <2> QED BY <1>2, <2>1 DEF IsListOf
<1>4. IsOneToOne(t)
  <2> SUFFICES ASSUME NEW i \in 1 .. Len(s) + 1, NEW j \in 1 .. Len(s) + 1, t[i] = t[j] PROVE i = j
    BY <1>2 DEF IsOneToOne
  <2>1. CASE i \in 1 .. Len(s) /\ j \in 1 .. Len(s)
    BY <1>1, <1>2, <2>1 DEF IsOneToOne
  <2>2. CASE i = Len(s) + 1 /\ j \in 1 .. Len(s)
    BY <1>1, <1>2, <2>2
  <2>3. CASE j = Len(s) + 1 /\ i \in 1 .. Len(s)
    BY <1>1, <1>2, <2>3
  <2> QED BY <1>1, <2>1, <2>2, <2>3
<1> QED BY <1>3, <1>4 DEF t

\* FirstOccurrences returns each member once, except the ones to leave out.
LEMMA FirstOccurrencesAre ==
  ASSUME NEW S, NEW all \in Seq(S), NEW without
  PROVE  /\ IsListOf(FirstOccurrences(all, without), Elements(all) \ without)
         /\ IsOneToOne(FirstOccurrences(all, without))
<1> DEFINE p == [all |-> all, without |-> without]
           F(n) == Selecting!Iterate(p, <<>>, n)
           New(n) == {all[i] : i \in 1 .. n} \ without
           Good(n) == IsListOf(F(n), New(n)) /\ IsOneToOne(F(n))
           T == {n \in Nat : n <= Len(all) => Good(n)}
<1>1. /\ F(0) = <<>>
      /\ \A n \in Nat : F(n + 1) = IF all[n + 1] \in Elements(F(n)) \cup without THEN F(n) ELSE Append(F(n), all[n + 1])
  <2>1. Selecting!NumbersAreInductive
    BY NatSet DEF Selecting!NumbersAreInductive
  <2>2. /\ Selecting!Iterate(p, <<>>, 0) = <<>>
        /\ \A n \in Nat : Selecting!Iterate(p, <<>>, n + 1) = AppendNew(p, n + 1, Selecting!Iterate(p, <<>>, n))
    BY <2>1, Selecting!IterateEquation
  <2> QED BY <2>2 DEF AppendNew
<1> HIDE DEF F
<1>2. 0 \in T
  <2>1. New(0) = {}
    <3>1. 1 .. 0 = {}
      OBVIOUS
    <3> QED BY <3>1, Zenon
  <2>2. IsListOf(<<>>, {}) /\ IsOneToOne(<<>>)
    <3>1. <<>> \in Seq({})
      OBVIOUS
    <3> QED BY <3>1 DEF IsListOf, IsOneToOne
  <2> HIDE DEF New
  <2>3. Good(0)
    BY <1>1, <2>1, <2>2, Zenon
  <2> HIDE DEF Good
  <2> QED BY <2>3
<1>3. ASSUME NEW n \in Nat, n \in T PROVE n + 1 \in T
  <2> SUFFICES ASSUME n + 1 <= Len(all) PROVE Good(n + 1)
    OBVIOUS
  <2>1. Good(n)
    <3>1. n <= Len(all)
      OBVIOUS
    <3> HIDE DEF Good
    <3> QED BY <1>3, <3>1
  <2>2. New(n + 1) = New(n) \cup ({all[n + 1]} \ without)
    <3>1. 1 .. n + 1 = (1 .. n) \cup {n + 1}
      OBVIOUS
    <3> QED BY <3>1, Zenon
  <2>3. Elements(F(n)) = New(n)
    <3> HIDE DEF New
    <3> QED BY <2>1, ElementsOfList
  <2>4. CASE all[n + 1] \in Elements(F(n)) \cup without
    <3>1. F(n + 1) = F(n)
      BY <1>1, <2>4
    <3>2. New(n + 1) = New(n)
      <4> HIDE DEF New
      <4> QED BY <2>2, <2>3, <2>4
    <3> HIDE DEF New
    <3> QED BY <2>1, <3>1, <3>2, Zenon
  <2>5. CASE all[n + 1] \notin Elements(F(n)) \cup without
    <3>1. F(n + 1) = Append(F(n), all[n + 1])
      BY <1>1, <2>5
    <3>2. New(n + 1) = New(n) \cup {all[n + 1]}
      <4> HIDE DEF New
      <4> QED BY <2>2, <2>5
    <3>3. all[n + 1] \notin New(n)
      <4> HIDE DEF New
      <4> QED BY <2>3, <2>5
    <3> HIDE DEF New
    <3>4. IsListOf(Append(F(n), all[n + 1]), New(n) \cup {all[n + 1]}) /\ IsOneToOne(Append(F(n), all[n + 1]))
      BY <2>1, <3>3, AppendingNew, Zenon
    <3>5. IsListOf(F(n + 1), New(n + 1)) /\ IsOneToOne(F(n + 1))
      BY <3>1, <3>2, <3>4, Zenon
    <3> QED BY <3>5, Zenon
  <2> QED BY <2>4, <2>5
<1>4. Nat \subseteq T
  <2> HIDE DEF T
  <2> QED BY <1>2, <1>3, NatSet
<1>5. Len(all) \in Nat /\ DOMAIN all = 1 .. Len(all)
  OBVIOUS
<1>6. Good(Len(all))
  <2> HIDE DEF Good
  <2> QED BY <1>4, <1>5
<1>7. New(Len(all)) = Elements(all) \ without
  BY <1>5 DEF Elements
<1> QED BY <1>6, <1>7 DEF FirstOccurrences, F

\* The children of a node in the order of the traversal.
LEMMA InOrderIs ==
  ASSUME NEW x, WF(x)
  PROVE  IsListOf(InOrder(x), Children(x))
<1>1. IsNode(x) /\ IsFiniteSet(Children(x))
  BY WFChildren, FiniteChildren
<1>2. CASE x.k = "op"
  <2>1. Len(x.args) \in Nat /\ DOMAIN x.args = 1 .. Len(x.args) /\ Len(x.args) = Arity[x.op] /\ x.op \in DOMAIN Arity
    BY <1>1, <1>2 DEF IsNode, Arity
  <2>2. Children(x) = {x.args[i] : i \in 1 .. Len(x.args)}
    BY <1>2, <2>1 DEF Children
  <2>3. x.args \in Seq(Children(x))
    <3>1. x.args \in [1 .. Len(x.args) -> Children(x)]
      <4>1. x.args = [i \in 1 .. Len(x.args) |-> x.args[i]]
        BY <1>1, <1>2, <2>1 DEF IsNode
      <4> QED BY <2>2, <4>1
    <3> QED BY <2>1, <3>1
  <2>4. IsListOf(x.args, Children(x))
    BY <2>1, <2>2, <2>3 DEF IsListOf
  <2>5. CASE x.op \in {"add", "mul"} /\ AlHash(x.args[2]) < AlHash(x.args[1])
    <3>1. InOrder(x) = <<x.args[2], x.args[1]>>
      BY <1>2, <2>5 DEF InOrder
    <3>2. Len(x.args) = 2
      BY <2>1, <2>5 DEF Arity
    <3>3. Children(x) = {x.args[1], x.args[2]}
      BY <2>2, <3>2
    <3>4. IsListOf(<<x.args[2], x.args[1]>>, {x.args[1], x.args[2]})
      BY DEF IsListOf
    <3> QED BY <3>1, <3>3, <3>4
  <2>6. CASE ~ (x.op \in {"add", "mul"} /\ AlHash(x.args[2]) < AlHash(x.args[1]))
    <3>1. InOrder(x) = x.args
      BY <1>2, <2>6 DEF InOrder
    <3> QED BY <2>4, <3>1
  <2> QED BY <2>5, <2>6
<1>3. CASE x.k \in {"and", "or"}
  <2>1. InOrder(x) = SortedBy([g \in x.s |-> AlHash(g)]) /\ Children(x) = x.s
    BY <1>3 DEF InOrder, Children
  <2> DEFINE key == [g \in x.s |-> AlHash(g)]
  <2>2. DOMAIN key = x.s
    OBVIOUS
  <2> HIDE DEF key
  <2>3. IsListOf(SortedBy(key), x.s)
    BY <1>1, <2>1, <2>2, SortedIs
  <2> QED BY <2>1, <2>3 DEF key
<1>4. CASE x.k = "ite"
  <2>1. InOrder(x) = <<x.c, x.a, x.b>> /\ Children(x) = {x.c, x.a, x.b}
    BY <1>4 DEF InOrder, Children
  <2>2. IsListOf(<<x.c, x.a, x.b>>, {x.c, x.a, x.b})
    BY DEF IsListOf
  <2> QED BY <2>1, <2>2
<1>5. CASE x.k = "rel"
  <2>1. InOrder(x) = <<x.l, x.r>> /\ Children(x) = {x.l, x.r}
    BY <1>5 DEF InOrder, Children
  <2>2. IsListOf(<<x.l, x.r>>, {x.l, x.r})
    BY DEF IsListOf
  <2> QED BY <2>1, <2>2
<1>6. CASE x.k \in {"not", "forall"}
  <2>1. InOrder(x) = <<x.f>> /\ Children(x) = {x.f}
    BY <1>6 DEF InOrder, Children
  <2>2. IsListOf(<<x.f>>, {x.f})
    BY DEF IsListOf
  <2> QED BY <2>1, <2>2
<1>7. CASE x.k \in {"var", "bvar", "const", "true", "false"}
  <2>1. InOrder(x) = <<>> /\ Children(x) = {}
    BY <1>7 DEF InOrder, Children
  <2>2. IsListOf(<<>>, {})
    BY DEF IsListOf
  <2> QED BY <2>1, <2>2
<1>8. x.k \in {"var", "const", "op", "ite", "bvar", "true", "false", "rel", "not", "and", "or", "forall"}
  BY <1>1 DEF IsNode, IsTerm, IsFormula
<1> QED BY <1>2, <1>3, <1>4, <1>5, <1>6, <1>7, <1>8

\* The canonical sequence has the free variables.
LEMMA CanonicalSequenceIs ==
  ASSUME NEW x, WF(x)
  PROVE  IsListOf(CanonicalSequence(x), FreeVars(x))
<1> DEFINE T == {y \in Parts(x) : IsListOf(CanonicalSequence(y), FreeVars(y))}
<1>1. ASSUME NEW y \in Parts(x), WF(y), Children(y) \subseteq T PROVE y \in T
  <2> DEFINE seqs == [z \in Children(y) |-> CanonicalSequence(z)]
             ss == [i \in DOMAIN InOrder(y) |-> seqs[InOrder(y)[i]]]
             S == UNION {FreeVars(z) : z \in Children(y)}
  <2>1. IsTree(y)
    BY <1>1 DEF WF
  <2>2. CanonicalSequence(y) = SequenceStep(0, y, seqs)
    BY <2>1, SequenceNode
  <2>3. /\ CASE y.k \in {"var", "bvar"} -> CanonicalSequence(y) = <<y.v>>
             [] y.k = "forall" -> CanonicalSequence(y) = FirstOccurrences(Join(ss), y.y)
             [] OTHER -> CanonicalSequence(y) = Join(ss)
    BY <2>2 DEF SequenceStep
  <2>4. \A z \in Children(y) : IsListOf(CanonicalSequence(z), FreeVars(z))
    BY <1>1
  <2>5. /\ DOMAIN InOrder(y) = 1 .. Len(InOrder(y)) /\ Len(InOrder(y)) \in Nat
        /\ \A i \in 1 .. Len(InOrder(y)) : InOrder(y)[i] \in Children(y)
        /\ \A z \in Children(y) : \E i \in 1 .. Len(InOrder(y)) : InOrder(y)[i] = z
    <3>1. IsListOf(InOrder(y), Children(y))
      BY <1>1, InOrderIs
    <3> QED BY <3>1, ElementsOfList DEF IsListOf
  <2>6. /\ Len(ss) = Len(InOrder(y))
        /\ \A i \in 1 .. Len(ss) : ss[i] = CanonicalSequence(InOrder(y)[i])
    <3>1. DOMAIN ss = 1 .. Len(InOrder(y))
      BY <2>5
    <3>2. \A i \in 1 .. Len(InOrder(y)) : ss[i] = CanonicalSequence(InOrder(y)[i])
      BY <2>5
    <3> HIDE DEF ss
    <3>3. Len(ss) = Len(InOrder(y))
      BY <2>5, <3>1
    <3> QED BY <3>2, <3>3
  <2> HIDE DEF ss
  <2>7. \A i \in 1 .. Len(ss) : ss[i] \in Seq(S) /\ Elements(ss[i]) = FreeVars(InOrder(y)[i])
    <3> SUFFICES ASSUME NEW i \in 1 .. Len(ss) PROVE ss[i] \in Seq(S) /\ Elements(ss[i]) = FreeVars(InOrder(y)[i])
      OBVIOUS
    <3>1. InOrder(y)[i] \in Children(y)
      BY <2>5, <2>6
    <3>2. IsListOf(ss[i], FreeVars(InOrder(y)[i])) /\ FreeVars(InOrder(y)[i]) \subseteq S
      BY <2>4, <2>6, <3>1
    <3>3. ss[i] \in Seq(FreeVars(InOrder(y)[i]))
      BY <3>2 DEF IsListOf
    <3>4. Elements(ss[i]) = FreeVars(InOrder(y)[i])
      BY <3>2, ElementsOfList
    <3> HIDE DEF S
    <3>5. ss[i] \in Seq(S)
      BY <3>2, <3>3
    <3> QED BY <3>4, <3>5
  <2>8. Join(ss) \in Seq(S) /\ Elements(Join(ss)) = S
    <3>1. Join(ss) \in Seq(S) /\ Elements(Join(ss)) = UNION {Elements(ss[i]) : i \in 1 .. Len(ss)}
      <4>1. Len(ss) \in Nat
        BY <2>5, <2>6
      <4> HIDE DEF S
      <4> QED BY <2>7, <4>1, JoinIs
    <3>2. UNION {Elements(ss[i]) : i \in 1 .. Len(ss)} = S
      <4>1. \A i \in 1 .. Len(ss) : Elements(ss[i]) = FreeVars(InOrder(y)[i]) /\ InOrder(y)[i] \in Children(y)
        BY <2>5, <2>6, <2>7
      <4>2. \A z \in Children(y) : \E i \in 1 .. Len(ss) : Elements(ss[i]) = FreeVars(z)
        BY <2>5, <2>6, <2>7
      <4> QED BY <4>1, <4>2
    <3> QED BY <3>1, <3>2
  <2>9. IsListOf(Join(ss), S)
    <3>1. \A e \in S : \E i \in DOMAIN Join(ss) : Join(ss)[i] = e
      <4> HIDE DEF S
      <4> QED BY <2>8 DEF Elements
    <3> HIDE DEF S
    <3> QED BY <2>8, <3>1 DEF IsListOf
  <2>10. CASE y.k \in {"var", "bvar"}
    <3>1. CanonicalSequence(y) = <<y.v>> /\ FreeVars(y) = {y.v}
      BY <2>1, <2>3, <2>10, FreeVarsAre
    <3>2. IsListOf(<<y.v>>, {y.v})
      BY DEF IsListOf
    <3> QED BY <3>1, <3>2
  <2>11. CASE y.k = "forall"
    <3>1. CanonicalSequence(y) = FirstOccurrences(Join(ss), y.y) /\ FreeVars(y) = FreeVars(y.f) \ y.y
      BY <2>1, <2>3, <2>11, FreeVarsAre
    <3>2. S = FreeVars(y.f)
      BY <2>11 DEF Children
    <3> HIDE DEF S
    <3>3. IsListOf(FirstOccurrences(Join(ss), y.y), S \ y.y)
      BY <2>8, FirstOccurrencesAre
    <3> QED BY <3>1, <3>2, <3>3
  <2>12. CASE y.k \notin {"var", "bvar", "forall"}
    <3>1. CanonicalSequence(y) = Join(ss) /\ FreeVars(y) = S
      BY <2>1, <2>3, <2>12, FreeVarsAre
    <3> HIDE DEF S
    <3> QED BY <2>9, <3>1
  <2> QED BY <2>10, <2>11, <2>12
<1>2. x \in T
  <2> HIDE DEF T
  <2> QED BY <1>1, ShapeInduction
<1> QED BY <1>2

\* The path of a literal in a tree of the matcher: its free variables, each once.
LEMMA ConcreteVarsAre ==
  ASSUME NEW x, WF(x)
  PROVE  IsListOf(ConcreteVars(x), FreeVars(x)) /\ IsOneToOne(ConcreteVars(x))
<1>1. IsListOf(CanonicalSequence(x), FreeVars(x))
  BY CanonicalSequenceIs
<1>2. CanonicalSequence(x) \in Seq(FreeVars(x)) /\ Elements(CanonicalSequence(x)) = FreeVars(x)
  BY <1>1, ElementsOfList DEF IsListOf
<1>3. FreeVars(x) \ {} = FreeVars(x)
  OBVIOUS
<1> QED BY <1>2, <1>3, FirstOccurrencesAre DEF ConcreteVars

-----------------------------------------------------------------------------
(* Renamed trees *)

\* A quantification holds where its body holds for every value of the
\* variables it was given, also of the ones that do not occur.
LEMMA AtForall ==
  ASSUME NEW f, IsForm(f), NEW ys, IsFiniteSet(ys), NEW env, Fits(env, ForallF(ys, f))
  PROVE  At(ForallF(ys, f), env) <=> \A a \in Assignments(ys) : At(f, Override(env, a))
<1> DEFINE x == ForallF(ys, f)
           vs == ys \cap FreeVars(f)
<1>1. x.k = "forall" /\ x.f = f /\ x.y = vs
  BY DEF ForallF
<1>2. IsFiniteSet(vs)
  BY FS_Subset
<1>3. WF(x) /\ WF(f) /\ IsTree(f) /\ FreeVars(x) = FreeVars(f) \ ys
  BY ForallWF, FreeVarsOfForall, WFChildren DEF IsForm
<1>4. FreeVars(f) \ ys \subseteq DOMAIN env /\ IsPoint(env)
  BY <1>3 DEF Fits
<1>5. At(x, env) = \A a \in Assignments(vs) : At(f, Override(env, a))
  <2> HIDE DEF vs
  <2>1. WF(x) /\ Fits(env, x)
    BY <1>3
  <2> HIDE DEF x
  <2>2. AtAs(x, env)
    BY <2>1, AtNode
  <2>3. At(x, env) = \A a \in Assignments(x.y) : At(x.f, Override(env, a))
    BY <1>1, <2>2 DEF AtAs
  <2> QED BY <1>1, <2>3, Zenon
<1> HIDE DEF x
<1>6. ASSUME NEW zs, zs \in {ys, vs}, NEW a \in Assignments(zs)
      PROVE  a \in [zs -> Int] /\ OverrideAs(env, a, DOMAIN env, zs) /\ Fits(Override(env, a), f)
  <2>1. a \in [zs -> Int]
    BY <1>2, <1>6, AssignmentsAre
  <2>2. OverrideAs(env, a, DOMAIN env, zs)
    BY <1>4, <2>1, OverrideIs DEF IsPoint
  <2>3. FreeVars(f) \subseteq DOMAIN env \cup zs
    BY <1>4, <1>6
  <2>4. Override(env, a) \in [DOMAIN env \cup zs -> Int]
    BY <2>2 DEF OverrideAs
  <2>5. DOMAIN Override(env, a) = DOMAIN env \cup zs /\ IsPoint(Override(env, a))
    BY <2>4 DEF IsPoint
  <2> QED BY <2>1, <2>2, <2>3, <2>5 DEF Fits
<1>7. ASSUME NEW a \in Assignments(vs), NEW b \in Assignments(ys), \A v \in vs : a[v] = b[v]
      PROVE  At(f, Override(env, a)) = At(f, Override(env, b))
  <2>1. /\ Fits(Override(env, a), f) /\ OverrideAs(env, a, DOMAIN env, vs)
        /\ Fits(Override(env, b), f) /\ OverrideAs(env, b, DOMAIN env, ys)
    BY <1>6
  <2>2. Agree(f, Override(env, a), Override(env, b))
    <3> SUFFICES ASSUME NEW v \in FreeVars(f) PROVE Override(env, a)[v] = Override(env, b)[v]
      BY DEF Agree
    <3>1. CASE v \in ys
      <4>1. v \in vs
        BY <3>1
      <4> HIDE DEF vs
      <4> QED BY <1>7, <2>1, <3>1, <4>1 DEF OverrideAs
    <3>2. CASE v \notin ys
      <4>1. v \notin vs /\ v \in DOMAIN env
        BY <1>4, <3>2
      <4> HIDE DEF vs
      <4> QED BY <2>1, <3>2, <4>1 DEF OverrideAs
    <3> QED BY <3>1, <3>2
  <2> QED BY <1>3, <2>1, <2>2, AtSame
<1>8. ASSUME NEW b \in Assignments(ys) PROVE \E a \in Assignments(vs) : \A v \in vs : a[v] = b[v]
  <2> DEFINE a == [v \in vs |-> b[v]]
  <2>1. b \in [ys -> Int] /\ \A v \in ys : b[v] \in ValuesOf(v)
    BY AssignmentsAre
  <2>2. a \in [vs -> Int] /\ \A v \in vs : a[v] \in ValuesOf(v) /\ a[v] = b[v]
    BY <2>1
  <2> HIDE DEF a, vs
  <2>3. a \in Assignments(vs)
    BY <1>2, <2>2, AssignmentsAre
  <2> QED BY <2>2, <2>3
<1>9. ASSUME NEW a \in Assignments(vs) PROVE \E b \in Assignments(ys) : \A v \in vs : a[v] = b[v]
  <2> DEFINE b == [v \in ys |-> IF v \in vs THEN a[v] ELSE 0]
  <2>1. a \in [vs -> Int] /\ \A v \in vs : a[v] \in ValuesOf(v)
    BY <1>2, AssignmentsAre
  <2>2. \A v : ValuesOf(v) \subseteq Int /\ 0 \in ValuesOf(v)
    BY AssignmentsAre
  <2>3. b \in [ys -> Int] /\ (\A v \in ys : b[v] \in ValuesOf(v)) /\ \A v \in vs : a[v] = b[v]
    BY <2>1, <2>2
  <2> HIDE DEF b, vs
  <2>4. b \in Assignments(ys)
    BY <2>3, AssignmentsAre
  <2> QED BY <2>3, <2>4
<1> HIDE DEF vs
<1>10. (\A a \in Assignments(vs) : At(f, Override(env, a))) <=> \A b \in Assignments(ys) : At(f, Override(env, b))
  BY <1>7, <1>8, <1>9
<1> QED BY <1>5, <1>10 DEF x

\* Truth values.
IsTruth(f) == f.k \in {"true", "false"}

\* Operands that are not truth values keep all their free variables when they
\* are merged.
LEMMA FreeVarsOfOperands ==
  ASSUME NEW fs, IsFiniteSet(fs), fs # {}, \A f \in fs : IsForm(f) /\ ~ IsTruth(f), NEW kind \in {"and", "or"}, NEW unit, NEW zero,
         <<kind, unit, zero>> \in {<<"and", TrueF, FalseF>>, <<"or", FalseF, TrueF>>}
  PROVE  /\ ~ IsTruth(Nary(kind, unit, zero, fs))
         /\ FreeVars(Nary(kind, unit, zero, fs)) = UNION {FreeVars(f) : f \in fs}
<1> DEFINE x == Nary(kind, unit, zero, fs)
           merged == Merged(kind, unit, fs)
           all == UNION {FreeVars(f) : f \in fs}
<1>0. TrueF.k = "true" /\ FalseF.k = "false" /\ {unit, zero} = {TrueF, FalseF}
  BY DEF TrueF, FalseF
<1>1. zero \notin fs /\ unit \notin fs
  BY <1>0 DEF IsTruth
<1>2. IsTree(x)
  BY NaryWF DEF IsForm, WF
<1>3. \A g \in merged : IsForm(g) /\ ~ IsTruth(g)
  BY <1>1, MergedOperands DEF IsTruth
<1>4. ASSUME NEW f \in fs PROVE \E D : D # {} /\ D \subseteq merged /\ FreeVars(f) = UNION {FreeVars(g) : g \in D}
  <2>0. IsForm(f) /\ ~ IsTruth(f) /\ IsNode(f) /\ IsTree(f)
    BY WFChildren DEF IsForm
  <2>1. CASE f.k = kind
    <3>1. AreOperands(f.k, f.s) /\ Children(f) = f.s /\ f.k \notin {"var", "bvar", "forall"}
      BY <2>0, <2>1 DEF IsNode, Children
    <3>2. FreeVars(f) = UNION {FreeVars(g) : g \in f.s}
      BY <2>0, <3>1, FreeVarsAre
    <3>3. f.s # {}
      BY <3>1, FS_EmptySet DEF AreOperands
    <3>4. \A g \in f.s : g # unit
      BY <1>0, <3>1 DEF AreOperands
    <3>5. f.s \subseteq merged
      BY <2>1, <3>4 DEF Merged
    <3> QED BY <3>2, <3>3, <3>5
  <2>2. CASE f.k # kind
    <3>1. f # unit
      BY <1>1
    <3>2. f \in merged
      BY <2>2, <3>1 DEF Merged
    <3> HIDE DEF merged
    <3>3. {f} # {} /\ {f} \subseteq merged /\ FreeVars(f) = UNION {FreeVars(g) : g \in {f}}
      BY <3>2
    <3> QED BY <3>3
  <2> QED BY <2>1, <2>2
<1>5. merged # {} /\ all \subseteq UNION {FreeVars(g) : g \in merged}
  <2> HIDE DEF merged
  <2> QED BY <1>4
<1>6. FreeVars(x) \subseteq all
  BY FreeVarsOfNary
<1>7. CASE Cardinality(merged) = 1 /\ x = CHOOSE f \in merged : TRUE
  <2> HIDE DEF merged, all
  <2>1. PICK g : merged = {g}
    <3>1. IsFiniteSet(merged)
      BY <1>1, MergedOperands DEF merged
    <3> QED BY <1>7, <3>1, FS_Singleton
  <2>2. x = g
    BY <1>7, <2>1
  <2> HIDE DEF x
  <2> QED BY <1>3, <1>5, <1>6, <2>1, <2>2 DEF x, all
<1>8. CASE x = [k |-> kind, s |-> merged]
  <2> HIDE DEF merged, x, all
  <2>1. x.k \in {"and", "or"} /\ Children(x) = merged
    BY <1>8 DEF Children
  <2>2. FreeVars(x) = UNION {FreeVars(z) : z \in merged}
    BY <1>2, <2>1, FreeVarsAre
  <2> QED BY <1>5, <1>6, <2>1, <2>2 DEF IsTruth, x, all
<1> QED BY <1>1, <1>5, <1>7, <1>8, NaryIs

\* What v is called when the variables in renamed are.
NameIn(to, renamed, v) == IF v \in renamed THEN to[v] ELSE v

\* y is x with the variables in renamed replaced.
RenamedAs(to, renamed, x, y) ==
  /\ WF(y)
  /\ IsTerm(x) => IsTerm(y) /\ (y.k = "const" => y = x)
  /\ IsFormula(x) => IsFormula(y)
  /\ ~ IsTruth(x) => ~ IsTruth(y)
  /\ FreeVars(y) = {NameIn(to, renamed, v) : v \in FreeVars(x)}
  /\ \A env, point : Fits(env, y) /\ Fits(point, x) /\ (\A v \in FreeVars(x) : point[v] = env[NameIn(to, renamed, v)])
                       => At(y, env) = At(x, point)

\* A node of renamed children is renamed, if its value is made of theirs.
LEMMA RenamedNode ==
  ASSUME NEW to, NEW vs, NEW x, WF(x), x.k \notin {"var", "bvar", "forall"},
         NEW sub, \A z \in Children(x) : RenamedAs(to, vs, z, sub[z]),
         NEW y, WF(y), IsTerm(x) => IsTerm(y) /\ (y.k = "const" => y = x), IsFormula(x) => IsFormula(y), ~ IsTruth(x) => ~ IsTruth(y),
         FreeVars(y) = UNION {FreeVars(sub[z]) : z \in Children(x)},
         \A env, point : Fits(env, y) /\ Fits(point, x)
                          /\ (\A z \in Children(x) : Fits(env, sub[z]) /\ Fits(point, z) /\ At(sub[z], env) = At(z, point))
                          => At(y, env) = At(x, point)
  PROVE  RenamedAs(to, vs, x, y)
<1>1. FreeVars(x) = UNION {FreeVars(z) : z \in Children(x)}
  BY FreeVarsAre DEF WF
<1>2. \A z \in Children(x) : FreeVars(sub[z]) = {NameIn(to, vs, v) : v \in FreeVars(z)}
  BY DEF RenamedAs
<1>3. FreeVars(y) = {NameIn(to, vs, v) : v \in FreeVars(x)}
  <2> DEFINE image == {NameIn(to, vs, v) : v \in FreeVars(x)}
  <2>1. ASSUME NEW w \in FreeVars(y) PROVE w \in image
    <3>1. PICK z \in Children(x) : w \in FreeVars(sub[z])
      OBVIOUS
    <3>2. PICK v \in FreeVars(z) : w = NameIn(to, vs, v)
      BY <1>2, <3>1
    <3> QED BY <1>1, <3>2
  <2>2. ASSUME NEW v \in FreeVars(x) PROVE NameIn(to, vs, v) \in FreeVars(y)
    <3>1. PICK z \in Children(x) : v \in FreeVars(z)
      BY <1>1
    <3>2. NameIn(to, vs, v) \in FreeVars(sub[z])
      BY <1>2, <3>1
    <3> QED BY <3>2
  <2> QED BY <2>1, <2>2
<1>4. ASSUME NEW env, NEW point, Fits(env, y), Fits(point, x), \A v \in FreeVars(x) : point[v] = env[NameIn(to, vs, v)]
      PROVE  At(y, env) = At(x, point)
  <2>1. \A z \in Children(x) : Fits(point, z)
    BY <1>4, FitsChildren
  <2>2. \A z \in Children(x) : Fits(env, sub[z])
    BY <1>4 DEF Fits
  <2>3. \A z \in Children(x) : At(sub[z], env) = At(z, point)
    <3> SUFFICES ASSUME NEW z \in Children(x) PROVE At(sub[z], env) = At(z, point)
      OBVIOUS
    <3>1. \A v \in FreeVars(z) : point[v] = env[NameIn(to, vs, v)]
      BY <1>1, <1>4
    <3> QED BY <2>1, <2>2, <3>1 DEF RenamedAs
  <2> QED BY <1>4, <2>1, <2>2, <2>3
<1> QED BY <1>3, <1>4 DEF RenamedAs

\* A renamed leaf.
LEMMA RenamedLeaf ==
  ASSUME NEW to, NEW vs, NEW x, WF(x), x.k \in {"var", "bvar", "const", "true", "false"},
         NEW y, y = IF x.k \in {"var", "bvar"} /\ x.v \in vs THEN [x EXCEPT !.v = to[x.v]] ELSE x
  PROVE  RenamedAs(to, vs, x, y)
<1>1. IsNode(x) /\ IsTree(x)
  BY WFChildren
<1>2. CASE x.k = "var"
  <2> DEFINE w == NameIn(to, vs, x.v)
  <2>1. x = Variable(x.v) /\ y = Variable(w)
    BY <1>1, <1>2 DEF IsNode, Variable, NameIn
  <2>2. y.k = "var" /\ y.v = w
    BY <2>1 DEF Variable
  <2> HIDE DEF w
  <2>3. WF(y) /\ FreeVars(y) = {w} /\ FreeVars(x) = {x.v}
    BY <2>1, LeafWF, FreeVarsOfLeaves DEF IsExpr
  <2>4. \A env, point : Fits(env, y) /\ Fits(point, x) => At(y, env) = env[w] /\ At(x, point) = point[x.v]
    <3>1. \A env : Fits(env, y) => AtAs(y, env)
      BY <2>3, AtNode
    <3>2. \A point : Fits(point, x) => AtAs(x, point)
      BY AtNode
    <3>3. ASSUME NEW env, Fits(env, y) PROVE At(y, env) = env[w]
      BY <2>2, <3>1, <3>3 DEF AtAs
    <3>4. ASSUME NEW point, Fits(point, x) PROVE At(x, point) = point[x.v]
      BY <1>2, <3>2, <3>4 DEF AtAs
    <3> QED BY <3>3, <3>4
  <2>5. FreeVars(y) = {NameIn(to, vs, v) : v \in FreeVars(x)}
    BY <2>3 DEF w
  <2>6. IsTerm(x) /\ ~ IsFormula(x) /\ IsTerm(y) /\ ~ IsTruth(y)
    BY <1>2, <2>2 DEF IsTerm, IsFormula, IsTruth
  <2> QED BY <2>2, <2>3, <2>4, <2>5, <2>6 DEF RenamedAs, w
<1>3. CASE x.k = "bvar"
  <2> DEFINE w == NameIn(to, vs, x.v)
  <2>1. x = BoolVar(x.v) /\ y = BoolVar(w)
    BY <1>1, <1>3 DEF IsNode, BoolVar, NameIn
  <2>2. y.k = "bvar" /\ y.v = w
    BY <2>1 DEF BoolVar
  <2> HIDE DEF w
  <2>3. WF(y) /\ FreeVars(y) = {w} /\ FreeVars(x) = {x.v}
    BY <2>1, LeafWF, FreeVarsOfLeaves DEF IsForm
  <2>4. \A env, point : Fits(env, y) /\ Fits(point, x) => At(y, env) = (env[w] = 1) /\ At(x, point) = (point[x.v] = 1)
    <3>1. \A env : Fits(env, y) => AtAs(y, env)
      BY <2>3, AtNode
    <3>2. \A point : Fits(point, x) => AtAs(x, point)
      BY AtNode
    <3>3. ASSUME NEW env, Fits(env, y) PROVE At(y, env) = (env[w] = 1)
      BY <2>2, <3>1, <3>3 DEF AtAs
    <3>4. ASSUME NEW point, Fits(point, x) PROVE At(x, point) = (point[x.v] = 1)
      BY <1>3, <3>2, <3>4 DEF AtAs
    <3> QED BY <3>3, <3>4
  <2>5. FreeVars(y) = {NameIn(to, vs, v) : v \in FreeVars(x)}
    BY <2>3 DEF w
  <2>6. ~ IsTerm(x) /\ IsFormula(y) /\ ~ IsTruth(y)
    BY <1>3, <2>2 DEF IsTerm, IsFormula, IsTruth
  <2> QED BY <2>3, <2>4, <2>5, <2>6 DEF RenamedAs, w
<1>4. CASE x.k \in {"const", "true", "false"}
  <2>1. y = x /\ FreeVars(x) = {} /\ Children(x) = {}
    BY <1>1, <1>4, FreeVarsAre DEF Children
  <2>2. \A env, point : Fits(env, x) /\ Fits(point, x) => At(x, env) = At(x, point)
    BY <2>1, AtSame DEF Agree
  <2>3. FreeVars(y) = {NameIn(to, vs, v) : v \in FreeVars(x)}
    BY <2>1
  <2> QED BY <2>1, <2>2, <2>3 DEF RenamedAs
<1> QED BY <1>2, <1>3, <1>4

\* A node rebuilt of renamed children, unless it is a quantifier.
LEMMA RenamedRebuild ==
  ASSUME NEW to, NEW vs, NEW x, WF(x), x.k \notin {"var", "bvar", "forall"},
         NEW sub, \A z \in Children(x) : RenamedAs(to, vs, z, sub[z])
  PROVE  RenamedAs(to, vs, x, Rebuild(x, sub))
<1> DEFINE y == Rebuild(x, sub)
           Same(env, point) == \A z \in Children(x) : Fits(env, sub[z]) /\ Fits(point, z) /\ At(sub[z], env) = At(z, point)
           Goal == /\ IsTerm(x) => IsTerm(y) /\ (y.k = "const" => y = x)
                   /\ ~ IsTruth(x) => ~ IsTruth(y)
                   /\ FreeVars(y) = UNION {FreeVars(sub[z]) : z \in Children(x)}
                   /\ \A env, point : Fits(env, y) /\ Fits(point, x) /\ Same(env, point) => At(y, env) = At(x, point)
<1>0. IsNode(x) /\ \A z \in Children(x) : WF(z)
  BY WFChildren
<1>1. \A z \in Children(x) : WF(sub[z]) /\ (IsTerm(z) => IsTerm(sub[z])) /\ (IsFormula(z) => IsFormula(sub[z]))
  BY DEF RenamedAs
<1>2. WF(y) /\ (IsTerm(x) => IsTerm(y)) /\ (IsFormula(x) => IsFormula(y))
  BY <1>1, RebuildWF
<1>3. \A env : Fits(env, y) => AtAs(y, env)
  BY <1>2, AtNode
<1>4. \A point : Fits(point, x) => AtAs(x, point)
  BY AtNode
<1>5. CASE x.k = "op"
  <2> DEFINE args == [i \in DOMAIN x.args |-> sub[x.args[i]]]
  <2>1. x = Apply(x.op, x.args) /\ Children(x) = {x.args[i] : i \in DOMAIN x.args}
    BY <1>0, <1>5 DEF IsNode, Children
  <2>2. y = [x EXCEPT !.args = args]
    BY <1>5 DEF Rebuild
  <2>3. DOMAIN args = DOMAIN x.args /\ \A i \in DOMAIN x.args : args[i] = sub[x.args[i]]
    OBVIOUS
  <2> HIDE DEF args, y
  <2>4. [Apply(x.op, x.args) EXCEPT !.args = args] = Apply(x.op, args)
    BY DEF Apply
  <2>5. y = Apply(x.op, args)
    BY <2>1, <2>2, <2>4, Zenon
  <2>6. y.k = "op" /\ y.op = x.op /\ y.args = args
    BY <2>5 DEF Apply
  <2>7. Children(y) = {sub[z] : z \in Children(x)}
    <3>1. Children(y) = {args[i] : i \in DOMAIN x.args}
      BY <2>3, <2>6 DEF Children
    <3> QED BY <2>1, <2>3, <3>1
  <2>8. FreeVars(y) = UNION {FreeVars(sub[z]) : z \in Children(x)}
    <3>1. FreeVars(y) = UNION {FreeVars(z) : z \in Children(y)}
      BY <1>2, <2>6, FreeVarsAre DEF WF
    <3> QED BY <2>7, <3>1
  <2>9. ASSUME NEW env, NEW point, Fits(env, y), Fits(point, x), Same(env, point) PROVE At(y, env) = At(x, point)
    <3>1. At(y, env) = Operation(x.op, [i \in DOMAIN x.args |-> At(args[i], env)])
      BY <1>3, <2>3, <2>6, <2>9 DEF AtAs
    <3>2. At(x, point) = Operation(x.op, [i \in DOMAIN x.args |-> At(x.args[i], point)])
      BY <1>4, <1>5, <2>9 DEF AtAs
    <3>3. \A i \in DOMAIN x.args : At(args[i], env) = At(x.args[i], point)
      BY <2>1, <2>3, <2>9
    <3>4. [i \in DOMAIN x.args |-> At(args[i], env)] = [i \in DOMAIN x.args |-> At(x.args[i], point)]
      BY <3>3
    <3> QED BY <3>1, <3>2, <3>4
  <2>10. IsTerm(y) /\ y.k # "const" /\ ~ IsTruth(y)
    BY <2>6 DEF IsTerm, IsTruth
  <2> HIDE DEF Same
  <2>11. Goal
    BY <2>8, <2>9, <2>10
  <2> QED BY <1>2, <2>11, RenamedNode DEF y, Same
<1>6. CASE x.k = "ite"
  <2>1. Children(x) = {x.c, x.a, x.b} /\ y = IfThenElse(sub[x.c], sub[x.a], sub[x.b])
    BY <1>6 DEF Children, Rebuild
  <2>2. y.k = "ite" /\ y.c = sub[x.c] /\ y.a = sub[x.a] /\ y.b = sub[x.b]
    BY <2>1 DEF IfThenElse
  <2> HIDE DEF y
  <2>3. Children(y) = {sub[x.c], sub[x.a], sub[x.b]}
    BY <2>2 DEF Children
  <2>4. FreeVars(y) = UNION {FreeVars(sub[z]) : z \in Children(x)}
    <3>1. FreeVars(y) = UNION {FreeVars(z) : z \in Children(y)}
      BY <1>2, <2>2, FreeVarsAre DEF WF
    <3> QED BY <2>1, <2>3, <3>1
  <2>5. ASSUME NEW env, NEW point, Fits(env, y), Fits(point, x), Same(env, point) PROVE At(y, env) = At(x, point)
    <3>1. At(y, env) = IF At(sub[x.c], env) THEN At(sub[x.a], env) ELSE At(sub[x.b], env)
      BY <1>3, <2>2, <2>5 DEF AtAs
    <3>2. At(x, point) = IF At(x.c, point) THEN At(x.a, point) ELSE At(x.b, point)
      BY <1>4, <1>6, <2>5 DEF AtAs
    <3> QED BY <2>1, <2>5, <3>1, <3>2
  <2>6. IsTerm(y) /\ y.k # "const" /\ ~ IsTruth(y)
    BY <2>2 DEF IsTerm, IsTruth
  <2> HIDE DEF Same
  <2>7. Goal
    BY <2>4, <2>5, <2>6
  <2> QED BY <1>2, <2>7, RenamedNode DEF y, Same
<1>7. CASE x.k = "rel"
  <2>1. Children(x) = {x.l, x.r} /\ y = Rel(x.op, sub[x.l], sub[x.r])
    BY <1>7 DEF Children, Rebuild
  <2>2. /\ x = Rel(x.op, x.l, x.r) /\ x.op \in Relops /\ IsTerm(x.l) /\ IsTerm(x.r)
        /\ IsFormula(x) /\ ~ IsTerm(x)
    BY <1>0, <1>7 DEF IsNode, IsFormula, IsTerm
  <2>3. /\ sub[x.l].k = "const" => sub[x.l] = x.l
        /\ sub[x.r].k = "const" => sub[x.r] = x.r
    BY <2>1, <2>2 DEF RenamedAs
  <2>4. y = [k |-> "rel", op |-> x.op, l |-> sub[x.l], r |-> sub[x.r]]
    <3>1. ~ (IsConst(x.l) /\ IsConst(x.r) /\ x.l.lo = x.l.hi /\ x.r.lo = x.r.hi)
      BY <1>7, <2>2 DEF Rel, TrueF, FalseF
    <3>2. ~ (IsConst(sub[x.l]) /\ IsConst(sub[x.r]) /\ sub[x.l].lo = sub[x.l].hi /\ sub[x.r].lo = sub[x.r].hi)
      BY <2>3, <3>1 DEF IsConst
    <3> HIDE DEF y
    <3> QED BY <2>1, <3>2 DEF Rel
  <2> HIDE DEF y
  <2>5. y.k = "rel" /\ y.op = x.op /\ y.l = sub[x.l] /\ y.r = sub[x.r]
    BY <2>4
  <2>6. Children(y) = {sub[x.l], sub[x.r]}
    BY <2>5 DEF Children
  <2>7. FreeVars(y) = UNION {FreeVars(sub[z]) : z \in Children(x)}
    <3>1. FreeVars(y) = UNION {FreeVars(z) : z \in Children(y)}
      BY <1>2, <2>5, FreeVarsAre DEF WF
    <3> QED BY <2>1, <2>6, <3>1
  <2>8. ASSUME NEW env, NEW point, Fits(env, y), Fits(point, x), Same(env, point) PROVE At(y, env) = At(x, point)
    <3>1. At(y, env) = Compare(x.op, At(sub[x.l], env), At(sub[x.r], env))
      BY <1>3, <2>5, <2>8 DEF AtAs
    <3>2. At(x, point) = Compare(x.op, At(x.l, point), At(x.r, point))
      BY <1>4, <1>7, <2>8 DEF AtAs
    <3>3. At(sub[x.l], env) = At(x.l, point) /\ At(sub[x.r], env) = At(x.r, point)
      BY <2>1, <2>8
    <3> QED BY <3>1, <3>2, <3>3
  <2>9. ~ IsTruth(y)
    BY <2>5 DEF IsTruth
  <2> HIDE DEF Same
  <2>10. Goal
    BY <2>2, <2>7, <2>8, <2>9
  <2> QED BY <1>2, <2>10, RenamedNode DEF y, Same
<1>8. CASE x.k = "not"
  <2>1. Children(x) = {x.f} /\ y = NotF(sub[x.f]) /\ ~ IsTerm(x)
    BY <1>8 DEF Children, Rebuild, IsTerm
  <2>2. IsForm(sub[x.f]) /\ ~ IsTruth(sub[x.f])
    <3>1. IsFormula(x.f) /\ ~ IsTruth(x.f)
      BY <1>0, <1>8 DEF IsNode, IsTruth
    <3> QED BY <2>1, <3>1 DEF RenamedAs, IsForm
  <2>3. FreeVars(y) = UNION {FreeVars(sub[z]) : z \in Children(x)}
    <3>1. FreeVars(y) = FreeVars(sub[x.f])
      BY <2>1, <2>2, FreeVarsOfNot
    <3> QED BY <2>1, <3>1
  <2>4. ASSUME NEW env, NEW point, Fits(env, y), Fits(point, x), Same(env, point) PROVE At(y, env) = At(x, point)
    <3>1. At(y, env) = ~ At(sub[x.f], env)
      BY <2>1, <2>2, <2>4, AtNot
    <3>2. At(x, point) = ~ At(x.f, point)
      BY <1>4, <1>8, <2>4 DEF AtAs
    <3> QED BY <2>1, <2>4, <3>1, <3>2
  <2>5. ~ IsTruth(y)
    <3>1. IsNode(sub[x.f])
      BY <2>2, WFChildren DEF IsForm
    <3>2. CASE sub[x.f].k = "not"
      BY <2>1, <3>1, <3>2 DEF NotF, IsNode, IsTruth
    <3>3. CASE sub[x.f].k # "not"
      BY <2>1, <2>2, <3>3 DEF NotF, IsTruth
    <3> QED BY <3>2, <3>3
  <2> HIDE DEF Same, y
  <2>6. Goal
    BY <2>1, <2>3, <2>4, <2>5
  <2> QED BY <1>2, <2>6, RenamedNode DEF y, Same
<1>9. CASE x.k \in {"and", "or"}
  <2> DEFINE fs == {sub[g] : g \in x.s}
  <2>1. Children(x) = x.s /\ y \in {AndF(fs), OrF(fs)} /\ ~ IsTerm(x)
        /\ (x.k = "and" => y = AndF(fs)) /\ (x.k = "or" => y = OrF(fs))
    BY <1>9 DEF Children, Rebuild, IsTerm
  <2>2. IsFiniteSet(x.s) /\ x.s # {} /\ \A g \in x.s : IsFormula(g) /\ ~ IsTruth(g)
    <3>1. AreOperands(x.k, x.s)
      BY <1>0, <1>9 DEF IsNode
    <3> QED BY <3>1, FS_EmptySet DEF AreOperands, IsTruth
  <2>3. IsFiniteSet(fs) /\ fs # {}
    BY <2>2, FiniteImage
  <2>4. \A f \in fs : IsForm(f) /\ ~ IsTruth(f)
    BY <2>1, <2>2 DEF RenamedAs, IsForm
  <2> HIDE DEF fs
  <2>5. ~ IsTruth(y) /\ FreeVars(y) = UNION {FreeVars(f) : f \in fs}
    <3>1. ~ IsTruth(AndF(fs)) /\ FreeVars(AndF(fs)) = UNION {FreeVars(f) : f \in fs}
      BY <2>3, <2>4, FreeVarsOfOperands DEF AndF
    <3>2. ~ IsTruth(OrF(fs)) /\ FreeVars(OrF(fs)) = UNION {FreeVars(f) : f \in fs}
      BY <2>3, <2>4, FreeVarsOfOperands DEF OrF
    <3> QED BY <2>1, <3>1, <3>2
  <2>6. FreeVars(y) = UNION {FreeVars(sub[z]) : z \in Children(x)}
    BY <2>1, <2>5 DEF fs
  <2>7. ASSUME NEW env, NEW point, Fits(env, y), Fits(point, x), Same(env, point) PROVE At(y, env) = At(x, point)
    <3>1. \A f \in fs : Fits(env, f)
      BY <2>1, <2>7 DEF fs
    <3>2. IsPoint(env)
      BY <2>7 DEF Fits
    <3>3. \A g \in x.s : At(sub[g], env) = At(g, point) /\ At(g, point) \in BOOLEAN
      BY <1>0, <2>1, <2>2, <2>7, AtType
    <3>4. (\A f \in fs : At(f, env)) <=> \A g \in x.s : At(g, point)
      BY <3>3 DEF fs
    <3>5. (\E f \in fs : At(f, env)) <=> \E g \in x.s : At(g, point)
      BY <3>3 DEF fs
    <3>6. (At(AndF(fs), env) <=> \A f \in fs : At(f, env)) /\ (At(OrF(fs), env) <=> \E f \in fs : At(f, env))
      BY <2>3, <2>4, <3>1, <3>2, AtAnd
    <3>7. At(y, env) \in BOOLEAN /\ At(x, point) \in BOOLEAN
      <4>1. IsFormula(x)
        BY <1>9 DEF IsFormula
      <4> QED BY <1>2, <2>7, <4>1, AtType
    <3>8. AtAs(x, point)
      BY <1>4, <2>7
    <3>9. CASE x.k = "and"
      <4>1. At(x, point) <=> \A g \in x.s : At(g, point)
        BY <3>8, <3>9 DEF AtAs
      <4>2. At(y, env) <=> At(x, point)
        BY <2>1, <3>4, <3>6, <3>9, <4>1
      <4> QED BY <3>7, <4>2
    <3>10. CASE x.k = "or"
      <4>1. At(x, point) <=> \E g \in x.s : At(g, point)
        BY <3>8, <3>10 DEF AtAs
      <4>2. At(y, env) <=> At(x, point)
        BY <2>1, <3>5, <3>6, <3>10, <4>1
      <4> QED BY <3>7, <4>2
    <3> QED BY <1>9, <3>9, <3>10
  <2> HIDE DEF Same, y
  <2>8. Goal
    BY <2>1, <2>5, <2>6, <2>7
  <2> QED BY <1>2, <2>8, RenamedNode DEF y, Same
<1>10. CASE x.k \in {"const", "true", "false"}
  <2>1. y = x
    BY <1>10 DEF Rebuild
  <2> HIDE DEF y
  <2>2. RenamedAs(to, vs, x, y)
    BY <1>10, <2>1, RenamedLeaf
  <2> QED BY <2>2 DEF y
<1> QED BY <1>0, <1>5, <1>6, <1>7, <1>8, <1>9, <1>10 DEF IsNode, IsTerm, IsFormula

\* A quantification whose body is renamed except for the variables it binds:
\* no free variable is called by the name of one of these, as the new names
\* are dummies.
LEMMA RenamedForall ==
  ASSUME NEW to, NEW vs, vs \subseteq DOMAIN to, \A v \in DOMAIN to : IsDummy(to[v]),
         NEW x, WF(x), x.k = "forall", \A v \in x.y : ~ IsDummy(v),
         NEW f, RenamedAs(to, vs \ x.y, x.f, f)
  PROVE  RenamedAs(to, vs, x, ForallF(x.y, f))
<1> DEFINE y == ForallF(x.y, f)
<1>1. /\ IsNode(x) /\ IsTree(x) /\ IsFiniteSet(x.y) /\ IsFormula(x.f) /\ IsFormula(x) /\ ~ IsTerm(x)
      /\ Children(x) = {x.f} /\ WF(x.f)
  <2>1. IsNode(x) /\ IsTree(x) /\ \A z \in Children(x) : WF(z)
    BY WFChildren
  <2>2. Children(x) = {x.f}
    BY DEF Children
  <2> QED BY <2>1, <2>2 DEF IsNode, IsFormula, IsTerm
<1>2. IsForm(f) /\ FreeVars(f) = {NameIn(to, vs \ x.y, v) : v \in FreeVars(x.f)}
  BY <1>1 DEF RenamedAs, IsForm
<1>3. IsForm(y) /\ FreeVars(y) = FreeVars(f) \ x.y
  BY <1>1, <1>2, ForallWF, FreeVarsOfForall
<1>4. ~ IsTruth(y)
  BY DEF ForallF, IsTruth
<1> HIDE DEF y
<1>5. FreeVars(x) = FreeVars(x.f) \ x.y
  BY <1>1, FreeVarsAre
<1>6. \A v : NameIn(to, vs \ x.y, v) = IF v \in x.y THEN v ELSE NameIn(to, vs, v)
  BY DEF NameIn
<1>7. \A v : v \notin x.y => NameIn(to, vs, v) \notin x.y
  BY DEF NameIn
<1>8. FreeVars(y) = {NameIn(to, vs, v) : v \in FreeVars(x)}
  BY <1>2, <1>3, <1>5, <1>6, <1>7
<1>9. ASSUME NEW env, NEW point, Fits(env, y), Fits(point, x), \A v \in FreeVars(x) : point[v] = env[NameIn(to, vs, v)]
      PROVE  At(y, env) = At(x, point)
  <2>1. AtAs(x, point)
    BY <1>9, AtNode
  <2>2. At(x, point) = \A a \in Assignments(x.y) : At(x.f, Override(point, a))
    BY <2>1 DEF AtAs
  <2>3. At(y, env) <=> \A a \in Assignments(x.y) : At(f, Override(env, a))
    BY <1>1, <1>2, <1>9, AtForall DEF y
  <2>4. ASSUME NEW a \in Assignments(x.y) PROVE At(f, Override(env, a)) = At(x.f, Override(point, a))
    <3>1. a \in [x.y -> Int] /\ Fits(Override(point, a), x.f)
      BY <1>9, FitsChildren
    <3>2. env \in [DOMAIN env -> Int] /\ point \in [DOMAIN point -> Int]
      BY <1>9 DEF Fits, IsPoint
    <3>3. OverrideAs(env, a, DOMAIN env, x.y) /\ OverrideAs(point, a, DOMAIN point, x.y)
      BY <3>1, <3>2, OverrideIs
    <3>4. Fits(Override(env, a), f)
      <4>1. Override(env, a) \in [DOMAIN env \cup x.y -> Int]
        BY <3>3 DEF OverrideAs
      <4>2. DOMAIN Override(env, a) = DOMAIN env \cup x.y
        BY <4>1
      <4>3. FreeVars(f) \subseteq DOMAIN env \cup x.y
        BY <1>3, <1>9 DEF Fits
      <4> QED BY <4>1, <4>2, <4>3 DEF Fits, IsPoint
    <3>5. ASSUME NEW v \in FreeVars(x.f) PROVE Override(point, a)[v] = Override(env, a)[NameIn(to, vs \ x.y, v)]
      <4>1. CASE v \in x.y
        BY <1>6, <3>3, <4>1 DEF OverrideAs
      <4>2. CASE v \notin x.y
        <5>1. v \in FreeVars(x) /\ v \in DOMAIN point /\ NameIn(to, vs, v) \in FreeVars(y)
          BY <1>5, <1>8, <1>9, <4>2 DEF Fits
        <5>2. NameIn(to, vs, v) \in DOMAIN env /\ NameIn(to, vs, v) \notin x.y
          BY <1>7, <1>9, <4>2, <5>1 DEF Fits
        <5>3. Override(point, a)[v] = point[v] /\ Override(env, a)[NameIn(to, vs, v)] = env[NameIn(to, vs, v)]
          BY <3>3, <4>2, <5>1, <5>2 DEF OverrideAs
        <5> QED BY <1>6, <1>9, <4>2, <5>1, <5>3
      <4> QED BY <4>1, <4>2
    <3> QED BY <3>1, <3>4, <3>5 DEF RenamedAs
  <2>5. (\A a \in Assignments(x.y) : At(f, Override(env, a))) = (\A a \in Assignments(x.y) : At(x.f, Override(point, a)))
    BY <2>4
  <2>6. At(y, env) \in BOOLEAN
    BY <1>3, <1>9, AtType DEF IsForm
  <2> QED BY <2>2, <2>3, <2>5, <2>6
<1>10. RenamedAs(to, vs, x, y)
  BY <1>1, <1>3, <1>4, <1>8, <1>9 DEF RenamedAs, IsForm
<1> QED BY <1>10 DEF y

\* Expression and Formula Substitute (symbolic_formula_cell.cc of drake)
\* return a tree that means the same under the new names.
LEMMA RenamedTree ==
  ASSUME NEW to, \A v \in DOMAIN to : IsDummy(to[v]), NEW x, WF(x), BindsNoDummy(x)
  PROVE  \A vs \in SUBSET DOMAIN to : RenamedAs(to, vs, x, Renaming!Visit(to, x)[vs])
<1> DEFINE As(z) == \A vs \in SUBSET DOMAIN to : RenamedAs(to, vs, z, Renaming!Visit(to, z)[vs])
           T == {z \in Parts(x) : As(z)}
<1>1. ASSUME NEW z \in Parts(x), WF(z), Children(z) \subseteq T PROVE z \in T
  <2> DEFINE sub == [u \in Children(z) |-> Renaming!Visit(to, u)]
  <2>1. IsTree(z) /\ IsNode(z)
    BY <1>1, WFChildren
  <2>2. Renaming!Visit(to, z) = RenameStep(to, z, sub)
    BY <2>1, RenameNode
  <2> SUFFICES ASSUME NEW vs \in SUBSET DOMAIN to PROVE RenamedAs(to, vs, z, Renaming!Visit(to, z)[vs])
    OBVIOUS
  <2>3. \A u \in Children(z) : \A ws \in SUBSET DOMAIN to : RenamedAs(to, ws, u, sub[u][ws])
    BY <1>1
  <2> HIDE DEF sub, As
  <2> DEFINE below(ws) == [u \in Children(z) |-> sub[u][ws]]
             made == CASE z.k \in {"var", "bvar"} /\ z.v \in vs -> [z EXCEPT !.v = to[z.v]]
                       [] z.k = "forall" -> Rebuild(z, below(vs \ z.y))
                       [] OTHER -> Rebuild(z, below(vs))
  <2>4. Renaming!Visit(to, z)[vs] = made
    <3>1. RenameStep(to, z, sub)[vs] = made
      BY DEF RenameStep
    <3> QED BY <2>2, <3>1, Zenon
  <2>5. ASSUME NEW ws \in SUBSET DOMAIN to PROVE \A u \in Children(z) : RenamedAs(to, ws, u, below(ws)[u])
    BY <2>3
  <2>6. CASE z.k \in {"var", "bvar", "const", "true", "false"}
    <3>1. made = IF z.k \in {"var", "bvar"} /\ z.v \in vs THEN [z EXCEPT !.v = to[z.v]] ELSE z
      BY <2>6 DEF Rebuild
    <3> HIDE DEF made
    <3> QED BY <1>1, <2>4, <2>6, <3>1, RenamedLeaf
  <2>7. CASE z.k = "forall"
    <3>1. vs \ z.y \in SUBSET DOMAIN to
      OBVIOUS
    <3>2. Children(z) = {z.f}
      BY <2>7 DEF Children
    <3>3. RenamedAs(to, vs \ z.y, z.f, below(vs \ z.y)[z.f])
      <4> HIDE DEF below
      <4> QED BY <2>5, <3>1, <3>2
    <3>4. made = ForallF(z.y, below(vs \ z.y)[z.f])
      <4> HIDE DEF below
      <4> QED BY <2>7 DEF Rebuild
    <3>5. \A v \in z.y : ~ IsDummy(v)
      BY <2>7 DEF BindsNoDummy
    <3> DEFINE f == below(vs \ z.y)[z.f]
    <3> HIDE DEF below, made
    <3>6. RenamedAs(to, vs \ z.y, z.f, f) /\ made = ForallF(z.y, f)
      BY <3>3, <3>4
    <3> HIDE DEF f
    <3>7. vs \subseteq DOMAIN to
      OBVIOUS
    <3>8. RenamedAs(to, vs, z, ForallF(z.y, f))
      BY <1>1, <2>7, <3>5, <3>6, <3>7, RenamedForall
    <3> QED BY <2>4, <3>6, <3>8, Zenon
  <2>8. CASE z.k \notin {"var", "bvar", "const", "true", "false", "forall"}
    <3>1. made = Rebuild(z, below(vs))
      <4> HIDE DEF below
      <4> QED BY <2>8
    <3>2. \A u \in Children(z) : RenamedAs(to, vs, u, below(vs)[u])
      BY <2>5
    <3> HIDE DEF below, made
    <3> QED BY <1>1, <2>4, <2>8, <3>1, <3>2, RenamedRebuild
  <2> QED BY <2>6, <2>7, <2>8
<1>2. x \in T
  <2> HIDE DEF T
  <2> QED BY <1>1, ShapeInduction
<1> QED BY <1>2

-----------------------------------------------------------------------------
(* Structures *)

\* The dummies are dummies, and different ones.
LEMMA DummiesDiffer ==
  /\ \A n : IsDummy(Dummy(n))
  /\ \A m, n : Dummy(m) = Dummy(n) => m = n
  BY DEF IsDummy, Dummy

\* Where the structure of x has the value that x has at point.
Reads(x, env, point) ==
  \A n \in DOMAIN ConcreteVars(x) : point[ConcreteVars(x)[n]] = env[Dummy(n)]

\* The structure of a formula is the formula itself, said of dummies: the
\* n-th stands for the n-th concrete variable.
LEMMA StructureIs ==
  ASSUME NEW x, WF(x), BindsNoDummy(x)
  PROVE  /\ WF(Structure(x))
         /\ FreeVars(Structure(x)) = {Dummy(n) : n \in DOMAIN ConcreteVars(x)}
         /\ \A env, point : Fits(env, Structure(x)) /\ Fits(point, x) /\ Reads(x, env, point)
                              => At(Structure(x), env) = At(x, point)
<1> DEFINE cv == ConcreteVars(x)
           Index(v) == CHOOSE n \in DOMAIN cv : cv[n] = v
           to == [v \in FreeVars(x) |-> Dummy(Index(v))]
           y == Renaming!Visit(to, x)[DOMAIN to]
<1>1. Structure(x) = y
  BY DEF Structure, Rename
<1>2. IsListOf(cv, FreeVars(x)) /\ IsOneToOne(cv)
  BY ConcreteVarsAre
<1> HIDE DEF cv
<1>3. /\ \A v \in FreeVars(x) : Index(v) \in DOMAIN cv /\ cv[Index(v)] = v
      /\ \A n \in DOMAIN cv : cv[n] \in FreeVars(x) /\ Index(cv[n]) = n
  <2>1. \A v \in FreeVars(x) : \E n \in DOMAIN cv : cv[n] = v
    BY <1>2 DEF IsListOf
  <2>2. \A n \in DOMAIN cv : cv[n] \in FreeVars(x)
    BY <1>2, ElementsOfList
  <2>3. \A v \in FreeVars(x) : Index(v) \in DOMAIN cv /\ cv[Index(v)] = v
    BY <2>1
  <2> HIDE DEF Index
  <2> QED BY <1>2, <2>2, <2>3 DEF IsOneToOne
<1> HIDE DEF Index
<1>4. DOMAIN to = FreeVars(x) /\ \A v \in FreeVars(x) : to[v] = Dummy(Index(v))
  OBVIOUS
<1> HIDE DEF to
<1>5. RenamedAs(to, DOMAIN to, x, y)
  <2>1. \A v \in DOMAIN to : IsDummy(to[v])
    BY <1>4, DummiesDiffer
  <2> QED BY <2>1, RenamedTree
<1> HIDE DEF y
<1>6. \A v \in FreeVars(x) : NameIn(to, DOMAIN to, v) = Dummy(Index(v))
  BY <1>4 DEF NameIn
<1>7. FreeVars(y) = {Dummy(n) : n \in DOMAIN cv}
  <2>1. FreeVars(y) = {Dummy(Index(v)) : v \in FreeVars(x)}
    BY <1>5, <1>6 DEF RenamedAs
  <2> QED BY <1>3, <2>1
<1>8. ASSUME NEW env, NEW point, Fits(env, y), Fits(point, x), Reads(x, env, point) PROVE At(y, env) = At(x, point)
  <2>1. \A v \in FreeVars(x) : point[v] = env[NameIn(to, DOMAIN to, v)]
    BY <1>3, <1>6, <1>8 DEF Reads, cv
  <2> QED BY <1>5, <1>8, <2>1 DEF RenamedAs
<1>9. WF(y)
  BY <1>5 DEF RenamedAs
<1> QED BY <1>1, <1>7, <1>8, <1>9 DEF cv

\* Two trees with one structure have as many variables, and one value where
\* the variables at each place have one.
LEMMA SameStructure ==
  ASSUME NEW f, WF(f), BindsNoDummy(f), NEW g, WF(g), BindsNoDummy(g), Structure(f) = Structure(g)
  PROVE  /\ Len(ConcreteVars(f)) = Len(ConcreteVars(g))
         /\ \A p, q : Fits(p, f) /\ Fits(q, g)
                        /\ (\A n \in DOMAIN ConcreteVars(f) : p[ConcreteVars(f)[n]] = q[ConcreteVars(g)[n]])
                        => At(f, p) = At(g, q)
<1> DEFINE cf == ConcreteVars(f)
           cg == ConcreteVars(g)
           s == Structure(f)
<1>1. /\ Len(cf) \in Nat /\ DOMAIN cf = 1 .. Len(cf) /\ (\A i \in 1 .. Len(cf) : cf[i] \in FreeVars(f))
      /\ Len(cg) \in Nat /\ DOMAIN cg = 1 .. Len(cg) /\ (\A i \in 1 .. Len(cg) : cg[i] \in FreeVars(g))
  BY ConcreteVarsAre, ElementsOfList
<1>2. /\ FreeVars(s) = {Dummy(n) : n \in DOMAIN cf} /\ FreeVars(s) = {Dummy(n) : n \in DOMAIN cg}
      /\ \A env, point : Fits(env, s) /\ Fits(point, f) /\ Reads(f, env, point) => At(s, env) = At(f, point)
      /\ \A env, point : Fits(env, s) /\ Fits(point, g) /\ Reads(g, env, point) => At(s, env) = At(g, point)
  BY StructureIs
<1> HIDE DEF cf, cg, s
<1>3. DOMAIN cf = DOMAIN cg
  BY <1>2, DummiesDiffer
<1>4. Len(cf) = Len(cg)
  <2>1. \A m, n \in Nat : 1 .. m = 1 .. n => m <= n
    <3> SUFFICES ASSUME NEW m \in Nat, NEW n \in Nat, 1 .. m = 1 .. n, n < m PROVE FALSE
      OBVIOUS
    <3>1. m \in 1 .. m /\ m \notin 1 .. n
      OBVIOUS
    <3> QED BY <3>1
  <2>2. 1 .. Len(cf) = 1 .. Len(cg)
    BY <1>1, <1>3
  <2>3. Len(cf) <= Len(cg) /\ Len(cg) <= Len(cf)
    BY <1>1, <2>1, <2>2, Zenon
  <2>4. Len(cf) \in Nat /\ Len(cg) \in Nat
    BY <1>1
  <2>5. \A m, n \in Nat : m <= n /\ n <= m => m = n
    OBVIOUS
  <2> QED BY <2>3, <2>4, <2>5, Zenon
<1>5. ASSUME NEW p, NEW q, Fits(p, f), Fits(q, g), \A n \in DOMAIN cf : p[cf[n]] = q[cg[n]]
      PROVE  At(f, p) = At(g, q)
  <2> DEFINE index(d) == CHOOSE n \in DOMAIN cf : d = Dummy(n)
             env == [d \in FreeVars(s) |-> p[cf[index(d)]]]
  <2>1. \A n \in DOMAIN cf : Dummy(n) \in FreeVars(s) /\ index(Dummy(n)) = n
    BY <1>2, DummiesDiffer
  <2>2. \A d \in FreeVars(s) : index(d) \in DOMAIN cf
    BY <1>2
  <2> HIDE DEF index
  <2>3. \A n \in DOMAIN cf : p[cf[n]] \in Int
    BY <1>1, <1>5 DEF Fits, IsPoint
  <2>4. Fits(env, s)
    BY <2>2, <2>3 DEF Fits, IsPoint
  <2>5. \A n \in DOMAIN cf : env[Dummy(n)] = p[cf[n]]
    BY <2>1
  <2> HIDE DEF env
  <2>6. Reads(f, env, p)
    BY <2>5 DEF Reads, cf
  <2>7. Reads(g, env, q)
    BY <1>3, <1>5, <2>5 DEF Reads, cg
  <2> QED BY <1>2, <1>5, <2>4, <2>6, <2>7
<1> QED BY <1>4, <1>5 DEF cf, cg

-----------------------------------------------------------------------------
(* What the matcher finds *)

\* A one-to-one renaming of variables that keeps types and domains.
IsRenaming(b, mapping) ==
  \A p, q \in mapping : /\ p[1] = q[1] <=> p[2] = q[2]
                        /\ TypeOfVar(p[1]) = TypeOfVar(p[2]) /\ b[p[1]] = b[p[2]]

\* A pair that AttemptSubstitution lets pass leaves a renaming.
LEMMA OneMorePair ==
  ASSUME NEW b, NEW mapping, IsRenaming(b, mapping), NEW a, NEW aP,
         AttemptSubstitution(b, mapping, a, aP) = "SUCCESS"
  PROVE  IsRenaming(b, mapping \cup {<<a, aP>>})
<1>1. /\ TypeOfVar(a) = TypeOfVar(aP) /\ b[a] = b[aP]
      /\ \A p \in mapping : p[1] = a <=> p[2] = aP
  BY DEF AttemptSubstitution
<1>2. <<a, aP>>[1] = a /\ <<a, aP>>[2] = aP
  OBVIOUS
<1> QED BY <1>1, <1>2 DEF IsRenaming

\* So do the pairs of a whole pattern.
LEMMA AllowedPairs ==
  ASSUME NEW b, NEW mapping, IsRenaming(b, mapping), NEW path, NEW names, Len(names) \in Nat, DOMAIN names = 1 .. Len(names),
         IsAllowed(b, path, names, mapping)
  PROVE  IsRenaming(b, Pairs(path, names, mapping, Len(names)))
<1> DEFINE After(n) == Pairs(path, names, mapping, n)
           T == {n \in Nat : n <= Len(names) => IsRenaming(b, After(n))}
<1>1. 0 \in T
  <2>1. 1 .. 0 = {}
    OBVIOUS
  <2>2. After(0) = mapping
    BY <2>1 DEF Pairs
  <2> QED BY <2>2
<1>2. ASSUME NEW n \in Nat, n \in T PROVE n + 1 \in T
  <2> SUFFICES ASSUME n + 1 <= Len(names) PROVE IsRenaming(b, After(n + 1))
    OBVIOUS
  <2>1. n <= Len(names) /\ n + 1 \in DOMAIN names /\ (n + 1) - 1 = n
    OBVIOUS
  <2>2. IsRenaming(b, After(n))
    BY <1>2, <2>1
  <2>3. AttemptSubstitution(b, After(n), path[n + 1], names[n + 1]) = "SUCCESS"
    <3>1. AttemptSubstitution(b, After((n + 1) - 1), path[n + 1], names[n + 1]) = "SUCCESS"
      BY <2>1, Zenon DEF IsAllowed
    <3> QED BY <2>1, <3>1
  <2>4. After(n + 1) = After(n) \cup {<<path[n + 1], names[n + 1]>>}
    <3>1. 1 .. n + 1 = (1 .. n) \cup {n + 1}
      OBVIOUS
    <3>2. {<<path[i], names[i]>> : i \in 1 .. n + 1} = {<<path[i], names[i]>> : i \in 1 .. n} \cup {<<path[n + 1], names[n + 1]>>}
      BY <3>1
    <3> QED BY <3>2 DEF Pairs
  <2> HIDE DEF After
  <2> QED BY <2>2, <2>3, <2>4, OneMorePair
<1>3. Nat \subseteq T
  <2> HIDE DEF T
  <2> QED BY <1>1, <1>2, NatSet
<1> QED BY <1>3

\* The leaf g is the literal f with its variables renamed by the mapping.
IsMatch(known, mapping, f, g) ==
  /\ g \in known /\ Structure(g) = Structure(f)
  /\ \A i \in 1 .. Len(ConcreteVars(f)) : <<ConcreteVars(g)[i], ConcreteVars(f)[i]>> \in mapping

\* What there is after the first n literals.
IsMatchOf(b, known, literals, n, m) ==
  /\ IsRenaming(b, m.mapping)
  /\ IsFiniteSet(m.leaves) /\ m.leaves \subseteq known
  /\ \A i \in 1 .. n : \E g \in m.leaves : IsMatch(known, m.mapping, literals[i], g)

\* One literal more.
LEMMA MatchOneMore ==
  ASSUME NEW b, NEW known, NEW literals, NEW n \in Nat, WF(literals[n + 1]), NEW m, IsMatchOf(b, known, literals, n, m),
         NEW next \in MatchesOfLiteral(b, known, literals[n + 1], m.mapping)
  PROVE  IsMatchOf(b, known, literals, n + 1, [leaves |-> m.leaves \cup {next.leaf}, mapping |-> next.mapping])
<1> DEFINE f == literals[n + 1]
           cf == ConcreteVars(f)
           r == [leaves |-> m.leaves \cup {next.leaf}, mapping |-> next.mapping]
<1>1. Len(cf) \in Nat /\ DOMAIN cf = 1 .. Len(cf)
  BY ConcreteVarsAre, ElementsOfList
<1>2. PICK t \in TreeOf(Structure(f), known) :
        IsAllowed(b, t.path, cf, m.mapping) /\ next = [leaf |-> t.leaf, mapping |-> Pairs(t.path, cf, m.mapping, Len(cf))]
  BY DEF MatchesOfLiteral
<1>3. PICK g \in known : Structure(g) = Structure(f) /\ t = [path |-> ConcreteVars(g), leaf |-> g]
  BY DEF TreeOf
<1>4. next.leaf = g /\ next.mapping = Pairs(ConcreteVars(g), cf, m.mapping, Len(cf)) /\ t.path = ConcreteVars(g)
  BY <1>2, <1>3
<1> HIDE DEF cf
<1>5. IsRenaming(b, next.mapping)
  BY <1>1, <1>2, <1>4, AllowedPairs DEF IsMatchOf
<1>6. m.mapping \subseteq next.mapping /\ \A i \in 1 .. Len(cf) : <<ConcreteVars(g)[i], cf[i]>> \in next.mapping
  BY <1>4 DEF Pairs
<1>7. IsMatch(known, next.mapping, f, g)
  BY <1>3, <1>6 DEF IsMatch, cf
<1>8. \A i \in 1 .. n + 1 : \E h \in m.leaves \cup {g} : IsMatch(known, next.mapping, literals[i], h)
  <2> SUFFICES ASSUME NEW i \in 1 .. n + 1 PROVE \E h \in m.leaves \cup {g} : IsMatch(known, next.mapping, literals[i], h)
    OBVIOUS
  <2>1. CASE i \in 1 .. n
    <3>1. PICK h \in m.leaves : IsMatch(known, m.mapping, literals[i], h)
      BY <2>1 DEF IsMatchOf
    <3>2. IsMatch(known, next.mapping, literals[i], h)
      BY <1>6, <3>1 DEF IsMatch
    <3> QED BY <3>2
  <2>2. CASE i = n + 1
    BY <1>7, <2>2
  <2> QED BY <2>1, <2>2
<1>9. IsFiniteSet(m.leaves \cup {g}) /\ m.leaves \cup {g} \subseteq known
  BY <1>3, FS_AddElement DEF IsMatchOf
<1>10. r.leaves = m.leaves \cup {g} /\ r.mapping = next.mapping
  BY <1>4
<1> HIDE DEF r
<1>11. IsMatchOf(b, known, literals, n + 1, r)
  BY <1>5, <1>8, <1>9, <1>10 DEF IsMatchOf
<1> QED BY <1>11 DEF r

\* What FindSimilar returns is in the trie, and each literal of the conflict
\* has a match in it, all of them by one renaming.
LEMMA FoundIsMatch ==
  ASSUME NEW b, NEW known, NEW conflict, IsFiniteSet(conflict), \A f \in conflict : WF(f), NEW C \in FindSimilar(b, known, conflict)
  PROVE  \E mapping : /\ IsRenaming(b, mapping) /\ IsFiniteSet(C) /\ C \subseteq known
                      /\ \A f \in conflict : \E g \in C : IsMatch(known, mapping, f, g)
<1> DEFINE literals == MostVariablesFirst(conflict)
           p == [box |-> b, known |-> known, literals |-> literals]
           base == {[leaves |-> {}, mapping |-> {}]}
           It(n) == Matching!Iterate(p, base, n)
           T == {n \in Nat : n <= Len(literals) => \A m \in It(n) : IsMatchOf(b, known, literals, n, m)}
<1>1. IsListOf(literals, conflict)
  <2> DEFINE key == [f \in conflict |-> -Cardinality(FreeVars(f))]
  <2>1. DOMAIN key = conflict
    OBVIOUS
  <2> HIDE DEF key
  <2>2. IsListOf(SortedBy(key), conflict)
    BY <2>1, SortedIs
  <2> QED BY <2>2 DEF MostVariablesFirst, key
<1> HIDE DEF literals
<1>2. Len(literals) \in Nat /\ \A i \in 1 .. Len(literals) : WF(literals[i])
  BY <1>1, ElementsOfList
<1>3. Matching!NumbersAreInductive
  BY NatSet DEF Matching!NumbersAreInductive
<1>4. /\ It(0) = base
      /\ \A n \in Nat : It(n + 1) = MatchNext(p, n + 1, It(n))
  BY <1>3, Matching!IterateEquation
<1>5. 0 \in T
  <2>1. IsRenaming(b, {}) /\ IsFiniteSet({}) /\ {} \subseteq known /\ 1 .. 0 = {}
    BY FS_EmptySet DEF IsRenaming
  <2>2. \A m \in base : IsMatchOf(b, known, literals, 0, m)
    BY <2>1 DEF IsMatchOf
  <2> HIDE DEF It, base
  <2> QED BY <1>4, <2>2
<1>6. ASSUME NEW n \in Nat, n \in T PROVE n + 1 \in T
  <2> SUFFICES ASSUME n + 1 <= Len(literals) PROVE \A m \in It(n + 1) : IsMatchOf(b, known, literals, n + 1, m)
    OBVIOUS
  <2>1. \A m \in It(n) : IsMatchOf(b, known, literals, n, m)
    <3>1. n <= Len(literals)
      BY <1>2
    <3> QED BY <1>6, <3>1
  <2>2. It(n + 1) = MatchNext(p, n + 1, It(n))
    BY <1>4
  <2>3. WF(literals[n + 1])
    <3>1. n + 1 \in 1 .. Len(literals)
      BY <1>2
    <3> QED BY <1>2, <3>1
  <2> HIDE DEF It
  <2>4. ASSUME NEW r \in MatchNext(p, n + 1, It(n)) PROVE IsMatchOf(b, known, literals, n + 1, r)
    <3>1. PICK m \in It(n) : \E next \in MatchesOfLiteral(b, known, literals[n + 1], m.mapping) :
                                r = [leaves |-> m.leaves \cup {next.leaf}, mapping |-> next.mapping]
      BY <2>4 DEF MatchNext
    <3>2. PICK next \in MatchesOfLiteral(b, known, literals[n + 1], m.mapping) :
                 r = [leaves |-> m.leaves \cup {next.leaf}, mapping |-> next.mapping]
      BY <3>1
    <3>3. IsMatchOf(b, known, literals, n, m)
      BY <2>1
    <3>4. IsMatchOf(b, known, literals, n + 1, [leaves |-> m.leaves \cup {next.leaf}, mapping |-> next.mapping])
      BY <2>3, <3>3, MatchOneMore
    <3> QED BY <3>2, <3>4, Zenon
  <2> HIDE DEF p
  <2> QED BY <2>2, <2>4
<1>7. Nat \subseteq T
  <2> HIDE DEF T
  <2> QED BY <1>5, <1>6, NatSet
<1>8. \A m \in It(Len(literals)) : IsMatchOf(b, known, literals, Len(literals), m)
  BY <1>2, <1>7
<1>9. FindSimilar(b, known, conflict) = {m.leaves : m \in It(Len(literals))}
  BY DEF FindSimilar, MatchLiterals, literals
<1> HIDE DEF It
<1>10. PICK m \in It(Len(literals)) : C = m.leaves
  BY <1>9
<1>11. IsMatchOf(b, known, literals, Len(literals), m)
  BY <1>8
<1>12. \A f \in conflict : \E i \in 1 .. Len(literals) : literals[i] = f
  BY <1>1, ElementsOfList DEF IsListOf
<1>13. \A f \in conflict : \E g \in C : IsMatch(known, m.mapping, f, g)
  BY <1>10, <1>11, <1>12 DEF IsMatchOf
<1> QED BY <1>10, <1>11, <1>13 DEF IsMatchOf

-----------------------------------------------------------------------------
(* Solutions of what is found *)

\* The variables of a conflict.
VarsIn(conflict) == UNION {FreeVars(f) : f \in conflict}

\* The points of a box.
Chosen(b, v) == IF IsBoolean(v) THEN {0, 1}
                ELSE {n \in b[v].lo .. b[v].hi : n \in -Reach .. Reach /\ (IsInteger(v) => n % 4 = 0)}

\* The points of b over names.
PointsIn(b, names) == {p \in [names -> Int] : \A v \in names : p[v] \in Chosen(b, v)}

\* The conflict has a solution in the box b.
HasSolutionIn(b, conflict) == \E p \in PointsIn(b, VarsIn(conflict)) : \A f \in conflict : At(f, p)

\* They are what Product makes of the values of each variable.
LEMMA PointsAre ==
  ASSUME NEW b, NEW names, IsFiniteSet(names)
  PROVE  PointsIn(b, names) = Product([v \in names |-> Chosen(b, v)])
<1> DEFINE sets == [v \in names |-> Chosen(b, v)]
<1>1. \A v : Chosen(b, v) \subseteq Int
  <2>1. \A n \in -Reach .. Reach : n \in Int
    BY ReachAssumption
  <2> QED BY <2>1 DEF Chosen
<1>2. DOMAIN sets = names /\ \A v \in names : sets[v] = Chosen(b, v)
  OBVIOUS
<1> HIDE DEF sets
<1>3. Product(sets) = ChoicesFrom(sets, names)
  BY <1>2, ProductIs
<1>4. \A p \in ChoicesFrom(sets, names) : p \in PointsIn(b, names)
  BY <1>1, <1>2 DEF ChoicesFrom, PointsIn
<1>5. ASSUME NEW p \in PointsIn(b, names) PROVE p \in ChoicesFrom(sets, names)
  <2>1. p \in [names -> Int] /\ \A v \in names : p[v] \in sets[v]
    BY <1>2 DEF PointsIn
  <2>2. p \in [names -> UNION {sets[v] : v \in names}]
    BY <2>1
  <2> QED BY <2>1, <2>2 DEF ChoicesFrom
<1> QED BY <1>3, <1>4, <1>5 DEF sets

\* A conflict has finitely many variables.
LEMMA VarsInFinite ==
  ASSUME NEW conflict, IsFiniteSet(conflict), \A f \in conflict : WF(f)
  PROVE  IsFiniteSet(VarsIn(conflict))
<1> DEFINE h == [f \in conflict |-> FreeVars(f)]
<1>1. \A f \in conflict : h[f] = FreeVars(f)
  OBVIOUS
<1>2. \A f \in conflict : IsFiniteSet(h[f])
  BY <1>1, FreeVarsFinite
<1> HIDE DEF h
<1>3. IsFiniteSet(UNION {h[f] : f \in conflict})
  BY <1>2, UnionOfImages
<1>4. UNION {h[f] : f \in conflict} = VarsIn(conflict)
  BY <1>1 DEF VarsIn
<1> QED BY <1>3, <1>4

\* HasSolution asks this of the box of the state, now and after a step.
LEMMA HasSolutionIs ==
  ASSUME NEW E, IsFiniteSet(E), \A f \in E : WF(f)
  PROVE  /\ HasSolution(E) <=> HasSolutionIn(box, E)
         /\ HasSolution(E)' <=> HasSolutionIn(box', E)
<1> DEFINE names == VarsIn(E)
<1>1. \A b : PointsIn(b, names) = Product([v \in names |-> Chosen(b, v)])
  BY VarsInFinite, PointsAre
<1>2. TheoryPoints(names) = PointsIn(box, names)
  BY <1>1 DEF TheoryPoints, TheoryValues, Chosen
<1>3. TheoryPoints(names)' = PointsIn(box', names)
  BY <1>1 DEF TheoryPoints, TheoryValues, Chosen
<1> QED BY <1>2, <1>3 DEF HasSolution, HasSolutionIn, VarsIn, Holds

\* A solution of a conflict that looks like another is one of that other with
\* the variables renamed: when one is refuted, so is every one it is found from.
LEMMA SimilarSolution ==
  ASSUME NEW E, IsFiniteSet(E), NEW known, \A f \in E \cup known : IsForm(f) /\ BindsNoDummy(f),
         NEW b, NEW C \in FindSimilar(b, known, E), HasSolutionIn(b, C)
  PROVE  HasSolutionIn(b, E)
<1>1. \A f \in E : WF(f)
  BY DEF IsForm
<1>2. PICK mapping : /\ IsRenaming(b, mapping) /\ IsFiniteSet(C) /\ C \subseteq known
                     /\ \A f \in E : \E g \in C : IsMatch(known, mapping, f, g)
  BY <1>1, FoundIsMatch
<1>3. \A g \in C : WF(g)
  BY <1>2 DEF IsForm
<1>4. IsFiniteSet(VarsIn(E)) /\ IsFiniteSet(VarsIn(C))
  BY <1>1, <1>2, <1>3, VarsInFinite
<1>5. PICK p \in PointsIn(b, VarsIn(C)) : \A g \in C : At(g, p)
  BY DEF HasSolutionIn
<1>6. p \in [VarsIn(C) -> Int] /\ \A v \in VarsIn(C) : p[v] \in Chosen(b, v)
  BY <1>5 DEF PointsIn
<1>7. ASSUME NEW f \in E, NEW g \in C, IsMatch(known, mapping, f, g)
      PROVE  /\ \A n \in DOMAIN ConcreteVars(f) : /\ <<ConcreteVars(g)[n], ConcreteVars(f)[n]>> \in mapping
                                                  /\ ConcreteVars(g)[n] \in VarsIn(C)
             /\ \A v \in FreeVars(f) : \E n \in DOMAIN ConcreteVars(f) : ConcreteVars(f)[n] = v
             /\ \A e : Fits(e, f) /\ (\A n \in DOMAIN ConcreteVars(f) : e[ConcreteVars(f)[n]] = p[ConcreteVars(g)[n]])
                       => At(f, e) = At(g, p)
  <2> DEFINE cf == ConcreteVars(f)
             cg == ConcreteVars(g)
  <2>1. /\ Len(cf) \in Nat /\ DOMAIN cf = 1 .. Len(cf)
        /\ Len(cg) \in Nat /\ DOMAIN cg = 1 .. Len(cg) /\ \A i \in 1 .. Len(cg) : cg[i] \in FreeVars(g)
    BY <1>1, <1>3, ConcreteVarsAre, ElementsOfList
  <2>2. IsListOf(cf, FreeVars(f))
    BY <1>1, ConcreteVarsAre
  <2>3. Structure(f) = Structure(g) /\ \A i \in 1 .. Len(cf) : <<cg[i], cf[i]>> \in mapping
    BY <1>7 DEF IsMatch
  <2>4. BindsNoDummy(f) /\ BindsNoDummy(g)
    BY <1>2
  <2>5. /\ Len(cf) = Len(cg)
        /\ \A e, q : Fits(e, f) /\ Fits(q, g) /\ (\A n \in DOMAIN cf : e[cf[n]] = q[cg[n]]) => At(f, e) = At(g, q)
    BY <1>1, <1>3, <2>3, <2>4, SameStructure
  <2>6. FreeVars(g) \subseteq VarsIn(C)
    BY DEF VarsIn
  <2>7. Fits(p, g)
    BY <1>6, <2>6 DEF Fits, IsPoint
  <2> HIDE DEF cf, cg
  <2>8. \A n \in DOMAIN cf : <<cg[n], cf[n]>> \in mapping /\ cg[n] \in VarsIn(C)
    BY <2>1, <2>3, <2>5, <2>6
  <2>9. \A v \in FreeVars(f) : \E n \in DOMAIN cf : cf[n] = v
    BY <2>2 DEF IsListOf
  <2> QED BY <2>5, <2>7, <2>8, <2>9 DEF cf, cg
<1> DEFINE From(v) == CHOOSE u : <<u, v>> \in mapping /\ u \in VarsIn(C)
           e == [v \in VarsIn(E) |-> p[From(v)]]
<1>8. ASSUME NEW v \in VarsIn(E) PROVE <<From(v), v>> \in mapping /\ From(v) \in VarsIn(C)
  <2>1. PICK f \in E : v \in FreeVars(f)
    BY DEF VarsIn
  <2>2. PICK g \in C : IsMatch(known, mapping, f, g)
    BY <1>2
  <2>3. PICK n \in DOMAIN ConcreteVars(f) : ConcreteVars(f)[n] = v
    BY <1>7, <2>1, <2>2
  <2>4. <<ConcreteVars(g)[n], v>> \in mapping /\ ConcreteVars(g)[n] \in VarsIn(C)
    BY <1>7, <2>2, <2>3
  <2> QED BY <2>4
<1>9. ASSUME NEW v \in VarsIn(E), NEW u, <<u, v>> \in mapping PROVE From(v) = u
  <2>1. <<From(v), v>> \in mapping
    BY <1>8
  <2> HIDE DEF From
  <2>2. <<From(v), v>>[1] = From(v) /\ <<From(v), v>>[2] = v /\ <<u, v>>[1] = u /\ <<u, v>>[2] = v
    OBVIOUS
  <2> QED BY <1>2, <1>9, <2>1, <2>2 DEF IsRenaming
<1>10. \A v \in VarsIn(E) : Chosen(b, v) = Chosen(b, From(v))
  <2> SUFFICES ASSUME NEW v \in VarsIn(E) PROVE Chosen(b, v) = Chosen(b, From(v))
    OBVIOUS
  <2>1. <<From(v), v>> \in mapping
    BY <1>8
  <2> HIDE DEF From
  <2>2. <<From(v), v>>[1] = From(v) /\ <<From(v), v>>[2] = v
    OBVIOUS
  <2>3. TypeOfVar(From(v)) = TypeOfVar(v) /\ b[From(v)] = b[v]
    BY <1>2, <2>1, <2>2 DEF IsRenaming
  <2>4. (IsBoolean(From(v)) <=> IsBoolean(v)) /\ (IsInteger(From(v)) <=> IsInteger(v))
    BY <2>3 DEF TypeOfVar, IsBoolean, IsInteger
  <2> QED BY <2>3, <2>4 DEF Chosen
<1> HIDE DEF From
<1>11. e \in PointsIn(b, VarsIn(E)) /\ IsPoint(e) /\ DOMAIN e = VarsIn(E)
  <2>1. e \in [VarsIn(E) -> Int] /\ \A v \in VarsIn(E) : e[v] \in Chosen(b, v)
    BY <1>6, <1>8, <1>10
  <2> HIDE DEF e
  <2> QED BY <2>1 DEF PointsIn, IsPoint
<1>12. ASSUME NEW f \in E PROVE At(f, e)
  <2>1. PICK g \in C : IsMatch(known, mapping, f, g)
    BY <1>2
  <2>2. FreeVars(f) \subseteq VarsIn(E)
    BY DEF VarsIn
  <2>3. \A n \in DOMAIN ConcreteVars(f) : e[ConcreteVars(f)[n]] = p[ConcreteVars(g)[n]]
    <3> SUFFICES ASSUME NEW n \in DOMAIN ConcreteVars(f) PROVE e[ConcreteVars(f)[n]] = p[ConcreteVars(g)[n]]
      OBVIOUS
    <3>1. ConcreteVars(f)[n] \in FreeVars(f)
      BY <1>1, ConcreteVarsAre, ElementsOfList
    <3>2. From(ConcreteVars(f)[n]) = ConcreteVars(g)[n]
      BY <1>7, <1>9, <2>1, <2>2, <3>1
    <3> QED BY <2>2, <3>1, <3>2
  <2>4. Fits(e, f)
    BY <1>11, <2>2 DEF Fits
  <2> HIDE DEF e
  <2>5. At(f, e) = At(g, p)
    BY <1>7, <2>1, <2>3, <2>4
  <2> QED BY <1>5, <2>5
<1> HIDE DEF e
<1> QED BY <1>11, <1>12 DEF HasSolutionIn

\* A smaller box has fewer points.
LEMMA SolutionsShrink ==
  ASSUME NEW b, NEW c, IsWithin(b, c), b \in [DOMAIN b -> Intervals], c \in [DOMAIN c -> Intervals],
         DOMAIN b \subseteq DOMAIN c, NEW E, VarsIn(E) \subseteq DOMAIN b, HasSolutionIn(c, E)
  PROVE  HasSolutionIn(b, E)
<1>1. PICK p \in PointsIn(c, VarsIn(E)) : \A f \in E : At(f, p)
  BY DEF HasSolutionIn
<1>2. ASSUME NEW v \in DOMAIN b, NEW n \in Chosen(c, v) PROVE n \in Chosen(b, v)
  <2>1. {b[v].lo, b[v].hi, c[v].lo, c[v].hi} \subseteq Int
    BY DEF Intervals
  <2>2. CASE IsBoolean(v)
    BY <2>2 DEF Chosen
  <2>3. CASE ~ IsBoolean(v)
    <3>1. n \in c[v].lo .. c[v].hi /\ n \in -Reach .. Reach /\ (IsInteger(v) => n % 4 = 0)
      BY <2>3 DEF Chosen
    <3>2. n \in b[v].lo .. b[v].hi
      BY <2>1, <3>1 DEF IsWithin
    <3> QED BY <2>3, <3>1, <3>2 DEF Chosen
  <2> QED BY <2>2, <2>3
<1>3. p \in PointsIn(b, VarsIn(E))
  BY <1>2 DEF PointsIn
<1> QED BY <1>1, <1>3 DEF HasSolutionIn

-----------------------------------------------------------------------------
(* The learned conflicts *)

\* The inductive invariant of SimilarConflictsAreRefuted: a learned conflict
\* is a finite set of formulas over variables of the box, without a solution
\* in it.
LearnedAreRefuted ==
  \A E \in learned : /\ IsFiniteSet(E) /\ (\A f \in E : IsForm(f)) /\ VarsIn(E) \subseteq DOMAIN box
                     /\ ~ HasSolutionIn(box, E)

\* Only Learn changes what is learned: it has the explanation and what
\* FindSimilar returns for it.
LEMMA LearnedStep ==
  ASSUME [Next]_vars
  PROVE  \/ learned' = learned
         \/ \E E \in Explanations : /\ learned' = {E} \/ learned' = {E} \cup FindSimilar(box, patterns, E)
                                    /\ box' = box
<1>1. CASE UNCHANGED vars
  BY <1>1 DEF vars
<1>2. CASE Len(asserted) < Len(Inputs) /\ \E f \in Inputs[Len(asserted) + 1] : Submit(f)
  BY <1>2 DEF Submit
<1>3. CASE \E f \in todo : Assert(f)
  BY <1>3 DEF Assert, Skip, Refute, Split, Reject, Eliminate, Bound, Keep, Throw
<1>4. ASSUME NEW E \in Explanations, Learn(E)
      PROVE  box' = box /\ (learned' = {E} \/ learned' = {E} \cup FindSimilar(box, patterns, E))
  <2>1. box' = box /\ \E found \in {{}, FindSimilar(box, patterns, E)} : learned' = {E} \cup found
    BY <1>4 DEF Learn
  <2> QED BY <2>1
<1> QED BY <1>1, <1>2, <1>3, <1>4 DEF Next

\* What the theory solver may be asked about.
LEMMA ExplanationsAre ==
  ASSUME LiteralsAreKnown, NEW E \in Explanations
  PROVE  /\ IsFiniteSet(E) /\ ~ HasSolutionIn(box, E)
         /\ \A f \in E : IsForm(f) /\ HasNames(DOMAIN box, f)
<1>1. PICK f \in TheoryLiterals, g \in TheoryLiterals : E = {f, g}
  BY DEF Explanations
<1>2. IsFiniteSet(E)
  <2>1. IsFiniteSet({f, g})
    BY FinitePairs
  <2> QED BY <1>1, <2>1, Zenon
<1>3. ASSUME NEW h \in TheoryLiterals PROVE IsForm(h) /\ HasNames(DOMAIN box, h)
  <2>1. PICK v \in DOMAIN formulaOf : h \in {formulaOf[v], NotF(formulaOf[v])}
    BY DEF TheoryLiterals
  <2> DEFINE q == formulaOf[v]
  <2>2. IsNormal(DOMAIN box, q)
    BY DEF LiteralsAreKnown, NamesKnown
  <2>3. h \in {q, NotF(q)}
    BY <2>1
  <2> HIDE DEF q
  <2> QED BY <2>2, <2>3, NotHasNames DEF IsNormal, IsPredicate
<1>4. \A h \in E : IsForm(h) /\ HasNames(DOMAIN box, h)
  BY <1>1, <1>3
<1>5. ~ HasSolution(E)
  BY DEF Explanations
<1>6. \A h \in E : WF(h)
  BY <1>4 DEF IsForm
<1> QED BY <1>2, <1>4, <1>5, <1>6, HasSolutionIs

\* Every step keeps the invariant: what is learned has no solution in the
\* box, and the box never gets new points.
LEMMA LearnedNext ==
  ASSUME LearnedAreRefuted, LiteralsAreKnown, BoxIsBuilt, TodoIsBuilt, [Next]_vars
  PROVE  LearnedAreRefuted'
<1>1. /\ box \in [DOMAIN box -> Intervals] /\ box' \in [DOMAIN box' -> Intervals]
      /\ DOMAIN box \subseteq DOMAIN box' /\ IsWithin(box, box')
  BY BoxStep DEF BoxIsBuilt
<1>2. CASE learned' = learned
  <2> SUFFICES ASSUME NEW E \in learned
               PROVE  /\ IsFiniteSet(E) /\ (\A f \in E : IsForm(f)) /\ VarsIn(E) \subseteq DOMAIN box'
                      /\ ~ HasSolutionIn(box', E)
    BY <1>2 DEF LearnedAreRefuted
  <2>1. /\ IsFiniteSet(E) /\ (\A f \in E : IsForm(f)) /\ VarsIn(E) \subseteq DOMAIN box
        /\ ~ HasSolutionIn(box, E)
    BY DEF LearnedAreRefuted
  <2> QED BY <1>1, <2>1, SolutionsShrink
<1>3. ASSUME NEW E \in Explanations, box' = box,
             learned' = {E} \/ learned' = {E} \cup FindSimilar(box, patterns, E)
      PROVE  LearnedAreRefuted'
  <2>1. /\ IsFiniteSet(E) /\ ~ HasSolutionIn(box, E)
        /\ \A f \in E : IsForm(f) /\ HasNames(DOMAIN box, f)
    BY ExplanationsAre
  <2>2. \A f \in patterns : IsForm(f) /\ HasNames(DOMAIN box, f)
    BY DEF LiteralsAreKnown, AreNormal
  <2>3. ASSUME NEW C, \A f \in C : IsForm(f) /\ HasNames(DOMAIN box, f)
        PROVE  VarsIn(C) \subseteq DOMAIN box
    BY <2>3 DEF VarsIn, HasNames
  <2>4. ASSUME NEW C \in FindSimilar(box, patterns, E)
        PROVE  /\ IsFiniteSet(C) /\ ~ HasSolutionIn(box, C)
               /\ \A f \in C : IsForm(f) /\ HasNames(DOMAIN box, f)
    <3>1. \A f \in E : WF(f)
      BY <2>1 DEF IsForm
    <3>2. IsFiniteSet(C) /\ C \subseteq patterns
      BY <2>1, <3>1, FoundIsMatch
    <3>3. \A f \in E \cup patterns : IsForm(f) /\ BindsNoDummy(f)
      BY <2>1, <2>2 DEF HasNames
    <3>4. ~ HasSolutionIn(box, C)
      BY <2>1, <3>3, SimilarSolution
    <3> QED BY <2>2, <3>2, <3>4
  <2>5. \A C \in learned' : /\ IsFiniteSet(C) /\ ~ HasSolutionIn(box, C)
                            /\ \A f \in C : IsForm(f) /\ HasNames(DOMAIN box, f)
    BY <1>3, <2>1, <2>4
  <2> QED BY <1>3, <2>3, <2>5 DEF LearnedAreRefuted
<1> QED BY <1>2, <1>3, LearnedStep

\* Whatever is asserted and whatever is learned, no conflict that the SAT
\* solver is told has a solution in the box: neither the explanation of the
\* theory solver nor any conflict that is learned because it looks the same,
\* as its variables have the same types and intervals, and a renaming turns
\* its solutions into solutions of the explanation
\* (sat_solver_interval_logic.cc:182, substitutions_map.cc:29).
THEOREM SimilarConflictsAlwaysRefuted == Spec => []SimilarConflictsAreRefuted
<1>1. Init => LearnedAreRefuted
  BY DEF Init, LearnedAreRefuted
<1>2. LearnedAreRefuted => SimilarConflictsAreRefuted
  BY HasSolutionIs DEF LearnedAreRefuted, SimilarConflictsAreRefuted, IsForm
<1> QED BY <1>1, <1>2, LearnedNext, KnownInvariant, BoxInvariant, TodoInvariant, PTL DEF Spec
=============================================================================
