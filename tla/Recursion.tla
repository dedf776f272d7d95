----------------------------- MODULE Recursion -----------------------------
(***************************************************************************)
(* Recursive definitions: of a tree from what is defined of its children,  *)
(* of a finite set from that of the set without one of its elements, and   *)
(* of a number from that of the number before it.  No set holds every      *)
(* formula, so a recursion over formulas is a recursive function on the    *)
(* parts of the one at hand.  A visitor of the code is an instance of this *)
(* module: Step is what the visitor makes of one node.  The lemmas say     *)
(* that the definitions satisfy their equations.  Induction is a           *)
(* hypothesis of theirs, to keep the library out of every instance.        *)
(***************************************************************************)
EXTENDS Integers

CONSTANTS
  Children(_),   \* the trees a tree is built of
  Parts(_),      \* the tree, its children, theirs and so on
  Step(_, _, _)  \* from a parameter, a tree and the function of its children

Visit(p, x) ==
  LET r[y \in Parts(x)] == Step(p, y, [z \in Children(y) |-> r[z]])
  IN  r[x]

\* Step makes of a parameter, an element and the result for the others a result.
Fold(p, base, S) ==
  LET f[D \in SUBSET S] ==
        IF D = {} THEN base
        ELSE LET x == CHOOSE y \in D : TRUE IN Step(p, x, f[D \ {x}])
  IN  f[S]

\* Step makes of a parameter, a number and the result for the one before a result.
Iterate(p, base, n) ==
  LET f[m \in Nat] == IF m = 0 THEN base ELSE Step(p, m, f[m - 1])
  IN  f[n]

-----------------------------------------------------------------------------

\* What holds at zero and is passed on holds of every natural number, and what
\* a subset gets from the smaller ones holds of every subset of S.
NumbersAreInductive == \A T : 0 \in T /\ (\A n \in Nat : n \in T => n + 1 \in T) => Nat \subseteq T
SubsetsAreInductive(S) ==
  \A T : (\A D \in SUBSET S : (\A E \in SUBSET D : E # D => E \in T) => D \in T) => SUBSET S \subseteq T

\* The value of a visitor at a tree is what Step makes of its values at the
\* children.  S is any set of trees that holds the parts of its members, of
\* which all but the member itself are lower.
LEMMA VisitEquation ==
  ASSUME NumbersAreInductive,
         NEW p, NEW S, NEW h \in [S -> Nat],
         \A y \in S : Parts(y) \subseteq S /\ y \in Parts(y),
         \A y \in S : \A w \in Parts(y) : Parts(w) \subseteq Parts(y) /\ Children(w) \subseteq Parts(y),
         \A y \in S : \A z \in Children(y) : h[z] < h[y],
         \A y \in S : \A w \in Parts(y) : w # y => h[w] < h[y]
  PROVE  \A x \in S : Visit(p, x) = Step(p, x, [z \in Children(x) |-> Visit(p, z)])
<1> DEFINE R(y) == CHOOSE r : r = [w \in Parts(y) |-> Step(p, w, [z \in Children(w) |-> r[z]])]
           Good(y) == /\ R(y) = [w \in Parts(y) |-> Step(p, w, [z \in Children(w) |-> R(y)[z]])]
                      /\ \A w \in Parts(y) : R(y)[w] = Visit(p, w)
           T == {n \in Nat : \A y \in S : h[y] < n => Good(y)}
<1>1. \A y : Visit(p, y) = R(y)[y]
  BY DEF Visit
<1>2. \A y : (\E r : r = [w \in Parts(y) |-> Step(p, w, [z \in Children(w) |-> r[z]])])
             => R(y) = [w \in Parts(y) |-> Step(p, w, [z \in Children(w) |-> R(y)[z]])]
  OBVIOUS
<1> HIDE DEF R
<1>3a. \A y \in S : h[y] \in Nat /\ ~ (h[y] < 0)
  OBVIOUS
<1>3. 0 \in T
  <2> HIDE DEF Good
  <2> QED BY <1>3a
<1>4. ASSUME NEW n \in Nat, n \in T PROVE n + 1 \in T
  <2> SUFFICES ASSUME NEW y \in S, h[y] < n + 1 PROVE Good(y)
    <3> HIDE DEF Good
    <3> QED OBVIOUS
  <2>1. \A w \in Parts(y) : w # y => w \in S /\ Good(w)
    <3> SUFFICES ASSUME NEW w \in Parts(y), w # y PROVE w \in S /\ Good(w)
      OBVIOUS
    <3>1. w \in S /\ h[w] < h[y]
      OBVIOUS
    <3>2. h[w] < n
      BY <3>1
    <3> QED BY <1>4, <3>1, <3>2
  <2> DEFINE g == [w \in Parts(y) |-> Step(p, w, [z \in Children(w) |-> Visit(p, z)])]
  <2> HIDE DEF T, Good
  <2>2. ASSUME NEW w \in Parts(y), w # y PROVE g[w] = Visit(p, w)
    <3>1. Good(w) /\ w \in S
      BY <2>1, <2>2
    <3>2. w \in Parts(w) /\ Children(w) \subseteq Parts(w)
      BY <3>1
    <3>3. \A z \in Children(w) : R(w)[z] = Visit(p, z)
      BY <3>1, <3>2 DEF Good
    <3>4. [z \in Children(w) |-> R(w)[z]] = [z \in Children(w) |-> Visit(p, z)]
      BY <3>3
    <3>5. R(w)[w] = Step(p, w, [z \in Children(w) |-> R(w)[z]])
      BY <3>1, <3>2 DEF Good
    <3> QED BY <1>1, <3>4, <3>5
  <2>3. \A w \in Parts(y) : \A z \in Children(w) : z \in Parts(y) /\ z # y /\ z \in S
    <3> SUFFICES ASSUME NEW w \in Parts(y), NEW z \in Children(w) PROVE z \in Parts(y) /\ z # y /\ z \in S
      OBVIOUS
    <3>1. z \in Parts(y) /\ w \in S /\ z \in S /\ h[z] < h[w]
      OBVIOUS
    <3>2. w = y \/ h[w] < h[y]
      OBVIOUS
    <3>3. h[z] \in Nat /\ h[w] \in Nat /\ h[y] \in Nat
      BY <3>1
    <3>4. h[z] < h[y]
      BY <3>1, <3>2, <3>3
    <3> QED BY <3>1, <3>3, <3>4
  <2>4. ASSUME NEW w \in Parts(y)
        PROVE  [z \in Children(w) |-> Visit(p, z)] = [z \in Children(w) |-> g[z]]
    <3>1. \A z \in Children(w) : g[z] = Visit(p, z)
      BY <2>2, <2>3
    <3> HIDE DEF g
    <3> QED BY <3>1
  <2>5. g = [w \in Parts(y) |-> Step(p, w, [z \in Children(w) |-> g[z]])]
    <3>1. \A w \in Parts(y) : g[w] = Step(p, w, [z \in Children(w) |-> g[z]])
      <4> SUFFICES ASSUME NEW w \in Parts(y) PROVE g[w] = Step(p, w, [z \in Children(w) |-> g[z]])
        OBVIOUS
      <4>1. g[w] = Step(p, w, [z \in Children(w) |-> Visit(p, z)])
        OBVIOUS
      <4> HIDE DEF g
      <4> QED BY <2>4, <4>1
    <3>2. g = [w \in Parts(y) |-> g[w]]
      OBVIOUS
    <3> HIDE DEF g
    <3> QED BY <3>1, <3>2
  <2>6. R(y) = [w \in Parts(y) |-> Step(p, w, [z \in Children(w) |-> R(y)[z]])]
    <3>1. \E r : r = [w \in Parts(y) |-> Step(p, w, [z \in Children(w) |-> r[z]])]
      <4> HIDE DEF g
      <4> QED BY <2>5
    <3> QED BY <1>2, <3>1
  <2> DEFINE U == {m \in Nat : \A w \in Parts(y) : h[w] < m => R(y)[w] = g[w]}
  <2>7. 0 \in U
    <3>1. \A w \in Parts(y) : w \in S
      OBVIOUS
    <3> HIDE DEF g
    <3> QED BY <1>3a, <3>1
  <2>8. ASSUME NEW m \in Nat, m \in U PROVE m + 1 \in U
    <3> SUFFICES ASSUME NEW w \in Parts(y), h[w] < m + 1 PROVE R(y)[w] = g[w]
      <4> HIDE DEF g
      <4> QED OBVIOUS
    <3>1. \A z \in Children(w) : R(y)[z] = g[z]
      <4> SUFFICES ASSUME NEW z \in Children(w) PROVE R(y)[z] = g[z]
        OBVIOUS
      <4>1. z \in Parts(y) /\ z \in S /\ w \in S
        BY <2>3
      <4>2. h[z] < h[w] /\ h[z] \in Nat /\ h[w] \in Nat
        BY <4>1
      <4>3. h[z] < m
        BY <4>2
      <4> HIDE DEF g
      <4> QED BY <2>8, <4>1, <4>3
    <3>2. R(y)[w] = Step(p, w, [z \in Children(w) |-> R(y)[z]])
      <4> HIDE DEF g
      <4> QED BY <2>6
    <3>3. g[w] = Step(p, w, [z \in Children(w) |-> g[z]])
      <4> HIDE DEF g
      <4> QED BY <2>5
    <3> HIDE DEF g
    <3>4. [z \in Children(w) |-> R(y)[z]] = [z \in Children(w) |-> g[z]]
      BY <3>1
    <3> QED BY <3>2, <3>3, <3>4
  <2>9. ASSUME NEW w \in Parts(y) PROVE R(y)[w] = g[w]
    <3>1. Nat \subseteq U
      <4> HIDE DEF U
      <4> QED BY <2>7, <2>8 DEF NumbersAreInductive
    <3>2. h[w] \in Nat /\ h[w] + 1 \in Nat /\ h[w] < h[w] + 1
      OBVIOUS
    <3> HIDE DEF g
    <3> QED BY <3>1, <3>2
  <2>10. \A w \in Parts(y) : R(y)[w] = Visit(p, w)
    <3> HIDE DEF g
    <3> QED BY <1>1, <2>2, <2>9
  <2> QED BY <2>6, <2>10 DEF Good
<1>5. Nat \subseteq T
  <2> HIDE DEF T
  <2> QED BY <1>3, <1>4 DEF NumbersAreInductive
<1> SUFFICES ASSUME NEW x \in S PROVE Visit(p, x) = Step(p, x, [z \in Children(x) |-> Visit(p, z)])
  OBVIOUS
<1>6. Good(x)
  <2>1. h[x] + 1 \in Nat /\ h[x] < h[x] + 1
    OBVIOUS
  <2> HIDE DEF Good
  <2> QED BY <1>5, <2>1
<1>7. x \in Parts(x) /\ Children(x) \subseteq Parts(x)
  OBVIOUS
<1>8. [z \in Children(x) |-> R(x)[z]] = [z \in Children(x) |-> Visit(p, z)]
  BY <1>6, <1>7
<1> QED BY <1>1, <1>6, <1>7, <1>8

\* Taking out the element that CHOOSE names leaves a smaller set.
LEMMA ChosenOut ==
  ASSUME NEW D, D # {}
  PROVE  /\ (CHOOSE x \in D : TRUE) \in D
         /\ D \ {CHOOSE x \in D : TRUE} \in SUBSET D
         /\ D \ {CHOOSE x \in D : TRUE} # D
  OBVIOUS

\* The fold of a finite set is what Step makes of an element of it and of the
\* fold of the others.
LEMMA FoldEquation ==
  ASSUME NEW p, NEW base, NEW S,
         SubsetsAreInductive(S)
  PROVE  /\ Fold(p, base, {}) = base
         /\ S # {} => Fold(p, base, S) = LET x == CHOOSE y \in S : TRUE IN Step(p, x, Fold(p, base, S \ {x}))
<1> DEFINE One(D) == CHOOSE y \in D : TRUE
           Of(D, f) == IF D = {} THEN base ELSE Step(p, One(D), f[D \ {One(D)}])
           R(D) == CHOOSE f : f = [E \in SUBSET D |-> Of(E, f)]
           Good(D) == /\ R(D) = [E \in SUBSET D |-> Of(E, R(D))]
                      /\ \A E \in SUBSET D : R(D)[E] = Fold(p, base, E)
           T == {D \in SUBSET S : Good(D)}
<1>1. \A D : Fold(p, base, D) = R(D)[D]
  BY DEF Fold
<1>2. \A D : (\E f : f = [E \in SUBSET D |-> Of(E, f)]) => R(D) = [E \in SUBSET D |-> Of(E, R(D))]
  OBVIOUS
<1>3. \A D : D # {} => One(D) \in D /\ D \ {One(D)} \in SUBSET D /\ D \ {One(D)} # D
  BY ChosenOut
<1> HIDE DEF R, One
<1>4. ASSUME NEW D \in SUBSET S, \A E \in SUBSET D : E # D => E \in T
      PROVE  D \in T
  <2>1. \A E \in SUBSET D : E # D => Good(E)
    BY <1>4
  <2> DEFINE Rest(E) == Fold(p, base, E \ {One(E)})
             g == [E \in SUBSET D |-> IF E = {} THEN base ELSE Step(p, One(E), Rest(E))]
  <2> HIDE DEF T, Good
  <2>2. ASSUME NEW E \in SUBSET D, E # D PROVE g[E] = Fold(p, base, E)
    <3>1. Good(E)
      BY <2>1, <2>2
    <3>2. R(E)[E] = Of(E, R(E))
      BY <3>1 DEF Good
    <3>3. CASE E = {}
      BY <1>1, <3>2, <3>3
    <3>4. CASE E # {}
      <4>1. R(E)[E \ {One(E)}] = Rest(E)
        BY <1>3, <3>1, <3>4 DEF Good
      <4>2. R(E)[E] = Step(p, One(E), Rest(E))
        BY <3>2, <3>4, <4>1
      <4> QED BY <1>1, <3>4, <4>2
    <3> QED BY <3>3, <3>4
  <2>3. \A E \in SUBSET D : g[E] = Of(E, g)
    <3> SUFFICES ASSUME NEW E \in SUBSET D PROVE g[E] = Of(E, g)
      OBVIOUS
    <3>1. CASE E = {}
      BY <3>1
    <3>2. CASE E # {}
      <4>1. E \ {One(E)} \in SUBSET D /\ E \ {One(E)} # D
        BY <1>3, <3>2
      <4>2. g[E \ {One(E)}] = Rest(E)
        <5> HIDE DEF g
        <5> QED BY <2>2, <4>1
      <4>3. g[E] = Step(p, One(E), Rest(E))
        BY <3>2
      <4> HIDE DEF g, Rest
      <4> QED BY <3>2, <4>2, <4>3
    <3> QED BY <3>1, <3>2
  <2>4. g = [E \in SUBSET D |-> Of(E, g)]
    <3>1. g = [E \in SUBSET D |-> g[E]]
      OBVIOUS
    <3> HIDE DEF g, Of
    <3> QED BY <2>3, <3>1
  <2>5. R(D) = [E \in SUBSET D |-> Of(E, R(D))]
    <3>1. \E f : f = [E \in SUBSET D |-> Of(E, f)]
      <4> HIDE DEF g, Of
      <4> QED BY <2>4
    <3> HIDE DEF Of
    <3> QED BY <1>2, <3>1
  <2> DEFINE U == {E \in SUBSET D : R(D)[E] = g[E]}
  <2>6. ASSUME NEW E \in SUBSET D, \A F \in SUBSET E : F # E => F \in U PROVE E \in U
    <3>1. R(D)[E] = Of(E, R(D)) /\ g[E] = Of(E, g)
      <4> HIDE DEF g, Of
      <4> QED BY <2>3, <2>5
    <3>2. CASE E = {}
      BY <3>1, <3>2
    <3>3. CASE E # {}
      <4>1. E \ {One(E)} \in U
        <5> HIDE DEF U
        <5> QED BY <1>3, <2>6, <3>3
      <4> HIDE DEF g
      <4> QED BY <3>1, <3>3, <4>1
    <3> QED BY <3>2, <3>3
  <2>7. SUBSET D \subseteq U
    <3> DEFINE V == {E \in SUBSET S : E \in SUBSET D => E \in U}
    <3>1. ASSUME NEW E \in SUBSET S, \A F \in SUBSET E : F # E => F \in V PROVE E \in V
      <4> SUFFICES ASSUME E \in SUBSET D PROVE E \in U
        OBVIOUS
      <4>1. \A F \in SUBSET E : F # E => F \in U
        <5> HIDE DEF U
        <5> QED BY <3>1
      <4> HIDE DEF U
      <4> QED BY <2>6, <4>1
    <3>2. SUBSET S \subseteq V
      <4> HIDE DEF V
      <4> QED BY <3>1 DEF SubsetsAreInductive
    <3> HIDE DEF U
    <3> QED BY <3>2
  <2>8. \A E \in SUBSET D : R(D)[E] = Fold(p, base, E)
    <3> HIDE DEF g
    <3> QED BY <1>1, <2>2, <2>7
  <2> QED BY <2>5, <2>8 DEF Good, T
<1>5. SUBSET S \subseteq T
  <2> HIDE DEF T
  <2> QED BY <1>4 DEF SubsetsAreInductive
<1>6. Good(S) /\ Good({})
  BY <1>5
<1>7. R({})[{}] = base
  BY <1>6
<1>8. ASSUME S # {} PROVE R(S)[S] = Step(p, One(S), Fold(p, base, S \ {One(S)}))
  <2>1. R(S)[S] = Step(p, One(S), R(S)[S \ {One(S)}])
    BY <1>6, <1>8
  <2>2. R(S)[S \ {One(S)}] = Fold(p, base, S \ {One(S)})
    BY <1>3, <1>6, <1>8
  <2> QED BY <2>1, <2>2
<1> QED BY <1>1, <1>7, <1>8 DEF One

\* The iteration of a number is what Step makes of it and of the iteration before.
LEMMA IterateEquation ==
  ASSUME NumbersAreInductive,
         NEW p, NEW base
  PROVE  /\ Iterate(p, base, 0) = base
         /\ \A n \in Nat : Iterate(p, base, n + 1) = Step(p, n + 1, Iterate(p, base, n))
<1> DEFINE Of(m, f) == IF m = 0 THEN base ELSE Step(p, m, f[m - 1])
           T == {n \in Nat : \E f : f = [m \in 0 .. n |-> Of(m, f)]}
<1>1. 0 \in T
  <2>1. [m \in 0 .. 0 |-> base] = [m \in 0 .. 0 |-> Of(m, [k \in 0 .. 0 |-> base])]
    OBVIOUS
  <2> QED BY <2>1
<1>2. ASSUME NEW n \in Nat, n \in T PROVE n + 1 \in T
  <2>1. PICK f : f = [m \in 0 .. n |-> Of(m, f)]
    BY <1>2
  <2> DEFINE g == [m \in 0 .. n + 1 |-> Of(m, f)]
  <2>2. \A m \in 0 .. n : g[m] = f[m]
    <3>1. \A m \in 0 .. n : m \in 0 .. n + 1
      OBVIOUS
    <3> HIDE DEF Of
    <3> QED BY <2>1, <3>1
  <2>3. \A m \in 0 .. n + 1 : g[m] = Of(m, g)
    <3> SUFFICES ASSUME NEW m \in 0 .. n + 1 PROVE g[m] = Of(m, g)
      OBVIOUS
    <3>1. g[m] = Of(m, f)
      OBVIOUS
    <3>2. m # 0 => m - 1 \in 0 .. n
      OBVIOUS
    <3> HIDE DEF g
    <3> QED BY <2>2, <3>1, <3>2
  <2>4. g = [m \in 0 .. n + 1 |-> Of(m, g)]
    <3>1. g = [m \in 0 .. n + 1 |-> g[m]]
      OBVIOUS
    <3> HIDE DEF g, Of
    <3> QED BY <2>3, <3>1
  <2> HIDE DEF g, Of
  <2> QED BY <2>4
<1>3. Nat \subseteq T
  <2> HIDE DEF T
  <2> QED BY <1>1, <1>2 DEF NumbersAreInductive
\* The solutions on 0 .. n agree where both are defined.
<1> DEFINE R(n) == CHOOSE f : f = [m \in 0 .. n |-> Of(m, f)]
<1>4. \A n \in Nat : R(n) = [m \in 0 .. n |-> Of(m, R(n))]
  <2> SUFFICES ASSUME NEW n \in Nat PROVE R(n) = [m \in 0 .. n |-> Of(m, R(n))]
    OBVIOUS
  <2>1. \E f : f = [m \in 0 .. n |-> Of(m, f)]
    BY <1>3
  <2> HIDE DEF Of
  <2> QED BY <2>1
<1> HIDE DEF R, T
<1>5. ASSUME NEW n \in Nat PROVE \A m \in 0 .. n : R(n + 1)[m] = R(n)[m]
  <2> DEFINE U == {m \in Nat : m <= n => R(n + 1)[m] = R(n)[m]}
  <2>1. n + 1 \in Nat /\ (\A m \in 0 .. n : m \in 0 .. n + 1)
    OBVIOUS
  <2>2. \A m \in 0 .. n : R(n)[m] = Of(m, R(n)) /\ R(n + 1)[m] = Of(m, R(n + 1))
    <3> HIDE DEF Of
    <3>1. R(n) = [m \in 0 .. n |-> Of(m, R(n))] /\ R(n + 1) = [m \in 0 .. n + 1 |-> Of(m, R(n + 1))]
      BY <1>4, <2>1
    <3> QED BY <2>1, <3>1
  <2>3. 0 \in U
    BY <2>2
  <2>4. ASSUME NEW m \in Nat, m \in U PROVE m + 1 \in U
    <3> SUFFICES ASSUME m + 1 <= n PROVE R(n + 1)[m + 1] = R(n)[m + 1]
      OBVIOUS
    <3>1. m + 1 \in 0 .. n /\ m + 1 # 0 /\ m + 1 - 1 = m /\ m <= n
      OBVIOUS
    <3> QED BY <2>2, <2>4, <3>1
  <2>5. Nat \subseteq U
    <3> HIDE DEF U
    <3> QED BY <2>3, <2>4 DEF NumbersAreInductive
  <2> QED BY <2>5
<1> DEFINE g == [m \in Nat |-> R(m)[m]]
<1>6. \A m \in Nat : g[m] = Of(m, g)
  <2> SUFFICES ASSUME NEW m \in Nat PROVE g[m] = Of(m, g)
    OBVIOUS
  <2>1. R(m)[m] = Of(m, R(m))
    <3>1. m \in 0 .. m
      OBVIOUS
    <3> HIDE DEF Of
    <3> QED BY <1>4, <3>1
  <2>2. CASE m = 0
    BY <2>1, <2>2
  <2>3. CASE m # 0
    <3>1. m - 1 \in Nat /\ m - 1 + 1 = m /\ m - 1 \in 0 .. m - 1
      BY <2>3
    <3>2. R(m)[m - 1] = R(m - 1)[m - 1]
      <4>1. R(m - 1 + 1)[m - 1] = R(m - 1)[m - 1]
        BY <1>5, <3>1
      <4> QED BY <3>1, <4>1
    <3>3. g[m - 1] = R(m)[m - 1]
      BY <3>1, <3>2
    <3> QED BY <2>1, <2>3, <3>3
  <2> QED BY <2>2, <2>3
<1>7. g = [m \in Nat |-> Of(m, g)]
  <2>1. g = [m \in Nat |-> g[m]]
    OBVIOUS
  <2> HIDE DEF g, Of
  <2> QED BY <1>6, <2>1
<1> DEFINE v == CHOOSE f : f = [m \in Nat |-> Of(m, f)]
<1>8. v = [m \in Nat |-> Of(m, v)]
  <2>1. \E f : f = [m \in Nat |-> Of(m, f)]
    <3> HIDE DEF g, Of
    <3> QED BY <1>7
  <2> HIDE DEF Of
  <2> QED BY <2>1
<1>9. \A n : Iterate(p, base, n) = v[n]
  BY DEF Iterate
<1>10. \A m \in Nat : v[m] = Of(m, v)
  <2> HIDE DEF v, Of
  <2> QED BY <1>8
<1> HIDE DEF v
<1>11. v[0] = base
  BY <1>10
<1>12. ASSUME NEW n \in Nat PROVE v[n + 1] = Step(p, n + 1, v[n])
  <2>1. n + 1 \in Nat /\ n + 1 # 0 /\ n + 1 - 1 = n
    OBVIOUS
  <2> QED BY <1>10, <2>1
<1> QED BY <1>9, <1>11, <1>12
=============================================================================
