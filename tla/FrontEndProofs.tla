--------------------------- MODULE FrontEndProofs ---------------------------
(***************************************************************************)
(* Theorems about the front ends: the scripts the SMT-LIB 2 parser reads,  *)
(* for every set of names and every bound, and the runs of the program, for *)
(* every input, every set of values and every number of objectives.        *)
(***************************************************************************)
EXTENDS Smt2Script, Session, SequenceTheorems, FiniteSetTheorems, WellFoundedInduction,
        TLAPS

(* Scoped maps *)

IsScopedMap(m, K, S) ==
  /\ m = [map |-> m.map, actions |-> m.actions, stack |-> m.stack]
  /\ m.map \in [DOMAIN m.map -> S] /\ DOMAIN m.map \subseteq K
  /\ m.actions \in Seq([kind : {"INSERT", "UPDATE"}, key : K, value : S])
  /\ m.stack \in Seq(Nat)
  /\ \A i \in DOMAIN m.stack :
       /\ m.stack[i] <= Len(m.actions)
       /\ \A j \in DOMAIN m.stack : i <= j => m.stack[i] <= m.stack[j]

LEMMA LeastExists ==
  ASSUME NEW T \in SUBSET Nat, T # {}
  PROVE  \E x \in T : \A y \in T : x <= y
<1> DEFINE R == OpToRel(<, Nat)
<1>1. IsWellFoundedOn(R, Nat)
  BY NatLessThanWellFounded
<1>2. \A a, b \in Nat : a < b => <<a, b>> \in R
  BY DEF OpToRel
<1> HIDE DEF R
<1>3. PICK x \in T : \A y \in T : ~ (<<y, x>> \in R)
  BY <1>1, WFMin
<1>4. \A y \in T : ~ (y < x)
  BY <1>2, <1>3
<1> QED BY <1>4

LEMMA OldestIs ==
  ASSUME NEW m, NEW n, NEW k, NEW i \in Changes(m, n, k),
         Len(m.actions) \in Nat, n \in Nat,
         \A j \in Changes(m, n, k) : i <= j
  PROVE  Oldest(m, n, k) = m.actions[i]
<1>1. \A j \in Changes(m, n, k) : j \in Nat
  BY DEF Changes
<1>2. \A c \in Changes(m, n, k) : (\A j \in Changes(m, n, k) : c <= j) => c = i
  BY <1>1
<1>3. i = CHOOSE c \in Changes(m, n, k) : \A j \in Changes(m, n, k) : c <= j
  BY <1>2
<1> QED BY <1>3 DEF Oldest

LEMMA OldestExists ==
  ASSUME NEW m, NEW n \in Nat, NEW k, Len(m.actions) \in Nat, Changes(m, n, k) # {}
  PROVE  \E i \in Changes(m, n, k) :
           /\ \A j \in Changes(m, n, k) : i <= j
           /\ Oldest(m, n, k) = m.actions[i]
<1>1. Changes(m, n, k) \in SUBSET Nat
  BY DEF Changes
<1>2. PICK i \in Changes(m, n, k) : \A j \in Changes(m, n, k) : i <= j
  BY <1>1, LeastExists
<1> QED BY <1>2, OldestIs

\* What a key is left with.
LEMMA UndoneAt ==
  ASSUME NEW m, NEW n, NEW k
  PROVE  /\ Undone(m, n) = [x \in DOMAIN Undone(m, n) |-> Undone(m, n)[x]]
         /\ Changes(m, n, k) = {} =>
              /\ k \in DOMAIN Undone(m, n) <=> k \in DOMAIN m.map
              /\ k \in DOMAIN m.map => Undone(m, n)[k] = m.map[k]
         /\ Changes(m, n, k) # {} =>
              /\ k \in DOMAIN Undone(m, n) <=> Oldest(m, n, k).kind # "INSERT"
              /\ Oldest(m, n, k).kind # "INSERT" => Undone(m, n)[k] = Oldest(m, n, k).value
<1> DEFINE changed == {m.actions[i].key : i \in n + 1 .. Len(m.actions)}
<1>1. k \in changed <=> Changes(m, n, k) # {}
  BY DEF Changes
<1> QED BY <1>1 DEF Undone

LEMMA SameEntries ==
  ASSUME NEW a, NEW b, NEW n, NEW o,
         \A k : /\ k \in DOMAIN Undone(a, n) <=> k \in DOMAIN Undone(b, o)
                /\ k \in DOMAIN Undone(a, n) => Undone(a, n)[k] = Undone(b, o)[k]
  PROVE  Undone(a, n) = Undone(b, o)
<1>1. DOMAIN Undone(a, n) = DOMAIN Undone(b, o)
  OBVIOUS
<1>2. /\ Undone(a, n) = [x \in DOMAIN Undone(a, n) |-> Undone(a, n)[x]]
      /\ Undone(b, o) = [x \in DOMAIN Undone(b, o) |-> Undone(b, o)[x]]
  BY UndoneAt
<1> QED BY <1>1, <1>2

LEMMA UndoneNothing ==
  ASSUME NEW m, m.map = [x \in DOMAIN m.map |-> m.map[x]], Len(m.actions) \in Nat
  PROVE  Undone(m, Len(m.actions)) = m.map
<1>1. Len(m.actions) + 1 .. Len(m.actions) = {}
  OBVIOUS
<1> QED BY <1>1 DEF Undone

\* The first n elements of a sequence.
LEMMA PrefixOf ==
  ASSUME NEW S, NEW s, NEW n \in Nat, \A i \in 1 .. n : s[i] \in S
  PROVE  /\ SubSeq(s, 1, n) \in Seq(S) /\ Len(SubSeq(s, 1, n)) = n
         /\ \A i \in 1 .. n : SubSeq(s, 1, n)[i] = s[i]
<1>1. 1 \in Int /\ n \in Int
  OBVIOUS
<1>2. /\ SubSeq(s, 1, n) \in Seq(S)
      /\ Len(SubSeq(s, 1, n)) = IF 1 <= n THEN n - 1 + 1 ELSE 0
      /\ \A i \in 1 .. n - 1 + 1 : SubSeq(s, 1, n)[i] = s[1 + i - 1]
  BY <1>1, SubSeqProperties
<1>3. \A i \in 1 .. n : i \in 1 .. n - 1 + 1 /\ 1 + i - 1 = i
  OBVIOUS
<1> QED BY <1>2, <1>3

LEMMA FunctionIsSeq ==
  ASSUME NEW S, NEW n \in Nat, NEW f \in [1 .. n -> S]
  PROVE  f \in Seq(S) /\ Len(f) = n /\ DOMAIN f = 1 .. n
OBVIOUS

(* The front of a sequence. *)
LEMMA FrontLast ==
  ASSUME NEW S, NEW s \in Seq(S), s # << >>
  PROVE  /\ Front(s) \in Seq(S) /\ Len(Front(s)) = Len(s) - 1
         /\ Len(s) \in Nat \ {0} /\ Last(s) = s[Len(s)] /\ Last(s) \in S
         /\ DOMAIN Front(s) = 1 .. Len(s) - 1
         /\ \A i \in 1 .. Len(s) - 1 : Front(s)[i] = s[i]
<1>1. Len(s) \in Nat \ {0} /\ \A i \in 1 .. Len(s) : s[i] \in S
  BY EmptySeq, ElementOfSeq
<1>2. /\ SubSeq(s, 1, Len(s) - 1) \in Seq(S)
      /\ Len(SubSeq(s, 1, Len(s) - 1)) = Len(s) - 1
      /\ \A i \in 1 .. Len(s) - 1 : SubSeq(s, 1, Len(s) - 1)[i] = s[i]
  <2>1. Len(s) - 1 \in Nat /\ \A i \in 1 .. Len(s) - 1 : s[i] \in S
    BY <1>1
  <2> DEFINE n == Len(s) - 1
  <2> HIDE DEF n
  <2>2. n \in Nat /\ \A i \in 1 .. n : s[i] \in S
    BY <2>1 DEF n
  <2>3. /\ SubSeq(s, 1, n) \in Seq(S) /\ Len(SubSeq(s, 1, n)) = n
        /\ \A i \in 1 .. n : SubSeq(s, 1, n)[i] = s[i]
    BY <2>2, PrefixOf
  <2> QED BY <2>3 DEF n
<1>3. DOMAIN SubSeq(s, 1, Len(s) - 1) = 1 .. Len(s) - 1
  BY <1>2, LenProperties
<1> QED BY <1>1, <1>2, <1>3 DEF Front, Last

-----------------------------------------------------------------------------
(* Insert, push and pop keep a scoped map well formed, and leave what the  *)
(* enclosing scopes will be left with.                                     *)

Action(K, S) == [kind : {"INSERT", "UPDATE"}, key : K, value : S]

LEMMA ScopedMapType ==
  ASSUME NEW K, NEW S, NEW m, IsScopedMap(m, K, S)
  PROVE  /\ m.actions \in Seq(Action(K, S)) /\ m.stack \in Seq(Nat)
         /\ Len(m.actions) \in Nat /\ DOMAIN m.actions = 1 .. Len(m.actions)
         /\ Len(m.stack) \in Nat /\ DOMAIN m.stack = 1 .. Len(m.stack)
         /\ \A i \in 1 .. Len(m.actions) : m.actions[i] \in Action(K, S)
         /\ \A i \in 1 .. Len(m.stack) : m.stack[i] \in Nat /\ m.stack[i] <= Len(m.actions)
         /\ m.map = [x \in DOMAIN m.map |-> m.map[x]]
         /\ \A x \in DOMAIN m.map : m.map[x] \in S
<1>1. m.actions \in Seq(Action(K, S)) /\ m.stack \in Seq(Nat)
  BY DEF IsScopedMap, Action
<1>2. /\ Len(m.actions) \in Nat /\ DOMAIN m.actions = 1 .. Len(m.actions)
      /\ \A i \in 1 .. Len(m.actions) : m.actions[i] \in Action(K, S)
  BY <1>1, LenProperties, ElementOfSeq
<1>3. /\ Len(m.stack) \in Nat /\ DOMAIN m.stack = 1 .. Len(m.stack)
      /\ \A i \in 1 .. Len(m.stack) : m.stack[i] \in Nat
  BY <1>1, LenProperties, ElementOfSeq
<1>4. \A i \in 1 .. Len(m.stack) : m.stack[i] <= Len(m.actions)
  BY <1>3 DEF IsScopedMap
<1>5. m.map \in [DOMAIN m.map -> S]
  BY DEF IsScopedMap
<1> QED BY <1>1, <1>2, <1>3, <1>4, <1>5

LEMMA LoggedType ==
  ASSUME NEW K, NEW S, NEW m, IsScopedMap(m, K, S), NEW k \in K, NEW v \in S
  PROVE  Logged(m, k, v) \in Action(K, S)
BY ScopedMapType DEF Logged, Action

LEMMA InsertedLog ==
  ASSUME NEW K, NEW S, NEW m, IsScopedMap(m, K, S),
         NEW ks \in Seq(K), NEW vs \in Seq(S), Len(vs) = Len(ks)
  PROVE  LET l == InsertedEach(m, ks, vs).actions
         IN  /\ l \in Seq(Action(K, S)) /\ Len(l) = Len(m.actions) + Len(ks)
             /\ \A i \in 1 .. Len(m.actions) : l[i] = m.actions[i]
             /\ \A i \in 1 .. Len(ks) : l[Len(m.actions) + i] = Logged(m, ks[i], vs[i])
<1> DEFINE l == InsertedEach(m, ks, vs).actions
           new == [i \in DOMAIN ks |-> Logged(m, ks[i], vs[i])]
<1>1. /\ Len(ks) \in Nat /\ DOMAIN ks = 1 .. Len(ks)
      /\ \A i \in 1 .. Len(ks) : ks[i] \in K /\ vs[i] \in S
  BY LenProperties, ElementOfSeq
<1>2. \A i \in 1 .. Len(ks) : Logged(m, ks[i], vs[i]) \in Action(K, S)
  BY <1>1, LoggedType
<1>3. new \in [1 .. Len(ks) -> Action(K, S)]
  BY <1>1, <1>2
<1>4. new \in Seq(Action(K, S)) /\ Len(new) = Len(ks)
  BY <1>1, <1>3, FunctionIsSeq
<1>5. l = m.actions \o new
  BY DEF InsertedEach
<1>6. \A i \in 1 .. Len(ks) : new[i] = Logged(m, ks[i], vs[i])
  BY <1>1
<1>7. m.actions \in Seq(Action(K, S)) /\ Len(m.actions) \in Nat
  BY ScopedMapType
<1> HIDE DEF l, new
<1>8. /\ l \in Seq(Action(K, S)) /\ Len(l) = Len(m.actions) + Len(ks)
      /\ \A i \in 1 .. Len(m.actions) + Len(ks) :
           l[i] = IF i <= Len(m.actions) THEN m.actions[i] ELSE new[i - Len(m.actions)]
  <2>1. PICK old, T : old = m.actions /\ T = Action(K, S)
    OBVIOUS
  <2>2. old \in Seq(T) /\ new \in Seq(T)
    BY <1>4, <1>7, <2>1
  <2>3. /\ old \o new \in Seq(T) /\ Len(old \o new) = Len(old) + Len(new)
        /\ \A i \in 1 .. Len(old) + Len(new) :
             (old \o new)[i] = IF i <= Len(old) THEN old[i] ELSE new[i - Len(old)]
    BY <2>2, ConcatProperties
  <2> QED
    BY <1>4, <1>5, <2>1, <2>3
<1>9. \A i \in 1 .. Len(m.actions) : l[i] = m.actions[i]
  BY <1>1, <1>7, <1>8
<1>10. \A i \in 1 .. Len(ks) : l[Len(m.actions) + i] = Logged(m, ks[i], vs[i])
  <2> SUFFICES ASSUME NEW i \in 1 .. Len(ks)
               PROVE  l[Len(m.actions) + i] = Logged(m, ks[i], vs[i])
    OBVIOUS
  <2> DEFINE at == Len(m.actions) + i
  <2>1. /\ at \in 1 .. Len(m.actions) + Len(ks) /\ ~ (at <= Len(m.actions))
        /\ at - Len(m.actions) = i
    BY <1>1, <1>7
  <2> HIDE DEF at
  <2>2. l[at] = new[at - Len(m.actions)]
    BY <1>8, <2>1
  <2> QED BY <1>6, <2>1, <2>2 DEF at
<1> QED BY <1>8, <1>9, <1>10 DEF l

LEMMA InsertedEachOK ==
  ASSUME NEW K, NEW S, NEW m, IsScopedMap(m, K, S),
         NEW ks \in Seq(K), NEW vs \in Seq(S), Len(vs) = Len(ks)
  PROVE  /\ IsScopedMap(InsertedEach(m, ks, vs), K, S)
         /\ InsertedEach(m, ks, vs).stack = m.stack
<1> DEFINE r == InsertedEach(m, ks, vs)
<1>1. r.stack = m.stack /\ r = [map |-> r.map, actions |-> r.actions, stack |-> r.stack]
  BY DEF InsertedEach
<1>2. r.actions \in Seq(Action(K, S)) /\ Len(r.actions) = Len(m.actions) + Len(ks)
  BY InsertedLog
<1>3. /\ Len(ks) \in Nat /\ DOMAIN ks = 1 .. Len(ks)
      /\ \A i \in 1 .. Len(ks) : ks[i] \in K /\ vs[i] \in S
  BY LenProperties, ElementOfSeq
<1>4. r.map = [x \in DOMAIN m.map \cup {ks[i] : i \in DOMAIN ks} |->
                 IF \E i \in DOMAIN ks : ks[i] = x
                 THEN vs[CHOOSE i \in DOMAIN ks : ks[i] = x] ELSE m.map[x]]
  BY DEF InsertedEach
<1>5. DOMAIN r.map \subseteq K
  BY <1>3, <1>4 DEF IsScopedMap
<1> HIDE DEF r
<1>6. \A x \in DOMAIN r.map : r.map[x] \in S
  <2> SUFFICES ASSUME NEW x \in DOMAIN r.map PROVE r.map[x] \in S
    OBVIOUS
  <2>1. CASE \E i \in DOMAIN ks : ks[i] = x
    BY <1>3, <1>4, <2>1
  <2>2. CASE ~ \E i \in DOMAIN ks : ks[i] = x
    <3>1. r.map[x] = m.map[x] /\ x \in DOMAIN m.map
      BY <1>4, <2>2
    <3> QED BY <3>1, ScopedMapType
  <2> QED BY <2>1, <2>2
<1>7. r.map \in [DOMAIN r.map -> S]
  BY <1>4, <1>6
<1>8. Len(m.actions) <= Len(r.actions)
  BY <1>2, <1>3, ScopedMapType
<1>9. \A i \in DOMAIN r.stack :
       /\ r.stack[i] <= Len(r.actions)
       /\ \A j \in DOMAIN r.stack : i <= j => r.stack[i] <= r.stack[j]
  BY <1>1, <1>2, <1>3, <1>8, ScopedMapType DEF IsScopedMap
<1> QED BY <1>1, <1>2, <1>5, <1>7, <1>9, ScopedMapType DEF IsScopedMap, Action, r

LEMMA UndoneOfInserted ==
  ASSUME NEW K, NEW S, NEW m, IsScopedMap(m, K, S),
         NEW ks \in Seq(K), NEW vs \in Seq(S), Len(vs) = Len(ks),
         \A i, j \in DOMAIN ks : ks[i] = ks[j] => i = j,
         NEW n \in Nat, n <= Len(m.actions)
  PROVE  Undone(InsertedEach(m, ks, vs), n) = Undone(m, n)
<1> DEFINE r == InsertedEach(m, ks, vs)
<1>1. /\ Len(ks) \in Nat /\ DOMAIN ks = 1 .. Len(ks)
      /\ Len(m.actions) \in Nat
  BY ScopedMapType, LenProperties
<1>2. /\ Len(r.actions) = Len(m.actions) + Len(ks)
      /\ \A i \in 1 .. Len(m.actions) : r.actions[i] = m.actions[i]
      /\ \A i \in 1 .. Len(ks) : r.actions[Len(m.actions) + i] = Logged(m, ks[i], vs[i])
  BY InsertedLog
<1>3. r.map = [x \in DOMAIN m.map \cup {ks[i] : i \in DOMAIN ks} |->
                 IF \E i \in DOMAIN ks : ks[i] = x
                 THEN vs[CHOOSE i \in DOMAIN ks : ks[i] = x] ELSE m.map[x]]
  BY DEF InsertedEach
<1> HIDE DEF r
<1>4. ASSUME NEW k
      PROVE  /\ k \in DOMAIN Undone(r, n) <=> k \in DOMAIN Undone(m, n)
             /\ k \in DOMAIN Undone(r, n) => Undone(r, n)[k] = Undone(m, n)[k]
  <2>1. Changes(m, n, k) \subseteq Changes(r, n, k)
    BY <1>1, <1>2 DEF Changes
  <2>2. CASE Changes(m, n, k) # {}
    <3>1. PICK i \in Changes(m, n, k) :
            /\ \A j \in Changes(m, n, k) : i <= j
            /\ Oldest(m, n, k) = m.actions[i]
      BY <1>1, <2>2, OldestExists
    <3>2. i \in Changes(r, n, k) /\ i \in 1 .. Len(m.actions)
      BY <1>1, <2>1, <3>1 DEF Changes
    <3>3. \A j \in Changes(r, n, k) : i <= j
      <4> SUFFICES ASSUME NEW j \in Changes(r, n, k), ~ (i <= j) PROVE FALSE
        OBVIOUS
      <4>1. j \in n + 1 .. Len(m.actions) /\ r.actions[j].key = k
        BY <1>1, <1>2, <3>2 DEF Changes
      <4>2. j \in Changes(m, n, k)
        BY <1>1, <1>2, <4>1 DEF Changes
      <4> QED BY <3>1, <4>2
    <3>4. Oldest(r, n, k) = r.actions[i] /\ r.actions[i] = m.actions[i]
      BY <1>1, <1>2, <3>2, <3>3, OldestIs
    <3> QED BY <2>1, <2>2, <3>1, <3>4, UndoneAt
  <2>3. CASE Changes(m, n, k) = {} /\ \E i \in DOMAIN ks : ks[i] = k
    <3>1. PICK i \in DOMAIN ks : ks[i] = k
      BY <2>3
    <3> DEFINE at == Len(m.actions) + i
    <3>2. r.actions[at] = Logged(m, k, vs[i]) /\ at \in n + 1 .. Len(r.actions)
      BY <1>1, <1>2, <3>1
    <3>3. r.actions[at].key = k
      BY <3>2 DEF Logged
    <3>4. at \in Changes(r, n, k)
      BY <3>2, <3>3 DEF Changes
    <3>5. \A j \in Changes(r, n, k) : at <= j
      <4> SUFFICES ASSUME NEW j \in Changes(r, n, k), ~ (at <= j) PROVE FALSE
        OBVIOUS
      <4>1. j \in n + 1 .. Len(r.actions) /\ r.actions[j].key = k /\ j < at
        BY <1>1, <1>2 DEF Changes
      <4>2. CASE j <= Len(m.actions)
        <5>1. j \in Changes(m, n, k)
          BY <1>1, <1>2, <4>1, <4>2 DEF Changes
        <5> QED BY <2>3, <5>1
      <4>3. CASE ~ (j <= Len(m.actions))
        <5> DEFINE o == j - Len(m.actions)
        <5>1. o \in 1 .. Len(ks) /\ j = Len(m.actions) + o /\ o # i
          BY <1>1, <1>2, <3>1, <4>1, <4>3
        <5> HIDE DEF o
        <5>2. r.actions[j] = Logged(m, ks[o], vs[o])
          BY <1>2, <5>1
        <5>3. ks[o] = k
          BY <4>1, <5>2 DEF Logged
        <5> QED BY <1>1, <3>1, <5>1, <5>3
      <4> QED BY <4>2, <4>3
    <3> HIDE DEF at
    <3>6. Oldest(r, n, k) = Logged(m, k, vs[i])
      <4>1. Len(r.actions) \in Nat
        BY <1>1, <1>2
      <4>2. Oldest(r, n, k) = r.actions[at]
        BY <3>4, <3>5, <4>1, OldestIs
      <4> QED BY <3>2, <4>2
    <3>7. Changes(r, n, k) # {}
      BY <3>4
    <3>8. CASE k \in DOMAIN m.map
      <4>1. Oldest(r, n, k).kind = "UPDATE" /\ Oldest(r, n, k).value = m.map[k]
        BY <3>6, <3>8 DEF Logged
      <4> QED BY <2>3, <3>7, <3>8, <4>1, UndoneAt
    <3>9. CASE k \notin DOMAIN m.map
      <4>1. Oldest(r, n, k).kind = "INSERT"
        BY <3>6, <3>9 DEF Logged
      <4> QED BY <2>3, <3>7, <3>9, <4>1, UndoneAt
    <3> QED BY <3>8, <3>9
  <2>4. CASE Changes(m, n, k) = {} /\ ~ \E i \in DOMAIN ks : ks[i] = k
    <3>1. Changes(r, n, k) = {}
      <4> SUFFICES ASSUME NEW j \in Changes(r, n, k) PROVE FALSE
        OBVIOUS
      <4>1. j \in n + 1 .. Len(r.actions) /\ r.actions[j].key = k
        BY DEF Changes
      <4>2. CASE j <= Len(m.actions)
        <5>1. j \in Changes(m, n, k)
          BY <1>1, <1>2, <4>1, <4>2 DEF Changes
        <5> QED BY <2>4, <5>1
      <4>3. CASE ~ (j <= Len(m.actions))
        <5> DEFINE o == j - Len(m.actions)
        <5>1. o \in 1 .. Len(ks) /\ j = Len(m.actions) + o
          BY <1>1, <1>2, <4>1, <4>3
        <5> HIDE DEF o
        <5>2. r.actions[j] = Logged(m, ks[o], vs[o])
          BY <1>2, <5>1
        <5>3. ks[o] = k
          BY <4>1, <5>2 DEF Logged
        <5> QED BY <1>1, <2>4, <5>1, <5>3
      <4> QED BY <4>2, <4>3
    <3>2. /\ k \in DOMAIN r.map <=> k \in DOMAIN m.map
          /\ k \in DOMAIN m.map => r.map[k] = m.map[k]
      BY <1>3, <2>4
    <3> QED BY <2>4, <3>1, <3>2, UndoneAt
  <2> QED BY <2>2, <2>3, <2>4
<1> QED BY <1>4, SameEntries DEF r

LEMMA PushedStack ==
  ASSUME NEW K, NEW S, NEW m, IsScopedMap(m, K, S)
  PROVE  /\ Len(Pushed(m).stack) = Len(m.stack) + 1
         /\ \A i \in 1 .. Len(m.stack) : Pushed(m).stack[i] = m.stack[i]
         /\ Pushed(m).stack[Len(m.stack) + 1] = Len(m.actions)
<1>1. Pushed(m).stack = Append(m.stack, Len(m.actions))
  BY DEF Pushed
<1>2. m.stack \in Seq(Nat) /\ Len(m.actions) \in Nat
  BY ScopedMapType
<1> QED BY <1>1, <1>2, AppendProperties

LEMMA PushedOK ==
  ASSUME NEW K, NEW S, NEW m, IsScopedMap(m, K, S)
  PROVE  IsScopedMap(Pushed(m), K, S)
<1> DEFINE r == Pushed(m)
<1>1. r = [map |-> m.map, actions |-> m.actions, stack |-> Append(m.stack, Len(m.actions))]
  BY DEF Pushed
<1>2. m.stack \in Seq(Nat) /\ Len(m.actions) \in Nat /\ Len(m.stack) \in Nat
  BY ScopedMapType
<1>3. /\ r.stack \in Seq(Nat) /\ Len(r.stack) = Len(m.stack) + 1
      /\ \A i \in 1 .. Len(m.stack) : r.stack[i] = m.stack[i]
      /\ r.stack[Len(m.stack) + 1] = Len(m.actions)
  BY <1>1, <1>2, AppendProperties
<1>4. \A i \in 1 .. Len(m.stack) :
        /\ m.stack[i] \in Nat /\ m.stack[i] <= Len(m.actions)
        /\ \A j \in 1 .. Len(m.stack) : i <= j => m.stack[i] <= m.stack[j]
  BY ScopedMapType DEF IsScopedMap
<1>5. DOMAIN r.stack = 1 .. Len(m.stack) + 1
  BY <1>3, LenProperties
<1>6. r.map = m.map /\ r.actions = m.actions
  BY <1>1
<1> HIDE DEF r
<1>7. \A i \in DOMAIN r.stack :
        /\ r.stack[i] <= Len(r.actions)
        /\ \A j \in DOMAIN r.stack : i <= j => r.stack[i] <= r.stack[j]
  <2> SUFFICES ASSUME NEW i \in DOMAIN r.stack, NEW j \in DOMAIN r.stack
               PROVE  r.stack[i] <= Len(r.actions) /\ (i <= j => r.stack[i] <= r.stack[j])
    BY <1>5
  <2>1. CASE i = Len(m.stack) + 1
    BY <1>2, <1>3, <1>5, <1>6, <2>1
  <2>2. CASE i \in 1 .. Len(m.stack) /\ j \in 1 .. Len(m.stack)
    BY <1>2, <1>3, <1>4, <1>6, <2>2
  <2>3. CASE i \in 1 .. Len(m.stack) /\ j = Len(m.stack) + 1
    BY <1>2, <1>3, <1>4, <1>6, <2>3
  <2> QED BY <1>2, <1>5, <2>1, <2>2, <2>3
<1>8. IsScopedMap(r, K, S)
  BY <1>1, <1>3, <1>6, <1>7 DEF IsScopedMap
<1> QED BY <1>8 DEF r

LEMMA UndoneOfPushed ==
  ASSUME NEW m, NEW n
  PROVE  Undone(Pushed(m), n) = Undone(m, n)
<1>1. Pushed(m).map = m.map /\ Pushed(m).actions = m.actions
  BY DEF Pushed
<1>2. \A k : Changes(Pushed(m), n, k) = Changes(m, n, k)
  BY <1>1 DEF Changes
<1>3. ASSUME NEW k PROVE Oldest(Pushed(m), n, k) = Oldest(m, n, k)
  <2>1. Changes(Pushed(m), n, k) = Changes(m, n, k)
    BY <1>2
  <2> QED BY <1>1, <2>1 DEF Oldest
<1> QED BY <1>1, <1>3 DEF Undone

LEMMA UndoneType ==
  ASSUME NEW K, NEW S, NEW m, IsScopedMap(m, K, S), NEW n \in Nat
  PROVE  Undone(m, n) \in [DOMAIN Undone(m, n) -> S] /\ DOMAIN Undone(m, n) \subseteq K
<1>1. ASSUME NEW k \in DOMAIN Undone(m, n) PROVE k \in K /\ Undone(m, n)[k] \in S
  <2>1. CASE Changes(m, n, k) = {}
    <3>1. k \in DOMAIN m.map /\ Undone(m, n)[k] = m.map[k]
      BY <1>1, <2>1, UndoneAt
    <3> QED BY <3>1, ScopedMapType DEF IsScopedMap
  <2>2. CASE Changes(m, n, k) # {}
    <3>1. PICK i \in Changes(m, n, k) : Oldest(m, n, k) = m.actions[i]
      BY <2>2, ScopedMapType, OldestExists
    <3>2. i \in 1 .. Len(m.actions) /\ m.actions[i].key = k
      BY ScopedMapType DEF Changes
    <3>3. m.actions[i] \in Action(K, S)
      BY <3>2, ScopedMapType
    <3>4. Undone(m, n)[k] = m.actions[i].value
      BY <1>1, <2>2, <3>1, UndoneAt
    <3> QED BY <3>2, <3>3, <3>4 DEF Action
  <2> QED BY <2>1, <2>2
<1>2. Undone(m, n) = [x \in DOMAIN Undone(m, n) |-> Undone(m, n)[x]]
  BY UndoneAt
<1> QED BY <1>1, <1>2

LEMMA ScopeStart ==
  ASSUME NEW K, NEW S, NEW m, IsScopedMap(m, K, S), Len(m.stack) > 0
  PROVE  /\ m.stack \in Seq(Nat) /\ m.stack # << >>
         /\ Len(m.stack) \in Nat \ {0} /\ Len(m.actions) \in Nat
         /\ Last(m.stack) = m.stack[Len(m.stack)]
         /\ m.stack[Len(m.stack)] \in Nat /\ m.stack[Len(m.stack)] <= Len(m.actions)
<1>1. m.stack \in Seq(Nat) /\ Len(m.stack) \in Nat /\ Len(m.actions) \in Nat
  BY ScopedMapType
<1>2. m.stack # << >>
  BY EmptySeq
<1>3. m.stack[Len(m.stack)] \in Nat /\ m.stack[Len(m.stack)] <= Len(m.actions)
  <2>1. \A i \in 1 .. Len(m.stack) : m.stack[i] \in Nat /\ m.stack[i] <= Len(m.actions)
    BY ScopedMapType
  <2> QED BY <1>1, <2>1
<1> QED BY <1>1, <1>2, <1>3 DEF Last

LEMMA PoppedMap ==
  ASSUME NEW K, NEW S, NEW m, IsScopedMap(m, K, S), Len(m.stack) > 0
  PROVE  Popped(m).map = Undone(m, m.stack[Len(m.stack)])
BY ScopeStart DEF Popped

LEMMA PoppedStack ==
  ASSUME NEW K, NEW S, NEW m, IsScopedMap(m, K, S), Len(m.stack) > 0
  PROVE  /\ Popped(m).stack \in Seq(Nat) /\ Len(Popped(m).stack) = Len(m.stack) - 1
         /\ \A i \in 1 .. Len(m.stack) - 1 : Popped(m).stack[i] = m.stack[i]
<1> DEFINE st == m.stack
<1>1. Popped(m).stack = Front(st)
  BY DEF Popped
<1>2. st \in Seq(Nat) /\ st # << >>
  BY ScopeStart
<1> HIDE DEF st
<1>3. /\ Front(st) \in Seq(Nat) /\ Len(Front(st)) = Len(st) - 1
      /\ \A i \in 1 .. Len(st) - 1 : Front(st)[i] = st[i]
  BY <1>2, FrontLast
<1> QED BY <1>1, <1>3 DEF st

LEMMA PoppedActions ==
  ASSUME NEW K, NEW S, NEW m, IsScopedMap(m, K, S), Len(m.stack) > 0
  PROVE  /\ Popped(m).actions \in Seq(Action(K, S))
         /\ Len(Popped(m).actions) = m.stack[Len(m.stack)]
         /\ \A i \in 1 .. m.stack[Len(m.stack)] : Popped(m).actions[i] = m.actions[i]
<1> DEFINE kept == m.stack[Len(m.stack)]
           l == m.actions
<1>1. kept \in Nat /\ kept <= Len(l)
  BY ScopeStart
<1>2. Popped(m).actions = SubSeq(l, 1, kept)
  BY ScopeStart DEF Popped
<1>3. Len(l) \in Nat /\ \A i \in 1 .. Len(l) : l[i] \in Action(K, S)
  BY ScopedMapType
<1> HIDE DEF kept, l
<1>4. \A i \in 1 .. kept : l[i] \in Action(K, S)
  BY <1>1, <1>3
<1>5. /\ SubSeq(l, 1, kept) \in Seq(Action(K, S)) /\ Len(SubSeq(l, 1, kept)) = kept
      /\ \A i \in 1 .. kept : SubSeq(l, 1, kept)[i] = l[i]
  BY <1>1, <1>4, PrefixOf
<1> QED BY <1>2, <1>5 DEF kept, l

LEMMA PoppedOK ==
  ASSUME NEW K, NEW S, NEW m, IsScopedMap(m, K, S), Len(m.stack) > 0
  PROVE  IsScopedMap(Popped(m), K, S)
<1> DEFINE r == Popped(m)
           kept == m.stack[Len(m.stack)]
<1>1. Len(m.stack) \in Nat \ {0} /\ Len(m.stack) \in 1 .. Len(m.stack)
  BY ScopeStart
<1>2. kept \in Nat /\ kept <= Len(m.actions)
  BY ScopeStart
<1>3. r.map = Undone(m, kept) /\ r = [map |-> r.map, actions |-> r.actions, stack |-> r.stack]
  BY PoppedMap DEF Popped
<1>5. r.actions \in Seq(Action(K, S)) /\ Len(r.actions) = kept
  BY PoppedActions
<1>6. /\ r.stack \in Seq(Nat) /\ Len(r.stack) = Len(m.stack) - 1
      /\ DOMAIN r.stack = 1 .. Len(m.stack) - 1
      /\ \A i \in 1 .. Len(m.stack) - 1 : r.stack[i] = m.stack[i]
  BY PoppedStack, LenProperties
<1> HIDE DEF r, kept
<1>7. r.map \in [DOMAIN r.map -> S] /\ DOMAIN r.map \subseteq K
  BY <1>2, <1>3, UndoneType
<1>8. \A i \in DOMAIN r.stack :
        /\ r.stack[i] <= Len(r.actions)
        /\ \A j \in DOMAIN r.stack : i <= j => r.stack[i] <= r.stack[j]
  <2>1. \A i, j \in 1 .. Len(m.stack) : i <= j => m.stack[i] <= m.stack[j]
    BY ScopedMapType DEF IsScopedMap
  <2>2. \A i \in 1 .. Len(m.stack) - 1 : m.stack[i] <= kept
    BY <1>1, <2>1 DEF kept
  <2> SUFFICES ASSUME NEW i \in 1 .. Len(m.stack) - 1, NEW j \in 1 .. Len(m.stack) - 1
               PROVE  r.stack[i] <= Len(r.actions) /\ (i <= j => r.stack[i] <= r.stack[j])
    BY <1>6
  <2>3. i \in 1 .. Len(m.stack) /\ j \in 1 .. Len(m.stack)
    BY <1>1
  <2> QED BY <1>5, <1>6, <2>1, <2>2, <2>3
<1>9. IsScopedMap(r, K, S)
  BY <1>3, <1>5, <1>6, <1>7, <1>8 DEF IsScopedMap, Action
<1> QED BY <1>9 DEF r

LEMMA UndoneOfPopped ==
  ASSUME NEW K, NEW S, NEW m, IsScopedMap(m, K, S), Len(m.stack) > 0,
         NEW n \in Nat, n <= m.stack[Len(m.stack)]
  PROVE  Undone(Popped(m), n) = Undone(m, n)
<1> DEFINE r == Popped(m)
           kept == m.stack[Len(m.stack)]
<1>1. Len(m.stack) \in 1 .. Len(m.stack) /\ Len(m.actions) \in Nat
  BY ScopedMapType
<1>2. kept \in Nat /\ kept <= Len(m.actions) /\ n <= kept
  BY ScopeStart
<1>3. r.map = Undone(m, kept)
  BY PoppedMap
<1>5. Len(r.actions) = kept /\ \A i \in 1 .. kept : r.actions[i] = m.actions[i]
  BY PoppedActions
<1> HIDE DEF r, kept
<1>6. ASSUME NEW k
       PROVE  /\ k \in DOMAIN Undone(r, n) <=> k \in DOMAIN Undone(m, n)
              /\ k \in DOMAIN Undone(r, n) => Undone(r, n)[k] = Undone(m, n)[k]
  <2>1. Changes(r, n, k) \subseteq Changes(m, n, k)
    BY <1>1, <1>2, <1>5 DEF Changes
  <2>2. CASE Changes(r, n, k) # {}
    <3>1. PICK i \in Changes(r, n, k) :
            /\ \A j \in Changes(r, n, k) : i <= j
            /\ Oldest(r, n, k) = r.actions[i]
      BY <1>2, <1>5, <2>2, OldestExists
    <3>2. i \in 1 .. kept /\ i \in Changes(m, n, k)
      BY <1>2, <1>5, <2>1, <3>1 DEF Changes
    <3>3. \A j \in Changes(m, n, k) : i <= j
      <4> SUFFICES ASSUME NEW j \in Changes(m, n, k), ~ (i <= j) PROVE FALSE
        OBVIOUS
      <4>1. j \in n + 1 .. kept /\ m.actions[j].key = k
        BY <1>1, <1>2, <3>2 DEF Changes
      <4>2. j \in Changes(r, n, k)
        BY <1>2, <1>5, <4>1 DEF Changes
      <4> QED BY <3>1, <4>2
    <3>4. Oldest(m, n, k) = m.actions[i] /\ r.actions[i] = m.actions[i]
      BY <1>1, <1>5, <3>2, <3>3, OldestIs
    <3> QED BY <2>1, <2>2, <3>1, <3>4, UndoneAt
  <2>3. CASE Changes(r, n, k) = {}
    <3>1. Changes(m, n, k) = Changes(m, kept, k)
      <4>1. \A j \in n + 1 .. kept : m.actions[j].key # k
        BY <1>2, <1>5, <2>3 DEF Changes
      <4> QED BY <1>1, <1>2, <4>1 DEF Changes
    <3>2. Oldest(m, n, k) = Oldest(m, kept, k)
      BY <3>1 DEF Oldest
    <3>3. /\ k \in DOMAIN Undone(m, n) <=> k \in DOMAIN Undone(m, kept)
          /\ k \in DOMAIN Undone(m, n) => Undone(m, n)[k] = Undone(m, kept)[k]
      BY <3>1, <3>2, UndoneAt
    <3> QED BY <1>3, <2>3, <3>3, UndoneAt
  <2> QED BY <2>2, <2>3
<1> QED BY <1>6, SameEntries DEF r

LEMMA ScopedMapMonotone ==
  ASSUME NEW K, NEW S, NEW T, S \subseteq T, NEW m, IsScopedMap(m, K, S)
  PROVE  IsScopedMap(m, K, T)
<1>1. Action(K, S) \subseteq Action(K, T)
  BY DEF Action
<1>2. m.actions \in Seq(Action(K, S))
  BY ScopedMapType
<1>3. m.actions \in Seq(Action(K, T))
  BY <1>1, <1>2, SeqMonotonic
<1>4. m.map \in [DOMAIN m.map -> T]
  BY DEF IsScopedMap
<1> QED BY <1>3, <1>4 DEF IsScopedMap, Action

-----------------------------------------------------------------------------
(* What formulas mean, with the Variables vs.                              *)

Kinds == {"model", "parameter", "quantified", "local"}
Variable == [kind : Kinds, means : Formula]
OfKind(vs, kind) == {i \in DOMAIN vs : vs[i].kind = kind}

\* The Variables of let, and those that are not made yet: the script cannot
\* speak of them.
Free(vs) == {i \in Id : i \in DOMAIN vs => vs[i].kind = "local"}

\* The formulas that do not depend on a free Variable.
ClosedIn(vs) == {f \in Formula :
                   \A a, b \in Valuation : a \ Free(vs) = b \ Free(vs) => (a \in f <=> b \in f)}

\* The valuations that give the Variables of let the values of their terms.
Consistent(vs) == {a \in Valuation : \A i \in OfKind(vs, "local") : i \in a <=> a \in vs[i].means}

IsOpen(vs) ==
  \E d \in OfKind(vs, "local"), i \in OfKind(vs, "parameter") \cup OfKind(vs, "quantified") :
    DependsOn(vs[d].means, i)

\* Terms for which the code has built a formula with the right meaning.
Term(vs) == {t \in [code : Formula, means : Formula] :
               /\ t.means \in ClosedIn(vs)
               /\ ~IsOpen(vs) => \A a \in Consistent(vs) : a \in t.code <=> a \in t.means}

Definition(vs) == {d \in [parameter : Id, code : Formula, means : Formula] :
                     /\ d.parameter \in OfKind(vs, "parameter")
                     /\ [code |-> d.code, means |-> d.means] \in Term(vs)}

BindingList(vs) == {bs \in Seq([name : Name, term : Term(vs)]) :
                      \A i, j \in DOMAIN bs : bs[i].name = bs[j].name => i = j}

Environment == UNION {[names -> Formula] : names \in SUBSET Name}

Construct(vs) ==
       [kind : {"bindings"}, bindings : BindingList(vs), env : Environment]
  \cup [kind : {"let"}, env : Environment]
  \cup [kind : {"forall"}, id : OfKind(vs, "quantified"), env : Environment]
  \cup [kind : {"define"}, func : Func, parameter : OfKind(vs, "parameter"), env : Environment]
  \cup [kind : {"constant"}, name : Name, env : Environment]

VariablesOK(vs) ==
  /\ vs \in Seq(Variable) /\ Len(vs) <= MaxVars
  /\ \A i \in DOMAIN vs : /\ vs[i].means \in ClosedIn(vs)
                          /\ vs[i].kind # "local" => vs[i].means = Atom(i)

\* Variables are only added.
Extends(ws, vs) == DOMAIN vs \subseteq DOMAIN ws /\ \A i \in DOMAIN vs : ws[i] = vs[i]

LEMMA VariablesType ==
  ASSUME NEW vs, VariablesOK(vs)
  PROVE  /\ Len(vs) \in Nat /\ DOMAIN vs = 1 .. Len(vs) /\ DOMAIN vs \subseteq Id
         /\ \A i \in DOMAIN vs : vs[i] \in Variable
<1>1. vs \in Seq(Variable) /\ Len(vs) <= MaxVars
  BY DEF VariablesOK
<1>2. Len(vs) \in Nat /\ DOMAIN vs = 1 .. Len(vs) /\ \A i \in 1 .. Len(vs) : vs[i] \in Variable
  BY <1>1, LenProperties, ElementOfSeq
<1> QED BY <1>1, <1>2, BoundsAssumption DEF Id

\* What is well formed stays so when Variables are made.
LEMMA MonotoneMeaning ==
  ASSUME NEW vs, NEW ws, Extends(ws, vs)
  PROVE  /\ \A kind : OfKind(vs, kind) \subseteq OfKind(ws, kind)
         /\ Free(ws) \subseteq Free(vs)
         /\ ClosedIn(vs) \subseteq ClosedIn(ws)
         /\ Consistent(ws) \subseteq Consistent(vs)
         /\ IsOpen(vs) => IsOpen(ws)
         /\ Term(vs) \subseteq Term(ws)
         /\ Definition(vs) \subseteq Definition(ws)
<1>1. \A kind : OfKind(vs, kind) \subseteq OfKind(ws, kind)
  BY DEF OfKind, Extends
<1>2. Free(ws) \subseteq Free(vs)
  BY DEF Free, Extends
<1>3. ClosedIn(vs) \subseteq ClosedIn(ws)
  <2> SUFFICES ASSUME NEW f \in ClosedIn(vs), NEW a \in Valuation, NEW b \in Valuation,
                      a \ Free(ws) = b \ Free(ws)
               PROVE  a \in f <=> b \in f
    BY DEF ClosedIn
  <2>1. a \ Free(vs) = b \ Free(vs)
    BY <1>2
  <2> QED BY <2>1 DEF ClosedIn
<1>4. Consistent(ws) \subseteq Consistent(vs)
  BY DEF Consistent, OfKind, Extends
<1>5. IsOpen(vs) => IsOpen(ws)
  <2> SUFFICES ASSUME IsOpen(vs) PROVE IsOpen(ws)
    OBVIOUS
  <2>1. PICK d \in OfKind(vs, "local"), i \in OfKind(vs, "parameter") \cup OfKind(vs, "quantified") :
          DependsOn(vs[d].means, i)
    BY DEF IsOpen
  <2>2. d \in OfKind(ws, "local") /\ i \in OfKind(ws, "parameter") \cup OfKind(ws, "quantified")
    BY <1>1
  <2>3. ws[d] = vs[d]
    BY DEF OfKind, Extends
  <2> QED BY <2>1, <2>2, <2>3 DEF IsOpen
<1>6. Term(vs) \subseteq Term(ws)
  BY <1>3, <1>4, <1>5 DEF Term
<1>7. Definition(vs) \subseteq Definition(ws)
  BY <1>1, <1>6 DEF Definition
<1> QED BY <1>1, <1>2, <1>3, <1>4, <1>5, <1>6, <1>7

LEMMA MonotoneConstruct ==
  ASSUME NEW vs, NEW ws, Extends(ws, vs)
  PROVE  BindingList(vs) \subseteq BindingList(ws) /\ Construct(vs) \subseteq Construct(ws)
<1>1. Term(vs) \subseteq Term(ws) /\ \A kind : OfKind(vs, kind) \subseteq OfKind(ws, kind)
  BY MonotoneMeaning
<1>2. BindingList(vs) \subseteq BindingList(ws)
  <2> SUFFICES ASSUME NEW bs \in BindingList(vs)
               PROVE  bs \in Seq([name : Name, term : Term(ws)])
    BY DEF BindingList
  <2> DEFINE A == [name : Name, term : Term(vs)]
             B == [name : Name, term : Term(ws)]
  <2>1. A \subseteq B
    BY <1>1
  <2>2. bs \in Seq(A)
    BY DEF BindingList
  <2> HIDE DEF A, B
  <2>3. bs \in Seq(B)
    BY <2>1, <2>2, SeqMonotonic
  <2> QED BY <2>3 DEF B
<1>3. Construct(vs) \subseteq Construct(ws)
  BY <1>1, <1>2 DEF Construct
<1> QED BY <1>2, <1>3

LEMMA VariableAdded ==
  ASSUME NEW vs, VariablesOK(vs), Len(vs) + 1 <= MaxVars,
         NEW kind \in Kinds \ {"local"}
  PROVE  LET ws == Append(vs, [kind |-> kind, means |-> Atom(Len(vs) + 1)])
         IN  /\ VariablesOK(ws) /\ Extends(ws, vs) /\ Consistent(ws) = Consistent(vs)
             /\ Len(vs) + 1 \in OfKind(ws, kind)
             /\ ws[Len(vs) + 1].means = Atom(Len(vs) + 1)
             /\ Atom(Len(vs) + 1) \in ClosedIn(ws)
<1> DEFINE n == Len(vs) + 1
           v == [kind |-> kind, means |-> Atom(n)]
           ws == Append(vs, v)
<1>1. /\ vs \in Seq(Variable) /\ Len(vs) \in Nat /\ DOMAIN vs = 1 .. Len(vs)
      /\ DOMAIN vs \subseteq Id /\ n \in Id
  BY VariablesType, BoundsAssumption DEF VariablesOK, Id
<1>2. v \in Variable
  BY DEF Variable, Atom, Formula
<1> HIDE DEF n, v, ws
<1>3. /\ ws \in Seq(Variable) /\ Len(ws) = n /\ ws[n] = v
      /\ \A i \in 1 .. Len(vs) : ws[i] = vs[i]
  BY <1>1, <1>2, AppendProperties DEF ws, n
<1>4. DOMAIN ws = DOMAIN vs \cup {n} /\ n \notin DOMAIN vs
  BY <1>1, <1>3, LenProperties DEF n
<1>5. Extends(ws, vs)
  BY <1>1, <1>3, <1>4 DEF Extends
<1>6. ws[n].kind = kind /\ ws[n].means = Atom(n) /\ n \in OfKind(ws, kind)
  BY <1>3, <1>4 DEF v, OfKind
<1>7. n \notin Free(ws)
  BY <1>4, <1>6 DEF Free
<1>8. Atom(n) \in ClosedIn(ws)
  <2>1. Atom(n) \in Formula
    BY DEF Atom, Formula
  <2>2. ASSUME NEW a \in Valuation, NEW b \in Valuation, a \ Free(ws) = b \ Free(ws)
        PROVE  a \in Atom(n) <=> b \in Atom(n)
    BY <1>7, <2>2 DEF Atom
  <2> QED BY <2>1, <2>2 DEF ClosedIn
<1>9. OfKind(ws, "local") = OfKind(vs, "local")
  BY <1>1, <1>3, <1>4, <1>6 DEF OfKind
<1>10. Consistent(ws) = Consistent(vs)
  BY <1>1, <1>3, <1>9 DEF Consistent, OfKind
<1>11. ClosedIn(vs) \subseteq ClosedIn(ws)
  BY <1>5, MonotoneMeaning
<1>12. VariablesOK(ws)
  <2>1. Len(ws) <= MaxVars
    BY <1>3 DEF n
  <2>2. ASSUME NEW i \in DOMAIN ws
        PROVE  ws[i].means \in ClosedIn(ws) /\ (ws[i].kind # "local" => ws[i].means = Atom(i))
    <3>1. CASE i = n
      BY <1>6, <1>8, <3>1
    <3>2. CASE i \in DOMAIN vs
      BY <1>1, <1>3, <1>11, <3>2 DEF VariablesOK
    <3> QED BY <1>4, <3>1, <3>2
  <2> QED BY <1>3, <2>1, <2>2 DEF VariablesOK
<1> QED BY <1>5, <1>6, <1>8, <1>10, <1>12 DEF n, ws, v

LEMMA LocalsAdded ==
  ASSUME NEW vs, VariablesOK(vs), NEW fs \in Seq(ClosedIn(vs)), Len(vs) + Len(fs) <= MaxVars
  PROVE  LET ws == vs \o [i \in DOMAIN fs |-> [kind |-> "local", means |-> fs[i]]]
         IN  /\ VariablesOK(ws) /\ Extends(ws, vs)
             /\ Consistent(ws) = {a \in Consistent(vs) :
                                    \A i \in DOMAIN fs : Len(vs) + i \in a <=> a \in fs[i]}
             /\ \A i \in DOMAIN fs : /\ Len(vs) + i \in DOMAIN ws
                                    /\ ws[Len(vs) + i].means = fs[i]
<1> DEFINE new == [i \in DOMAIN fs |-> [kind |-> "local", means |-> fs[i]]]
           ws == vs \o new
<1>1. /\ vs \in Seq(Variable) /\ Len(vs) \in Nat /\ DOMAIN vs = 1 .. Len(vs)
      /\ DOMAIN vs \subseteq Id
  BY VariablesType DEF VariablesOK
<1>2. /\ Len(fs) \in Nat /\ DOMAIN fs = 1 .. Len(fs)
      /\ \A i \in 1 .. Len(fs) : fs[i] \in ClosedIn(vs) /\ fs[i] \in Formula
  BY LenProperties, ElementOfSeq DEF ClosedIn
<1>3. \A i \in 1 .. Len(fs) : [kind |-> "local", means |-> fs[i]] \in Variable
  BY <1>2 DEF Variable, Kinds
<1>4. new \in [1 .. Len(fs) -> Variable]
  BY <1>2, <1>3
<1>5. new \in Seq(Variable) /\ Len(new) = Len(fs)
  BY <1>2, <1>4, FunctionIsSeq
<1>6. \A i \in 1 .. Len(fs) : new[i].kind = "local" /\ new[i].means = fs[i]
  BY <1>2
<1> HIDE DEF new, ws
<1>7. /\ ws \in Seq(Variable) /\ Len(ws) = Len(vs) + Len(fs)
      /\ \A i \in 1 .. Len(vs) + Len(fs) :
           ws[i] = IF i <= Len(vs) THEN vs[i] ELSE new[i - Len(vs)]
  <2>1. /\ vs \o new \in Seq(Variable) /\ Len(vs \o new) = Len(vs) + Len(new)
        /\ \A i \in 1 .. Len(vs) + Len(new) :
             (vs \o new)[i] = IF i <= Len(vs) THEN vs[i] ELSE new[i - Len(vs)]
    BY <1>1, <1>5, ConcatProperties
  <2> QED BY <1>5, <2>1 DEF ws
<1>8. DOMAIN ws = 1 .. Len(vs) + Len(fs) /\ \A i \in 1 .. Len(vs) : ws[i] = vs[i]
  BY <1>1, <1>2, <1>7, LenProperties
<1>9. ASSUME NEW i \in 1 .. Len(fs)
      PROVE  /\ Len(vs) + i \in DOMAIN ws /\ Len(vs) + i \notin DOMAIN vs
             /\ ws[Len(vs) + i].kind = "local" /\ ws[Len(vs) + i].means = fs[i]
  <2> DEFINE at == Len(vs) + i
  <2>1. at \in 1 .. Len(vs) + Len(fs) /\ ~ (at <= Len(vs)) /\ at - Len(vs) = i
    BY <1>1, <1>2
  <2> HIDE DEF at
  <2>2. ws[at] = new[at - Len(vs)]
    BY <1>7, <2>1
  <2>3. at \in DOMAIN ws /\ at \notin DOMAIN vs
    BY <1>1, <1>8, <2>1
  <2> QED BY <1>6, <2>1, <2>2, <2>3 DEF at
<1>10. ASSUME NEW j \in DOMAIN ws, j \notin DOMAIN vs
       PROVE  \E i \in 1 .. Len(fs) : j = Len(vs) + i
  <2>1. j - Len(vs) \in 1 .. Len(fs) /\ j = Len(vs) + (j - Len(vs))
    BY <1>1, <1>2, <1>8, <1>10
  <2> QED BY <2>1
<1>11. Extends(ws, vs)
  BY <1>1, <1>2, <1>8 DEF Extends
<1>12. ClosedIn(vs) \subseteq ClosedIn(ws)
  BY <1>11, MonotoneMeaning
<1>13. ASSUME NEW j \in DOMAIN ws
       PROVE  ws[j].means \in ClosedIn(ws) /\ (ws[j].kind # "local" => ws[j].means = Atom(j))
  <2>1. CASE j \in DOMAIN vs
    BY <1>1, <1>8, <1>12, <2>1 DEF VariablesOK
  <2>2. CASE j \notin DOMAIN vs
    BY <1>2, <1>9, <1>10, <1>12, <2>2
  <2> QED BY <2>1, <2>2
<1>14. VariablesOK(ws)
  BY <1>7, <1>13 DEF VariablesOK
<1>15. Consistent(ws) = {a \in Consistent(vs) : \A i \in DOMAIN fs : Len(vs) + i \in a <=> a \in fs[i]}
  <2>1. ASSUME NEW a \in Consistent(ws)
        PROVE  /\ a \in Consistent(vs)
               /\ \A i \in DOMAIN fs : Len(vs) + i \in a <=> a \in fs[i]
    <3>1. a \in Consistent(vs)
      BY <1>11, MonotoneMeaning
    <3>2. ASSUME NEW i \in 1 .. Len(fs) PROVE Len(vs) + i \in a <=> a \in fs[i]
      BY <1>9 DEF Consistent, OfKind
    <3> QED BY <1>2, <3>1, <3>2
  <2>2. ASSUME NEW a \in Consistent(vs),
               \A i \in DOMAIN fs : Len(vs) + i \in a <=> a \in fs[i]
        PROVE  a \in Consistent(ws)
    <3>1. ASSUME NEW j \in OfKind(ws, "local") PROVE j \in a <=> a \in ws[j].means
      <4>1. CASE j \in DOMAIN vs
        <5>1. ws[j] = vs[j] /\ j \in OfKind(vs, "local")
          BY <1>1, <1>8, <4>1 DEF OfKind
        <5> QED BY <5>1 DEF Consistent
      <4>2. CASE j \notin DOMAIN vs
        <5>1. PICK i \in 1 .. Len(fs) : j = Len(vs) + i
          BY <1>10, <4>2 DEF OfKind
        <5> QED BY <1>2, <1>9, <2>2, <5>1
      <4> QED BY <4>1, <4>2
    <3> QED BY <3>1 DEF Consistent
  <2> QED BY <2>1, <2>2
<1> QED BY <1>2, <1>9, <1>11, <1>14, <1>15 DEF ws, new

-----------------------------------------------------------------------------
(* Every term the parser completes is right, if the terms it is made of    *)
(* are.                                                                    *)

LEMMA IndependentOf ==
  ASSUME NEW f, NEW i \in Id, ~DependsOn(f, i), NEW a \in Valuation
  PROVE  (a \cup {i} \in f <=> a \in f) /\ (a \ {i} \in f <=> a \in f)
<1>1. \A b \in f : b \cup {i} \in f <=> b \ {i} \in f
  BY DEF DependsOn
<1>2. a \cup {i} \in f => a \ {i} \in f
  <2>1. (a \cup {i}) \cup {i} = a \cup {i} /\ (a \cup {i}) \ {i} = a \ {i}
    OBVIOUS
  <2> QED BY <1>1, <2>1
<1>3. a \ {i} \in f => a \cup {i} \in f
  <2>1. (a \ {i}) \cup {i} = a \cup {i} /\ (a \ {i}) \ {i} = a \ {i}
    OBVIOUS
  <2> QED BY <1>1, <2>1
<1>4. a = a \cup {i} \/ a = a \ {i}
  OBVIOUS
<1> QED BY <1>2, <1>3, <1>4

\* A parameter or a quantified Variable can be set either way.
LEMMA FlippedIsConsistent ==
  ASSUME NEW vs, VariablesOK(vs), ~IsOpen(vs), NEW a \in Consistent(vs),
         NEW i \in OfKind(vs, "parameter") \cup OfKind(vs, "quantified")
  PROVE  a \cup {i} \in Consistent(vs) /\ a \ {i} \in Consistent(vs)
<1>1. i \in Id /\ a \in Valuation
  BY VariablesType DEF OfKind, Consistent
<1>2. a \cup {i} \in Valuation /\ a \ {i} \in Valuation
  BY <1>1 DEF Valuation
<1>3. ASSUME NEW d \in OfKind(vs, "local")
      PROVE  /\ d # i
             /\ d \in a <=> a \in vs[d].means
             /\ a \cup {i} \in vs[d].means <=> a \in vs[d].means
             /\ a \ {i} \in vs[d].means <=> a \in vs[d].means
  <2>1. d # i
    BY DEF OfKind
  <2>2. ~DependsOn(vs[d].means, i)
    BY DEF IsOpen
  <2> QED BY <1>1, <2>1, <2>2, IndependentOf DEF Consistent
<1> QED BY <1>2, <1>3 DEF Consistent

LEMMA FalseTerm ==
  ASSUME NEW vs
  PROVE  [code |-> {}, means |-> {}] \in Term(vs)
<1>1. {} \in ClosedIn(vs) /\ {} \in Formula
  BY DEF ClosedIn, Formula
<1> QED BY <1>1 DEF Term

LEMMA SymbolTerm ==
  ASSUME NEW vs, VariablesOK(vs), NEW i \in DOMAIN vs
  PROVE  [code |-> Atom(i), means |-> vs[i].means] \in Term(vs)
<1>1. vs[i].means \in ClosedIn(vs) /\ vs[i].means \in Formula /\ Atom(i) \in Formula
  BY DEF VariablesOK, ClosedIn, Atom, Formula
<1>2. ASSUME NEW a \in Consistent(vs) PROVE a \in Atom(i) <=> a \in vs[i].means
  <2>1. CASE vs[i].kind = "local"
    BY <2>1 DEF Consistent, OfKind, Atom
  <2>2. CASE vs[i].kind # "local"
    BY <2>2 DEF VariablesOK
  <2> QED BY <2>1, <2>2
<1> QED BY <1>1, <1>2 DEF Term

LEMMA NotTerm ==
  ASSUME NEW vs, NEW t \in Term(vs)
  PROVE  [code |-> Valuation \ t.code, means |-> Valuation \ t.means] \in Term(vs)
<1>1. t.code \in Formula /\ t.means \in ClosedIn(vs)
  BY DEF Term
<1>2. Valuation \ t.code \in Formula /\ Valuation \ t.means \in Formula
  BY DEF Formula
<1>3. Valuation \ t.means \in ClosedIn(vs)
  BY <1>1, <1>2 DEF ClosedIn
<1>4. ~IsOpen(vs) => \A a \in Consistent(vs) : a \in Valuation \ t.code <=> a \in Valuation \ t.means
  BY DEF Term, Consistent
<1> QED BY <1>2, <1>3, <1>4 DEF Term

LEMMA SubstitutedIsClosed ==
  ASSUME NEW vs, NEW f \in ClosedIn(vs), NEW g \in ClosedIn(vs), NEW i \in Id
  PROVE  Substituted(f, i, g) \in ClosedIn(vs)
<1>1. Substituted(f, i, g) \in Formula
  BY DEF Substituted, Formula
<1>2. ASSUME NEW a \in Valuation, NEW b \in Valuation, a \ Free(vs) = b \ Free(vs)
      PROVE  a \in Substituted(f, i, g) <=> b \in Substituted(f, i, g)
  <2>1. a \in g <=> b \in g
    BY <1>2 DEF ClosedIn
  <2>2. /\ a \cup {i} \in Valuation /\ b \cup {i} \in Valuation
        /\ a \ {i} \in Valuation /\ b \ {i} \in Valuation
    BY DEF Valuation
  <2>3. /\ (a \cup {i}) \ Free(vs) = (b \cup {i}) \ Free(vs)
        /\ (a \ {i}) \ Free(vs) = (b \ {i}) \ Free(vs)
    BY <1>2
  <2>4. (a \cup {i} \in f <=> b \cup {i} \in f) /\ (a \ {i} \in f <=> b \ {i} \in f)
    BY <2>2, <2>3 DEF ClosedIn
  <2> QED BY <2>1, <2>4 DEF Substituted
<1> QED BY <1>1, <1>2 DEF ClosedIn

LEMMA CallTerm ==
  ASSUME NEW vs, VariablesOK(vs), NEW d \in Definition(vs), NEW t \in Term(vs)
  PROVE  [code  |-> Substituted(d.code, d.parameter, t.code),
          means |-> Substituted(d.means, d.parameter, t.means)] \in Term(vs)
<1> DEFINE p == d.parameter
<1>1. /\ p \in Id /\ p \in OfKind(vs, "parameter")
      /\ d.code \in Formula /\ d.means \in ClosedIn(vs)
      /\ t.code \in Formula /\ t.means \in ClosedIn(vs)
  BY DEF Definition, Term
<1>2. Substituted(d.means, p, t.means) \in ClosedIn(vs)
  BY <1>1, SubstitutedIsClosed
<1>3. Substituted(d.code, p, t.code) \in Formula /\ Substituted(d.means, p, t.means) \in Formula
  BY DEF Substituted, Formula
<1>4. ASSUME ~IsOpen(vs), NEW a \in Consistent(vs)
      PROVE  a \in Substituted(d.code, p, t.code) <=> a \in Substituted(d.means, p, t.means)
  <2>1. a \cup {p} \in Consistent(vs) /\ a \ {p} \in Consistent(vs)
    BY <1>1, <1>4, FlippedIsConsistent
  <2>2. a \in t.code <=> a \in t.means
    BY <1>4 DEF Term
  <2>3. \A b \in Consistent(vs) : b \in d.code <=> b \in d.means
    BY <1>4 DEF Definition, Term
  <2>4. a \in Valuation
    BY DEF Consistent
  <2> QED BY <2>1, <2>2, <2>3, <2>4 DEF Substituted
<1> QED BY <1>2, <1>3, <1>4 DEF Term

LEMMA ForallTerm ==
  ASSUME NEW vs, VariablesOK(vs), NEW b \in OfKind(vs, "quantified"), NEW t \in Term(vs)
  PROVE  [code  |-> EliminateBooleanVariable(t.code, b),
          means |-> {a \in Valuation : a \cup {b} \in t.means /\ a \ {b} \in t.means}] \in Term(vs)
<1> DEFINE both(f) == {a \in Valuation : a \cup {b} \in f /\ a \ {b} \in f}
<1>1. b \in Id /\ t.code \in Formula /\ t.means \in ClosedIn(vs)
  BY VariablesType DEF Term, OfKind
<1>2. EliminateBooleanVariable(t.code, b) = both(t.code)
  BY DEF EliminateBooleanVariable, Substituted
<1>3. both(t.code) \in Formula /\ both(t.means) \in Formula
  BY DEF Formula
<1>4. both(t.means) \in ClosedIn(vs)
  <2>1. ASSUME NEW a \in Valuation, NEW c \in Valuation, a \ Free(vs) = c \ Free(vs)
        PROVE  a \in both(t.means) <=> c \in both(t.means)
    <3>1. /\ a \cup {b} \in Valuation /\ c \cup {b} \in Valuation
          /\ a \ {b} \in Valuation /\ c \ {b} \in Valuation
      BY <1>1 DEF Valuation
    <3>2. /\ (a \cup {b}) \ Free(vs) = (c \cup {b}) \ Free(vs)
          /\ (a \ {b}) \ Free(vs) = (c \ {b}) \ Free(vs)
      BY <2>1
    <3>3. /\ a \cup {b} \in t.means <=> c \cup {b} \in t.means
          /\ a \ {b} \in t.means <=> c \ {b} \in t.means
      BY <1>1, <3>1, <3>2 DEF ClosedIn
    <3> QED BY <3>3
  <2> QED BY <1>3, <2>1 DEF ClosedIn
<1>5. ASSUME ~IsOpen(vs), NEW a \in Consistent(vs)
      PROVE  a \in both(t.code) <=> a \in both(t.means)
  <2>1. a \cup {b} \in Consistent(vs) /\ a \ {b} \in Consistent(vs)
    BY <1>5, FlippedIsConsistent
  <2> QED BY <1>5, <2>1 DEF Term
<1> QED BY <1>2, <1>3, <1>4, <1>5 DEF Term

-----------------------------------------------------------------------------
(* Scopes.                                                                 *)

\* The names resolve, in map, to Variables that mean what e says.
Resolves(vs, map, e) ==
  /\ DOMAIN map = DOMAIN e
  /\ \A n \in DOMAIN map : map[n] \in DOMAIN vs /\ vs[map[n]].means = e[n]

Known(vs) == DOMAIN vs

\* So they do now, and so they will at the end of every scope.
Lexical(vs, s, e, cs) ==
  /\ Resolves(vs, s.map, e)
  /\ Len(s.stack) = Len(cs)
  /\ \A i \in 1 .. Len(cs) : Resolves(vs, Undone(s, s.stack[i]), cs[i].env)

LEMMA MonotoneLexical ==
  ASSUME NEW vs, NEW ws, Extends(ws, vs), NEW s, NEW e, NEW cs
  PROVE  /\ Resolves(vs, s.map, e) => Resolves(ws, s.map, e)
         /\ Lexical(vs, s, e, cs) => Lexical(ws, s, e, cs)
BY DEF Extends, Resolves, Lexical

LEMMA PushedIsLexical ==
  ASSUME NEW K, NEW S, NEW s, IsScopedMap(s, K, S), NEW vs, NEW e,
         NEW C, NEW cs \in Seq(C), NEW c \in C, c.env = e, Lexical(vs, s, e, cs)
  PROVE  Lexical(vs, Pushed(s), e, Append(cs, c))
<1> DEFINE r == Pushed(s)
           ds == Append(cs, c)
<1>1. /\ Len(r.stack) = Len(s.stack) + 1 /\ r.stack[Len(s.stack) + 1] = Len(s.actions)
      /\ \A i \in 1 .. Len(s.stack) : r.stack[i] = s.stack[i]
      /\ \A n : Undone(r, n) = Undone(s, n)
      /\ r.map = s.map
  <2>1. r.map = s.map
    BY DEF Pushed
  <2>2. /\ Len(r.stack) = Len(s.stack) + 1 /\ r.stack[Len(s.stack) + 1] = Len(s.actions)
        /\ \A i \in 1 .. Len(s.stack) : r.stack[i] = s.stack[i]
    BY PushedStack
  <2>3. \A n : Undone(r, n) = Undone(s, n)
    BY UndoneOfPushed
  <2> QED BY <2>1, <2>2, <2>3
<1>2. /\ Len(cs) \in Nat /\ Len(ds) = Len(cs) + 1 /\ ds[Len(cs) + 1] = c
      /\ \A i \in 1 .. Len(cs) : ds[i] = cs[i]
  BY AppendProperties, LenProperties
<1>3. Undone(s, Len(s.actions)) = s.map
  <2>1. Len(s.actions) \in Nat /\ s.map = [x \in DOMAIN s.map |-> s.map[x]]
    BY ScopedMapType
  <2> QED BY <2>1, UndoneNothing
<1> HIDE DEF r, ds
<1>4. ASSUME NEW i \in 1 .. Len(ds) PROVE Resolves(vs, Undone(r, r.stack[i]), ds[i].env)
  <2>1. CASE i \in 1 .. Len(cs)
    BY <1>1, <1>2, <2>1 DEF Lexical
  <2>2. CASE i = Len(cs) + 1
    BY <1>1, <1>2, <1>3, <2>2 DEF Lexical
  <2> QED BY <1>2, <2>1, <2>2
<1> QED BY <1>1, <1>2, <1>4 DEF Lexical, r, ds

LEMMA InsertedIsLexical ==
  ASSUME NEW vs, NEW s, IsScopedMap(s, Name, Known(vs)), NEW e, NEW cs, Lexical(vs, s, e, cs),
         NEW ns \in Seq(Name), NEW ids \in Seq(Known(vs)), Len(ids) = Len(ns),
         \A i, j \in DOMAIN ns : ns[i] = ns[j] => i = j,
         NEW fs, \A i \in DOMAIN ns : vs[ids[i]].means = fs[i]
  PROVE  Lexical(vs, InsertedEach(s, ns, ids), BoundEach(e, ns, fs), cs)
<1> DEFINE r == InsertedEach(s, ns, ids)
           d == BoundEach(e, ns, fs)
<1>1. DOMAIN ns = 1 .. Len(ns) /\ \A i \in 1 .. Len(ns) : ids[i] \in DOMAIN vs
  BY LenProperties, ElementOfSeq DEF Known
<1>2. Resolves(vs, r.map, d)
  <2>1. r.map = [x \in DOMAIN s.map \cup {ns[i] : i \in DOMAIN ns} |->
                   IF \E i \in DOMAIN ns : ns[i] = x
                   THEN ids[CHOOSE i \in DOMAIN ns : ns[i] = x] ELSE s.map[x]]
    BY DEF InsertedEach
  <2>2. d = [x \in DOMAIN e \cup {ns[i] : i \in DOMAIN ns} |->
               IF \E i \in DOMAIN ns : ns[i] = x
               THEN fs[CHOOSE i \in DOMAIN ns : ns[i] = x] ELSE e[x]]
    BY DEF BoundEach
  <2>3. Resolves(vs, s.map, e)
    BY DEF Lexical
  <2> HIDE DEF r, d
  <2>4. DOMAIN r.map = DOMAIN d
    BY <2>1, <2>2, <2>3 DEF Resolves
  <2>5. ASSUME NEW x \in DOMAIN r.map
        PROVE  r.map[x] \in DOMAIN vs /\ vs[r.map[x]].means = d[x]
    <3>1. CASE \E i \in DOMAIN ns : ns[i] = x
      <4> DEFINE i == CHOOSE i \in DOMAIN ns : ns[i] = x
      <4>1. i \in DOMAIN ns
        BY <3>1
      <4>2. r.map[x] = ids[i] /\ d[x] = fs[i]
        BY <2>1, <2>2, <3>1
      <4> HIDE DEF i
      <4> QED BY <1>1, <4>1, <4>2
    <3>2. CASE ~ \E i \in DOMAIN ns : ns[i] = x
      BY <2>1, <2>2, <2>3, <3>2 DEF Resolves
    <3> QED BY <3>1, <3>2
  <2> QED BY <2>4, <2>5 DEF Resolves
<1>3. r.stack = s.stack
  BY DEF InsertedEach
<1> HIDE DEF r, d
<1>4. ASSUME NEW i \in 1 .. Len(cs)
      PROVE  Undone(r, r.stack[i]) = Undone(s, s.stack[i])
  <2>1. s.stack[i] \in Nat /\ s.stack[i] <= Len(s.actions)
    <3>1. i \in 1 .. Len(s.stack)
      BY DEF Lexical
    <3> QED BY <3>1, ScopedMapType
  <2> QED BY <1>3, <2>1, UndoneOfInserted DEF r
<1> QED BY <1>2, <1>3, <1>4 DEF Lexical, r, d

LEMMA PoppedIsLexical ==
  ASSUME NEW K, NEW S, NEW s, IsScopedMap(s, K, S), NEW vs, NEW e,
         NEW C, NEW cs \in Seq(C), cs # << >>, Lexical(vs, s, e, cs)
  PROVE  Lexical(vs, Popped(s), Last(cs).env, Front(cs))
<1> DEFINE r == Popped(s)
<1>1. /\ Len(cs) \in Nat \ {0} /\ Last(cs) = cs[Len(cs)]
      /\ Len(Front(cs)) = Len(cs) - 1
      /\ \A i \in 1 .. Len(cs) - 1 : Front(cs)[i] = cs[i]
  BY FrontLast
<1>2. Len(s.stack) = Len(cs) /\ \A i \in 1 .. Len(cs) : Resolves(vs, Undone(s, s.stack[i]), cs[i].env)
  BY DEF Lexical
<1>3. /\ Len(r.stack) = Len(s.stack) - 1
      /\ \A i \in 1 .. Len(s.stack) - 1 : r.stack[i] = s.stack[i]
      /\ r.map = Undone(s, s.stack[Len(s.stack)])
      /\ \A n \in Nat : n <= s.stack[Len(s.stack)] => Undone(r, n) = Undone(s, n)
  <2>1. Len(s.stack) > 0
    BY <1>1, <1>2
  <2>2. ASSUME NEW n \in Nat, n <= s.stack[Len(s.stack)] PROVE Undone(r, n) = Undone(s, n)
    BY <2>1, <2>2, UndoneOfPopped
  <2> QED BY <2>1, <2>2, PoppedMap, PoppedStack
<1> HIDE DEF r
<1>4. Resolves(vs, r.map, Last(cs).env)
  BY <1>1, <1>2, <1>3
<1>5. ASSUME NEW i \in 1 .. Len(cs) - 1 PROVE Resolves(vs, Undone(r, r.stack[i]), Front(cs)[i].env)
  <2>1. i \in 1 .. Len(s.stack) /\ Len(s.stack) \in 1 .. Len(s.stack) /\ i <= Len(s.stack)
    BY <1>1, <1>2
  <2>2. s.stack[i] \in Nat /\ s.stack[i] <= s.stack[Len(s.stack)]
    <3>1. DOMAIN s.stack = 1 .. Len(s.stack) /\ s.stack[i] \in Nat
      BY <2>1, ScopedMapType
    <3> QED BY <2>1, <3>1 DEF IsScopedMap
  <2>3. Undone(r, r.stack[i]) = Undone(s, s.stack[i])
    BY <1>1, <1>2, <1>3, <2>2
  <2> QED BY <1>1, <1>2, <2>1, <2>3
<1> QED BY <1>1, <1>2, <1>3, <1>4, <1>5 DEF Lexical, r

-----------------------------------------------------------------------------
(* The parser's state, and what its steps make of it.                      *)

Complete(vs) == {<< >>} \cup {<<t>> : t \in Term(vs)}

Parsed(vs, s, f, e, cs) ==
  /\ IsScopedMap(s, Name, Known(vs)) /\ IsScopedMap(f, Func, Definition(vs))
  /\ cs \in Seq(Construct(vs)) /\ e \in Environment
  /\ Lexical(vs, s, e, cs) /\ Len(f.stack) = Len(cs)

\* The code's assertions against the script's.
Agree(vs, f, g) ==
  /\ f \in Formula /\ g \in ClosedIn(vs)
  /\ IsOpen(vs) \/ f = Consistent(vs) \cap g

LEMMA ParsedMonotone ==
  ASSUME NEW vs, NEW ws, Extends(ws, vs), NEW s, NEW f, NEW e, NEW cs, Parsed(vs, s, f, e, cs)
  PROVE  Parsed(ws, s, f, e, cs) /\ Complete(vs) \subseteq Complete(ws)
<1>1. Term(vs) \subseteq Term(ws) /\ Definition(vs) \subseteq Definition(ws)
  BY MonotoneMeaning
<1>2. IsScopedMap(f, Func, Definition(ws))
  BY <1>1, ScopedMapMonotone DEF Parsed
<1>3. Known(vs) \subseteq Known(ws)
  BY DEF Known, Extends
<1>4. IsScopedMap(s, Name, Known(ws))
  BY <1>3, ScopedMapMonotone DEF Parsed
<1>5. cs \in Seq(Construct(ws))
  <2>1. Construct(vs) \subseteq Construct(ws)
    BY MonotoneConstruct
  <2> QED BY <2>1, SeqMonotonic DEF Parsed
<1>6. Lexical(ws, s, e, cs)
  BY MonotoneLexical DEF Parsed
<1> QED BY <1>1, <1>2, <1>4, <1>5, <1>6 DEF Parsed, Complete

LEMMA ParsedEnter ==
  ASSUME NEW vs, NEW s, NEW f, NEW e, NEW cs, Parsed(vs, s, f, e, cs),
         NEW c \in Construct(vs), c.env = e
  PROVE  Parsed(vs, Pushed(s), Pushed(f), e, Append(cs, c))
<1>1. IsScopedMap(Pushed(s), Name, Known(vs)) /\ IsScopedMap(Pushed(f), Func, Definition(vs))
  BY PushedOK DEF Parsed
<1>2. Append(cs, c) \in Seq(Construct(vs)) /\ Len(Append(cs, c)) = Len(cs) + 1
  BY AppendProperties DEF Parsed
<1>3. Len(Pushed(f).stack) = Len(f.stack) + 1
  BY PushedStack DEF Parsed
<1>4. Lexical(vs, Pushed(s), e, Append(cs, c))
  BY PushedIsLexical DEF Parsed
<1> QED BY <1>1, <1>2, <1>3, <1>4 DEF Parsed

LEMMA ParsedLeave ==
  ASSUME NEW vs, NEW s, NEW f, NEW e, NEW cs, Parsed(vs, s, f, e, cs), cs # << >>
  PROVE  Parsed(vs, Popped(s), Popped(f), Last(cs).env, Front(cs))
<1>1. /\ Front(cs) \in Seq(Construct(vs)) /\ Len(Front(cs)) = Len(cs) - 1
      /\ Len(cs) \in Nat \ {0} /\ Last(cs) \in Construct(vs)
  BY FrontLast DEF Parsed
<1>2. Len(s.stack) > 0 /\ Len(f.stack) > 0
  BY <1>1 DEF Parsed, Lexical
<1>3. IsScopedMap(Popped(s), Name, Known(vs)) /\ IsScopedMap(Popped(f), Func, Definition(vs))
  BY <1>2, PoppedOK DEF Parsed
<1>4. Len(Popped(f).stack) = Len(f.stack) - 1
  BY <1>2, PoppedStack DEF Parsed
<1>5. Lexical(vs, Popped(s), Last(cs).env, Front(cs))
  BY PoppedIsLexical DEF Parsed
<1>6. Last(cs).env \in Environment
  BY <1>1 DEF Construct
<1> QED BY <1>1, <1>3, <1>4, <1>5, <1>6 DEF Parsed

LEMMA BoundEnvironment ==
  ASSUME NEW e \in Environment, NEW ns \in Seq(Name), NEW fs \in Seq(Formula), Len(fs) = Len(ns)
  PROVE  BoundEach(e, ns, fs) \in Environment
<1> DEFINE d == BoundEach(e, ns, fs)
           names == DOMAIN e \cup {ns[i] : i \in DOMAIN ns}
<1>1. e \in [DOMAIN e -> Formula] /\ DOMAIN e \subseteq Name
  BY DEF Environment
<1>2. DOMAIN ns = 1 .. Len(ns) /\ \A i \in DOMAIN ns : ns[i] \in Name /\ fs[i] \in Formula
  BY LenProperties, ElementOfSeq
<1>3. d = [x \in names |-> IF \E i \in DOMAIN ns : ns[i] = x
                           THEN fs[CHOOSE i \in DOMAIN ns : ns[i] = x] ELSE e[x]]
  BY DEF BoundEach
<1>4. names \subseteq Name
  BY <1>1, <1>2
<1>5. \A x \in names : ~ (\E i \in DOMAIN ns : ns[i] = x) => x \in DOMAIN e
  OBVIOUS
<1> HIDE DEF d, names
<1>6. ASSUME NEW x \in names PROVE d[x] \in Formula
  <2>1. CASE \E i \in DOMAIN ns : ns[i] = x
    <3> DEFINE i == CHOOSE i \in DOMAIN ns : ns[i] = x
    <3>1. i \in DOMAIN ns /\ d[x] = fs[i]
      BY <1>3, <2>1
    <3> HIDE DEF i
    <3> QED BY <1>2, <3>1
  <2>2. CASE ~ \E i \in DOMAIN ns : ns[i] = x
    BY <1>1, <1>3, <1>5, <2>2
  <2> QED BY <2>1, <2>2
<1>7. d \in [names -> Formula]
  BY <1>3, <1>6
<1> QED BY <1>4, <1>7 DEF Environment, d

LEMMA ParsedInsertEach ==
  ASSUME NEW vs, NEW s, NEW f, NEW e, NEW cs, Parsed(vs, s, f, e, cs),
         NEW ns \in Seq(Name), NEW ids \in Seq(Known(vs)), Len(ids) = Len(ns),
         \A i, j \in DOMAIN ns : ns[i] = ns[j] => i = j,
         NEW fs \in Seq(Formula), Len(fs) = Len(ns),
         \A i \in DOMAIN ns : vs[ids[i]].means = fs[i]
  PROVE  Parsed(vs, InsertedEach(s, ns, ids), f, BoundEach(e, ns, fs), cs)
<1>1. IsScopedMap(InsertedEach(s, ns, ids), Name, Known(vs))
  BY InsertedEachOK DEF Parsed
<1>2. Lexical(vs, InsertedEach(s, ns, ids), BoundEach(e, ns, fs), cs)
  BY InsertedIsLexical DEF Parsed
<1>3. BoundEach(e, ns, fs) \in Environment
  BY BoundEnvironment DEF Parsed
<1> QED BY <1>1, <1>2, <1>3 DEF Parsed

LEMMA ParsedInsert ==
  ASSUME NEW vs, NEW s, NEW f, NEW e, NEW cs, Parsed(vs, s, f, e, cs),
         NEW n \in Name, NEW i \in DOMAIN vs, vs[i].means \in Formula
  PROVE  Parsed(vs, Inserted(s, n, i), f, Bound(e, n, vs[i].means), cs)
<1> DEFINE ns == <<n>>  ids == <<i>>  fs == <<vs[i].means>>
<1>1. ns \in Seq(Name) /\ Len(ns) = 1 /\ DOMAIN ns = 1 .. 1 /\ ns[1] = n
  OBVIOUS
<1>2. ids \in Seq(Known(vs)) /\ Len(ids) = 1 /\ ids[1] = i
  BY DEF Known
<1>3. fs \in Seq(Formula) /\ Len(fs) = 1 /\ fs[1] = vs[i].means
  OBVIOUS
<1>4. Inserted(s, n, i) = InsertedEach(s, ns, ids)
  BY DEF Inserted
<1>5. Bound(e, n, vs[i].means) = BoundEach(e, ns, fs)
  BY DEF Bound
<1> HIDE DEF ns, ids, fs
<1>6. \A j, k \in DOMAIN ns : ns[j] = ns[k] => j = k
  BY <1>1
<1>7. \A j \in DOMAIN ns : vs[ids[j]].means = fs[j]
  BY <1>1, <1>2, <1>3
<1>8. Parsed(vs, InsertedEach(s, ns, ids), f, BoundEach(e, ns, fs), cs)
  BY <1>1, <1>2, <1>3, <1>6, <1>7, ParsedInsertEach
<1> QED BY <1>4, <1>5, <1>8

LEMMA ParsedDefine ==
  ASSUME NEW vs, NEW s, NEW f, NEW e, NEW cs, Parsed(vs, s, f, e, cs),
         NEW k \in Func, NEW d \in Definition(vs)
  PROVE  Parsed(vs, s, Inserted(f, k, d), e, cs)
<1> DEFINE ks == <<k>>  ds == <<d>>
           S == Definition(vs)
<1>1. ks \in Seq(Func) /\ ds \in Seq(S) /\ Len(ds) = Len(ks)
  OBVIOUS
<1>2. IsScopedMap(f, Func, S)
  BY DEF Parsed
<1>3. Inserted(f, k, d) = InsertedEach(f, ks, ds)
  BY DEF Inserted
<1> HIDE DEF ks, ds, S
<1>4. IsScopedMap(InsertedEach(f, ks, ds), Func, S) /\ InsertedEach(f, ks, ds).stack = f.stack
  BY <1>1, <1>2, InsertedEachOK
<1> QED BY <1>3, <1>4 DEF Parsed, S

\* The open construct goes on; its scope is the same.
LEMMA ParsedContinue ==
  ASSUME NEW vs, NEW s, NEW f, NEW e, NEW cs, Parsed(vs, s, f, e, cs), cs # << >>,
         NEW c \in Construct(vs), c.env = Last(cs).env
  PROVE  Parsed(vs, s, f, e, [cs EXCEPT ![Len(cs)] = c])
<1> DEFINE n == Len(cs)
           ds == [cs EXCEPT ![n] = c]
<1>1. n \in Nat \ {0} /\ Last(cs) = cs[n] /\ cs \in Seq(Construct(vs))
  BY FrontLast DEF Parsed
<1>2. DOMAIN cs = 1 .. n
  BY <1>1, LenProperties
<1> HIDE DEF n
<1>3. ds \in Seq(Construct(vs)) /\ Len(ds) = n
  <2>1. /\ [cs EXCEPT ![n] = c] \in Seq(Construct(vs))
        /\ Len([cs EXCEPT ![n] = c]) = Len(cs)
    BY <1>1, <1>2, ExceptSeq DEF n
  <2> QED BY <2>1 DEF n
<1>4. \A i \in 1 .. n : ds[i].env = cs[i].env
  BY <1>1, <1>2
<1>5. Lexical(vs, s, e, ds)
  BY <1>3, <1>4 DEF Lexical, Parsed, n
<1> QED BY <1>3, <1>5 DEF Parsed, n

-----------------------------------------------------------------------------
(* What the solver is given.                                               *)

LEMMA AgreeAsserted ==
  ASSUME NEW vs, NEW f, NEW g, Agree(vs, f, g), NEW t \in Term(vs)
  PROVE  Agree(vs, f \cap t.code, g \cap t.means)
<1>1. f \cap t.code \in Formula /\ g \cap t.means \in ClosedIn(vs)
  BY DEF Agree, Term, ClosedIn, Formula
<1>2. ~IsOpen(vs) => f \cap t.code = Consistent(vs) \cap (g \cap t.means)
  <2> SUFFICES ASSUME ~IsOpen(vs) PROVE f \cap t.code = Consistent(vs) \cap (g \cap t.means)
    OBVIOUS
  <2>1. f = Consistent(vs) \cap g
    BY DEF Agree
  <2>2. \A a \in Consistent(vs) : a \in t.code <=> a \in t.means
    BY DEF Term
  <2> QED BY <2>1, <2>2
<1> QED BY <1>1, <1>2 DEF Agree

LEMMA AgreeExtended ==
  ASSUME NEW vs, NEW ws, Extends(ws, vs), Consistent(ws) = Consistent(vs),
         NEW f, NEW g, Agree(vs, f, g)
  PROVE  Agree(ws, f, g)
<1>1. ClosedIn(vs) \subseteq ClosedIn(ws) /\ (IsOpen(vs) => IsOpen(ws))
  BY MonotoneMeaning
<1> QED BY <1>1 DEF Agree

\* let: the Variables are made equal to what the code has for the terms.
LEMMA AgreeLocals ==
  ASSUME NEW vs, NEW ws, Extends(ws, vs), NEW f, NEW g, Agree(vs, f, g),
         NEW I, NEW ts \in [I -> Term(vs)], NEW at,
         \A i \in I : at[i] \in Id,
         Consistent(ws) = {a \in Consistent(vs) : \A i \in I : at[i] \in a <=> a \in ts[i].means}
  PROVE  Agree(ws, {a \in f : \A i \in I : a \in Iff(Atom(at[i]), ts[i].code)}, g)
<1> DEFINE h == {a \in f : \A i \in I : a \in Iff(Atom(at[i]), ts[i].code)}
<1>1. ClosedIn(vs) \subseteq ClosedIn(ws) /\ (IsOpen(vs) => IsOpen(ws))
  BY MonotoneMeaning
<1>2. h \in Formula
  BY DEF Agree, Formula
<1>3. ASSUME ~IsOpen(vs) PROVE h = Consistent(ws) \cap g
  <2>1. f = Consistent(vs) \cap g
    BY <1>3 DEF Agree
  <2>2. ASSUME NEW a \in Consistent(vs), NEW i \in I
        PROVE  a \in Iff(Atom(at[i]), ts[i].code) <=> (at[i] \in a <=> a \in ts[i].means)
    <3>1. a \in ts[i].code <=> a \in ts[i].means
      BY <1>3 DEF Term
    <3>2. a \in Valuation
      BY DEF Consistent
    <3> QED BY <3>1, <3>2 DEF Iff, Atom
  <2> QED BY <2>1, <2>2
<1> QED BY <1>1, <1>2, <1>3 DEF Agree

LEMMA IffTerm ==
  ASSUME NEW vs, NEW t \in Term(vs), NEW f \in ClosedIn(vs)
  PROVE  [code |-> Iff(f, t.code), means |-> Iff(f, t.means)] \in Term(vs)
<1>1. Iff(f, t.code) \in Formula /\ Iff(f, t.means) \in Formula
  BY DEF Iff, Formula
<1>2. t.means \in ClosedIn(vs)
  BY DEF Term
<1>3. Iff(f, t.means) \in ClosedIn(vs)
  BY <1>1, <1>2 DEF ClosedIn, Iff
<1>4. ~IsOpen(vs) => \A a \in Consistent(vs) : a \in Iff(f, t.code) <=> a \in Iff(f, t.means)
  BY DEF Term, Iff, Consistent
<1> QED BY <1>1, <1>3, <1>4 DEF Term

\* The valuation with the same model Variables that gives the Variables of let
\* their values.
LEMMA AgreeOnModels ==
  ASSUME NEW vs, VariablesOK(vs), NEW f, NEW g, Agree(vs, f, g), ~IsOpen(vs)
  PROVE  {a \cap OfKind(vs, "model") : a \in f} = {a \cap OfKind(vs, "model") : a \in g}
<1> DEFINE M == OfKind(vs, "model")
           L == OfKind(vs, "local")
<1>1. f = Consistent(vs) \cap g /\ g \in ClosedIn(vs) /\ g \subseteq Valuation
  BY DEF Agree, ClosedIn, Formula
<1>2. M \cap L = {} /\ L \subseteq Free(vs) /\ L \subseteq Id
  BY VariablesType DEF OfKind, Free
<1>3. ASSUME NEW a \in g PROVE \E b \in f : b \cap M = a \cap M
  <2> DEFINE b == (a \ L) \cup {i \in L : a \in vs[i].means}
  <2>1. a \in Valuation /\ b \in Valuation
    BY <1>1, <1>2 DEF Valuation
  <2>2. b \ Free(vs) = a \ Free(vs) /\ b \cap M = a \cap M
    BY <1>2
  <2>3. b \in g
    BY <1>1, <2>1, <2>2 DEF ClosedIn
  <2>4. ASSUME NEW i \in L PROVE i \in b <=> b \in vs[i].means
    <3>1. vs[i].means \in ClosedIn(vs)
      BY DEF VariablesOK, OfKind
    <3>2. b \in vs[i].means <=> a \in vs[i].means
      BY <2>1, <2>2, <3>1 DEF ClosedIn
    <3> QED BY <3>2
  <2>5. b \in Consistent(vs)
    BY <2>1, <2>4 DEF Consistent
  <2> QED BY <1>1, <2>2, <2>3, <2>5
<1>4. f \subseteq g
  BY <1>1
<1> HIDE DEF M
<1>5. \A a \in g : a \cap M \in {b \cap M : b \in f}
  BY <1>3
<1>6. \A a \in f : a \cap M \in {b \cap M : b \in g}
  BY <1>4
<1>7. {a \cap M : a \in f} = {a \cap M : a \in g}
  BY <1>5, <1>6
<1> QED BY <1>7 DEF M

-----------------------------------------------------------------------------
(* The inductive invariant: the names resolve lexically now and at the end *)
(* of every open scope, every term the parser holds is right as long as no *)
(* let-bound term is open, and the code's assertions are the script's on   *)
(* the valuations that give the Variables of let their values.             *)

ScriptIInv ==
  /\ running \in BOOLEAN /\ VariablesOK(variables)
  /\ Resolves(variables, scope.map, env)
  /\ running => /\ Parsed(variables, scope, functions, env, constructs)
                /\ values \in Complete(variables)
  /\ Agree(variables, assertions, intended)

LEMMA ScriptInitial == ScriptInit => ScriptIInv
<1> SUFFICES ASSUME ScriptInit PROVE ScriptIInv
  OBVIOUS
<1> USE DEF ScriptInit
<1>1. VariablesOK(<< >>)
  BY BoundsAssumption DEF VariablesOK
<1>2. Resolves(<< >>, NoEntries.map, << >>)
  BY DEF Resolves, NoEntries
<1>3. \A K, S : IsScopedMap(NoEntries, K, S)
  <2> TAKE K, S
  <2>1. /\ NoEntries = [map |-> << >>, actions |-> << >>, stack |-> << >>]
        /\ DOMAIN << >> = {}
    BY DEF NoEntries
  <2> QED BY <2>1 DEF IsScopedMap
<1>4. << >> \in Environment
  <2>1. << >> \in [{} -> Formula]
    OBVIOUS
  <2> QED BY <2>1 DEF Environment
<1>5. Lexical(<< >>, NoEntries, << >>, << >>) /\ Len(NoEntries.stack) = Len(<< >>)
  BY <1>2 DEF Lexical, NoEntries
<1>6. Parsed(<< >>, NoEntries, NoEntries, << >>, << >>)
  BY <1>3, <1>4, <1>5 DEF Parsed
<1>7. Agree(<< >>, Valuation, Valuation)
  <2>1. Valuation \in ClosedIn(<< >>) /\ Valuation \in Formula
    BY DEF ClosedIn, Formula
  <2>2. Consistent(<< >>) = Valuation
    BY DEF Consistent, OfKind
  <2> QED BY <2>1, <2>2 DEF Agree
<1> QED BY <1>1, <1>2, <1>6, <1>7 DEF ScriptIInv, Complete

\* What the parser knows when a rule is reduced.
LEMMA LastValue ==
  ASSUME NEW vs, NEW v \in Complete(vs), v # << >>
  PROVE  Last(v) \in Term(vs)
BY DEF Complete, Last

LEMMA OpenConstruct ==
  ASSUME NEW vs, NEW cs \in Seq(Construct(vs)), cs # << >>
  PROVE  /\ Last(cs) = cs[Len(cs)] /\ Len(cs) \in 1 .. Len(cs) /\ Last(cs).env \in Environment
         /\ Last(cs).kind = "bindings" => Last(cs).bindings \in BindingList(vs)
         /\ Last(cs).kind = "forall" => Last(cs).id \in OfKind(vs, "quantified")
         /\ Last(cs).kind = "define" => /\ Last(cs).func \in Func
                                        /\ Last(cs).parameter \in OfKind(vs, "parameter")
         /\ Last(cs).kind = "constant" => Last(cs).name \in Name
<1>1. Last(cs) \in Construct(vs) /\ Last(cs) = cs[Len(cs)] /\ Len(cs) \in Nat \ {0}
  BY FrontLast
<1> DEFINE c == Last(cs)
<1> HIDE DEF c
<1>2. c \in Construct(vs)
  BY <1>1 DEF c
<1>3. /\ c.env \in Environment
      /\ c.kind = "bindings" => c.bindings \in BindingList(vs)
      /\ c.kind = "forall" => c.id \in OfKind(vs, "quantified")
      /\ c.kind = "define" => c.func \in Func /\ c.parameter \in OfKind(vs, "parameter")
      /\ c.kind = "constant" => c.name \in Name
  BY <1>2 DEF Construct
<1> QED BY <1>1, <1>3 DEF c

\* A rule leaves a term, and nothing else.
LEMMA TermLeft ==
  ASSUME ScriptIInv, running, NEW t \in Term(variables), values' = << t >>,
         UNCHANGED <<running, variables, scope, functions, constructs, assertions, env, intended>>
  PROVE  ScriptIInv'
<1>1. << t >> \in Complete(variables)
  BY DEF Complete
<1> QED BY <1>1 DEF ScriptIInv

LEMMA ParseEnded ==
  ASSUME ScriptIInv, Abort
  PROVE  ScriptIInv'
BY DEF ScriptIInv, Abort

LEMMA FalseStep ==
  ASSUME ScriptIInv, False
  PROVE  ScriptIInv'
BY FalseTerm, TermLeft DEF False, InTerm

LEMMA SymbolStep ==
  ASSUME ScriptIInv, NEW n \in Name, Symbol(n)
  PROVE  ScriptIInv'
<1>1. CASE n \in DOMAIN scope.map
  <2>1. scope.map[n] \in DOMAIN variables /\ variables[scope.map[n]].means = env[n]
    BY <1>1 DEF ScriptIInv, Resolves
  <2>2. [code |-> Atom(scope.map[n]), means |-> env[n]] \in Term(variables)
    BY <2>1, SymbolTerm DEF ScriptIInv
  <2>3. /\ values' = << [code |-> Atom(scope.map[n]), means |-> env[n]] >> /\ running
        /\ UNCHANGED <<running, variables, scope, functions, constructs, assertions, env, intended>>
    BY <1>1 DEF Symbol, InTerm
  <2> QED BY <2>2, <2>3, TermLeft
<1>2. CASE n \notin DOMAIN scope.map
  BY <1>2, ParseEnded DEF Symbol
<1> QED BY <1>1, <1>2

LEMMA NotStep ==
  ASSUME ScriptIInv, Not
  PROVE  ScriptIInv'
<1> DEFINE t == Last(values)
           r == [code |-> Valuation \ t.code, means |-> Valuation \ t.means]
<1>1. t \in Term(variables)
  BY LastValue DEF ScriptIInv, Not, Ready
<1>2. r \in Term(variables)
  BY <1>1, NotTerm
<1>3. /\ values' = << r >> /\ running
      /\ UNCHANGED <<running, variables, scope, functions, constructs, assertions, env, intended>>
  BY DEF Not
<1> HIDE DEF r
<1> QED BY <1>2, <1>3, TermLeft

LEMMA CallStep ==
  ASSUME ScriptIInv, NEW f \in Func, Call(f)
  PROVE  ScriptIInv'
<1>1. CASE f \in DOMAIN functions.map
  <2> DEFINE d == functions.map[f]
             t == Last(values)
             r == [code  |-> Substituted(d.code, d.parameter, t.code),
                   means |-> Substituted(d.means, d.parameter, t.means)]
  <2>1. t \in Term(variables)
    BY LastValue DEF ScriptIInv, Call, Ready
  <2>2. d \in Definition(variables)
    <3>1. IsScopedMap(functions, Func, Definition(variables))
      BY DEF ScriptIInv, Call, Parsed
    <3> QED BY <1>1, <3>1, ScopedMapType
  <2>3. /\ values' = << r >> /\ running
        /\ UNCHANGED <<running, variables, scope, functions, constructs, assertions, env, intended>>
    BY <1>1 DEF Call
  <2>4. VariablesOK(variables)
    BY DEF ScriptIInv
  <2> HIDE DEF d, t
  <2>5. r \in Term(variables)
    BY <2>1, <2>2, <2>4, CallTerm
  <2> HIDE DEF r
  <2> QED BY <2>3, <2>5, TermLeft
<1>2. CASE f \notin DOMAIN functions.map
  BY <1>2, ParseEnded DEF Call
<1> QED BY <1>1, <1>2

LEMMA EnterLetStep ==
  ASSUME ScriptIInv, EnterLet
  PROVE  ScriptIInv'
<1> DEFINE c == [kind |-> "bindings", bindings |-> << >>, env |-> env]
<1>1. Parsed(variables, scope, functions, env, constructs)
  BY DEF ScriptIInv, EnterLet, InTerm
<1>2. c \in Construct(variables)
  BY <1>1 DEF Construct, BindingList, Parsed
<1>3. /\ constructs' = Append(constructs, c) /\ functions' = Pushed(functions)
      /\ scope' = Pushed(scope) /\ running
      /\ UNCHANGED <<running, variables, values, assertions, env, intended>>
  BY DEF EnterLet, Enter, InTerm
<1>4. c.env = env
  OBVIOUS
<1> HIDE DEF c
<1>5. Parsed(variables, Pushed(scope), Pushed(functions), env, Append(constructs, c))
  BY <1>1, <1>2, <1>4, ParsedEnter
<1>6. Resolves(variables, Pushed(scope).map, env)
  BY <1>5 DEF Parsed, Lexical
<1> QED BY <1>3, <1>5, <1>6 DEF ScriptIInv

\* The parser is somewhere else in the script.
LEMMA ParserMoved ==
  ASSUME running', VariablesOK(variables'), values' \in Complete(variables'),
         Parsed(variables', scope', functions', env', constructs'),
         Agree(variables', assertions', intended'), ScriptIInv, UNCHANGED running
  PROVE  ScriptIInv'
BY DEF ScriptIInv, Parsed, Lexical

LEMMA BindingAdded ==
  ASSUME NEW vs, NEW bs \in BindingList(vs), NEW n \in Name, NEW t \in Term(vs),
         \A b \in Range(bs) : b.name # n
  PROVE  << [name |-> n, term |-> t] >> \o bs \in BindingList(vs)
<1> DEFINE B == [name : Name, term : Term(vs)]
           b == [name |-> n, term |-> t]
           one == << b >>
           all == one \o bs
<1>1. b \in B /\ b.name = n
  OBVIOUS
<1>2. bs \in Seq(B) /\ \A i, j \in DOMAIN bs : bs[i].name = bs[j].name => i = j
  BY DEF BindingList
<1>3. \A i \in DOMAIN bs : bs[i].name # n
  BY DEF Range
<1> HIDE DEF B, b
<1>4. one \in Seq(B) /\ Len(one) = 1 /\ one[1] = b
  BY <1>1
<1> HIDE DEF one
<1>5. Len(bs) \in Nat /\ DOMAIN bs = 1 .. Len(bs)
  BY <1>2, LenProperties
<1>6. /\ one \o bs \in Seq(B) /\ Len(one \o bs) = Len(one) + Len(bs)
      /\ \A i \in 1 .. Len(one) + Len(bs) :
           (one \o bs)[i] = IF i <= Len(one) THEN one[i] ELSE bs[i - Len(one)]
  BY <1>2, <1>4, ConcatProperties
<1>7. /\ all \in Seq(B) /\ DOMAIN all = 1 .. 1 + Len(bs) /\ all[1] = b
      /\ \A i \in 2 .. 1 + Len(bs) : all[i] = bs[i - 1]
  <2>1. DOMAIN all = 1 .. 1 + Len(bs)
    BY <1>4, <1>6, LenProperties
  <2>2. all[1] = b
    BY <1>4, <1>5, <1>6
  <2>3. \A i \in 2 .. 1 + Len(bs) : all[i] = bs[i - 1]
    BY <1>4, <1>5, <1>6
  <2> QED BY <1>6, <2>1, <2>2, <2>3
<1> HIDE DEF all
<1>8. ASSUME NEW i \in DOMAIN all, NEW j \in DOMAIN all, all[i].name = all[j].name
      PROVE  i = j
  <2>1. CASE i = 1 /\ j = 1
    BY <2>1
  <2>2. CASE i = 1 /\ j # 1
    <3>1. j - 1 \in DOMAIN bs /\ all[j] = bs[j - 1]
      BY <1>5, <1>7, <2>2
    <3> QED BY <1>1, <1>3, <1>7, <1>8, <2>2, <3>1
  <2>3. CASE i # 1 /\ j = 1
    <3>1. i - 1 \in DOMAIN bs /\ all[i] = bs[i - 1]
      BY <1>5, <1>7, <2>3
    <3> QED BY <1>1, <1>3, <1>7, <1>8, <2>3, <3>1
  <2>4. CASE i # 1 /\ j # 1
    <3>1. i - 1 \in DOMAIN bs /\ all[i] = bs[i - 1] /\ j - 1 \in DOMAIN bs /\ all[j] = bs[j - 1]
      BY <1>5, <1>7, <2>4
    <3>2. i - 1 = j - 1
      BY <1>2, <1>8, <3>1
    <3> QED BY <1>5, <1>7, <3>2
  <2> QED BY <2>1, <2>2, <2>3, <2>4
<1> QED BY <1>7, <1>8 DEF BindingList, B, all, one, b

LEMMA BindingStep ==
  ASSUME ScriptIInv, NEW n \in Name, Binding(n)
  PROVE  ScriptIInv'
<1> DEFINE last == Last(constructs)
           bs == << [name |-> n, term |-> Last(values)] >> \o last.bindings
           c == [kind |-> "bindings", env |-> last.env, bindings |-> bs]
<1>1. /\ running /\ constructs # << >> /\ last.kind = "bindings" /\ values # << >>
      /\ \A b \in Range(last.bindings) : b.name # n
  BY DEF Binding, Inside, Ready
<1>2. Parsed(variables, scope, functions, env, constructs) /\ VariablesOK(variables)
  BY <1>1 DEF ScriptIInv
<1>3. constructs \in Seq(Construct(variables))
  BY <1>2 DEF Parsed
<1>4. /\ last = constructs[Len(constructs)] /\ last.env \in Environment
      /\ last.bindings \in BindingList(variables) /\ Len(constructs) \in 1 .. Len(constructs)
  BY <1>1, <1>3, OpenConstruct
<1>5. Last(values) \in Term(variables)
  BY <1>1, LastValue DEF ScriptIInv
<1>6. constructs' = [constructs EXCEPT ![Len(constructs)] = c]
  <2>1. constructs' = [constructs EXCEPT ![Len(constructs)] =
                         [kind |-> "bindings", env |-> @.env,
                          bindings |-> << [name |-> n, term |-> Last(values)] >> \o @.bindings]]
    BY DEF Binding
  <2>2. DOMAIN constructs = 1 .. Len(constructs)
    BY <1>3, LenProperties
  <2> QED BY <1>4, <2>1, <2>2
<1>7. values' = << >> /\ UNCHANGED <<running, variables, scope, functions, assertions, env, intended>>
  BY DEF Binding
<1> HIDE DEF last
<1>8. bs \in BindingList(variables)
  BY <1>1, <1>4, <1>5, BindingAdded
<1> HIDE DEF bs
<1>9. c \in Construct(variables) /\ c.env = last.env
  BY <1>4, <1>8 DEF Construct
<1> HIDE DEF c
<1>10. Parsed(variables, scope, functions, env, [constructs EXCEPT ![Len(constructs)] = c])
  BY <1>1, <1>2, <1>9, ParsedContinue DEF last
<1>11. << >> \in Complete(variables) /\ Agree(variables, assertions, intended)
  BY DEF Complete, ScriptIInv
<1> QED BY <1>1, <1>2, <1>6, <1>7, <1>10, <1>11, ParserMoved

LEMMA ExitLetStep ==
  ASSUME ScriptIInv, ExitLet
  PROVE  ScriptIInv'
<1>1. /\ running /\ constructs # << >> /\ scope' = Popped(scope) /\ functions' = Popped(functions)
      /\ env' = Last(constructs).env /\ constructs' = Front(constructs)
      /\ UNCHANGED <<running, variables, values, assertions, intended>>
  BY DEF ExitLet, Inside, Leave
<1>2. Parsed(variables, scope, functions, env, constructs) /\ values \in Complete(variables)
  BY <1>1 DEF ScriptIInv
<1>3. Parsed(variables, Popped(scope), Popped(functions), Last(constructs).env, Front(constructs))
  BY <1>1, <1>2, ParsedLeave
<1>4. VariablesOK(variables) /\ Agree(variables, assertions, intended)
  BY DEF ScriptIInv
<1> QED BY <1>1, <1>2, <1>3, <1>4, ParserMoved

LEMMA ExitForallStep ==
  ASSUME ScriptIInv, ExitForall
  PROVE  ScriptIInv'
<1> DEFINE b == Last(constructs).id
           t == Last(values)
           r == [code  |-> EliminateBooleanVariable(t.code, b),
                 means |-> {a \in Valuation : a \cup {b} \in t.means /\ a \ {b} \in t.means}]
<1>1. /\ running /\ constructs # << >> /\ scope' = Popped(scope) /\ functions' = Popped(functions)
      /\ env' = Last(constructs).env /\ constructs' = Front(constructs)
      /\ Last(constructs).kind = "forall" /\ values # << >>
      /\ UNCHANGED <<running, variables, assertions, intended>>
  BY DEF ExitForall, Inside, Leave, Ready
<1>2. values' = << r >>
  BY DEF ExitForall
<1>3. Parsed(variables, scope, functions, env, constructs) /\ values \in Complete(variables)
  BY <1>1 DEF ScriptIInv
<1>4. Parsed(variables, Popped(scope), Popped(functions), Last(constructs).env, Front(constructs))
  BY <1>1, <1>3, ParsedLeave
<1>5. VariablesOK(variables) /\ Agree(variables, assertions, intended)
  BY DEF ScriptIInv
<1>6. b \in OfKind(variables, "quantified")
  BY <1>1, <1>3, OpenConstruct DEF Parsed
<1>7. t \in Term(variables)
  BY <1>1, <1>3, LastValue
<1> HIDE DEF b, t
<1>8. r \in Term(variables)
  BY <1>5, <1>6, <1>7, ForallTerm
<1> HIDE DEF r
<1>9. << r >> \in Complete(variables)
  BY <1>8 DEF Complete
<1> QED BY <1>1, <1>2, <1>4, <1>5, <1>9, ParserMoved

\* A Variable is made: the script goes on where it was.
LEMMA VariableMade ==
  ASSUME NEW vs, VariablesOK(vs), NEW id, id = Len(vs) + 1, id <= MaxVars,
         NEW kind \in Kinds \ {"local"},
         NEW ws, ws = Append(vs, [kind |-> kind, means |-> Atom(id)])
  PROVE  /\ VariablesOK(ws) /\ Extends(ws, vs) /\ Consistent(ws) = Consistent(vs)
         /\ id \in DOMAIN ws /\ id \in OfKind(ws, kind) /\ ws[id].means = Atom(id)
         /\ Atom(id) \in Formula /\ Atom(id) \in ClosedIn(ws)
<1>1. /\ VariablesOK(ws) /\ Extends(ws, vs) /\ Consistent(ws) = Consistent(vs)
      /\ id \in OfKind(ws, kind) /\ ws[id].means = Atom(id) /\ Atom(id) \in ClosedIn(ws)
  BY VariableAdded
<1>2. id \in DOMAIN ws
  BY <1>1 DEF OfKind
<1>3. Atom(id) \in Formula
  BY DEF Atom, Formula
<1> QED BY <1>1, <1>2, <1>3

LEMMA DeclareVariableStep ==
  ASSUME ScriptIInv, NEW n \in Name, DeclareVariable(n)
  PROVE  ScriptIInv'
<1> DEFINE id == Len(variables) + 1
<1>1. /\ running /\ id <= MaxVars /\ values = << >>
      /\ variables' = Append(variables, [kind |-> "model", means |-> Atom(id)])
      /\ scope' = Inserted(scope, n, id) /\ env' = Bound(env, n, Atom(id))
      /\ UNCHANGED <<running, functions, constructs, values, assertions, intended>>
  BY DEF DeclareVariable, Idle, Room, NewVar, Fresh
<1>2. /\ VariablesOK(variables) /\ Agree(variables, assertions, intended)
      /\ Parsed(variables, scope, functions, env, constructs)
  BY <1>1 DEF ScriptIInv
<1>3. "model" \in Kinds \ {"local"}
  BY DEF Kinds
<1>4. /\ VariablesOK(variables') /\ Parsed(variables', scope, functions, env, constructs)
      /\ Agree(variables', assertions, intended)
      /\ id \in DOMAIN variables' /\ variables'[id].means = Atom(id) /\ Atom(id) \in Formula
  <2>0. id = Len(variables) + 1
    OBVIOUS
  <2> HIDE DEF id
  <2>1. /\ VariablesOK(variables')
        /\ id \in DOMAIN variables'
        /\ variables'[id].means = Atom(id)
        /\ Atom(id) \in Formula
        /\ Extends(variables', variables)
        /\ Consistent(variables') = Consistent(variables)
    BY <2>0, <1>1, <1>2, <1>3, VariableMade
  <2>2. Parsed(variables', scope, functions, env, constructs)
    BY <2>1, <1>1, <1>2, <1>3, ParsedMonotone
  <2>3. Agree(variables', assertions, intended)
    BY <2>1, <1>1, <1>2, <1>3, AgreeExtended
  <2> QED BY <2>1, <2>2, <2>3
<1>5. Parsed(variables', Inserted(scope, n, id), functions,
             Bound(env, n, variables'[id].means), constructs)
  BY <1>4, ParsedInsert
<1>6. << >> \in Complete(variables')
  BY DEF Complete
<1> HIDE DEF id
<1> QED BY <1>1, <1>4, <1>5, <1>6, ParserMoved

LEMMA EnterForallStep ==
  ASSUME ScriptIInv, NEW n \in Name, EnterForall(n)
  PROVE  ScriptIInv'
<1> DEFINE id == Len(variables) + 1
           c == [kind |-> "forall", id |-> id, env |-> env]
<1>1. CASE n \in modelNames
  BY <1>1, ParseEnded DEF EnterForall
<1>2. CASE n \notin modelNames
  <2>1. /\ running /\ id <= MaxVars /\ values = << >>
        /\ variables' = Append(variables, [kind |-> "quantified", means |-> Atom(id)])
        /\ scope' = Inserted(Pushed(scope), n, id) /\ env' = Bound(env, n, Atom(id))
        /\ constructs' = Append(constructs, c) /\ functions' = Pushed(functions)
        /\ UNCHANGED <<running, values, assertions, intended>>
    BY <1>2 DEF EnterForall, InTerm, Ready, Enter, Room, NewVar, Fresh
  <2>2. /\ VariablesOK(variables) /\ Agree(variables, assertions, intended)
        /\ Parsed(variables, scope, functions, env, constructs)
    BY <2>1 DEF ScriptIInv
  <2>3. "quantified" \in Kinds \ {"local"}
    BY DEF Kinds
  <2>4. /\ VariablesOK(variables') /\ Parsed(variables', scope, functions, env, constructs)
        /\ Agree(variables', assertions, intended)
        /\ id \in DOMAIN variables' /\ id \in OfKind(variables', "quantified")
        /\ variables'[id].means = Atom(id) /\ Atom(id) \in Formula
    <3>0. id = Len(variables) + 1
      OBVIOUS
    <3> HIDE DEF id
    <3>1. /\ VariablesOK(variables')
          /\ id \in DOMAIN variables'
          /\ id \in OfKind(variables', "quantified")
          /\ variables'[id].means = Atom(id)
          /\ Atom(id) \in Formula
          /\ Extends(variables', variables)
          /\ Consistent(variables') = Consistent(variables)
      BY <3>0, <2>1, <2>2, <2>3, VariableMade
    <3>2. Parsed(variables', scope, functions, env, constructs)
      BY <3>1, <2>1, <2>2, <2>3, ParsedMonotone
    <3>3. Agree(variables', assertions, intended)
      BY <3>1, <2>1, <2>2, <2>3, AgreeExtended
    <3> QED BY <3>1, <3>2, <3>3
  <2>5. c \in Construct(variables') /\ c.env = env
    BY <2>4 DEF Construct, Parsed
  <2> HIDE DEF c
  <2>6. Parsed(variables', Pushed(scope), Pushed(functions), env, Append(constructs, c))
    BY <2>4, <2>5, ParsedEnter
  <2>7. Parsed(variables', Inserted(Pushed(scope), n, id), Pushed(functions),
               Bound(env, n, variables'[id].means), Append(constructs, c))
    BY <2>4, <2>6, ParsedInsert
  <2>8. << >> \in Complete(variables')
    BY DEF Complete
  <2> HIDE DEF id
  <2> QED BY <2>1, <2>4, <2>7, <2>8, ParserMoved
<1> QED BY <1>1, <1>2

LEMMA EnterDefineStep ==
  ASSUME ScriptIInv, NEW f \in Func, NEW n \in Name, EnterDefine(f, n)
  PROVE  ScriptIInv'
<1> DEFINE id == Len(variables) + 1
           c == [kind |-> "define", func |-> f, parameter |-> id, env |-> env]
<1>1. /\ running /\ id <= MaxVars /\ values = << >>
      /\ variables' = Append(variables, [kind |-> "parameter", means |-> Atom(id)])
      /\ scope' = Inserted(Pushed(scope), n, id) /\ env' = Bound(env, n, Atom(id))
      /\ constructs' = Append(constructs, c) /\ functions' = Pushed(functions)
      /\ UNCHANGED <<running, values, assertions, intended>>
  BY DEF EnterDefine, Idle, Enter, Room, NewVar, Fresh
<1>2. /\ VariablesOK(variables) /\ Agree(variables, assertions, intended)
      /\ Parsed(variables, scope, functions, env, constructs)
  BY <1>1 DEF ScriptIInv
<1>3. "parameter" \in Kinds \ {"local"}
  BY DEF Kinds
<1>4. /\ VariablesOK(variables') /\ Parsed(variables', scope, functions, env, constructs)
      /\ Agree(variables', assertions, intended)
      /\ id \in DOMAIN variables' /\ id \in OfKind(variables', "parameter")
      /\ variables'[id].means = Atom(id) /\ Atom(id) \in Formula
  <2>0. id = Len(variables) + 1
    OBVIOUS
  <2> HIDE DEF id
  <2>1. /\ VariablesOK(variables')
        /\ id \in DOMAIN variables'
        /\ id \in OfKind(variables', "parameter")
        /\ variables'[id].means = Atom(id)
        /\ Atom(id) \in Formula
        /\ Extends(variables', variables)
        /\ Consistent(variables') = Consistent(variables)
    BY <2>0, <1>1, <1>2, <1>3, VariableMade
  <2>2. Parsed(variables', scope, functions, env, constructs)
    BY <2>1, <1>1, <1>2, <1>3, ParsedMonotone
  <2>3. Agree(variables', assertions, intended)
    BY <2>1, <1>1, <1>2, <1>3, AgreeExtended
  <2> QED BY <2>1, <2>2, <2>3
<1>5. c \in Construct(variables') /\ c.env = env
  BY <1>4 DEF Construct, Parsed
<1> HIDE DEF c
<1>6. Parsed(variables', Pushed(scope), Pushed(functions), env, Append(constructs, c))
  BY <1>4, <1>5, ParsedEnter
<1>7. Parsed(variables', Inserted(Pushed(scope), n, id), Pushed(functions),
             Bound(env, n, variables'[id].means), Append(constructs, c))
  BY <1>4, <1>6, ParsedInsert
<1>8. << >> \in Complete(variables')
  BY DEF Complete
<1> HIDE DEF id
<1> QED BY <1>1, <1>4, <1>7, <1>8, ParserMoved

LEMMA DefineFunStep ==
  ASSUME ScriptIInv, DefineFun
  PROVE  ScriptIInv'
<1> DEFINE c == Last(constructs)
           t == Last(values)
           d == [parameter |-> c.parameter, code |-> t.code, means |-> t.means]
<1>1. /\ running /\ constructs # << >> /\ c.kind = "define" /\ values # << >>
      /\ functions' = Inserted(Popped(functions), c.func, d)
      /\ scope' = Popped(scope) /\ env' = c.env /\ constructs' = Front(constructs)
      /\ values' = << >> /\ UNCHANGED <<running, variables, assertions, intended>>
  BY DEF DefineFun, Inside, Leave, Ready
<1>2. /\ Parsed(variables, scope, functions, env, constructs) /\ values \in Complete(variables)
      /\ VariablesOK(variables) /\ Agree(variables, assertions, intended)
  BY <1>1 DEF ScriptIInv
<1>3. c.func \in Func /\ c.parameter \in OfKind(variables, "parameter")
  BY <1>1, <1>2, OpenConstruct DEF Parsed
<1>4. t \in Term(variables)
  BY <1>1, <1>2, LastValue
<1>5. Parsed(variables, Popped(scope), Popped(functions), c.env, Front(constructs))
  BY <1>1, <1>2, ParsedLeave
<1> HIDE DEF c, t
<1>6. d \in Definition(variables)
  <2>1. c.parameter \in Id
    BY <1>2, <1>3, VariablesType DEF OfKind
  <2>2. t.code \in Formula /\ t.means \in Formula /\ [code |-> t.code, means |-> t.means] = t
    BY <1>4 DEF Term
  <2> QED BY <1>3, <1>4, <2>1, <2>2 DEF Definition
<1> HIDE DEF d
<1>7. Parsed(variables, Popped(scope), Inserted(Popped(functions), c.func, d), c.env, Front(constructs))
  BY <1>3, <1>5, <1>6, ParsedDefine
<1>8. << >> \in Complete(variables)
  BY DEF Complete
<1> QED BY <1>1, <1>2, <1>7, <1>8, ParserMoved

LEMMA EnterConstantStep ==
  ASSUME ScriptIInv, NEW n \in Name, EnterConstant(n)
  PROVE  ScriptIInv'
<1> DEFINE c == [kind |-> "constant", name |-> n, env |-> env]
<1>1. /\ running /\ values = << >>
      /\ constructs' = Append(constructs, c) /\ functions' = Pushed(functions)
      /\ scope' = Pushed(scope)
      /\ UNCHANGED <<running, variables, values, assertions, env, intended>>
  BY DEF EnterConstant, Idle, Enter
<1>2. /\ Parsed(variables, scope, functions, env, constructs)
      /\ VariablesOK(variables) /\ Agree(variables, assertions, intended)
  BY <1>1 DEF ScriptIInv
<1>3. c \in Construct(variables) /\ c.env = env
  BY <1>2 DEF Construct, Parsed
<1> HIDE DEF c
<1>4. Parsed(variables, Pushed(scope), Pushed(functions), env, Append(constructs, c))
  BY <1>2, <1>3, ParsedEnter
<1>5. << >> \in Complete(variables)
  BY DEF Complete
<1> QED BY <1>1, <1>2, <1>4, <1>5, ParserMoved

LEMMA DefineConstantStep ==
  ASSUME ScriptIInv, DefineConstant
  PROVE  ScriptIInv'
<1> DEFINE id == Len(variables) + 1
           c == Last(constructs)
           t == Last(values)
<1>1. /\ running /\ constructs # << >> /\ c.kind = "constant" /\ values # << >> /\ id <= MaxVars
      /\ scope' = Inserted(Popped(scope), c.name, id) /\ env' = Bound(c.env, c.name, Atom(id))
      /\ assertions' = assertions \cap Iff(Atom(id), t.code)
      /\ intended' = intended \cap Iff(Atom(id), t.means)
      /\ variables' = Append(variables, [kind |-> "model", means |-> Atom(id)])
      /\ functions' = Popped(functions) /\ constructs' = Front(constructs)
      /\ values' = << >> /\ UNCHANGED running
  BY DEF DefineConstant, Inside, Ready, Room, NewVar, Fresh
<1>2. /\ Parsed(variables, scope, functions, env, constructs) /\ values \in Complete(variables)
      /\ VariablesOK(variables) /\ Agree(variables, assertions, intended)
  BY <1>1 DEF ScriptIInv
<1>3. c.name \in Name
  BY <1>1, <1>2, OpenConstruct DEF Parsed
<1>4. t \in Term(variables)
  BY <1>1, <1>2, LastValue
<1>5. Parsed(variables, Popped(scope), Popped(functions), c.env, Front(constructs))
  BY <1>1, <1>2, ParsedLeave
<1>6. "model" \in Kinds \ {"local"}
  BY DEF Kinds
<1> HIDE DEF c, t
<1>7. /\ VariablesOK(variables') /\ Agree(variables', assertions, intended)
      /\ Parsed(variables', Popped(scope), Popped(functions), c.env, Front(constructs))
      /\ Extends(variables', variables)
      /\ id \in DOMAIN variables' /\ variables'[id].means = Atom(id) /\ Atom(id) \in Formula
      /\ Atom(id) \in ClosedIn(variables')
  <2>0. id = Len(variables) + 1
    OBVIOUS
  <2> HIDE DEF id
  <2>1. /\ VariablesOK(variables')
        /\ Extends(variables', variables)
        /\ id \in DOMAIN variables'
        /\ variables'[id].means = Atom(id)
        /\ Atom(id) \in Formula
        /\ Atom(id) \in ClosedIn(variables')
        /\ Consistent(variables') = Consistent(variables)
    <3>1. /\ variables' = Append(variables, [kind |-> "model", means |-> Atom(id)])
          /\ id <= MaxVars /\ VariablesOK(variables)
      BY <1>1, <1>2
    <3> QED BY <3>1, <2>0, <1>6, VariableMade
  <2>2. Parsed(variables', Popped(scope), Popped(functions), c.env, Front(constructs))
    BY <2>1, <1>1, <1>2, <1>5, <1>6, ParsedMonotone
  <2>3. Agree(variables', assertions, intended)
    BY <2>1, <1>1, <1>2, <1>5, <1>6, AgreeExtended
  <2> QED BY <2>1, <2>2, <2>3
<1>8. Parsed(variables', Inserted(Popped(scope), c.name, id), Popped(functions),
             Bound(c.env, c.name, variables'[id].means), Front(constructs))
  BY <1>3, <1>7, ParsedInsert
<1> DEFINE r == [code |-> Iff(Atom(id), t.code), means |-> Iff(Atom(id), t.means)]
<1>9. r \in Term(variables')
  <2>1. t \in Term(variables')
    BY <1>4, <1>7, MonotoneMeaning
  <2> QED BY <1>7, <2>1, IffTerm
<1>10. r.code = Iff(Atom(id), t.code) /\ r.means = Iff(Atom(id), t.means)
  OBVIOUS
<1> HIDE DEF r, id
<1>11. Agree(variables', assertions \cap r.code, intended \cap r.means)
  BY <1>7, <1>9, AgreeAsserted
<1>12. << >> \in Complete(variables')
  BY DEF Complete
<1> QED BY <1>1, <1>7, <1>8, <1>10, <1>11, <1>12, ParserMoved

LEMMA CommandAssertStep ==
  ASSUME ScriptIInv, CommandAssert
  PROVE  ScriptIInv'
<1> DEFINE t == Last(values)
<1>1. /\ running /\ values # << >>
      /\ assertions' = assertions \cap t.code /\ intended' = intended \cap t.means
      /\ values' = << >> /\ UNCHANGED <<running, variables, scope, functions, constructs, env>>
  BY DEF CommandAssert, Ready
<1>2. /\ Parsed(variables, scope, functions, env, constructs) /\ values \in Complete(variables)
      /\ VariablesOK(variables) /\ Agree(variables, assertions, intended)
  BY <1>1 DEF ScriptIInv
<1>3. t \in Term(variables)
  BY <1>1, <1>2, LastValue
<1> HIDE DEF t
<1>4. Agree(variables, assertions \cap t.code, intended \cap t.means)
  BY <1>2, <1>3, AgreeAsserted
<1>5. << >> \in Complete(variables)
  BY DEF Complete
<1> QED BY <1>1, <1>2, <1>4, <1>5, ParserMoved

LEMMA DeclareBindingsStep ==
  ASSUME ScriptIInv, DeclareBindings
  PROVE  ScriptIInv'
<1> DEFINE last == Last(constructs)
           bs == last.bindings
           N == Len(variables)
           at == [i \in DOMAIN bs |-> N + i]
           names == [i \in DOMAIN bs |-> bs[i].name]
           terms == [i \in DOMAIN bs |-> bs[i].term]
           meanings == [i \in DOMAIN bs |-> bs[i].term.means]
           c == [kind |-> "let", env |-> last.env]
<1>1. /\ running /\ constructs # << >> /\ last.kind = "bindings" /\ values = << >>
      /\ N + Len(bs) <= MaxVars
      /\ variables' = variables \o [i \in DOMAIN bs |-> [kind |-> "local", means |-> meanings[i]]]
      /\ scope' = InsertedEach(scope, names, at) /\ env' = BoundEach(env, names, meanings)
      /\ UNCHANGED <<running, functions, values, intended>>
  BY DEF DeclareBindings, Inside, Ready, Room
<1>2. assertions' = {a \in assertions : \A i \in DOMAIN bs : a \in Iff(Atom(at[i]), terms[i].code)}
  <2>1. assertions' = {a \in assertions : \A i \in DOMAIN bs : a \in Iff(Atom(N + i), bs[i].term.code)}
    BY DEF DeclareBindings
  <2>2. \A i \in DOMAIN bs : at[i] = N + i /\ terms[i] = bs[i].term
    OBVIOUS
  <2> HIDE DEF at, terms, bs, N
  <2> QED BY <2>1, <2>2
<1>3. /\ Parsed(variables, scope, functions, env, constructs)
      /\ VariablesOK(variables) /\ Agree(variables, assertions, intended)
  BY <1>1 DEF ScriptIInv
<1>4. constructs \in Seq(Construct(variables)) /\ DOMAIN constructs = 1 .. Len(constructs)
  BY <1>3, LenProperties DEF Parsed
<1>5. /\ last = constructs[Len(constructs)] /\ last.env \in Environment
      /\ bs \in BindingList(variables) /\ Len(constructs) \in 1 .. Len(constructs)
  BY <1>1, <1>4, OpenConstruct
<1>6. constructs' = [constructs EXCEPT ![Len(constructs)] = c]
  <2>1. constructs' = [constructs EXCEPT ![Len(constructs)] = [kind |-> "let", env |-> @.env]]
    BY DEF DeclareBindings
  <2> QED BY <1>4, <1>5, <2>1
<1> HIDE DEF last
<1>7. c \in Construct(variables) /\ c.env = last.env
  BY <1>5 DEF Construct
<1>8. /\ Len(bs) \in Nat /\ DOMAIN bs = 1 .. Len(bs) /\ N \in Nat
      /\ \A i, j \in DOMAIN bs : bs[i].name = bs[j].name => i = j
      /\ \A i \in DOMAIN bs : bs[i] \in [name : Name, term : Term(variables)]
  <2> DEFINE T == [name : Name, term : Term(variables)]
  <2>1. bs \in Seq(T) /\ \A i, j \in DOMAIN bs : bs[i].name = bs[j].name => i = j
    BY <1>5 DEF BindingList
  <2>2. N \in Nat
    BY <1>3, VariablesType
  <2> HIDE DEF T, bs
  <2>3. Len(bs) \in Nat /\ DOMAIN bs = 1 .. Len(bs) /\ \A i \in 1 .. Len(bs) : bs[i] \in T
    BY <2>1, LenProperties, ElementOfSeq
  <2> QED BY <2>1, <2>2, <2>3 DEF T
<1> HIDE DEF c, bs, N
<1>9. /\ names \in [1 .. Len(bs) -> Name] /\ terms \in [DOMAIN bs -> Term(variables)]
      /\ meanings \in [1 .. Len(bs) -> ClosedIn(variables)]
      /\ meanings \in [1 .. Len(bs) -> Formula]
      /\ \A i \in DOMAIN bs : names[i] = bs[i].name /\ terms[i] \in Term(variables)
                              /\ meanings[i] = terms[i].means /\ at[i] = N + i
  BY <1>8 DEF Term
<1>10. /\ names \in Seq(Name) /\ Len(names) = Len(bs) /\ DOMAIN names = DOMAIN bs
       /\ meanings \in Seq(ClosedIn(variables)) /\ meanings \in Seq(Formula)
       /\ Len(meanings) = Len(bs) /\ DOMAIN meanings = DOMAIN bs
  BY <1>8, <1>9, FunctionIsSeq
<1>11. \A i, j \in DOMAIN names : names[i] = names[j] => i = j
  BY <1>8, <1>9, <1>10
<1> HIDE DEF names, terms, meanings
<1>12. /\ VariablesOK(variables') /\ Extends(variables', variables)
       /\ Consistent(variables') = {a \in Consistent(variables) :
                                      \A i \in DOMAIN bs : at[i] \in a <=> a \in terms[i].means}
       /\ \A i \in DOMAIN bs : at[i] \in DOMAIN variables' /\ variables'[at[i]].means = meanings[i]
  <2> DEFINE ws == variables \o [i \in DOMAIN meanings |-> [kind |-> "local", means |-> meanings[i]]]
  <2>1. /\ VariablesOK(ws) /\ Extends(ws, variables)
        /\ Consistent(ws) = {a \in Consistent(variables) :
                               \A i \in DOMAIN meanings : N + i \in a <=> a \in meanings[i]}
        /\ \A i \in DOMAIN meanings : /\ N + i \in DOMAIN ws /\ ws[N + i].means = meanings[i]
    <3>1. Len(variables) + Len(meanings) <= MaxVars
      BY <1>1, <1>10 DEF N
    <3> QED BY <1>3, <1>10, <3>1, LocalsAdded DEF N
  <2>2. variables' = ws
    BY <1>1, <1>10
  <2> HIDE DEF ws, at
  <2> QED BY <1>9, <1>10, <2>1, <2>2
<1>13. at \in Seq(Known(variables')) /\ Len(at) = Len(names)
  <2>1. at \in [1 .. Len(bs) -> Known(variables')]
    BY <1>8, <1>12 DEF Known
  <2> QED BY <1>8, <1>10, <2>1, FunctionIsSeq
<1> HIDE DEF at
<1>14. Parsed(variables, scope, functions, env, [constructs EXCEPT ![Len(constructs)] = c])
  BY <1>1, <1>3, <1>7, ParsedContinue DEF last
<1>15. Parsed(variables', scope, functions, env, constructs')
  BY <1>6, <1>12, <1>14, ParsedMonotone
<1>16. Parsed(variables', InsertedEach(scope, names, at), functions,
              BoundEach(env, names, meanings), constructs')
  <2>1. \A i \in DOMAIN names : variables'[at[i]].means = meanings[i]
    BY <1>10, <1>12
  <2>2. Len(meanings) = Len(names)
    BY <1>10
  <2> QED BY <1>10, <1>11, <1>13, <1>15, <2>1, <2>2, ParsedInsertEach
<1>17. Agree(variables', assertions', intended)
  <2>1. \A i \in DOMAIN bs : at[i] \in Id
    BY <1>12, VariablesType
  <2>2. terms \in [DOMAIN bs -> Term(variables)]
    BY <1>9
  <2>3. /\ Extends(variables', variables)
        /\ Consistent(variables') = {a \in Consistent(variables) :
                                       \A i \in DOMAIN bs : at[i] \in a <=> a \in terms[i].means}
    BY <1>12
  <2>4. Agree(variables', {a \in assertions : \A i \in DOMAIN bs : a \in Iff(Atom(at[i]), terms[i].code)},
              intended)
    BY <1>3, <2>1, <2>2, <2>3, AgreeLocals
  <2> QED BY <1>2, <2>4
<1>18. values' \in Complete(variables')
  BY <1>1 DEF Complete
<1> QED BY <1>1, <1>12, <1>16, <1>17, <1>18, ParserMoved

-----------------------------------------------------------------------------
LEMMA ScriptInductive == ScriptIInv /\ [ScriptNext]_scriptVars => ScriptIInv'
<1> SUFFICES ASSUME ScriptIInv, [ScriptNext]_scriptVars PROVE ScriptIInv'
  OBVIOUS
<1>1. CASE False
  BY <1>1, FalseStep
<1>2. CASE Not
  BY <1>2, NotStep
<1>3. CASE EnterLet
  BY <1>3, EnterLetStep
<1>4. CASE DeclareBindings
  BY <1>4, DeclareBindingsStep
<1>5. CASE ExitLet
  BY <1>5, ExitLetStep
<1>6. CASE ExitForall
  BY <1>6, ExitForallStep
<1>7. CASE DefineFun
  BY <1>7, DefineFunStep
<1>8. CASE DefineConstant
  BY <1>8, DefineConstantStep
<1>9. CASE CommandAssert
  BY <1>9, CommandAssertStep
<1>10. CASE PushOrPop
  BY <1>10, ParseEnded DEF PushOrPop
<1>11. ASSUME NEW n \in Name, Symbol(n) PROVE ScriptIInv'
  BY <1>11, SymbolStep
<1>12. ASSUME NEW n \in Name, Binding(n) PROVE ScriptIInv'
  BY <1>12, BindingStep
<1>13. ASSUME NEW n \in Name, EnterForall(n) PROVE ScriptIInv'
  BY <1>13, EnterForallStep
<1>14. ASSUME NEW n \in Name, DeclareVariable(n) PROVE ScriptIInv'
  BY <1>14, DeclareVariableStep
<1>15. ASSUME NEW n \in Name, EnterConstant(n) PROVE ScriptIInv'
  BY <1>15, EnterConstantStep
<1>16. ASSUME NEW n \in Name, NEW f \in Func, EnterDefine(f, n) PROVE ScriptIInv'
  BY <1>16, EnterDefineStep
<1>17. ASSUME NEW f \in Func, Call(f) PROVE ScriptIInv'
  BY <1>17, CallStep
<1>18. CASE UNCHANGED scriptVars
  BY <1>18 DEF scriptVars, ScriptIInv
<1> QED BY <1>1, <1>2, <1>3, <1>4, <1>5, <1>6, <1>7, <1>8, <1>9, <1>10, <1>11, <1>12,
           <1>13, <1>14, <1>15, <1>16, <1>17, <1>18 DEF ScriptNext

\* The parser's state is always as the invariant says.
THEOREM ScriptInvariant == ScriptSpec => []ScriptIInv
BY ScriptInitial, ScriptInductive, PTL DEF ScriptSpec

\* parser.yy, driver.cc, scoped_unordered_map.h: whatever the script nests, a
\* name resolves to the Variable of its innermost enclosing binder, and what a
\* scope shadowed is back when PopScope ends it.
THEOREM NamesResolveLexically == ScriptSpec => []NamesAreLexical
<1>1. ScriptIInv => NamesAreLexical
  BY DEF ScriptIInv, Resolves, NamesAreLexical
<1> QED BY <1>1, ScriptInvariant, PTL

\* parser.yy and driver.cc: as long as no let-bound term depends on a
\* parameter or on a quantified variable, what Context::Assert was given allows
\* the model variables exactly what the script allows them, for every script:
\* the Variables that let makes, the calls inlined by FunctionDefinition and
\* the quantifiers eliminated by EliminateBooleanVariables change no model.
THEOREM TheSolverIsGivenTheScript == ScriptSpec => []AssertionsMeanTheScript
<1>1. ScriptIInv => AssertionsMeanTheScript
  <2> SUFFICES ASSUME ScriptIInv, ~DefinitionIsOpen PROVE Models(assertions) = Models(intended)
    BY DEF AssertionsMeanTheScript
  <2>1. ~IsOpen(variables)
    BY DEF DefinitionIsOpen, IsOpen, OfKind
  <2>2. ModelIds = OfKind(variables, "model")
    BY DEF ModelIds, OfKind
  <2>3. /\ Models(assertions) = {a \cap OfKind(variables, "model") : a \in assertions}
        /\ Models(intended) = {a \cap OfKind(variables, "model") : a \in intended}
    BY <2>2 DEF Models
  <2>4. VariablesOK(variables) /\ Agree(variables, assertions, intended)
    BY DEF ScriptIInv
  <2> QED BY <2>1, <2>3, <2>4, AgreeOnModels
<1> QED BY <1>1, ScriptInvariant, PTL

----------------------------------------------------------------------------
(* Options and what a run prints *)

\* Where the value of a field comes from.
Source(field) ==
  IF case.entry = "code" /\ field = "precision" THEN "FROM_CODE"
  ELSE IF case.entry = "main" /\ Setting(case.options, field) # {} THEN "FROM_COMMAND_LINE"
  ELSE IF Keyed(field) # {} THEN "FROM_FILE"
  ELSE "DEFAULT"


LEMMA WantedByCode ==
  ASSUME NEW field, case.entry = "code", field = "precision"
  PROVE  Wanted(field) = 3 /\ Source(field) = "FROM_CODE"
BY DEF Wanted, Source

LEMMA WantedByFlag ==
  ASSUME NEW field, case.entry = "main", Setting(case.options, field) # {}
  PROVE  Wanted(field) = Given(case.options, field) /\ Source(field) = "FROM_COMMAND_LINE"
BY DEF Wanted, Source

LEMMA WantedByFile ==
  ASSUME NEW field, ~(case.entry = "code" /\ field = "precision"),
         ~(case.entry = "main" /\ Setting(case.options, field) # {}),
         Keyed(field) # {}
  PROVE  /\ Wanted(field) = Said(case.content[Latest(Keyed(field))])
         /\ Source(field) = "FROM_FILE"
BY DEF Wanted, Source

LEMMA WantedByDefault ==
  ASSUME NEW field, ~(case.entry = "code" /\ field = "precision"),
         ~(case.entry = "main" /\ Setting(case.options, field) # {}),
         Keyed(field) = {}
  PROVE  Wanted(field) = Default(field) /\ Source(field) = "DEFAULT"
BY DEF Wanted, Source

LEMMA LatestIs ==
  ASSUME NEW S, NEW n \in S, S \subseteq Nat, \A j \in S : j <= n
  PROVE  Latest(S) = n
<1>1. \E i \in S : \A j \in S : j <= i
  OBVIOUS
<1>2. Latest(S) \in S /\ \A j \in S : j <= Latest(S)
  BY <1>1 DEF Latest
<1>3. Latest(S) \in Nat /\ n \in Nat /\ Latest(S) <= n /\ n <= Latest(S)
  BY <1>2
<1> QED
  BY <1>3

LEMMA LatestExists ==
  ASSUME NEW n \in Nat, NEW S, S \subseteq 1..n, S # {}
  PROVE  Latest(S) \in S /\ \A j \in S : j <= Latest(S)
<1> DEFINE gaps == {n - i : i \in S}
<1>1. gaps \in SUBSET Nat /\ gaps # {}
  <2>1. \A i \in S : i \in 1..n /\ n - i \in Nat
    OBVIOUS
  <2> QED
    BY <2>1
<1>2. PICK g \in gaps : \A h \in gaps : g <= h
  BY <1>1, LeastExists
<1>3. PICK i \in S : g = n - i
  OBVIOUS
<1>4. \A j \in S : j <= i
  <2> SUFFICES ASSUME NEW j \in S PROVE j <= i
    OBVIOUS
  <2>1. n - j \in gaps
    OBVIOUS
  <2>2. g <= n - j
    BY <1>2, <2>1
  <2> QED
    BY <1>3, <2>2
<1> QED
  BY <1>4 DEF Latest

SourcesInv ==
  /\ pos \in Nat \ {0}
  /\ phase \in {"main", "options"} => config = NewConfig /\ pos = 1
  /\ phase = "options" => case.entry = "main"
  /\ phase = "open" => pos = 1
  /\ phase \in {"open", "smt2", "dr"} =>
       /\ DOMAIN config = Fields
       /\ \A field \in Fields :
            config[field] = [value |-> Wanted(field), type |-> Source(field)]

\* The options stand where they stood.
LEMMA SourcesStay ==
  ASSUME SourcesInv, config' = config, case' = case, pos' \in Nat \ {0},
         \/ phase' = "end"
         \/ phase' = phase /\ pos' = pos
         \/ phase = "open" /\ phase' \in {"smt2", "dr"} /\ pos' = pos
         \/ phase = "dr" /\ phase' = "dr"
         \/ /\ phase = "smt2" /\ phase' = "smt2" /\ pos' = pos + 1
            /\ case.content[pos].c # "set-option"
  PROVE  SourcesInv'
<1>1. CASE phase' = "end"
  BY <1>1 DEF SourcesInv
<1>2. CASE phase' = phase /\ pos' = pos
  BY <1>2 DEF SourcesInv, Wanted, Source, Keyed
<1>3. ASSUME \A field : Keyed(field)' = Keyed(field), phase \in {"open", "smt2", "dr"},
             phase' \in {"smt2", "dr"}
      PROVE  SourcesInv'
  BY <1>3 DEF SourcesInv, Wanted, Source
<1>4. CASE phase = "open" /\ phase' \in {"smt2", "dr"} /\ pos' = pos
  <2>1. \A field : Keyed(field)' = Keyed(field)
    BY <1>4 DEF SourcesInv, Keyed
  <2> QED
    BY <1>3, <1>4, <2>1
<1>5. CASE phase = "dr" /\ phase' = "dr"
  <2>1. \A field : Keyed(field)' = Keyed(field)
    BY <1>5 DEF Keyed
  <2> QED
    BY <1>3, <1>5, <2>1
<1>6. CASE /\ phase = "smt2" /\ phase' = "smt2" /\ pos' = pos + 1
           /\ case.content[pos].c # "set-option"
  <2>1. \A field : Keyed(field)' = Keyed(field)
    BY <1>6 DEF Keyed, SourcesInv
  <2> QED
    BY <1>3, <1>6, <2>1
<1> QED
  BY <1>1, <1>2, <1>4, <1>5, <1>6

LEMMA SourcesExtract ==
  ASSUME SourcesInv, Extract
  PROVE  SourcesInv'
<1>1. CASE phase' = "end"
  BY <1>1 DEF SourcesInv, Extract
<1>2. CASE phase' = "open"
  <2>1. /\ config = NewConfig /\ pos = 1 /\ pos' = pos /\ case' = case
        /\ case.entry = "main" /\ config' = ExtractOptions(case.options, config)
    BY <1>2 DEF SourcesInv, Extract
  <2>2. DOMAIN config' = Fields
    BY <2>1 DEF ExtractOptions, NewConfig
  <2>3. ASSUME NEW field \in Fields
        PROVE  config'[field] = [value |-> Wanted(field)', type |-> Source(field)']
    <3>1. Keyed(field)' = {}
      BY <2>1 DEF Keyed
    <3>2. config[field] = [value |-> Default(field), type |-> "DEFAULT"]
      BY <2>1 DEF NewConfig, OptionValue
    <3>3. CASE Setting(case.options, field) = {}
      BY <2>1, <3>1, <3>2, <3>3 DEF ExtractOptions, Wanted, Source, NewConfig
    <3>4. CASE Setting(case.options, field) # {}
      <4>1. config'[field] = SetFromCommandLine(config[field], Given(case.options, field))
        BY <2>1, <3>4 DEF ExtractOptions, NewConfig
      <4>2. config'[field] = [value |-> Given(case.options, field), type |-> "FROM_COMMAND_LINE"]
        BY <4>1, <3>2 DEF SetFromCommandLine
      <4> QED
        BY <2>1, <4>2, <3>4 DEF Wanted, Source
    <3> QED
      BY <3>3, <3>4
  <2> QED
    BY <1>2, <2>1, <2>2, <2>3 DEF SourcesInv
<1> QED
  BY <1>1, <1>2 DEF Extract, Throw, Exit

LEMMA SourcesEmbed ==
  ASSUME SourcesInv, Embed
  PROVE  SourcesInv'
<1>1. /\ config = NewConfig /\ pos = 1 /\ pos' = pos /\ case' = case /\ phase' = "smt2"
      /\ case.entry = "code"
      /\ config' = [config EXCEPT !["precision"] = SetFromCode(3)]
  BY DEF SourcesInv, Embed
<1>2. DOMAIN config' = Fields /\ "precision" \in Fields
  BY <1>1 DEF NewConfig, Fields, UnitFields
<1>3. ASSUME NEW field \in Fields
      PROVE  config'[field] = [value |-> Wanted(field)', type |-> Source(field)']
  <2>1. Keyed(field)' = {}
    BY <1>1 DEF Keyed
  <2>2. CASE field = "precision"
    BY <1>1, <1>2, <2>2 DEF NewConfig, SetFromCode, Wanted, Source
  <2>3. CASE field # "precision"
    <3>1. config'[field] = [value |-> Default(field), type |-> "DEFAULT"]
      BY <1>1, <2>3 DEF NewConfig, OptionValue
    <3> QED
      BY <1>1, <2>1, <2>3, <3>1 DEF Wanted, Source
  <2> QED
    BY <2>2, <2>3
<1> QED
  BY <1>1, <1>2, <1>3 DEF SourcesInv

LEMMA SourcesSetOption ==
  ASSUME SourcesInv, Smt2SetOption
  PROVE  SourcesInv'
<1>1. CASE phase' = "end"
  BY <1>1 DEF SourcesInv, Smt2SetOption, Throw, Continue
<1>2. CASE phase' # "end"
  <2>1. /\ phase = "smt2" /\ phase' = "smt2" /\ case' = case /\ pos' = pos + 1
        /\ Command.c = "set-option" /\ pos \in Nat \ {0}
        /\ config' = SetOption(Command, config)
    BY <1>2 DEF SourcesInv, Smt2SetOption, Throw, Exit, Continue, AtCommand, Command
  <2>2. DOMAIN config = Fields /\ DOMAIN config' = Fields
    BY <2>1 DEF SourcesInv, SetOption
  <2>3. ASSUME NEW field \in Fields
        PROVE  config'[field] = [value |-> Wanted(field)', type |-> Source(field)']
    <3> DEFINE was == config[field]
    <3>1. was = [value |-> Wanted(field), type |-> Source(field)]
      BY <2>1 DEF SourcesInv
    <3>2. Keyed(field)' = Keyed(field) \cup {i \in {pos} : Sets(Command, field)}
      BY <2>1 DEF Keyed, Command
    <3>3. CASE ~Sets(Command, field)
      <4>1. config'[field] = was
        BY <2>1, <2>2, <3>3 DEF SetOption
      <4>2. Keyed(field)' = Keyed(field)
        BY <3>2, <3>3
      <4> QED
        BY <2>1, <3>1, <4>1, <4>2 DEF Wanted, Source
    <3>4. CASE Sets(Command, field)
      <4>1. config'[field] = SetFromFile(was, Said(Command))
        BY <2>1, <2>2, <3>4 DEF SetOption
      <4>2. Keyed(field)' # {}
        BY <3>2, <3>4
      <4>3. Latest(Keyed(field)') = pos
        <5>1. pos \in Keyed(field)' /\ Keyed(field)' \subseteq 1..pos
          BY <2>1, <3>2, <3>4 DEF Keyed
        <5> QED
          BY <2>1, <5>1, LatestIs
      <4>a. Latest(Keyed(field))' = pos
        BY <4>3 DEF Latest
      <4>4. CASE case.entry = "code" /\ field = "precision"
        BY <2>1, <3>1, <4>1, <4>4 DEF Wanted, Source, SetFromFile
      <4>5. CASE case.entry = "main" /\ Setting(case.options, field) # {}
        BY <2>1, <3>1, <4>1, <4>5 DEF Wanted, Source, SetFromFile
      <4>6. CASE /\ ~(case.entry = "code" /\ field = "precision")
                 /\ ~(case.entry = "main" /\ Setting(case.options, field) # {})
        <5>1. Source(field) \in {"DEFAULT", "FROM_FILE"}
          BY <4>6 DEF Source
        <5>2. config'[field] = [value |-> Said(Command), type |-> "FROM_FILE"]
          BY <3>1, <4>1, <5>1 DEF SetFromFile
        <5>3. Wanted(field)' = Said(Command) /\ Source(field)' = "FROM_FILE"
          BY <2>1, <4>2, <4>a, <4>6 DEF Wanted, Source, Command
        <5> QED
          BY <5>2, <5>3
      <4> QED
        BY <4>4, <4>5, <4>6
    <3> QED
      BY <3>3, <3>4
  <2> QED
    BY <2>1, <2>2, <2>3 DEF SourcesInv
<1> QED
  BY <1>1, <1>2

LEMMA SourcesInit == Init => SourcesInv
BY DEF Init, SourcesInv

LEMMA SourcesNext == SourcesInv /\ [Next]_vars => SourcesInv'
<1> SUFFICES ASSUME SourcesInv, [Next]_vars
             PROVE  SourcesInv'
  OBVIOUS
<1>p. pos \in Nat \ {0} /\ pos + 1 \in Nat \ {0}
  BY DEF SourcesInv
<1>1. CASE ValidateOptions
  <2>1. phase' = "end" \/ phase' = "options"
    BY <1>1 DEF ValidateOptions, Exit
  <2>2. config' = config /\ pos' = pos /\ phase = "main" /\ case.entry = "main" /\ case' = case
    BY <1>1 DEF ValidateOptions
  <2> QED
    BY <2>1, <2>2 DEF SourcesInv
<1>2. CASE Extract
  BY <1>2, SourcesExtract
<1>3. CASE OpenInput
  <2>1. /\ phase = "open" /\ phase' \in {"end", "smt2", "dr"} /\ config' = config
        /\ pos' = pos /\ case' = case
    BY <1>3 DEF OpenInput, Exit
  <2> QED
    BY <1>p, <2>1, SourcesStay
<1>4. CASE Embed
  BY <1>4, SourcesEmbed
<1>5. CASE Smt2SetOption
  BY <1>5, SourcesSetOption
<1>6. CASE Smt2Declare \/ Smt2Assert \/ Smt2Minimize \/ Smt2CheckSat \/ Smt2GetModel \/ Smt2GetOption
  <2>1. /\ phase = "smt2" /\ phase' = "smt2" /\ pos' = pos + 1 /\ case' = case
        /\ config' = config /\ case.content[pos].c # "set-option"
    BY <1>6 DEF Smt2Declare, Smt2Assert, Smt2Minimize, Smt2CheckSat, Smt2GetModel,
                Smt2GetOption, AtCommand, Continue
  <2> QED
    BY <1>p, <2>1, SourcesStay
<1>7. CASE Smt2SetLogic
  <2>1. /\ phase = "smt2" /\ case' = case /\ config' = config
        /\ case.content[pos].c # "set-option"
        /\ \/ phase' = "end" /\ pos' = pos
           \/ phase' = "smt2" /\ pos' = pos + 1
    BY <1>7 DEF Smt2SetLogic, AtCommand, Continue, Throw, Exit
  <2> QED
    BY <1>p, <2>1, SourcesStay
<1>8. CASE Smt2Undeclared \/ MinimizeThrows \/ Smt2PushPop \/ Smt2Exit \/ DrError \/ DrSolve
  <2>1. phase' = "end" /\ pos' = pos /\ case' = case /\ config' = config
    BY <1>8 DEF Smt2Undeclared, MinimizeThrows, Smt2PushPop, Smt2Exit, DrError, DrSolve, Throw, Exit
  <2> QED
    BY <1>p, <2>1, SourcesStay
<1>9. CASE DrDeclare \/ DrAssert \/ DrMinimize
  <2>1. phase = "dr" /\ phase' = "dr" /\ pos' = pos + 1 /\ case' = case /\ config' = config
    BY <1>9 DEF DrDeclare, DrAssert, DrMinimize, InSection, Continue
  <2> QED
    BY <1>p, <2>1, SourcesStay
<1>10. CASE UNCHANGED vars
  BY <1>p, <1>10, SourcesStay DEF vars
<1> QED
  BY <1>1, <1>2, <1>3, <1>4, <1>5, <1>6, <1>7, <1>8, <1>9, <1>10 DEF Next, Main, Smt2, Dr

\* option_value.h, dreal_main.cc, context_impl.cc: whatever the command line, the
\* embedding program and the set-option commands so far said, and in whatever
\* order, every option has the value its strongest source gave it last.
THEOREM OptionsAsAsked == Spec => []StrongestSourceWins
<1>1. SourcesInv => StrongestSourceWins
  <2> SUFFICES ASSUME SourcesInv, phase \in {"open", "smt2", "dr"}, NEW field \in DOMAIN config
               PROVE  Get(config, field) = Wanted(field)
    BY DEF StrongestSourceWins
  <2>1. config[field] = [value |-> Wanted(field), type |-> Source(field)]
    BY DEF SourcesInv
  <2> QED
    BY <2>1 DEF Get
<1> QED
  BY <1>1, SourcesInit, SourcesNext, PTL DEF Spec

Compatible ==
  /\ ~ShavingConflict(config)
  /\ IsSet("--seed-samples") /\ case.entry = "main"
       => ~(case.options["--seed-samples"][1] > 0
             /\ IsSet("--jobs") /\ case.options["--jobs"][1] > 1)

ConflictsInv ==
  /\ phase \in {"main", "options"} => output = << >>
  /\ phase = "options" => IsValid
  /\ phase \in {"open", "smt2", "dr"} \/ output # << >> => Compatible

LEMMA SettingSeedSamples ==
  ASSUME NEW options, "--seed-samples" \in DOMAIN options
  PROVE  Setting(options, "seed_samples") = {"--seed-samples"}
BY DEF Setting, FieldOf, SolverFields, NumericFields, OdeFields, SearchFields

LEMMA SettingJobs ==
  ASSUME NEW options, "--jobs" \in DOMAIN options
  PROVE  Setting(options, "number_of_jobs") = {"--jobs"}
BY DEF Setting, FieldOf, SolverFields, NumericFields, OdeFields, SearchFields

\* What a flag with one argument gives the one field it sets.
LEMMA ExtractedNumber ==
  ASSUME NEW options, NEW flag \in {"--seed-samples", "--jobs"}, NEW field \in Fields,
         Setting(options, field) = {flag}, GotExpected(flag, options[flag])
  PROVE  Get(ExtractOptions(options, NewConfig), field) = options[flag][1]
<1>1. \E p \in Flags : p[1] = flag /\ p[2].arity = 1
  <2>1. <<"--seed-samples", NonNegative>> \in Flags /\ <<"--jobs", Unchecked>> \in Flags
    BY DEF Flags, SolverFlags, SearchFlags
  <2>2. NonNegative.arity = 1 /\ Unchecked.arity = 1
    BY DEF NonNegative, Unchecked, AtLeast
  <2>3. CASE flag = "--seed-samples"
    BY <2>1, <2>2, <2>3
  <2>4. CASE flag = "--jobs"
    BY <2>1, <2>2, <2>4
  <2> QED
    BY <2>3, <2>4
<1>2. options[flag] # << >>
  BY <1>1 DEF GotExpected
<1>3. Given(options, field) = ValueGiven(flag, options[flag])
  BY DEF Given
<1>4. ValueGiven(flag, options[flag]) = options[flag][1]
  BY <1>2 DEF ValueGiven
<1>5. ExtractOptions(options, NewConfig)[field]
        = SetFromCommandLine(OptionValue(Default(field)), Given(options, field))
  BY DEF ExtractOptions, NewConfig
<1> QED
  BY <1>3, <1>4, <1>5 DEF SetFromCommandLine, OptionValue, Get

LEMMA ConflictsExtract ==
  ASSUME SourcesInv, ConflictsInv, Extract
  PROVE  ConflictsInv'
<1>1. /\ config = NewConfig /\ case' = case /\ output = << >> /\ output' = output /\ IsValid
      /\ config' = ExtractOptions(case.options, config)
  BY DEF SourcesInv, ConflictsInv, Extract
<1>2. CASE phase' = "end"
  BY <1>1, <1>2 DEF ConflictsInv
<1>3. CASE phase' # "end"
  <2>1. phase' = "open" /\ ~SeedConflict(case.options, config') /\ ~ShavingConflict(config')
    BY <1>3 DEF Extract, Throw, Exit
  <2>2. ASSUME IsSet("--seed-samples"), IsSet("--jobs")
        PROVE  ~(case.options["--seed-samples"][1] > 0 /\ case.options["--jobs"][1] > 1)
    <3>1. "seed_samples" \in Fields /\ "number_of_jobs" \in Fields
      BY DEF Fields, UnitFields
    <3>2. /\ GotExpected("--seed-samples", case.options["--seed-samples"])
          /\ GotExpected("--jobs", case.options["--jobs"])
      BY <1>1, <2>2 DEF IsValid, IsSet
    <3>3. /\ Setting(case.options, "seed_samples") = {"--seed-samples"}
          /\ Setting(case.options, "number_of_jobs") = {"--jobs"}
      BY <2>2, SettingSeedSamples, SettingJobs DEF IsSet
    <3>4. Get(config', "seed_samples") = case.options["--seed-samples"][1]
      BY <1>1, <3>1, <3>2, <3>3, ExtractedNumber
    <3>5. Get(config', "number_of_jobs") = case.options["--jobs"][1]
      BY <1>1, <3>1, <3>2, <3>3, ExtractedNumber
    <3> QED
      BY <2>1, <2>2, <3>4, <3>5 DEF SeedConflict, IsSet
  <2> QED
    BY <1>1, <2>1, <2>2 DEF ConflictsInv, Compatible, IsSet
<1> QED
  BY <1>2, <1>3

LEMMA ConflictsEmbed ==
  ASSUME SourcesInv, ConflictsInv, Embed
  PROVE  ConflictsInv'
<1>1. /\ config = NewConfig /\ case' = case /\ phase' = "smt2" /\ case.entry = "code"
      /\ config' = [config EXCEPT !["precision"] = SetFromCode(3)]
  BY DEF SourcesInv, Embed
<1>2. "use_acid" \in Fields /\ Default("use_acid") = FALSE
  BY DEF Fields, OffFields, UnitFields, ZeroFields, Default
<1>3. Get(config', "use_acid") = FALSE
  BY <1>1, <1>2 DEF NewConfig, OptionValue, Get
<1> QED
  BY <1>1, <1>3 DEF ConflictsInv, Compatible, ShavingConflict

\* The shaving contractors are chosen on the command line only.
LEMMA ConflictsSetOption ==
  ASSUME SourcesInv, ConflictsInv, Smt2SetOption
  PROVE  ConflictsInv'
<1>1. phase = "smt2" /\ case' = case /\ output' = output /\ phase' \in {"smt2", "end"} /\ Compatible
  BY DEF ConflictsInv, Smt2SetOption, AtCommand, Throw, Exit, Continue
<1>2. CASE config' = config
  BY <1>1, <1>2 DEF ConflictsInv, Compatible, ShavingConflict, IsSet
<1>3. CASE config' = SetOption(Command, config)
  <2>1. /\ ~Sets(Command, "use_acid") /\ ~Sets(Command, "use_3bcid")
        /\ "use_acid" \in Fields /\ "use_3bcid" \in Fields
    BY DEF Sets, KeysFor, BooleanKeys, NumberKeys, Fields, OffFields
  <2>2. config'["use_acid"] = config["use_acid"] /\ config'["use_3bcid"] = config["use_3bcid"]
    BY <1>1, <1>3, <2>1 DEF SourcesInv, SetOption
  <2> QED
    BY <1>1, <2>2 DEF ConflictsInv, Compatible, ShavingConflict, IsSet, Get
<1> QED
  BY <1>2, <1>3 DEF Smt2SetOption, Throw

LEMMA ConflictsNext == SourcesInv /\ ConflictsInv /\ [Next]_vars => ConflictsInv'
<1> SUFFICES ASSUME SourcesInv, ConflictsInv, [Next]_vars
             PROVE  ConflictsInv'
  OBVIOUS
<1>1. CASE ValidateOptions
  BY <1>1 DEF ValidateOptions, ConflictsInv, IsValid, IsSet, Exit
<1>2. CASE Extract
  BY <1>2, ConflictsExtract
<1>3. CASE Embed
  BY <1>3, ConflictsEmbed
<1>4. CASE Smt2SetOption
  BY <1>4, ConflictsSetOption
<1>5. CASE /\ case' = case /\ config' = config
           /\ phase \in {"open", "smt2", "dr"} /\ phase' \notin {"main", "options"}
  BY <1>5 DEF ConflictsInv, Compatible, ShavingConflict, IsSet
<1>6. CASE OpenInput
  BY <1>5, <1>6 DEF OpenInput, Exit
<1>7. CASE Smt2Declare \/ Smt2Assert \/ Smt2Minimize \/ Smt2CheckSat \/ Smt2GetModel \/ Smt2GetOption
  BY <1>5, <1>7 DEF Smt2Declare, Smt2Assert, Smt2Minimize, Smt2CheckSat, Smt2GetModel,
                    Smt2GetOption, AtCommand, Continue
<1>8. CASE Smt2SetLogic \/ Smt2Undeclared \/ MinimizeThrows \/ Smt2PushPop \/ Smt2Exit
  BY <1>5, <1>8 DEF Smt2SetLogic, Smt2Undeclared, MinimizeThrows, Smt2PushPop, Smt2Exit,
                    AtCommand, Continue, Throw, Exit
<1>9. CASE Dr
  BY <1>5, <1>9 DEF Dr, DrDeclare, DrAssert, DrMinimize, DrError, DrSolve, InSection, Continue, Exit
<1>10. CASE UNCHANGED vars
  BY <1>10 DEF vars, ConflictsInv, Compatible, ShavingConflict, IsValid, IsSet
<1> QED
  BY <1>1, <1>2, <1>3, <1>4, <1>6, <1>7, <1>8, <1>9, <1>10 DEF Next, Main, Smt2, Dr

\* dreal_main.cc, context_impl.cc: a run with both shaving contractors, or with
\* an explicit --seed-samples and several jobs, answers nothing, whichever
\* source sets these options and when.
THEOREM NoAnswerFromAConflict == Spec => []ConflictsAnswerNothing
<1>1. Init => ConflictsInv
  BY DEF Init, ConflictsInv
<1>2. ConflictsInv => ConflictsAnswerNothing
  BY DEF ConflictsInv, ConflictsAnswerNothing, Compatible
<1> QED
  BY <1>1, <1>2, SourcesInit, SourcesNext, ConflictsNext, PTL DEF Spec

----------------------------------------------------------------------------
(* What is printed. *)

IsSequence(s) == s \in Seq({s[i] : i \in DOMAIN s})

LEMMA Appended ==
  ASSUME NEW s, IsSequence(s), NEW e
  PROVE  /\ IsSequence(Append(s, e))
         /\ Len(s) \in Nat /\ Len(Append(s, e)) = Len(s) + 1
         /\ DOMAIN s = 1..Len(s) /\ DOMAIN Append(s, e) = 1..(Len(s) + 1)
         /\ \A i \in 1..Len(s) : Append(s, e)[i] = s[i]
         /\ Append(s, e)[Len(s) + 1] = e
<1> DEFINE S == {s[i] : i \in DOMAIN s} \cup {e}
           t == Append(s, e)
<1>1. s \in Seq(S) /\ e \in S
  BY DEF IsSequence
<1>2. Len(s) \in Nat /\ DOMAIN s = 1..Len(s)
  BY <1>1
<1>3. t \in Seq(S) /\ Len(t) = Len(s) + 1 /\ (\A i \in 1..Len(s) : t[i] = s[i]) /\ t[Len(s) + 1] = e
  BY <1>1, AppendProperties
<1>4. DOMAIN t = 1..(Len(s) + 1)
  BY <1>3
<1>5. t \in Seq({t[i] : i \in DOMAIN t})
  BY <1>3
<1> QED
  BY <1>2, <1>3, <1>4, <1>5 DEF IsSequence

ChecksIn(out, i) == {j \in 1..(i - 1) : out[j].kind \in {"unsat", "delta-sat"}}

LastModel(out, i) ==
  IF ChecksIn(out, i) = {} THEN NoModel ELSE out[Latest(ChecksIn(out, i))].model

IsRight(content, out, i) ==
  /\ out[i].kind = "unsat" => out[i].model = NoModel
  /\ out[i].kind = "delta-sat" => DOMAIN out[i].model = Scope(content, out[i].at)
  /\ out[i].kind = "model" => out[i].model = LastModel(out, i)

OutputIsRight(content, out, m) ==
  /\ IsSequence(out)
  /\ \A i \in DOMAIN out : IsRight(content, out, i)
  /\ m = LastModel(out, Len(out) + 1)

DeclaredInv ==
  /\ phase \in {"main", "options", "open"} => pos = 1
  /\ IsSequence(objectives) /\ counter \in Nat
  /\ IsFiniteSet(DOMAIN box)
  /\ models = Scope(case.content, pos) /\ models \subseteq DOMAIN box

LEMMA NoNamesYet == Scope(case.content, 1) = {}
BY DEF Scope, Declared

LEMMA ScopeOfNext ==
  ASSUME NEW content, NEW n \in Nat \ {0}
  PROVE  Scope(content, n + 1)
           = Scope(content, n) \cup {content[i].v : i \in {j \in {n} : content[j].c = "declare"}}
<1>1. {j \in 1..((n + 1) - 1) : content[j].c = "declare"}
        = {j \in 1..(n - 1) : content[j].c = "declare"} \cup {j \in {n} : content[j].c = "declare"}
  OBVIOUS
<1> QED
  BY <1>1 DEF Scope, Declared

LEMMA MinimizedBox ==
  ASSUME NEW b, NEW s, NEW n \in Nat, NEW fs, IsSequence(fs), IsFiniteSet(DOMAIN b)
  PROVE  /\ DOMAIN b \subseteq DOMAIN Minimized(b, s, n, fs).box
         /\ IsFiniteSet(DOMAIN Minimized(b, s, n, fs).box)
<1> DEFINE k == Len(fs)
           zs == SubSeq(ZNames, n + 1, n + k)
           names == {zs[i] : i \in DOMAIN zs}
           g == [i \in DOMAIN zs |-> zs[i]]
<1>1. k \in Nat
  BY DEF IsSequence
<1>2. DOMAIN zs = 1..k
  <2> DEFINE S == {ZNames[i] : i \in (n + 1)..(n + k)}
  <2>1. zs \in Seq(S) /\ Len(zs) = IF n + 1 <= n + k THEN (n + k) - (n + 1) + 1 ELSE 0
    BY <1>1, SubSeqProperties
  <2>2. Len(zs) = k
    BY <1>1, <2>1
  <2> QED
    BY <2>1, <2>2
<1>3. IsFiniteSet(1..k)
  BY <1>1, FS_Interval
<1>4. g \in Surjection(1..k, names)
  BY <1>2 DEF Surjection
<1>5. IsFiniteSet(names)
  <2>1. \A T : \A f \in Surjection(1..k, T) : IsFiniteSet(T)
    BY <1>3, FS_Surjection
  <2> HIDE DEF g, names, k
  <2> QED
    BY <1>4, <2>1
<1>6. DOMAIN Minimized(b, s, n, fs).box = DOMAIN b \cup names
  BY DEF Minimized
<1>7. IsFiniteSet(DOMAIN b \cup names)
  BY <1>5, FS_Union
<1> QED
  BY <1>6, <1>7

LEMMA ModelsDomain ==
  ASSUME NEW b, NEW s, NEW m \in Found(b, s), IsFiniteSet(DOMAIN b), models \subseteq DOMAIN b
  PROVE  /\ DOMAIN ExtractModel(m) = models
         /\ DOMAIN ExtractModel(Tighten(m)) = models
<1>1. DOMAIN m = DOMAIN b /\ DOMAIN Tighten(m) = DOMAIN b
  BY DEF Found, Tighten
<1>2. ASSUME NEW n, DOMAIN n = DOMAIN b
      PROVE  DOMAIN ExtractModel(n) = models
  <2>1. CASE Cardinality(models) = Cardinality(DOMAIN n)
    BY <1>2, <2>1, FS_Subset DEF ExtractModel
  <2>2. CASE Cardinality(models) # Cardinality(DOMAIN n)
    BY <1>2, <2>2 DEF ExtractModel
  <2> QED
    BY <2>1, <2>2
<1> QED
  BY <1>1, <1>2

\* A longer output: what was said of the lines before stays.
LEMMA LinesStay ==
  ASSUME NEW content, NEW out, NEW longer, NEW n \in Nat,
         \A i \in 1..n : longer[i] = out[i]
  PROVE  /\ \A i \in 1..(n + 1) : LastModel(longer, i) = LastModel(out, i)
         /\ \A i \in 1..n : IsRight(content, out, i) => IsRight(content, longer, i)
<1>1. ASSUME NEW i \in 1..(n + 1)
      PROVE  LastModel(longer, i) = LastModel(out, i)
  <2>1. ChecksIn(longer, i) = ChecksIn(out, i)
    BY DEF ChecksIn
  <2>2. ASSUME ChecksIn(out, i) # {}
        PROVE  Latest(ChecksIn(out, i)) \in 1..n
    <3>1. ChecksIn(out, i) \subseteq 1..(i - 1) /\ i - 1 \in Nat
      BY DEF ChecksIn
    <3>2. Latest(ChecksIn(out, i)) \in ChecksIn(out, i)
      BY <2>2, <3>1, LatestExists
    <3> QED
      BY <3>1, <3>2
  <2> QED
    BY <2>1, <2>2 DEF LastModel
<1>2. ASSUME NEW i \in 1..n, IsRight(content, out, i)
      PROVE  IsRight(content, longer, i)
  <2>1. longer[i] = out[i] /\ LastModel(longer, i) = LastModel(out, i)
    BY <1>1
  <2> QED
    BY <1>2, <2>1 DEF IsRight
<1> QED
  BY <1>1, <1>2

\* A line is printed.
LEMMA Printed ==
  ASSUME NEW content, NEW out, NEW m, OutputIsRight(content, out, m), NEW line, NEW n,
         line.kind = "unsat" => line.model = NoModel,
         line.kind = "delta-sat" => DOMAIN line.model = Scope(content, line.at),
         line.kind = "model" => line.model = m,
         n = IF line.kind \in {"unsat", "delta-sat"} THEN line.model ELSE m
  PROVE  OutputIsRight(content, Append(out, line), n)
<1> DEFINE k == Len(out)
           longer == Append(out, line)
<1>1. /\ IsSequence(longer) /\ k \in Nat /\ Len(longer) = k + 1
      /\ DOMAIN out = 1..k /\ DOMAIN longer = 1..(k + 1)
      /\ \A i \in 1..k : longer[i] = out[i]
      /\ longer[k + 1] = line
  BY Appended DEF OutputIsRight
<1>2. m = LastModel(out, k + 1) /\ \A i \in 1..k : IsRight(content, out, i)
  BY <1>1 DEF OutputIsRight
<1> HIDE DEF k, longer
<1>3. LastModel(longer, k + 1) = m /\ \A i \in 1..k : IsRight(content, longer, i)
  <2>1. /\ \A i \in 1..(k + 1) : LastModel(longer, i) = LastModel(out, i)
        /\ \A i \in 1..k : IsRight(content, out, i) => IsRight(content, longer, i)
    <3>1. k \in Nat /\ \A i \in 1..k : longer[i] = out[i]
      BY <1>1
    <3> QED
      BY <3>1, LinesStay
  <2>2. k + 1 \in 1..(k + 1)
    BY <1>1
  <2> QED
    BY <1>2, <2>1, <2>2
<1>4. IsRight(content, longer, k + 1)
  BY <1>1, <1>3 DEF IsRight
<1>5. n = LastModel(longer, (k + 1) + 1)
  <2>1. ChecksIn(longer, (k + 1) + 1)
          = ChecksIn(longer, k + 1) \cup {j \in {k + 1} : line.kind \in {"unsat", "delta-sat"}}
    BY <1>1 DEF ChecksIn
  <2>2. CASE line.kind \in {"unsat", "delta-sat"}
    <3> DEFINE cs == ChecksIn(longer, (k + 1) + 1)
    <3>1. k + 1 \in cs /\ cs \subseteq 1..(k + 1)
      BY <1>1, <2>1, <2>2 DEF ChecksIn
    <3>2. Latest(cs) = k + 1
      BY <1>1, <3>1, LatestIs
    <3> QED
      BY <1>1, <2>2, <3>1, <3>2 DEF LastModel
  <2>3. CASE line.kind \notin {"unsat", "delta-sat"}
    <3>1. ChecksIn(longer, (k + 1) + 1) = ChecksIn(longer, k + 1)
      BY <2>1, <2>3
    <3> QED
      BY <1>3, <2>3, <3>1 DEF LastModel
  <2> QED
    BY <2>2, <2>3
<1>6. \A i \in DOMAIN longer : IsRight(content, longer, i)
  BY <1>1, <1>3, <1>4
<1>7. OutputIsRight(content, longer, n)
  BY <1>1, <1>5, <1>6 DEF OutputIsRight
<1> QED
  BY <1>7 DEF longer

ModelsInv == DeclaredInv /\ OutputIsRight(case.content, output, model)

\* The declarations stand where they stood.
LEMMA DeclaredStay ==
  ASSUME DeclaredInv, pos \in Nat \ {0}, case' = case, box' = box, models' = models,
         counter' = counter, phase' \in {"main", "options", "open"} => pos' = 1,
         objectives' = objectives \/ \E f : objectives' = Append(objectives, f),
         \/ pos' = pos
         \/ pos' = pos + 1 /\ case.content[pos].c # "declare"
  PROVE  DeclaredInv'
<1>1. IsSequence(objectives')
  <2>1. IsSequence(objectives)
    BY DEF DeclaredInv
  <2>2. \A f : IsSequence(Append(objectives, f))
    BY <2>1, Appended
  <2> QED
    BY <2>1, <2>2
<1>2. Scope(case.content, pos + 1) = Scope(case.content, pos)
        \/ case.content[pos].c = "declare"
  <2>1. Scope(case.content, pos + 1)
          = Scope(case.content, pos)
              \cup {case.content[i].v : i \in {j \in {pos} : case.content[j].c = "declare"}}
    BY ScopeOfNext
  <2> QED
    BY <2>1
<1>3. Scope(case.content, pos') = Scope(case.content, pos)
  BY <1>2
<1> QED
  BY <1>1, <1>3 DEF DeclaredInv

LEMMA DeclareNext ==
  ASSUME DeclaredInv, pos \in Nat \ {0}, case' = case, Command.c = "declare",
         box' = WithDomain(box, Command.v, Command.domain),
         models' = models \cup {Command.v},
         counter' = counter, objectives' = objectives,
         phase' \in {"smt2", "dr"}, pos' = pos + 1
  PROVE  DeclaredInv'
<1>1. DOMAIN box' = DOMAIN box \cup {Command.v}
  BY DEF WithDomain
<1>2. IsFiniteSet(DOMAIN box')
  BY <1>1, FS_AddElement DEF DeclaredInv
<1>3. Scope(case.content, pos + 1) = Scope(case.content, pos) \cup {Command.v}
  BY ScopeOfNext DEF Command
<1> QED
  BY <1>1, <1>2, <1>3 DEF DeclaredInv

\* What the context holds after a minimization.
LEMMA MinimizeNext ==
  ASSUME DeclaredInv, pos \in Nat \ {0}, case' = case, models' = models,
         objectives' = objectives, phase' \in {"smt2", "end"}, NEW s, NEW fs, IsSequence(fs),
         box' = Minimized(box, s, counter, fs).box, counter' = counter + Len(fs),
         \/ pos' = pos
         \/ pos' = pos + 1 /\ case.content[pos].c # "declare"
  PROVE  DeclaredInv'
<1>1. DOMAIN box \subseteq DOMAIN box' /\ IsFiniteSet(DOMAIN box')
  BY MinimizedBox DEF DeclaredInv
<1>2. Scope(case.content, pos + 1) = Scope(case.content, pos)
        \/ case.content[pos].c = "declare"
  <2>1. Scope(case.content, pos + 1)
          = Scope(case.content, pos)
              \cup {case.content[i].v : i \in {j \in {pos} : case.content[j].c = "declare"}}
    BY ScopeOfNext
  <2> QED
    BY <2>1
<1>3. Scope(case.content, pos') = Scope(case.content, pos)
  BY <1>2
<1>4. counter' \in Nat
  BY DEF DeclaredInv, IsSequence
<1> QED
  BY <1>1, <1>3, <1>4 DEF DeclaredInv

LEMMA CheckSatPrints ==
  ASSUME NEW b, NEW s, CheckSat(b, s), OutputIsRight(case.content, output, model), case' = case,
         IsFiniteSet(DOMAIN b), models \subseteq DOMAIN b, models = Scope(case.content, pos)
  PROVE  OutputIsRight(case.content, output, model)'
<1>1. CASE model' = NoModel /\ Report("unsat", NoModel)
  <2>1. output' = Append(output, [kind |-> "unsat", at |-> pos, model |-> NoModel])
    BY <1>1 DEF Report
  <2>2. OutputIsRight(case.content, output', model')
    BY <1>1, <2>1, Printed
  <2> QED
    BY <2>2
<1>2. CASE \E m \in Found(b, s) : ReportModel(m)
  <2>1. PICK m \in Found(b, s) : ReportModel(m)
    BY <1>2
  <2>2. PICK n : /\ n \in {ExtractModel(m), ExtractModel(Tighten(m))}
                 /\ model' = n
                 /\ output' = Append(output, [kind |-> "delta-sat", at |-> pos, model |-> n])
    BY <2>1 DEF ReportModel, Report
  <2>3. DOMAIN n = models
    BY <2>2, ModelsDomain
  <2>4. OutputIsRight(case.content, output', model')
    BY <2>2, <2>3, Printed
  <2> QED
    BY <2>4
<1> QED
  BY <1>1, <1>2 DEF CheckSat

LEMMA ModelsNext == SourcesInv /\ ModelsInv /\ [Next]_vars => ModelsInv'
<1> SUFFICES ASSUME SourcesInv, ModelsInv, [Next]_vars
             PROVE  ModelsInv'
  OBVIOUS
<1>a. pos \in Nat \ {0} /\ DeclaredInv /\ OutputIsRight(case.content, output, model)
  BY DEF SourcesInv, ModelsInv
<1>b. ASSUME DeclaredInv', case' = case, output' = output, model' = model
      PROVE  ModelsInv'
  BY <1>a, <1>b DEF ModelsInv
<1>1. CASE Main
  <2>1. /\ case' = case /\ output' = output /\ model' = model /\ box' = box /\ models' = models
        /\ counter' = counter /\ objectives' = objectives /\ pos' = pos
        /\ phase \in {"main", "options", "open"}
    BY <1>1 DEF Main, ValidateOptions, Extract, OpenInput, Embed, context, driver
  <2>2. pos' = 1
    BY <1>a, <2>1 DEF DeclaredInv
  <2>3. DeclaredInv'
    BY <1>a, <2>1, <2>2, DeclaredStay
  <2> QED
    BY <1>b, <2>1, <2>3
<1>2. CASE Smt2Declare \/ DrDeclare
  <2>1. /\ case' = case /\ output' = output /\ model' = model /\ Command.c = "declare"
        /\ box' = WithDomain(box, Command.v, Command.domain)
        /\ models' = models \cup {Command.v}
        /\ counter' = counter /\ objectives' = objectives /\ pos' = pos + 1
        /\ phase' \in {"smt2", "dr"}
    BY <1>2 DEF Smt2Declare, DrDeclare, AtCommand, InSection, Continue, driver, Command
  <2>2. DeclaredInv'
    BY <1>a, <2>1, DeclareNext
  <2> QED
    BY <1>b, <2>1, <2>2
<1>3. CASE Smt2Assert \/ Smt2SetOption \/ Smt2SetLogic
  <2>1. /\ case' = case /\ output' = output /\ model' = model /\ box' = box /\ models' = models
        /\ counter' = counter /\ objectives' = objectives /\ phase' \in {"smt2", "end"}
        /\ \/ pos' = pos
           \/ pos' = pos + 1 /\ case.content[pos].c # "declare"
    BY <1>3 DEF Smt2Assert, Smt2SetOption, Smt2SetLogic, AtCommand, Continue, Throw, Exit, driver, context
  <2>2. DeclaredInv'
    BY <1>a, <2>1, DeclaredStay
  <2> QED
    BY <1>b, <2>1, <2>2
<1>4. CASE Smt2Undeclared \/ MinimizeThrows \/ Smt2PushPop \/ Smt2Exit \/ DrError
  <2>1. /\ case' = case /\ output' = output /\ model' = model /\ box' = box /\ models' = models
        /\ counter' = counter /\ objectives' = objectives /\ phase' = "end" /\ pos' = pos
    BY <1>4 DEF Smt2Undeclared, MinimizeThrows, Smt2PushPop, Smt2Exit, DrError, Throw, Exit,
                driver, context
  <2>2. DeclaredInv'
    BY <1>a, <2>1, DeclaredStay
  <2> QED
    BY <1>b, <2>1, <2>2
<1>5. CASE DrAssert \/ DrMinimize
  <2>1. /\ case' = case /\ output' = output /\ model' = model /\ box' = box /\ models' = models
        /\ counter' = counter /\ phase' = "dr"
        /\ objectives' = objectives \/ \E f : objectives' = Append(objectives, f)
        /\ pos' = pos + 1 /\ case.content[pos].c # "declare"
    BY <1>5 DEF DrAssert, DrMinimize, InSection, Command, context
  <2>2. DeclaredInv'
    BY <1>a, <2>1, DeclaredStay
  <2> QED
    BY <1>b, <2>1, <2>2
<1>6. CASE Smt2Minimize
  <2> DEFINE fs == <<Command.f>>
  <2>1. /\ case' = case /\ output' = output /\ model' = model /\ models' = models
        /\ objectives' = objectives /\ phase' = "smt2"
        /\ box' = Minimized(box, stack, counter, fs).box /\ counter' = counter + 1
        /\ pos' = pos + 1 /\ case.content[pos].c # "declare"
    BY <1>6 DEF Smt2Minimize, AtCommand, Continue, driver
  <2>2. IsSequence(fs) /\ Len(fs) = 1
    BY DEF IsSequence
  <2> HIDE DEF fs
  <2>3. DeclaredInv'
    BY <1>a, <2>1, <2>2, MinimizeNext
  <2> QED
    BY <1>b, <2>1, <2>3
<1>7. CASE Smt2CheckSat
  <2>1. /\ case' = case /\ models' = models /\ box' = box /\ CheckSat(box, stack)
        /\ counter' = counter /\ objectives' = objectives /\ phase' = "smt2"
        /\ pos' = pos + 1 /\ case.content[pos].c # "declare"
    BY <1>7 DEF Smt2CheckSat, AtCommand, Continue, driver
  <2>2. DeclaredInv'
    BY <1>a, <2>1, DeclaredStay
  <2>3. OutputIsRight(case.content, output, model)'
    BY <1>a, <2>1, CheckSatPrints DEF DeclaredInv
  <2> QED
    BY <2>2, <2>3 DEF ModelsInv
<1>8. CASE Smt2GetModel \/ Smt2GetOption
  <2>1. /\ case' = case /\ model' = model /\ models' = models /\ box' = box
        /\ counter' = counter /\ objectives' = objectives /\ phase' = "smt2"
        /\ pos' = pos + 1 /\ case.content[pos].c # "declare"
    BY <1>8 DEF Smt2GetModel, Smt2GetOption, AtCommand, Continue, driver, context
  <2>2. DeclaredInv'
    BY <1>a, <2>1, DeclaredStay
  <2>3. PICK line : /\ output' = Append(output, line)
                    /\ line.kind \in {"model", "option"}
                    /\ line.kind = "model" => line.model = model
    BY <1>8 DEF Smt2GetModel, Smt2GetOption, Report
  <2>4. OutputIsRight(case.content, output', model)
    BY <1>a, <2>3, Printed
  <2> QED
    BY <2>1, <2>2, <2>4 DEF ModelsInv
<1>9. CASE DrSolve
  <2>1. /\ case' = case /\ models' = models /\ CheckSat(box', stack') /\ phase' = "end"
        /\ objectives' = objectives /\ pos' = pos
        /\ box' = Solved(box, stack).box /\ counter' = counter + Len(objectives)
    BY <1>9 DEF DrSolve, Exit, driver
  <2>2. DeclaredInv'
    <3>1. CASE objectives = << >>
      <4>1. box' = box /\ counter' = counter
        BY <1>a, <2>1, <3>1 DEF Solved, DeclaredInv
      <4> QED
        BY <1>a, <2>1, <4>1, DeclaredStay
    <3>2. CASE objectives # << >>
      <4>1. box' = Minimized(box, stack \o constraints, counter, objectives).box
        BY <2>1, <3>2 DEF Solved
      <4> QED
        BY <1>a, <2>1, <4>1, MinimizeNext DEF DeclaredInv
    <3> QED
      BY <3>1, <3>2
  <2>3. DOMAIN box' = DOMAIN (box') /\ IsFiniteSet(DOMAIN box') /\ models \subseteq DOMAIN box'
          /\ models = Scope(case.content, pos)
    BY <1>a, <2>1, <2>2 DEF DeclaredInv
  <2>4. OutputIsRight(case.content, output, model)'
    BY <1>a, <2>1, <2>3, CheckSatPrints
  <2> QED
    BY <2>2, <2>4 DEF ModelsInv
<1>10. CASE UNCHANGED vars
  BY <1>10 DEF vars, context, driver, ModelsInv, DeclaredInv
<1> QED
  BY <1>1, <1>2, <1>3, <1>4, <1>5, <1>6, <1>7, <1>8, <1>9, <1>10 DEF Next, Smt2, Dr

LEMMA ModelsInit == Init => ModelsInv
<1> SUFFICES ASSUME Init PROVE ModelsInv
  OBVIOUS
<1>1. IsSequence(<< >>) /\ Len(<< >>) = 0
  BY DEF IsSequence
<1>2. DeclaredInv
  BY <1>1, NoNamesYet, FS_EmptySet DEF Init, DeclaredInv, None
<1>3. ChecksIn(<< >>, 1) = {}
  BY DEF ChecksIn
<1>4. OutputIsRight(case.content, << >>, NoModel)
  BY <1>1, <1>3 DEF OutputIsRight, LastModel
<1> QED
  BY <1>2, <1>4 DEF Init, ModelsInv

\* context_impl.cc (CheckSat, ExtractModel), driver.cc (GetModel): what get-model
\* prints is the model of the last check-sat, over the variables declared
\* before that check, for every input.
THEOREM ModelsOfTheLastCheck == Spec => []ModelsAreOfTheLastCheck
<1>1. ModelsInv => ModelsAreOfTheLastCheck
  <2> SUFFICES ASSUME ModelsInv, NEW i \in DOMAIN output, output[i].kind = "model"
               PROVE  LET last == output[Latest(Checks(i))]
                      IN  IF Checks(i) = {} THEN output[i].model = NoModel
                          ELSE /\ output[i].model = last.model
                               /\ last.kind = "delta-sat" =>
                                    DOMAIN last.model = Scope(case.content, last.at)
    BY DEF ModelsAreOfTheLastCheck
  <2>1. Checks(i) = ChecksIn(output, i)
    BY DEF Checks, ChecksIn
  <2>2. output[i].model = LastModel(output, i)
    BY DEF ModelsInv, OutputIsRight, IsRight
  <2>3. CASE Checks(i) = {}
    BY <2>1, <2>2, <2>3 DEF LastModel
  <2>4. CASE Checks(i) # {}
    <3> DEFINE last == output[Latest(Checks(i))]
    <3>1. output[i].model = last.model
      BY <2>1, <2>2, <2>4 DEF LastModel
    <3>2. i \in 1..Len(output) /\ DOMAIN output = 1..Len(output) /\ Len(output) \in Nat
      BY DEF ModelsInv, OutputIsRight, IsSequence
    <3>3. Latest(Checks(i)) \in DOMAIN output
      <4>1. Checks(i) \subseteq 1..(i - 1) /\ i - 1 \in Nat
        BY <3>2 DEF Checks
      <4>2. Latest(Checks(i)) \in Checks(i)
        BY <2>4, <4>1, LatestExists
      <4> QED
        BY <3>2, <4>1, <4>2
    <3>4. last.kind = "delta-sat" => DOMAIN last.model = Scope(case.content, last.at)
      BY <3>3 DEF ModelsInv, OutputIsRight, IsRight
    <3> QED
      BY <2>4, <3>1, <3>4 DEF Scope, Declared
  <2> QED
    BY <2>3, <2>4
<1> QED
  BY <1>1, SourcesInit, SourcesNext, ModelsInit, ModelsNext, PTL DEF Spec

(* Points *)

LEMMA ProjectedPoint ==
  ASSUME NEW D, NEW A, A \subseteq D, NEW p \in Points(D)
  PROVE  /\ Projected(p, A) \in Points(A)
         /\ \A v \in A : Projected(p, A)[v] = p[v]
         /\ \A B : B \subseteq A => Projected(Projected(p, A), B) = Projected(p, B)
BY DEF Projected, Points

\* Two points that agree on the variables of a formula or an objective.
LEMMA AgreeOnVars ==
  ASSUME NEW p, NEW q, NEW f, \A v \in f.vars : p[v] = q[v]
  PROVE  (Satisfies(p, f) <=> Satisfies(q, f)) /\ Score(f, p) = Score(f, q)
<1>1. Projected(p, f.vars) = Projected(q, f.vars)
  BY DEF Projected
<1> QED
  BY <1>1 DEF Satisfies, Score

LEMMA ScoreIsValue ==
  ASSUME NEW f, f.value \in [Points(f.vars) -> Values], NEW D, f.vars \subseteq D,
         NEW p \in Points(D)
  PROVE  Score(f, p) \in Values
BY ProjectedPoint DEF Score

LEMMA SatisfiesNames ==
  ASSUME NEW f, NEW z, NEW D, f.vars \cup {z} \subseteq D, z \notin f.vars, NEW p \in Points(D)
  PROVE  Satisfies(p, Names(z, f)) <=> p[z] = Score(f, p)
<1> DEFINE vs == f.vars \cup {z}
           q == Projected(p, vs)
<1>1. q \in Points(vs) /\ q[z] = p[z] /\ Projected(q, f.vars) = Projected(p, f.vars)
  BY ProjectedPoint
<1>2. Names(z, f).vars = vs
  BY DEF Names
<1>3. Names(z, f).sat = {r \in Points(vs) : r[z] = f.value[Projected(r, f.vars)]}
  BY DEF Names
<1> HIDE DEF q
<1>4. q \in Names(z, f).sat <=> p[z] = f.value[Projected(p, f.vars)]
  BY <1>1, <1>3
<1> QED
  BY <1>2, <1>4 DEF Satisfies, Score, q

\* The points a minimization ranges over.
Rivals(b, side) == {y \in Points(side.vars) : /\ \A v \in side.vars : y[v] \in b[v]
                                              /\ \A f \in side.formulas : Satisfies(y, f)}

LEMMA SatisfiesOptimal ==
  ASSUME NEW b, NEW side, NEW fs, NEW zs, NEW D, NEW p \in Points(D),
         DOMAIN fs = DOMAIN zs, \A i \in DOMAIN zs : zs[i] \in D
  PROVE  /\ Optimal(b, side, fs, zs).vars = {zs[i] : i \in DOMAIN zs}
         /\ Optimal(b, side, fs, zs).forall = TRUE
         /\ Satisfies(p, Optimal(b, side, fs, zs))
              <=> \A y \in Rivals(b, side) : \E i \in DOMAIN fs : p[zs[i]] <= Score(fs[i], y)
<1> DEFINE zvars == {zs[i] : i \in DOMAIN zs}
           q == Projected(p, zvars)
           o == Optimal(b, side, fs, zs)
<1>1. zvars \subseteq D
  OBVIOUS
<1>2. q \in Points(zvars) /\ \A i \in DOMAIN fs : q[zs[i]] = p[zs[i]]
  <2>1. \A i \in DOMAIN fs : zs[i] \in zvars
    OBVIOUS
  <2> HIDE DEF zvars
  <2>2. q \in Points(zvars) /\ \A v \in zvars : q[v] = p[v]
    BY <1>1, ProjectedPoint
  <2> QED
    BY <2>1, <2>2
<1>3. /\ o.vars = zvars /\ o.forall = TRUE
      /\ o.sat = {r \in Points(zvars) :
                    \A y \in Rivals(b, side) : \E i \in DOMAIN fs : r[zs[i]] <= Score(fs[i], y)}
  BY DEF Optimal, Rivals, Score
<1> HIDE DEF o, q, zvars
<1>4. q \in o.sat <=> \A y \in Rivals(b, side) : \E i \in DOMAIN fs : p[zs[i]] <= Score(fs[i], y)
  BY <1>2, <1>3
<1>5. Satisfies(p, o) <=> q \in o.sat
  BY <1>3 DEF Satisfies, q
<1> QED
  BY <1>3, <1>4, <1>5 DEF o, zvars

(* Side constraints *)

LEMMA ConnectedIsClosed ==
  ASSUME NEW s, NEW xs
  PROVE  /\ xs \subseteq Connected(s, xs)
         /\ Connected(s, xs) \subseteq xs \cup UNION {s[i].vars : i \in DOMAIN s}
         /\ \A i \in DOMAIN s :
              s[i].vars \cap Connected(s, xs) # {} => s[i].vars \subseteq Connected(s, xs)
<1> DEFINE all == xs \cup UNION {s[i].vars : i \in DOMAIN s}
           closed == {c \in SUBSET all : xs \subseteq c /\ IsClosed(s, c)}
           con == {v \in all : \A c \in closed : v \in c}
<1>1. Connected(s, xs) = con
  BY DEF Connected
<1>2. xs \subseteq con /\ con \subseteq all
  OBVIOUS
<1>3. ASSUME NEW i \in DOMAIN s, NEW w \in s[i].vars \cap con, NEW v \in s[i].vars
      PROVE  v \in con
  <2>1. v \in all
    OBVIOUS
  <2>2. ASSUME NEW c \in closed
        PROVE  v \in c
    <3>1. w \in c
      OBVIOUS
    <3>2. s[i] \in Related(s, c)
      BY <3>1 DEF Related
    <3>3. IsClosed(s, c)
      OBVIOUS
    <3> QED
      BY <3>2, <3>3 DEF IsClosed
  <2> QED
    BY <2>1, <2>2
<1> HIDE DEF con
<1> QED
  BY <1>1, <1>2, <1>3

\* The points over E within the bounds of b that satisfy the formulas F.
Within(b, E, F) == {p \in Points(E) : /\ \A v \in E : p[v] \in b[v]
                                      /\ \A f \in F : Satisfies(p, f)}

\* A rival on the variables of the side constraints, elsewhere a point.
Merged(E, S, y, p) == [v \in E |-> IF v \in S THEN y[v] ELSE p[v]]

\* Side constraints over E: the formulas of F that share a variable with them.
IsSide(side, F, E) ==
  /\ \A f \in F : f.vars \subseteq E
  /\ side.vars \subseteq E
  /\ side.formulas = {f \in F : f.vars \cap side.vars # {}}
  /\ \A f \in side.formulas : f.vars \subseteq side.vars

LEMMA MergedIsWithin ==
  ASSUME NEW b, NEW E, NEW F, NEW side, IsSide(side, F, E),
         NEW p \in Within(b, E, F), NEW y \in Rivals(b, side)
  PROVE  /\ Merged(E, side.vars, y, p) \in Within(b, E, F)
         /\ \A g : g.vars \subseteq side.vars =>
              Score(g, Merged(E, side.vars, y, p)) = Score(g, y)
<1> DEFINE S == side.vars
           m == Merged(E, S, y, p)
<1>1. p \in Points(E) /\ y \in Points(S)
  BY DEF Within, Rivals
<1>s. /\ \A f \in F : f.vars \subseteq E
      /\ S \subseteq E
      /\ side.formulas = {f \in F : f.vars \cap S # {}}
      /\ \A f \in side.formulas : f.vars \subseteq S
  BY DEF IsSide
<1>2. m \in Points(E) /\ (\A v \in S : m[v] = y[v]) /\ \A v \in E \ S : m[v] = p[v]
  BY <1>1, <1>s DEF Merged, Points
<1> HIDE DEF m
<1>3. \A v \in E : m[v] \in b[v]
  BY <1>s, <1>2 DEF Within, Rivals
<1>4. ASSUME NEW f \in F
      PROVE  Satisfies(m, f)
  <2>1. CASE f \in side.formulas
    <3>1. \A v \in f.vars : m[v] = y[v]
      BY <1>s, <1>2, <2>1
    <3>2. Satisfies(y, f)
      BY <2>1 DEF Rivals
    <3> QED
      BY <3>1, <3>2, AgreeOnVars
  <2>2. CASE f \notin side.formulas
    <3>1. \A v \in f.vars : m[v] = p[v]
      BY <1>s, <1>2, <2>2
    <3>2. Satisfies(p, f)
      BY DEF Within
    <3> QED
      BY <3>1, <3>2, AgreeOnVars
  <2> QED
    BY <2>1, <2>2
<1>5. m \in Within(b, E, F)
  BY <1>2, <1>3, <1>4 DEF Within
<1>6. ASSUME NEW g, g.vars \subseteq S
      PROVE  Score(g, m) = Score(g, y)
  <2>1. \A v \in g.vars : m[v] = y[v]
    BY <1>2, <1>6
  <2> QED
    BY <2>1, AgreeOnVars
<1> QED
  BY <1>5, <1>6 DEF m

LEMMA ProjectedIsRival ==
  ASSUME NEW b, NEW E, NEW F, NEW side, IsSide(side, F, E),
         NEW q \in Within(b, E, F)
  PROVE  /\ Projected(q, side.vars) \in Rivals(b, side)
         /\ \A g : g.vars \subseteq side.vars =>
              Score(g, Projected(q, side.vars)) = Score(g, q)
<1> DEFINE S == side.vars
           y == Projected(q, S)
<1>1. q \in Points(E)
  BY DEF Within
<1>s. S \subseteq E /\ side.formulas \subseteq F /\ \A f \in side.formulas : f.vars \subseteq S
  BY DEF IsSide
<1>2. y \in Points(S) /\ \A v \in S : y[v] = q[v]
  <2> HIDE DEF S
  <2> QED
    BY <1>1, <1>s, ProjectedPoint
<1> HIDE DEF y
<1>3. \A v \in S : y[v] \in b[v]
  BY <1>s, <1>2 DEF Within
<1>4. ASSUME NEW f \in side.formulas
      PROVE  Satisfies(y, f)
  <2>1. \A v \in f.vars : y[v] = q[v]
    BY <1>s, <1>2
  <2>2. Satisfies(q, f)
    BY <1>s DEF Within
  <2> QED
    BY <2>1, <2>2, AgreeOnVars
<1>5. y \in Rivals(b, side)
  BY <1>2, <1>3, <1>4 DEF Rivals
<1>6. ASSUME NEW g, g.vars \subseteq S
      PROVE  Score(g, y) = Score(g, q)
  <2>1. \A v \in g.vars : y[v] = q[v]
    BY <1>2, <1>6
  <2> QED
    BY <2>1, AgreeOnVars
<1> QED
  BY <1>5, <1>6 DEF y

\* No rival is better in all the objectives than a point: no point is.
LEMMA RivalsArePoints ==
  ASSUME NEW b, NEW E, NEW F, NEW side, IsSide(side, F, E),
         NEW fs, \A i \in DOMAIN fs : /\ fs[i].vars \subseteq side.vars
                                      /\ fs[i].value \in [Points(fs[i].vars) -> Values],
         NEW p \in Within(b, E, F)
  PROVE  (\A y \in Rivals(b, side) : \E i \in DOMAIN fs : Score(fs[i], p) <= Score(fs[i], y))
           <=> ~\E q \in Within(b, E, F) : \A i \in DOMAIN fs : Score(fs[i], q) < Score(fs[i], p)
<1>1. ASSUME NEW i \in DOMAIN fs, NEW q \in Within(b, E, F)
      PROVE  Score(fs[i], q) \in Int
  <2>1. q \in Points(E) /\ fs[i].vars \subseteq E
    BY DEF Within, IsSide
  <2> QED
    BY <2>1, ScoreIsValue, InputAssumption
<1>2. ASSUME NEW q \in Within(b, E, F), \A i \in DOMAIN fs : Score(fs[i], q) < Score(fs[i], p)
      PROVE  \E y \in Rivals(b, side) : \A i \in DOMAIN fs : ~(Score(fs[i], p) <= Score(fs[i], y))
  <2> DEFINE y == Projected(q, side.vars)
  <2>1. y \in Rivals(b, side) /\ \A g : g.vars \subseteq side.vars => Score(g, y) = Score(g, q)
    BY ProjectedIsRival
  <2> HIDE DEF y
  <2>2. ASSUME NEW i \in DOMAIN fs
        PROVE  ~(Score(fs[i], p) <= Score(fs[i], y))
    <3>1. Score(fs[i], y) = Score(fs[i], q)
      BY <2>1
    <3>2. Score(fs[i], p) \in Int /\ Score(fs[i], q) \in Int /\ Score(fs[i], q) < Score(fs[i], p)
      BY <1>1, <1>2
    <3> QED
      BY <3>1, <3>2
  <2> QED
    BY <2>1, <2>2
<1>3. ASSUME NEW y \in Rivals(b, side),
             ~\E i \in DOMAIN fs : Score(fs[i], p) <= Score(fs[i], y)
      PROVE  \E q \in Within(b, E, F) : \A i \in DOMAIN fs : Score(fs[i], q) < Score(fs[i], p)
  <2> DEFINE q == Merged(E, side.vars, y, p)
  <2>1. q \in Within(b, E, F) /\ \A g : g.vars \subseteq side.vars => Score(g, q) = Score(g, y)
    BY MergedIsWithin
  <2> HIDE DEF q
  <2>2. ASSUME NEW i \in DOMAIN fs
        PROVE  Score(fs[i], q) < Score(fs[i], p)
    <3>1. Score(fs[i], q) = Score(fs[i], y)
      BY <2>1
    <3>2. Score(fs[i], p) \in Int /\ Score(fs[i], q) \in Int
      BY <1>1, <2>1
    <3>3. ~(Score(fs[i], p) <= Score(fs[i], y))
      BY <1>3
    <3> QED
      BY <3>1, <3>2, <3>3
  <2> QED
    BY <2>1, <2>2
<1> QED
  BY <1>2, <1>3

\* The variable that stands for the objective of command i, and the formula
\* that makes it the least.
Z(content, i) == ZNames[Cardinality(Minimizations(content, i)) + 1]

IsOptimum(content, i, g) ==
  /\ g.vars = {Z(content, i)} /\ g.forall
  /\ \A p \in Feasible(content, i) :
       [v \in {Z(content, i)} |-> Score(content[i].f, p)] \in g.sat
         <=> ~\E q \in Feasible(content, i) : Score(content[i].f, q) < Score(content[i].f, p)

\* Every formula is over what was declared before it.
IsScoped(content, n) ==
  \A i \in Asserted(content, n) \cup Minimizations(content, n) :
     content[i].f.vars \subseteq Scope(content, i)

Entries(s) == {s[i] : i \in DOMAIN s}
AssertedFormulas(content, n) == {content[i].f : i \in Asserted(content, n)}
ObjectivesOf(content, n) == {content[i].f : i \in Minimizations(content, n)}

BoxHolds(content, n, b) == \A i \in Declared(content, n) : b[content[i].v] = content[i].domain

\* The SMT-LIB 2 driver: what the context holds before command n.
Smt2Box(content, n, b) ==
  /\ DOMAIN b = Scope(content, n) \cup {Z(content, i) : i \in Minimizations(content, n)}
  /\ BoxHolds(content, n, b)
  /\ \A i \in Minimizations(content, n) : b[Z(content, i)] = Values

Smt2Stack(content, n, s) ==
  /\ \A i \in Asserted(content, n) : \E j \in DOMAIN s : s[j] = content[i].f
  /\ \A i \in Minimizations(content, n) :
       /\ \E j \in DOMAIN s : s[j] = Names(Z(content, i), content[i].f)
       /\ \E j \in DOMAIN s : IsOptimum(content, i, s[j])
  /\ \A j \in DOMAIN s :
       \/ \E i \in Asserted(content, n) : s[j] = content[i].f
       \/ \E i \in Minimizations(content, n) :
            s[j] = Names(Z(content, i), content[i].f) \/ IsOptimum(content, i, s[j])

IsPlace(content, n) == n \in 1..(Len(content) + 1)

Smt2Holds(content, n, b, s, k) ==
  /\ IsPlace(content, n) /\ IsScoped(content, n)
  /\ k = Cardinality(Minimizations(content, n)) /\ k <= Len(ZNames)
  /\ IsSequence(s) /\ Smt2Box(content, n, b) /\ Smt2Stack(content, n, s)

\* The dr driver: the context holds the declarations, the driver the rest.
DrHolds(content, n, b, s, k, cs, fs) ==
  /\ IsPlace(content, n) /\ IsScoped(content, n)
  /\ k = 0 /\ s = << >> /\ IsSequence(cs) /\ IsSequence(fs)
  /\ DOMAIN b = Scope(content, n) /\ BoxHolds(content, n, b)
  /\ Entries(cs) = AssertedFormulas(content, n)
  /\ Entries(fs) = ObjectivesOf(content, n)

\* What is printed of a check.
IsRightAnswer(content, together, line) ==
  /\ line.kind = "unsat" => Meant(content, line.at, together) = {}
  /\ line.kind = "delta-sat" =>
       \E p \in Meant(content, line.at, together) :
          DOMAIN line.model = DOMAIN p /\ \A v \in DOMAIN p : p[v] \in line.model[v]

AnswersInv ==
  /\ case \in Cases
  /\ phase \in {"main", "options", "open"} =>
       /\ pos = 1 /\ box = None /\ stack = << >> /\ counter = 0
       /\ constraints = << >> /\ objectives = << >>
  /\ phase = "options" => case.entry = "main"
  /\ phase = "open" => case.entry = "main"
  /\ phase = "smt2" => ~ReadsDr /\ Smt2Holds(case.content, pos, box, stack, counter)
  /\ phase = "dr" =>
       /\ ReadsDr
       /\ DrHolds(case.content, pos, box, stack, counter, constraints, objectives)
  /\ \A i \in DOMAIN output : IsRightAnswer(case.content, ReadsDr, output[i])

(* The input *)

\* What an input says of its command i.
LEMMA InputAt ==
  ASSUME NEW content, IsInput(content), NEW n, IsPlace(content, n), NEW i \in 1..(n - 1)
  PROVE  /\ n \in Nat \ {0} /\ i \in 1..Len(content) /\ i \in Nat \ {0} /\ i < n
         /\ IsPlace(content, i)
         /\ content[i].c = "declare" =>
              /\ content[i].domain \in (SUBSET Values) \ {{}} /\ IsFiniteSet(content[i].domain)
              /\ content[i].v \notin ZVariables
              /\ \A j \in 1..(i - 1) : content[j].c = "declare" => content[j].v # content[i].v
         /\ content[i].c \in {"assert", "minimize"} => content[i].f.vars \cap ZVariables = {}
         /\ content[i].c = "minimize" =>
              content[i].f.value \in [Points(content[i].f.vars) -> Values]
<1>1. Len(content) \in Nat /\ i \in 1..Len(content)
  BY DEF IsInput, IsPlace
<1>2. n \in Nat \ {0} /\ i \in Nat \ {0} /\ i < n /\ IsPlace(content, i)
  BY <1>1 DEF IsPlace
<1> QED
  BY <1>1, <1>2 DEF IsInput

LEMMA Earlier ==
  ASSUME NEW content, NEW n \in Nat, NEW i \in 1..n
  PROVE  /\ Declared(content, i) \subseteq Declared(content, n)
         /\ Asserted(content, i) \subseteq Asserted(content, n)
         /\ Minimizations(content, i) \subseteq Minimizations(content, n)
         /\ Scope(content, i) \subseteq Scope(content, n)
<1>1. 1..(i - 1) \subseteq 1..(n - 1)
  OBVIOUS
<1> QED
  BY <1>1 DEF Declared, Asserted, Minimizations, Scope

LEMMA OneMore ==
  ASSUME NEW content, NEW n \in Nat \ {0}
  PROVE  /\ Declared(content, n + 1)
              = IF content[n].c = "declare" THEN Declared(content, n) \cup {n}
                                            ELSE Declared(content, n)
         /\ Asserted(content, n + 1)
              = IF content[n].c = "assert" THEN Asserted(content, n) \cup {n}
                                           ELSE Asserted(content, n)
         /\ Minimizations(content, n + 1)
              = IF content[n].c = "minimize" THEN Minimizations(content, n) \cup {n}
                                             ELSE Minimizations(content, n)
         /\ n \notin Minimizations(content, n)
<1>1. 1..((n + 1) - 1) = (1..(n - 1)) \cup {n} /\ n \notin 1..(n - 1)
  OBVIOUS
<1> QED
  BY <1>1 DEF Declared, Asserted, Minimizations

LEMMA ManyMinimizations ==
  ASSUME NEW content, NEW n \in Nat
  PROVE  IsFiniteSet(Minimizations(content, n)) /\ Cardinality(Minimizations(content, n)) \in Nat
<1>1. IsFiniteSet(1..(n - 1))
  BY FS_Interval
<1>2. Minimizations(content, n) \in SUBSET (1..(n - 1))
  BY DEF Minimizations
<1>3. IsFiniteSet(Minimizations(content, n))
  BY <1>1, <1>2, FS_Subset
<1> QED
  BY <1>3, FS_CardinalityType

\* The variables of the objectives are all different.
LEMMA ZDiffers ==
  ASSUME NEW content, NEW n \in Nat, Cardinality(Minimizations(content, n)) <= Len(ZNames)
  PROVE  /\ \A i \in Minimizations(content, n) : Z(content, i) \in ZVariables
         /\ \A i, j \in Minimizations(content, n) : Z(content, i) = Z(content, j) => i = j
<1>1. ASSUME NEW i \in Minimizations(content, n), NEW m \in Nat, i < m, m <= n
      PROVE  Cardinality(Minimizations(content, i)) < Cardinality(Minimizations(content, m))
  <2> DEFINE T == Minimizations(content, i) \cup {i}
  <2>1. i \in Nat /\ i \in 1..(n - 1) /\ content[i].c = "minimize"
    BY DEF Minimizations
  <2>2. T \in SUBSET Minimizations(content, m) /\ i \notin Minimizations(content, i)
    BY <1>1, <2>1 DEF Minimizations
  <2>3. /\ IsFiniteSet(Minimizations(content, i)) /\ IsFiniteSet(Minimizations(content, m))
        /\ Cardinality(Minimizations(content, i)) \in Nat
        /\ Cardinality(Minimizations(content, m)) \in Nat
    BY <1>1, <2>1, ManyMinimizations
  <2>4. Cardinality(T) = Cardinality(Minimizations(content, i)) + 1
    BY <2>2, <2>3, FS_AddElement
  <2>5. Cardinality(T) <= Cardinality(Minimizations(content, m))
    BY <2>2, <2>3, FS_Subset
  <2> QED
    BY <2>3, <2>4, <2>5
<1>2. ASSUME NEW i \in Minimizations(content, n)
      PROVE  Cardinality(Minimizations(content, i)) + 1 \in DOMAIN ZNames
  <2>1. i \in Nat /\ i < n
    BY DEF Minimizations
  <2>2. Cardinality(Minimizations(content, i)) < Cardinality(Minimizations(content, n))
    BY <1>1, <2>1
  <2>3. Cardinality(Minimizations(content, i)) \in Nat /\ Cardinality(Minimizations(content, n)) \in Nat
    BY <2>1, ManyMinimizations
  <2> QED
    BY <2>2, <2>3, InputAssumption
<1>3. ASSUME NEW i \in Minimizations(content, n), NEW j \in Minimizations(content, n),
             Z(content, i) = Z(content, j)
      PROVE  i = j
  <2>1. i \in Nat /\ j \in Nat /\ i <= n /\ j <= n
    BY DEF Minimizations
  <2>2. Cardinality(Minimizations(content, i)) + 1 = Cardinality(Minimizations(content, j)) + 1
    BY <1>2, <1>3, InputAssumption DEF Z
  <2>3. Cardinality(Minimizations(content, i)) \in Nat /\ Cardinality(Minimizations(content, j)) \in Nat
    BY <2>1, ManyMinimizations
  <2>4. ~(i < j)
    BY <1>1, <2>1, <2>2, <2>3
  <2>5. ~(j < i)
    BY <1>1, <2>1, <2>2, <2>3
  <2> QED
    BY <2>1, <2>4, <2>5
<1> QED
  BY <1>2, <1>3 DEF Z, ZVariables

\* What is feasible is what the domains and the assertions say.
LEMMA FeasibleIsWithin ==
  ASSUME NEW content, NEW n, NEW b, BoxHolds(content, n, b)
  PROVE  Feasible(content, n)
           = Within(b, Scope(content, n), AssertedFormulas(content, n))
BY DEF Feasible, Within, BoxHolds, Scope, AssertedFormulas

LEMMA FeasibleBefore ==
  ASSUME NEW content, NEW n \in Nat, NEW i \in 1..n, IsScoped(content, n),
         NEW p \in Feasible(content, n)
  PROVE  Projected(p, Scope(content, i)) \in Feasible(content, i)
<1> DEFINE E == Scope(content, i)
           q == Projected(p, E)
<1>1. p \in Points(Scope(content, n))
  BY DEF Feasible
<1>2. E \subseteq Scope(content, n)
  BY Earlier
<1>3. q \in Points(E) /\ \A v \in E : q[v] = p[v]
  <2> HIDE DEF E
  <2> QED
    BY <1>1, <1>2, ProjectedPoint
<1> HIDE DEF q
<1>4. ASSUME NEW j \in Declared(content, i)
      PROVE  q[content[j].v] \in content[j].domain
  <2>1. content[j].v \in E /\ j \in Declared(content, n)
    BY Earlier DEF Scope
  <2> QED
    BY <1>3, <2>1 DEF Feasible
<1>5. ASSUME NEW j \in Asserted(content, i)
      PROVE  Satisfies(q, content[j].f)
  <2>1. j \in Asserted(content, n) /\ j \in Nat /\ j \in 1..i
    BY Earlier DEF Asserted
  <2>2. content[j].f.vars \subseteq Scope(content, j)
    BY <2>1 DEF IsScoped
  <2>3. i \in Nat /\ Scope(content, j) \subseteq E
    BY <2>1, Earlier
  <2>4. \A v \in content[j].f.vars : p[v] = q[v]
    BY <1>3, <2>2, <2>3
  <2>5. Satisfies(p, content[j].f)
    BY <2>1 DEF Feasible
  <2> QED
    BY <2>4, <2>5, AgreeOnVars
<1> QED
  BY <1>3, <1>4, <1>5 DEF Feasible, q

(* What the context of the SMT-LIB 2 driver holds is what the input means *)

\* A formula of the stack, at a point whose objective variables have the
\* values of the objectives.
LEMMA OptimumAt ==
  ASSUME NEW content, NEW i, NEW g, IsOptimum(content, i, g), content[i].f.vars \subseteq Scope(content, i),
         NEW P, Projected(P, Scope(content, i)) \in Feasible(content, i),
         P[Z(content, i)] = Score(content[i].f, P)
  PROVE  Satisfies(P, g)
           <=> ~\E q \in Feasible(content, i) : Score(content[i].f, q) < Score(content[i].f, P)
<1> DEFINE z == Z(content, i)
           f == content[i].f
           p == Projected(P, Scope(content, i))
<1>1. Score(f, p) = Score(f, P)
  <2>1. \A v \in f.vars : p[v] = P[v]
    BY DEF Projected
  <2> HIDE DEF p, f
  <2> QED
    BY <2>1, AgreeOnVars
<1>2. Projected(P, g.vars) = [v \in {z} |-> Score(f, p)]
  <2>1. g.vars = {z}
    BY DEF IsOptimum
  <2>2. \A v \in {z} : P[v] = Score(f, p)
    BY <1>1
  <2> HIDE DEF z, p, f
  <2> QED
    BY <2>1, <2>2 DEF Projected
<1>3. [v \in {z} |-> Score(f, p)] \in g.sat
        <=> ~\E q \in Feasible(content, i) : Score(f, q) < Score(f, p)
  BY DEF IsOptimum
<1> HIDE DEF z, p, f
<1>4. Satisfies(P, g) <=> ~\E q \in Feasible(content, i) : Score(f, q) < Score(f, P)
  BY <1>1, <1>2, <1>3 DEF Satisfies
<1> QED
  BY <1>4 DEF f

LEMMA HeldIsMeant ==
  ASSUME NEW content, IsInput(content), NEW n, NEW b, NEW s, NEW k,
         Smt2Holds(content, n, b, s, k), NEW P \in Held(b, s)
  PROVE  Projected(P, Scope(content, n)) \in Meant(content, n, FALSE)
<1> DEFINE E == Scope(content, n)
           p == Projected(P, E)
<1>a. n \in Nat \ {0} /\ IsPlace(content, n) /\ IsScoped(content, n)
  BY DEF Smt2Holds, IsPlace
<1>1. /\ P \in Points(DOMAIN b) /\ E \subseteq DOMAIN b
      /\ \A v \in DOMAIN b : P[v] \in b[v]
      /\ \A j \in DOMAIN s : Satisfies(P, s[j])
  BY DEF Held, Smt2Holds, Smt2Box
<1>2. p \in Points(E) /\ \A v \in E : p[v] = P[v]
  <2> HIDE DEF E
  <2> QED
    BY <1>1, ProjectedPoint
<1> HIDE DEF p
<1>3. ASSUME NEW i \in Declared(content, n)
      PROVE  p[content[i].v] \in content[i].domain
  <2>1. content[i].v \in E
    BY DEF Scope
  <2>2. b[content[i].v] = content[i].domain
    BY DEF Smt2Holds, Smt2Box, BoxHolds
  <2> QED
    BY <1>1, <1>2, <2>1, <2>2
<1>s. ASSUME NEW f, f.vars \subseteq E
      PROVE  (Satisfies(p, f) <=> Satisfies(P, f)) /\ Score(f, p) = Score(f, P)
  <2>1. \A v \in f.vars : p[v] = P[v]
    BY <1>2, <1>s
  <2> QED
    BY <2>1, AgreeOnVars
<1>v. ASSUME NEW i \in Asserted(content, n) \cup Minimizations(content, n)
      PROVE  content[i].f.vars \subseteq Scope(content, i) /\ content[i].f.vars \subseteq E
  <2>1. content[i].f.vars \subseteq Scope(content, i) /\ i \in 1..n
    BY <1>a DEF IsScoped, Asserted, Minimizations
  <2> QED
    BY <1>a, <2>1, Earlier
<1>4. ASSUME NEW i \in Asserted(content, n)
      PROVE  Satisfies(p, content[i].f)
  <2>1. PICK j \in DOMAIN s : s[j] = content[i].f
    BY DEF Smt2Holds, Smt2Stack
  <2>2. Satisfies(P, content[i].f)
    BY <1>1, <2>1
  <2> QED
    BY <1>s, <1>v, <2>2
<1>5. p \in Feasible(content, n)
  BY <1>2, <1>3, <1>4 DEF Feasible
<1>6. ASSUME NEW i \in Minimizations(content, n)
      PROVE  ~\E q \in Feasible(content, i) : Score(content[i].f, q) < Score(content[i].f, p)
  <2> DEFINE f == content[i].f
             z == Z(content, i)
  <2>1. i \in 1..n /\ i \in 1..(n - 1) /\ content[i].c = "minimize"
    BY <1>a DEF Minimizations
  <2>2. f.vars \subseteq E /\ f.vars \subseteq Scope(content, i)
    BY <1>v
  <2>3. z \in DOMAIN b
    BY DEF Smt2Holds, Smt2Box
  <2>4. z \in ZVariables
    BY <1>a, ZDiffers DEF Smt2Holds
  <2>5. f.vars \cap ZVariables = {}
    BY <1>a, <2>1, InputAt
  <2>6. PICK j \in DOMAIN s : s[j] = Names(z, f)
    BY DEF Smt2Holds, Smt2Stack
  <2>7. PICK g : IsOptimum(content, i, g) /\ Satisfies(P, g)
    BY <1>1 DEF Smt2Holds, Smt2Stack
  <2>8. Satisfies(P, Names(z, f))
    BY <1>1, <2>6
  <2> HIDE DEF z, f
  <2>9. P[z] = Score(f, P)
    <3>1. f.vars \cup {z} \subseteq DOMAIN b /\ z \notin f.vars
      BY <1>1, <2>2, <2>3, <2>4, <2>5
    <3> QED
      BY <1>1, <2>8, <3>1, SatisfiesNames
  <2>10. Projected(P, Scope(content, i)) \in Feasible(content, i)
    <3>1. Projected(p, Scope(content, i)) \in Feasible(content, i)
      BY <1>a, <1>5, <2>1, FeasibleBefore
    <3>2. Scope(content, i) \subseteq E
      BY <1>a, <2>1, Earlier
    <3>3. Projected(p, Scope(content, i)) = Projected(P, Scope(content, i))
      BY <1>2, <3>2 DEF Projected
    <3> QED
      BY <3>1, <3>3
  <2>11. ~\E q \in Feasible(content, i) : Score(f, q) < Score(f, P)
    BY <2>2, <2>7, <2>9, <2>10, OptimumAt DEF f, z
  <2>12. Score(f, p) = Score(f, P)
    BY <1>s, <2>2
  <2> QED
    BY <2>11, <2>12 DEF f
<1>7. p \in Meant(content, n, FALSE)
  BY <1>5, <1>6 DEF Meant
<1> QED
  BY <1>7 DEF p

\* Over E the context holds p.
HoldsOver(b, s, E, p) == \E P \in Held(b, s) : Projected(P, E) = p

LEMMA MeantIsHeld ==
  ASSUME NEW content, IsInput(content), NEW n, NEW b, NEW s, NEW k,
         Smt2Holds(content, n, b, s, k), NEW p \in Meant(content, n, FALSE)
  PROVE  HoldsOver(b, s, Scope(content, n), p)
<1> DEFINE E == Scope(content, n)
           D == DOMAIN b
           IsFor(i, v) == i \in Minimizations(content, n) /\ Z(content, i) = v
           P == [v \in D |-> IF v \in E THEN p[v]
                             ELSE Score(content[CHOOSE i : IsFor(i, v)].f, p)]
<1>a. n \in Nat \ {0} /\ IsPlace(content, n) /\ IsScoped(content, n)
  BY DEF Smt2Holds, IsPlace
<1>1. p \in Feasible(content, n) /\ p \in Points(E)
  BY DEF Meant, Feasible
<1>z. ASSUME NEW i \in Minimizations(content, n)
      PROVE  /\ content[i].f.vars \subseteq Scope(content, i) /\ content[i].f.vars \subseteq E
             /\ Z(content, i) \in D \ E /\ Z(content, i) \notin content[i].f.vars
             /\ Score(content[i].f, p) \in Values
             /\ i \in 1..n /\ i \in 1..(n - 1) /\ i \in Nat
  <2>1. i \in 1..n /\ i \in 1..(n - 1) /\ content[i].c = "minimize" /\ i \in Nat
    BY <1>a DEF Minimizations
  <2>2. content[i].f.vars \subseteq Scope(content, i)
    BY DEF IsScoped, Smt2Holds
  <2>3. content[i].f.vars \subseteq E
    BY <1>a, <2>1, <2>2, Earlier
  <2>4. Z(content, i) \in ZVariables
    BY <1>a, ZDiffers DEF Smt2Holds
  <2>5. E \cap ZVariables = {}
    <3> SUFFICES ASSUME NEW j \in Declared(content, n)
                 PROVE  content[j].v \notin ZVariables
      BY DEF Scope
    <3>1. j \in 1..(n - 1) /\ content[j].c = "declare"
      BY DEF Declared
    <3> QED
      BY <1>a, <3>1, InputAt
  <2>6. Z(content, i) \in D
    BY DEF Smt2Holds, Smt2Box
  <2>7. content[i].f.value \in [Points(content[i].f.vars) -> Values]
    BY <1>a, <2>1, InputAt
  <2>8. Score(content[i].f, p) \in Values
    BY <1>1, <2>3, <2>7, ScoreIsValue
  <2> QED
    BY <2>1, <2>2, <2>3, <2>4, <2>5, <2>6, <2>8
<1>2. ASSUME NEW i \in Minimizations(content, n)
      PROVE  P[Z(content, i)] = Score(content[i].f, p)
  <2> DEFINE z == Z(content, i)
             c == CHOOSE j : IsFor(j, z)
  <2>1. IsFor(i, z)
    OBVIOUS
  <2>2. IsFor(c, z)
    BY <2>1
  <2>3. c = i
    <3>1. Cardinality(Minimizations(content, n)) <= Len(ZNames)
      BY DEF Smt2Holds
    <3>2. c \in Minimizations(content, n) /\ Z(content, c) = Z(content, i)
      BY <2>2
    <3> HIDE DEF c
    <3> QED
      BY <1>a, <3>1, <3>2, ZDiffers
  <2>4. z \in D /\ z \notin E
    BY <1>z
  <2> QED
    BY <2>3, <2>4
<1>3. \A v \in E : P[v] = p[v]
  BY DEF Smt2Holds, Smt2Box
<1>4. E \subseteq D /\ \A v \in D \ E : \E i \in Minimizations(content, n) : v = Z(content, i)
  BY DEF Smt2Holds, Smt2Box
<1>5. \A v \in D : P[v] \in Values
  BY <1>1, <1>2, <1>3, <1>4, <1>z DEF Points
<1>d. DOMAIN P = D /\ P = [v \in D |-> P[v]]
  OBVIOUS
<1> HIDE DEF P
<1>6. P \in Points(D)
  BY <1>5, <1>d DEF Points
<1>7. ASSUME NEW v \in D
      PROVE  P[v] \in b[v]
  <2>1. CASE v \in E
    <3>1. PICK i \in Declared(content, n) : v = content[i].v
      BY <2>1 DEF Scope
    <3>2. b[v] = content[i].domain
      BY <3>1 DEF Smt2Holds, Smt2Box, BoxHolds
    <3> QED
      BY <1>1, <1>3, <2>1, <3>1, <3>2 DEF Feasible
  <2>2. CASE v \notin E
    <3>1. b[v] = Values
      BY <1>4, <2>2 DEF Smt2Holds, Smt2Box
    <3> QED
      BY <1>5, <3>1
  <2> QED
    BY <2>1, <2>2
<1>s. ASSUME NEW f, f.vars \subseteq E
      PROVE  (Satisfies(p, f) <=> Satisfies(P, f)) /\ Score(f, p) = Score(f, P)
  <2>1. \A v \in f.vars : p[v] = P[v]
    BY <1>3, <1>s
  <2> QED
    BY <2>1, AgreeOnVars
<1>8. ASSUME NEW i \in Asserted(content, n)
      PROVE  Satisfies(P, content[i].f)
  <2>1. content[i].f.vars \subseteq Scope(content, i) /\ i \in 1..n
    BY <1>a DEF IsScoped, Asserted
  <2>2. content[i].f.vars \subseteq E
    BY <1>a, <2>1, Earlier
  <2>3. Satisfies(p, content[i].f)
    BY <1>1 DEF Feasible
  <2> QED
    BY <1>s, <2>2, <2>3
<1>9. ASSUME NEW i \in Minimizations(content, n)
      PROVE  /\ Satisfies(P, Names(Z(content, i), content[i].f))
             /\ \A g : IsOptimum(content, i, g) => Satisfies(P, g)
  <2> DEFINE f == content[i].f
             z == Z(content, i)
  <2>1. /\ f.vars \subseteq Scope(content, i) /\ f.vars \subseteq E /\ z \in D \ E /\ z \notin f.vars
        /\ i \in 1..n /\ i \in Nat
    BY <1>z
  <2>2. P[z] = Score(f, P)
    BY <1>2, <1>s, <2>1
  <2>3. Satisfies(P, Names(z, f))
    <3>1. f.vars \cup {z} \subseteq D
      BY <1>4, <2>1
    <3> HIDE DEF f, z, D
    <3> QED
      BY <1>6, <2>1, <2>2, <3>1, SatisfiesNames
  <2>4. Projected(P, Scope(content, i)) \in Feasible(content, i)
    <3>1. Projected(p, Scope(content, i)) \in Feasible(content, i)
      BY <1>a, <1>1, <2>1, FeasibleBefore
    <3>2. Scope(content, i) \subseteq E
      BY <1>a, <2>1, Earlier
    <3>3. Projected(p, Scope(content, i)) = Projected(P, Scope(content, i))
      BY <1>3, <3>2 DEF Projected
    <3> QED
      BY <3>1, <3>3
  <2>5. ~\E q \in Feasible(content, i) : Score(f, q) < Score(f, p)
    BY DEF Meant
  <2>6. ~\E q \in Feasible(content, i) : Score(f, q) < Score(f, P)
    BY <1>s, <2>1, <2>5
  <2>7. ASSUME NEW g, IsOptimum(content, i, g)
        PROVE  Satisfies(P, g)
    BY <2>1, <2>2, <2>4, <2>6, <2>7, OptimumAt
  <2> QED
    BY <2>3, <2>7
<1>10. ASSUME NEW j \in DOMAIN s
       PROVE  Satisfies(P, s[j])
  <2>1. \/ \E i \in Asserted(content, n) : s[j] = content[i].f
        \/ \E i \in Minimizations(content, n) :
             s[j] = Names(Z(content, i), content[i].f) \/ IsOptimum(content, i, s[j])
    BY DEF Smt2Holds, Smt2Stack
  <2> QED
    BY <1>8, <1>9, <2>1
<1>11. P \in Held(b, s)
  BY <1>6, <1>7, <1>10 DEF Held
<1>12. Projected(P, E) = p
  BY <1>1, <1>3 DEF Projected, Points
<1> QED
  BY <1>11, <1>12 DEF HoldsOver

LEMMA ConcatEntries ==
  ASSUME NEW s, IsSequence(s), NEW t, IsSequence(t)
  PROVE  IsSequence(s \o t) /\ Entries(s \o t) = Entries(s) \cup Entries(t)
<1> DEFINE S == Entries(s) \cup Entries(t)
           r == s \o t
<1>1. s \in Seq(S) /\ t \in Seq(S)
  BY DEF IsSequence, Entries
<1>2. /\ r \in Seq(S) /\ Len(r) = Len(s) + Len(t)
      /\ \A i \in 1..Len(r) : r[i] = IF i <= Len(s) THEN s[i] ELSE t[i - Len(s)]
  BY <1>1, ConcatProperties
<1>3. Len(s) \in Nat /\ Len(t) \in Nat /\ DOMAIN s = 1..Len(s) /\ DOMAIN t = 1..Len(t)
        /\ DOMAIN r = 1..Len(r)
  BY <1>1, <1>2
<1> HIDE DEF r, S
<1>4. r \in Seq({r[i] : i \in DOMAIN r})
  BY <1>2
<1>5. ASSUME NEW i \in DOMAIN s
      PROVE  i \in DOMAIN r /\ r[i] = s[i]
  BY <1>2, <1>3
<1>6. ASSUME NEW i \in DOMAIN t
      PROVE  Len(s) + i \in DOMAIN r /\ r[Len(s) + i] = t[i]
  BY <1>2, <1>3
<1>7. ASSUME NEW i \in DOMAIN r
      PROVE  r[i] \in Entries(s) \cup Entries(t)
  <2>1. CASE i <= Len(s)
    BY <1>2, <1>3, <2>1 DEF Entries
  <2>2. CASE ~(i <= Len(s))
    <3>1. i - Len(s) \in DOMAIN t /\ r[i] = t[i - Len(s)]
      BY <1>2, <1>3, <2>2
    <3> QED
      BY <3>1 DEF Entries
  <2> QED
    BY <2>1, <2>2
<1>8. Entries(r) = Entries(s) \cup Entries(t)
  BY <1>5, <1>6, <1>7 DEF Entries
<1> QED
  BY <1>4, <1>8 DEF IsSequence, r

LEMMA AppendEntries ==
  ASSUME NEW s, IsSequence(s), NEW e
  PROVE  IsSequence(Append(s, e)) /\ Entries(Append(s, e)) = Entries(s) \cup {e}
<1> DEFINE r == Append(s, e)
<1>1. /\ IsSequence(r) /\ Len(s) \in Nat /\ DOMAIN s = 1..Len(s) /\ DOMAIN r = 1..(Len(s) + 1)
      /\ \A i \in 1..Len(s) : r[i] = s[i]
      /\ r[Len(s) + 1] = e
  BY Appended
<1> HIDE DEF r
<1>2. DOMAIN r = DOMAIN s \cup {Len(s) + 1}
  BY <1>1
<1>3. Entries(r) = Entries(s) \cup {e}
  BY <1>1, <1>2 DEF Entries
<1> QED
  BY <1>1, <1>3 DEF r

\* The stack by its entries.
StackEntries(content, n, S) ==
  /\ \A i \in Asserted(content, n) : content[i].f \in S
  /\ \A i \in Minimizations(content, n) :
       /\ Names(Z(content, i), content[i].f) \in S
       /\ \E g \in S : IsOptimum(content, i, g)
  /\ \A g \in S :
       \/ \E i \in Asserted(content, n) : g = content[i].f
       \/ \E i \in Minimizations(content, n) :
            g = Names(Z(content, i), content[i].f) \/ IsOptimum(content, i, g)

LEMMA StackByEntries ==
  ASSUME NEW content, NEW n, NEW s
  PROVE  Smt2Stack(content, n, s) <=> StackEntries(content, n, Entries(s))
<1>1. ASSUME Smt2Stack(content, n, s)
      PROVE  StackEntries(content, n, Entries(s))
  BY <1>1 DEF Smt2Stack, StackEntries, Entries
<1>2. ASSUME StackEntries(content, n, Entries(s))
      PROVE  Smt2Stack(content, n, s)
  <2>1. ASSUME NEW i \in Asserted(content, n)
        PROVE  \E j \in DOMAIN s : s[j] = content[i].f
    BY <1>2 DEF StackEntries, Entries
  <2>2. ASSUME NEW i \in Minimizations(content, n)
        PROVE  /\ \E j \in DOMAIN s : s[j] = Names(Z(content, i), content[i].f)
               /\ \E j \in DOMAIN s : IsOptimum(content, i, s[j])
    BY <1>2 DEF StackEntries, Entries
  <2>3. ASSUME NEW j \in DOMAIN s
        PROVE  \/ \E i \in Asserted(content, n) : s[j] = content[i].f
               \/ \E i \in Minimizations(content, n) :
                    s[j] = Names(Z(content, i), content[i].f) \/ IsOptimum(content, i, s[j])
    <3>1. s[j] \in Entries(s)
      BY DEF Entries
    <3> QED
      BY <1>2, <3>1 DEF StackEntries
  <2> QED
    BY <2>1, <2>2, <2>3 DEF Smt2Stack
<1> QED
  BY <1>1, <1>2

(* One command of the SMT-LIB 2 driver *)

LEMMA Smt2Start ==
  ASSUME NEW content, IsInput(content)
  PROVE  Smt2Holds(content, 1, None, << >>, 0)
<1>1. Declared(content, 1) = {} /\ Asserted(content, 1) = {} /\ Minimizations(content, 1) = {}
  BY DEF Declared, Asserted, Minimizations
<1>2. IsPlace(content, 1)
  BY DEF IsPlace, IsInput
<1>3. 0 = Cardinality(Minimizations(content, 1)) /\ 0 <= Len(ZNames)
  BY <1>1, FS_EmptySet, InputAssumption
<1>4. IsSequence(<< >>)
  BY DEF IsSequence
<1>5. Smt2Box(content, 1, None)
  BY <1>1 DEF Smt2Box, BoxHolds, Scope, None
<1>6. Smt2Stack(content, 1, << >>)
  BY <1>1 DEF Smt2Stack
<1> QED
  BY <1>1, <1>2, <1>3, <1>4, <1>5, <1>6 DEF Smt2Holds, IsScoped

LEMMA NextPlace ==
  ASSUME NEW content, IsInput(content), NEW n, IsPlace(content, n), n <= Len(content)
  PROVE  n \in Nat \ {0} /\ n + 1 \in Nat \ {0} /\ IsPlace(content, n + 1) /\ n \in 1..((n + 1) - 1)
BY DEF IsPlace, IsInput

LEMMA Smt2Other ==
  ASSUME NEW content, IsInput(content), NEW n, n <= Len(content), NEW b, NEW s, NEW k,
         Smt2Holds(content, n, b, s, k), content[n].c \notin {"declare", "assert", "minimize"}
  PROVE  Smt2Holds(content, n + 1, b, s, k)
<1>1. IsPlace(content, n + 1) /\ n \in Nat \ {0}
  BY NextPlace DEF Smt2Holds
<1>2. /\ Declared(content, n + 1) = Declared(content, n)
      /\ Asserted(content, n + 1) = Asserted(content, n)
      /\ Minimizations(content, n + 1) = Minimizations(content, n)
  BY <1>1, OneMore
<1>3. Scope(content, n + 1) = Scope(content, n)
  BY <1>2 DEF Scope
<1> QED
  BY <1>1, <1>2, <1>3 DEF Smt2Holds, IsScoped, Smt2Box, BoxHolds, Smt2Stack

LEMMA Smt2DeclareHolds ==
  ASSUME NEW content, IsInput(content), NEW n, n <= Len(content), NEW b, NEW s, NEW k,
         Smt2Holds(content, n, b, s, k), content[n].c = "declare"
  PROVE  Smt2Holds(content, n + 1, WithDomain(b, content[n].v, content[n].domain), s, k)
<1> DEFINE v == content[n].v
           d == content[n].domain
           c == WithDomain(b, v, d)
<1>1. IsPlace(content, n + 1) /\ n \in Nat \ {0} /\ n \in 1..((n + 1) - 1) /\ IsPlace(content, n)
  BY NextPlace DEF Smt2Holds
<1>2. /\ Declared(content, n + 1) = Declared(content, n) \cup {n}
      /\ Asserted(content, n + 1) = Asserted(content, n)
      /\ Minimizations(content, n + 1) = Minimizations(content, n)
  BY <1>1, OneMore
<1>3. Scope(content, n + 1) = Scope(content, n) \cup {v}
  BY <1>2 DEF Scope
<1>4. v \notin ZVariables /\ \A j \in Declared(content, n) : content[j].v # v
  BY <1>1, InputAt DEF Declared
<1>5. DOMAIN c = DOMAIN b \cup {v} /\ c[v] = d /\ \A u \in DOMAIN b : u # v => c[u] = b[u]
  BY DEF WithDomain
<1> HIDE DEF c
<1>6. \A j \in Declared(content, n) : content[j].v \in DOMAIN b
  BY DEF Smt2Holds, Smt2Box, Scope
<1>7. BoxHolds(content, n + 1, c)
  BY <1>2, <1>4, <1>5, <1>6 DEF Smt2Holds, Smt2Box, BoxHolds
<1>8. \A i \in Minimizations(content, n) : Z(content, i) \in ZVariables
  BY <1>1, ZDiffers DEF Smt2Holds
<1>9. Smt2Box(content, n + 1, c)
  BY <1>2, <1>3, <1>4, <1>5, <1>7, <1>8 DEF Smt2Holds, Smt2Box
<1>10. Smt2Stack(content, n + 1, s)
  BY <1>2 DEF Smt2Holds, Smt2Stack
<1>11. IsScoped(content, n + 1)
  BY <1>2 DEF Smt2Holds, IsScoped
<1> QED
  BY <1>1, <1>2, <1>9, <1>10, <1>11 DEF Smt2Holds, c

LEMMA OverScope ==
  ASSUME NEW content, IsInput(content), NEW n, n <= Len(content), NEW b, NEW s, NEW k,
         Smt2Holds(content, n, b, s, k), content[n].c \in {"assert", "minimize"},
         content[n].f.vars \subseteq DOMAIN b
  PROVE  content[n].f.vars \subseteq Scope(content, n)
<1>1. IsPlace(content, n + 1) /\ n \in Nat \ {0} /\ n \in 1..((n + 1) - 1) /\ IsPlace(content, n)
  BY NextPlace DEF Smt2Holds
<1>2. content[n].f.vars \cap ZVariables = {}
  BY <1>1, InputAt
<1>3. \A i \in Minimizations(content, n) : Z(content, i) \in ZVariables
  BY <1>1, ZDiffers DEF Smt2Holds
<1> QED
  BY <1>2, <1>3 DEF Smt2Holds, Smt2Box

LEMMA Smt2AssertHolds ==
  ASSUME NEW content, IsInput(content), NEW n, n <= Len(content), NEW b, NEW s, NEW k,
         Smt2Holds(content, n, b, s, k), content[n].c = "assert",
         content[n].f.vars \subseteq DOMAIN b
  PROVE  Smt2Holds(content, n + 1, b, Append(s, content[n].f), k)
<1> DEFINE f == content[n].f
           t == Append(s, f)
<1>1. IsPlace(content, n + 1) /\ n \in Nat \ {0} /\ n \in 1..((n + 1) - 1)
  BY NextPlace DEF Smt2Holds
<1>2. /\ Declared(content, n + 1) = Declared(content, n)
      /\ Asserted(content, n + 1) = Asserted(content, n) \cup {n}
      /\ Minimizations(content, n + 1) = Minimizations(content, n)
  BY <1>1, OneMore
<1>3. Scope(content, n + 1) = Scope(content, n)
  BY <1>2 DEF Scope
<1>4. f.vars \subseteq Scope(content, n)
  BY OverScope
<1>5. IsScoped(content, n + 1)
  BY <1>2, <1>4 DEF Smt2Holds, IsScoped
<1>6. IsSequence(t) /\ Entries(t) = Entries(s) \cup {f}
  BY AppendEntries DEF Smt2Holds
<1>7. StackEntries(content, n, Entries(s))
  BY StackByEntries DEF Smt2Holds
<1>8. StackEntries(content, n + 1, Entries(s) \cup {f})
  <2> HIDE DEF f
  <2>1. \A i \in Asserted(content, n + 1) : content[i].f \in Entries(s) \cup {f}
    BY <1>2, <1>7 DEF StackEntries, f
  <2>2. \A i \in Minimizations(content, n + 1) :
          /\ Names(Z(content, i), content[i].f) \in Entries(s) \cup {f}
          /\ \E g \in Entries(s) \cup {f} : IsOptimum(content, i, g)
    BY <1>2, <1>7 DEF StackEntries
  <2>3. ASSUME NEW g \in Entries(s) \cup {f}
        PROVE  \/ \E i \in Asserted(content, n + 1) : g = content[i].f
               \/ \E i \in Minimizations(content, n + 1) :
                    g = Names(Z(content, i), content[i].f) \/ IsOptimum(content, i, g)
    <3>1. CASE g = f
      BY <1>2, <3>1 DEF f
    <3>2. CASE g \in Entries(s)
      BY <1>2, <1>7, <3>2 DEF StackEntries
    <3> QED
      BY <3>1, <3>2
  <2> QED
    BY <2>1, <2>2, <2>3 DEF StackEntries
<1>9. Smt2Stack(content, n + 1, t)
  BY <1>6, <1>8, StackByEntries
<1>10. Smt2Box(content, n + 1, b)
  BY <1>2, <1>3 DEF Smt2Holds, Smt2Box, BoxHolds
<1> QED
  BY <1>1, <1>2, <1>5, <1>6, <1>9, <1>10 DEF Smt2Holds

(* A minimization *)

LEMMA SideIsClosed ==
  ASSUME NEW s, NEW fs
  PROVE  /\ \A i \in DOMAIN fs : fs[i].vars \subseteq SideOf(s, fs).vars
         /\ SideOf(s, fs).formulas = {g \in Entries(s) : g.vars \cap SideOf(s, fs).vars # {}}
         /\ \A g \in SideOf(s, fs).formulas : g.vars \subseteq SideOf(s, fs).vars
         /\ \A v \in SideOf(s, fs).vars :
              \/ \E i \in DOMAIN fs : v \in fs[i].vars
              \/ \E g \in Entries(s) : v \in g.vars
<1> DEFINE xs == UNION {fs[i].vars : i \in DOMAIN fs}
           C == Connected(s, xs)
           side == SideOf(s, fs)
<1>1. side.vars = C /\ side.formulas = Related(s, C)
  BY DEF SideOf, SideConstraints
<1>2. /\ xs \subseteq C
      /\ C \subseteq xs \cup UNION {s[i].vars : i \in DOMAIN s}
      /\ \A i \in DOMAIN s : s[i].vars \cap C # {} => s[i].vars \subseteq C
  BY ConnectedIsClosed
<1> HIDE DEF side, C
<1>3. Related(s, C) = {g \in Entries(s) : g.vars \cap C # {}}
  BY DEF Related, Entries
<1>4. \A i \in DOMAIN fs : fs[i].vars \subseteq C
  BY <1>2
<1>5. \A g \in Related(s, C) : g.vars \subseteq C
  BY <1>2 DEF Related
<1>6. \A v \in C : \/ \E i \in DOMAIN fs : v \in fs[i].vars
                   \/ \E g \in Entries(s) : v \in g.vars
  BY <1>2 DEF Entries
<1> QED
  BY <1>1, <1>3, <1>4, <1>5, <1>6 DEF side

LEMMA Slice ==
  ASSUME NEW s, NEW a \in Int, NEW c \in Int, a <= c + 1
  PROVE  /\ Len(SubSeq(s, a, c)) = c - a + 1 /\ DOMAIN SubSeq(s, a, c) = 1..(c - a + 1)
         /\ \A i \in 1..(c - a + 1) : SubSeq(s, a, c)[i] = s[a + i - 1]
<1> DEFINE S == {s[i] : i \in a..c}
<1>1. \A i \in a..c : s[i] \in S
  OBVIOUS
<1> HIDE DEF S
<1>2. Len(SubSeq(s, a, c)) = c - a + 1
  BY <1>1, SubSeqProperties
<1>3. \A i \in 1..(c - a + 1) : SubSeq(s, a, c)[i] = s[a + i - 1]
  BY <1>1, SubSeqProperties
<1>4. SubSeq(s, a, c) \in Seq(S)
  BY <1>1, SubSeqProperties
<1> QED
  BY <1>2, <1>3, <1>4

\* The variables of the objectives fs where n are made already.
NewZ(n, fs) == SubSeq(ZNames, n + 1, n + Len(fs))

LEMMA ObjectiveVariables ==
  ASSUME NEW n \in Nat, NEW fs, IsSequence(fs), n + Len(fs) <= Len(ZNames)
  PROVE  /\ DOMAIN NewZ(n, fs) = DOMAIN fs /\ DOMAIN fs = 1..Len(fs) /\ Len(fs) \in Nat
         /\ \A i \in DOMAIN fs : NewZ(n, fs)[i] = ZNames[n + i] /\ NewZ(n, fs)[i] \in ZVariables
         /\ \A i, j \in DOMAIN fs : NewZ(n, fs)[i] = NewZ(n, fs)[j] => i = j
<1> DEFINE k == Len(fs)
<1>0. PICK zs : zs = NewZ(n, fs)
  OBVIOUS
<1>1. k \in Nat /\ DOMAIN fs = 1..k
  BY DEF IsSequence
<1>2. \A i \in 1..k : n + i \in DOMAIN ZNames /\ (n + 1) + i - 1 = n + i
  BY <1>1, InputAssumption
<1>3. n + 1 \in Int /\ n + k \in Int /\ k = (n + k) - (n + 1) + 1
  BY <1>1
<1> HIDE DEF k
<1>4. /\ Len(zs) = k /\ DOMAIN zs = 1..k
      /\ \A i \in 1..k : zs[i] = ZNames[(n + 1) + i - 1]
  <2>1. zs = SubSeq(ZNames, n + 1, n + k)
    BY <1>0 DEF k, NewZ
  <2>2. PICK a, c : a = n + 1 /\ c = n + k
    OBVIOUS
  <2>3. a \in Int /\ c \in Int /\ a <= c + 1 /\ c - a + 1 = k
    BY <1>1, <2>2
  <2>4. zs = SubSeq(ZNames, a, c)
    BY <2>1, <2>2
  <2>5. /\ Len(zs) = c - a + 1 /\ DOMAIN zs = 1..(c - a + 1)
        /\ \A i \in 1..(c - a + 1) : zs[i] = ZNames[a + i - 1]
    BY <2>3, <2>4, Slice
  <2> QED
    BY <2>2, <2>3, <2>5
<1>7. \A i \in 1..k : zs[i] = ZNames[n + i] /\ n + i \in DOMAIN ZNames
  BY <1>2, <1>4
<1>8. ASSUME NEW i \in 1..k, NEW j \in 1..k, zs[i] = zs[j]
      PROVE  i = j
  <2>1. /\ n + i \in DOMAIN ZNames /\ n + j \in DOMAIN ZNames
        /\ ZNames[n + i] = ZNames[n + j]
    BY <1>7, <1>8
  <2>2. n + i = n + j
    BY <2>1, InputAssumption
  <2> QED
    BY <1>1, <2>2
<1>9. \A i \in 1..k : zs[i] \in ZVariables
  BY <1>7 DEF ZVariables
<1> QED
  BY <1>0, <1>1, <1>4, <1>7, <1>8, <1>9 DEF k

\* The box and the entries of the stack a minimization leaves.
IsMinimized(m, b, s, fs, zs) ==
  /\ DOMAIN m.box = DOMAIN b \cup {zs[i] : i \in DOMAIN fs}
  /\ \A v \in DOMAIN b : m.box[v] = b[v]
  /\ \A v \in DOMAIN m.box : v \notin DOMAIN b => m.box[v] = Values
  /\ IsSequence(m.stack) /\ m.stack # << >>
  /\ Entries(m.stack) = Entries(s) \cup {Names(zs[i], fs[i]) : i \in DOMAIN fs}
                          \cup {Optimal(b, SideOf(s, fs), fs, zs)}

LEMMA MinimizedParts ==
  ASSUME NEW b, NEW s, IsSequence(s), NEW n \in Nat, NEW fs, IsSequence(fs),
         n + Len(fs) <= Len(ZNames)
  PROVE  IsMinimized(Minimized(b, s, n, fs), b, s, fs, NewZ(n, fs))
<1> DEFINE m == Minimized(b, s, n, fs)
           zs == NewZ(n, fs)
           t == [i \in DOMAIN fs |-> Names(zs[i], fs[i])]
           o == Optimal(b, SideOf(s, fs), fs, zs)
           u == <<o>>
<1>1. DOMAIN zs = DOMAIN fs /\ DOMAIN fs = 1..Len(fs) /\ Len(fs) \in Nat
  <2> HIDE DEF zs
  <2> QED
    BY ObjectiveVariables DEF zs
<1>2. m.stack = (s \o t) \o u
  BY DEF Minimized, NewZ
<1>3. m.box = [v \in DOMAIN b \cup {zs[i] : i \in DOMAIN zs} |->
                 IF v \in DOMAIN b THEN b[v] ELSE Values]
  BY DEF Minimized, NewZ
<1> HIDE DEF m, zs
<1>4. IsSequence(t) /\ Entries(t) = {Names(zs[i], fs[i]) : i \in DOMAIN fs}
  <2>1. DOMAIN t = 1..Len(fs)
    BY <1>1
  <2>2. t \in Seq({t[i] : i \in DOMAIN t})
    BY <1>1, <2>1
  <2> QED
    BY <2>2 DEF IsSequence, Entries
<1>5. IsSequence(u) /\ Entries(u) = {o} /\ Len(u) = 1
  <2> HIDE DEF o
  <2>1. DOMAIN u = {1} /\ u[1] = o
    OBVIOUS
  <2> QED
    BY <2>1 DEF IsSequence, Entries
<1> HIDE DEF t, o, u
<1>6. IsSequence(s \o t) /\ Entries(s \o t) = Entries(s) \cup Entries(t)
  BY <1>4, ConcatEntries
<1>7. IsSequence(m.stack) /\ Entries(m.stack) = (Entries(s) \cup Entries(t)) \cup {o}
  BY <1>2, <1>5, <1>6, ConcatEntries
<1>8. m.stack # << >>
  <2>1. o \in Entries(m.stack)
    BY <1>7
  <2>2. Entries(<< >>) = {}
    BY DEF Entries
  <2> QED
    BY <2>1, <2>2
<1> QED
  BY <1>1, <1>3, <1>4, <1>7, <1>8 DEF o, m, zs, IsMinimized

\* One objective.
IsOne(fs, f) == IsSequence(fs) /\ Len(fs) = 1 /\ DOMAIN fs = {1} /\ fs[1] = f

LEMMA OneIs ==
  ASSUME NEW f
  PROVE  IsOne(<<f>>, f)
BY DEF IsOne, IsSequence

IsLeast(o, z, b, side, f) ==
  /\ o.vars = {z} /\ o.forall
  /\ \A D : \A r \in Points(D) : z \in D =>
       (Satisfies(r, o) <=> \A y \in Rivals(b, side) : r[z] <= Score(f, y))

LEMMA OneOptimum ==
  ASSUME NEW b, NEW side, NEW fs, NEW f, IsOne(fs, f), NEW zs, DOMAIN zs = {1}
  PROVE  IsLeast(Optimal(b, side, fs, zs), zs[1], b, side, f)
<1> DEFINE o == Optimal(b, side, fs, zs)
<1>1. DOMAIN fs = {1} /\ fs[1] = f
  BY DEF IsOne
<1>2. {zs[i] : i \in DOMAIN zs} = {zs[1]}
  OBVIOUS
<1>3. o.vars = {zs[1]} /\ o.forall
  BY <1>1, <1>2 DEF Optimal
<1>4. ASSUME NEW D, NEW r \in Points(D), zs[1] \in D
      PROVE  Satisfies(r, o) <=> \A y \in Rivals(b, side) : r[zs[1]] <= Score(f, y)
  <2>1. DOMAIN fs = DOMAIN zs /\ \A i \in DOMAIN zs : zs[i] \in D
    BY <1>1, <1>4
  <2>2. Satisfies(r, o)
          <=> \A y \in Rivals(b, side) : \E i \in DOMAIN fs : r[zs[i]] <= Score(fs[i], y)
    BY <2>1, SatisfiesOptimal
  <2>3. \A y : (\E i \in DOMAIN fs : r[zs[i]] <= Score(fs[i], y)) <=> r[zs[1]] <= Score(f, y)
    BY <1>1
  <2> QED
    BY <2>2, <2>3
<1> HIDE DEF o
<1>5. IsLeast(o, zs[1], b, side, f)
  BY <1>3, <1>4 DEF IsLeast
<1> QED
  BY <1>5 DEF o

LEMMA OneRival ==
  ASSUME NEW b, NEW E, NEW F, NEW side, IsSide(side, F, E),
         NEW f, f.vars \subseteq side.vars, f.value \in [Points(f.vars) -> Values],
         NEW p \in Within(b, E, F)
  PROVE  (\A y \in Rivals(b, side) : Score(f, p) <= Score(f, y))
           <=> ~\E q \in Within(b, E, F) : Score(f, q) < Score(f, p)
<1>0. PICK fs : fs = <<f>>
  OBVIOUS
<1>1. DOMAIN fs = {1} /\ fs[1] = f
  BY <1>0
<1>2. \A i \in DOMAIN fs : /\ fs[i].vars \subseteq side.vars
                           /\ fs[i].value \in [Points(fs[i].vars) -> Values]
  BY <1>1
<1>3. (\A y \in Rivals(b, side) : \E i \in DOMAIN fs : Score(fs[i], p) <= Score(fs[i], y))
         <=> ~\E q \in Within(b, E, F) : \A i \in DOMAIN fs : Score(fs[i], q) < Score(fs[i], p)
  BY <1>2, RivalsArePoints
<1>4. /\ \A y : (\E i \in DOMAIN fs : Score(fs[i], p) <= Score(fs[i], y))
                  <=> Score(f, p) <= Score(f, y)
      /\ \A q : (\A i \in DOMAIN fs : Score(fs[i], q) < Score(fs[i], p))
                  <=> Score(f, q) < Score(f, p)
  BY <1>1
<1> QED
  BY <1>3, <1>4

\* Where a minimization is allowed, no objective variable is among the side
\* constraints: its own forall formula would be one of them.
LEMMA SideInScope ==
  ASSUME NEW content, IsInput(content), NEW n, NEW b, NEW s, NEW k,
         Smt2Holds(content, n, b, s, k), NEW f, f.vars \subseteq Scope(content, n),
         NEW fs, IsOne(fs, f), ~CannotMinimize(s, fs)
  PROVE  /\ f.vars \subseteq SideOf(s, fs).vars
         /\ IsSide(SideOf(s, fs), AssertedFormulas(content, n), Scope(content, n))
<1> DEFINE E == Scope(content, n)
           F == AssertedFormulas(content, n)
           side == SideOf(s, fs)
<1>a. n \in Nat \ {0} /\ IsScoped(content, n)
  BY DEF Smt2Holds, IsPlace
<1>1. /\ f.vars \subseteq side.vars
      /\ side.formulas = {g \in Entries(s) : g.vars \cap side.vars # {}}
      /\ \A g \in side.formulas : g.vars \subseteq side.vars
      /\ \A v \in side.vars : v \in f.vars \/ \E g \in Entries(s) : v \in g.vars
  <2>1. DOMAIN fs = {1} /\ fs[1] = f
    BY DEF IsOne
  <2> QED
    BY <2>1, SideIsClosed
<1>2. \A g \in side.formulas : ~g.forall
  BY DEF CannotMinimize
<1> HIDE DEF side
<1>3. StackEntries(content, n, Entries(s))
  BY StackByEntries DEF Smt2Holds
<1>4. ASSUME NEW i \in Minimizations(content, n), Z(content, i) \in side.vars
      PROVE  FALSE
  <2>1. PICK g \in Entries(s) : IsOptimum(content, i, g)
    BY <1>3 DEF StackEntries
  <2>2. g.vars = {Z(content, i)} /\ g.forall
    BY <2>1 DEF IsOptimum
  <2>3. g \in side.formulas
    BY <1>1, <1>4, <2>2
  <2> QED
    BY <1>2, <2>2, <2>3
<1>5. \A i \in Minimizations(content, n) : Names(Z(content, i), content[i].f).vars
                                             = content[i].f.vars \cup {Z(content, i)}
  BY DEF Names
<1>v. ASSUME NEW i \in Asserted(content, n) \cup Minimizations(content, n)
      PROVE  content[i].f.vars \subseteq E
  <2>1. content[i].f.vars \subseteq Scope(content, i) /\ i \in 1..n
    BY <1>a DEF IsScoped, Asserted, Minimizations
  <2> QED
    BY <1>a, <2>1, Earlier
<1>6. ASSUME NEW g \in Entries(s), g \notin F
      PROVE  \E i \in Minimizations(content, n) :
               Z(content, i) \in g.vars /\ g.vars \subseteq E \cup {Z(content, i)}
  <2>1. PICK i \in Minimizations(content, n) :
          g = Names(Z(content, i), content[i].f) \/ IsOptimum(content, i, g)
    BY <1>3, <1>6 DEF StackEntries, AssertedFormulas
  <2>2. content[i].f.vars \subseteq E
    BY <1>v
  <2> HIDE DEF E
  <2>3. CASE g = Names(Z(content, i), content[i].f)
    BY <1>5, <2>2, <2>3
  <2>4. CASE IsOptimum(content, i, g)
    BY <2>4 DEF IsOptimum
  <2> QED
    BY <2>1, <2>3, <2>4
<1>7. side.vars \subseteq E
  <2> SUFFICES ASSUME NEW v \in side.vars
               PROVE  v \in E
    OBVIOUS
  <2>1. CASE v \in f.vars
    BY <2>1
  <2>2. ASSUME NEW g \in Entries(s), v \in g.vars
        PROVE  v \in E
    <3>1. CASE g \in F
      BY <1>v, <2>2, <3>1 DEF AssertedFormulas
    <3>2. CASE g \notin F
      BY <1>4, <1>6, <2>2, <3>2
    <3> QED
      BY <3>1, <3>2
  <2> QED
    BY <1>1, <2>1, <2>2
<1>8. F \subseteq Entries(s)
  BY <1>3 DEF StackEntries, AssertedFormulas
<1>9. side.formulas \subseteq F
  <2> SUFFICES ASSUME NEW g \in side.formulas
               PROVE  g \in F
    OBVIOUS
  <2>1. g \in Entries(s) /\ g.vars \subseteq side.vars
    BY <1>1
  <2> QED
    BY <1>4, <1>6, <2>1
<1>10. side.formulas = {g \in F : g.vars \cap side.vars # {}}
  BY <1>1, <1>8, <1>9
<1>11. \A g \in F : g.vars \subseteq E
  BY <1>v DEF AssertedFormulas
<1> QED
  BY <1>1, <1>7, <1>10, <1>11 DEF IsSide, side

\* The formula Minimize adds is the one that makes the objective the least.
LEMMA OptimalIsOptimum ==
  ASSUME NEW content, IsInput(content), NEW n, n <= Len(content), NEW b, NEW s, NEW k,
         Smt2Holds(content, n, b, s, k), content[n].c = "minimize",
         content[n].f.vars \subseteq Scope(content, n),
         NEW fs, IsOne(fs, content[n].f), ~CannotMinimize(s, fs),
         NEW zs, DOMAIN zs = {1}, zs[1] = Z(content, n)
  PROVE  IsOptimum(content, n, Optimal(b, SideOf(s, fs), fs, zs))
<1>1. PICK f, z : f = content[n].f /\ z = Z(content, n)
  OBVIOUS
<1>2. PICK E, F, side : E = Scope(content, n) /\ F = AssertedFormulas(content, n) /\ side = SideOf(s, fs)
  OBVIOUS
<1>3. PICK o : o = Optimal(b, side, fs, zs)
  OBVIOUS
<1>4. f.value \in [Points(f.vars) -> Values]
  <2>1. n \in Nat \ {0} /\ n \in 1..((n + 1) - 1) /\ IsPlace(content, n + 1)
    BY NextPlace DEF Smt2Holds
  <2> QED
    BY <1>1, <2>1, InputAt
<1>5. f.vars \subseteq side.vars /\ IsSide(side, F, E)
  BY <1>1, <1>2, SideInScope
<1>6. Feasible(content, n) = Within(b, E, F)
  BY <1>2, FeasibleIsWithin DEF Smt2Holds, Smt2Box
<1>7. /\ o.vars = {z} /\ o.forall
      /\ \A D : \A r \in Points(D) : z \in D =>
           (Satisfies(r, o) <=> \A y \in Rivals(b, side) : r[z] <= Score(f, y))
  <2>1. IsOne(fs, f) /\ zs[1] = z
    BY <1>1
  <2>2. IsLeast(o, zs[1], b, side, f)
    BY <1>3, <2>1, OneOptimum
  <2> QED
    BY <2>1, <2>2 DEF IsLeast
<1>8. ASSUME NEW p \in Feasible(content, n)
      PROVE  [v \in {z} |-> Score(f, p)] \in o.sat
               <=> ~\E q \in Feasible(content, n) : Score(f, q) < Score(f, p)
  <2> DEFINE r == [v \in {z} |-> Score(f, p)]
  <2>1. p \in Within(b, E, F) /\ p \in Points(E)
    BY <1>6 DEF Within
  <2>2. Score(f, p) \in Values
    <3>1. f.vars \subseteq E
      BY <1>1, <1>2
    <3> QED
      BY <1>4, <2>1, <3>1, ScoreIsValue
  <2>3. r \in Points({z}) /\ r[z] = Score(f, p)
    BY <2>2 DEF Points
  <2>4. Projected(r, {z}) = r
    BY DEF Projected
  <2> HIDE DEF r
  <2>5. Satisfies(r, o) <=> r \in o.sat
    BY <1>7, <2>4 DEF Satisfies
  <2>6. Satisfies(r, o) <=> \A y \in Rivals(b, side) : Score(f, p) <= Score(f, y)
    BY <1>7, <2>3
  <2>7. (\A y \in Rivals(b, side) : Score(f, p) <= Score(f, y))
           <=> ~\E q \in Within(b, E, F) : Score(f, q) < Score(f, p)
    BY <1>4, <1>5, <2>1, OneRival
  <2>8. r \in o.sat <=> ~\E q \in Feasible(content, n) : Score(f, q) < Score(f, p)
    BY <1>6, <2>5, <2>6, <2>7
  <2> QED
    BY <2>8 DEF r
<1>9. IsOptimum(content, n, o)
  BY <1>1, <1>7, <1>8 DEF IsOptimum
<1> QED
  BY <1>2, <1>3, <1>9

\* What a minimization of one objective leaves.
IsMinimizedOnce(m, b, s, f, z, o) ==
  /\ DOMAIN m.box = DOMAIN b \cup {z}
  /\ \A v \in DOMAIN b : m.box[v] = b[v]
  /\ z \notin DOMAIN b => m.box[z] = Values
  /\ IsSequence(m.stack)
  /\ Entries(m.stack) = Entries(s) \cup {Names(z, f), o}

LEMMA MinimizedOnce ==
  ASSUME NEW b, NEW s, IsSequence(s), NEW k \in Nat, k < Len(ZNames), NEW f, NEW fs, IsOne(fs, f)
  PROVE  /\ DOMAIN NewZ(k, fs) = {1} /\ NewZ(k, fs)[1] = ZNames[k + 1]
         /\ IsMinimizedOnce(Minimized(b, s, k, fs), b, s, f, ZNames[k + 1],
                            Optimal(b, SideOf(s, fs), fs, NewZ(k, fs)))
<1>1. PICK m, zs, z : m = Minimized(b, s, k, fs) /\ zs = NewZ(k, fs) /\ z = ZNames[k + 1]
  OBVIOUS
<1>2. IsSequence(fs) /\ Len(fs) = 1 /\ DOMAIN fs = {1} /\ fs[1] = f
  BY DEF IsOne
<1>3. k + Len(fs) <= Len(ZNames)
  BY <1>2, InputAssumption
<1>4. DOMAIN zs = DOMAIN fs /\ \A i \in DOMAIN fs : zs[i] = ZNames[k + i]
  BY <1>1, <1>2, <1>3, ObjectiveVariables
<1>5. IsMinimized(m, b, s, fs, zs)
  BY <1>1, <1>2, <1>3, MinimizedParts
<1>6. zs[1] = z /\ DOMAIN zs = {1}
  BY <1>1, <1>2, <1>4
<1>7. {zs[i] : i \in DOMAIN fs} = {z} /\ {Names(zs[i], fs[i]) : i \in DOMAIN fs} = {Names(z, f)}
  BY <1>2, <1>6
<1>8. Entries(m.stack) = Entries(s) \cup {Names(z, f), Optimal(b, SideOf(s, fs), fs, zs)}
  BY <1>5, <1>7 DEF IsMinimized
<1>9. DOMAIN m.box = DOMAIN b \cup {z}
  BY <1>5, <1>7 DEF IsMinimized
<1>10. IsMinimizedOnce(m, b, s, f, z, Optimal(b, SideOf(s, fs), fs, zs))
  BY <1>5, <1>8, <1>9 DEF IsMinimized, IsMinimizedOnce
<1> QED
  BY <1>1, <1>6, <1>10

LEMMA Smt2MinimizeHolds ==
  ASSUME NEW content, IsInput(content), NEW n, n <= Len(content), NEW b, NEW s, NEW k,
         Smt2Holds(content, n, b, s, k), content[n].c = "minimize",
         content[n].f.vars \subseteq DOMAIN b,
         NEW fs, IsOne(fs, content[n].f), ~CannotMinimize(s, fs), k < Len(ZNames)
  PROVE  Smt2Holds(content, n + 1, Minimized(b, s, k, fs).box, Minimized(b, s, k, fs).stack, k + 1)
<1>f. PICK f, z : f = content[n].f /\ z = Z(content, n)
  OBVIOUS
<1>m. PICK m : m = Minimized(b, s, k, fs)
  OBVIOUS
<1>1. IsPlace(content, n + 1) /\ n \in Nat \ {0} /\ n \in 1..((n + 1) - 1)
  BY NextPlace DEF Smt2Holds
<1>2. /\ Declared(content, n + 1) = Declared(content, n)
      /\ Asserted(content, n + 1) = Asserted(content, n)
      /\ Minimizations(content, n + 1) = Minimizations(content, n) \cup {n}
      /\ n \notin Minimizations(content, n)
  BY <1>1, OneMore
<1>3. Scope(content, n + 1) = Scope(content, n)
  BY <1>2 DEF Scope
<1>4. f.vars \subseteq Scope(content, n)
  BY <1>f, OverScope
<1>5. IsScoped(content, n + 1)
  BY <1>2, <1>4, <1>f DEF Smt2Holds, IsScoped
<1>6. k = Cardinality(Minimizations(content, n)) /\ k \in Nat
  BY <1>1, ManyMinimizations DEF Smt2Holds
<1>7. k + 1 = Cardinality(Minimizations(content, n + 1))
  BY <1>1, <1>2, <1>6, ManyMinimizations, FS_AddElement
<1>8. z = ZNames[k + 1]
  BY <1>f, <1>6 DEF Z
<1>9. PICK zs : zs = NewZ(k, fs)
  OBVIOUS
<1>10. PICK o : o = Optimal(b, SideOf(s, fs), fs, zs)
  OBVIOUS
<1>12. /\ DOMAIN zs = {1} /\ zs[1] = z
       /\ DOMAIN m.box = DOMAIN b \cup {z}
       /\ \A v \in DOMAIN b : m.box[v] = b[v]
       /\ z \notin DOMAIN b => m.box[z] = Values
       /\ IsSequence(m.stack)
       /\ Entries(m.stack) = Entries(s) \cup {Names(z, f), o}
  <2>1. IsSequence(s) /\ IsOne(fs, f)
    BY <1>f DEF Smt2Holds
  <2>2. DOMAIN zs = {1} /\ zs[1] = z /\ IsMinimizedOnce(m, b, s, f, z, o)
    BY <1>6, <1>8, <1>9, <1>10, <1>m, <2>1, MinimizedOnce
  <2> QED
    BY <2>2 DEF IsMinimizedOnce
<1>11. IsOptimum(content, n, o)
  BY <1>4, <1>f, <1>10, <1>12, OptimalIsOptimum
<1>13. z \notin DOMAIN b
  <2>1. z \in ZVariables /\ \A i \in Minimizations(content, n) : Z(content, i) # z
    <3>1. k + 1 <= Len(ZNames) /\ n + 1 \in Nat
      BY <1>1, <1>6, InputAssumption
    <3>2. /\ \A i \in Minimizations(content, n + 1) : Z(content, i) \in ZVariables
          /\ \A i, j \in Minimizations(content, n + 1) : Z(content, i) = Z(content, j) => i = j
      BY <1>7, <3>1, ZDiffers
    <3> QED
      BY <1>2, <1>f, <3>2
  <2>2. Scope(content, n) \cap ZVariables = {}
    <3> SUFFICES ASSUME NEW j \in Declared(content, n)
                 PROVE  content[j].v \notin ZVariables
      BY DEF Scope
    <3>1. j \in 1..(n - 1) /\ content[j].c = "declare" /\ IsPlace(content, n)
      BY DEF Declared, Smt2Holds
    <3> QED
      BY <1>1, <3>1, InputAt
  <2> QED
    BY <2>1, <2>2 DEF Smt2Holds, Smt2Box
<1>14. StackEntries(content, n, Entries(s))
  BY StackByEntries DEF Smt2Holds
<1>15. StackEntries(content, n + 1, Entries(s) \cup {Names(z, f), o})
  <2> DEFINE S == Entries(s) \cup {Names(z, f), o}
  <2>1. \A i \in Asserted(content, n + 1) : content[i].f \in S
    BY <1>2, <1>14 DEF StackEntries
  <2>2. ASSUME NEW i \in Minimizations(content, n + 1)
        PROVE  Names(Z(content, i), content[i].f) \in S /\ \E g \in S : IsOptimum(content, i, g)
    <3>1. CASE i = n
      BY <1>11, <1>f, <3>1
    <3>2. CASE i \in Minimizations(content, n)
      BY <1>14, <3>2 DEF StackEntries
    <3> QED
      BY <1>2, <3>1, <3>2
  <2>3. ASSUME NEW g \in S
        PROVE  \/ \E i \in Asserted(content, n + 1) : g = content[i].f
               \/ \E i \in Minimizations(content, n + 1) :
                    g = Names(Z(content, i), content[i].f) \/ IsOptimum(content, i, g)
    <3>1. CASE g = Names(z, f)
      BY <1>2, <1>f, <3>1
    <3>2. CASE g = o
      BY <1>2, <1>11, <3>2
    <3>3. CASE g \in Entries(s)
      BY <1>2, <1>14, <3>3 DEF StackEntries
    <3> QED
      BY <3>1, <3>2, <3>3
  <2> HIDE DEF S
  <2>4. StackEntries(content, n + 1, S)
    BY <2>1, <2>2, <2>3 DEF StackEntries
  <2> QED
    BY <2>4 DEF S
<1>16. Smt2Stack(content, n + 1, m.stack)
  BY <1>12, <1>15, StackByEntries
<1>17. Smt2Box(content, n + 1, m.box)
  <2>1. BoxHolds(content, n + 1, m.box)
    BY <1>2, <1>12 DEF Smt2Holds, Smt2Box, BoxHolds, Scope
  <2>2. DOMAIN m.box = Scope(content, n + 1) \cup {Z(content, i) : i \in Minimizations(content, n + 1)}
    BY <1>2, <1>3, <1>12, <1>f DEF Smt2Holds, Smt2Box
  <2>3. ASSUME NEW i \in Minimizations(content, n + 1)
        PROVE  m.box[Z(content, i)] = Values
    <3>1. CASE i = n
      BY <1>12, <1>13, <3>1, <1>f
    <3>2. CASE i \in Minimizations(content, n)
      BY <1>12, <3>2 DEF Smt2Holds, Smt2Box
    <3> QED
      BY <1>2, <3>1, <3>2
  <2> QED
    BY <2>1, <2>2, <2>3 DEF Smt2Box
<1>18. k + 1 <= Len(ZNames)
  BY <1>6, InputAssumption
<1> QED
  BY <1>1, <1>5, <1>7, <1>12, <1>16, <1>17, <1>18, <1>m DEF Smt2Holds

(* The middle of a domain *)

Below(d, c) == {a \in d : a < c}
Above(d, c) == {a \in d : a > c}

LEMMA Halves ==
  ASSUME NEW d \in SUBSET Int, IsFiniteSet(d), NEW c \in d
  PROVE  /\ IsFiniteSet(Below(d, c)) /\ Cardinality(Below(d, c)) \in Nat
         /\ IsFiniteSet(Above(d, c)) /\ Cardinality(Above(d, c)) \in Nat
<1>1. Below(d, c) \in SUBSET d /\ Above(d, c) \in SUBSET d
  BY DEF Below, Above
<1>2. IsFiniteSet(Below(d, c)) /\ IsFiniteSet(Above(d, c))
  BY <1>1, FS_Subset
<1> QED
  BY <1>2, FS_CardinalityType

LEMMA FewerAbove ==
  ASSUME NEW d \in SUBSET Int, IsFiniteSet(d), NEW c \in d, NEW e \in d, c < e
  PROVE  Cardinality(Above(d, e)) < Cardinality(Above(d, c))
<1>1. Above(d, e) \cup {e} \in SUBSET Above(d, c) /\ e \notin Above(d, e)
  <2>1. c \in Int /\ e \in Int /\ \A a \in d : a \in Int
    OBVIOUS
  <2>2. e > c /\ ~(e > e) /\ \A a \in d : a > e => a > c
    BY <2>1
  <2> QED
    BY <2>1, <2>2 DEF Above
<1>2. /\ IsFiniteSet(Above(d, e)) /\ Cardinality(Above(d, e)) \in Nat
      /\ IsFiniteSet(Above(d, c)) /\ Cardinality(Above(d, c)) \in Nat
  BY Halves
<1>3. Cardinality(Above(d, e) \cup {e}) = Cardinality(Above(d, e)) + 1
  BY <1>1, <1>2, FS_AddElement
<1>4. Cardinality(Above(d, e) \cup {e}) <= Cardinality(Above(d, c))
  BY <1>1, <1>2, FS_Subset
<1> QED
  BY <1>2, <1>3, <1>4

\* The greatest element of a part of a finite set.
LEMMA GreatestOf ==
  ASSUME NEW d \in SUBSET Int, IsFiniteSet(d), NEW L \in SUBSET d, L # {}
  PROVE  \E c \in L : \A e \in L : ~(c < e)
<1> DEFINE T == {Cardinality(Above(d, c)) : c \in L}
<1>1. T \in SUBSET Nat /\ T # {}
  BY Halves
<1>2. PICK x \in T : \A y \in T : x <= y
  BY <1>1, LeastExists
<1>3. PICK c \in L : x = Cardinality(Above(d, c))
  OBVIOUS
<1>4. ASSUME NEW e \in L, c < e
      PROVE  FALSE
  <2>1. Cardinality(Above(d, e)) < Cardinality(Above(d, c))
    BY <1>4, FewerAbove
  <2>2. x <= Cardinality(Above(d, e))
    BY <1>2
  <2>3. Cardinality(Above(d, e)) \in Nat /\ Cardinality(Above(d, c)) \in Nat
    BY Halves
  <2> QED
    BY <1>3, <2>1, <2>2, <2>3
<1> QED
  BY <1>4

LEMMA MiddleIsIn ==
  ASSUME NEW d \in SUBSET Int, IsFiniteSet(d), d # {}
  PROVE  Middle(d) \in d
<1> DEFINE B(c) == Cardinality(Below(d, c))
           A(c) == Cardinality(Above(d, c))
           T == {c \in d : B(c) >= A(c) - 1}
           S == {B(c) : c \in T}
<1>1. \A c \in d : B(c) \in Nat /\ A(c) \in Nat
  BY Halves
<1>2. T # {}
  <2>1. PICK c \in d : \A e \in d : ~(c < e)
    BY GreatestOf
  <2>2. Above(d, c) = {}
    BY <2>1 DEF Above
  <2>3. A(c) = 0
    BY <2>2, FS_EmptySet
  <2> QED
    BY <1>1, <2>3
<1>3. S \in SUBSET Nat /\ S # {}
  BY <1>1, <1>2
<1>4. PICK x \in S : \A y \in S : x <= y
  BY <1>3, LeastExists
<1>5. PICK c \in T : x = B(c)
  OBVIOUS
<1>6. c \in d /\ B(c) >= A(c) - 1 /\ \A e \in T : B(c) <= B(e)
  BY <1>4, <1>5
<1>7. ASSUME B(c) > A(c)
      PROVE  FALSE
  <2> DEFINE L == Below(d, c)
  <2>1. L # {}
    <3>1. B(c) # 0
      BY <1>1, <1>6, <1>7
    <3> QED
      BY <3>1, FS_EmptySet
  <2>2. L \in SUBSET d
    BY DEF Below
  <2> HIDE DEF L
  <2>3. PICK p \in L : \A e \in L : ~(p < e)
    BY <2>1, <2>2, GreatestOf
  <2>4. p \in d /\ p < c /\ \A e \in d : e < c => ~(p < e)
    BY <2>3 DEF L, Below
  <2>a. p \in Int /\ c \in Int /\ \A a \in d : a \in Int
    BY <1>6, <2>4
  <2>b. ~(p < p) /\ ~(c > c) /\ \A a \in d : (a < c <=> a < p \/ a = p) /\ (a > p <=> a > c \/ a = c)
    BY <2>4, <2>a
  <2>5. Below(d, c) = Below(d, p) \cup {p} /\ p \notin Below(d, p)
    <3> HIDE DEF T, S
    <3> QED
      BY <2>4, <2>a, <2>b DEF Below
  <2>6. Above(d, p) = Above(d, c) \cup {c} /\ c \notin Above(d, c)
    <3> HIDE DEF T, S
    <3> QED
      BY <1>6, <2>a, <2>b DEF Above
  <2>7. B(c) = B(p) + 1
    BY <2>4, <2>5, Halves, FS_AddElement
  <2>8. A(p) = A(c) + 1
    BY <1>6, <2>6, Halves, FS_AddElement
  <2>9. p \in T
    BY <1>1, <1>6, <1>7, <2>4, <2>7, <2>8
  <2>10. B(c) <= B(p)
    BY <1>6, <2>9
  <2> QED
    BY <1>1, <2>4, <2>7, <2>10
<1>8. B(c) \in {A(c), A(c) - 1}
  BY <1>1, <1>6, <1>7
<1>9. \E e \in d : B(e) \in {A(e), A(e) - 1}
  BY <1>6, <1>8
<1>10. Middle(d) = CHOOSE e \in d : B(e) \in {A(e), A(e) - 1}
  BY DEF Middle, Below, Above
<1> HIDE DEF A, B
<1> QED
  BY <1>9, <1>10

LEMMA MiddleOfOne ==
  ASSUME NEW x \in Int
  PROVE  Middle({x}) = x
<1>1. {x} \in SUBSET Int /\ IsFiniteSet({x}) /\ {x} # {}
  BY FS_Singleton
<1>2. Middle({x}) \in {x}
  BY <1>1, MiddleIsIn
<1> QED
  BY <1>2

(* An answer *)

\* What is known of a context when it is checked: over E, its points are M.
HoldsPoints(b, s, E, M) ==
  /\ IsFiniteSet(DOMAIN b) /\ E \subseteq DOMAIN b
  /\ \A P \in Held(b, s) : Projected(P, E) \in M
  /\ \A p \in M : \E P \in Held(b, s) : Projected(P, E) = p
  /\ s = << >> => \A v \in DOMAIN b : b[v] \in (SUBSET Values) \ {{}} /\ IsFiniteSet(b[v])

\* A point of the box a check found, which Tighten keeps.
IsPointOf(P, m) == \A v \in DOMAIN m : P[v] \in m[v] /\ P[v] \in Tighten(m)[v]

LEMMA FoundHasAPoint ==
  ASSUME NEW b, NEW s, s = << >> => \A v \in DOMAIN b : b[v] \in (SUBSET Values) \ {{}}
                                                        /\ IsFiniteSet(b[v]),
         NEW m \in Found(b, s)
  PROVE  DOMAIN m = DOMAIN b /\ \E P \in Held(b, s) : IsPointOf(P, m)
<1>1. CASE s = << >>
  <2>1. m = b
    BY <1>1 DEF Found
  <2> DEFINE P == [v \in DOMAIN b |-> Middle(b[v])]
  <2>2. ASSUME NEW v \in DOMAIN b
        PROVE  Middle(b[v]) \in b[v] /\ Middle(b[v]) \in Values
    <3>1. b[v] \in SUBSET Int /\ IsFiniteSet(b[v]) /\ b[v] # {} /\ b[v] \subseteq Values
      BY <1>1, InputAssumption
    <3> QED
      BY <3>1, MiddleIsIn
  <2>3. DOMAIN P = DOMAIN b /\ P \in Points(DOMAIN b) /\ \A v \in DOMAIN b : P[v] = Middle(b[v])
    BY <2>2 DEF Points
  <2> HIDE DEF P
  <2>4. P \in Held(b, s)
    BY <1>1, <2>2, <2>3 DEF Held
  <2>5. IsPointOf(P, m)
    BY <2>1, <2>2, <2>3 DEF IsPointOf, Tighten
  <2> QED
    BY <2>1, <2>4, <2>5
<1>2. CASE s # << >>
  <2>1. PICK P \in Held(b, s) : m = [v \in DOMAIN b |-> {P[v]}]
    BY <1>2 DEF Found
  <2>2. \A v \in DOMAIN b : P[v] \in Int
    BY InputAssumption DEF Held, Points
  <2>3. \A v \in DOMAIN b : Tighten(m)[v] = {P[v]}
    BY <2>1, <2>2, MiddleOfOne DEF Tighten
  <2> QED
    BY <2>1, <2>3 DEF IsPointOf
<1> QED
  BY <1>1, <1>2

LEMMA ModelValues ==
  ASSUME NEW m, models \subseteq DOMAIN m
  PROVE  \A v \in models : ExtractModel(m)[v] = m[v]
BY DEF ExtractModel

LEMMA CheckSatAnswers ==
  ASSUME NEW b, NEW s, CheckSat(b, s), NEW M, HoldsPoints(b, s, models, M)
  PROVE  \E line : /\ output' = Append(output, line) /\ line.at = pos
                   /\ line.kind = "unsat" => M = {}
                   /\ line.kind = "delta-sat" =>
                        \E p \in M : DOMAIN line.model = DOMAIN p
                                     /\ \A v \in DOMAIN p : p[v] \in line.model[v]
<1>1. CASE Found(b, s) = {}
  <2>1. output' = Append(output, [kind |-> "unsat", at |-> pos, model |-> NoModel])
    BY <1>1 DEF CheckSat, Report
  <2>2. Held(b, s) = {}
    BY <1>1 DEF Found
  <2>3. M = {}
    BY <2>2 DEF HoldsPoints
  <2> QED
    BY <2>1, <2>3
<1>2. CASE Found(b, s) # {}
  <2>1. PICK m \in Found(b, s) : ReportModel(m)
    BY <1>2 DEF CheckSat
  <2>2. PICK t \in {m, Tighten(m)} :
          output' = Append(output, [kind |-> "delta-sat", at |-> pos, model |-> ExtractModel(t)])
    BY <2>1 DEF ReportModel, Report
  <2>3. PICK P \in Held(b, s) : IsPointOf(P, m) /\ DOMAIN m = DOMAIN b
    BY FoundHasAPoint DEF HoldsPoints
  <2>4. DOMAIN t = DOMAIN b /\ \A v \in DOMAIN b : P[v] \in t[v]
    BY <2>3 DEF IsPointOf, Tighten
  <2> DEFINE p == Projected(P, models)
  <2>5. DOMAIN p = models /\ \A v \in models : p[v] = P[v]
    BY DEF Projected
  <2>6. p \in M
    BY DEF HoldsPoints
  <2> HIDE DEF p
  <2>7. DOMAIN ExtractModel(t) = models
    BY <2>1, <2>2, ModelsDomain DEF HoldsPoints
  <2>8. \A v \in models : p[v] \in ExtractModel(t)[v]
    BY <2>4, <2>5, ModelValues DEF HoldsPoints
  <2> QED
    BY <2>2, <2>5, <2>6, <2>7, <2>8
<1> QED
  BY <1>1, <1>2

LEMMA RightAnswerIsAppended ==
  ASSUME NEW content, NEW together, NEW out, IsSequence(out),
         \A i \in DOMAIN out : IsRightAnswer(content, together, out[i]),
         NEW line, IsRightAnswer(content, together, line)
  PROVE  \A i \in DOMAIN Append(out, line) : IsRightAnswer(content, together, Append(out, line)[i])
<1> DEFINE r == Append(out, line)
<1>1. /\ Len(out) \in Nat /\ DOMAIN out = 1..Len(out) /\ DOMAIN r = 1..(Len(out) + 1)
      /\ \A i \in 1..Len(out) : r[i] = out[i]
      /\ r[Len(out) + 1] = line
  BY Appended
<1> HIDE DEF r
<1>2. \A i \in DOMAIN r : i \in DOMAIN out \/ i = Len(out) + 1
  BY <1>1
<1>3. \A i \in DOMAIN r : IsRightAnswer(content, together, r[i])
  BY <1>1, <1>2
<1> QED
  BY <1>3 DEF r

(* The objectives of dr, all at once *)

Best(b, E, F, fs) ==
  {p \in Within(b, E, F) : ~\E q \in Within(b, E, F) : \A i \in DOMAIN fs :
                               Score(fs[i], q) < Score(fs[i], p)}

\* What Solve minimizes.
IsTask(b, t, n, fs) ==
  /\ IsSequence(t) /\ IsSequence(fs) /\ n + Len(fs) <= Len(ZNames)
  /\ DOMAIN b \cap ZVariables = {}
  /\ \A g \in Entries(t) : g.vars \subseteq DOMAIN b
  /\ \A i \in DOMAIN fs : /\ fs[i].vars \subseteq DOMAIN b
                          /\ fs[i].value \in [Points(fs[i].vars) -> Values]

LEMMA TaskSide ==
  ASSUME NEW b, NEW t, NEW n, NEW fs, IsTask(b, t, n, fs)
  PROVE  /\ IsSide(SideOf(t, fs), Entries(t), DOMAIN b)
         /\ \A i \in DOMAIN fs : fs[i].vars \subseteq SideOf(t, fs).vars
<1> DEFINE side == SideOf(t, fs)
<1>1. /\ \A i \in DOMAIN fs : fs[i].vars \subseteq side.vars
      /\ side.formulas = {g \in Entries(t) : g.vars \cap side.vars # {}}
      /\ \A g \in side.formulas : g.vars \subseteq side.vars
      /\ \A v \in side.vars :
              \/ \E i \in DOMAIN fs : v \in fs[i].vars
              \/ \E g \in Entries(t) : v \in g.vars
  BY SideIsClosed
<1> HIDE DEF side
<1>2. side.vars \subseteq DOMAIN b
  BY <1>1 DEF IsTask
<1>3. \A g \in Entries(t) : g.vars \subseteq DOMAIN b
  BY DEF IsTask
<1> QED
  BY <1>1, <1>2, <1>3 DEF IsSide, side

\* A point of the box with the objective variables satisfies the new formulas.
LEMMA TaskFormulas ==
  ASSUME NEW b, NEW t, NEW n \in Nat, NEW fs, IsTask(b, t, n, fs),
         NEW zs, zs = NewZ(n, fs), NEW o, o = Optimal(b, SideOf(t, fs), fs, zs),
         NEW D, D = DOMAIN b \cup {zs[i] : i \in DOMAIN fs}, NEW P \in Points(D),
         NEW p, p = Projected(P, DOMAIN b), p \in Within(b, DOMAIN b, Entries(t))
  PROVE  /\ \A i \in DOMAIN fs :
              Satisfies(P, Names(zs[i], fs[i])) <=> P[zs[i]] = Score(fs[i], p)
         /\ (\A i \in DOMAIN fs : P[zs[i]] = Score(fs[i], p)) =>
              (Satisfies(P, o) <=> p \in Best(b, DOMAIN b, Entries(t), fs))
<1>1. PICK E, F, side : E = DOMAIN b /\ F = Entries(t) /\ side = SideOf(t, fs)
  OBVIOUS
<1>2. /\ DOMAIN zs = DOMAIN fs
      /\ \A i \in DOMAIN fs : zs[i] \in ZVariables
  BY ObjectiveVariables DEF IsTask
<1>3. \A i \in DOMAIN fs : fs[i].vars \subseteq E /\ zs[i] \in D /\ zs[i] \notin E
  BY <1>1, <1>2 DEF IsTask
<1>4. ASSUME NEW i \in DOMAIN fs
      PROVE  Score(fs[i], p) = Score(fs[i], P)
  <2>1. \A v \in fs[i].vars : p[v] = P[v]
    BY <1>1, <1>3 DEF Projected
  <2> QED
    BY <2>1, AgreeOnVars
<1>5. ASSUME NEW i \in DOMAIN fs
      PROVE  Satisfies(P, Names(zs[i], fs[i])) <=> P[zs[i]] = Score(fs[i], p)
  <2>1. fs[i].vars \cup {zs[i]} \subseteq D /\ zs[i] \notin fs[i].vars
    BY <1>1, <1>3
  <2> QED
    BY <1>4, <2>1, SatisfiesNames
<1>6. ASSUME \A i \in DOMAIN fs : P[zs[i]] = Score(fs[i], p)
      PROVE  Satisfies(P, o) <=> p \in Best(b, E, F, fs)
  <2>1. Satisfies(P, o)
          <=> \A y \in Rivals(b, side) : \E i \in DOMAIN fs : P[zs[i]] <= Score(fs[i], y)
    <3>1. o = Optimal(b, side, fs, zs) /\ DOMAIN fs = DOMAIN zs /\ \A i \in DOMAIN zs : zs[i] \in D
      BY <1>1, <1>2, <1>3
    <3>2. Satisfies(P, Optimal(b, side, fs, zs))
            <=> \A y \in Rivals(b, side) : \E i \in DOMAIN fs : P[zs[i]] <= Score(fs[i], y)
      BY <3>1, SatisfiesOptimal
    <3> QED
      BY <3>1, <3>2
  <2>2. Satisfies(P, o)
          <=> \A y \in Rivals(b, side) : \E i \in DOMAIN fs : Score(fs[i], p) <= Score(fs[i], y)
    BY <1>6, <2>1
  <2>3. IsSide(side, F, E) /\ \A i \in DOMAIN fs : fs[i].vars \subseteq side.vars
    BY <1>1, TaskSide
  <2>4. \A i \in DOMAIN fs : fs[i].value \in [Points(fs[i].vars) -> Values]
    BY DEF IsTask
  <2>5. p \in Within(b, E, F)
    BY <1>1
  <2>6. (\A y \in Rivals(b, side) : \E i \in DOMAIN fs : Score(fs[i], p) <= Score(fs[i], y))
           <=> ~\E q \in Within(b, E, F) : \A i \in DOMAIN fs : Score(fs[i], q) < Score(fs[i], p)
    BY <2>3, <2>4, <2>5, RivalsArePoints
  <2> QED
    BY <2>2, <2>5, <2>6 DEF Best
<1> QED
  BY <1>1, <1>5, <1>6

LEMMA MinimizedHolds ==
  ASSUME NEW b, NEW t, NEW n \in Nat, NEW fs, IsTask(b, t, n, fs), IsFiniteSet(DOMAIN b),
         NEW m, m = Minimized(b, t, n, fs)
  PROVE  HoldsPoints(m.box, m.stack, DOMAIN b, Best(b, DOMAIN b, Entries(t), fs))
<1>1. PICK zs : zs = NewZ(n, fs)
  OBVIOUS
<1>2. PICK o : o = Optimal(b, SideOf(t, fs), fs, zs)
  OBVIOUS
<1>3. PICK E, F : E = DOMAIN b /\ F = Entries(t)
  OBVIOUS
<1>4. PICK D : D = E \cup {zs[i] : i \in DOMAIN fs}
  OBVIOUS
<1>5. /\ DOMAIN m.box = D
      /\ \A v \in E : m.box[v] = b[v]
      /\ \A v \in D : v \notin E => m.box[v] = Values
      /\ IsSequence(m.stack) /\ m.stack # << >>
      /\ Entries(m.stack) = F \cup {Names(zs[i], fs[i]) : i \in DOMAIN fs} \cup {o}
  <2>1. IsMinimized(m, b, t, fs, zs)
    BY <1>1, MinimizedParts DEF IsTask
  <2> QED
    BY <1>2, <1>3, <1>4, <2>1 DEF IsMinimized
<1>6. /\ DOMAIN zs = DOMAIN fs /\ DOMAIN fs = 1..Len(fs) /\ Len(fs) \in Nat
      /\ \A i \in DOMAIN fs : zs[i] \in ZVariables
      /\ \A i, j \in DOMAIN fs : zs[i] = zs[j] => i = j
  BY <1>1, ObjectiveVariables DEF IsTask
<1>7. /\ E \subseteq D /\ \A i \in DOMAIN fs : zs[i] \in D /\ zs[i] \notin E
      /\ \A v \in D \ E : \E i \in DOMAIN fs : v = zs[i]
  BY <1>3, <1>4, <1>6 DEF IsTask
<1>8. \A g \in F : g.vars \subseteq E
  BY <1>3 DEF IsTask
<1>9. ASSUME NEW P \in Points(D), NEW g, g.vars \subseteq E
      PROVE  Satisfies(P, g) <=> Satisfies(Projected(P, E), g)
  <2>1. \A v \in g.vars : P[v] = Projected(P, E)[v]
    BY <1>9 DEF Projected
  <2> QED
    BY <2>1, AgreeOnVars
<1>10. \A P : P \in Held(m.box, m.stack)
                <=> /\ P \in Points(D) /\ \A v \in D : P[v] \in m.box[v]
                    /\ \A g \in Entries(m.stack) : Satisfies(P, g)
  BY <1>5 DEF Held, Entries
<1>11. ASSUME NEW P \in Points(D), NEW p, p = Projected(P, E), p \in Within(b, E, F)
       PROVE  /\ \A i \in DOMAIN fs :
                   Satisfies(P, Names(zs[i], fs[i])) <=> P[zs[i]] = Score(fs[i], p)
              /\ (\A i \in DOMAIN fs : P[zs[i]] = Score(fs[i], p)) =>
                   (Satisfies(P, o) <=> p \in Best(b, E, F, fs))
  <2>1. D = DOMAIN b \cup {zs[i] : i \in DOMAIN fs}
    BY <1>3, <1>4
  <2>2. p = Projected(P, DOMAIN b) /\ p \in Within(b, DOMAIN b, Entries(t))
    BY <1>3, <1>11
  <2>3. /\ \A i \in DOMAIN fs :
             Satisfies(P, Names(zs[i], fs[i])) <=> P[zs[i]] = Score(fs[i], p)
        /\ (\A i \in DOMAIN fs : P[zs[i]] = Score(fs[i], p)) =>
             (Satisfies(P, o) <=> p \in Best(b, DOMAIN b, Entries(t), fs))
    BY <1>1, <1>2, <2>1, <2>2, TaskFormulas
  <2> QED
    BY <1>3, <2>3
<1>12. ASSUME NEW P \in Held(m.box, m.stack)
       PROVE  Projected(P, E) \in Best(b, E, F, fs)
  <2>1. PICK p : p = Projected(P, E)
    OBVIOUS
  <2>2. P \in Points(D) /\ (\A v \in D : P[v] \in m.box[v])
          /\ \A g \in Entries(m.stack) : Satisfies(P, g)
    BY <1>10
  <2>3. p \in Points(E) /\ \A v \in E : p[v] = P[v]
    BY <1>7, <2>1, <2>2, ProjectedPoint
  <2>4. p \in Within(b, E, F)
    <3>1. \A v \in E : p[v] \in b[v]
      BY <1>5, <1>7, <2>2, <2>3
    <3>2. \A g \in F : Satisfies(p, g)
      BY <1>5, <1>8, <1>9, <2>1, <2>2
    <3> QED
      BY <2>3, <3>1, <3>2 DEF Within
  <2>5. \A i \in DOMAIN fs : Satisfies(P, Names(zs[i], fs[i]))
    BY <1>5, <2>2
  <2>6. Satisfies(P, o)
    BY <1>5, <2>2
  <2> QED
    BY <1>11, <2>1, <2>2, <2>4, <2>5, <2>6
<1>13. ASSUME NEW p \in Best(b, E, F, fs)
       PROVE  \E P \in Held(m.box, m.stack) : Projected(P, E) = p
  <2> DEFINE P == [v \in D |-> IF v \in E THEN p[v]
                               ELSE Score(fs[CHOOSE i \in DOMAIN fs : zs[i] = v], p)]
  <2>1. p \in Within(b, E, F) /\ p \in Points(E)
    BY DEF Best, Within
  <2>2. ASSUME NEW i \in DOMAIN fs
        PROVE  P[zs[i]] = Score(fs[i], p) /\ Score(fs[i], p) \in Values
    <3>1. (CHOOSE j \in DOMAIN fs : zs[j] = zs[i]) = i
      BY <1>6
    <3>2. zs[i] \in D /\ zs[i] \notin E
      BY <1>7
    <3>3. P[zs[i]] = Score(fs[i], p)
      BY <3>1, <3>2
    <3>4. Score(fs[i], p) \in Values
      BY <1>3, <2>1, ScoreIsValue DEF IsTask
    <3> QED
      BY <3>3, <3>4
  <2>3. DOMAIN P = D /\ P = [v \in D |-> P[v]] /\ \A v \in E : P[v] = p[v]
    BY <1>7
  <2> HIDE DEF P
  <2>4. \A v \in D \ E : P[v] \in Values
    BY <1>7, <2>2
  <2>5. \A v \in E : P[v] \in Values /\ P[v] \in b[v]
    BY <2>1, <2>3 DEF Points, Within
  <2>6. P \in Points(D)
    BY <2>3, <2>4, <2>5 DEF Points
  <2>7. \A v \in D : P[v] \in m.box[v]
    BY <1>5, <2>4, <2>5
  <2>8. Projected(P, E) = p
    BY <2>1, <2>3 DEF Projected, Points
  <2>9. \A g \in F : Satisfies(P, g)
    BY <1>8, <1>9, <2>1, <2>6, <2>8 DEF Within
  <2>10. (\A i \in DOMAIN fs : Satisfies(P, Names(zs[i], fs[i]))) /\ Satisfies(P, o)
    BY <1>11, <2>1, <2>2, <2>6, <2>8
  <2>11. \A g \in Entries(m.stack) : Satisfies(P, g)
    BY <1>5, <2>9, <2>10
  <2> QED
    BY <1>10, <2>6, <2>7, <2>8, <2>11
<1>14. IsFiniteSet(D)
  <2>1. IsFiniteSet(DOMAIN m.box)
    BY MinimizedBox DEF IsTask
  <2> QED
    BY <1>5, <2>1
<1> QED
  BY <1>3, <1>5, <1>7, <1>12, <1>13, <1>14 DEF HoldsPoints

LEMMA MeantApart ==
  ASSUME NEW content, NEW n, NEW together
  PROVE  /\ together => Meant(content, n, together) = Meant(content, n, TRUE)
         /\ ~together => Meant(content, n, together) = Meant(content, n, FALSE)
BY DEF Meant

\* Every variable of the box of a context without objectives is declared.
LEMMA DomainsOf ==
  ASSUME NEW content, IsInput(content), NEW n, IsPlace(content, n), NEW b,
         BoxHolds(content, n, b)
  PROVE  \A v \in Scope(content, n) :
           b[v] \in (SUBSET Values) \ {{}} /\ IsFiniteSet(b[v])
<1> SUFFICES ASSUME NEW i \in Declared(content, n)
             PROVE  b[content[i].v] \in (SUBSET Values) \ {{}} /\ IsFiniteSet(b[content[i].v])
  BY DEF Scope
<1>1. i \in 1..(n - 1) /\ content[i].c = "declare"
  BY DEF Declared
<1>2. content[i].domain \in (SUBSET Values) \ {{}} /\ IsFiniteSet(content[i].domain)
  BY <1>1, InputAt
<1> QED
  BY <1>2 DEF BoxHolds

LEMMA Smt2Points ==
  ASSUME NEW content, IsInput(content), NEW n, NEW b, NEW s, NEW k,
         Smt2Holds(content, n, b, s, k), IsFiniteSet(DOMAIN b)
  PROVE  HoldsPoints(b, s, Scope(content, n), Meant(content, n, FALSE))
<1>1. Scope(content, n) \subseteq DOMAIN b
  BY DEF Smt2Holds, Smt2Box
<1>2. \A P \in Held(b, s) : Projected(P, Scope(content, n)) \in Meant(content, n, FALSE)
  BY HeldIsMeant
<1>3. \A p \in Meant(content, n, FALSE) : HoldsOver(b, s, Scope(content, n), p)
  BY MeantIsHeld
<1>4. ASSUME s = << >>, NEW v \in DOMAIN b
      PROVE  b[v] \in (SUBSET Values) \ {{}} /\ IsFiniteSet(b[v])
  <2>1. Minimizations(content, n) = {}
    BY <1>4 DEF Smt2Holds, Smt2Stack
  <2>2. v \in Scope(content, n)
    BY <2>1 DEF Smt2Holds, Smt2Box
  <2>3. IsPlace(content, n) /\ BoxHolds(content, n, b)
    BY DEF Smt2Holds, Smt2Box
  <2> QED
    BY <2>2, <2>3, DomainsOf
<1> QED
  BY <1>1, <1>2, <1>3, <1>4 DEF HoldsPoints, HoldsOver

(* One command of the dr driver *)

LEMMA DrStart ==
  ASSUME NEW content, IsInput(content)
  PROVE  DrHolds(content, 1, None, << >>, 0, << >>, << >>)
<1>1. Declared(content, 1) = {} /\ Asserted(content, 1) = {} /\ Minimizations(content, 1) = {}
  BY DEF Declared, Asserted, Minimizations
<1>2. IsPlace(content, 1)
  BY DEF IsPlace, IsInput
<1>3. IsSequence(<< >>) /\ Entries(<< >>) = {}
  BY DEF IsSequence, Entries
<1>4. AssertedFormulas(content, 1) = {} /\ ObjectivesOf(content, 1) = {} /\ Scope(content, 1) = {}
  BY <1>1 DEF AssertedFormulas, ObjectivesOf, Scope
<1>5. DOMAIN None = {}
  BY DEF None
<1> QED
  BY <1>1, <1>2, <1>3, <1>4, <1>5 DEF DrHolds, IsScoped, BoxHolds

LEMMA DrDeclareHolds ==
  ASSUME NEW content, IsInput(content), NEW n, n <= Len(content), NEW b, NEW s, NEW k,
         NEW cs, NEW fs, DrHolds(content, n, b, s, k, cs, fs), content[n].c = "declare"
  PROVE  DrHolds(content, n + 1, WithDomain(b, content[n].v, content[n].domain), s, k, cs, fs)
<1> DEFINE v == content[n].v
           d == content[n].domain
           c == WithDomain(b, v, d)
<1>1. IsPlace(content, n + 1) /\ n \in Nat \ {0} /\ n \in 1..((n + 1) - 1) /\ IsPlace(content, n)
  BY NextPlace DEF DrHolds
<1>2. /\ Declared(content, n + 1) = Declared(content, n) \cup {n}
      /\ Asserted(content, n + 1) = Asserted(content, n)
      /\ Minimizations(content, n + 1) = Minimizations(content, n)
  BY <1>1, OneMore
<1>3. Scope(content, n + 1) = Scope(content, n) \cup {v}
  BY <1>2 DEF Scope
<1>4. \A j \in Declared(content, n) : content[j].v # v
  BY <1>1, InputAt DEF Declared
<1>5. DOMAIN c = DOMAIN b \cup {v} /\ c[v] = d /\ \A u \in DOMAIN b : u # v => c[u] = b[u]
  BY DEF WithDomain
<1> HIDE DEF c
<1>6. \A j \in Declared(content, n) : content[j].v \in DOMAIN b
  BY DEF DrHolds, Scope
<1>7. BoxHolds(content, n + 1, c)
  BY <1>2, <1>4, <1>5, <1>6 DEF DrHolds, BoxHolds
<1>8. AssertedFormulas(content, n + 1) = AssertedFormulas(content, n)
        /\ ObjectivesOf(content, n + 1) = ObjectivesOf(content, n)
  BY <1>2 DEF AssertedFormulas, ObjectivesOf
<1>9. IsScoped(content, n + 1)
  BY <1>2 DEF DrHolds, IsScoped
<1> QED
  BY <1>1, <1>3, <1>5, <1>7, <1>8, <1>9 DEF DrHolds, c

LEMMA DrAssertHolds ==
  ASSUME NEW content, IsInput(content), NEW n, n <= Len(content), NEW b, NEW s, NEW k,
         NEW cs, NEW fs, DrHolds(content, n, b, s, k, cs, fs), content[n].c = "assert",
         content[n].f.vars \subseteq DOMAIN b
  PROVE  DrHolds(content, n + 1, b, s, k, Append(cs, content[n].f), fs)
<1>1. IsPlace(content, n + 1) /\ n \in Nat \ {0}
  BY NextPlace DEF DrHolds
<1>2. /\ Declared(content, n + 1) = Declared(content, n)
      /\ Asserted(content, n + 1) = Asserted(content, n) \cup {n}
      /\ Minimizations(content, n + 1) = Minimizations(content, n)
  BY <1>1, OneMore
<1>3. Scope(content, n + 1) = Scope(content, n) /\ ObjectivesOf(content, n + 1) = ObjectivesOf(content, n)
  BY <1>2 DEF Scope, ObjectivesOf
<1>4. AssertedFormulas(content, n + 1) = AssertedFormulas(content, n) \cup {content[n].f}
  BY <1>2 DEF AssertedFormulas
<1>5. /\ IsSequence(Append(cs, content[n].f))
      /\ Entries(Append(cs, content[n].f)) = Entries(cs) \cup {content[n].f}
  BY AppendEntries DEF DrHolds
<1>6. IsScoped(content, n + 1)
  BY <1>2 DEF DrHolds, IsScoped
<1>7. BoxHolds(content, n + 1, b)
  BY <1>2 DEF DrHolds, BoxHolds
<1> QED
  BY <1>1, <1>3, <1>4, <1>5, <1>6, <1>7 DEF DrHolds

LEMMA DrMinimizeHolds ==
  ASSUME NEW content, IsInput(content), NEW n, n <= Len(content), NEW b, NEW s, NEW k,
         NEW cs, NEW fs, DrHolds(content, n, b, s, k, cs, fs), content[n].c = "minimize",
         content[n].f.vars \subseteq DOMAIN b
  PROVE  DrHolds(content, n + 1, b, s, k, cs, Append(fs, content[n].f))
<1>1. IsPlace(content, n + 1) /\ n \in Nat \ {0}
  BY NextPlace DEF DrHolds
<1>2. /\ Declared(content, n + 1) = Declared(content, n)
      /\ Asserted(content, n + 1) = Asserted(content, n)
      /\ Minimizations(content, n + 1) = Minimizations(content, n) \cup {n}
  BY <1>1, OneMore
<1>3. /\ Scope(content, n + 1) = Scope(content, n)
      /\ AssertedFormulas(content, n + 1) = AssertedFormulas(content, n)
  BY <1>2 DEF Scope, AssertedFormulas
<1>4. ObjectivesOf(content, n + 1) = ObjectivesOf(content, n) \cup {content[n].f}
  BY <1>2 DEF ObjectivesOf
<1>5. /\ IsSequence(Append(fs, content[n].f))
      /\ Entries(Append(fs, content[n].f)) = Entries(fs) \cup {content[n].f}
  BY AppendEntries DEF DrHolds
<1>6. IsScoped(content, n + 1)
  BY <1>2 DEF DrHolds, IsScoped
<1>7. BoxHolds(content, n + 1, b)
  BY <1>2 DEF DrHolds, BoxHolds
<1> QED
  BY <1>1, <1>3, <1>4, <1>5, <1>6, <1>7 DEF DrHolds

\* What Solve gives the context is what the whole input means.
LEMMA DrTask ==
  ASSUME NEW content, IsInput(content), NEW n, NEW b, NEW s, NEW k, NEW cs, NEW fs,
         DrHolds(content, n, b, s, k, cs, fs), k + Len(fs) <= Len(ZNames)
  PROVE  /\ IsTask(b, s \o cs, k, fs) /\ k \in Nat /\ DOMAIN b = Scope(content, n)
         /\ IsSequence(s \o cs) /\ Entries(s \o cs) = AssertedFormulas(content, n)
         /\ Feasible(content, n) = Within(b, DOMAIN b, Entries(s \o cs))
<1>1. n \in Nat \ {0} /\ IsPlace(content, n) /\ IsScoped(content, n)
  BY DEF DrHolds, IsPlace
<1>2. IsSequence(<< >>) /\ Entries(<< >>) = {}
  BY DEF IsSequence, Entries
<1>3. s = << >> /\ IsSequence(cs) /\ IsSequence(fs) /\ DOMAIN b = Scope(content, n) /\ k \in Nat
        /\ Entries(cs) = AssertedFormulas(content, n) /\ Entries(fs) = ObjectivesOf(content, n)
        /\ BoxHolds(content, n, b)
  BY DEF DrHolds
<1>4. IsSequence(s \o cs) /\ Entries(s \o cs) = AssertedFormulas(content, n)
  BY <1>2, <1>3, ConcatEntries
<1>5. Scope(content, n) \cap ZVariables = {}
  <2> SUFFICES ASSUME NEW j \in Declared(content, n)
               PROVE  content[j].v \notin ZVariables
    BY DEF Scope
  <2>1. j \in 1..(n - 1) /\ content[j].c = "declare"
    BY DEF Declared
  <2> QED
    BY <1>1, <2>1, InputAt
<1>6. ASSUME NEW i \in Asserted(content, n) \cup Minimizations(content, n)
      PROVE  content[i].f.vars \subseteq Scope(content, n)
  <2>1. content[i].f.vars \subseteq Scope(content, i) /\ i \in 1..n
    BY <1>1 DEF IsScoped, Asserted, Minimizations
  <2> QED
    BY <1>1, <2>1, Earlier
<1>7. \A g \in AssertedFormulas(content, n) : g.vars \subseteq Scope(content, n)
  BY <1>6 DEF AssertedFormulas
<1>8. ASSUME NEW i \in DOMAIN fs
      PROVE  fs[i].vars \subseteq Scope(content, n)
               /\ fs[i].value \in [Points(fs[i].vars) -> Values]
  <2>1. PICK j \in Minimizations(content, n) : fs[i] = content[j].f
    BY <1>3 DEF Entries, ObjectivesOf
  <2>2. j \in 1..(n - 1) /\ content[j].c = "minimize"
    BY DEF Minimizations
  <2> QED
    BY <1>1, <1>6, <2>1, <2>2, InputAt
<1>9. IsTask(b, s \o cs, k, fs)
  BY <1>3, <1>4, <1>5, <1>7, <1>8 DEF IsTask
<1> QED
  BY <1>3, <1>4, <1>9, FeasibleIsWithin

LEMMA DrPoints ==
  ASSUME NEW content, IsInput(content), NEW n, NEW b, NEW s, NEW k, NEW cs, NEW fs,
         DrHolds(content, n, b, s, k, cs, fs), k + Len(fs) <= Len(ZNames), fs # << >>,
         IsFiniteSet(DOMAIN b), NEW m, m = Minimized(b, s \o cs, k, fs)
  PROVE  HoldsPoints(m.box, m.stack, Scope(content, n), Meant(content, n, TRUE))
<1>1. PICK t : t = s \o cs
  OBVIOUS
<1>2. /\ IsTask(b, t, k, fs) /\ k \in Nat /\ DOMAIN b = Scope(content, n)
      /\ Feasible(content, n) = Within(b, DOMAIN b, Entries(t))
  BY <1>1, DrTask
<1>3. HoldsPoints(m.box, m.stack, DOMAIN b, Best(b, DOMAIN b, Entries(t), fs))
  BY <1>1, <1>2, MinimizedHolds
<1>4. Entries(fs) = ObjectivesOf(content, n) /\ IsSequence(fs)
  BY DEF DrHolds
<1>5. Minimizations(content, n) # {}
  <2>1. Len(fs) \in Nat /\ DOMAIN fs = 1..Len(fs) /\ Len(fs) # 0
    BY <1>4 DEF IsSequence
  <2>2. fs[1] \in Entries(fs)
    BY <2>1 DEF Entries
  <2> QED
    BY <1>4, <2>2 DEF ObjectivesOf
<1>6. ASSUME NEW p, NEW q
      PROVE  (\A i \in DOMAIN fs : Score(fs[i], q) < Score(fs[i], p))
               <=> \A i \in Minimizations(content, n) : Score(content[i].f, q) < Score(content[i].f, p)
  <2>1. (\A i \in DOMAIN fs : Score(fs[i], q) < Score(fs[i], p))
          <=> \A f \in Entries(fs) : Score(f, q) < Score(f, p)
    BY DEF Entries
  <2>2. (\A i \in Minimizations(content, n) : Score(content[i].f, q) < Score(content[i].f, p))
          <=> \A f \in ObjectivesOf(content, n) : Score(f, q) < Score(f, p)
    BY DEF ObjectivesOf
  <2> QED
    BY <1>4, <2>1, <2>2
<1>7. Best(b, DOMAIN b, Entries(t), fs) = Meant(content, n, TRUE)
  <2>1. \A p : p \in Best(b, DOMAIN b, Entries(t), fs)
                 <=> p \in Feasible(content, n)
                     /\ ~\E q \in Feasible(content, n) : \A i \in DOMAIN fs :
                           Score(fs[i], q) < Score(fs[i], p)
    BY <1>2 DEF Best
  <2>2. \A p : p \in Meant(content, n, TRUE)
                 <=> p \in Feasible(content, n)
                     /\ ~\E q \in Feasible(content, n) : \A i \in Minimizations(content, n) :
                           Score(content[i].f, q) < Score(content[i].f, p)
    BY <1>5 DEF Meant
  <2>3. \A p : p \in Best(b, DOMAIN b, Entries(t), fs) <=> p \in Meant(content, n, TRUE)
    BY <1>6, <2>1, <2>2
  <2>4. /\ Best(b, DOMAIN b, Entries(t), fs) = {p \in Feasible(content, n) :
               p \in Best(b, DOMAIN b, Entries(t), fs)}
        /\ Meant(content, n, TRUE) = {p \in Feasible(content, n) : p \in Meant(content, n, TRUE)}
    BY <2>1, <2>2 DEF Best, Meant
  <2> QED
    BY <2>3, <2>4
<1> QED
  BY <1>2, <1>3, <1>7

LEMMA DrPointsOnly ==
  ASSUME NEW content, IsInput(content), NEW n, NEW b, NEW s, NEW k, NEW cs,
         DrHolds(content, n, b, s, k, cs, << >>), k <= Len(ZNames), IsFiniteSet(DOMAIN b)
  PROVE  HoldsPoints(b, s \o cs, Scope(content, n), Meant(content, n, TRUE))
<1>1. PICK t : t = s \o cs
  OBVIOUS
<1>2. /\ k \in Nat /\ DOMAIN b = Scope(content, n) /\ IsSequence(t)
      /\ Feasible(content, n) = Within(b, DOMAIN b, Entries(t))
  <2>1. Len(<< >>) = 0 /\ k + 0 = k
    BY DEF DrHolds
  <2> QED
    BY <1>1, <2>1, DrTask
<1>3. Minimizations(content, n) = {}
  <2>1. Entries(<< >>) = {}
    BY DEF Entries
  <2>2. ObjectivesOf(content, n) = {}
    BY <2>1 DEF DrHolds
  <2> QED
    BY <2>2 DEF ObjectivesOf
<1>4. Meant(content, n, TRUE) = Feasible(content, n)
  BY <1>3 DEF Meant
<1>5. Held(b, t) = Within(b, DOMAIN b, Entries(t))
  BY DEF Held, Within, Entries
<1>6. \A P \in Held(b, t) : Projected(P, DOMAIN b) = P
  BY DEF Projected, Held, Points
<1>7. ASSUME NEW v \in DOMAIN b
      PROVE  b[v] \in (SUBSET Values) \ {{}} /\ IsFiniteSet(b[v])
  BY <1>2, DomainsOf DEF DrHolds
<1>8. HoldsPoints(b, t, Scope(content, n), Meant(content, n, TRUE))
  BY <1>2, <1>4, <1>5, <1>6, <1>7 DEF HoldsPoints
<1> QED
  BY <1>1, <1>8

(* The run *)

LEMMA AnswersInit == Init => AnswersInv
<1> SUFFICES ASSUME Init PROVE AnswersInv
  OBVIOUS
<1>1. output = << >> /\ DOMAIN << >> = {}
  BY DEF Init
<1> QED
  BY <1>1 DEF Init, AnswersInv

\* The rest of the run when the phase is over or as it was, and nothing is printed.
LEMMA AnswersStay ==
  ASSUME AnswersInv, case' = case, output' = output,
         phase' \in {"end", "options", "open", "smt2", "dr"},
         phase' \in {"options", "open"} =>
             /\ pos' = 1 /\ box' = None /\ stack' = << >> /\ counter' = 0
             /\ constraints' = << >> /\ objectives' = << >> /\ case.entry = "main",
         phase' = "smt2" => ~ReadsDr /\ Smt2Holds(case.content, pos', box', stack', counter'),
         phase' = "dr" =>
             /\ ReadsDr
             /\ DrHolds(case.content, pos', box', stack', counter', constraints', objectives')
  PROVE  AnswersInv'
<1>1. ReadsDr' <=> ReadsDr
  BY DEF ReadsDr, IsSmt2, Format, Filename, IsSet
<1>2. \A i \in DOMAIN output : IsRightAnswer(case.content, ReadsDr', output[i])
  BY <1>1 DEF AnswersInv, IsRightAnswer, Meant
<1> QED
  BY <1>1, <1>2 DEF AnswersInv

LEMMA AnswersOfInput ==
  ASSUME AnswersInv
  PROVE  IsInput(case.content)
BY InputAssumption DEF AnswersInv

\* A check prints a right answer.
LEMMA AnswerPrinted ==
  ASSUME AnswersInv, ModelsInv, case' = case, NEW b, NEW s, CheckSat(b, s),
         HoldsPoints(b, s, Scope(case.content, pos), Meant(case.content, pos, ReadsDr))
  PROVE  \A i \in DOMAIN output' : IsRightAnswer(case.content, ReadsDr, output'[i])
<1>1. models = Scope(case.content, pos) /\ IsSequence(output)
  BY DEF ModelsInv, DeclaredInv, OutputIsRight
<1>2. PICK line :
        /\ output' = Append(output, line) /\ line.at = pos
        /\ line.kind = "unsat" => Meant(case.content, pos, ReadsDr) = {}
        /\ line.kind = "delta-sat" =>
             \E p \in Meant(case.content, pos, ReadsDr) :
                DOMAIN line.model = DOMAIN p /\ \A v \in DOMAIN p : p[v] \in line.model[v]
  BY <1>1, CheckSatAnswers
<1>3. IsRightAnswer(case.content, ReadsDr, line)
  BY <1>2 DEF IsRightAnswer
<1>4. \A i \in DOMAIN output : IsRightAnswer(case.content, ReadsDr, output[i])
  BY DEF AnswersInv
<1> QED
  BY <1>1, <1>2, <1>3, <1>4, RightAnswerIsAppended

\* The run after a line is printed.
LEMMA AnswersGrow ==
  ASSUME AnswersInv, case' = case, phase' \in {"end", "smt2"},
         \A i \in DOMAIN output' : IsRightAnswer(case.content, ReadsDr, output'[i]),
         phase' = "smt2" => ~ReadsDr /\ Smt2Holds(case.content, pos', box', stack', counter')
  PROVE  AnswersInv'
<1>1. ReadsDr' <=> ReadsDr
  BY DEF ReadsDr, IsSmt2, Format, Filename, IsSet
<1>2. \A i \in DOMAIN output' : IsRightAnswer(case.content, ReadsDr', output'[i])
  BY <1>1 DEF IsRightAnswer, Meant
<1> QED
  BY <1>1, <1>2 DEF AnswersInv

\* A line that is no answer is none that is wrong.
LEMMA OtherLinePrinted ==
  ASSUME AnswersInv, ModelsInv, NEW kind \in {"model", "option"}, NEW m, Report(kind, m)
  PROVE  \A i \in DOMAIN output' : IsRightAnswer(case.content, ReadsDr, output'[i])
<1>1. PICK line : output' = Append(output, line) /\ line.kind = kind
  BY DEF Report
<1>2. IsRightAnswer(case.content, ReadsDr, line)
  BY <1>1 DEF IsRightAnswer
<1>3. IsSequence(output) /\ \A i \in DOMAIN output : IsRightAnswer(case.content, ReadsDr, output[i])
  BY DEF AnswersInv, ModelsInv, OutputIsRight
<1> QED
  BY <1>1, <1>2, <1>3, RightAnswerIsAppended

\* One command of an SMT-LIB 2 file that prints nothing.
LEMMA AnswersOfSmt2 ==
  ASSUME AnswersInv, phase = "smt2", case' = case, output' = output,
         \/ phase' = "end"
         \/ phase' = "smt2" /\ Smt2Holds(case.content, pos', box', stack', counter')
  PROVE  AnswersInv'
BY AnswersStay DEF AnswersInv

LEMMA AnswersMain ==
  ASSUME AnswersInv, Main
  PROVE  AnswersInv'
<1>1. CASE ValidateOptions
  <2>1. /\ case' = case /\ output' = output /\ phase = "main" /\ phase' \in {"end", "options"}
        /\ case.entry = "main"
        /\ pos' = pos /\ box' = box /\ stack' = stack /\ counter' = counter
        /\ constraints' = constraints /\ objectives' = objectives
    BY <1>1 DEF ValidateOptions, Exit, context, driver
  <2> QED
    BY <2>1, AnswersStay DEF AnswersInv
<1>2. CASE Extract
  <2>1. /\ case' = case /\ output' = output /\ phase = "options" /\ phase' \in {"end", "open"}
        /\ pos' = pos /\ box' = box /\ stack' = stack /\ counter' = counter
        /\ constraints' = constraints /\ objectives' = objectives
    BY <1>2 DEF Extract, Throw, Exit, context, driver
  <2> QED
    BY <2>1, AnswersStay DEF AnswersInv
<1>3. CASE OpenInput
  <2>1. /\ case' = case /\ output' = output /\ phase = "open" /\ phase' \in {"end", "smt2", "dr"}
        /\ phase' = "smt2" => IsSmt2
        /\ phase' = "dr" => ~IsSmt2
        /\ pos' = pos /\ box' = box /\ stack' = stack /\ counter' = counter
        /\ constraints' = constraints /\ objectives' = objectives
    BY <1>3 DEF OpenInput, Exit, context, driver
  <2>2. /\ pos = 1 /\ box = None /\ stack = << >> /\ counter = 0
        /\ constraints = << >> /\ objectives = << >> /\ case.entry = "main"
    BY <2>1 DEF AnswersInv
  <2>3. /\ Smt2Holds(case.content, 1, None, << >>, 0)
        /\ DrHolds(case.content, 1, None, << >>, 0, << >>, << >>)
    BY AnswersOfInput, Smt2Start, DrStart
  <2>4. /\ Smt2Holds(case.content, pos', box', stack', counter')
        /\ DrHolds(case.content, pos', box', stack', counter', constraints', objectives')
    BY <2>1, <2>2, <2>3
  <2>5. /\ phase' = "smt2" => ~ReadsDr
        /\ phase' = "dr" => ReadsDr
    BY <2>1, <2>2 DEF ReadsDr
  <2> QED
    BY <2>1, <2>4, <2>5, AnswersStay
<1>4. CASE Embed
  <2>1. /\ case' = case /\ output' = output /\ phase = "main" /\ phase' = "smt2"
        /\ case.entry = "code"
        /\ pos' = pos /\ box' = box /\ stack' = stack /\ counter' = counter
        /\ constraints' = constraints /\ objectives' = objectives
    BY <1>4 DEF Embed, context, driver
  <2>2. pos = 1 /\ box = None /\ stack = << >> /\ counter = 0
    BY <2>1 DEF AnswersInv
  <2>3. Smt2Holds(case.content, 1, None, << >>, 0)
    BY AnswersOfInput, Smt2Start
  <2>4. Smt2Holds(case.content, pos', box', stack', counter')
    BY <2>1, <2>2, <2>3
  <2>5. ~ReadsDr
    BY <2>1 DEF ReadsDr
  <2> QED
    BY <2>1, <2>4, <2>5, AnswersStay
<1> QED
  BY <1>1, <1>2, <1>3, <1>4 DEF Main

LEMMA AnswersSmt2 ==
  ASSUME AnswersInv, ModelsInv, Smt2, ~MinimizeThrows
  PROVE  AnswersInv'
<1>i. IsInput(case.content)
  BY AnswersOfInput
<1>h. ASSUME phase = "smt2"
      PROVE  ~ReadsDr /\ Smt2Holds(case.content, pos, box, stack, counter)
  BY <1>h DEF AnswersInv
<1>1. CASE Smt2Declare
  <2>1. /\ phase = "smt2" /\ pos <= Len(case.content) /\ case.content[pos].c = "declare"
        /\ case' = case /\ output' = output /\ phase' = "smt2"
        /\ pos' = pos + 1 /\ stack' = stack /\ counter' = counter
        /\ box' = WithDomain(box, case.content[pos].v, case.content[pos].domain)
    BY <1>1 DEF Smt2Declare, AtCommand, Continue, Command
  <2>2. Smt2Holds(case.content, pos + 1,
                  WithDomain(box, case.content[pos].v, case.content[pos].domain), stack, counter)
    BY <1>i, <1>h, <2>1, Smt2DeclareHolds
  <2> QED
    BY <2>1, <2>2, AnswersOfSmt2
<1>2. CASE Smt2Assert
  <2>1. /\ phase = "smt2" /\ pos <= Len(case.content) /\ case.content[pos].c = "assert"
        /\ case.content[pos].f.vars \subseteq DOMAIN box
        /\ case' = case /\ output' = output /\ phase' = "smt2"
        /\ pos' = pos + 1 /\ box' = box /\ counter' = counter
        /\ stack' = Append(stack, case.content[pos].f)
    BY <1>2 DEF Smt2Assert, AtCommand, Continue, Command, IsDeclared
  <2>2. Smt2Holds(case.content, pos + 1, box, Append(stack, case.content[pos].f), counter)
    BY <1>i, <1>h, <2>1, Smt2AssertHolds
  <2> QED
    BY <2>1, <2>2, AnswersOfSmt2
<1>3. CASE Smt2Minimize
  <2>1. PICK fs : fs = <<Command.f>>
    OBVIOUS
  <2>2. /\ phase = "smt2" /\ pos <= Len(case.content) /\ case.content[pos].c = "minimize"
        /\ case.content[pos].f.vars \subseteq DOMAIN box
        /\ ~CannotMinimize(stack, fs) /\ counter < Len(ZNames)
        /\ case' = case /\ output' = output /\ phase' = "smt2"
        /\ pos' = pos + 1 /\ counter' = counter + 1
        /\ box' = Minimized(box, stack, counter, fs).box
        /\ stack' = Minimized(box, stack, counter, fs).stack
    BY <1>3, <2>1 DEF Smt2Minimize, AtCommand, Continue, Command, IsDeclared
  <2>3. IsOne(fs, case.content[pos].f)
    BY <2>1, OneIs DEF Command
  <2>4. Smt2Holds(case.content, pos + 1, Minimized(box, stack, counter, fs).box,
                  Minimized(box, stack, counter, fs).stack, counter + 1)
    BY <1>i, <1>h, <2>2, <2>3, Smt2MinimizeHolds
  <2> QED
    BY <2>2, <2>4, AnswersOfSmt2
<1>4. CASE Smt2CheckSat
  <2>1. /\ phase = "smt2" /\ pos <= Len(case.content) /\ case.content[pos].c = "check-sat"
        /\ CheckSat(box, stack) /\ case' = case /\ phase' = "smt2"
        /\ pos' = pos + 1 /\ box' = box /\ stack' = stack /\ counter' = counter
    BY <1>4 DEF Smt2CheckSat, AtCommand, Continue
  <2>2. IsFiniteSet(DOMAIN box)
    BY DEF ModelsInv, DeclaredInv
  <2>3. HoldsPoints(box, stack, Scope(case.content, pos), Meant(case.content, pos, FALSE))
    BY <1>i, <1>h, <2>1, <2>2, Smt2Points
  <2>4. HoldsPoints(box, stack, Scope(case.content, pos), Meant(case.content, pos, ReadsDr))
    BY <1>h, <2>1, <2>3, MeantApart
  <2>5. \A i \in DOMAIN output' : IsRightAnswer(case.content, ReadsDr, output'[i])
    BY <2>1, <2>4, AnswerPrinted
  <2>6. Smt2Holds(case.content, pos + 1, box, stack, counter)
    BY <1>i, <1>h, <2>1, Smt2Other
  <2> QED
    BY <1>h, <2>1, <2>5, <2>6, AnswersGrow
<1>5. CASE Smt2GetModel \/ Smt2GetOption
  <2>1. /\ phase = "smt2" /\ pos <= Len(case.content)
        /\ case.content[pos].c \in {"get-model", "get-option"}
        /\ \E kind \in {"model", "option"} : \E m : Report(kind, m)
        /\ case' = case /\ phase' = "smt2"
        /\ pos' = pos + 1 /\ box' = box /\ stack' = stack /\ counter' = counter
    BY <1>5 DEF Smt2GetModel, Smt2GetOption, AtCommand, Continue, context
  <2>2. \A i \in DOMAIN output' : IsRightAnswer(case.content, ReadsDr, output'[i])
    BY <2>1, OtherLinePrinted
  <2>3. Smt2Holds(case.content, pos + 1, box, stack, counter)
    BY <1>i, <1>h, <2>1, Smt2Other
  <2> QED
    BY <1>h, <2>1, <2>2, <2>3, AnswersGrow
<1>6. CASE Smt2SetOption \/ Smt2SetLogic
  <2>1. /\ phase = "smt2" /\ pos <= Len(case.content)
        /\ case.content[pos].c \in {"set-option", "set-logic"}
        /\ case' = case /\ output' = output
        /\ \/ phase' = "end"
           \/ phase' = "smt2" /\ pos' = pos + 1
        /\ box' = box /\ stack' = stack /\ counter' = counter
    BY <1>6 DEF Smt2SetOption, Smt2SetLogic, AtCommand, Continue, Throw, Exit, context
  <2>2. Smt2Holds(case.content, pos + 1, box, stack, counter)
    BY <1>i, <1>h, <2>1, Smt2Other
  <2> QED
    BY <2>1, <2>2, AnswersOfSmt2
<1>7. CASE Smt2Undeclared \/ Smt2PushPop \/ Smt2Exit
  <2>1. phase = "smt2" /\ case' = case /\ output' = output /\ phase' = "end"
    BY <1>7 DEF Smt2Undeclared, Smt2PushPop, Smt2Exit, AtCommand, Throw, Exit
  <2> QED
    BY <2>1, AnswersOfSmt2
<1> QED
  BY <1>1, <1>2, <1>3, <1>4, <1>5, <1>6, <1>7 DEF Smt2

LEMMA AnswersDr ==
  ASSUME AnswersInv, ModelsInv, Dr
  PROVE  AnswersInv'
<1>i. IsInput(case.content)
  BY AnswersOfInput
<1>h. /\ phase = "dr" /\ ReadsDr
      /\ DrHolds(case.content, pos, box, stack, counter, constraints, objectives)
  <2>1. phase = "dr"
    BY DEF Dr, DrDeclare, DrAssert, DrMinimize, DrError, DrSolve, InSection
  <2> QED
    BY <2>1 DEF AnswersInv
<1>s. ASSUME case' = case, output' = output, phase' = "dr",
             DrHolds(case.content, pos', box', stack', counter', constraints', objectives')
      PROVE  AnswersInv'
  BY <1>h, <1>s, AnswersStay
<1>1. CASE DrDeclare
  <2>1. /\ pos <= Len(case.content) /\ case.content[pos].c = "declare"
        /\ case' = case /\ output' = output /\ phase' = "dr"
        /\ pos' = pos + 1 /\ stack' = stack /\ counter' = counter
        /\ constraints' = constraints /\ objectives' = objectives
        /\ box' = WithDomain(box, case.content[pos].v, case.content[pos].domain)
    BY <1>1, <1>h DEF DrDeclare, InSection, Continue, Command, driver
  <2>2. DrHolds(case.content, pos + 1,
                WithDomain(box, case.content[pos].v, case.content[pos].domain), stack, counter,
                constraints, objectives)
    BY <1>i, <1>h, <2>1, DrDeclareHolds
  <2> QED
    BY <1>s, <2>1, <2>2
<1>2. CASE DrAssert
  <2>1. /\ pos <= Len(case.content) /\ case.content[pos].c = "assert"
        /\ case.content[pos].f.vars \subseteq DOMAIN box
        /\ case' = case /\ output' = output /\ phase' = "dr"
        /\ pos' = pos + 1 /\ box' = box /\ stack' = stack /\ counter' = counter
        /\ objectives' = objectives
        /\ constraints' = Append(constraints, case.content[pos].f)
    BY <1>2, <1>h DEF DrAssert, InSection, Command, context, IsDeclared
  <2>2. DrHolds(case.content, pos + 1, box, stack, counter,
                Append(constraints, case.content[pos].f), objectives)
    BY <1>i, <1>h, <2>1, DrAssertHolds
  <2> QED
    BY <1>s, <2>1, <2>2
<1>3. CASE DrMinimize
  <2>1. /\ pos <= Len(case.content) /\ case.content[pos].c = "minimize"
        /\ case.content[pos].f.vars \subseteq DOMAIN box
        /\ case' = case /\ output' = output /\ phase' = "dr"
        /\ pos' = pos + 1 /\ box' = box /\ stack' = stack /\ counter' = counter
        /\ constraints' = constraints
        /\ objectives' = Append(objectives, case.content[pos].f)
    BY <1>3, <1>h DEF DrMinimize, InSection, Command, context, IsDeclared
  <2>2. DrHolds(case.content, pos + 1, box, stack, counter, constraints,
                Append(objectives, case.content[pos].f))
    BY <1>i, <1>h, <2>1, DrMinimizeHolds
  <2> QED
    BY <1>s, <2>1, <2>2
<1>4. CASE DrError
  <2>1. case' = case /\ output' = output /\ phase' = "end"
    BY <1>4 DEF DrError, Exit
  <2> QED
    BY <2>1, AnswersStay
<1>5. CASE DrSolve
  <2>1. /\ case' = case /\ phase' = "end" /\ counter + Len(objectives) <= Len(ZNames)
        /\ CheckSat(Solved(box, stack).box, Solved(box, stack).stack)
    BY <1>5 DEF DrSolve, Exit
  <2>2. IsFiniteSet(DOMAIN box)
    BY DEF ModelsInv, DeclaredInv
  <2>3. PICK b, s : b = Solved(box, stack).box /\ s = Solved(box, stack).stack
    OBVIOUS
  <2>4. HoldsPoints(b, s, Scope(case.content, pos), Meant(case.content, pos, TRUE))
    <3>1. CASE objectives = << >>
      <4>1. b = box /\ s = stack \o constraints
        BY <2>3, <3>1 DEF Solved
      <4>2. DrHolds(case.content, pos, box, stack, counter, constraints, << >>)
        BY <1>h, <3>1
      <4>3. counter <= Len(ZNames)
        <5>1. counter \in Nat /\ Len(objectives) = 0
          BY <3>1 DEF ModelsInv, DeclaredInv
        <5> QED
          BY <2>1, <5>1
      <4>4. HoldsPoints(box, stack \o constraints, Scope(case.content, pos),
                        Meant(case.content, pos, TRUE))
        BY <1>i, <2>2, <4>2, <4>3, DrPointsOnly
      <4> QED
        BY <4>1, <4>4
    <3>2. CASE objectives # << >>
      <4>1. PICK m : m = Minimized(box, stack \o constraints, counter, objectives)
        OBVIOUS
      <4>2. b = m.box /\ s = m.stack
        BY <2>3, <3>2, <4>1 DEF Solved
      <4>3. HoldsPoints(m.box, m.stack, Scope(case.content, pos), Meant(case.content, pos, TRUE))
        BY <1>i, <1>h, <2>1, <2>2, <3>2, <4>1, DrPoints
      <4> QED
        BY <4>2, <4>3
    <3> QED
      BY <3>1, <3>2
  <2>5. HoldsPoints(b, s, Scope(case.content, pos), Meant(case.content, pos, ReadsDr))
    BY <1>h, <2>4, MeantApart
  <2>6. CheckSat(b, s)
    BY <2>1, <2>3
  <2>7. \A i \in DOMAIN output' : IsRightAnswer(case.content, ReadsDr, output'[i])
    BY <2>1, <2>5, <2>6, AnswerPrinted
  <2> QED
    BY <2>1, <2>7, AnswersGrow
<1> QED
  BY <1>1, <1>2, <1>3, <1>4, <1>5 DEF Dr

LEMMA AnswersNext == ModelsInv /\ AnswersInv /\ [Next]_vars => AnswersInv'
<1> SUFFICES ASSUME ModelsInv, AnswersInv, [Next]_vars
             PROVE  AnswersInv'
  OBVIOUS
<1>1. CASE Main
  BY <1>1, AnswersMain
<1>2. CASE Smt2 /\ ~MinimizeThrows
  BY <1>2, AnswersSmt2
<1>3. CASE MinimizeThrows
  <2>1. case' = case /\ output' = output /\ phase' = "end"
    BY <1>3 DEF MinimizeThrows, Throw, Exit
  <2> QED
    BY <2>1, AnswersStay
<1>4. CASE Dr
  BY <1>4, AnswersDr
<1>5. CASE UNCHANGED vars
  <2>1. /\ case' = case /\ phase' = phase /\ pos' = pos /\ box' = box /\ stack' = stack
        /\ counter' = counter /\ constraints' = constraints /\ objectives' = objectives
        /\ output' = output
    BY <1>5 DEF vars, context, driver
  <2>2. ReadsDr' <=> ReadsDr
    BY <2>1 DEF ReadsDr, IsSmt2, Format, Filename, IsSet
  <2>3. \A i \in DOMAIN output : IsRightAnswer(case.content, ReadsDr', output[i])
    BY <2>2 DEF AnswersInv, IsRightAnswer, Meant
  <2> QED
    BY <2>1, <2>2, <2>3 DEF AnswersInv
<1> QED
  BY <1>1, <1>2, <1>3, <1>4, <1>5 DEF Next, Smt2

\* context_impl.cc (CheckSat, Minimize, MinimizeCore, Tighten), driver.cc and
\* dr/driver.cc: for every input, every set of values and any number of
\* objectives, "unsat" is printed only where no point satisfies the declarations
\* and assertions before the check and is beaten by no feasible point, and the
\* model printed with "delta-sat" contains such a point.
THEOREM AnswersOfEveryInput == Spec => []AnswersAreAboutTheInput
<1>1. AnswersInv => AnswersAreAboutTheInput
  BY DEF AnswersInv, AnswersAreAboutTheInput, IsRightAnswer, MeantBefore
<1> QED
  BY <1>1, SourcesInit, SourcesNext, ModelsInit, ModelsNext, AnswersInit, AnswersNext, PTL DEF Spec
=============================================================================
