------------------------------ MODULE ScopedMap ------------------------------
(***************************************************************************)
(* ScopedUnorderedMap (util/scoped_unordered_map.h): a map whose changes   *)
(* are logged, so that the end of a scope takes back what was done in it.  *)
(* A scoped map is a record                                                *)
(*   map     the entries, a function on the keys that have one,            *)
(*   actions the log: the key, and what it held before the change,         *)
(*   stack   the length of the log at the start of each open scope.        *)
(***************************************************************************)
EXTENDS Naturals, Sequences, SequencesExt

NoEntries == [map |-> << >>, actions |-> << >>, stack |-> << >>]

\* What insert logs: INSERT if the key is new, UPDATE with the old value
\* otherwise.
Logged(m, k, v) ==
  IF k \in DOMAIN m.map THEN [kind |-> "UPDATE", key |-> k, value |-> m.map[k]]
                        ELSE [kind |-> "INSERT", key |-> k, value |-> v]

\* insert of the different keys of ks, one after the other.
InsertedEach(m, ks, vs) ==
  [map     |-> [x \in DOMAIN m.map \cup {ks[i] : i \in DOMAIN ks} |->
                  IF \E i \in DOMAIN ks : ks[i] = x
                  THEN vs[CHOOSE i \in DOMAIN ks : ks[i] = x] ELSE m.map[x]],
   actions |-> m.actions \o [i \in DOMAIN ks |-> Logged(m, ks[i], vs[i])],
   stack   |-> m.stack]

Inserted(m, k, v) == InsertedEach(m, <<k>>, <<v>>)

\* push: a scope starts.
Pushed(m) == [map     |-> m.map,
              actions |-> m.actions,
              stack   |-> Append(m.stack, Len(m.actions))]

\* A slip: the keys of the scope are erased, those it updated too.
PoppedByErasing(m) ==
  LET kept == Last(m.stack)
  IN [map     |-> [k \in DOMAIN m.map \ {m.actions[i].key : i \in kept + 1 .. Len(m.actions)} |-> m.map[k]],
      actions |-> SubSeq(m.actions, 1, kept),
      stack   |-> Front(m.stack)]

\* The actions on key k after the first n, and the oldest of them.
Changes(m, n, k) == {i \in n + 1 .. Len(m.actions) : m.actions[i].key = k}
Oldest(m, n, k) == m.actions[CHOOSE i \in Changes(m, n, k) :
                               \A j \in Changes(m, n, k) : i <= j]

\* The entries once the actions after the first n are undone, from the newest to
\* the oldest: what a key is left with is decided by the oldest of its own.
Undone(m, n) ==
  LET changed == {m.actions[i].key : i \in n + 1 .. Len(m.actions)}
      erased  == {k \in changed : Oldest(m, n, k).kind = "INSERT"}
  IN [k \in (DOMAIN m.map \cup changed) \ erased |->
        IF k \in changed THEN Oldest(m, n, k).value ELSE m.map[k]]

\* pop: the actions of the last scope are undone.
Popped(m) ==
  [map     |-> Undone(m, Last(m.stack)),
   actions |-> SubSeq(m.actions, 1, Last(m.stack)),
   stack   |-> Front(m.stack)]
===============================================================================
