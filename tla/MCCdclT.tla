------------------------------- MODULE MCCdclT -------------------------------
(***************************************************************************)
(* Instances of CdclT for TLC: atoms, a variable of the user and a Tseitin *)
(* variable. Bounds on the box make more conjunctions of atoms infeasible, *)
(* until the box is empty.                                                 *)
(***************************************************************************)
EXTENDS CdclT

\* Atoms 1 and 2, the user's variable 3, the Tseitin variable 4.
MCFormulas ==
  {{{1, 2, 3}},
   {{-3, 1}, {3, 2}},
   {{-1}},
   {{4, 1}, {-4, 3, 2}}}

MCConflicts ==
  [r \in 0 .. 2 |->
     {{1, 2}}
     \cup (IF r > 0 THEN {{1}, {-1, 2}} ELSE {})
     \cup (IF r > 1 THEN {{}} ELSE {})]

\* In the region 1 the atom 2 has no solution, but one up to delta.
MCRefutable == [r \in 0 .. 2 |-> MCConflicts[r] \ {{-1, 2}}]

\* In the whole box the atoms 1 and 2 are alike.
Swap(l) == CASE l = 1 -> 2 [] l = 2 -> 1 [] l = -1 -> -2 [] l = -2 -> -1
MCSimilar(E, r) == IF r = 0 THEN {E, {Swap(l) : l \in E}} ELSE {E}

=============================================================================
