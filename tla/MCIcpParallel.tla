--------------------------- MODULE MCIcpParallel ---------------------------
(***************************************************************************)
(* Instances of IcpParallel for TLC: boxes of a line of a few points, cut  *)
(* in the middle as Box::bisect does, so that the two halves of three or   *)
(* more points share the cut.                                              *)
(***************************************************************************)
EXTENDS IcpParallel

MCPoint == 1 .. 3
MCConstraint == {"f", "g"}

\* One assertion rules out the left end, the other one the right end.
MCViolates == <<{"f"}, {"f", "g"}, {"g"}>>

Hull(b) == CHOOSE i \in b \X b : \A p \in b : i[1] <= p /\ p <= i[2]
Cut(b) ==
  LET lo == Hull(b)[1]
      hi == Hull(b)[2]
      mid == (lo + hi) \div 2
      left == {p \in b : p <= mid}
      right == {p \in b : p >= mid /\ (hi - lo > 1 \/ p > mid)}
  IN  {<<left, right>>, <<right, left>>}

MCHalves ==
  [b \in SUBSET Point |->
     IF Cardinality(b) < 2 THEN {}
     ELSE {h \in Cut(b) : h[1] \notin {b, {}} /\ h[2] \notin {b, {}}}]

\* The last point passes the delta test by itself; any other box of one point
\* does not, and cannot be split either.
MCDeltaBox == {{3}}
=============================================================================
