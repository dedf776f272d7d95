------------------------------ MODULE MCIcpSeq ------------------------------
(***************************************************************************)
(* Instances of IcpSeq for TLC: boxes of a line of a few points, cut in    *)
(* the middle as Box::bisect does, left half first.                        *)
(***************************************************************************)
EXTENDS IcpSeq, FiniteSets

MCPoint == 1 .. 3
MCConstraint == {"f", "g"}

\* One assertion rules out the left end, the other one the right end.
MCViolates == <<{"f"}, {"f", "g"}, {"g"}>>

\* Three or more points share the cut, two points are parted.
MCCut(b) ==
  LET hull == CHOOSE i \in b \X b : \A p \in b : i[1] <= p /\ p <= i[2]
      mid == (hull[1] + hull[2]) \div 2
  IN  <<{p \in b : p <= mid},
        {p \in b : p >= mid /\ (hull[2] - hull[1] > 1 \/ p > mid)}>>

MCHalves ==
  [b \in SUBSET Point |->
     IF Cardinality(b) < 2 THEN {}
     ELSE {h \in {MCCut(b)} : h[1] \notin {b, {}} /\ h[2] \notin {b, {}}}]

MCDeltaBox == {{3}}
=============================================================================
