---------------------------- MODULE MCForallCegis ----------------------------
(***************************************************************************)
(* Instances of ForallCegis for TLC: x from 1 to 5, two values of y.       *)
(***************************************************************************)
EXTENDS ForallCegis

MCX == 1 .. 5
MCY == {1, 2}
MCViolated == {<<1, 1>>, <<4, 1>>, <<5, 2>>}
\* The evaluator has no counterexample for a violation of less than delta.
MCMild == {<<1, 2>>, <<4, 2>>}
MCPhi == MCX \X MCY \ (MCViolated \cup MCMild)
\* Satisfies the body, by a bound on x that the query has lost.
MCOutOfBound == {<<5, 1>>}
MCQuery ==
  [s \in Solver |->
     (IF s = "contractor" THEN MCViolated \cup MCMild ELSE MCViolated)
       \cup MCOutOfBound]
=============================================================================
