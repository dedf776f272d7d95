----------------------------- MODULE MCSmt2Script -----------------------------
(***************************************************************************)
(* Scripts over one or two names and one function.                         *)
(***************************************************************************)
EXTENDS Smt2Script, TLC

Symmetry == Permutations(Name)
===============================================================================
