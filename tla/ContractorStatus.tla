-------------------------- MODULE ContractorStatus --------------------------
(***************************************************************************)
(* The ContractorStatus: the box a contractor works on and the record from *)
(* which the explanation of UNSAT is made.  A box is a product: it gives   *)
(* every variable a set of values (an interval in the code), and is empty  *)
(* when one of them is.                                                    *)
(***************************************************************************)
EXTENDS Integers

CONSTANTS
  Var,          \* the variables of the box
  Value,        \* their values
  Constraint,   \* the assertions of the theory problem
  VarsOf        \* VarsOf[c]: GetFreeVariables() of the assertion c

ASSUME VarAssumption == Var # {}
ASSUME VarsOfAssumption == VarsOf \in [Constraint -> SUBSET Var]

Box == [Var -> SUBSET Value]
EmptyBox == [v \in Var |-> {}]
IsEmpty(b) == \E v \in Var : b[v] = {}
\* A narrowing that leaves a variable without a value empties the box.
Normal(b) == IF IsEmpty(b) THEN EmptyBox ELSE b

Point == [Var -> Value]
InBox(p, b) == \A v \in Var : p[v] \in b[v]

Status ==
  [box : Box, used : SUBSET Constraint, witness : SUBSET Var,
   inconclusive : SUBSET Constraint]

NewStatus(b) == [box |-> b, used |-> {}, witness |-> {}, inconclusive |-> {}]

Touches(c, vs) == VarsOf[c] \cap vs # {}

\* Only an assertion recorded on the empty box is a witness of UNSAT.
AddUsedConstraint(cs, c) ==
  [cs EXCEPT !.used = @ \cup {c},
             !.witness = IF IsEmpty(cs.box) THEN @ \cup VarsOf[c] ELSE @]

AddUsedConstraints(cs, C) ==
  [cs EXCEPT !.used = @ \cup C,
             !.witness = IF IsEmpty(cs.box) THEN @ \cup UNION {VarsOf[c] : c \in C} ELSE @]

AddUnsatWitness(cs, v) == [cs EXCEPT !.witness = @ \cup {v}]

AddInconclusiveOde(cs, c) == [cs EXCEPT !.inconclusive = @ \cup {c}]

-----------------------------------------------------------------------------
\* The assertions the explanation starts from: those that touch the witness,
\* and those without variables, which nothing else would bring in.
Seeds(cs) == {c \in cs.used : Touches(c, cs.witness) \/ VarsOf[c] = {}}

\* E is left alone by the loop of GenerateExplanation.
ClosedIn(E, cs) ==
  \A c \in cs.used : c \in E \/ \A e \in E : ~Touches(c, VarsOf[e])

\* GenerateExplanation without the ODEs: its loop adds used assertions that
\* share a variable with the explanation until there is none left, so it ends
\* with the least set that has the seeds and that the loop leaves alone.
Relational(cs) ==
  {c \in cs.used :
     \A E \in SUBSET cs.used : Seeds(cs) \subseteq E /\ ClosedIn(E, cs) => c \in E}

\* The ODEs nothing conclusive was found about join if they touch the witness.
Explanation(cs) ==
  Relational(cs) \cup {c \in cs.inconclusive : Touches(c, cs.witness)}
=============================================================================
