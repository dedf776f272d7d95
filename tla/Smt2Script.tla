------------------------------ MODULE Smt2Script ------------------------------
(***************************************************************************)
(* The SMT-LIB 2 front end (smt2/parser.yy, smt2/driver.cc): the parser    *)
(* reduces the script from left to right and every reduction calls the     *)
(* driver, which resolves names through scoped maps, makes Variables and   *)
(* adds assertions to the Context in the middle of a term.                 *)
(*                                                                         *)
(* Terms are Boolean and a formula is the set of valuations that satisfy   *)
(* it; a valuation is the set of Variables that are true.  A Variable is   *)
(* its index in variables.  The connectives do not touch the driver: false *)
(* and not stand for all of them, and the term that is complete is one     *)
(* value.                                                                  *)
(*                                                                         *)
(* Beside every formula the code builds, the model keeps what the script   *)
(* means by SMT-LIB: a name means what the innermost enclosing binder      *)
(* gives it, a let-bound name its term, a call the body with its argument. *)
(***************************************************************************)
EXTENDS Naturals, Sequences, SequencesExt, ScopedMap

CONSTANTS
  Name,       \* names of variables, parameters and let bindings
  Func,       \* names of functions with a parameter
  MaxVars,    \* bound: Variables made by the script
  MaxScopes   \* bound: nested binders

ASSUME BoundsAssumption == MaxVars \in Nat /\ MaxScopes \in Nat

Id == 1 .. MaxVars
Valuation == SUBSET Id
Formula == SUBSET Valuation

Atom(i) == {a \in Valuation : i \in a}
Iff(f, g) == {a \in Valuation : a \in f <=> a \in g}
DependsOn(f, i) == \E a \in f : (a \cup {i} \in f) # (a \ {i} \in f)

\* Formula::Substitute of a Boolean Variable.
Substituted(f, i, g) ==
  {a \in Valuation : (IF a \in g THEN a \cup {i} ELSE a \ {i}) \in f}

VARIABLES
  running,      \* FALSE once a rule has thrown or aborted the parse
  variables,    \* the Variables: their kind, and what they mean
  scope,        \* scope_: from names to Variables
  functions,    \* function_definition_map_
  modelNames,   \* model_variable_names_
  constructs,   \* the binders and definitions the parser is inside of
  values,       \* semantic value of the term that is complete, if there is one
  assertions,   \* the conjunction of what Context::Assert was given
  env,          \* meaning of the names in scope
  intended      \* the conjunction of what the script asserts

scriptVars == <<running, variables, scope, functions, modelNames, constructs,
                values, assertions, env, intended>>

ScriptInit ==
  /\ running = TRUE
  /\ variables = << >> /\ scope = NoEntries /\ functions = NoEntries
  /\ modelNames = {} /\ constructs = << >> /\ values = << >>
  /\ assertions = Valuation
  /\ env = << >> /\ intended = Valuation

----------------------------------------------------------------------------
\* The parser

Idle == running /\ constructs = << >> /\ values = << >>
Inside(kind) == running /\ constructs # << >> /\ Last(constructs).kind = kind

Ready == values # << >>
InTerm == running /\ ~Ready
Room(n) == Len(variables) + n <= MaxVars
Fresh == Len(variables) + 1
NewVar(kind) == [kind |-> kind, means |-> Atom(Fresh)]

\* The meanings of the names of ns are those of fs, from now on.
BoundEach(e, ns, fs) ==
  [x \in DOMAIN e \cup {ns[i] : i \in DOMAIN ns} |->
     IF \E i \in DOMAIN ns : ns[i] = x
     THEN fs[CHOOSE i \in DOMAIN ns : ns[i] = x] ELSE e[x]]
Bound(e, n, f) == BoundEach(e, <<n>>, <<f>>)

\* enter_scope: PushScope of both maps; rec says which rule is open.
Enter(rec) ==
  /\ Len(constructs) < MaxScopes
  /\ constructs' = Append(constructs, rec)
  /\ functions' = Pushed(functions)

\* An exception or YYABORT: the parser and its stack are gone, the rest of
\* the script is not read.
Abort ==
  /\ running' = FALSE
  /\ constructs' = << >> /\ values' = << >>
  /\ UNCHANGED <<variables, scope, functions, modelNames, assertions, env, intended>>

----------------------------------------------------------------------------
\* Terms

False ==
  /\ InTerm
  /\ values' = << [code |-> {}, means |-> {}] >>
  /\ UNCHANGED <<running, variables, scope, functions, modelNames, constructs,
                 assertions, env, intended>>

Symbol(n) ==
  /\ InTerm
  /\ IF n \in DOMAIN scope.map
     THEN /\ values' = << [code |-> Atom(scope.map[n]), means |-> env[n]] >>
          /\ UNCHANGED <<running, variables, scope, functions, modelNames, constructs,
                         assertions, env, intended>>
     ELSE Abort

Not ==
  /\ running /\ Ready
  /\ LET t == Last(values)
     IN values' = << [code |-> Valuation \ t.code, means |-> Valuation \ t.means] >>
  /\ UNCHANGED <<running, variables, scope, functions, modelNames, constructs,
                 assertions, env, intended>>

\* LookupFunction, and FunctionDefinition::operator(): the body with the
\* parameter replaced by the argument.
Call(f) ==
  /\ running /\ Ready
  /\ IF f \in DOMAIN functions.map
     THEN /\ LET def == functions.map[f]
                 arg == Last(values)
             IN values' = << [code  |-> Substituted(def.code, def.parameter, arg.code),
                         means |-> Substituted(def.means, def.parameter, arg.means)] >>
          /\ UNCHANGED <<running, variables, scope, functions, modelNames, constructs,
                         assertions, env, intended>>
     ELSE Abort

----------------------------------------------------------------------------
\* let: the terms of the bindings are reduced in the new scope, before any
\* name is declared.

EnterLet ==
  /\ InTerm
  /\ Enter([kind |-> "bindings", bindings |-> << >>, env |-> env])
  /\ scope' = Pushed(scope)
  /\ UNCHANGED <<running, variables, modelNames, values, assertions, env, intended>>

\* var_binding, and push_back onto the list of the bindings to its right.
Binding(n) ==
  /\ Inside("bindings") /\ Ready /\ Room(Len(Last(constructs).bindings) + 1)
  /\ \A b \in Range(Last(constructs).bindings) : b.name # n
  /\ constructs' = [constructs EXCEPT ![Len(constructs)] =
                      [kind |-> "bindings", env |-> @.env,
                       bindings |-> << [name |-> n, term |-> Last(values)] >> \o @.bindings]]
  /\ values' = << >>
  /\ UNCHANGED <<running, variables, scope, functions, modelNames, assertions, env, intended>>

\* let_binding_list: a Variable of its own for each name, made equal to the
\* term by an assertion.
DeclareBindings ==
  /\ Inside("bindings") /\ ~Ready
  /\ LET bs       == Last(constructs).bindings
         Local(i) == Len(variables) + i
         names    == [i \in DOMAIN bs |-> bs[i].name]
         meanings == [i \in DOMAIN bs |-> bs[i].term.means]
     IN /\ Len(bs) > 0 /\ Room(Len(bs))
        /\ variables' = variables \o
                          [i \in DOMAIN bs |-> [kind |-> "local", means |-> meanings[i]]]
        /\ scope' = InsertedEach(scope, names, [i \in DOMAIN bs |-> Local(i)])
        /\ env' = BoundEach(env, names, meanings)
        /\ assertions' = {a \in assertions : \A i \in DOMAIN bs :
                            a \in Iff(Atom(Local(i)), bs[i].term.code)}
  /\ constructs' = [constructs EXCEPT ![Len(constructs)] = [kind |-> "let", env |-> @.env]]
  /\ UNCHANGED <<running, functions, modelNames, values, intended>>

\* exit_scope: the names of the scope are gone, the value stays.
Leave ==
  /\ scope' = Popped(scope)
  /\ env' = Last(constructs).env
  /\ constructs' = Front(constructs)

ExitLet ==
  /\ Inside("let") /\ Ready
  /\ Leave
  /\ functions' = Popped(functions)
  /\ UNCHANGED <<running, variables, modelNames, values, assertions, intended>>

----------------------------------------------------------------------------
\* forall over one Boolean variable

\* RegisterQuantifiedVariable: in the scope, but not in the context.
EnterForall(n) ==
  /\ InTerm /\ Len(constructs) < MaxScopes
  /\ IF n \in modelNames
     THEN Abort
     ELSE /\ Room(1)
          /\ Enter([kind |-> "forall", id |-> Fresh, env |-> env])
          /\ scope' = Inserted(Pushed(scope), n, Fresh)
          /\ variables' = Append(variables, NewVar("quantified"))
          /\ env' = Bound(env, n, Atom(Fresh))
          /\ UNCHANGED <<running, modelNames, values, assertions, intended>>

\* A slip: only the instance for true is kept.
EliminateTrueOnly(f, b) == Substituted(f, b, Valuation)

\* EliminateBooleanVariables: f[b -> true] and f[b -> false].
EliminateBooleanVariable(f, b) ==
  Substituted(f, b, Valuation) \cap Substituted(f, b, {})

ExitForall ==
  /\ Inside("forall") /\ Ready
  /\ LET b == Last(constructs).id
         v == Last(values)
     IN values' = << [code  |-> EliminateBooleanVariable(v.code, b),
                 means |-> {a \in Valuation : a \cup {b} \in v.means /\ a \ {b} \in v.means}] >>
  /\ Leave
  /\ functions' = Popped(functions)
  /\ UNCHANGED <<running, variables, modelNames, assertions, intended>>

----------------------------------------------------------------------------
\* Commands.  A script declares a name, or defines a function, once.

\* declare-fun, declare-const.
DeclareVariable(n) ==
  /\ Idle /\ Room(1) /\ n \notin modelNames
  /\ variables' = Append(variables, NewVar("model"))
  /\ scope' = Inserted(scope, n, Fresh)
  /\ modelNames' = modelNames \cup {n}
  /\ env' = Bound(env, n, Atom(Fresh))
  /\ UNCHANGED <<running, functions, constructs, values, assertions, intended>>

\* define-fun f ((n Bool)) Bool: the parameter is a local variable, which is
\* declared in the context too.
EnterDefine(f, n) ==
  /\ Idle /\ Room(1) /\ f \notin DOMAIN functions.map
  /\ Enter([kind |-> "define", func |-> f, parameter |-> Fresh, env |-> env])
  /\ scope' = Inserted(Pushed(scope), n, Fresh)
  /\ variables' = Append(variables, NewVar("parameter"))
  /\ env' = Bound(env, n, Atom(Fresh))
  /\ UNCHANGED <<running, modelNames, values, assertions, intended>>

DefineFun ==
  /\ Inside("define") /\ Ready
  /\ LET c == Last(constructs)
         v == Last(values)
     IN functions' = Inserted(Popped(functions), c.func,
                       [parameter |-> c.parameter, code |-> v.code, means |-> v.means])
  /\ Leave
  /\ values' = << >>
  /\ UNCHANGED <<running, variables, modelNames, assertions, intended>>

\* define-fun n () Bool: a variable and an assertion that gives its value.
EnterConstant(n) ==
  /\ Idle /\ n \notin modelNames
  /\ Enter([kind |-> "constant", name |-> n, env |-> env])
  /\ scope' = Pushed(scope)
  /\ UNCHANGED <<running, variables, modelNames, values, assertions, env, intended>>

DefineConstant ==
  /\ Inside("constant") /\ Ready /\ Room(1)
  /\ LET c == Last(constructs)
         v == Last(values)
     IN /\ scope' = Inserted(Popped(scope), c.name, Fresh)
        /\ env' = Bound(c.env, c.name, Atom(Fresh))
        /\ modelNames' = modelNames \cup {c.name}
        /\ assertions' = assertions \cap Iff(Atom(Fresh), v.code)
        /\ intended' = intended \cap Iff(Atom(Fresh), v.means)
  /\ variables' = Append(variables, NewVar("model"))
  /\ functions' = Popped(functions)
  /\ constructs' = Front(constructs)
  /\ values' = << >>
  /\ UNCHANGED running

CommandAssert ==
  /\ running /\ constructs = << >> /\ Ready
  /\ assertions' = assertions \cap Last(values).code
  /\ intended' = intended \cap Last(values).means
  /\ values' = << >>
  /\ UNCHANGED <<running, variables, scope, functions, modelNames, constructs, env>>

\* push and pop: Context::Push and Context::Pop throw.
PushOrPop == Idle /\ Abort

ScriptNext ==
  \/ False \/ Not \/ EnterLet \/ DeclareBindings \/ ExitLet \/ ExitForall
  \/ DefineFun \/ DefineConstant \/ CommandAssert \/ PushOrPop
  \/ \E n \in Name :
       \/ Symbol(n) \/ Binding(n) \/ EnterForall(n)
       \/ DeclareVariable(n) \/ EnterConstant(n)
       \/ \E f \in Func : EnterDefine(f, n)
  \/ \E f \in Func : Call(f)

ScriptSpec == ScriptInit /\ [][ScriptNext]_scriptVars

----------------------------------------------------------------------------
\* Properties

\* A name resolves to the Variable of its innermost enclosing binder, at
\* every point of the script: what a scope shadowed is back when it ends
\* (PopScope), and the terms of a let do not see each other's names.
NamesAreLexical ==
  /\ DOMAIN scope.map = DOMAIN env
  /\ \A n \in DOMAIN env : variables[scope.map[n]].means = env[n]

\* Some let-bound term depends on a parameter or on a quantified variable.
DefinitionIsOpen ==
  \E d, i \in DOMAIN variables :
    /\ variables[d].kind = "local" /\ variables[i].kind \in {"parameter", "quantified"}
    /\ DependsOn(variables[d].means, i)

ModelIds == {i \in DOMAIN variables : variables[i].kind = "model"}
Models(f) == {a \cap ModelIds : a \in f}

\* The solver is given the script's meaning: what the assertions, the
\* definitions of let and the inlined calls and quantifiers allow the model
\* variables is what the script allows them.
AssertionsMeanTheScript == DefinitionIsOpen \/ Models(assertions) = Models(intended)
===============================================================================
