------------------------------ MODULE Session ------------------------------
(***************************************************************************)
(* One run of the program: main reads the command line, chooses the front  *)
(* end, and the front end drives one Context through the input, command by *)
(* command (SMT-LIB 2) or section by section (dr); or a program that embeds *)
(* the solver makes the Context itself.                                    *)
(*                                                                         *)
(* A formula is its free variables, the set of the points over them that   *)
(* satisfy it, and whether it is a forall; an objective its variables and  *)
(* its value at each point; the domain of a variable is the set of its     *)
(* values.  What CheckSat finds is any point of what the context holds:    *)
(* the search is the subject of the other modules.                         *)
(***************************************************************************)
EXTENDS Options, FiniteSets

CONSTANTS Cases,    \* [entry, options, files, content]: a run and its input
          Extension, Exists,   \* functions of the file names
          NoName,   \* the empty string
          Values,   \* the values of a variable
          BooleanVars,         \* the variables of sort Bool
          ZNames    \* the names Z0, Z1, ... of the variables Minimize makes

Points(vs) == [vs -> Values]
ZVariables == {ZNames[i] : i \in DOMAIN ZNames}

\* A Variable is new where it is declared, or made by Minimize, whatever its
\* name (symbolic_variable.cc: its id): no formula of an input has a variable
\* of Minimize.  The bounds of a declaration are in order.
IsInput(content) ==
    /\ Len(content) \in Nat
    /\ \A i \in 1..Len(content) :
        /\ content[i].c = "declare" =>
             /\ content[i].domain \in (SUBSET Values) \ {{}} /\ IsFiniteSet(content[i].domain)
             /\ content[i].v \notin ZVariables
             /\ \A j \in 1..(i - 1) :
                    content[j].c = "declare" => content[j].v # content[i].v
        /\ content[i].c \in {"assert", "minimize"} =>
             content[i].f.vars \cap ZVariables = {}
        /\ content[i].c = "minimize" =>
             content[i].f.value \in [Points(content[i].f.vars) -> Values]

ASSUME InputAssumption ==
    /\ Values \subseteq Int
    /\ Len(ZNames) \in Nat /\ DOMAIN ZNames = 1..Len(ZNames)
    /\ \A i, j \in DOMAIN ZNames : ZNames[i] = ZNames[j] => i = j
    /\ \A run \in Cases : IsInput(run.content)

VARIABLES case,     \* what this run is given
          phase,    \* "main", "options", "open", "smt2", "dr", "end"
          status,   \* the exit status; "thrown" for an exception nobody catches
          config,
          pos,      \* the next command of the input
          box, stack, option, model, models, counter,    \* the Context
          constraints, objectives,                       \* the DrDriver
          output    \* what was printed

context == <<box, stack, option, model, models, counter>>
driver == <<constraints, objectives>>
vars == <<case, phase, status, config, pos, context, driver, output>>

None == [v \in {} |-> 0]
\* The empty box, before the first check and after "unsat".
NoModel == None

IsSet(flag) == flag \in DOMAIN case.options

Exit(s) == phase' = "end" /\ status' = s
Throw == Exit("thrown")

----------------------------------------------------------------------------
(* main and MainProgram                                                    *)

Init ==
    /\ case \in Cases
    /\ phase = "main"
    /\ status = "running"
    /\ config = NewConfig
    /\ pos = 1
    /\ box = None /\ stack = << >> /\ option = None
    /\ model = NoModel /\ models = {} /\ counter = 0
    /\ constraints = << >> /\ objectives = << >>
    /\ output = << >>

\* The whole command line is valid.
IsValid ==
    /\ \A flag \in DOMAIN case.options : GotExpected(flag, case.options[flag])
    /\ \A flag \in DOMAIN case.options : GotValid(flag, case.options[flag])
    /\ \/ IsSet("--version")
       \/ /\ ~IsSet("--help")
          /\ case.files # << >> \/ IsSet("--in")
          /\ Len(case.files) <= 1

\* The constructor of MainProgram and the first tests of Run.
ValidateOptions ==
    /\ phase = "main" /\ case.entry = "main"
    /\ CASE IsSet("--version") \/ IsSet("--help") -> Exit(0)
         [] OTHER -> IF IsValid THEN phase' = "options" /\ UNCHANGED status
                                ELSE Exit(1)
    /\ UNCHANGED <<case, config, pos, context, driver, output>>

Extract ==
    /\ phase = "options"
    /\ config' = ExtractOptions(case.options, config)
    /\ IF SeedConflict(case.options, config') \/ ShavingConflict(config')
       THEN Throw
       ELSE phase' = "open" /\ UNCHANGED status
    /\ UNCHANGED <<case, pos, context, driver, output>>

Filename == IF case.files = << >> THEN NoName ELSE case.files[1]
Format == IF IsSet("--format") THEN case.options["--format"][1] ELSE "auto"

IsSmt2 == \/ Format = "smt2"
          \/ Format = "auto" /\ (Extension[Filename] = "smt2" \/ IsSet("--in"))
IsDr == \/ Format = "dr"
        \/ Format = "auto" /\ Extension[Filename] = "dr"

\* RunSmt2 and RunDr ignore what parse_file returns: a file that cannot be
\* read, which only --in lets through to them, ends the run without an answer.
OpenInput ==
    /\ phase = "open"
    /\ IF \/ case.files # << >> /\ Filename = NoName
          \/ ~IsSet("--in") /\ ~Exists[Filename]
          \/ ~IsSmt2 /\ ~IsDr
       THEN Exit(1)
       ELSE IF Filename # NoName /\ ~Exists[Filename]
       THEN Exit(0)
       ELSE phase' = (IF IsSmt2 THEN "smt2" ELSE "dr") /\ UNCHANGED status
    /\ UNCHANGED <<case, config, pos, context, driver, output>>

\* A program that embeds the solver assigns the precision in a Config of its
\* own; then it calls the Context the way the SMT-LIB 2 driver does.
Embed ==
    /\ phase = "main" /\ case.entry = "code"
    /\ config' = [config EXCEPT !["precision"] = SetFromCode(3)]
    /\ phase' = "smt2"
    /\ UNCHANGED <<case, status, pos, context, driver, output>>

----------------------------------------------------------------------------
(* Context                                                                 *)

Projected(p, vs) == [v \in vs |-> p[v]]
Satisfies(p, f) == Projected(p, f.vars) \in f.sat

\* AddToBox, unless the box has the variable, and SetDomain.
WithDomain(b, v, d) == [u \in DOMAIN b \cup {v} |-> IF u = v THEN d ELSE b[u]]

\* The points a context holds.
Held(b, s) == {p \in Points(DOMAIN b) :
                 /\ \A v \in DOMAIN b : p[v] \in b[v]
                 /\ \A i \in DOMAIN s : Satisfies(p, s[i])}

\* The formulas of s that share a variable with xs, and what the loop of
\* Minimize makes of xs: the least set with the variables of all of these.
Related(s, xs) == {s[i] : i \in {j \in DOMAIN s : s[j].vars \cap xs # {}}}
IsClosed(s, xs) == \A f \in Related(s, xs) : f.vars \subseteq xs

Connected(s, xs) ==
    LET all == xs \cup UNION {s[i].vars : i \in DOMAIN s}
        closed == {c \in SUBSET all : xs \subseteq c /\ IsClosed(s, c)}
    IN  {v \in all : \A c \in closed : v \in c}

\* A slip: the constraints of the objective's own variables only.
SideConstraintsOnce(s, xs) == [vars |-> xs \cup UNION {f.vars : f \in Related(s, xs)},
                               formulas |-> Related(s, xs)]

SideConstraints(s, xs) == [vars |-> Connected(s, xs),
                           formulas |-> Related(s, Connected(s, xs))]

\* The formula over z1, ..., zn: no y that satisfies the side constraints and
\* the bounds of the box has fi(y) < zi for every i.
Optimal(b, side, fs, zs) ==
    LET better == {y \in Points(side.vars) :
                     /\ \A v \in side.vars : y[v] \in b[v]
                     /\ \A f \in side.formulas : Satisfies(y, f)}
        zvars == {zs[i] : i \in DOMAIN zs}
    IN  [vars |-> zvars, forall |-> TRUE,
         sat |-> {p \in Points(zvars) :
                    \A y \in better :
                       \E i \in DOMAIN fs :
                          p[zs[i]] <= fs[i].value[Projected(y, fs[i].vars)]}]

\* z = f
Names(z, f) ==
    [vars |-> f.vars \cup {z}, forall |-> FALSE,
     sat |-> {p \in Points(f.vars \cup {z}) :
                p[z] = f.value[Projected(p, f.vars)]}]

SideOf(s, fs) == SideConstraints(s, UNION {fs[i].vars : i \in DOMAIN fs})

\* A bound on the copy of a Boolean variable is no formula, and a forall among
\* the side constraints would be nested in the new one: Minimize throws.
CannotMinimize(s, fs) ==
    \/ SideOf(s, fs).vars \cap BooleanVars # {}
    \/ \E f \in SideOf(s, fs).formulas : f.forall

Minimized(b, s, n, fs) ==
    LET zs == SubSeq(ZNames, n + 1, n + Len(fs))
        side == SideOf(s, fs)
    IN  [box |-> [v \in DOMAIN b \cup {zs[i] : i \in DOMAIN zs} |->
                    IF v \in DOMAIN b THEN b[v] ELSE Values],
         stack |-> s \o [i \in DOMAIN fs |-> Names(zs[i], fs[i])]
                     \o <<Optimal(b, side, fs, zs)>>]

\* --refine-witness narrows what is found to the middle of each dimension.
Middle(d) ==
    LET below(c) == Cardinality({a \in d : a < c})
        above(c) == Cardinality({a \in d : a > c})
    IN  CHOOSE c \in d : below(c) \in {above(c), above(c) - 1}
Tighten(m) == [v \in DOMAIN m |-> {Middle(m[v])}]

\* What CheckSatCore may return: the box itself if nothing is asserted, else
\* the box of a point that satisfies all.
Found(b, s) ==
    IF s = << >> THEN {b}
    ELSE {[v \in DOMAIN b |-> {p[v]}] : p \in Held(b, s)}

ExtractModel(m) ==
    IF Cardinality(models) = Cardinality(DOMAIN m) THEN m
    ELSE [v \in DOMAIN m \cap models |-> m[v]]

Report(kind, m) ==
    output' = Append(output, [kind |-> kind, at |-> pos, model |-> m])

ReportModel(m) ==
    LET n == ExtractModel(IF Get(config, "refine_witness") THEN Tighten(m) ELSE m)
    IN  model' = n /\ Report("delta-sat", n)

\* A slip: the model of an earlier check stays.
CheckSatKeepingModel(b, s) ==
    IF Found(b, s) = {} THEN UNCHANGED model /\ Report("unsat", NoModel)
                        ELSE \E m \in Found(b, s) : ReportModel(m)

CheckSat(b, s) ==
    IF Found(b, s) = {} THEN model' = NoModel /\ Report("unsat", NoModel)
                        ELSE \E m \in Found(b, s) : ReportModel(m)

----------------------------------------------------------------------------
(* The SMT-LIB 2 driver: one action for each command.                      *)

AtCommand(c) ==
    phase = "smt2" /\ pos <= Len(case.content) /\ case.content[pos].c = c
Command == case.content[pos]
Continue == pos' = pos + 1 /\ UNCHANGED <<case, phase, status, driver>>

Smt2Declare ==
    /\ AtCommand("declare")
    /\ box' = WithDomain(box, Command.v, Command.domain)
    /\ models' = models \cup {Command.v}
    /\ UNCHANGED <<config, stack, option, model, counter, output>> /\ Continue

\* An undeclared variable ends the parsing (YYABORT), which nobody reports.
IsDeclared(vs) == vs \subseteq DOMAIN box
Smt2Undeclared ==
    /\ \/ AtCommand("assert") /\ ~IsDeclared(Command.f.vars)
       \/ AtCommand("minimize") /\ ~IsDeclared(Command.f.vars)
    /\ Exit(0)
    /\ UNCHANGED <<case, config, pos, context, driver, output>>

Smt2Assert ==
    /\ AtCommand("assert") /\ IsDeclared(Command.f.vars)
    /\ stack' = Append(stack, Command.f)
    /\ UNCHANGED <<config, box, option, model, models, counter, output>> /\ Continue

Smt2Minimize ==
    /\ AtCommand("minimize") /\ IsDeclared(Command.f.vars)
    /\ ~CannotMinimize(stack, <<Command.f>>)
    /\ counter < Len(ZNames)
    /\ LET m == Minimized(box, stack, counter, <<Command.f>>)
       IN  box' = m.box /\ stack' = m.stack
    /\ counter' = counter + 1
    /\ UNCHANGED <<config, option, model, models, output>> /\ Continue

MinimizeThrows ==
    /\ \/ /\ AtCommand("minimize") /\ IsDeclared(Command.f.vars)
          /\ CannotMinimize(stack, <<Command.f>>)
       \/ /\ phase = "dr" /\ pos > Len(case.content) /\ objectives # << >>
          /\ CannotMinimize(stack \o constraints, objectives)
    /\ Throw
    /\ UNCHANGED <<case, config, pos, context, driver, output>>

Smt2CheckSat ==
    /\ AtCommand("check-sat")
    /\ CheckSat(box, stack)
    /\ UNCHANGED <<config, box, stack, option, models, counter>> /\ Continue

Smt2GetModel ==
    /\ AtCommand("get-model")
    /\ Report("model", model)
    /\ UNCHANGED <<config, context>> /\ Continue

\* The text of the option is remembered before it is looked at.
Smt2SetOption ==
    /\ AtCommand("set-option")
    /\ option' = [k \in DOMAIN option \cup {Command.key} |->
                    IF k = Command.key THEN Command ELSE option[k]]
    /\ IF IsRefused(Command)
       THEN Throw /\ UNCHANGED <<case, config, pos, driver>>
       ELSE config' = SetOption(Command, config) /\ Continue
    /\ UNCHANGED <<box, stack, model, models, counter, output>>

\* The logics parse_logic knows; the logic is not used afterwards.
Logics == {"ALL", "QF_LIA", "QF_LIRA", "QF_LRA", "QF_NIA", "QF_NIAT", "QF_NIRA",
           "QF_NIRAT", "QF_NRA", "QF_NRAT", "QF_RDL", "QF_NRA_ODE"}
Smt2SetLogic ==
    /\ AtCommand("set-logic")
    /\ IF Command.logic \in Logics THEN Continue
                                   ELSE Throw /\ UNCHANGED <<case, pos, driver>>
    /\ UNCHANGED <<config, context, output>>

\* The text of the option if the file has set it, although the command line may
\* have decided otherwise; the precision; or "unsupported".
GetOption(key) ==
    IF key \in DOMAIN option THEN option[key]
    ELSE IF key = ":precision" THEN [key |-> key, number |-> Get(config, "precision")]
    ELSE "unsupported"
Smt2GetOption ==
    /\ AtCommand("get-option")
    /\ Report("option", GetOption(Command.key))
    /\ UNCHANGED <<config, context>> /\ Continue

\* SatSolver::Push throws before anything is saved, and without a scope
\* ScopedVector::pop throws.
Smt2PushPop ==
    /\ AtCommand("push") \/ AtCommand("pop")
    /\ Throw
    /\ UNCHANGED <<case, config, pos, context, driver, output>>

Smt2Exit ==
    /\ \/ AtCommand("exit")
       \/ phase = "smt2" /\ pos > Len(case.content)
    /\ Exit(0)
    /\ UNCHANGED <<case, config, pos, context, driver, output>>

----------------------------------------------------------------------------
(* The dr driver: the sections var, ctr and cost, in this order.           *)

Rank == [c \in {"declare", "assert", "minimize"} |->
           CASE c = "declare" -> 1 [] c = "assert" -> 2 [] OTHER -> 3]

InSection(c) ==
    /\ phase = "dr" /\ pos <= Len(case.content) /\ Command.c = c
    /\ IF pos = 1 THEN c = "declare" ELSE Rank[case.content[pos - 1].c] <= Rank[c]

DrDeclare ==
    /\ InSection("declare")
    /\ box' = WithDomain(box, Command.v, Command.domain)
    /\ models' = models \cup {Command.v}
    /\ UNCHANGED <<config, stack, option, model, counter, output>> /\ Continue

DrAssert ==
    /\ InSection("assert") /\ IsDeclared(Command.f.vars)
    /\ constraints' = Append(constraints, Command.f)
    /\ pos' = pos + 1
    /\ UNCHANGED <<case, phase, status, config, context, objectives, output>>

DrMinimize ==
    /\ InSection("minimize") /\ IsDeclared(Command.f.vars)
    /\ objectives' = Append(objectives, Command.f)
    /\ pos' = pos + 1
    /\ UNCHANGED <<case, phase, status, config, context, constraints, output>>

\* A syntax error or an undeclared variable: the parser gives up.
DrError ==
    /\ phase = "dr"
    /\ IF pos > Len(case.content) THEN pos = 1
       ELSE /\ \A c \in DOMAIN Rank : InSection(c) => Command.c # "declare"
                                                      /\ ~IsDeclared(Command.f.vars)
    /\ Exit(0)
    /\ UNCHANGED <<case, config, pos, context, driver, output>>

\* What Solve gives the context: the constraints, then the objectives.
Solved(b, s) ==
    IF objectives = << >> THEN [box |-> b, stack |-> s \o constraints]
                          ELSE Minimized(b, s \o constraints, counter, objectives)

\* Solve, at the end of the input.
DrSolve ==
    /\ phase = "dr" /\ pos > Len(case.content) /\ pos > 1
    /\ objectives # << >> => ~CannotMinimize(stack \o constraints, objectives)
    /\ counter + Len(objectives) <= Len(ZNames)
    /\ box' = Solved(box, stack).box /\ stack' = Solved(box, stack).stack
    /\ CheckSat(box', stack')
    /\ counter' = counter + Len(objectives)
    /\ Exit(0)
    /\ UNCHANGED <<case, config, pos, option, models, driver>>

----------------------------------------------------------------------------
Main == ValidateOptions \/ Extract \/ OpenInput \/ Embed
Smt2 == \/ Smt2Declare \/ Smt2Undeclared \/ Smt2Assert \/ Smt2Minimize
        \/ MinimizeThrows \/ Smt2CheckSat \/ Smt2GetModel \/ Smt2SetOption
        \/ Smt2PushPop \/ Smt2SetLogic \/ Smt2GetOption \/ Smt2Exit
Dr == DrDeclare \/ DrAssert \/ DrMinimize \/ DrError \/ DrSolve

Next == Main \/ Smt2 \/ Dr

Spec == Init /\ [][Next]_vars
----------------------------------------------------------------------------
(* What the run promises.                                                  *)

Latest(indices) == CHOOSE i \in indices : \A j \in indices : j <= i

\* The commands so far that set a field.
Keyed(field) == {i \in 1..(pos - 1) : /\ phase # "dr" /\ case.content[i].c = "set-option"
                                      /\ Sets(case.content[i], field)}

\* The value of a field that the sources, the strongest first, ask for.
Wanted(field) ==
    IF case.entry = "code" /\ field = "precision" THEN 3
    ELSE IF case.entry = "main" /\ Setting(case.options, field) # {}
    THEN Given(case.options, field)
    ELSE IF Keyed(field) # {} THEN Said(case.content[Latest(Keyed(field))])
    ELSE Default(field)

\* Whatever the command line, the embedding program and the set-option
\* commands so far said, and in whatever order, every option has the value its
\* strongest source gave it last (OptionValue: code, then command line, then
\* file, then default).
StrongestSourceWins ==
    phase \in {"open", "smt2", "dr"}
        => \A field \in DOMAIN config : Get(config, field) = Wanted(field)

\* Options that exclude each other never answer anything: an explicit
\* --seed-samples with several jobs, or both shaving contractors.
ConflictsAnswerNothing ==
    output # << >> =>
        /\ ~ShavingConflict(config)
        /\ IsSet("--seed-samples") /\ case.entry = "main"
              => ~(case.options["--seed-samples"][1] > 0
                    /\ IsSet("--jobs") /\ case.options["--jobs"][1] > 1)

\* What the commands before the n-th mean: the points of the declarations that
\* satisfy the assertions, of these the ones that a minimization leaves, which
\* no point it ranges over beats; where the objectives are minimized together,
\* which no point beats in all of them.
Declared(content, n) == {i \in 1..(n - 1) : content[i].c = "declare"}
Asserted(content, n) == {i \in 1..(n - 1) : content[i].c = "assert"}
Minimizations(content, n) == {i \in 1..(n - 1) : content[i].c = "minimize"}
Scope(content, n) == {content[i].v : i \in Declared(content, n)}

Feasible(content, n) ==
    {p \in Points(Scope(content, n)) :
        /\ \A i \in Declared(content, n) : p[content[i].v] \in content[i].domain
        /\ \A i \in Asserted(content, n) : Satisfies(p, content[i].f)}
Score(f, p) == f.value[Projected(p, f.vars)]

Meant(content, n, together) ==
    {p \in Feasible(content, n) :
        IF together
        THEN \/ Minimizations(content, n) = {}
             \/ ~\E q \in Feasible(content, n) : \A i \in Minimizations(content, n) :
                    Score(content[i].f, q) < Score(content[i].f, p)
        ELSE \A i \in Minimizations(content, n) : ~\E q \in Feasible(content, i) :
                    Score(content[i].f, q) < Score(content[i].f, p)}

ReadsDr == case.entry = "main" /\ ~IsSmt2
MeantBefore(n) == Meant(case.content, n, ReadsDr)

\* An answer is about all the input before it, and in dr about all the input:
\* "unsat" if nothing satisfies it, else a model that contains a point that
\* does and that no feasible point beats where something is minimized.
AnswersAreAboutTheInput ==
    \A i \in DOMAIN output :
        /\ output[i].kind = "unsat" => MeantBefore(output[i].at) = {}
        /\ output[i].kind = "delta-sat" =>
              \E p \in MeantBefore(output[i].at) :
                 /\ DOMAIN output[i].model = DOMAIN p
                 /\ \A v \in DOMAIN p : p[v] \in output[i].model[v]

\* The answers among the lines printed before line i.
Checks(i) == {j \in 1..(i - 1) : output[j].kind \in {"unsat", "delta-sat"}}

\* What get-model prints is the model of the last check-sat, or nothing if
\* that check found none; and it names the variables declared before the
\* check and no variable the solver made.
ModelsAreOfTheLastCheck ==
    \A i \in DOMAIN output : output[i].kind = "model" =>
        LET last == output[Latest(Checks(i))]
        IN  IF Checks(i) = {} THEN output[i].model = NoModel
            ELSE /\ output[i].model = last.model
                 /\ last.kind = "delta-sat" =>
                       DOMAIN last.model = Scope(case.content, last.at)
=============================================================================
