------------------------------ MODULE Options ------------------------------
(***************************************************************************)
(* Where the value of an option comes from: the defaults of Config, the    *)
(* command line of the program, the set-option commands of a file, and the *)
(* program that embeds the solver.  An OptionValue remembers its source,   *)
(* so that a weaker one does not replace a stronger one.                   *)
(*                                                                         *)
(* Numbers are counted in units of their own default, when that is not     *)
(* zero: the properties tell apart the default, another value, and a value *)
(* a validator refuses.  An argument list is the sequence of what follows  *)
(* the flag.                                                               *)
(***************************************************************************)
EXTENDS Integers, Sequences, TLC

OptionValue(v) == [value |-> v, type |-> "DEFAULT"]

\* Assignment in C++ code.
SetFromCode(v) == [value |-> v, type |-> "FROM_CODE"]

SetFromCommandLine(o, v) ==
    IF o.type = "FROM_CODE" THEN o
                            ELSE [value |-> v, type |-> "FROM_COMMAND_LINE"]

\* A slip: the file wins over the command line.
SetFromFileAlways(o, v) ==
    IF o.type = "FROM_CODE" THEN o ELSE [value |-> v, type |-> "FROM_FILE"]

SetFromFile(o, v) ==
    IF o.type \in {"DEFAULT", "FROM_FILE"}
    THEN [value |-> v, type |-> "FROM_FILE"]
    ELSE o

----------------------------------------------------------------------------
(* Config: one OptionValue for each field.                                 *)

OffFields ==
    {"produce_models", "visualize", "use_polytope", "use_polytope_in_forall",
     "use_forall_pre_prune", "use_worklist_fixpoint", "use_local_optimization",
     "dump_theory_literals", "stack_left_box_first", "smtlib2_compliant",
     "refine_witness", "use_acid", "use_3bcid"}
UnitFields ==
    {"precision", "forall_pre_prune_prec", "number_of_jobs", "nlopt_ftol_rel",
     "nlopt_ftol_abs", "nlopt_maxeval", "nlopt_maxtime", "drpm_max_time",
     "ode_taylor_order", "ode_backward_order", "ode_abs_tol", "ode_rel_tol",
     "ode_hull_grid", "seed_samples", "acid_s3b", "acid_ct_ratio"}
ZeroFields == {"random_seed", "drpm_max_size", "ode_max_step"}

Fields == OffFields \cup UnitFields \cup ZeroFields
            \cup {"sat_default_phase", "ode_c0_set", "ode_backward",
                  "constraint_order", "smear_variant", "brancher"}

Default(field) ==
    CASE field \in OffFields           -> FALSE
      [] field \in UnitFields          -> 1
      [] field \in ZeroFields          -> 0
      [] field = "sat_default_phase"   -> 2
      [] field = "ode_c0_set"          -> "Rect2"
      [] field = "ode_backward"        -> TRUE
      [] field = "brancher"            -> "BranchLargestFirst"
      [] OTHER                         -> "kNone"

NewConfig == [field \in Fields |-> OptionValue(Default(field))]

\* The getters.
Get(config, field) == config[field].value

----------------------------------------------------------------------------
(* AddOptions: the arguments a flag accepts.  A flag without an argument   *)
(* is a switch; the least number is what the validator compares with.      *)

NoBound == -9
Switch == [arity |-> 0, least |-> NoBound, words |-> {}]
AtLeast(n) == [arity |-> 1, least |-> n, words |-> {}]
OneOf(words) == [arity |-> 1, least |-> NoBound, words |-> words]

\* "gt 0", of a double or an integer.
Positive == AtLeast(1)
NonNegative == AtLeast(0)
Unchecked == AtLeast(NoBound)

GeneralFlags ==
    {"--help", "--version", "--produce-models", "--visualize", "--smtlib2-compliant",
     "--debug-scanning", "--debug-parsing", "--in"} \X {Switch}
        \cup {<<"--precision", Positive>>, <<"--format", OneOf({"auto", "dr", "smt2"})>>}

SolverFlags ==
    {"--polytope", "--forall-polytope", "--forall-pre-prune", "--worklist-fixpoint",
     "--local-optimization", "--dump-theory-literals"} \X {Switch}
        \cup {<<"--forall-pre-prune-prec", Positive>>, <<"--jobs", Unchecked>>}

NumericFlags ==
    {"--nlopt-ftol-rel", "--nlopt-ftol-abs", "--nlopt-maxeval", "--nlopt-maxtime",
     "--drpm-max-size", "--drpm-max-time"} \X {Positive}
        \cup {"--sat-default-phase", "--random-seed"} \X {Unchecked}
        \cup {<<"--verbose", OneOf({"trace", "debug", "info", "warning", "error",
                                    "critical", "off"})>>}

OdeFlags ==
    {"--ode-taylor-order", "--ode-backward-order", "--ode-abs-tol", "--ode-rel-tol",
     "--ode-hull-grid"} \X {Positive}
        \cup {<<"--ode-max-step", NonNegative>>, <<"--refine-witness", Switch>>,
              <<"--ode-c0-set", OneOf({"rect2", "tripleton", "horect2"})>>,
              <<"--ode-backward", OneOf({"true", "false"})>>}

SearchFlags ==
    {<<"--constraint-order", OneOf({"none", "asc", "desc"})>>,
     <<"--smear", OneOf({"smearsumrel", "smearsum", "smearmax", "smearmaxrel"})>>,
     <<"--seed-samples", NonNegative>>}
        \cup {"--acid", "--3bcid"} \X {Switch}
        \cup {"--s3b", "--acid-ct-ratio"} \X {Positive}

\* The flags and what they accept.
Flags == GeneralFlags \cup SolverFlags \cup NumericFlags \cup OdeFlags \cup SearchFlags

GotExpected(flag, arguments) ==
    \A p \in Flags : p[1] = flag => Len(arguments) = p[2].arity

GotValid(flag, arguments) ==
    \A p \in Flags : p[1] = flag =>
        \A i \in DOMAIN arguments :
            IF p[2].words # {} THEN arguments[i] \in p[2].words
                               ELSE arguments[i] >= p[2].least

----------------------------------------------------------------------------
(* ExtractOptions: the field a flag sets, and to what.                     *)

SolverFields ==
    {<<"--precision", "precision">>, <<"--produce-models", "produce_models">>,
     <<"--visualize", "visualize">>, <<"--smtlib2-compliant", "smtlib2_compliant">>,
     <<"--polytope", "use_polytope">>, <<"--jobs", "number_of_jobs">>,
     <<"--forall-polytope", "use_polytope_in_forall">>,
     <<"--forall-pre-prune", "use_forall_pre_prune">>,
     <<"--forall-pre-prune-prec", "forall_pre_prune_prec">>,
     <<"--worklist-fixpoint", "use_worklist_fixpoint">>,
     <<"--local-optimization", "use_local_optimization">>,
     <<"--dump-theory-literals", "dump_theory_literals">>}

NumericFields ==
    {<<"--nlopt-ftol-rel", "nlopt_ftol_rel">>, <<"--nlopt-ftol-abs", "nlopt_ftol_abs">>,
     <<"--nlopt-maxeval", "nlopt_maxeval">>, <<"--nlopt-maxtime", "nlopt_maxtime">>,
     <<"--sat-default-phase", "sat_default_phase">>, <<"--random-seed", "random_seed">>,
     <<"--drpm-max-size", "drpm_max_size">>, <<"--drpm-max-time", "drpm_max_time">>}

OdeFields ==
    {<<"--ode-taylor-order", "ode_taylor_order">>,
     <<"--ode-backward-order", "ode_backward_order">>,
     <<"--ode-abs-tol", "ode_abs_tol">>, <<"--ode-rel-tol", "ode_rel_tol">>,
     <<"--ode-hull-grid", "ode_hull_grid">>, <<"--ode-c0-set", "ode_c0_set">>,
     <<"--ode-backward", "ode_backward">>, <<"--ode-max-step", "ode_max_step">>,
     <<"--refine-witness", "refine_witness">>}

SearchFields ==
    {<<"--constraint-order", "constraint_order">>, <<"--smear", "smear_variant">>,
     <<"--seed-samples", "seed_samples">>, <<"--acid", "use_acid">>,
     <<"--3bcid", "use_3bcid">>, <<"--s3b", "acid_s3b">>,
     <<"--acid-ct-ratio", "acid_ct_ratio">>}

FieldOf == SolverFields \cup NumericFields \cup OdeFields \cup SearchFields

\* The flags of the command line that set a field: one, or none.
Setting(options, field) == {flag \in DOMAIN options : <<flag, field>> \in FieldOf}

\* The words that stand for the values of an enumeration.
C0SetOf(word) ==
    CASE word = "tripleton" -> "Tripleton"
      [] word = "horect2"   -> "HORect2"
      [] OTHER              -> "Rect2"
ConstraintOrderOf(word) ==
    CASE word = "asc"  -> "kAsc"
      [] word = "desc" -> "kDesc"
      [] OTHER         -> "kNone"
SmearVariantOf(word) ==
    CASE word = "smearsum"    -> "kSum"
      [] word = "smearmax"    -> "kMax"
      [] word = "smearmaxrel" -> "kMaxRel"
      [] OTHER                -> "kSumRel"

ValueGiven(flag, arguments) ==
    IF arguments = << >> THEN TRUE
    ELSE CASE flag = "--ode-c0-set"       -> C0SetOf(arguments[1])
           [] flag = "--ode-backward"     -> arguments[1] = "true"
           [] flag = "--constraint-order" -> ConstraintOrderOf(arguments[1])
           [] flag = "--smear"            -> SmearVariantOf(arguments[1])
           [] OTHER                       -> arguments[1]

\* The options of the command line, a function from the flags that are set to
\* their arguments: what they say of a field, and what becomes of them all.
Given(options, field) ==
    LET flag == CHOOSE g \in Setting(options, field) : TRUE
    IN  ValueGiven(flag, options[flag])

ExtractOptions(options, config) ==
    [field \in DOMAIN config |->
        IF Setting(options, field) = {} THEN config[field]
        ELSE SetFromCommandLine(config[field], Given(options, field))]

\* A slip: --seed-samples is extracted before --jobs.
SeedConflictTooEarly(options, config) ==
    "--seed-samples" \in DOMAIN options /\ Get(config, "seed_samples") > 0
        /\ Get(NewConfig, "number_of_jobs") > 1

\* ExtractOptions throws; config is what --jobs and --seed-samples have made it.
SeedConflict(options, config) ==
    "--seed-samples" \in DOMAIN options /\ Get(config, "seed_samples") > 0
        /\ Get(config, "number_of_jobs") > 1

ShavingConflict(config) == Get(config, "use_acid") /\ Get(config, "use_3bcid")

----------------------------------------------------------------------------
(* Context::Impl::SetOption: the keys of set-option.                       *)

BooleanKeys ==
    {<<":polytope", "use_polytope">>,
     <<":forall-polytope", "use_polytope_in_forall">>,
     <<"forall_polytope", "use_polytope_in_forall">>,
     <<":forall-pre-prune", "use_forall_pre_prune">>,
     <<"forall_pre_prune", "use_forall_pre_prune">>,
     <<":local-optimization", "use_local_optimization">>,
     <<"local_optimization", "use_local_optimization">>,
     <<":worklist-fixpoint", "use_worklist_fixpoint">>,
     <<":worklist_fixpoint", "use_worklist_fixpoint">>,
     <<":produce-models", "produce_models">>, <<":produce_models", "produce_models">>,
     <<":visualize", "visualize">>,
     <<":smtlib2-compliant", "smtlib2_compliant">>,
     <<":smtlib2_compliant", "smtlib2_compliant">>}

NumberKeys ==
    {<<":precision", "precision">>, <<":forall-pre-prune-prec", "forall_pre_prune_prec">>}

\* A command is [key, word] or [key, number].
IsWord(command) == "word" \in DOMAIN command

KeysFor(command) == IF IsWord(command) THEN BooleanKeys ELSE NumberKeys
Sets(command, field) == <<command.key, field>> \in KeysFor(command)

\* ParseBooleanOption throws on a word that is no Boolean, SetOption on a
\* number that is not positive.
IsRefused(command) ==
    /\ \E field \in Fields : Sets(command, field)
    /\ IF IsWord(command) THEN command.word \notin {"true", "false"}
                          ELSE command.number <= 0

Said(command) == IF IsWord(command) THEN command.word = "true" ELSE command.number

\* Other keys are only remembered.
SetOption(command, config) ==
    [field \in DOMAIN config |-> IF Sets(command, field)
                                 THEN SetFromFile(config[field], Said(command))
                                 ELSE config[field]]
=============================================================================
