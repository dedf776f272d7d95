----------------------------- MODULE MCSession -----------------------------
(* Command lines and inputs small enough for TLC: every flag alone, with  *)
(* arguments a validator accepts and refuses; the flags that depend on    *)
(* each other or on the file together; and inputs over x, y and w.        *)
EXTENDS Session

MCValues == 0..2
MCZNames == <<"Z0", "Z1">>
MCExtension == "f.smt2" :> "smt2" @@ "f.dr" :> "dr" @@ "f.txt" :> "txt"
                 @@ "gone.smt2" :> "smt2" @@ "" :> ""
MCExists == [f \in DOMAIN MCExtension |-> f \notin {"gone.smt2", ""}]

----------------------------------------------------------------------------
(* Inputs.                                                                 *)

Declare(v, d) == [c |-> "declare", v |-> v, domain |-> d]
Require(vs, P(_)) == [c |-> "assert",
                     f |-> [vars |-> vs, forall |-> FALSE,
                            sat |-> {p \in [vs -> MCValues] : P(p)}]]
Minimize(vs, F(_)) == [c |-> "minimize",
                       f |-> [vars |-> vs,
                              value |-> [p \in [vs -> MCValues] |-> F(p)]]]
Word(key, w) == [c |-> "set-option", key |-> key, word |-> w]
Number(key, n) == [c |-> "set-option", key |-> key, number |-> n]
Do(c) == [c |-> c]

X == Declare("x", MCValues)
Y == Declare("y", 0..1)
W == Declare("w", 1..2)
XLessY == Require({"x", "y"}, LAMBDA p : p["x"] > p["y"])
YLessW == Require({"y", "w"}, LAMBDA p : p["y"] + 1 = p["w"])
X2 == Require({"x"}, LAMBDA p : p["x"] = 2)
Y1 == Require({"y"}, LAMBDA p : p["y"] = 1)
W2 == Require({"w"}, LAMBDA p : p["w"] = 2)
MinX == Minimize({"x"}, LAMBDA p : p["x"])
MinY == Minimize({"x", "y"}, LAMBDA p : IF p["x"] > p["y"] THEN 2 - p["x"] ELSE 1)

B == Declare("b", 0..1)
XOrB == Require({"x", "b"}, LAMBDA p : p["x"] = 1 \/ p["b"] = 1)
MCBooleanVars == {"b"}

Settings ==
    {Word(key, w) : key \in {":polytope", "forall_polytope", ":produce_models",
                             ":precision"}, w \in {"true", "false", "maybe"}}
        \cup {Number(key, n) : key \in {":precision", ":polytope"}, n \in {0, 2, 4}}
        \cup {Number(":forall-pre-prune-prec", 2)}

\* Checks in the middle, models after them, an unsatisfiable end.
Scripts ==
    {<<X, Do("get-model"), Do("check-sat"), Do("get-model"), Y, XLessY,
       Do("check-sat"), Y1, Do("get-model"), Do("check-sat"), Do("get-model")>>,
     <<X, Y, XLessY, Do("check-sat"), Y1, Do("check-sat"),
       Require({"x"}, LAMBDA p : p["x"] < 2), Do("check-sat"), Do("get-model"),
       Do("exit"), Do("check-sat")>>,
     <<X, Y, W, XLessY, YLessW, W2, MinX, Do("check-sat"), Do("get-model"), X2,
       Do("check-sat"), Do("get-model")>>,
     <<X, Y, XLessY, MinX, MinY, Do("check-sat"), Do("get-model")>>,
     <<X, X2, MinY>>, <<X, B, XOrB, MinX, Do("check-sat")>>,
     <<X, W, B, XOrB, W2, Minimize({"w"}, LAMBDA p : 2 - p["w"]), Do("check-sat"), Do("get-model")>>,
     <<X, W, MinX, Minimize({"w"}, LAMBDA p : 2 - p["w"]), Do("check-sat")>>, <<X, Y1, Do("check-sat")>>,
     <<[c |-> "set-logic", logic |-> "QF_NRA"], X, [c |-> "get-option", key |-> ":precision"],
       Number(":precision", 2), [c |-> "get-option", key |-> ":precision"],
       [c |-> "get-option", key |-> ":visualize"], X2, Do("check-sat")>>,
     <<[c |-> "set-logic", logic |-> "QF_BV"], X, Do("check-sat")>>,
     <<X, Do("push"), Do("check-sat")>>, <<X, X2, Do("pop"), Do("check-sat")>>}

OptionScripts ==
    {<<a, b, X, X2, Do("check-sat"), e, Do("check-sat")>> :
        a \in Settings, b \in Settings,
        e \in {Word(":polytope", "false"), Number(":precision", 5)}}

DrInputs ==
    {<<X, Y, W, XLessY, YLessW, W2, MinX>>, <<X, Y, XLessY, MinX, MinY>>, <<X>>,
     <<X, Y, XLessY, Y1, X2>>, <<X, Y1>>, <<X2, X>>, <<X, MinX, X2>>, << >>,
     <<X, Y, XLessY, MinX>>, <<X, Y, B, XOrB, MinX>>, <<X, Y, B, XLessY, XOrB>>,
     <<X, Y, XLessY, Require({"x"}, LAMBDA p : p["x"] = 0)>>}

----------------------------------------------------------------------------
(* Command lines.                                                          *)

Arguments(accepts) ==
    CASE accepts.arity = 0  -> {<< >>, <<2>>}
      [] accepts.words # {} -> {<< >>, <<"other">>} \cup {<<w>> : w \in accepts.words}
      [] OTHER              -> {<<-1>>, <<0>>, <<2>>, <<1, 2>>}

Alone == UNION {{p[1] :> a : a \in Arguments(p[2])} : p \in Flags}

Together ==
    {"--seed-samples" :> <<s>> @@ "--jobs" :> <<j>> : s \in {0, 2}, j \in {1, 2}}
        \cup {"--acid" :> << >> @@ "--3bcid" :> << >>,
              "--help" :> << >> @@ "--precision" :> <<0>>,
              "--in" :> << >> @@ "--format" :> <<"dr">>,
              "--in" :> << >> @@ "--format" :> <<"auto">>,
              "--precision" :> <<2>> @@ "--polytope" :> << >>,
              "--refine-witness" :> << >> @@ "--produce-models" :> << >>}

Files == {<<f>> : f \in DOMAIN MCExtension} \cup {<< >>, <<"f.smt2", "f.dr">>}

Run(options, files, content) ==
    [entry |-> "main", options |-> options, files |-> files, content |-> content]

SomeScript == <<Word(":polytope", "true"), X, Y, XLessY, Do("check-sat")>>

MCCases ==
    {Run(o, <<"f.smt2">>, SomeScript) : o \in Alone \cup Together}
        \cup {Run(o, f, <<X, X2>>) :
                f \in Files, o \in {None, "--in" :> << >>} \cup
                  {"--format" :> <<w>> : w \in {"auto", "dr", "smt2"}}}
        \cup {Run(o, <<"f.dr">>, d) :
                d \in DrInputs, o \in {None, "--refine-witness" :> << >>}}
        \cup {Run(None, <<"f.smt2">>, s) : s \in Scripts \cup OptionScripts}
        \cup {Run("--precision" :> <<2>> @@ "--polytope" :> << >>, <<"f.smt2">>, s) :
                s \in OptionScripts}
        \cup {[entry |-> "code", options |-> None, files |-> << >>, content |-> s] :
                s \in Scripts \cup OptionScripts}
=============================================================================
