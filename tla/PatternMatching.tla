--------------------------- MODULE PatternMatching ---------------------------
(***************************************************************************)
(* PredicateNormalizer::FindSimilar: the conjunctions of known literals    *)
(* that are a given one with its variables renamed.  A literal is kept     *)
(* under its structure, which is the literal with its variables replaced   *)
(* by dummies in the order in which a traversal meets them                 *)
(* (DeBruijnCanonicalizer), in a tree with one level for each variable     *)
(* (substitution_tree).  Descending the tree extends a renaming, which has *)
(* to be one to one and to keep types and domains (substitutions_map).     *)
(*                                                                         *)
(* Matching may stop early, when its time is up, and begins at a random    *)
(* branch of each tree: neither changes what may be found.                 *)
(***************************************************************************)
EXTENDS FormulaTransforms, AssertionFilter

-----------------------------------------------------------------------------
(* Sequences *)

Elements(s) == {s[i] : i \in DOMAIN s}

\* The members of a set in the order of their keys.
InsertByKey(key, x, s) ==
  LET before == Cardinality({i \in DOMAIN s : key[s[i]] <= key[x]})
  IN  [i \in 1 .. Len(s) + 1 |-> IF i <= before THEN s[i] ELSE IF i = before + 1 THEN x ELSE s[i - 1]]
Ordering == INSTANCE Recursion WITH Step <- InsertByKey
SortedBy(key) == Ordering!Fold(key, <<>>, DOMAIN key)

\* The sequences of a sequence, one after the other.
AppendNext(ss, i, s) == s \o ss[i]
Joining == INSTANCE Recursion WITH Step <- AppendNext
Join(ss) == Joining!Iterate(ss, <<>>, Len(ss))

\* Every element of a sequence once, where it first occurs, without those of a set.
AppendNew(p, i, s) == IF p.all[i] \in Elements(s) \cup p.without THEN s ELSE Append(s, p.all[i])
Selecting == INSTANCE Recursion WITH Step <- AppendNew
FirstOccurrences(all, without) == Selecting!Iterate([all |-> all, without |-> without], <<>>, Len(all))

-----------------------------------------------------------------------------
(* The canonical sequence of variables *)

\* A hash that does not tell variables apart (external: drake's al_hash).
AlHashStep(p, x, sub) ==
  CASE x.k \in {"var", "bvar", "true", "false"} -> 1
    [] x.k = "const" -> 2 + x.lo
    [] x.k = "op"    -> 7 + sub[x.args[1]] + 3 * sub[x.args[Len(x.args)]]
    [] x.k = "ite"   -> sub[x.c] + sub[x.a] + 3 * sub[x.b]
    [] x.k = "rel"   -> 5 + sub[x.l] + 3 * sub[x.r]
    [] x.k \in {"and", "or"} -> 11 + Sum(sub)
    [] x.k \in {"not", "forall"} -> 13 + sub[x.f]
AlHashVisitor == INSTANCE Recursion WITH Step <- AlHashStep
AlHash(x) == AlHashVisitor!Visit(0, x)

\* The children of a node in the order of the traversal: the terms of a sum,
\* the factors of a product and the operands of a conjunction or a disjunction
\* by their hashes.
InOrder(x) ==
  CASE x.k = "op" /\ ~(x.op \in {"add", "mul"} /\ AlHash(x.args[2]) < AlHash(x.args[1])) -> x.args
    [] x.k = "op" /\ x.op \in {"add", "mul"} /\ AlHash(x.args[2]) < AlHash(x.args[1]) -> <<x.args[2], x.args[1]>>
    [] x.k = "ite" -> <<x.c, x.a, x.b>>
    [] x.k = "rel" -> <<x.l, x.r>>
    [] x.k \in {"and", "or"} -> SortedBy([g \in x.s |-> AlHash(g)])
    [] x.k \in {"not", "forall"} -> <<x.f>>
    [] OTHER -> <<>>

\* The occurrences of the free variables in the order of the traversal.  One
\* that a quantifier binds is not added (is_bound).
SequenceStep(p, x, sub) ==
  LET children == InOrder(x)
      below == Join([i \in DOMAIN children |-> sub[children[i]]])
  IN  CASE x.k \in {"var", "bvar"} -> <<x.v>>
        [] x.k = "forall" -> FirstOccurrences(below, x.y)
        [] OTHER -> below
DeBruijnCanonicalizer == INSTANCE Recursion WITH Step <- SequenceStep
CanonicalSequence(f) == DeBruijnCanonicalizer!Visit(0, f)

-----------------------------------------------------------------------------
(* Structures and the trees under them *)

ConcreteVars(f) == FirstOccurrences(CanonicalSequence(f), {})

\* Variables are told apart by their numbers alone, the dummies too: a
\* structure does not say what type a variable has.
Dummy(n) == <<"dummy", n>>
IsDummy(v) == v[1] = "dummy"

\* The tree with the variables in some set renamed: below a quantifier not
\* those that it binds.
RenameStep(to, x, sub) ==
  [renamed \in SUBSET DOMAIN to |->
     LET below(vs) == [z \in Children(x) |-> sub[z][vs]]
     IN  CASE x.k \in {"var", "bvar"} /\ x.v \in renamed -> [x EXCEPT !.v = to[x.v]]
           [] x.k = "forall" -> Rebuild(x, below(renamed \ x.y))
           [] OTHER -> Rebuild(x, below(renamed))]
Renaming == INSTANCE Recursion WITH Step <- RenameStep
Rename(f, to) == Renaming!Visit(to, f)[DOMAIN to]

Structure(f) ==
  LET vs == ConcreteVars(f)
  IN  Rename(f, [v \in FreeVars(f) |-> Dummy(CHOOSE n \in DOMAIN vs : vs[n] = v)])

\* structure_to_concrete: the tree of a structure, as the paths to its leaves.
TreeOf(structure, known) ==
  {[path |-> ConcreteVars(g), leaf |-> g] : g \in {h \in known : Structure(h) = structure}}

-----------------------------------------------------------------------------
(* Renamings: pairs of a matched and an original variable *)

TypeOfVar(v) == IF v \in DOMAIN TypeOf THEN TypeOf[v] ELSE "continuous"

\* substitutions_map::attempt_substitution.
\* A slip: only the matched variable is looked up.
AttemptOneSided(b, mapping, a, aP) ==
  IF TypeOfVar(a) # TypeOfVar(aP) THEN "TYPE_MISS"
  ELSE IF b[a] # b[aP] THEN "BOX_MISS"
  ELSE IF \E p \in mapping : p[1] = a /\ p[2] # aP THEN "BIJ_MISS"
  ELSE "SUCCESS"
AttemptSubstitution(b, mapping, a, aP) ==
  IF TypeOfVar(a) # TypeOfVar(aP) THEN "TYPE_MISS"
  ELSE IF b[a] # b[aP] THEN "BOX_MISS"
  ELSE IF \E p \in mapping : (p[1] = a) # (p[2] = aP) THEN "BIJ_MISS"
  ELSE "SUCCESS"

\* substitution_tree::find_matches: down every path the renaming allows, which
\* is extended at each level and starts on a path as it was above the tree
\* (push and pop).
Pairs(path, vars, mapping, n) == mapping \cup {<<path[i], vars[i]>> : i \in 1 .. n}
IsAllowed(b, path, vars, mapping) ==
  \A n \in DOMAIN vars : AttemptSubstitution(b, Pairs(path, vars, mapping, n - 1), path[n], vars[n]) = "SUCCESS"

MatchesOfLiteral(b, known, f, mapping) ==
  LET vars == ConcreteVars(f)
  IN  {[leaf |-> p.leaf, mapping |-> Pairs(p.path, vars, mapping, Len(vars))] :
         p \in {q \in TreeOf(Structure(f), known) : IsAllowed(b, q.path, vars, mapping)}}

\* The literals of the conjunction one after the other, under one renaming.
MatchNext(p, n, matches) ==
  UNION {{[leaves |-> m.leaves \cup {next.leaf}, mapping |-> next.mapping] :
            next \in MatchesOfLiteral(p.box, p.known, p.literals[n], m.mapping)} : m \in matches}
Matching == INSTANCE Recursion WITH Step <- MatchNext
MatchLiterals(b, known, literals) ==
  Matching!Iterate([box |-> b, known |-> known, literals |-> literals],
                   {[leaves |-> {}, mapping |-> {}]}, Len(literals))

\* The literals with more variables come first (Context::CheckSatCore).
MostVariablesFirst(fs) == SortedBy([f \in fs |-> -Cardinality(FreeVars(f))])

FindSimilar(b, known, conflict) == {m.leaves : m \in MatchLiterals(b, known, MostVariablesFirst(conflict))}
=============================================================================
