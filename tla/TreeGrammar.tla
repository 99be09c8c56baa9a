----------------------------- MODULE TreeGrammar -----------------------------
(***************************************************************************)
(* ApplyGrammar(): one pass of a grammar over a tree.  The parameters come *)
(* first; when none of them changed, the first rule that matches the tree  *)
(* is applied.  What a pass changed is folded afterwards, from the leaves  *)
(* up (FixIncompleteHashes), which is part of the pass here.               *)
(*                                                                         *)
(* The search for a match goes on until a rule matches or no way to match  *)
(* it is left.  Here a test has the sequence of all ways as its value, in  *)
(* the order that the search finds them in; the first one is applied.      *)
(*                                                                         *)
(* The mark that a subtree is done with a grammar (OptimizedUsing) is left *)
(* out: a pass looks at every subtree again.                               *)
(***************************************************************************)
EXTENDS TreeRules, Folding

Unchanged(t) == [tree |-> t, changed |-> FALSE]
Replaced(t) == [tree |-> t, changed |-> TRUE]

-----------------------------------------------------------------------------
(***************************************************************************)
(* Making trees from what has matched (MatchInfo): the tree of each holder *)
(* and the trees of each rest holder.                                      *)
(***************************************************************************)
NoInfo == [holders |-> <<>>, rests |-> <<>>]

\* An operation on the parameters that were made and those of a rest holder.
GroupWithRest(o, made, rest) ==
  LET params == made \o rest
  IN CASE Len(params) = 1 -> params[1]
       [] params = <<>>   -> CodeTreeImmed(IF o \in {"cAdd", "cOr"} THEN 0 ELSE 1)
       [] OTHER           -> Node(o, params)

Made(p, made, info) ==
  IF p.rest = 0 THEN Node(p.op, made) ELSE GroupWithRest(p.op, made, info.rests[p.rest])

RECURSIVE SynthesizeParam(_, _)

\* SynthesizeParam with inner, and CalculateGroupFunction: folded at once.
Rehashed(p, made) == IF p.kind = "SubFunction" THEN ConstantFolding(made) ELSE made
SynthesizeInner(p, info) == Rehashed(p, SynthesizeParam(p, info))

SynthesizeParam(p, info) ==
  CASE p.kind = "NumConstant" -> CodeTreeImmed(p.val)
    [] p.kind = "ParamHolder" -> info.holders[p.name]
    [] p.kind = "SubFunction" -> Made(p, [i \in DOMAIN p.par |-> SynthesizeInner(p.par[i], info)], info)

\* Mutant: the parameters that did not match are lost.
ExchangedAll(t, rule, way) ==
  [t EXCEPT !.par = [i \in DOMAIN rule.make |-> SynthesizeInner(rule.make[i], way.info)]]

\* The parameters that did not match, and after them the new ones.
Exchanged(t, rule, way) ==
  [t EXCEPT !.par = FlattenSeq([i \in DOMAIN t.par |-> IF i \in way.used THEN <<>> ELSE <<t.par[i]>>])
                    \o [i \in DOMAIN rule.make |-> SynthesizeInner(rule.make[i], way.info)]]

SynthesizeRule(t, rule, way) ==
  IF rule.produces THEN SynthesizeParam(rule.make[1], way.info) ELSE Exchanged(t, rule, way)

-----------------------------------------------------------------------------
(***************************************************************************)
(* Matching.                                                               *)
(***************************************************************************)

\* TestImmedConstraints; only constants are asked whether they are integers.
Satisfies(t, c) ==
  CASE c = "E" -> GetEvennessInfo(t) = IsAlways
    [] c = "L" -> IsLogicalValue(t)
    [] c = "P" -> GetPositivityInfo(t) = IsAlways
    [] c = "N" -> GetPositivityInfo(t) = IsNever
    [] c = "1" -> IsImmed(t) /\ Abs(t.val) = 1
    [] c = "M" -> ~(IsImmed(t) /\ Abs(t.val) = 1)
    [] c \in {"C", "I"} -> IsImmed(t)

\* A holder, or a rest holder, gets its value or has it already.
SaveOrTest(f, k, v) ==
  IF k \notin DOMAIN f THEN <<(k :> v) @@ f>> ELSE IF f[k] = v THEN <<f>> ELSE <<>>
SaveOrTestParamHolder(info, name, t) ==
  LET saved == SaveOrTest(info.holders, name, t)
  IN [i \in DOMAIN saved |-> [info EXCEPT !.holders = saved[i]]]
SaveOrTestRestHolder(info, k, trees) ==
  LET saved == SaveOrTest(info.rests, k, trees)
  IN [i \in DOMAIN saved |-> [info EXCEPT !.rests = saved[i]]]

\* IsLogisticallyPlausibleParamsMatch, and the length of the parameter list.
Plausible(m, t) ==
  LET needed(o) == Cardinality({i \in DOMAIN m.par :
        m.par[i].kind = "SubFunction" /\ (IF m.par[i].match = "GroupFunction" THEN "cImmed" ELSE m.par[i].op) = o})
      present(o) == Cardinality({i \in DOMAIN t.par : t.par[i].op = o})
      opcodes == {IF m.par[i].match = "GroupFunction" THEN "cImmed" ELSE m.par[i].op :
                    i \in {j \in DOMAIN m.par : m.par[j].kind = "SubFunction"}}
  IN /\ IF m.match = "AnyParams" THEN Len(m.par) <= Len(t.par) ELSE Len(m.par) = Len(t.par)
     /\ \A o \in opcodes : needed(o) <= present(o)

\* CalculateGroupFunction: the number that a function of constants is.
RECURSIVE CalculateGroupFunction(_, _)
CalculateGroupFunction(p, info) ==
  CASE p.kind = "NumConstant" -> p.val
    [] p.kind = "ParamHolder" -> info.holders[p.name].val
    [] p.kind = "SubFunction" /\ p.op = "cSqrt" -> fp_sqrt(CalculateGroupFunction(p.par[1], info))
    [] OTHER -> The(Compute(p.op, [i \in DOMAIN p.par |-> CalculateGroupFunction(p.par[i], info)]))

\* The ways that have these infos and use the same parameters of the tree.
Ways(infos, used) == [i \in DOMAIN infos |-> [info |-> infos[i], used |-> used]]
Infos(ways) == [i \in DOMAIN ways |-> ways[i].info]

RECURSIVE TestParams(_, _, _)

\* How the parameter p of a rule matches the tree t after info.
TestParam(p, t, info) ==
  CASE p.kind = "NumConstant" -> IF t = CodeTreeImmed(p.val) THEN <<info>> ELSE <<>>
    [] p.kind = "ParamHolder" ->
         IF \A c \in p.constraints : Satisfies(t, c) THEN SaveOrTestParamHolder(info, p.name, t) ELSE <<>>
    [] p.kind = "SubFunction" ->
         CASE p.match = "GroupFunction" -> IF t = CodeTreeImmed(CalculateGroupFunction(p, info)) THEN <<info>> ELSE <<>>
           [] p.match # "GroupFunction" /\ p.op # t.op -> <<>>
           [] OTHER -> Infos(TestParams(p, t, info))

\* TestParam_AnyWhere: the parameter k of the rule is found at an unused place
\* of the tree, at its own place when the order matters.
TestParam_AnyWhere(m, t, k, way) ==
  FlattenSeq([b \in DOMAIN t.par |->
    IF b \in way.used \/ (m.match = "PositionalParams" /\ b # k) THEN <<>>
    ELSE Ways(TestParam(m.par[k], t.par[b], way.info), way.used \cup {b})])

\* The parameters that are left go to the rest holder.
Left(t, used) == FlattenSeq([b \in DOMAIN t.par |-> IF b \in used THEN <<>> ELSE <<t.par[b]>>])

RestHolder(m, left, info) ==
  IF \A c \in m.restholder_constraints : \A i \in DOMAIN left : Satisfies(left[i], c)
    THEN SaveOrTestRestHolder(info, m.rest, left) ELSE <<>>

TakeRest(m, t, way) ==
  IF m.rest = 0 THEN <<way>> ELSE Ways(RestHolder(m, Left(t, way.used), way.info), DOMAIN t.par)

Each(ways, test(_)) == FlattenSeq([i \in DOMAIN ways |-> test(ways[i])])

\* The ways, with the parameters of the tree that each of them uses.
TestParams(m, t, info) ==
  LET next(ways, k) == Each(ways, LAMBDA way : TestParam_AnyWhere(m, t, k, way))
      rest(ways) == Each(ways, LAMBDA way : TakeRest(m, t, way))
  IN IF ~Plausible(m, t) THEN <<>>
     ELSE rest(FoldLeft(next, <<[info |-> info, used |-> {}]>>, Indices(m.par)))

-----------------------------------------------------------------------------
(***************************************************************************)
(* ApplyGrammar, for the rules with these numbers.                         *)
(***************************************************************************)

\* Mutant: both branches of an if() are taken for truth values.
LogicalBranches(t, i, logical) ==
  t.op \in {"cNot", "cNotNot", "cAnd", "cOr", "cIf"}

\* Whether only the truth of the parameter i matters, when t is in such a place.
LogicalContext(t, i, logical) ==
  CASE t.op \in {"cNot", "cNotNot", "cAnd", "cOr"} -> TRUE
    [] t.op \in Ifs -> IF i = 1 THEN t.op = "cIf" ELSE logical
    [] OTHER -> FALSE

RulesWith == [o \in {grammar_rules[n].match.op : n \in DOMAIN grammar_rules} |->
               {n \in DOMAIN grammar_rules : grammar_rules[n].match.op = o}]

\* TestRuleAndApplyIfMatch, for the rules that a tree with this opcode may match.
MatchingRules(t, rules, logical) ==
  IF t.op \notin DOMAIN RulesWith THEN {}
  ELSE {n \in RulesWith[t.op] \cap rules :
          /\ grammar_rules[n].logical => logical
          /\ TestParams(grammar_rules[n].match, t, NoInfo) # <<>>}

\* The first way in which the rule matches.
ApplyRule(t, rule) == SynthesizeRule(t, rule, TestParams(rule.match, t, NoInfo)[1])

ApplyFirst(t, matching) ==
  IF matching = {} THEN Unchanged(t)
  ELSE Replaced(ConstantFolding(ApplyRule(t, grammar_rules[First(matching)])))

RECURSIVE ApplyGrammar(_, _, _)

AfterParameters(t, each, rules, logical) ==
  IF \E i \in DOMAIN each : each[i].changed
    THEN Replaced(Rehash(t.op, [i \in DOMAIN each |-> each[i].tree]))
    ELSE ApplyFirst(t, MatchingRules(t, rules, logical))

ApplyGrammar(t, rules, logical) ==
  AfterParameters(t, [i \in DOMAIN t.par |-> ApplyGrammar(t.par[i], rules, LogicalContext(t, i, logical))],
                  rules, logical)
=============================================================================
