-------------------------------- MODULE Trees --------------------------------
(***************************************************************************)
(* The expression trees that the optimizer works on (CodeTree), in the     *)
(* build for long, as values: which nodes are shared and how often is left *)
(* to CodeTree.tla.  A tree is cImmed with a value, VarBegin with the      *)
(* index of a variable, or an opcode with parameters.                      *)
(***************************************************************************)
EXTENDS ByteCode, SequencesExt

Node(o, p) == [op |-> o, val |-> 0, par |-> p]
CodeTreeImmed(v) == [op |-> "cImmed", val |-> v, par |-> <<>>]
CodeTreeVar(i) == [op |-> "VarBegin", val |-> i, par |-> <<>>]

IsImmed(t) == t.op = "cImmed"

Largest(S) == CHOOSE m \in S : \A n \in S : n <= m

RECURSIVE Depth(_)
Depth(t) ==
  IF t.par = <<>> THEN 1 ELSE 1 + Largest({Depth(t.par[i]) : i \in DOMAIN t.par})

-----------------------------------------------------------------------------
(***************************************************************************)
(* The order of the parameters of a commutative operation.  The hash of a  *)
(* tree has its opcode as the highest byte and a fingerprint of the rest,  *)
(* where any fixed order does; a negative immediate sets all the high bits *)
(* and so comes after every other tree.                                    *)
(***************************************************************************)
Rank(t) == IF IsImmed(t) /\ t.val < 0 THEN VarBegin + 1
           ELSE IF t.op = "VarBegin" THEN VarBegin ELSE Number[t.op]

RECURSIVE HashLess(_, _), HashesLess(_, _)
HashLess(a, b) ==
  IF Rank(a) # Rank(b) THEN Rank(a) < Rank(b)
  ELSE IF a.val # b.val THEN a.val < b.val
  ELSE HashesLess(a.par, b.par)
HashesLess(p, q) ==
  IF p = <<>> \/ q = <<>> THEN p = <<>> /\ q # <<>>
  ELSE IF p[1] = q[1] THEN HashesLess(Tail(p), Tail(q))
  ELSE HashLess(p[1], q[1])

\* ParamComparer: the deepest first.
ParamLess(a, b) ==
  IF Depth(a) # Depth(b) THEN Depth(a) > Depth(b) ELSE HashLess(a, b)

Commutative == {"cAdd", "cMul", "cMin", "cMax", "cAnd", "cAbsAnd", "cOr", "cAbsOr",
                "cEqual", "cNEqual"}

SortParams(p) == SortSeq(p, ParamLess)

\* CodeTreeData::Sort; a comparison is turned around.
Sort(t) ==
  CASE t.op \in Commutative -> [t EXCEPT !.par = SortParams(@)]
    [] t.op \in {"cFma", "cFms"} -> [t EXCEPT !.par = SortParams(SubSeq(@, 1, 2)) \o SubSeq(@, 3, 3)]
    [] t.op \in {"cFmma", "cFmms"} ->
         [t EXCEPT !.par = SortParams(SubSeq(@, 1, 2)) \o SortParams(SubSeq(@, 3, 4))]
    [] t.op \in Comparisons \ Commutative ->
         IF ParamLess(t.par[2], t.par[1])
           THEN Node(OppositeComparisonOpcode(t.op), Reverse(t.par)) ELSE t
    [] OTHER -> t

-----------------------------------------------------------------------------
(***************************************************************************)
(* The value of a tree when the variables are x: the set of the value that *)
(* the byte code made from it computes, empty when it divides by zero.     *)
(* cPow has a constant exponent and stands for repeated multiplication.    *)
(***************************************************************************)
The(S) == CHOOSE v \in S : TRUE

Power(b, n) == FoldLeft(LAMBDA p, i : p * b, 1, [i \in 1..n |-> i])

\* The operations that take two parameters in the byte code and any number here.
Groups == {"cAdd", "cMul", "cMin", "cMax", "cAnd", "cOr"}

\* All the parameters, and some parameter, is true.
All(v, abs) == \A i \in DOMAIN v : IF abs THEN v[i] > 0 ELSE v[i] # 0
Some(v, abs) == \E i \in DOMAIN v : IF abs THEN v[i] > 0 ELSE v[i] # 0

Compute(o, v) ==
  CASE o \in {"cAnd", "cAbsAnd"} -> {Truth(All(v, o = "cAbsAnd"))}
    [] o \in {"cOr", "cAbsOr"}   -> {Truth(Some(v, o = "cAbsOr"))}
    [] o \in Groups \ {"cAnd", "cOr"} ->
         {FoldLeft(LAMBDA a, b : Result(o, <<a, b>>), v[1], Tail(v))}
    [] o = "cPow" -> {Power(v[1], v[2])}
    [] OTHER -> IF DividesByZero(o, v) THEN {} ELSE {Result(o, v)}

RECURSIVE Evaluate(_, _)
Evaluate(t, x) ==
  CASE t.op = "cImmed"   -> {t.val}
    [] t.op = "VarBegin" -> {x[t.val]}
    [] t.op \in {"cIf", "cAbsIf"} ->
         UNION {Evaluate(t.par[IF All(<<c>>, t.op = "cAbsIf") THEN 2 ELSE 3], x) :
                  c \in Evaluate(t.par[1], x)}
    [] OTHER ->
         LET v == [i \in DOMAIN t.par |-> Evaluate(t.par[i], x)]
         IN IF \E i \in DOMAIN v : v[i] = {} THEN {}
            ELSE Compute(t.op, [i \in DOMAIN v |-> The(v[i])])
=============================================================================
