------------------------------- MODULE Meaning -------------------------------
(***************************************************************************)
(* What a function string means, told without parsing it from left to      *)
(* right: a text is split at its outermost operator, the last one of the   *)
(* lowest precedence outside of parentheses.  The operators, their order   *)
(* and the inline variables are those of section "The function string      *)
(* syntax" of docs/fparser.html, for the tokens of Compiler.               *)
(***************************************************************************)
EXTENDS ByteCode, FiniteSets, SequencesExt

\* From the lowest precedence to the highest; all of them group to the left.
Precedence == << {"|"}, {"&"}, {"=", "!=", "<", "<=", ">", ">="}, {"+", "-"}, {"*", "/", "%"} >>

Operation ==
  [t \in UNION ToSet(Precedence) |->
     CASE t = "|"  -> "cOr"    [] t = "&"  -> "cAnd"
       [] t = "="  -> "cEqual" [] t = "!=" -> "cNEqual"
       [] t = "<"  -> "cLess"  [] t = "<=" -> "cLessOrEq"
       [] t = ">"  -> "cGreater" [] t = ">=" -> "cGreaterOrEq"
       [] t = "+"  -> "cAdd"   [] t = "-"  -> "cSub"
       [] t = "*"  -> "cMul"   [] t = "/"  -> "cDiv" [] t = "%" -> "cMod"]

Literals == {"0", "1", "2", "5"}
Names == {"x", "y", "a"}
New == Names \ {"x", "y"}

\* A result: "value" with the value, "division" by zero, or "invalid", which is
\* no text of the language at all.
Value(v) == [kind |-> "value", v |-> v]
DividedByZero == [kind |-> "division", v |-> 0]
Invalid == [kind |-> "invalid", v |-> 0]

Computes(o, rs) ==
  CASE \E i \in DOMAIN rs : rs[i].kind = "invalid" -> Invalid
    [] OTHER ->
         LET a == [i \in DOMAIN rs |-> rs[i].v]
         IN IF (\E i \in DOMAIN rs : rs[i].kind = "division") \/ DividesByZero(o, a)
              THEN DividedByZero
              ELSE Value(Result(o, a))

\* Only the branch that is chosen is evaluated.
Chooses(rs) ==
  CASE \E i \in DOMAIN rs : rs[i].kind = "invalid" -> Invalid
    [] OTHER -> IF rs[1].kind = "division" THEN DividedByZero
                ELSE IF rs[1].v # 0 THEN rs[2] ELSE rs[3]

\* A definition whose value divides by zero does so even when it is not used.
Defines(value, rest) ==
  IF value.kind = "division" /\ rest.kind = "value" THEN DividedByZero ELSE rest

\* How many parentheses are open before position i.
Depth(t, i) == Cardinality({j \in 1 .. i - 1 : t[j] = "("})
               - Cardinality({j \in 1 .. i - 1 : t[j] = ")"})

\* The positions of the binary operators outside of parentheses: those after
\* the end of an operand.
Outermost(t) ==
  {i \in 2 .. Len(t) : /\ t[i] \in DOMAIN Operation
                       /\ Depth(t, i) = 0
                       /\ t[i - 1] \in Literals \cup Names \cup {")"}}

\* The parts of t between the commas outside of parentheses.
Parts(t) ==
  LET cuts == {0, Len(t) + 1} \cup {i \in DOMAIN t : t[i] = "," /\ Depth(t, i) = 0}
      order == SetToSortSeq(cuts, <)
  IN [k \in 1 .. Cardinality(cuts) - 1 |-> SubSeq(t, order[k] + 1, order[k + 1] - 1)]

RECURSIVE Means(_, _)

\* Splits t at its outermost operator.
Split(t, env) ==
  LET candidates(l) == {i \in Outermost(t) : t[i] \in Precedence[l]}
      level == CHOOSE l \in DOMAIN Precedence :
                 candidates(l) # {} /\ \A k \in 1 .. l - 1 : candidates(k) = {}
      i == CHOOSE i \in candidates(level) : \A j \in candidates(level) : j <= i
  IN Computes(Operation[t[i]],
              <<Means(SubSeq(t, 1, i - 1), env), Means(SubSeq(t, i + 1, Len(t)), env)>>)

\* f ( arguments ).
Call(f, arguments, env) ==
  LET rs == [k \in DOMAIN Parts(arguments) |-> Means(Parts(arguments)[k], env)]
  IN CASE f = "if"  /\ Len(rs) = 3 -> Chooses(rs)
       [] f = "abs" /\ Len(rs) = 1 -> Computes("cAbs", rs)
       [] f = "min" /\ Len(rs) = 2 -> Computes("cMin", rs)
       [] f = "max" /\ Len(rs) = 2 -> Computes("cMax", rs)
       [] OTHER -> Invalid

\* The value of expression t, when env gives the values of the names.
Means(t, env) ==
  CASE t = <<>> -> Invalid
    [] Len(t) = 1 ->
         CASE t[1] \in Literals -> Value(CASE t[1] = "0" -> 0 [] t[1] = "1" -> 1
                                           [] t[1] = "2" -> 2 [] t[1] = "5" -> 5)
           [] t[1] \in DOMAIN env -> env[t[1]]
           [] OTHER -> Invalid
    [] Len(t) > 1 ->
         CASE Outermost(t) # {}  -> Split(t, env)
           [] Outermost(t) = {} /\ t[1] = "-" -> Computes("cNeg", <<Means(Tail(t), env)>>)
           [] Outermost(t) = {} /\ t[1] = "!" -> Computes("cNot", <<Means(Tail(t), env)>>)
           [] Outermost(t) = {} /\ t[1] = "(" /\ Last(t) = ")" ->
                Means(SubSeq(t, 2, Len(t) - 1), env)
           [] Outermost(t) = {} /\ t[2] = "(" /\ Last(t) = ")" ->
                Call(t[1], SubSeq(t, 3, Len(t) - 1), env)
           [] OTHER -> Invalid

RECURSIVE Meaning(_, _)

\* The value of a text: a := e ; rest gives a the value of e in rest, and the
\* value of a := e alone is that of e.
Meaning(t, env) ==
  IF Len(t) >= 2 /\ t[1] \in New /\ t[2] = ":="
    THEN LET ends == {i \in DOMAIN t : t[i] = ";"}
             end == IF ends = {} THEN Len(t) + 1
                    ELSE CHOOSE i \in ends : \A j \in ends : i <= j
             value == Means(SubSeq(t, 3, end - 1), env)
         IN CASE value.kind = "invalid" \/ ends = {} -> value
              [] OTHER -> Defines(value, Meaning(SubSeq(t, end + 1, Len(t)), (t[1] :> value) @@ env))
    ELSE Means(t, env)
=============================================================================
