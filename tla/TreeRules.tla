------------------------------ MODULE TreeRules ------------------------------
(***************************************************************************)
(* The rules that the optimizer rewrites trees with (grammar_rules), and   *)
(* the grammars they belong to, in the build for long.  A rule has the     *)
(* number of its place in grammar_rules: of those that match, the one with *)
(* the lowest number is applied.                                           *)
(*                                                                         *)
(* Left out are the rules that no tree of this build matches: those with   *)
(* the functions of real or complex numbers, with @F or @C, or with a      *)
(* power whose exponent is not a constant or is negative, or whose base is *)
(* a power or has a constant factor.  The last grammar (recreate) is for   *)
(* trees with negative powers, too.                                        *)
(***************************************************************************)
EXTENDS Integers, Sequences, TLC

-----------------------------------------------------------------------------
(***************************************************************************)
(* What a parameter has to be, or is to be made of (ParamSpec).            *)
(***************************************************************************)

\* A number, and any tree: each occurrence of the same holder is the same one.
\* The constraints are those of treerules.dat: E(ven), L(ogical), I(nteger),
\* P(ositive), N(egative), 1 (or -1), M (neither), C(onstant).
Imm(v) == [kind |-> "NumConstant", val |-> v]
Holder(name) == [kind |-> "ParamHolder", name |-> name, constraints |-> {}]
Is(holder, constraint) == [holder EXCEPT !.constraints = @ \cup {constraint}]

SubFunction(op, match, par, rest) ==
  [kind |-> "SubFunction", op |-> op, match |-> match, par |-> par, rest |-> rest,
   restholder_constraints |-> {}]
RestIs(p, constraint) == [p EXCEPT !.restholder_constraints = {constraint}]

\* [x y]: these in this order; {x y}: these in any order; x y <1>: these and
\* others, which the rest holder 1 takes (0: none does, at the root of a rule);
\* NAME(x y): the constant that this is.
Pos(op, par) == SubFunction(op, "PositionalParams", par, 0)
Sel(op, par) == SubFunction(op, "SelectedParams", par, 0)
AnyOf(op, par, rest) == SubFunction(op, "AnyParams", par, rest)
Fun(op, par) == SubFunction(op, "GroupFunction", par, 0)

X == Holder("x")
Y == Holder("y")
Z == Holder("z")
A == Holder("a")
B == Holder("b")
K == Is(Holder("%"), "C")
L == Is(Holder("&"), "C")

If(c, t, f) == Pos("cIf", <<c, t, f>>)
Not(p) == Pos("cNot", <<p>>)
PowOf(b, e) == Pos("cPow", <<b, e>>)
Minus(p) == Fun("cNeg", <<p>>)
TimesOf(par, rest) == AnyOf("cMul", par, rest)

\* A whole tree is replaced (->), or the parameters that matched are (:).  The
\* rules with @L are for trees of which only the truth matters.
Rule(match, produces, make, logical) ==
  [match |-> match, produces |-> produces, make |-> make, logical |-> logical]
Produce(match, new) == Rule(match, TRUE, <<new>>, FALSE)
Replace(match, new) == Rule(match, FALSE, new, FALSE)
InLogicalContext(r) == [r EXCEPT !.logical = TRUE]

-----------------------------------------------------------------------------

\* A group of two if()s with the same condition.
OfIfs(op, inner(_, _)) ==
  Replace(AnyOf(op, <<If(X, Y, Z), If(X, A, B)>>, 0), <<If(X, inner(Y, A), inner(Z, B))>>)

cAbsRules == 0 :> InLogicalContext(Produce(Pos("cAbs", <<X>>), X))

cIfRules ==
     38 :> Produce(If(X, Imm(1), Imm(0)), Pos("cNotNot", <<X>>))
  @@ 40 :> Produce(If(X, Imm(0), Imm(1)), Not(X))
  @@ 41 :> Replace(If(Pos("cLessOrEq", <<X, Y>>), Z, A), <<Pos("cLess", <<Y, X>>), A, Z>>)
  @@ 42 :> Replace(If(Pos("cGreaterOrEq", <<X, Y>>), Z, A), <<Pos("cGreater", <<Y, X>>), A, Z>>)
  @@ 43 :> Produce(If(Is(X, "P"), Y, Z), Pos("cAbsIf", <<X, Y, Z>>))
  @@ 44 :> Produce(If(Pos("cLess", <<X, Y>>), Y, X), Pos("cMax", <<X, Y>>))
  @@ 45 :> Produce(If(Pos("cGreater", <<X, Y>>), Y, X), Pos("cMin", <<X, Y>>))
  @@ 46 :> Produce(If(Pos("cLess", <<X, Y>>), X, Y), Pos("cMin", <<X, Y>>))
  @@ 47 :> Produce(If(Pos("cGreater", <<X, Y>>), X, Y), Pos("cMax", <<X, Y>>))

cMinMaxRules ==
     56 :> Replace(AnyOf("cMax", <<X, AnyOf("cMin", <<X>>, 1)>>, 0), <<X>>)
  @@ 57 :> OfIfs("cMax", LAMBDA p, q : Pos("cMax", <<p, q>>))
  @@ 58 :> Replace(AnyOf("cMin", <<X, AnyOf("cMax", <<X>>, 1)>>, 0), <<X>>)
  @@ 59 :> OfIfs("cMin", LAMBDA p, q : Pos("cMin", <<p, q>>))

cPowRules ==
     61 :> Produce(PowOf(AnyOf("cIf", <<Is(X, "L"), K, L>>, 0), Is(Z, "C")), If(X, PowOf(K, Z), PowOf(L, Z)))
  @@ 64 :> Produce(PowOf(Is(X, "L"), Is(Y, "I")), X)
  @@ 86 :> Replace(PowOf(Pos("cAbs", <<X>>), Is(Y, "E")), <<X, Y>>)
  @@ 87 :> Replace(PowOf(TimesOf(<<Pos("cAbs", <<X>>)>>, 1), Is(Y, "E")), <<TimesOf(<<X>>, 1), Y>>)

\* x^%*<1> + x^&*<2> has the common factor x^MIN(% &).
CommonPower ==
  LET least == Fun("cMin", <<K, L>>)
      rest(e, r) == TimesOf(<<PowOf(X, Sel("cAdd", <<e, Minus(least)>>))>>, r)
  IN Replace(AnyOf("cAdd", <<TimesOf(<<PowOf(X, Is(Is(K, "I"), "P"))>>, 1),
                           TimesOf(<<PowOf(X, Is(L, "I"))>>, 2)>>, 0),
             <<Sel("cMul", <<PowOf(X, least), Sel("cAdd", <<rest(K, 1), rest(L, 2)>>)>>)>>)

\* %*x^2 + &*x*y becomes a square and a multiple of y^2: with 0.5 and -0.25,
\* which are 0 in this build, and a square root, which is always 1 in it.
CompleteSquare ==
  LET root == Fun("cSqrt", <<K>>)
      half == Fun("cMul", <<Imm(0), Fun("cMul", <<L, Fun("cInv", <<root>>)>>)>>)
      quarter == Fun("cMul", <<Fun("cMul", <<Imm(0), Fun("cInv", <<K>>)>>), Fun("cPow", <<L, Imm(2)>>)>>)
  IN Replace(AnyOf("cAdd", <<Sel("cMul", <<Is(K, "P"), PowOf(X, Imm(2))>>), Sel("cMul", <<L, X, Y>>)>>, 0),
             <<PowOf(Sel("cAdd", <<Sel("cMul", <<X, root>>), Sel("cMul", <<Y, half>>)>>), Imm(2)),
               Sel("cMul", <<PowOf(Y, Imm(2)), quarter>>)>>)

\* %*(x^2 + y^2) + &*x*y: other is y or -y, twice is -2 or 2.
SquareOfSum(sign, other, twice) ==
  LET squares == Sel("cAdd", <<PowOf(X, Imm(2)), PowOf(Y, Imm(2))>>)
  IN Replace(AnyOf("cAdd", <<Sel("cMul", <<Is(K, "P"), squares>>), Sel("cMul", <<Is(L, sign), X, Y>>)>>, 0),
             <<Sel("cMul", <<K, PowOf(Sel("cAdd", <<X, other>>), Imm(2))>>),
               Sel("cMul", <<Fun("cAdd", <<L, Fun("cMul", <<Imm(twice), K>>)>>), X, Y>>)>>)

\* Mutant: whatever constant it is.
CommonConstantOfAny(k) ==
  Replace(AnyOf("cAdd", <<K, TimesOf(<<Minus(K)>>, 2)>>, 0),
          <<Sel("cMul", <<K, Sel("cAdd", <<Imm(1), TimesOf(<<Imm(-1)>>, 2)>>)>>)>>)

\* % + -%*<2> becomes %*(1 - <2>).
CommonConstant(k) ==
  Replace(AnyOf("cAdd", <<k, TimesOf(<<Minus(K)>>, 2)>>, 0),
          <<Sel("cMul", <<K, Sel("cAdd", <<Imm(1), TimesOf(<<Imm(-1)>>, 2)>>)>>)>>)

cAddRules ==
     114 :> Replace(AnyOf("cAdd", <<K, If(X, L, Is(Z, "C"))>>, 0),
                    <<If(X, Fun("cAdd", <<K, L>>), Fun("cAdd", <<K, Z>>))>>)
  @@ 115 :> OfIfs("cAdd", LAMBDA p, q : Sel("cAdd", <<p, q>>))
  @@ 118 :> CommonPower
  @@ 119 :> Replace(AnyOf("cAdd", <<TimesOf(<<Is(K, "P")>>, 1), TimesOf(<<Minus(K)>>, 2)>>, 0),
                    <<Sel("cMul", <<K, Sel("cAdd", <<TimesOf(<<>>, 1), TimesOf(<<Imm(-1)>>, 2)>>)>>)>>)
  @@ 120 :> CommonConstant(Is(K, "M"))
  @@ 121 :> CompleteSquare
  @@ 122 :> SquareOfSum("P", Y, -2)
  @@ 123 :> SquareOfSum("N", Sel("cMul", <<Imm(-1), Y>>), 2)

\* x times if(x < 0, %, -%), or > 0, alone or with the other terms of a sum.
SignIf(o) == If(Pos(o, <<X, Imm(0)>>), K, Minus(K))
TimesSign(o, abs) == Replace(TimesOf(<<SignIf(o), X>>, 0), <<Pos("cAbs", <<X>>), abs>>)
TimesSignPlus(o, abs) ==
  Replace(TimesOf(<<AnyOf("cAdd", <<SignIf(o)>>, 1), X>>, 0),
          <<Sel("cAdd", <<Sel("cMul", <<Pos("cAbs", <<X>>), abs>>), Sel("cMul", <<X, AnyOf("cAdd", <<>>, 1)>>)>>)>>)

cMulRules ==
     169 :> Replace(TimesOf(<<AnyOf("cAdd", <<TimesOf(<<Is(K, "M")>>, 1)>>, 2), L>>, 0),
                    <<Sel("cAdd", <<TimesOf(<<K, L>>, 1), Sel("cMul", <<L, AnyOf("cAdd", <<>>, 2)>>)>>)>>)
  @@ 170 :> Replace(TimesOf(<<AnyOf("cAdd", <<Is(K, "M")>>, 1), L>>, 0),
                    <<Sel("cAdd", <<Fun("cMul", <<K, L>>), Sel("cMul", <<L, AnyOf("cAdd", <<>>, 1)>>)>>)>>)
  @@ 171 :> Replace(TimesOf(<<K, If(X, L, Is(Z, "C"))>>, 0),
                    <<If(X, Fun("cMul", <<K, L>>), Fun("cMul", <<K, Z>>))>>)
  @@ 172 :> OfIfs("cMul", LAMBDA p, q : Sel("cMul", <<p, q>>))
  @@ 173 :> Replace(TimesOf(<<PowOf(X, Y), Sel("cAdd", <<Is(K, "1"), PowOf(X, Z)>>)>>, 0),
                    <<Sel("cAdd", <<Sel("cMul", <<PowOf(X, Y), K>>), PowOf(X, Sel("cAdd", <<Y, Z>>))>>)>>)
  @@ 216 :> TimesSignPlus("cLess", Minus(K))
  @@ 217 :> TimesSignPlus("cGreater", K)
  @@ 218 :> Replace(TimesOf(<<Pos("cAbs", <<X>>), Pos("cAbs", <<Y>>)>>, 0), <<Pos("cAbs", <<Sel("cMul", <<X, Y>>)>>)>>)
  @@ 219 :> TimesSign("cLess", Minus(K))
  @@ 220 :> TimesSign("cGreater", K)
  @@ 221 :> InLogicalContext(Replace(TimesOf(<<Pos("cAbs", <<X>>)>>, 0), <<X>>))
  @@ 222 :> InLogicalContext(Replace(TimesOf(<<Is(K, "N")>>, 0), <<Minus(K)>>))

\* A comparison with a constant term on one side, with constant terms or with
\* the same term on both.
TermRules(n, o) ==
     n :> Replace(Pos(o, <<AnyOf("cAdd", <<K>>, 1), L>>), <<AnyOf("cAdd", <<>>, 1), Fun("cSub", <<L, K>>)>>)
  @@ (n + 1) :> Replace(Pos(o, <<AnyOf("cAdd", <<K>>, 1), AnyOf("cAdd", <<L>>, 2)>>),
                        <<AnyOf("cAdd", <<>>, 1), AnyOf("cAdd", <<L, Minus(K)>>, 2)>>)
  @@ (n + 2) :> Replace(Pos(o, <<AnyOf("cAdd", <<X>>, 1), AnyOf("cAdd", <<X>>, 2)>>),
                        <<AnyOf("cAdd", <<>>, 1), AnyOf("cAdd", <<>>, 2)>>)

OfAbs(o, v, new) == Produce(Pos(o, <<Imm(v), Pos("cAbs", <<X>>)>>), new)

ComparisonRules ==
     223 :> Produce(Pos("cEqual", <<Imm(0), X>>), Not(X))
  @@ 224 :> Produce(Pos("cEqual", <<Imm(1), Is(X, "L")>>), X)
  @@ 225 :> Replace(Pos("cEqual", <<Imm(0), Pos("cAbs", <<X>>)>>), <<X, Imm(0)>>)
  @@ TermRules(226, "cEqual")
  @@ 235 :> Produce(Pos("cNEqual", <<Imm(0), X>>), Pos("cNotNot", <<X>>))
  @@ 236 :> Produce(Pos("cNEqual", <<Imm(1), Is(X, "L")>>), Not(X))
  @@ 237 :> Replace(Pos("cNEqual", <<Imm(0), Pos("cAbs", <<X>>)>>), <<X, Imm(0)>>)
  @@ TermRules(238, "cNEqual")
  @@ TermRules(247, "cLess")
  @@ 259 :> OfAbs("cLess", 0, Pos("cNotNot", <<X>>))
  @@ TermRules(260, "cLessOrEq")
  @@ 272 :> OfAbs("cLessOrEq", 1, Pos("cNotNot", <<X>>))
  @@ TermRules(273, "cGreater")
  @@ 285 :> OfAbs("cGreater", 1, Not(X))
  @@ TermRules(286, "cGreaterOrEq")
  @@ 298 :> OfAbs("cGreaterOrEq", 0, Not(X))

\* De Morgan, with the negations as operands and in one branch of an if().
Negations(o, dual) == Replace(AnyOf(o, <<Not(X), Not(Y)>>, 0), <<Not(Sel(dual, <<X, Y>>))>>)
NegatedThen(o, dual) ==
  Replace(AnyOf(o, <<Not(Z), If(X, Not(Y), Is(K, "L"))>>, 0), <<Not(Sel(dual, <<Z, If(X, Y, Not(K))>>))>>)
NegatedElse(o, dual) ==
  Replace(AnyOf(o, <<Not(Z), If(X, Is(K, "L"), Not(Y))>>, 0), <<Not(Sel(dual, <<Z, If(X, Not(K), Y)>>))>>)

\* A number that is not negative is true when it is positive.
Positive(o, abs) == Produce(Pos(o, <<Is(X, "P")>>), Pos(abs, <<X>>))
PositiveGroup(o, abs) == Replace(AnyOf(o, <<Is(X, "P"), Is(Y, "P")>>, 0), <<Sel(abs, <<X, Y>>)>>)

LogicalRules ==
     299 :> Produce(Not(AnyOf("cAdd", <<K>>, 1)), Pos("cEqual", <<Minus(K), AnyOf("cAdd", <<>>, 1)>>))
  @@ 300 :> Positive("cNot", "cAbsNot")
  @@ 301 :> OfIfs("cAnd", LAMBDA p, q : Sel("cAnd", <<p, q>>))
  @@ 302 :> Replace(AnyOf("cAnd", <<Pos("cEqual", <<X, Y>>), Pos("cEqual", <<Y, Z>>), Pos("cEqual", <<X, Z>>)>>, 0),
                    <<Pos("cEqual", <<X, Y>>), Pos("cEqual", <<Y, Z>>)>>)
  @@ 304 :> PositiveGroup("cAnd", "cAbsAnd")
  @@ 305 :> Negations("cAnd", "cOr")
  @@ 306 :> NegatedThen("cAnd", "cOr")
  @@ 307 :> NegatedElse("cAnd", "cOr")
  @@ 308 :> OfIfs("cOr", LAMBDA p, q : Sel("cOr", <<p, q>>))
  @@ 309 :> PositiveGroup("cOr", "cAbsOr")
  @@ 311 :> Negations("cOr", "cAnd")
  @@ 312 :> NegatedThen("cOr", "cAnd")
  @@ 313 :> NegatedElse("cOr", "cAnd")
  @@ 315 :> Produce(Pos("cNotNot", <<AnyOf("cAdd", <<K>>, 1)>>), Pos("cNEqual", <<Minus(K), AnyOf("cAdd", <<>>, 1)>>))
  @@ 316 :> Positive("cNotNot", "cAbsNotNot")
  @@ 317 :> InLogicalContext(Produce(Pos("cNotNot", <<X>>), X))
  @@ 320 :> Produce(Pos("cAbsIf", <<X, Imm(1), Imm(0)>>), Pos("cAbsNotNot", <<X>>))
  @@ 321 :> Produce(Pos("cAbsIf", <<X, Imm(0), Imm(1)>>), Pos("cAbsNot", <<X>>))
  @@ 322 :> Produce(Pos("cAbsIf", <<Pos("cNotNot", <<X>>), Y, Z>>), If(X, Y, Z))
  @@ 323 :> Replace(Pos("cAbsIf", <<Pos("cLessOrEq", <<X, Y>>), Z, A>>), <<Pos("cLess", <<Y, X>>), A, Z>>)

\* Products in a sum or a difference become part of the operation; no factor
\* is 1 or -1.
Factor(p, rest) == RestIs(TimesOf(<<Is(p, "M")>>, rest), "M")
Factors(p, q, rest) == RestIs(TimesOf(<<Is(p, "M"), Is(q, "M")>>, rest), "M")
Negative(rest) == TimesOf(<<Imm(-1)>>, rest)

FusedRules ==
     113 :> Replace(AnyOf("cAdd", <<Factors(X, Y, 1), Z>>, 0), <<Pos("cFma", <<TimesOf(<<X>>, 1), Y, Z>>)>>)
  @@ 116 :> Replace(AnyOf("cAdd", <<Factors(X, Y, 1), Factors(Z, A, 2)>>, 0),
                    <<Pos("cFmma", <<TimesOf(<<X>>, 1), Y, TimesOf(<<Z>>, 2), A>>)>>)
  @@ 117 :> Replace(AnyOf("cAdd", <<AnyOf("cFma", <<Is(X, "M"), Is(Y, "M"), Is(Z, "M")>>, 0), Factor(A, 1)>>, 0),
                    <<Pos("cFmma", <<X, Y, TimesOf(<<Z>>, 1), A>>)>>)
  @@ 165 :> Produce(Pos("cSub", <<Factors(X, Y, 1), Z>>), Pos("cFms", <<TimesOf(<<X>>, 1), Y, Z>>))
  @@ 166 :> Produce(Pos("cSub", <<Factors(X, Y, 1), Factors(Z, A, 2)>>),
                    Pos("cFmms", <<TimesOf(<<X>>, 1), Y, TimesOf(<<Z>>, 2), A>>))
  @@ 167 :> Produce(Pos("cSub", <<AnyOf("cFms", <<Is(X, "M"), Is(Y, "M"), Is(Z, "M")>>, 0), Factor(A, 1)>>),
                    Pos("cFmms", <<X, Y, TimesOf(<<Z>>, 1), A>>))
  @@ 324 :> Produce(Pos("cFma", <<X, Y, Factors(Z, A, 1)>>), Pos("cFmma", <<X, Y, TimesOf(<<Z>>, 1), A>>))
  @@ 325 :> Produce(Pos("cFma", <<X, Y, Negative(1)>>), Pos("cFms", <<X, Y, TimesOf(<<>>, 1)>>))
  @@ 326 :> Produce(Pos("cFms", <<X, Y, K>>), Pos("cFma", <<X, Y, Minus(K)>>))
  @@ 327 :> Produce(Pos("cFms", <<X, Y, Factors(Z, A, 1)>>), Pos("cFmms", <<X, Y, TimesOf(<<Z>>, 1), A>>))
  @@ 328 :> Produce(Pos("cFms", <<X, Y, Negative(1)>>), Pos("cFma", <<X, Y, TimesOf(<<>>, 1)>>))
  @@ 329 :> Produce(Pos("cFmma", <<Negative(1), Z, X, Y>>), Pos("cFmms", <<X, Y, TimesOf(<<>>, 1), Z>>))
  @@ 330 :> Produce(Pos("cFmma", <<Z, Negative(1), X, Y>>), Pos("cFmms", <<X, Y, TimesOf(<<>>, 1), Z>>))
  @@ 331 :> Produce(Pos("cFmma", <<X, Y, Negative(1), Z>>), Pos("cFmms", <<X, Y, TimesOf(<<>>, 1), Z>>))
  @@ 332 :> Produce(Pos("cFmma", <<X, Y, Z, Negative(1)>>), Pos("cFmms", <<X, Y, TimesOf(<<>>, 1), Z>>))
  @@ 333 :> Produce(Pos("cFmms", <<X, Y, K, Z>>), Pos("cFmma", <<X, Y, Z, Minus(K)>>))
  @@ 334 :> Produce(Pos("cFmms", <<X, Y, Negative(1), Z>>), Pos("cFmma", <<X, Y, TimesOf(<<>>, 1), Z>>))
  @@ 335 :> Produce(Pos("cFmms", <<X, Y, Z, K>>), Pos("cFmma", <<X, Y, Z, Minus(K)>>))
  @@ 336 :> Produce(Pos("cFmms", <<X, Y, Z, Negative(1)>>), Pos("cFmma", <<X, Y, TimesOf(<<>>, 1), Z>>))

grammar_rules ==
  cAbsRules @@ cIfRules @@ cMinMaxRules @@ cPowRules @@ cAddRules @@ cMulRules @@ ComparisonRules
  @@ LogicalRules @@ FusedRules

-----------------------------------------------------------------------------
(***************************************************************************)
(* The grammars: the numbers of their rules.                               *)
(***************************************************************************)

shortcut_logical_evaluation ==
  {0, 38, 40, 41, 42, 44, 45, 46, 47, 56, 57, 58, 59, 114, 115, 171, 172, 216, 217, 219, 220, 221,
   222, 223, 224, 225, 235, 236, 237, 259, 272, 285, 298, 299, 301, 302, 305, 306, 307, 308, 311,
   312, 313, 315, 317, 320, 321}
round2 == shortcut_logical_evaluation \cup {86, 87, 173, 218}
round1 == round2 \cup 118..123 \cup {169, 170}
round3 ==
  {61, 64, 169, 170} \cup 118..123 \cup 226..228 \cup 238..240 \cup 247..249 \cup 260..262
  \cup 273..275 \cup 286..288
round4 == {113, 116, 117, 165, 166, 167} \cup 324..336
abslogical == {43, 300, 304, 309, 316, 322, 323}
=============================================================================
