------------------------------ MODULE Peephole ------------------------------
(***************************************************************************)
(* AddFunctionOpcode(): the byte code optimizer that works while the       *)
(* compiler appends one byte after the other.  Its code                    *)
(* (extrasrc/fp_opcode_add.inc) is generated from util/bytecoderules.dat   *)
(* by util/bytecoderules_parser.cc; Rules gives the rules in the order in  *)
(* which the generated code for long tries them, and the operators below   *)
(* it say what that code does with one.                                    *)
(*                                                                         *)
(* A rule has its line in bytecoderules.dat, the bytes it wants at the end *)
(* of the byte code and what it puts there instead, both in words:         *)
(*   cAbs, cAdd, ...      that opcode                                      *)
(*   x, y, a, b           any cImmed; 0, 1, -1, 2: a cImmed of that value; *)
(*                        #0: of another value; 1/x: of the inverse of x   *)
(*   V, W                 variables; V>1: a variable that is not the only  *)
(*                        byte; S: the same variable as V                  *)
(*   U, B, D, C, L, N     an opcode that is unary, binary (B, D), a        *)
(*                        comparison, logical, never negative; sameU: the  *)
(*                        same opcode as U; notImmed: any byte but cImmed  *)
(*   op                   the byte being added                             *)
(* In what a rule puts, fold is the immediate that the opcode computes     *)
(* from the matched ones, opposite the comparison with its sides swapped,  *)
(* and any other word the value of an immediate; STACKPLUS1 and STACKPLUS2 *)
(* count stack that the new bytes need for a moment.                       *)
(***************************************************************************)
EXTENDS ByteCode, FiniteSets, SequencesExt

R(line, old, new) == [line |-> line, old |-> old, new |-> new]

\* y x cMul -> [y*x] and so on: the opcode itself, applied to the immediates.
Fold1(line) == R(line, <<"x">>, <<"fold">>)
Fold2(line) == R(line, <<"y", "x">>, <<"fold">>)

\* cAdd after a product, a doubling or a negation.
AddProductRules ==
  << R(277, <<"cDup", "cAdd", "V", "cDup", "cAdd">>, <<"STACKPLUS2", "2", "V", "2", "cFmma">>),
     R(275, <<"cMul", "V", "cDup", "cAdd">>, <<"STACKPLUS2", "V", "2", "cFmma">>),
     R(375, <<"cDup", "cAdd", "cDup">>, <<"4", "cMul">>),
     R(376, <<"cDup", "cAdd", "cMul", "cDup">>, <<"cMul", "4", "cMul">>),
     R(378, <<"cDup", "x", "cMul">>, <<"x+1", "cMul">>),
     R(279, <<"cDup", "cAdd", "V", "x", "cMul">>, <<"STACKPLUS2", "2", "V", "x", "cFmma">>),
     R(274, <<"cMul", "V", "x", "cMul">>, <<"STACKPLUS2", "x", "V", "cFmma">>),
     R(271, <<"cMul", "V", "W", "cMul">>, <<"STACKPLUS2", "V", "W", "cFmma">>),
     R(280, <<"cDup", "cAdd", "x", "V", "cMul">>, <<"STACKPLUS2", "2", "V", "x", "cFmma">>),
     R(273, <<"cMul", "x", "V", "cMul">>, <<"STACKPLUS2", "x", "V", "cFmma">>),
     R(235, <<"cNeg">>, <<"cSub">>) >>

\* cAdd after an immediate.
AddImmedRules ==
  << R(155, <<"y", "cAdd", "x">>, <<"y+x", "cAdd">>),
     R(158, <<"y", "cFma", "x">>, <<"y+x", "cFma">>),
     R(270, <<"cMul", "x">>, <<"STACKPLUS1", "x", "cFma">>),
     R(363, <<"y", "cAdd", "cRSub", "x">>, <<"y+x", "cAdd", "cRSub">>),
     R(364, <<"cNeg", "cRSub", "x">>, <<"-x", "cAdd", "cRSub">>),
     R(362, <<"y", "cRSub", "x">>, <<"y+x", "cRSub">>),
     R(357, <<"y", "cAdd", "V", "cSub", "x">>, <<"y+x", "cAdd", "V", "cSub">>),
     R(358, <<"cNeg", "V", "cSub", "x">>, <<"-x", "cAdd", "V", "cSub">>),
     R(356, <<"y", "V", "cSub", "x">>, <<"y+x", "V", "cSub">>), Fold2(128),
     R(60, <<"0">>, <<>>) >>

\* cAdd after a variable or a unary opcode of one.
AddOperandRules ==
  << R(268, <<"cMul", "V">>, <<"STACKPLUS1", "V", "cFma">>),
     R(355, <<"x", "cRSub", "V">>, <<"STACKPLUS1", "V", "x", "cAdd", "cRSub">>),
     R(360, <<"cRSub", "V">>, <<"STACKPLUS1", "V", "cAdd", "cRSub">>),
     R(285, <<"cMul", "V", "U">>, <<"STACKPLUS1", "V", "U", "cFma">>) >>

\* cSub after a product, a doubling or a negation.
SubProductRules ==
  << R(278, <<"cDup", "cAdd", "V", "cDup", "cAdd">>, <<"STACKPLUS2", "2", "V", "-2", "cFmma">>),
     R(276, <<"cMul", "V", "cDup", "cAdd">>, <<"STACKPLUS2", "V", "-2", "cFmma">>),
     R(79, <<"cDup">>, <<"0", "cMul">>),
     R(50, <<"x", "cMul">>, <<"-x", "cMul", "cAdd">>),
     R(53, <<"x", "V", "cMul">>, <<"-x", "V", "cMul", "cSub">>),
     R(272, <<"cMul", "V", "W", "cMul">>, <<"STACKPLUS2", "V", "W", "cFmms">>),
     R(236, <<"cNeg">>, <<"cAdd">>) >>

\* cSub after an immediate, a variable or a unary opcode of one.
SubOperandRules ==
  << R(61, <<"0">>, <<>>), R(159, <<"y", "cFma", "x">>, <<"y-x", "cFma">>),
     Fold2(129), R(49, <<"x">>, <<"-x", "cAdd">>),
     R(269, <<"cMul", "V">>, <<"STACKPLUS1", "V", "cFms">>),
     R(354, <<"x", "cRSub", "V">>, <<"V", "cAdd", "x", "cRSub">>),
     R(361, <<"cRSub", "V">>, <<"STACKPLUS1", "V", "cSub", "cRSub">>),
     R(286, <<"cMul", "V", "U">>, <<"STACKPLUS1", "V", "U", "cFms">>) >>

\* cMul after the same operand, negated.
MulSquareRules ==
  << R(238, <<"cDup">>, <<"cSqr">>),
     R(541, <<"cDup", "cNeg">>, <<"cSqr", "cNeg">>),
     R(547, <<"S", "cMul", "V", "cNeg">>, <<"S", "cSqr", "cMul", "cNeg">>) >>

\* x [x==0] cMul: the operand multiplied by zero is peeled off.
MulZeroRules ==
  << R(96, <<"V", "cMul", "0">>, <<"x", "cMul">>),
     R(95, <<"y", "B", "0">>, <<"x", "cMul">>),
     R(99, <<"y", "D", "B", "0">>, <<"B", "x", "cMul">>),
     R(97, <<"V", "D", "B", "0">>, <<"B", "x", "cMul">>),
     R(98, <<"U", "D", "B", "0">>, <<"D", "B", "x", "cMul">>),
     R(93, <<"V", "B", "0">>, <<"x", "cMul">>),
     R(94, <<"U", "B", "0">>, <<"B", "x", "cMul">>),
     R(91, <<"V", "0">>, <<"x">>), R(92, <<"U", "0">>, <<"x", "cMul">>) >>

\* cMul after an immediate.
MulImmedRules ==
  << R(382, <<"cDup", "cAdd", "x">>, <<"x+x", "cMul">>),
     R(454, <<"V", "y", "cMul", "cAdd", "x">>, <<"x", "cMul", "V", "y*x", "cMul", "cAdd">>),
     R(453, <<"y", "cAdd", "x">>, <<"x", "cMul", "y*x", "cAdd">>),
     R(384, <<"cDup", "cAdd", "cMul", "x">>, <<"cMul", "x+x", "cMul">>),
     R(73, <<"1/x", "cMul", "x">>, <<>>),
     R(156, <<"y", "cMul", "x">>, <<"y*x", "cMul">>),
     R(150, <<"cNeg", "x">>, <<"-x", "cMul">>),
     R(455, <<"V", "y", "cMul", "cSub", "x">>, <<"x", "cMul", "V", "y*x", "cMul", "cSub">>),
     Fold2(125), R(58, <<"1">>, <<>>), R(152, <<"-1">>, <<"cNeg">>),
     R(234, <<"2">>, <<"cDup", "cAdd">>) >>

\* cMul after the same variable, or the same unary opcode of it.
MulVariableRules ==
  << R(544, <<"S", "cNeg", "cMul", "V">>, <<"S", "cSqr", "cMul", "cNeg">>),
     R(535, <<"S", "cMul", "V">>, <<"S", "cSqr", "cMul">>),
     R(538, <<"S", "cNeg", "V">>, <<"S", "cSqr", "cNeg">>),
     R(532, <<"S", "V">>, <<"S", "cSqr">>),
     R(551, <<"S", "sameU", "cMul", "V>1", "U">>, <<"S", "sameU", "cSqr", "cMul">>) >>

\* The absolute value, the negation, the square and the inverse.
SignRules ==
  [ cAbs |->
      << R(237, <<"cNeg">>, <<"cAbs">>), Fold1(168), R(250, <<"N">>, <<"N">>) >>,
    cNeg |->
      << R(151, <<"x", "cMul">>, <<"-x", "cMul">>), R(64, <<"cNeg">>, <<>>),
         Fold1(123) >>,
    cSqr |->
      << R(240, <<"cAbs">>, <<"cSqr">>), R(239, <<"cNeg">>, <<"cSqr">>),
         R(599, <<"C">>, <<"C">>) >>,
    cInv |-> << R(124, <<"#0">>, <<"fold">>) >> ]

\* Mutant: two cNot are taken for one.
NotRulesSwapped ==
  [ cNot    |-> << R(294, <<"cNot">>, <<"cNot">>), R(295, <<"cNotNot">>, <<"cNot">>) >>,
    cNotNot |-> <<>> ]

\* The logical operators of one operand.
NotRules ==
  [ cNot |->
      << R(292, <<"cAbs">>, <<"cNot">>), R(457, <<"L", "cAbsNot">>, <<"L">>),
         R(458, <<"notImmed", "cAbsNot">>, <<"notImmed", "cAbsNotNot">>),
         R(296, <<"cAbsNotNot">>, <<"cAbsNot">>),
         R(498, <<"x", "cAdd">>, <<"-x", "cEqual">>),
         R(265, <<"cEqual">>, <<"cNEqual">>),
         R(263, <<"cGreater">>, <<"cLessOrEq">>),
         R(264, <<"cGreaterOrEq">>, <<"cLess">>),
         R(261, <<"cLess">>, <<"cGreaterOrEq">>),
         R(262, <<"cLessOrEq">>, <<"cGreater">>),
         R(266, <<"cNEqual">>, <<"cEqual">>), R(291, <<"cNeg">>, <<"cNot">>),
         R(294, <<"cNot">>, <<"cNotNot">>), R(295, <<"cNotNot">>, <<"cNot">>),
         Fold1(130), R(459, <<"N">>, <<"N", "cAbsNot">>) >>,
    cNotNot |->
      << R(497, <<"x", "cAdd">>, <<"-x", "cNEqual">>),
         R(297, <<"cNot">>, <<"cNot">>) >> ]

\* The logical operators of two operands, and the extremes.
PairRules ==
  [ cAnd |-> << R(289, <<"cDup">>, <<"cNotNot">>), Fold2(145) >>,
    cOr |-> << R(288, <<"cDup">>, <<"cNotNot">>), Fold2(146) >>,
    cMax |->
      << R(63, <<"cDup">>, <<>>), Fold2(177),
         R(69, <<"S", "cDup", "V">>, <<"S", "cDup">>),
         R(71, <<"S", "cMax", "V">>, <<"S", "cMax">>) >>,
    cMin |->
      << R(62, <<"cDup">>, <<>>), Fold2(176),
         R(68, <<"S", "cDup", "V">>, <<"S", "cDup">>),
         R(70, <<"S", "cMin", "V">>, <<"S", "cMin">>) >> ]

\* Division, remainder and reversed subtraction.
QuotientRules ==
  [ cDiv |->
      << R(81, <<"cDup">>, <<"0", "cMul", "1", "cAdd">>),
         R(153, <<"cNeg", "#0">>, <<"-x", "cDiv">>),
         R(126, <<"y", "#0">>, <<"fold">>), R(59, <<"1">>, <<>>) >>,
    cMod |-> << R(127, <<"y", "#0">>, <<"fold">>) >>,
    cRSub |-> << R(80, <<"cDup">>, <<"0", "cMul">>) >> ]

\* Comparisons for equality.
EqualityRules ==
  [ cEqual |->
      << R(493, <<"L", "1">>, <<"L">>), Fold2(143),
         R(427, <<"cAbs", "0">>, <<"x", "cEqual">>),
         R(429, <<"cSqr", "0">>, <<"x", "cEqual">>),
         R(495, <<"L", "0">>, <<"L", "cNot">>), R(483, <<"0">>, <<"cNot">>) >>,
    cNEqual |->
      << R(494, <<"L", "1">>, <<"L", "cNot">>), Fold2(144),
         R(428, <<"cAbs", "0">>, <<"x", "cNEqual">>),
         R(430, <<"cSqr", "0">>, <<"x", "cNEqual">>),
         R(496, <<"L", "0">>, <<"L">>), R(484, <<"0">>, <<"cNotNot">>) >> ]

\* Comparisons for order.
OrderRules ==
  [ cGreater |->
      << R(485, <<"cAbs", "0">>, <<"cNotNot">>),
         R(489, <<"N", "0">>, <<"N", "cNotNot">>), Fold2(141) >>,
    cGreaterOrEq |->
      << R(486, <<"cAbs", "1">>, <<"cNotNot">>),
         R(490, <<"N", "1">>, <<"N", "cNotNot">>), Fold2(142) >>,
    cLess |->
      << R(366, <<"N", "0">>, <<"N", "0", "cMul">>),
         R(487, <<"cAbs", "1">>, <<"cNot">>),
         R(491, <<"N", "1">>, <<"N", "cNot">>), Fold2(139) >>,
    cLessOrEq |->
      << R(488, <<"cAbs", "0">>, <<"cNot">>),
         R(492, <<"N", "0">>, <<"N", "cNot">>), Fold2(140) >> ]

\* The products with an addition.
FmaRules ==
  [ cFma |->
      << R(281, <<"cNeg">>, <<"cFms">>),
         R(134, <<"y", "x", "a">>, <<"fold">>), R(160, <<"0">>, <<"cMul">>) >>,
    cFms |->
      << R(282, <<"cNeg">>, <<"cFma">>),
         R(135, <<"y", "x", "a">>, <<"fold">>),
         R(51, <<"x">>, <<"-x", "cFma">>) >> ]

\* x [x==0] cFmma and cFmms: the same, for the last operand.
PeelFma(o, n) ==
  << R(112 + n, <<"V", "cMul", "0">>,    <<"x", "cMul", o>>),
     R(110 + n, <<"y", "B", "0">>,       <<"x", "cMul", o>>),
     R(116 + 3 * n, <<"y", "D", "B", "0">>, <<"B", "x", "cMul", o>>),
     R(114 + 3 * n, <<"V", "D", "B", "0">>, <<"B", "x", "cMul", o>>),
     R(115 + 3 * n, <<"U", "D", "B", "0">>, <<"D", "B", "x", "cMul", o>>),
     R(106 + n, <<"V", "B", "0">>,       <<"x", "cMul", o>>),
     R(108 + n, <<"U", "B", "0">>,       <<"B", "x", "cMul", o>>),
     R(102 + n, <<"V", "0">>,            <<"cMul">>),
     R(104 + n, <<"U", "0">>,            <<"x", "cMul", o>>) >>

\* The products with another product.
FmmaRules ==
  << R(283, <<"cNeg">>, <<"cFmms">>) >> \o PeelFma("cFmma", 0) \o
  << R(136, <<"y", "x", "a", "b">>, <<"fold">>),
     R(161, <<"1">>, <<"cFma">>), R(162, <<"-1">>, <<"cFms">>) >>

FmmsRules ==
  << R(284, <<"cNeg">>, <<"cFmma">>) >> \o PeelFma("cFmms", 1) \o
  << R(137, <<"y", "x", "a", "b">>, <<"fold">>),
     R(163, <<"1">>, <<"cFms">>), R(164, <<"-1">>, <<"cFma">>),
     R(52, <<"x">>, <<"-x", "cFmma">>),
     R(54, <<"x", "V">>, <<"-x", "V", "cFmms">>) >>

\* The rules of each opcode that has some.
Rules ==
  [cAdd  |-> AddProductRules \o AddImmedRules \o AddOperandRules,
   cSub  |-> SubProductRules \o SubOperandRules,
   cMul  |-> MulSquareRules \o MulZeroRules \o MulImmedRules \o MulVariableRules,
   cFmma |-> FmmaRules,
   cFmms |-> FmmsRules]
  @@ SignRules @@ NotRules @@ PairRules @@ QuotientRules @@ EqualityRules
  @@ OrderRules @@ FmaRules

\* Mutant: nobody asks how many bytes there are.
CommonRulesUnguarded(b) ==
  CASE IsVarOpcode(b)   -> << R(549, <<"op">>, <<"op", "cDup">>) >>
    [] IsUnaryOpcode(b) -> << R(550, <<"S", "op", "V">>, <<"S", "op", "cDup">>) >>
    [] OTHER -> <<>>

\* The rules at label Default0, for any comparison, variable and unary opcode.
CommonRules(b) ==
  CASE IsComparisonOpcode(b) ->
         << R(432, <<"y", "cAdd", "x">>, <<"x-y", "op">>),
            R(433, <<"cNeg", "x">>, <<"-x", "opposite">>) >>
    [] IsVarOpcode(b)   -> << R(549, <<"op">>, <<"op", "cDup">>) >>
    [] IsUnaryOpcode(b) -> << R(550, <<"S", "op", "V>1">>, <<"S", "op", "cDup">>) >>
    [] OTHER -> <<>>

Row(rows, name) == IF name \in DOMAIN rows THEN rows[name] ELSE <<>>
RulesFor(b) == Row(Rules, Name(b)) \o CommonRules(b)

-----------------------------------------------------------------------------
(***************************************************************************)
(* Matching.  The state s of a compilation has the byte code, the          *)
(* immediates, mStackPtr (sp), mStackSize (size), the rules that were used *)
(* and whether a byte before the byte code was read (outside).             *)
(***************************************************************************)

ImmedWords == {"x", "y", "a", "b", "0", "1", "-1", "2", "#0", "1/x"}

Immeds(old) == {k \in DOMAIN old : old[k] \in ImmedWords}

\* The byte that the k-th word of a rule stands for, when s has that many.
Byte(s, old, k) == s.code[Len(s.code) - Len(old) + k]

\* The immediate that the k-th word stands for.
Immed(s, old, k) == s.imm[Len(s.imm) + 1 - Cardinality({j \in Immeds(old) : j >= k})]

\* The byte that the first of the words stands for.
Bound(s, old, words) ==
  Byte(s, old, CHOOSE k \in DOMAIN old :
                 old[k] \in words /\ \A j \in 1 .. k - 1 : old[j] \notin words)

FitsByte(s, b, old, k) ==
  LET w == old[k]
      c == Byte(s, old, k)
  IN CASE w \in ImmedWords -> Name(c) = "cImmed"
       [] w \in {"V", "W"} -> IsVarOpcode(c)
       [] w = "V>1"        -> IsVarOpcode(c) /\ Len(s.code) > 1
       [] w = "S"          -> c = Bound(s, old, {"V", "V>1"})
       [] w = "U"          -> IsUnaryOpcode(c)
       [] w = "sameU"      -> c = Bound(s, old, {"U"})
       [] w \in {"B", "D"} -> IsBinaryOpcode(c)
       [] w = "C"          -> IsComparisonOpcode(c)
       [] w = "L"          -> IsLogicalOpcode(c)
       [] w = "N"          -> IsNeverNegativeValueOpcode(c)
       [] w = "notImmed"   -> Name(c) # "cImmed"
       [] w = "op"         -> c = b
       [] OTHER            -> Name(c) = w

FitsImmed(s, old, k) ==
  LET v == Immed(s, old, k)
  IN CASE old[k] = "0"   -> v = 0
       [] old[k] = "1"   -> v = 1
       [] old[k] = "-1"  -> v = -1
       [] old[k] = "2"   -> v = 2
       [] old[k] = "#0"  -> v # 0
       [] old[k] = "1/x" -> v * Last(s.imm) = 1
       [] OTHER -> TRUE

\* The bytes that are there agree with the rule, which may want more.
Agrees(s, b, old) ==
  LET there == {k \in DOMAIN old : Len(s.code) - Len(old) + k >= 1}
  IN /\ \A k \in there : FitsByte(s, b, old, k)
     /\ \A k \in there \cap Immeds(old) : FitsImmed(s, old, k)

-----------------------------------------------------------------------------
(***************************************************************************)
(* Replacing.                                                              *)
(***************************************************************************)

\* Mutant: compared before it is counted.
incStackPtrLate(s, by) ==
  [s EXCEPT !.sp = @ + by, !.size = IF s.sp > @ THEN @ + by ELSE @]

\* incStackPtr: the high-water mark grows by what is added.
incStackPtr(s, by) ==
  [s EXCEPT !.sp = @ + by, !.size = IF s.sp + by > @ THEN @ + by ELSE @]

\* Mutant: the top before.
ProducedLate(s, n) ==
  [s EXCEPT !.sp = @ + n, !.size = IF s.sp > @ THEN s.sp ELSE @]

\* The same in the synthesizer: the high-water mark is the top of the stack.
ProducedNParams(s, n) ==
  [s EXCEPT !.sp = @ + n, !.size = IF s.sp + n > @ THEN s.sp + n ELSE @]

\* A rule needs more of the stack for a moment.
Reserve(s, n) ==
  [(IF "known" \in DOMAIN s THEN ProducedNParams(s, n) ELSE incStackPtr(s, n)) EXCEPT !.sp = s.sp]

AddImmedOpcode(s, value) ==
  [s EXCEPT !.imm = Append(@, value), !.code = Append(@, Number["cImmed"])]

\* The value of an immediate that a rule puts; y and x are the last two of
\* those that it matched.
Computed(s, b, old, w) ==
  LET x == Last(s.imm)
      y == s.imm[Len(s.imm) - 1]
      n == Cardinality(Immeds(old))
  IN CASE w = "fold" -> Result(Name(b), SubSeq(s.imm, Len(s.imm) - n + 1, Len(s.imm)))
       [] w = "x"   -> x       [] w = "-x"  -> -x
       [] w = "y+x" -> y + x   [] w = "y-x" -> y - x   [] w = "x-y" -> x - y
       [] w = "y*x" -> y * x   [] w = "x+x" -> x + x   [] w = "x+1" -> x + 1
       [] w = "0" -> 0 [] w = "1" -> 1 [] w = "2" -> 2 [] w = "-2" -> -2 [] w = "4" -> 4

Letters == {"V", "V>1", "W", "S", "U", "sameU", "B", "D", "C", "L", "N", "notImmed"}

\* One word of what a rule puts: [kind, arg].  kept says that the word stands
\* where the rule matched it.
Item(s, b, old, w, kept) ==
  LET byte == CASE w \in Letters -> Bound(s, old, {w})
                [] w = "op"       -> b
                [] w = "opposite" -> Number[OppositeComparisonOpcode(Name(b))]
                [] OTHER          -> Number[w]
  IN CASE w = "STACKPLUS1" -> [kind |-> "stack", arg |-> 1]
       [] w = "STACKPLUS2" -> [kind |-> "stack", arg |-> 2]
       [] w \in Letters \cup {"op", "opposite"} \cup DOMAIN Number ->
            [kind |-> IF kept \/ w = "cDup" THEN "push" ELSE "add", arg |-> byte]
       [] OTHER ->
            [kind |-> "immed", arg |-> IF kept THEN Immed(s, old, CHOOSE k \in DOMAIN old : old[k] = w)
                                       ELSE Computed(s, b, old, w)]

Items(s, b, row) ==
  [k \in DOMAIN row.new |->
     Item(s, b, row.old, row.new[k],
          \A j \in 1..k : j \in DOMAIN row.old /\ row.old[j] = row.new[j])]

Matched(s, row) ==
  [s EXCEPT !.code = SubSeq(@, 1, Len(@) - Len(row.old)),
            !.imm = SubSeq(@, 1, Len(@) - Cardinality(Immeds(row.old))),
            !.used = @ \cup {row.line}]

RECURSIVE AddFunctionOpcode(_, _)

Put(s, item) ==
  CASE item.kind = "push"  -> [s EXCEPT !.code = Append(@, item.arg)]
    [] item.kind = "immed" -> AddImmedOpcode(s, item.arg)
    [] item.kind = "stack" -> Reserve(s, item.arg)
    [] item.kind = "add"   -> AddFunctionOpcode(s, item.arg)

Apply(s, b, row) == FoldLeft(Put, Matched(s, row), Items(s, b, row))

Complete(s, row) == Len(row.old) <= Len(s.code)

\* Uses the first of the rows that is complete; those before it have looked for
\* bytes that are not there.
UseFirst(s, b, rows, first) ==
  LET tried == IF first = 0 THEN rows ELSE SubSeq(rows, 1, first)
      use(read) == IF first = 0 THEN [read EXCEPT !.code = Append(@, b)] ELSE Apply(read, b, rows[first])
  IN use([s EXCEPT !.outside = @ \/ \E row \in ToSet(tried) : ~Complete(s, row)])

UseRow(s, b, rows) == UseFirst(s, b, rows, SelectInSeq(rows, LAMBDA row : Complete(s, row)))

\* The first rule that the byte code agrees with is the one that is used.
AddFunctionOpcode(s, b) ==
  IF s.code = <<>> THEN [s EXCEPT !.code = <<b>>]
  ELSE UseRow(s, b, SelectSeq(RulesFor(b), LAMBDA row : Agrees(s, b, row.old)))
=============================================================================
