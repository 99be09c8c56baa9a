------------------------------ MODULE Compiler ------------------------------
(***************************************************************************)
(* ParseFunction() and the Compile* functions: one pass over the text that *)
(* recognises it and emits byte code through the peephole optimizer, in    *)
(* the build for long (FunctionParser_li).  The power operator does not    *)
(* exist there, and only division by 1/x makes a cInv.                     *)
(*                                                                         *)
(* A text is a sequence of tokens, written with spaces between them; a     *)
(* position in it counts tokens.  The parser has the variables x and y, no *)
(* constants, units or user functions and no delimiter; x and y are the    *)
(* names that are known, InlineNames those that the text may introduce.    *)
(*                                                                         *)
(* The specification types a text token by token, and keeps on typing only *)
(* what can still become a legal text; every text typed is compiled.       *)
(***************************************************************************)
EXTENDS Peephole

CONSTANTS
  Grammars,    \* what texts are typed from: [prefix, tokens, length]
  Points       \* the arguments <<x, y>> that a function is evaluated for

VARIABLES
  grammar,     \* what this text is typed from
  text,        \* the text
  out          \* what ParseFunction made of it

vars == <<grammar, text, out>>

-----------------------------------------------------------------------------
(***************************************************************************)
(* Tokens.                                                                 *)
(***************************************************************************)

LiteralValue == [t \in {"0", "1", "2", "5"} |->
                   CASE t = "0" -> 0 [] t = "1" -> 1 [] t = "2" -> 2 [] t = "5" -> 5]
VariableByte == [t \in {"x", "y"} |-> IF t = "x" THEN VarBegin ELSE VarBegin + 1]
InlineNames == {"a"}

\* The built-in functions, with the number of their parameters.
FunctionParams == [t \in {"abs", "min", "max"} |-> IF t = "abs" THEN 1 ELSE 2]
FunctionOpcode == [t \in {"abs", "min", "max"} |->
                     CASE t = "abs" -> "cAbs" [] t = "min" -> "cMin" [] t = "max" -> "cMax"]

ComparisonOpcode ==
  [t \in {"=", "!=", "<", "<=", ">", ">="} |->
     CASE t = "=" -> "cEqual"  [] t = "!=" -> "cNEqual"
       [] t = "<" -> "cLess"   [] t = "<=" -> "cLessOrEq"
       [] t = ">" -> "cGreater" [] t = ">=" -> "cGreaterOrEq"]

Tokens == UNION {DOMAIN LiteralValue, DOMAIN VariableByte, InlineNames,
                 DOMAIN FunctionParams, DOMAIN ComparisonOpcode,
                 {"if", "(", ")", ",", "-", "+", "!", "*", "/", "%", "&", "|", ":=", ";"}}

ASSUME CompilerAssumption ==
  /\ \A g \in Grammars : /\ g.prefix \in Seq(Tokens)
                         /\ g.tokens \subseteq Tokens
                         /\ g.length \in Nat
  /\ Points \subseteq Int \X Int

-----------------------------------------------------------------------------
(***************************************************************************)
(* A compilation: the text, the position of the pointer `function`, the    *)
(* byte code, mImmed, mStackPtr, mStackSize, mInlineVarNames, the error    *)
(* type ("" for none) and its location, mHasByteCodeFlags, and two things  *)
(* that are only observed: the rules that were used, and whether the       *)
(* optimizer read bytes before the byte code.                              *)
(***************************************************************************)

Fresh(t) ==
  [text |-> t, p |-> 1, code |-> <<>>, imm |-> <<>>, sp |-> 0, size |-> 0,
   inl |-> <<>>, err |-> "", at |-> 0, flags |-> FALSE, used |-> {}, outside |-> FALSE]

TokenAt(s, p) == IF p <= Len(s.text) THEN s.text[p] ELSE "end"
Tok(s) == TokenAt(s, s.p)
Skip(s) == [s EXCEPT !.p = @ + 1]
Fail(s, e) == [s EXCEPT !.err = e, !.at = s.p]

\* What follows a call only happens when the call did not return 0.
Then(s, Next_(_)) == IF s.err # "" THEN s ELSE Next_(s)

\* Mutant: the token is skipped before it is looked at.
ExpectedBehind(s, t, e) ==
  IF s.err # "" THEN s ELSE IF Tok(s) = t THEN Skip(s) ELSE Fail(Skip(s), e)

\* Wants token t here, or else fails with e.
Expect(s, t, e) == IF s.err # "" THEN s ELSE IF Tok(s) = t THEN Skip(s) ELSE Fail(s, e)

noCommaError(s) == IF Tok(s) = ")" THEN "illegal_parameters_amount" ELSE "syntax_error"
noParenthError(s) == IF Tok(s) = "," THEN "illegal_parameters_amount" ELSE "missing_parenthesis"

Back(s) == Name(Last(s.code))
PushByte(s, b) == [s EXCEPT !.code = Append(@, b)]
PopByte(s) == [s EXCEPT !.code = Front(@)]

\* Mutant: the bit is not set.
Unguarded(v) == v

\* Guards a parameter, or the last byte of an if(), against the optimizer.
Guarded(v) == IF v >= FP_ParamGuardMask THEN v ELSE v + FP_ParamGuardMask
PushGuardedParam(s, v) == [PushByte(s, Guarded(v)) EXCEPT !.flags = TRUE]

AddOpcode(s, o) == AddFunctionOpcode(s, Number[o])
AddBinary(s, o) == [AddOpcode(s, o) EXCEPT !.sp = @ - 1]
PushImmed(s, v) == incStackPtr(AddImmedOpcode(s, v), 1)

\* The byte code ends with an immediate and opcode o.
EndsWith(s, o) == Back(s) = o /\ Name(s.code[Len(s.code) - 1]) = "cImmed"

\* Takes n bytes and an immediate back (FP_TRACE_BYTECODE_RETRACT).
Retract(s, n) == [s EXCEPT !.code = SubSeq(@, 1, Len(@) - n), !.imm = Front(@)]

RECURSIVE CompileExpression(_), CompileUnaryMinus(_), Parameters(_, _)

-----------------------------------------------------------------------------
(***************************************************************************)
(* Elements.                                                               *)
(***************************************************************************)

CompileVariable(s, b) ==
  incStackPtr(Skip(PushByte(s, IF s.code # <<>> /\ Last(s.code) = b THEN Number["cDup"] ELSE b)), 1)

\* An inline variable: its value is on the stack; the last of that name counts.
CompileInline(s, i) ==
  LET fetch == s.inl[i].fetch
      pushed == IF fetch + 1 = s.sp THEN PushByte(s, Number["cDup"])
                ELSE PushGuardedParam(PushByte(s, Number["cFetch"]), fetch)
  IN incStackPtr(Skip(pushed), 1)

\* Mutant: a parenthesis may be left open.
CompileOpenParenthesis(s) ==
  IF TokenAt(s, s.p + 1) = ")" THEN Fail(Skip(s), "empty_parentheses")
  ELSE Then(CompileExpression(Skip(s)), LAMBDA t : IF Tok(t) = ")" THEN Skip(t) ELSE t)

\* ( expression ).
CompileParenthesis(s) ==
  IF TokenAt(s, s.p + 1) = ")" THEN Fail(Skip(s), "empty_parentheses")
  ELSE Expect(CompileExpression(Skip(s)), ")", "missing_parenthesis")

\* n more parameters, each after a comma.
Parameters(s, n) ==
  IF s.err # "" \/ n = 0 THEN s
  ELSE IF Tok(s) # "," THEN Fail(s, noCommaError(s))
  ELSE Parameters(CompileExpression(Skip(s)), n - 1)

\* The first parameter has been compiled; s is what comes before it.
OtherParams(s, first, requiredParams) ==
  IF first.err # "" /\ TokenAt(s, s.p + 1) = ")"
    THEN [first EXCEPT !.err = "illegal_parameters_amount", !.at = s.p + 1]
    ELSE Then(Parameters(first, requiredParams - 1), LAMBDA t :
           Expect([t EXCEPT !.sp = @ - (requiredParams - 1)], ")", noParenthError(t)))

CompileFunctionParams(s, requiredParams) ==
  IF Tok(s) # "(" THEN Fail(s, "missing_parenthesis_after_function")
  ELSE OtherParams(s, CompileExpression(Skip(s)), requiredParams)

\* if(condition, then, else): the parameters of the jumps are set at the end,
\* and the last byte is guarded so that no rule changes one of the branches.
CompileIf(s) ==
  IF Tok(s) # "(" THEN Fail(s, "missing_parenthesis_after_function")
  ELSE
  Then(CompileExpression(Skip(s)), LAMBDA c :
    IF Tok(c) # "," THEN Fail(c, noCommaError(c))
    ELSE
    LET bare == IF Back(c) = "cNotNot" THEN PopByte(c) ELSE c
        opcode == IF IsNeverNegativeValueOpcode(Last(bare.code)) THEN "cAbsIf" ELSE "cIf"
        jump(t, o) == [PushGuardedParam(PushByte(PushByte(t, Number[o]), 0), 0) EXCEPT !.sp = @ - 1]
        curByteCodeSize == Len(bare.code) + 1
    IN Then(CompileExpression(Skip(jump(bare, opcode))), LAMBDA t :
         IF Tok(t) # "," THEN Fail(t, noCommaError(t))
         ELSE
         LET curByteCodeSize2 == Len(t.code) + 1
         IN Then(CompileExpression(Skip(jump(t, "cJump"))), LAMBDA e :
              IF Tok(e) # ")" THEN Fail(e, noParenthError(e))
              ELSE [Skip(e) EXCEPT
                      !.flags = TRUE,
                      !.code = [e.code EXCEPT ![Len(e.code)] = Guarded(@),
                                              ![curByteCodeSize + 1] = curByteCodeSize2 + 1,
                                              ![curByteCodeSize + 2] = Len(t.imm),
                                              ![curByteCodeSize2 + 1] = Len(e.code) - 1,
                                              ![curByteCodeSize2 + 2] = Len(e.imm)]])))

CompileFunction(s, f) ==
  Then(CompileFunctionParams(s, FunctionParams[f]), LAMBDA t : AddOpcode(t, FunctionOpcode[f]))

CompileElement(s) ==
  LET t == Tok(s)
      named == {i \in DOMAIN s.inl : s.inl[i].name = t}
  IN CASE t \in DOMAIN LiteralValue -> Skip(PushImmed(s, LiteralValue[t]))
       [] t \in DOMAIN VariableByte -> CompileVariable(s, VariableByte[t])
       [] t \in DOMAIN FunctionParams   -> CompileFunction(Skip(s), t)
       [] t = "if"                  -> CompileIf(Skip(s))
       [] t = "("                   -> CompileParenthesis(s)
       [] t = ")"                   -> Fail(s, "mismatched_parenthesis")
       [] t \in InlineNames /\ named # {} -> CompileInline(s, Max(named))
       [] t \in InlineNames /\ named = {} -> Fail(s, "unknown_identifier")
       [] OTHER -> Fail(s, "syntax_error")

CompileUnaryMinus(s) ==
  IF Tok(s) \in {"-", "!"}
    THEN Then(CompileUnaryMinus(Skip(s)), LAMBDA t : AddOpcode(t, IF Tok(s) = "-" THEN "cNeg" ELSE "cNot"))
    ELSE CompileElement(s)

-----------------------------------------------------------------------------
(***************************************************************************)
(* Products and sums.  A constant factor or term is taken out of the byte  *)
(* code into pending_immed, and put back once at the end.                  *)
(***************************************************************************)

FlushFactor(s, pending_immed) ==
  IF pending_immed = 1 THEN s ELSE AddBinary(PushImmed(s, pending_immed), "cMul")

FlushTerm(s, pending_immed) ==
  IF pending_immed = 0 THEN s
  ELSE LET negated == Back(s) = "cNeg"
       IN AddBinary(PushImmed(IF negated THEN PopByte(s) ELSE s, pending_immed),
                    IF negated THEN "cRSub" ELSE "cAdd")

\* Takes the constant of `5 o` at the end out.
TakeOut(s, o) == IF EndsWith(s, o) THEN Retract(s, 2) ELSE s
TakenOut(s, o, nothing) == IF EndsWith(s, o) THEN Last(s.imm) ELSE nothing

RECURSIVE MoreFactors(_, _), MoreTerms(_, _)

\* s is what comes before the operator, t what comes after the operand.
Modulo(t) == MoreFactors(AddBinary(t, "cMod"), 1)

\* The left operand was the constant itself.
FactorOfImmed(t, c, immed, pending_immed) ==
  MoreFactors(IF c = "/" THEN AddOpcode(t, "cInv") ELSE t, pending_immed * immed)

Factor(s, t, pending_immed) ==
  MoreFactors(AddBinary(TakeOut(t, "cMul"), "cMul"),
              pending_immed * TakenOut(s, "cMul", 1) * TakenOut(t, "cMul", 1))

Division(t) == MoreFactors(AddBinary(t, "cDiv"), 1)

\* safe_cumulation: a product of constants may wait, a quotient may not.
OneFactor(s, c, pending_immed) ==
  LET isImmed == Back(s) = "cImmed" /\ (c = "*" \/ (c = "/" /\ Last(s.imm) = 1))
      left == CASE isImmed -> [Retract(s, 1) EXCEPT !.sp = @ - 1]
                [] ~isImmed /\ c = "*" -> TakeOut(s, "cMul")
                [] OTHER -> s
  IN Then(CompileUnaryMinus(Skip(left)), LAMBDA t :
       CASE isImmed -> FactorOfImmed(t, c, Last(s.imm), pending_immed)
         [] ~isImmed /\ c = "*" -> Factor(s, t, pending_immed)
         [] ~isImmed /\ c = "/" -> Division(t)
         [] c = "%" -> Modulo(t))

\* Before a division the constant is put back.
Settled(s, pending_immed) == IF Tok(s) = "*" THEN s ELSE FlushFactor(s, pending_immed)

MoreFactors(s, pending_immed) ==
  IF Tok(s) \in {"*", "/", "%"}
    THEN OneFactor(Settled(s, pending_immed), Tok(s), IF Tok(s) = "*" THEN pending_immed ELSE 1)
    ELSE FlushFactor(s, pending_immed)

CompileMult(s) == Then(CompileUnaryMinus(s), LAMBDA t : MoreFactors(t, 1))

NegatedIf(negated, s) == IF negated THEN AddOpcode(s, "cNeg") ELSE s

\* The left operand is the constant itself.
TermAfterImmed(s, c, pending_immed) ==
  Then(CompileMult(Skip([Retract(s, 1) EXCEPT !.sp = @ - 1])), LAMBDA t :
    MoreTerms(NegatedIf(c = "-", t), pending_immed + Last(s.imm)))

\* (:::) c (...), where each side may have had a constant taken out of it, the
\* left side may have been negated, and the right side may have been reversed.
Term(s, c, pending_immed) ==
  LET left == TakeOut(s, "cAdd")
      lhs_negated == Back(left) = "cNeg"
      opposite == IF c = "+" THEN "-" ELSE "+"
  IN Then(CompileMult(Skip(IF lhs_negated THEN PopByte(left) ELSE left)), LAMBDA t :
       LET reversed == EndsWith(t, "cRSub")
           right == IF reversed THEN Retract(t, 2) ELSE TakeOut(t, "cAdd")
           constant == TakenOut(t, IF reversed THEN "cRSub" ELSE "cAdd", 0)
           sign == IF reversed THEN opposite ELSE c
           sum == AddBinary(right, CASE ~lhs_negated /\ sign = "-" -> "cSub"
                                     [] lhs_negated /\ sign = "+" -> "cRSub"
                                     [] OTHER -> "cAdd")
       IN MoreTerms(NegatedIf(lhs_negated /\ sign = "-", sum), pending_immed + TakenOut(s, "cAdd", 0)
                         + (IF c = "+" THEN constant ELSE -constant)))

MoreTerms(s, pending_immed) ==
  LET c == Tok(s)
  IN CASE c \in {"+", "-"} /\ Back(s) = "cImmed" -> TermAfterImmed(s, c, pending_immed)
       [] c \in {"+", "-"} /\ Back(s) # "cImmed" -> Term(s, c, pending_immed)
       [] OTHER -> FlushTerm(s, pending_immed)

CompileAddition(s) == Then(CompileMult(s), LAMBDA t : MoreTerms(t, 0))

-----------------------------------------------------------------------------
(***************************************************************************)
(* Comparisons, &, |, inline variables and the whole text.                 *)
(***************************************************************************)

RECURSIVE Compared(_, _), Ands(_, _), Ors(_, _), Compile(_)

\* One operand, the opcode of the operator before it if there is one, and the
\* rest of the operands.
MoreComparisons(s) ==
  IF Tok(s) \in DOMAIN ComparisonOpcode THEN Compared(Skip(s), ComparisonOpcode[Tok(s)]) ELSE s

Compared(s, op) ==
  Then(CompileAddition(s), LAMBDA t :
    MoreComparisons(IF op = "" THEN t ELSE AddBinary(t, op)))

CompileComparison(s) == Compared(s, "")

\* The right operand of & and of | needs no cNotNot.
AddLogical(s, o) == AddBinary(IF Back(s) = "cNotNot" THEN PopByte(s) ELSE s, o)

MoreAnd(s) == IF Tok(s) = "&" THEN Ands(Skip(s), "cAnd") ELSE s

Ands(s, op) ==
  Then(CompileComparison(s), LAMBDA t : MoreAnd(IF op = "" THEN t ELSE AddLogical(t, op)))

CompileAnd(s) == Ands(s, "")

MoreOr(s) == IF Tok(s) = "|" THEN Ors(Skip(s), "cOr") ELSE s

Ors(s, op) ==
  Then(CompileAnd(s), LAMBDA t : MoreOr(IF op = "" THEN t ELSE AddLogical(t, op)))

CompileExpression(s) == Ors(s, "")

IsDefinition(s) == Tok(s) \in InlineNames /\ TokenAt(s, s.p + 1) = ":="

Compile(s) ==
  Then(CompileExpression(IF IsDefinition(s) THEN Skip(Skip(s)) ELSE s), LAMBDA t :
    IF ~IsDefinition(s) \/ Tok(t) # ";" THEN t
    ELSE Compile([Skip(t) EXCEPT !.inl = Append(@, [name |-> Tok(s), fetch |-> t.sp - 1])]))

\* What ends the byte code must end the text.
Ended(s) == IF s.err = "" /\ s.p <= Len(s.text) THEN Fail(s, "expect_operator") ELSE s

\* The guards are taken off the parameters.
Unmask(s) ==
  IF s.flags THEN [s EXCEPT !.code = [i \in DOMAIN @ |-> @[i] % FP_ParamGuardMask]] ELSE s

\* Mutant: the guards stay in the byte code.
ParseKeepingGuards(t) == Ended(Compile(Fresh(t)))

ParseFunction(t) == Ended(Unmask(Compile(Fresh(t))))

-----------------------------------------------------------------------------
(***************************************************************************)
(* The specification.                                                      *)
(***************************************************************************)

Init ==
  /\ grammar \in Grammars
  /\ text = grammar.prefix
  /\ out = ParseFunction(grammar.prefix)

\* The text is legal, ends too early, or ends with a name that := may follow.
Viable ==
  \/ out.err = ""
  \/ out.at > Len(text)
  \/ out.err = "unknown_identifier" /\ out.at = Len(text)

Type(t) ==
  /\ Viable
  /\ Len(text) < grammar.length
  /\ text' = Append(text, t)
  /\ out' = ParseFunction(text')
  /\ UNCHANGED grammar

Next == \E t \in grammar.tokens : Type(t)

Spec == Init /\ [][Next]_vars

-----------------------------------------------------------------------------
(***************************************************************************)
(* Properties.                                                             *)
(***************************************************************************)

M == INSTANCE Meaning

Accepted == out.err = ""
Reference(q) == M!Meaning(text, [x |-> M!Value(q[1]), y |-> M!Value(q[2])])
Evaluated(q) == Eval(out.code, out.imm, q)

\* bytecoderules.dat:364 computes (:::) - (...) + x as x - (:::) - (...), and
\* does not count the stack that it needs (Findings in README.md).
WrongRules == {364}

\* The rules that peel an operand which is not the last one of a divisor off a
\* product with 0, and can leave a divisor that is 0 where none was.
PeelingRules == {94, 97, 98, 99, 108, 109} \cup 114..119

\* ParseFunction leaves no guarded byte: what Eval reads as an opcode is one,
\* and there is one stack cell for the result and for each inline variable.
TypeOK ==
  /\ grammar \in Grammars /\ text \in Seq(Tokens)
  /\ Accepted => /\ out.code \in Seq(0 .. FP_ParamGuardMask - 1)
                 /\ out.imm \in Seq(Int)
                 /\ out.sp = 1 + Len(out.inl)

\* Parse accepts exactly the texts that have a meaning.
AcceptsGrammar == Accepted <=> \E q \in Points : Reference(q).kind # "invalid"

\* The location of an error is at the token that no legal text has there, or
\* behind a text that ends too early: never before it, but for a name that
\* turns out to be unknown when no := follows it.
LocatesError ==
  ~Accepted => \/ out.at \in {Len(text), Len(text) + 1}
               \/ out.err = "unknown_identifier" /\ out.at = Len(text) - 1

\* The byte code computes what the text means: no rule of the optimizer, no
\* constant taken out of a sum or a product, no jump changes a value.
EveryRuleKeepsValues ==
  Accepted =>
    \A q \in Points :
      Evaluated(q).status = "done" /\ Reference(q).kind = "value"
        => Top(Evaluated(q).st) = Reference(q).v

\* The same, for texts that do not use a rule known to be wrong.
KeepsValues == out.used \cap WrongRules = {} => EveryRuleKeepsValues

\* Eval reports a division by zero only when the text divides by zero.
EveryRuleKeepsDefined ==
  Accepted => \A q \in Points :
                Reference(q).kind = "value" => Evaluated(q).status # "division"

\* The same, for texts that do not use a rule that peels below an operator.
KeepsDefined == out.used \cap PeelingRules = {} => EveryRuleKeepsDefined

\* mStackSize, computed while compiling, is enough for every evaluation, and
\* Eval never reads below the stack, beyond mImmed or a parameter as an opcode.
StackSuffices ==
  Accepted /\ out.used \cap WrongRules = {} =>
    \A q \in Points : Evaluated(q).status # "corrupt" /\ Evaluated(q).peak <= out.size

\* Whatever branches were taken, Eval ends with the result and the inline
\* variables on the stack and with every immediate behind it.
EndsEven ==
  Accepted =>
    \A q \in Points :
      LET m == Evaluated(q)
      IN m.status = "done" => Len(m.st) = out.sp /\ m.dp = Len(out.imm)

\* The optimizer looks at no byte before the byte code.
ReadsInside == ~out.outside

=============================================================================
