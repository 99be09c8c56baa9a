------------------------------ MODULE ByteCode ------------------------------
(***************************************************************************)
(* The byte code of a compiled function and how Eval() runs it, in the     *)
(* build for long (FunctionParser_li): no opcode that only works on        *)
(* floating point values occurs in it.  Integers do not overflow here      *)
(* (overflow of long is undefined behaviour).                              *)
(*                                                                         *)
(* A byte is a number, as in the code: an opcode is its position in the    *)
(* enumeration OPCODE, a variable is VarBegin plus its index, and a        *)
(* parameter of a jump or of cFetch is any number, told from an opcode     *)
(* only by the guard that the compiler sets.                               *)
(***************************************************************************)
EXTENDS Integers, Sequences

-----------------------------------------------------------------------------
(***************************************************************************)
(* Opcodes.                                                                *)
(***************************************************************************)

\* enum OPCODE, in its order (with the optimizer, without complex numbers).
OPCODE ==
  << "cAbs", "cAcos", "cAcosh", "cArg", "cAsin", "cAsinh", "cAtan", "cAtan2",
     "cAtanh", "cCbrt", "cCeil", "cConj", "cCos", "cCosh", "cCot", "cCsc",
     "cExp", "cExp2", "cFloor", "cHypot", "cIf", "cImag", "cInt", "cLog",
     "cLog10", "cLog2", "cMax", "cMin", "cPolar", "cPow", "cReal", "cSec",
     "cSin", "cSinh", "cSqrt", "cTan", "cTanh", "cTrunc",
     "cImmed", "cJump", "cNeg", "cAdd", "cSub", "cMul", "cDiv", "cMod",
     "cEqual", "cNEqual", "cLess", "cLessOrEq", "cGreater", "cGreaterOrEq",
     "cNot", "cAnd", "cOr", "cNotNot", "cDeg", "cRad", "cFCall", "cPCall",
     "cPopNMov", "cLog2by", "cNop", "cSinCos", "cSinhCosh",
     "cAbsAnd", "cAbsOr", "cAbsNot", "cAbsNotNot", "cAbsIf",
     "cDup", "cFetch", "cInv", "cSqr", "cRDiv", "cRSub", "cRSqrt",
     "cFma", "cFms", "cFmma", "cFmms" >>

VarBegin == Len(OPCODE)

\* FP_ParamGuardMask: the bit that keeps a byte from being taken for an opcode
\* or a variable (a number above them all here).
FP_ParamGuardMask == 1000

Number == [o \in {OPCODE[i] : i \in 1..Len(OPCODE)} |->
             (CHOOSE i \in 1..Len(OPCODE) : OPCODE[i] = o) - 1]

\* The opcode that a byte is taken for; "" for a variable or a guarded byte.
Name(b) == IF b \in 0 .. VarBegin - 1 THEN OPCODE[b + 1] ELSE ""

IsVarOpcode(b) == b >= VarBegin /\ b < FP_ParamGuardMask

Comparisons == {"cEqual", "cNEqual", "cLess", "cLessOrEq", "cGreater", "cGreaterOrEq"}

IsComparisonOpcode(b) == Name(b) \in Comparisons

Logical == Comparisons \cup {"cAnd", "cAbsAnd", "cOr", "cAbsOr", "cNot", "cAbsNot",
                             "cNotNot", "cAbsNotNot"}

IsLogicalOpcode(b) == Name(b) \in Logical

IsNeverNegativeValueOpcode(b) == Name(b) \in Logical \cup {"cSqr", "cAbs"}

IsUnaryOpcode(b) ==
  Name(b) \in {"cInv", "cNeg", "cNot", "cAbsNot", "cNotNot", "cAbsNotNot", "cSqr", "cAbs"}

IsBinaryOpcode(b) ==
  Name(b) \in Comparisons \cup {"cAdd", "cSub", "cRSub", "cMul", "cDiv", "cRDiv", "cMod", "cAnd",
                                "cAbsAnd", "cOr", "cAbsOr", "cMin", "cMax"}

OppositeComparisonOpcode(o) ==
  CASE o = "cLess"     -> "cGreater"   [] o = "cGreater"     -> "cLess"
    [] o = "cLessOrEq" -> "cGreaterOrEq" [] o = "cGreaterOrEq" -> "cLessOrEq"
    [] OTHER -> o

-----------------------------------------------------------------------------
(***************************************************************************)
(* Arithmetic on long.                                                     *)
(***************************************************************************)

Abs(a) == IF a < 0 THEN -a ELSE a
Truth(p) == IF p THEN 1 ELSE 0

\* a / b and a % b of C++, which round towards zero.
Quotient(a, b) ==
  LET q == Abs(a) \div Abs(b) IN IF (a < 0) = (b < 0) THEN q ELSE -q

fp_mod(a, b) == a - b * Quotient(a, b)

\* What an opcode that takes its operands from the stack computes from them,
\* the deepest first.
Result(o, a) ==
  CASE o = "cAbs"       -> Abs(a[1])
    [] o = "cNeg"       -> -a[1]
    [] o = "cSqr"       -> a[1] * a[1]
    [] o = "cInv"       -> Quotient(1, a[1])
    [] o = "cNot"       -> Truth(a[1] = 0)
    [] o = "cNotNot"    -> Truth(a[1] # 0)
    [] o = "cAbsNot"    -> Truth(~(a[1] > 0))
    [] o = "cAbsNotNot" -> Truth(a[1] > 0)
    [] o = "cAdd"  -> a[1] + a[2]
    [] o = "cSub"  -> a[1] - a[2]
    [] o = "cRSub" -> a[2] - a[1]
    [] o = "cMul"  -> a[1] * a[2]
    [] o = "cDiv"  -> Quotient(a[1], a[2])
    [] o = "cRDiv" -> Quotient(a[2], a[1])
    [] o = "cMod"  -> fp_mod(a[1], a[2])
    [] o = "cMin"  -> IF a[1] < a[2] THEN a[1] ELSE a[2]
    [] o = "cMax"  -> IF a[1] > a[2] THEN a[1] ELSE a[2]
    [] o = "cAnd"  -> Truth(a[1] # 0 /\ a[2] # 0)
    [] o = "cOr"   -> Truth(a[1] # 0 \/ a[2] # 0)
    [] o = "cAbsAnd" -> Truth(a[1] > 0 /\ a[2] > 0)
    [] o = "cAbsOr"  -> Truth(a[1] > 0 \/ a[2] > 0)
    [] o = "cEqual"  -> Truth(a[1] = a[2])
    [] o = "cNEqual" -> Truth(a[1] # a[2])
    [] o = "cLess"   -> Truth(a[1] < a[2])
    [] o = "cLessOrEq"    -> Truth(a[1] <= a[2])
    [] o = "cGreater"     -> Truth(a[1] > a[2])
    [] o = "cGreaterOrEq" -> Truth(a[1] >= a[2])
    [] o = "cFma"  -> a[1] * a[2] + a[3]
    [] o = "cFms"  -> a[1] * a[2] - a[3]
    [] o = "cFmma" -> a[1] * a[2] + a[3] * a[4]
    [] o = "cFmms" -> a[1] * a[2] - a[3] * a[4]

Operands(b) == CASE IsUnaryOpcode(b) -> 1
                 [] IsBinaryOpcode(b) -> 2
                 [] Name(b) \in {"cFma", "cFms"} -> 3
                 [] OTHER -> 4

\* Eval() returns with an error when the divisor is zero.
DividesByZero(o, a) == \/ o \in {"cInv", "cRDiv"} /\ a[1] = 0
                       \/ o \in {"cDiv", "cMod"} /\ a[2] = 0

-----------------------------------------------------------------------------
(***************************************************************************)
(* Eval.  A machine m has the index IP of the next byte (from 1), the      *)
(* index DP of the last immediate that was used, the stack, the largest    *)
(* depth that it had, and "running", "done", "division" (mEvalErrorType 1) *)
(* or "corrupt": a read below the stack or beyond mImmed.                  *)
(***************************************************************************)

Top(st) == st[Len(st)]
Pop(st, n) == SubSeq(st, 1, Len(st) - n)

Pushed(m, v, length) ==
  [m EXCEPT !.st = Append(@, v), !.ip = @ + length,
            !.peak = IF Len(m.st) + 1 > @ THEN Len(m.st) + 1 ELSE @]

\* Mutant: a jump leaves DP alone.
JumpedKeepingDP(m, code, i) == [m EXCEPT !.ip = code[i] + 2]

\* Goes to the byte after the one that the parameters at index i name.
Jumped(m, code, i) == [m EXCEPT !.ip = code[i] + 2, !.dp = code[i + 1]]

\* cIf and cAbsIf: the condition is popped.
Branched(m, code, truth) ==
  LET p == [m EXCEPT !.st = Pop(@, 1)]
  IN IF truth THEN [p EXCEPT !.ip = @ + 3] ELSE Jumped(p, code, m.ip + 1)

\* One turn of the loop.
EvalStep(m, code, immed, vars) ==
  LET b == code[m.ip]
      corrupt == [m EXCEPT !.status = "corrupt"]
      needs(n) == Len(m.st) >= n
  IN CASE IsVarOpcode(b) -> Pushed(m, vars[b - VarBegin + 1], 1)
       [] Name(b) = "cImmed" ->
            IF m.dp < Len(immed)
              THEN Pushed([m EXCEPT !.dp = @ + 1], immed[m.dp + 1], 1)
              ELSE corrupt
       [] Name(b) = "cDup" -> IF needs(1) THEN Pushed(m, Top(m.st), 1) ELSE corrupt
       [] Name(b) = "cFetch" ->
            LET stackOffs == code[m.ip + 1]
            IN IF needs(stackOffs + 1) THEN Pushed(m, m.st[stackOffs + 1], 2) ELSE corrupt
       [] Name(b) = "cPopNMov" ->
            LET target == code[m.ip + 1]
                source == code[m.ip + 2]
            IN IF needs(source + 1) /\ target <= source
                 THEN [m EXCEPT !.st = Append(SubSeq(@, 1, target), @[source + 1]), !.ip = @ + 3]
                 ELSE corrupt
       [] Name(b) = "cIf" ->
            IF needs(1) THEN Branched(m, code, Top(m.st) # 0) ELSE corrupt
       [] Name(b) = "cAbsIf" ->
            IF needs(1) THEN Branched(m, code, Top(m.st) > 0) ELSE corrupt
       [] Name(b) = "cJump" -> Jumped(m, code, m.ip + 1)
       [] b >= FP_ParamGuardMask -> corrupt
       [] OTHER ->
            LET n == Operands(b)
                a == SubSeq(m.st, Len(m.st) - n + 1, Len(m.st))
            IN CASE ~needs(n) -> corrupt
                 [] needs(n) /\ DividesByZero(Name(b), a) -> [m EXCEPT !.status = "division"]
                 [] OTHER -> [m EXCEPT !.st = Append(Pop(@, n), Result(Name(b), a)),
                                       !.ip = @ + 1]

RECURSIVE Continue(_, _, _, _)
Continue(m, code, immed, vars) ==
  IF m.status # "running" THEN m
  ELSE IF m.ip > Len(code) THEN [m EXCEPT !.status = "done"]
  ELSE Continue(EvalStep(m, code, immed, vars), code, immed, vars)

\* The machine when Eval(vars) returns.
Eval(code, immed, vars) ==
  Continue([ip |-> 1, dp |-> 0, st |-> <<>>, peak |-> 0, status |-> "running"],
           code, immed, vars)
=============================================================================
