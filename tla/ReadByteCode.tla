---------------------------- MODULE ReadByteCode ----------------------------
(***************************************************************************)
(* GenerateFrom(): the tree that byte code computes, in the build for long *)
(* and without calls.  The byte code is run on a stack of trees; both      *)
(* branches of an if() are read, one after the other.                      *)
(*                                                                         *)
(* A reading r has the index ip of the next byte and dp of the last        *)
(* immediate used, the stack st (CodeTreeParserData) with what remains to  *)
(* be done to it, and the if()s that are open, each with its condition,    *)
(* its first branch once that has been read, and the number of bytes       *)
(* before its end.                                                         *)
(***************************************************************************)
EXTENDS Folding

-----------------------------------------------------------------------------
(***************************************************************************)
(* Powers and multiples: a run of squares, copies and products, or of      *)
(* copies, sums and negations, is one factor.  A run q has the index of    *)
(* the next byte, the factor so far, and the stack of factors.             *)
(***************************************************************************)

iseq_powi == [square |-> "cSqr", cumulate |-> "cMul", invert |-> "cInv"]
iseq_muli == [square |-> "none", cumulate |-> "cAdd", invert |-> "cNeg"]

RECURSIVE ParsePowiMuli(_, _, _, _, _)

\* A copy of `factor`, what is made of it, and the product or sum of both.
Copied(opcodes, code, limit, base, q, factor, length) ==
  LET sub == ParsePowiMuli(opcodes, code, limit, base,
               [ip |-> q.ip + length, result |-> 1, stack |-> Append(q.stack, q.result)])
  IN IF sub.ip > limit \/ Name(code[sub.ip]) # opcodes.cumulate THEN q
     ELSE ParsePowiMuli(opcodes, code, limit, base,
            [ip |-> sub.ip + 1, result |-> q.result + factor * sub.result,
             stack |-> Front(sub.stack)])

ParsePowiMuli(opcodes, code, limit, base, q) ==
  LET o == Name(code[q.ip])
      index == code[q.ip + 1] - base + 1
      next(result) == ParsePowiMuli(opcodes, code, limit, base,
                        [q EXCEPT !.ip = @ + 1, !.result = result])
  IN CASE q.ip > limit -> q
       [] q.ip <= limit /\ o = opcodes.square -> next(2 * q.result)
       [] q.ip <= limit /\ o = opcodes.invert -> next(-q.result)
       [] q.ip <= limit /\ o = "cFetch" ->
            IF index \in DOMAIN q.stack
              THEN Copied(opcodes, code, limit, base, q, q.stack[index], 2) ELSE q
       [] q.ip <= limit /\ o = "cDup" -> Copied(opcodes, code, limit, base, q, q.result, 1)
       [] OTHER -> q

-----------------------------------------------------------------------------
(***************************************************************************)
(* What is done to the stack of trees, as a sequence of steps.             *)
(***************************************************************************)

\* One tree is made of the last n ones; a constant is pushed; the last tree and
\* the one at place n from the end change places.
Eat(n, o) == [step |-> "eat", n |-> n, op |-> o]
AddConst(v) == [step |-> "const", n |-> v, op |-> ""]
Swap(n) == [step |-> "swap", n |-> n, op |-> ""]

DoStep(st, a) ==
  CASE a.step = "const" -> Append(st, CodeTreeImmed(a.n))
    [] a.step = "swap" -> [st EXCEPT ![Len(st)] = st[Len(st) + 1 - a.n], ![Len(st) + 1 - a.n] = Top(st)]
    [] a.step = "eat" -> Append(Pop(st, a.n), Rehash(a.op, SubSeq(st, Len(st) - a.n + 1, Len(st))))

\* Minus is negative adding.
Subtract == <<AddConst(-1), Eat(2, "cMul"), Eat(2, "cAdd")>>

\* The product below the last tree.
MultiplyBelow == <<Swap(3), Eat(2, "cMul")>>

\* The steps for an opcode without parameters.
Operate(o) ==
  CASE o = "cInv"  -> <<AddConst(1), Swap(2), Eat(2, "cDiv")>>
    [] o = "cSqr"  -> <<AddConst(2), Eat(2, "cPow")>>
    [] o = "cSub"  -> Subtract
    [] o = "cRSub" -> <<Swap(2)>> \o Subtract
    [] o = "cRDiv" -> <<Swap(2), Eat(2, "cDiv")>>
    [] o = "cFma"  -> MultiplyBelow \o <<Eat(2, "cAdd")>>
    [] o = "cFmma" -> <<Eat(2, "cMul")>> \o MultiplyBelow \o <<Eat(2, "cAdd")>>
    [] o = "cFms"  -> MultiplyBelow \o <<Swap(2)>> \o Subtract
    [] o = "cFmms" -> <<Eat(2, "cMul")>> \o MultiplyBelow \o <<Swap(2)>> \o Subtract
    [] IsUnaryOpcode(Number[o]) /\ o \notin {"cInv", "cSqr"} -> <<Eat(1, o)>>
    [] IsBinaryOpcode(Number[o]) /\ o \notin {"cSub", "cRSub", "cRDiv"} -> <<Eat(2, o)>>

-----------------------------------------------------------------------------
(***************************************************************************)
(* One turn of the loop.                                                   *)
(***************************************************************************)

\* An if() ends at its end, or where the if() around it goes on to its second
\* branch (the jumps of both lead to the same place then).
EndsHere(r, code) ==
  /\ r.ifs # <<>>
  /\ \/ Last(r.ifs).endif = r.ip - 1
     \/ r.ip <= Len(code) /\ Name(code[r.ip]) = "cJump" /\ Last(r.ifs).thenbranch # <<>>

EndIf(r) ==
  LET i == Last(r.ifs)
  IN [r EXCEPT !.st = Pop(@, 1) \o <<i.condition>> \o i.thenbranch \o <<Top(@)>>,
               !.do = <<Eat(3, "cIf")>>, !.ifs = Front(@)]

\* The condition is kept until the if() ends.
BeginIf(r, code) ==
  [r EXCEPT !.ip = @ + 3, !.st = Pop(@, 1),
            !.ifs = Append(@, [condition |-> Top(r.st), thenbranch |-> <<>>, endif |-> Len(code)])]

\* The first branch has been read.
SecondBranch(r, code) ==
  [r EXCEPT !.ip = @ + 3, !.st = Pop(@, 1),
            !.ifs = Append(Front(@), [Last(@) EXCEPT !.thenbranch = <<Top(r.st)>>,
                                                     !.endif = code[r.ip + 1] + 1])]

\* A run that starts at index ip, within the bytes of this branch.
RunFrom(ip, r, code, opcodes) ==
  ParsePowiMuli(opcodes, code, IF r.ifs = <<>> THEN Len(code) ELSE Last(r.ifs).endif,
                Len(r.st) - 1, [ip |-> ip, result |-> 1, stack |-> <<1>>])

ReadOpcode(r, code, immed) ==
  LET b == code[r.ip]
      o == Name(b)
      push(t, length) == [r EXCEPT !.ip = @ + length, !.st = Append(@, t)]
  IN CASE IsVarOpcode(b) -> push(CodeTreeVar(b - VarBegin + 1), 1)
       [] o = "cImmed" -> [push(CodeTreeImmed(immed[r.dp + 1]), 1) EXCEPT !.dp = @ + 1]
       [] o = "cDup" -> push(Top(r.st), 1)
       [] o = "cFetch" -> push(r.st[code[r.ip + 1] + 1], 2)
       [] o = "cPopNMov" ->
            [r EXCEPT !.ip = @ + 3, !.st = Append(SubSeq(@, 1, code[r.ip + 1]), @[code[r.ip + 2] + 1])]
       [] o \in Ifs -> BeginIf(r, code)
       [] o = "cJump" -> SecondBranch(r, code)
       [] OTHER -> [r EXCEPT !.ip = @ + 1, !.do = Operate(o)]

\* The run becomes a power or a multiple of the last tree.
ReadRun(r, q, o) == [r EXCEPT !.ip = q.ip, !.do = <<AddConst(q.result), Eat(2, o)>>]

\* A sequence for a multiple goes on where the search for a power stopped.
ReadMultiple(r, code, immed, muli) ==
  IF Name(code[r.ip]) \in {"cDup", "cNeg", "cFetch"} /\ muli.result # 1
    THEN ReadRun(r, muli, "cMul") ELSE ReadOpcode(r, code, immed)

ReadPower(r, code, immed, powi) ==
  IF Name(code[r.ip]) \in {"cSqr", "cDup", "cNeg", "cFetch"} /\ powi.result # 1
    THEN ReadRun(r, powi, "cPow")
    ELSE ReadMultiple(r, code, immed, RunFrom(powi.ip, r, code, iseq_muli))

ReadNext(r, code, immed) == ReadPower(r, code, immed, RunFrom(r.ip, r, code, iseq_powi))

RECURSIVE Read(_, _, _)
Read(r, code, immed) ==
  IF r.do # <<>>
    THEN Read([r EXCEPT !.st = FoldLeft(DoStep, @, r.do), !.do = <<>>], code, immed)
  ELSE IF EndsHere(r, code) THEN Read(EndIf(r), code, immed)
  ELSE IF r.ip > Len(code) THEN r
  ELSE Read(ReadNext(r, code, immed), code, immed)

GenerateFrom(code, immed) ==
  Top(Read([ip |-> 1, dp |-> 0, st |-> <<>>, do |-> <<>>, ifs |-> <<>>], code, immed).st)
=============================================================================
