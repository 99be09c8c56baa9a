--------------------------- MODULE EvalThreadsProofs ---------------------------
(***************************************************************************)
(* Proofs about EvalThreads: threads that keep apart evaluate as if each   *)
(* of them was alone.                                                      *)
(***************************************************************************)
EXTENDS EvalThreads, RecursionProofs

(***************************************************************************)
(* The inductive invariant: an activation is where Eval() of its parser,   *)
(* alone, is after as many operations.                                     *)
(***************************************************************************)

\* The length of the longest chain of calls a parser makes, or more.
Rank == CHOOSE r \in [Parsers -> 1..MaxDepth] : Ranks(r)

\* SP before each operation of the code of p.
Height(p) ==
  CHOOSE h \in [1..(Len(Code[p]) + 1) -> 0..StackSize] : Heights(Code[p], h)

\* What each parser gives alone.
Given == Level[MaxDepth]

\* The array of the stack of activation i of thread t, which evaluates p.
Owner(safe, t, i, p) == IF safe THEN <<t, i>> ELSE p

\* The operations that an activation has completed.
Done(c) == IF c.checks = NoParser THEN c.ip - 1 ELSE c.ip - 2

ArgumentOf(c, mem) == mem[c.vars.array][c.vars.index]

\* What Eval(), alone, has computed after as many operations, and after one more.
Reached(c, mem) == Run(c.parser, ArgumentOf(c, mem), Given)[Done(c)]
Reaching(c, mem) == Run(c.parser, ArgumentOf(c, mem), Given)[Done(c) + 1]

\* What is on top of the stack of activation i of thread t, c.
Top(safe, t, i, c, mem) == mem[Owner(safe, t, i, c.parser)][c.sp]

Activations ==
  [parser : Parsers, ip : Nat, sp : Nat, vars : [array : Arrays, index : Nat],
   checks : Parsers \cup {NoParser}, retVal : Int]

Outcomes ==
  [parser : Parsers, argument : Int, value : Int, error : Int \cup {Nothing}]

\* The activations of one thread: each is called by the one below it.
ChainOK(s, t, cs) ==
  /\ cs \in Seq(Activations)
  /\ Len(cs) > 0 => cs[1].parser \in s.uses[t]
  /\ \A i \in 1..Len(cs) : /\ cs[i].parser \in Evaluates(s, t)
                           /\ i + Rank[cs[i].parser] <= MaxDepth + 1
  /\ \A i, j \in 1..Len(cs) : i < j => Rank[cs[j].parser] < Rank[cs[i].parser]
  /\ \A i \in 1..Len(cs) :
       cs[i].vars = IF i = 1 THEN [array |-> <<t, 0>>, index |-> 1]
                    ELSE [array |-> Owner(s.threadSafe, t, i - 1, cs[i - 1].parser),
                          index |-> cs[i - 1].sp]
  /\ \A i \in 1..Len(cs) : i < Len(cs) => cs[i].checks = cs[i + 1].parser

\* Activation i of thread t has the stack that its operations make alone.
FrameOK(safe, t, i, c, mem) ==
  LET m == Reached(c, mem)
  IN  /\ ArgumentOf(c, mem) \in Int
      /\ Done(c) \in 0..Len(Code[c.parser])
      /\ c.checks # NoParser =>
           /\ Done(c) < Len(Code[c.parser])
           /\ Code[c.parser][Done(c) + 1] = [op |-> "cPCall", arg |-> c.checks]
      /\ m.error = 0
      /\ c.sp = Len(m.stack)
      /\ \A j \in 1..c.sp : mem[Owner(safe, t, i, c.parser)][j] = m.stack[j]

\* What a callee has returned, and left as its error, is what it gives alone.
ReturnedOK(safe, t, cs, mem, err) ==
  LET n == Len(cs)
      c == cs[n]
      given == Given[c.checks][Top(safe, t, n, c, mem)]
  IN  n > 0 /\ c.checks # NoParser =>
        c.retVal = given.value /\ err[c.checks] = given.error

OutcomeOK(s, t, cs, out, err) ==
  out # Nothing =>
    /\ cs = <<>>
    /\ out \in Outcomes
    /\ out.parser \in s.uses[t]
    /\ out.value = Given[out.parser][out.argument].value
    /\ (\A u \in Threads \ {t} : out.parser \notin s.uses[u]) =>
         (IF out.error = Nothing THEN err[out.parser] ELSE out.error)
           = Given[out.parser][out.argument].error

FramesOK(safe, t, cs, mem) == \A i \in 1..Len(cs) : FrameOK(safe, t, i, cs[i], mem)

ThreadOK(s, t, cs, mem, err, out) ==
  /\ ChainOK(s, t, cs)
  /\ FramesOK(s.threadSafe, t, cs, mem)
  /\ ReturnedOK(s.threadSafe, t, cs, mem, err)
  /\ OutcomeOK(s, t, cs, out, err)

Typed ==
  /\ setting \in Settings
  /\ calls = [t \in Threads |-> calls[t]]
  /\ memory \in [Arrays -> [1..StackSize -> Int]]
  /\ evalError \in [Parsers -> Int]
  /\ outcome = [t \in Threads |-> outcome[t]]

IInv ==
  /\ Typed
  /\ \A t \in Threads :
       ThreadOK(setting, t, calls[t], memory, evalError, outcome[t])

(***************************************************************************)
(* Operators.                                                              *)
(***************************************************************************)

\* A sequence without its last element, and that element.
LEMMA FrontLast ==
  ASSUME NEW S, NEW s \in Seq(S), Len(s) > 0
  PROVE  /\ Front(s) \in Seq(S)
         /\ Len(Front(s)) = Len(s) - 1
         /\ \A i \in 1..(Len(s) - 1) : Front(s)[i] = s[i]
         /\ Last(s) \in S
         /\ Last(s) = s[Len(s)]
<1>1. Len(s) \in Nat /\ s[Len(s)] \in S
  BY ElementOfSeq, LenProperties
<1>2. 1 \in 1..(Len(s) + 1) /\ Len(s) - 1 \in (1 - 1)..Len(s) /\ (Len(s) - 1) - 1 + 1 = Len(s) - 1
  BY <1>1
<1>3. SubSeq(s, 1, Len(s) - 1) \in Seq(S) /\ Len(SubSeq(s, 1, Len(s) - 1)) = Len(s) - 1
  BY <1>1, <1>2, SubSeqProperties
<1>4. \A i \in 1..(Len(s) - 1) : SubSeq(s, 1, Len(s) - 1)[i] = s[i]
  BY <1>1, <1>2, SubSeqProperties
<1>5. QED  BY <1>1, <1>3, <1>4 DEF Front, Last

\* A sequence with one more element.
LEMMA Appended ==
  ASSUME NEW S, NEW s \in Seq(S), NEW x \in S
  PROVE  /\ Append(s, x) \in Seq(S)
         /\ Len(Append(s, x)) = Len(s) + 1
         /\ \A i \in 1..Len(s) : Append(s, x)[i] = s[i]
         /\ Append(s, x)[Len(s) + 1] = x
         /\ Len(s) \in Nat
         /\ Front(Append(s, x)) = s
         /\ Last(Append(s, x)) = x
<1> DEFINE u == Append(s, x)
<1>1. /\ u \in Seq(S) /\ Len(u) = Len(s) + 1
      /\ \A i \in 1..Len(s) : u[i] = s[i]
      /\ u[Len(s) + 1] = x
      /\ Len(s) \in Nat
  BY AppendProperties, LenProperties
<1> HIDE DEF u
<1>2. Front(u) \in Seq(S) /\ Len(Front(u)) = Len(s) /\ \A i \in 1..Len(s) : Front(u)[i] = u[i]
  BY <1>1, FrontLast
<1>3. Front(u) = s
  BY <1>1, <1>2, SeqEqual
<1>4. Last(u) = x
  BY <1>1 DEF Last
<1>5. QED  BY <1>1, <1>3, <1>4 DEF u

\* The quotient of two integers is one.
LEMMA QuotientTyped ==
  ASSUME NEW x \in Int, NEW y \in Int, y # 0
  PROVE  Quotient(x, y) \in Int
<1>1. \A n \in Int : (IF n < 0 THEN -n ELSE n) \in Nat
  OBVIOUS
<1>2. (IF y < 0 THEN -y ELSE y) # 0
  OBVIOUS
<1>3. \A m \in Nat, n \in Nat : n # 0 => m \div n \in Nat
  OBVIOUS
<1>4. QED  BY <1>1, <1>2, <1>3 DEF Quotient

\* Height(p) has the heights that CodeAssumption asks for.
LEMMA HeightHolds ==
  ASSUME NEW p \in Parsers
  PROVE  /\ Height(p) \in [1..(Len(Code[p]) + 1) -> 0..StackSize]
         /\ Heights(Code[p], Height(p))
BY CodeAssumption DEF Height

\* Rank falls along every call.
LEMMA RankHolds == Rank \in [Parsers -> 1..MaxDepth] /\ Ranks(Rank)
BY CodeAssumption DEF Rank

\* An operation of the code of p.
LEMMA OperationTyped ==
  ASSUME NEW p \in Parsers, NEW i \in 1..Len(Code[p])
  PROVE  /\ Code[p][i] \in Operations
         /\ Len(Code[p]) \in Nat
         /\ Code[p][i].op = "cPCall" =>
              Code[p][i].arg \in Parsers /\ Code[p][i].arg \in Callees(p)
         /\ Code[p][i].op # "cPCall" => Code[p][i].arg \in Int
<1>1. Code[p] \in Seq(Operations)
  BY CodeAssumption
<1>2. Code[p][i] \in Operations /\ Len(Code[p]) \in Nat /\ i \in DOMAIN Code[p]
  BY <1>1, ElementOfSeq, LenProperties
<1>3. Code[p][i].op = "cPCall" => Code[p][i].arg \in Callees(p)
  BY <1>2 DEF Callees
<1>4. QED  BY <1>2, <1>3 DEF Operations

\* What evaluations are in the midst of, give, and use of their callees.
Moments == [stack : Seq(Int), error : Int]
Results == [value : Int, error : Int]
Inner == [Parsers -> [Int -> Results]]

\* The stack has the height of place i in the code of p.
AtHeight(m, p, i) == m \in Moments /\ (m.error = 0 => Len(m.stack) = Height(p)[i])

\* What Takes() says of the heights.
LEMMA HeightMoves ==
  ASSUME NEW p \in Parsers, NEW i \in 1..Len(Code[p])
  PROVE  /\ Height(p)[i] \in 0..StackSize
         /\ Height(p)[i + 1] \in 0..StackSize
         /\ Code[p][i].op \in {"var", "cImmed"} => Height(p)[i + 1] = Height(p)[i] + 1
         /\ Code[p][i].op = "cPCall" =>
              Height(p)[i] > 0 /\ Height(p)[i + 1] = Height(p)[i]
         /\ Code[p][i].op \in {"cAdd", "cDiv"} =>
              Height(p)[i] > 1 /\ Height(p)[i + 1] = Height(p)[i] - 1
<1> DEFINE h == Height(p)
           o == Code[p][i]
<1>1. h \in [1..(Len(Code[p]) + 1) -> 0..StackSize] /\ Len(Code[p]) \in Nat /\ o \in Operations
  BY HeightHolds, OperationTyped
<1>2. h[i] >= Takes(o) /\ h[i + 1] = h[i] - Takes(o) + 1
  BY HeightHolds DEF Heights
<1>3. i \in 1..(Len(Code[p]) + 1) /\ i + 1 \in 1..(Len(Code[p]) + 1)
  BY <1>1
<1>4. h[i] \in 0..StackSize /\ h[i + 1] \in 0..StackSize
  BY <1>1, <1>3
<1>5. /\ o.op \in {"var", "cImmed"} => Takes(o) = 0
      /\ o.op = "cPCall" => Takes(o) = 1
      /\ o.op \in {"cAdd", "cDiv"} => Takes(o) = 2
  BY DEF Takes
<1> HIDE DEF h, o
<1>6. /\ o.op \in {"var", "cImmed"} => h[i + 1] = h[i] + 1
      /\ o.op = "cPCall" => h[i] > 0 /\ h[i + 1] = h[i]
      /\ o.op \in {"cAdd", "cDiv"} => h[i] > 1 /\ h[i + 1] = h[i] - 1
  BY <1>2, <1>4, <1>5, ConstantsAssumption
<1>7. QED  BY <1>4, <1>6 DEF h, o

\* An operation that fails leaves the error, and one after an error nothing.
LEMMA AfterFailure ==
  ASSUME NEW m, NEW o, NEW y, NEW inner
  PROVE  /\ m.error # 0 => After(m, o, y, inner) = m
         /\ m.error = 0 /\ o.op = "cDiv" /\ Last(m.stack) = 0
              => After(m, o, y, inner) = [stack |-> m.stack, error |-> 1]
         /\ m.error = 0 /\ o.op = "cPCall" /\ inner[o.arg][Last(m.stack)].error # 0
              => After(m, o, y, inner)
                   = [stack |-> m.stack, error |-> inner[o.arg][Last(m.stack)].error]
BY DEF After

\* An operation that succeeds.
LEMMA AfterSuccess ==
  ASSUME NEW m, NEW o, NEW y, NEW inner, m.error = 0
  PROVE  /\ o.op = "var"
              => After(m, o, y, inner) = [stack |-> Append(m.stack, y), error |-> 0]
         /\ o.op = "cImmed"
              => After(m, o, y, inner) = [stack |-> Append(m.stack, o.arg), error |-> 0]
         /\ o.op = "cAdd"
              => After(m, o, y, inner)
                   = [stack |-> Append(Front(Front(m.stack)),
                                       Last(Front(m.stack)) + Last(m.stack)),
                      error |-> 0]
         /\ o.op = "cDiv" /\ Last(m.stack) # 0
              => After(m, o, y, inner)
                   = [stack |-> Append(Front(Front(m.stack)),
                                       Quotient(Last(Front(m.stack)), Last(m.stack))),
                      error |-> 0]
         /\ o.op = "cPCall" /\ inner[o.arg][Last(m.stack)].error = 0
              => After(m, o, y, inner)
                   = [stack |-> Append(Front(m.stack), inner[o.arg][Last(m.stack)].value),
                      error |-> 0]
BY DEF After

\* What an operation leaves has the height of the next place.
LEMMA AfterTyped ==
  ASSUME NEW p \in Parsers, NEW i \in 1..Len(Code[p]), NEW y \in Int,
         NEW inner \in Inner, NEW m, AtHeight(m, p, i)
  PROVE  AtHeight(After(m, Code[p][i], y, inner), p, i + 1)
<1> DEFINE o == Code[p][i]
           h == Height(p)[i]
           g == Height(p)[i + 1]
           a == After(m, o, y, inner)
<1>1. /\ o \in Operations /\ h \in 0..StackSize /\ g \in 0..StackSize
      /\ o.op = "cPCall" => o.arg \in Parsers
      /\ o.op # "cPCall" => o.arg \in Int
  BY OperationTyped, HeightMoves
<1>2. /\ o.op \in {"var", "cImmed"} => g = h + 1
      /\ o.op = "cPCall" => h > 0 /\ g = h
      /\ o.op \in {"cAdd", "cDiv"} => h > 1 /\ g = h - 1
  BY HeightMoves
<1>3. m.stack \in Seq(Int) /\ m.error \in Int /\ m \in Moments /\ (m.error = 0 => Len(m.stack) = h)
  BY DEF AtHeight, Moments
<1>4. SUFFICES a \in Moments /\ (a.error = 0 => Len(a.stack) = g)
  BY DEF AtHeight
<1> HIDE DEF o, h, g
<1>5. CASE m.error # 0
  BY <1>3, <1>5, AfterFailure
<1>6. ASSUME NEW s \in Seq(Int), Len(s) + 1 = g, NEW z \in Int,
             a = [stack |-> Append(s, z), error |-> 0]
      PROVE  a \in Moments /\ (a.error = 0 => Len(a.stack) = g)
  BY <1>6, Appended DEF Moments
<1>7. CASE m.error = 0
  <2>1. o.op \in {"var", "cImmed", "cAdd", "cDiv", "cPCall"}
    BY <1>1 DEF Operations
  <2>2. CASE o.op = "var"
    BY <1>2, <1>3, <1>6, <1>7, <2>2, AfterSuccess
  <2>3. CASE o.op = "cImmed"
    BY <1>1, <1>2, <1>3, <1>6, <1>7, <2>3, AfterSuccess
  <2>4. ASSUME h > 0
        PROVE  /\ Front(m.stack) \in Seq(Int) /\ Len(Front(m.stack)) = h - 1
               /\ Last(m.stack) \in Int
    BY <1>3, <1>7, <2>4, FrontLast
  <2>5. ASSUME h > 1
        PROVE  /\ Front(Front(m.stack)) \in Seq(Int) /\ Len(Front(Front(m.stack))) = h - 2
               /\ Last(Front(m.stack)) \in Int
    <3>1. h > 0 /\ h - 1 > 0 /\ h - 1 - 1 = h - 2
      BY <1>1, <2>5
    <3>2. Front(m.stack) \in Seq(Int) /\ Len(Front(m.stack)) > 0
      BY <2>4, <3>1
    <3>3. QED  BY <2>4, <3>1, <3>2, FrontLast
  <2>6. CASE o.op = "cAdd"
    <3>1. Last(Front(m.stack)) + Last(m.stack) \in Int /\ Len(Front(Front(m.stack))) + 1 = g
      BY <1>1, <1>2, <2>4, <2>5, <2>6
    <3>2. QED  BY <1>2, <1>6, <1>7, <2>5, <2>6, <3>1, AfterSuccess
  <2>7. CASE o.op = "cDiv" /\ Last(m.stack) # 0
    <3>1. /\ Len(Front(Front(m.stack))) + 1 = g
          /\ Last(Front(m.stack)) \in Int /\ Last(m.stack) \in Int
      BY <1>1, <1>2, <2>4, <2>5, <2>7
    <3>2. Quotient(Last(Front(m.stack)), Last(m.stack)) \in Int
      BY <2>7, <3>1, QuotientTyped
    <3>3. QED  BY <1>2, <1>6, <1>7, <2>5, <2>7, <3>1, <3>2, AfterSuccess
  <2>8. CASE o.op = "cDiv" /\ Last(m.stack) = 0
    BY <1>3, <1>7, <2>8, AfterFailure DEF Moments
  <2>9. CASE o.op = "cPCall"
    <3>1. inner[o.arg][Last(m.stack)] \in Results
      BY <1>1, <1>2, <2>4, <2>9 DEF Inner
    <3>2. CASE inner[o.arg][Last(m.stack)].error = 0
      <4>1. inner[o.arg][Last(m.stack)].value \in Int /\ Len(Front(m.stack)) + 1 = g
        BY <1>1, <1>2, <2>4, <2>9, <3>1 DEF Results
      <4>2. Front(m.stack) \in Seq(Int)
        BY <1>1, <1>2, <2>4, <2>9
      <4>3. QED  BY <1>6, <1>7, <2>9, <3>2, <4>1, <4>2, AfterSuccess
    <3>3. CASE inner[o.arg][Last(m.stack)].error # 0
      BY <1>3, <1>7, <2>9, <3>1, <3>3, AfterFailure DEF Moments, Results
    <3>4. QED  BY <3>2, <3>3
  <2>10. QED  BY <2>1, <2>2, <2>3, <2>6, <2>7, <2>8, <2>9
<1>8. QED  BY <1>5, <1>7

\* An evaluation before its first operation.
LEMMA StartTyped ==
  ASSUME NEW p \in Parsers
  PROVE  AtHeight([stack |-> <<>>, error |-> 0], p, 1)
BY HeightHolds DEF AtHeight, Moments, Heights

\* m goes through the code of p, operation by operation.
Runs(m, p, y, inner) ==
  m = [i \in 0..Len(Code[p]) |->
         IF i = 0 THEN [stack |-> <<>>, error |-> 0]
         ELSE After(m[i - 1], Code[p][i], y, inner)]

\* There is such a function: Run() is one.
LEMMA RunDefined ==
  ASSUME NEW p \in Parsers, NEW y \in Int, NEW inner \in Inner
  PROVE  Runs(Run(p, y, inner), p, y, inner)
<1> DEFINE n     == Len(Code[p])
           start == [stack |-> <<>>, error |-> 0]
           A(m, i) == After(m, Code[p][i], y, inner)
           g == [i \in 1..n |-> [m \in Moments |-> IF A(m, i) \in Moments THEN A(m, i) ELSE m]]
<1>1. n \in Nat
  BY CodeAssumption, LenProperties
<1>2. start \in Moments
  BY DEF Moments
<1>3. g \in [1..n -> [Moments -> Moments]]
  <2> HIDE DEF A
  <2>1. QED  OBVIOUS
<1>4. PICK f : Iterates(f, n, Moments, start, g)
  <2> HIDE DEF g, n, start
  <2>1. QED  BY <1>1, <1>2, <1>3, Iteration
<1>5. f \in [0..n -> Moments] /\ f[0] = start /\ \A k \in 1..n : f[k] = g[k][f[k - 1]]
  BY <1>4 DEF Iterates
<1>6. ASSUME NEW k \in 1..n, AtHeight(f[k - 1], p, k)
      PROVE  f[k] = A(f[k - 1], k) /\ AtHeight(f[k], p, k + 1)
  <2>1. AtHeight(A(f[k - 1], k), p, k + 1)
    BY <1>6, AfterTyped
  <2>2. A(f[k - 1], k) \in Moments /\ f[k - 1] \in Moments
    BY <1>6, <2>1 DEF AtHeight
  <2> HIDE DEF A
  <2>3. f[k] = A(f[k - 1], k)
    BY <1>5, <2>2
  <2>4. QED  BY <2>1, <2>3
<1> DEFINE S == {k \in 0..n : AtHeight(f[k], p, k + 1)}
<1>7. 0 \in S
  BY <1>1, <1>5, StartTyped
<1>8. ASSUME NEW k \in 1..n, k - 1 \in S
      PROVE  k \in S
  <2>1. (k - 1) + 1 = k /\ k \in 0..n
    BY <1>1
  <2>2. AtHeight(f[k - 1], p, k)
    BY <1>8, <2>1
  <2>3. QED  BY <1>6, <2>1, <2>2
<1>9. \A k \in 0..n : k \in S
  <2> HIDE DEF S
  <2>1. QED  BY <1>1, <1>7, <1>8, Induction
<1>10. ASSUME NEW k \in 1..n
       PROVE  f[k] = A(f[k - 1], k)
  <2>1. k - 1 \in 0..n /\ (k - 1) + 1 = k
    BY <1>1
  <2>2. AtHeight(f[k - 1], p, k)
    BY <1>9, <2>1
  <2>3. QED  BY <1>6, <2>2
<1>11. f = [i \in 0..n |-> IF i = 0 THEN start ELSE A(f[i - 1], i)]
  <2> HIDE DEF A, start
  <2>1. \A i \in 0..n : i # 0 => i \in 1..n
    BY <1>1
  <2>2. QED  BY <1>5, <1>10, <2>1
<1>12. Runs(f, p, y, inner)
  BY <1>11 DEF Runs
<1>13. Run(p, y, inner) = CHOOSE m : Runs(m, p, y, inner)
  BY DEF Run, Runs
<1>14. QED  BY <1>12, <1>13

\* The stack and the error after each operation.
LEMMA RunSteps ==
  ASSUME NEW p \in Parsers, NEW y \in Int, NEW inner \in Inner
  PROVE  /\ Len(Code[p]) \in Nat
         /\ Run(p, y, inner)[0] = [stack |-> <<>>, error |-> 0]
         /\ \A k \in 1..Len(Code[p]) :
              Run(p, y, inner)[k] = After(Run(p, y, inner)[k - 1], Code[p][k], y, inner)
<1> DEFINE m == Run(p, y, inner)
           n == Len(Code[p])
           start == [stack |-> <<>>, error |-> 0]
<1>1. n \in Nat
  BY CodeAssumption, LenProperties
<1>2. m = [i \in 0..n |-> IF i = 0 THEN start ELSE After(m[i - 1], Code[p][i], y, inner)]
  BY RunDefined DEF Runs
<1>3. 0 \in 0..n /\ \A k \in 1..n : k \in 0..n /\ k # 0
  BY <1>1
<1> HIDE DEF m, n, start
<1>4. m[0] = start /\ \A k \in 1..n : m[k] = After(m[k - 1], Code[p][k], y, inner)
  BY <1>2, <1>3
<1>5. QED  BY <1>1, <1>4 DEF m, n, start

\* They have the heights of their places.
LEMMA RunTyped ==
  ASSUME NEW p \in Parsers, NEW y \in Int, NEW inner \in Inner
  PROVE  \A k \in 0..Len(Code[p]) : AtHeight(Run(p, y, inner)[k], p, k + 1)
<1> DEFINE m == Run(p, y, inner)
           n == Len(Code[p])
           S == {k \in 0..n : AtHeight(m[k], p, k + 1)}
<1>1. /\ n \in Nat /\ m[0] = [stack |-> <<>>, error |-> 0]
      /\ \A k \in 1..n : m[k] = After(m[k - 1], Code[p][k], y, inner)
  BY RunSteps
<1> HIDE DEF m
<1>2. 0 \in S
  BY <1>1, StartTyped
<1>3. ASSUME NEW k \in 1..n, k - 1 \in S
      PROVE  k \in S
  <2>1. (k - 1) + 1 = k /\ k \in 0..n
    BY <1>1
  <2>2. AtHeight(m[k - 1], p, k)
    BY <1>3, <2>1
  <2>3. AtHeight(After(m[k - 1], Code[p][k], y, inner), p, k + 1)
    BY <2>2, AfterTyped
  <2>4. QED  BY <1>1, <2>1, <2>3
<1>4. \A k \in 0..n : k \in S
  <2> HIDE DEF S
  <2>1. QED  BY <1>1, <1>2, <1>3, Induction
<1>5. QED  BY <1>4 DEF m

\* After an error nothing changes.
LEMMA ErrorLasts ==
  ASSUME NEW p \in Parsers, NEW y \in Int, NEW inner \in Inner,
         NEW k \in 0..Len(Code[p]), Run(p, y, inner)[k].error # 0
  PROVE  Run(p, y, inner)[Len(Code[p])] = Run(p, y, inner)[k]
<1> DEFINE m == Run(p, y, inner)
           n == Len(Code[p])
           S == {d \in 0..(n - k) : m[k + d] = m[k]}
<1>1. /\ n \in Nat
      /\ \A j \in 1..n : m[j] = After(m[j - 1], Code[p][j], y, inner)
  BY RunSteps
<1>2. m[k].error # 0
  OBVIOUS
<1> HIDE DEF m
<1>3. n - k \in Nat /\ k + (n - k) = n /\ n - k \in 0..(n - k)
  BY <1>1
<1>4. 0 \in S
  BY <1>1
<1>5. ASSUME NEW d \in 1..(n - k), d - 1 \in S
      PROVE  d \in S
  <2>1. k + d \in 1..n /\ (k + d) - 1 = k + (d - 1) /\ d \in 0..(n - k)
    BY <1>1
  <2>2. m[k + d] = After(m[k + (d - 1)], Code[p][k + d], y, inner)
    BY <1>1, <2>1
  <2>3. m[k + (d - 1)] = m[k]
    BY <1>5
  <2>4. m[k + d] = m[k]
    BY <1>2, <2>2, <2>3, AfterFailure
  <2>5. QED  BY <2>1, <2>4
<1>6. \A d \in 0..(n - k) : d \in S
  <2> HIDE DEF S
  <2>1. QED  BY <1>3, <1>4, <1>5, Induction
<1>7. m[k + (n - k)] = m[k]
  BY <1>3, <1>6
<1>8. QED  BY <1>3, <1>7 DEF m

\* What an Eval() gives: two numbers.
LEMMA GivesTyped ==
  ASSUME NEW p \in Parsers, NEW y \in Int, NEW inner \in Inner
  PROVE  Gives(p, y, inner) \in Results
<1> DEFINE n   == Len(Code[p])
           end == Run(p, y, inner)[n]
<1>1. n \in Nat /\ n \in 0..n
  BY RunSteps
<1>2. AtHeight(end, p, n + 1)
  BY <1>1, RunTyped
<1>3. Height(p)[n + 1] = 1
  BY HeightHolds DEF Heights
<1> HIDE DEF end, n
<1>4. end.stack \in Seq(Int) /\ end.error \in Int /\ (end.error = 0 => Len(end.stack) > 0)
  <2>1. end \in Moments /\ (end.error = 0 => Len(end.stack) = 1)
    BY <1>2, <1>3 DEF AtHeight
  <2>2. QED  BY <2>1 DEF Moments
<1>5. end.error = 0 => Last(end.stack) \in Int
  BY <1>4, FrontLast
<1>6. QED  BY <1>4, <1>5 DEF Gives, Results, end, n

\* Only what its callees give tells in what an Eval() gives.
LEMMA GivesAgree ==
  ASSUME NEW p \in Parsers, NEW y \in Int, NEW inner \in Inner, NEW other \in Inner,
         \A q \in Callees(p) : inner[q] = other[q]
  PROVE  Gives(p, y, inner) = Gives(p, y, other)
<1> DEFINE m == Run(p, y, inner)
           u == Run(p, y, other)
           n == Len(Code[p])
           S == {k \in 0..n : m[k] = u[k]}
<1>1. /\ n \in Nat
      /\ m[0] = [stack |-> <<>>, error |-> 0]
      /\ u[0] = [stack |-> <<>>, error |-> 0]
      /\ \A k \in 1..n : m[k] = After(m[k - 1], Code[p][k], y, inner)
      /\ \A k \in 1..n : u[k] = After(u[k - 1], Code[p][k], y, other)
  BY RunSteps
<1> HIDE DEF m, u
<1>2. 0 \in S
  BY <1>1
<1>3. ASSUME NEW k \in 1..n, k - 1 \in S
      PROVE  k \in S
  <2>1. k \in 0..n /\ m[k - 1] = u[k - 1]
    BY <1>1, <1>3
  <2>2. Code[p][k].op = "cPCall" => inner[Code[p][k].arg] = other[Code[p][k].arg]
    BY OperationTyped
  <2>3. After(u[k - 1], Code[p][k], y, inner) = After(u[k - 1], Code[p][k], y, other)
    BY <2>2 DEF After
  <2>4. QED  BY <1>1, <2>1, <2>3
<1>4. \A k \in 0..n : k \in S
  <2> HIDE DEF S
  <2>1. QED  BY <1>1, <1>2, <1>3, Induction
<1>5. m[n] = u[n]
  BY <1>1, <1>4
<1>6. QED  BY <1>5 DEF Gives, m, u

(***************************************************************************)
(* What parsers give alone.                                                *)
(***************************************************************************)

\* What Eval() gives, given what it gives with chains of calls one shorter.
Higher(inner) == [p \in Parsers |-> [y \in Int |-> Gives(p, y, inner)]]

Lowest == [p \in Parsers |-> [y \in Int |-> [value |-> 0, error |-> 0]]]

\* The levels are defined, each from the one below.
LEMMA LevelDefined ==
  /\ Level \in [0..MaxDepth -> Inner]
  /\ Level[0] = Lowest
  /\ \A d \in 1..MaxDepth : Level[d] = Higher(Level[d - 1])
<1> DEFINE Body(l) == [d \in 0..MaxDepth |->
                         [p \in Parsers |-> [y \in Int |->
                            IF d = 0 THEN [value |-> 0, error |-> 0]
                            ELSE Gives(p, y, l[d - 1])]]]
           g == [k \in 1..MaxDepth |-> [inner \in Inner |-> Higher(inner)]]
<1>1. MaxDepth \in Nat
  BY ConstantsAssumption
<1>2. Lowest \in Inner
  BY DEF Lowest, Inner, Results
<1>3. \A inner \in Inner : Higher(inner) \in Inner
  BY GivesTyped DEF Higher, Inner
<1>4. PICK f : Iterates(f, MaxDepth, Inner, Lowest, g)
  <2>1. g \in [1..MaxDepth -> [Inner -> Inner]]
    BY <1>3
  <2> HIDE DEF g
  <2>2. QED  BY <1>1, <1>2, <2>1, Iteration
<1>5. /\ f \in [0..MaxDepth -> Inner] /\ f[0] = Lowest
      /\ \A d \in 1..MaxDepth : f[d] = Higher(f[d - 1])
  <2>1. /\ f \in [0..MaxDepth -> Inner] /\ f[0] = Lowest
        /\ \A d \in 1..MaxDepth : f[d] = g[d][f[d - 1]]
    BY <1>4 DEF Iterates
  <2>2. \A d \in 1..MaxDepth : d - 1 \in 0..MaxDepth
    BY <1>1
  <2>3. QED  BY <2>1, <2>2
<1>6. ASSUME NEW l
      PROVE  l = Body(l) <=> l = [d \in 0..MaxDepth |-> IF d = 0 THEN Lowest ELSE Higher(l[d - 1])]
  <2>1. \A d \in 0..MaxDepth :
          [p \in Parsers |-> [y \in Int |-> IF d = 0 THEN [value |-> 0, error |-> 0]
                                            ELSE Gives(p, y, l[d - 1])]]
          = IF d = 0 THEN Lowest ELSE Higher(l[d - 1])
    BY DEF Lowest, Higher
  <2>2. Body(l) = [d \in 0..MaxDepth |-> IF d = 0 THEN Lowest ELSE Higher(l[d - 1])]
    BY <2>1
  <2>3. QED  BY <2>2
<1>7. f = [d \in 0..MaxDepth |-> IF d = 0 THEN Lowest ELSE Higher(f[d - 1])]
  <2>1. \A d \in 0..MaxDepth : d # 0 => d \in 1..MaxDepth
    BY <1>1
  <2>2. QED  BY <1>5, <2>1
<1>8. f = Body(f)
  BY <1>6, <1>7
<1>9. Level = CHOOSE l : l = Body(l)
  BY DEF Level
<1>10. Level = Body(Level)
  <2> HIDE DEF Body
  <2>1. QED  BY <1>8, <1>9
<1> DEFINE l == Level
<1>11. l = [d \in 0..MaxDepth |-> IF d = 0 THEN Lowest ELSE Higher(l[d - 1])]
  BY <1>6, <1>10
<1> HIDE DEF l
<1>12. l[0] = Lowest /\ \A d \in 1..MaxDepth : l[d] = Higher(l[d - 1])
  <2>1. 0 \in 0..MaxDepth /\ \A d \in 1..MaxDepth : d \in 0..MaxDepth /\ d # 0
    BY <1>1
  <2>2. QED  BY <1>11, <2>1
<1>13. \A d \in 0..MaxDepth : l[d] \in Inner
  <2> DEFINE S == {d \in 0..MaxDepth : l[d] \in Inner}
  <2>1. 0 \in S
    BY <1>1, <1>2, <1>12
  <2>2. \A d \in 1..MaxDepth : d - 1 \in S => d \in S
    BY <1>1, <1>3, <1>12
  <2>3. \A d \in 0..MaxDepth : d \in S
    <3> HIDE DEF S
    <3>1. QED  BY <1>1, <2>1, <2>2, Induction
  <2>4. QED  BY <2>3
<1>14. QED  BY <1>11, <1>12, <1>13 DEF l

\* What is called is a parser.
LEMMA CalleesTyped == \A p \in Parsers : Callees(p) \subseteq Parsers
<1>1. ASSUME NEW p \in Parsers, NEW i \in DOMAIN Code[p], Code[p][i].op = "cPCall"
      PROVE  Code[p][i].arg \in Parsers
  <2>1. Code[p] \in Seq(Operations)
    BY CodeAssumption
  <2>2. i \in 1..Len(Code[p])
    BY <2>1, LenProperties
  <2>3. QED  BY <1>1, <2>2, OperationTyped
<1>2. QED  BY <1>1 DEF Callees

\* From the level of its rank on, what a parser gives is the same.
LEMMA LevelEnough ==
  \A d \in 1..MaxDepth : \A p \in Parsers :
    Rank[p] < d => Level[d][p] = Level[d - 1][p]
<1> DEFINE S == {d \in 0..MaxDepth : d > 0 =>
                   \A p \in Parsers : Rank[p] < d => Level[d][p] = Level[d - 1][p]}
<1>1. /\ MaxDepth \in Nat /\ Rank \in [Parsers -> 1..MaxDepth]
      /\ \A p \in Parsers : \A q \in Callees(p) : q \in Parsers /\ Rank[q] < Rank[p]
  BY ConstantsAssumption, RankHolds, CalleesTyped DEF Ranks
<1>2. 0 \in S
  BY <1>1
<1>3. ASSUME NEW d \in 1..MaxDepth, d - 1 \in S
      PROVE  d \in S
  <2>1. SUFFICES ASSUME NEW p \in Parsers, Rank[p] < d
                 PROVE  Level[d][p] = Level[d - 1][p]
    BY <1>1
  <2>2. Rank[p] \in 1..MaxDepth /\ d - 1 \in 1..MaxDepth /\ d - 1 \in 0..MaxDepth
        /\ (d - 1) - 1 \in 0..MaxDepth
    BY <1>1, <2>1
  <2>3. Level[d] = Higher(Level[d - 1]) /\ Level[d - 1] = Higher(Level[(d - 1) - 1])
    BY <2>2, LevelDefined
  <2>4. Level[d - 1] \in Inner /\ Level[(d - 1) - 1] \in Inner
    BY <2>2, LevelDefined
  <2>5. ASSUME NEW q \in Callees(p)
        PROVE  Level[d - 1][q] = Level[(d - 1) - 1][q]
    <3>1. q \in Parsers /\ Rank[q] < d - 1 /\ d - 1 > 0
      BY <1>1, <2>1, <2>2
    <3>2. QED  BY <1>3, <3>1
  <2>6. \A y \in Int : Gives(p, y, Level[d - 1]) = Gives(p, y, Level[(d - 1) - 1])
    BY <2>4, <2>5, GivesAgree
  <2>7. QED  BY <2>3, <2>6 DEF Higher
<1>4. \A d \in 0..MaxDepth : d \in S
  <2> HIDE DEF S
  <2>1. QED  BY <1>1, <1>2, <1>3, Induction
<1>5. QED  BY <1>1, <1>4

\* What parsers give alone comes from what their callees give alone.
LEMMA GivenIs ==
  /\ Given \in Inner
  /\ \A p \in Parsers, y \in Int : Given[p][y] = Gives(p, y, Given)
<1>1. /\ MaxDepth \in Nat /\ Rank \in [Parsers -> 1..MaxDepth]
      /\ \A p \in Parsers : \A q \in Callees(p) : Rank[q] < Rank[p]
  BY ConstantsAssumption, RankHolds DEF Ranks
<1>2. Given \in Inner
  BY <1>1, LevelDefined DEF Given
<1>3. ASSUME NEW p \in Parsers, NEW y \in Int
      PROVE  Given[p][y] = Gives(p, y, Given)
  <2>1. MaxDepth \in 1..MaxDepth /\ MaxDepth - 1 \in 0..MaxDepth
    BY <1>1
  <2>2. Given = Higher(Level[MaxDepth - 1]) /\ Level[MaxDepth - 1] \in Inner
    BY <2>1, LevelDefined DEF Given
  <2>3. ASSUME NEW q \in Callees(p)
        PROVE  Level[MaxDepth - 1][q] = Given[q]
    <3>1. q \in Parsers
      BY CalleesTyped
    <3>2. Rank[q] < MaxDepth
      BY <1>1, <3>1
    <3>3. QED  BY <2>1, <3>1, <3>2, LevelEnough DEF Given
  <2>4. Gives(p, y, Level[MaxDepth - 1]) = Gives(p, y, Given)
    BY <1>2, <2>2, <2>3, GivesAgree
  <2>5. QED  BY <2>2, <2>4 DEF Higher
<1>4. QED  BY <1>2, <1>3

(***************************************************************************)
(* Which stacks and which parsers a thread touches.                        *)
(***************************************************************************)

\* A thread evaluates what it uses and what that calls.
LEMMA EvaluatesClosed ==
  ASSUME NEW s \in Settings, NEW t \in Threads
  PROVE  /\ Evaluates(s, t) \subseteq Parsers
         /\ s.uses[t] \subseteq Evaluates(s, t)
         /\ \A p \in Evaluates(s, t) : Callees(p) \subseteq Evaluates(s, t)
<1>1. s.uses[t] \subseteq Parsers
  BY ConstantsAssumption
<1>2. s.uses[t] \subseteq Evaluates(s, t)
  BY <1>1 DEF Evaluates
<1>3. ASSUME NEW p \in Evaluates(s, t), NEW q \in Callees(p)
      PROVE  q \in Evaluates(s, t)
  <2>1. p \in Parsers /\ q \in Parsers
    BY CalleesTyped DEF Evaluates
  <2>2. ASSUME NEW S \in SUBSET Parsers, s.uses[t] \subseteq S,
               \A r \in S : Callees(r) \subseteq S
        PROVE  q \in S
    BY <2>2 DEF Evaluates
  <2>3. QED  BY <2>1, <2>2 DEF Evaluates
<1>4. QED  BY <1>2, <1>3 DEF Evaluates

\* A thread evaluates nothing else: it uses it, or something calls it.
LEMMA EvaluatesLeast ==
  ASSUME NEW s \in Settings, NEW t \in Threads, NEW p \in Evaluates(s, t)
  PROVE  p \in s.uses[t] \/ \E q \in Evaluates(s, t) : p \in Callees(q)
<1> DEFINE S == {r \in Evaluates(s, t) :
                   r \in s.uses[t] \/ \E q \in Evaluates(s, t) : r \in Callees(q)}
<1>1. S \in SUBSET Parsers /\ s.uses[t] \subseteq S /\ \A q \in S : Callees(q) \subseteq S
  BY EvaluatesClosed
<1>2. p \in S
  <2> HIDE DEF S
  <2>1. QED  BY <1>1 DEF Evaluates
<1>3. QED  BY <1>2

\* Where threads keep apart, one that evaluates what another uses uses it too.
LEMMA UsedByBoth ==
  ASSUME NEW s \in Settings, Apart(s), NEW t \in Threads, NEW u \in Threads, t # u,
         NEW p \in s.uses[t], p \in Evaluates(s, u)
  PROVE  p \in s.uses[u]
<1>1. p \in Evaluates(s, t)
  BY EvaluatesClosed
<1>2. \A q \in Evaluates(s, u) : p \notin Callees(q)
  BY <1>1 DEF Apart
<1>3. QED  BY <1>2, EvaluatesLeast

\* The stack of an activation exists.
LEMMA OwnerTyped ==
  ASSUME NEW s \in Settings, NEW t \in Threads, NEW cs, ChainOK(s, t, cs),
         NEW i \in 1..Len(cs)
  PROVE  /\ Owner(s.threadSafe, t, i, cs[i].parser) \in Arrays
         /\ i \in 1..MaxDepth
         /\ cs[i] \in Activations
         /\ cs[i].parser \in Parsers
         /\ Len(cs) \in Nat
<1>1. cs \in Seq(Activations)
  BY DEF ChainOK
<1>2. cs[i] \in Activations /\ Len(cs) \in Nat
  BY <1>1, ElementOfSeq, LenProperties
<1>3. cs[i].parser \in Parsers
  BY <1>2 DEF Activations
<1>4. Rank[cs[i].parser] \in 1..MaxDepth /\ MaxDepth \in Nat
  BY <1>3, RankHolds, ConstantsAssumption
<1>5. i + Rank[cs[i].parser] <= MaxDepth + 1
  BY DEF ChainOK
<1>6. i \in 1..MaxDepth /\ i \in 0..MaxDepth
  BY <1>2, <1>4, <1>5
<1>7. QED  BY <1>2, <1>3, <1>6 DEF Owner, Arrays

\* A parser is no place of a thread.
LEMMA ParserNoPlace ==
  ASSUME NEW p \in Parsers, NEW t \in Threads, NEW i \in 0..MaxDepth
  PROVE  p # <<t, i>>
BY ArraysAssumption

\* The array of a user's argument exists.
LEMMA UsersArray ==
  ASSUME NEW t \in Threads
  PROVE  <<t, 0>> \in Arrays /\ 0 \in 0..MaxDepth
<1>1. 0 \in 0..MaxDepth
  BY ConstantsAssumption
<1>2. QED  BY <1>1 DEF Arrays

\* Each activation of a thread has a stack of its own.
LEMMA OwnersApart ==
  ASSUME NEW s \in Settings, NEW t \in Threads, NEW cs, ChainOK(s, t, cs),
         NEW i \in 1..Len(cs)
  PROVE  /\ Owner(s.threadSafe, t, i, cs[i].parser) # <<t, 0>>
         /\ \A j \in 1..Len(cs) :
              j # i => Owner(s.threadSafe, t, j, cs[j].parser)
                         # Owner(s.threadSafe, t, i, cs[i].parser)
<1>1. cs[i].parser # <<t, 0>> /\ <<t, i>> # <<t, 0>>
  <2>1. cs[i].parser \in Parsers /\ i # 0
    BY OwnerTyped
  <2>2. QED  BY <2>1, ParserNoPlace, UsersArray
<1>2. ASSUME NEW j \in 1..Len(cs), j # i
      PROVE  cs[j].parser # cs[i].parser /\ <<t, i>> # <<t, j>>
  <2>1. Rank[cs[i].parser] \in 1..MaxDepth /\ Rank[cs[j].parser] \in 1..MaxDepth
    BY OwnerTyped, RankHolds
  <2>2. i < j \/ j < i
    BY <1>2, OwnerTyped
  <2>3. Rank[cs[j].parser] < Rank[cs[i].parser] \/ Rank[cs[i].parser] < Rank[cs[j].parser]
    BY <2>2 DEF ChainOK
  <2>4. QED  BY <1>2, <2>1, <2>3
<1>3. QED  BY <1>1, <1>2 DEF Owner

\* The argument of an activation is its user's, or in the stack of its caller.
LEMMA ArgumentPlace ==
  ASSUME NEW s, NEW t, NEW cs, ChainOK(s, t, cs), NEW i \in 1..Len(cs)
  PROVE  /\ i = 1 => cs[i].vars.array = <<t, 0>>
         /\ i # 1 => cs[i].vars.array = Owner(s.threadSafe, t, i - 1, cs[i - 1].parser)
<1>1. cs[i].vars = IF i = 1 THEN [array |-> <<t, 0>>, index |-> 1]
                   ELSE [array |-> Owner(s.threadSafe, t, i - 1, cs[i - 1].parser),
                         index |-> cs[i - 1].sp]
  BY DEF ChainOK
<1>2. QED  BY <1>1

\* The argument of an activation is not in the stack of the innermost one.
LEMMA ArgumentsApart ==
  ASSUME NEW s \in Settings, NEW t \in Threads, NEW cs, ChainOK(s, t, cs),
         NEW i \in 1..Len(cs)
  PROVE  /\ cs[i].vars.array \in Arrays
         /\ cs[i].vars.array # Owner(s.threadSafe, t, Len(cs), Last(cs).parser)
<1>1. Len(cs) \in Nat
  BY OwnerTyped
<1>2. Len(cs) \in 1..Len(cs) /\ Last(cs) = cs[Len(cs)]
  BY <1>1 DEF Last
<1>3. CASE i = 1
  <2>1. cs[i].vars.array = <<t, 0>>
    BY <1>3, ArgumentPlace
  <2>2. Owner(s.threadSafe, t, Len(cs), cs[Len(cs)].parser) # <<t, 0>>
    BY <1>2, OwnersApart
  <2>3. QED  BY <1>2, <2>1, <2>2, UsersArray
<1>4. CASE i # 1
  <2>1. i - 1 \in 1..Len(cs) /\ i - 1 # Len(cs)
    BY <1>1, <1>4
  <2>2. Owner(s.threadSafe, t, i - 1, cs[i - 1].parser) \in Arrays
    BY <2>1, OwnerTyped
  <2>3. cs[i].vars.array = Owner(s.threadSafe, t, i - 1, cs[i - 1].parser)
    BY <1>4, ArgumentPlace
  <2>4. Owner(s.threadSafe, t, i - 1, cs[i - 1].parser)
          # Owner(s.threadSafe, t, Len(cs), cs[Len(cs)].parser)
    BY <1>2, <2>1, OwnersApart
  <2>5. QED  BY <1>2, <2>2, <2>3, <2>4
<1>5. QED  BY <1>3, <1>4

\* Threads that keep apart touch no array together.
LEMMA ThreadsApart ==
  ASSUME NEW s \in Settings, Apart(s), NEW t \in Threads, NEW u \in Threads, t # u,
         NEW cs, ChainOK(s, t, cs), NEW ds, ChainOK(s, u, ds)
  PROVE  /\ \A i \in 1..Len(cs) : \A j \in 1..Len(ds) :
              Owner(s.threadSafe, t, i, cs[i].parser) # Owner(s.threadSafe, u, j, ds[j].parser)
         /\ \A i \in 1..Len(cs) : Owner(s.threadSafe, t, i, cs[i].parser) # <<u, 0>>
         /\ \A j \in 1..Len(ds) : Owner(s.threadSafe, u, j, ds[j].parser) # <<t, 0>>
         /\ <<t, 0>> # <<u, 0>>
<1>1. ASSUME NEW i \in 1..Len(cs), NEW j \in 1..Len(ds)
      PROVE  Owner(s.threadSafe, t, i, cs[i].parser) # Owner(s.threadSafe, u, j, ds[j].parser)
  <2>1. cs[i].parser \in Evaluates(s, t) /\ ds[j].parser \in Evaluates(s, u)
    BY DEF ChainOK
  <2>2. s.threadSafe \/ cs[i].parser # ds[j].parser
    BY <2>1 DEF Apart
  <2>3. QED  BY <2>2 DEF Owner
<1>2. ASSUME NEW i \in 1..Len(cs)
      PROVE  Owner(s.threadSafe, t, i, cs[i].parser) # <<u, 0>>
  BY OwnerTyped, ParserNoPlace, UsersArray DEF Owner
<1>3. ASSUME NEW j \in 1..Len(ds)
      PROVE  Owner(s.threadSafe, u, j, ds[j].parser) # <<t, 0>>
  BY OwnerTyped, ParserNoPlace, UsersArray DEF Owner
<1>4. QED  BY <1>1, <1>2, <1>3

(***************************************************************************)
(* A thread keeps what it has while others step.                           *)
(***************************************************************************)

\* An activation whose stack and argument stay.
LEMMA FrameKept ==
  ASSUME NEW safe, NEW t, NEW i, NEW c, NEW d, NEW mem, NEW mem2,
         FrameOK(safe, t, i, c, mem),
         mem2[c.vars.array] = mem[c.vars.array],
         mem2[Owner(safe, t, i, c.parser)] = mem[Owner(safe, t, i, c.parser)],
         d.parser = c.parser, d.vars = c.vars, d.ip = c.ip, d.sp = c.sp, d.checks = c.checks
  PROVE  FrameOK(safe, t, i, d, mem2)
<1>1. ArgumentOf(d, mem2) = ArgumentOf(c, mem) /\ Done(d) = Done(c)
  BY DEF ArgumentOf, Done
<1>2. Reached(d, mem2) = Reached(c, mem)
  BY <1>1 DEF Reached
<1>3. QED  BY <1>1, <1>2 DEF FrameOK

\* The arrays and the errors that differ are those of one activation, or the
\* array of the user's argument.
Touches(t, cs, mem, mem2, err, err2) ==
  /\ \A a \in Arrays :
       mem2[a] # mem[a] =>
         \/ a = <<t, 0>>
         \/ Len(cs) > 0 /\ a = Owner(setting.threadSafe, t, Len(cs), Last(cs).parser)
  /\ \A p \in Parsers : err2[p] # err[p] => Len(cs) > 0 /\ p = Last(cs).parser

\* The other threads.
LEMMA OthersKept ==
  ASSUME setting \in Settings, Apart(setting),
         NEW t \in Threads, NEW u \in Threads, t # u,
         NEW cs, ChainOK(setting, t, cs),
         NEW ds, NEW mem, NEW mem2, NEW err, NEW err2, NEW out,
         ThreadOK(setting, u, ds, mem, err, out),
         Touches(t, cs, mem, mem2, err, err2)
  PROVE  ThreadOK(setting, u, ds, mem2, err2, out)
<1> DEFINE safe == setting.threadSafe
<1>1. ChainOK(setting, u, ds) /\ ds \in Seq(Activations) /\ cs \in Seq(Activations)
  BY DEF ThreadOK, ChainOK
<1>2. Len(ds) \in Nat /\ Len(cs) \in Nat
  BY <1>1, LenProperties
<1>3. Len(cs) > 0 => Len(cs) \in 1..Len(cs) /\ Last(cs) = cs[Len(cs)]
  BY <1>2 DEF Last
<1>4. ASSUME NEW i \in 1..Len(ds)
      PROVE  mem2[Owner(safe, u, i, ds[i].parser)] = mem[Owner(safe, u, i, ds[i].parser)]
  <2>1. Owner(safe, u, i, ds[i].parser) \in Arrays
    BY <1>1, OwnerTyped
  <2>2. Owner(safe, u, i, ds[i].parser) # <<t, 0>>
    BY <1>1, ThreadsApart
  <2>3. Len(cs) > 0 =>
          Owner(safe, u, i, ds[i].parser) # Owner(safe, t, Len(cs), Last(cs).parser)
    BY <1>1, <1>3, ThreadsApart
  <2>4. QED  BY <2>1, <2>2, <2>3 DEF Touches
<1>5. ASSUME NEW i \in 1..Len(ds)
      PROVE  mem2[ds[i].vars.array] = mem[ds[i].vars.array]
  <2>1. CASE i = 1
    <3>1. ds[i].vars.array = <<u, 0>>
      BY <1>1, <2>1, ArgumentPlace
    <3>2. mem2[<<u, 0>>] = mem[<<u, 0>>]
      BY <1>1, <1>3, UsersArray, ThreadsApart DEF Touches
    <3>3. QED  BY <3>1, <3>2
  <2>2. CASE i # 1
    <3>1. i - 1 \in 1..Len(ds)
      BY <1>2, <2>2
    <3>2. ds[i].vars.array = Owner(safe, u, i - 1, ds[i - 1].parser)
      BY <1>1, <2>2, ArgumentPlace
    <3>3. QED  BY <1>4, <3>1, <3>2
  <2>3. QED  BY <2>1, <2>2
<1>6. ASSUME NEW i \in 1..Len(ds)
      PROVE  FrameOK(safe, u, i, ds[i], mem2)
  <2>1. FrameOK(safe, u, i, ds[i], mem)
    BY DEF ThreadOK, FramesOK
  <2>2. QED  BY <1>4, <1>5, <2>1, FrameKept
<1>7. ReturnedOK(safe, u, ds, mem2, err2)
  <2>1. SUFFICES ASSUME Len(ds) > 0, ds[Len(ds)].checks # NoParser
                 PROVE  ReturnedOK(safe, u, ds, mem2, err2)
    BY DEF ReturnedOK
  <2> DEFINE n == Len(ds)
             q == ds[n].checks
  <2>2. n \in 1..Len(ds)
    BY <1>2, <2>1
  <2>3. ReturnedOK(safe, u, ds, mem, err) /\ FrameOK(safe, u, n, ds[n], mem)
    BY <2>2 DEF ThreadOK, FramesOK
  <2>4. ds[n] \in Activations /\ ds[n].parser \in Evaluates(setting, u)
    BY <1>1, <2>2, OwnerTyped DEF ChainOK
  <2>5. q \in Callees(ds[n].parser) /\ q \in Parsers
    <3> DEFINE k == Done(ds[n])
               p == ds[n].parser
    <3>1. p \in Parsers /\ k \in 0..Len(Code[p]) /\ k < Len(Code[p])
          /\ Code[p][k + 1] = [op |-> "cPCall", arg |-> q]
      BY <2>1, <2>3, <2>4 DEF FrameOK, Activations
    <3>2. Code[p] \in Seq(Operations)
      BY <3>1, CodeAssumption
    <3>3. Len(Code[p]) \in Nat
      BY <3>2, LenProperties
    <3>4. k + 1 \in 1..Len(Code[p])
      BY <3>1, <3>3
    <3> HIDE DEF k, q
    <3>5. q \in Parsers /\ q \in Callees(p)
      BY <3>1, <3>4, OperationTyped
    <3>6. QED  BY <3>5
  <2>6. err2[q] = err[q]
    <3>1. CASE Len(cs) > 0
      <4>1. Last(cs).parser \in Evaluates(setting, t)
        BY <1>3, <3>1 DEF ChainOK
      <4>2. Last(cs).parser # q
        BY <2>4, <2>5, <4>1 DEF Apart
      <4>3. QED  BY <2>5, <4>2 DEF Touches
    <3>2. CASE ~(Len(cs) > 0)
      BY <2>5, <3>2 DEF Touches
    <3>3. QED  BY <3>1, <3>2
  <2>7. Top(safe, u, n, ds[n], mem2) = Top(safe, u, n, ds[n], mem)
    BY <1>4, <2>2 DEF Top
  <2>8. QED  BY <2>3, <2>6, <2>7 DEF ReturnedOK
<1>8. OutcomeOK(setting, u, ds, out, err2)
  <2>1. OutcomeOK(setting, u, ds, out, err)
    BY DEF ThreadOK
  <2>2. ASSUME out # Nothing, \A w \in Threads \ {u} : out.parser \notin setting.uses[w]
        PROVE  err2[out.parser] = err[out.parser]
    <3>1. out.parser \in setting.uses[u] /\ out.parser \in Parsers
      BY <2>1, <2>2 DEF OutcomeOK, Outcomes
    <3>2. out.parser \notin Evaluates(setting, t)
      BY <2>2, <3>1, UsedByBoth
    <3>3. Len(cs) > 0 => Last(cs).parser \in Evaluates(setting, t)
      BY <1>3 DEF ChainOK
    <3>4. QED  BY <3>1, <3>2, <3>3 DEF Touches
  <2>3. QED  BY <2>1, <2>2 DEF OutcomeOK
<1>9. QED  BY <1>1, <1>6, <1>7, <1>8 DEF ThreadOK, FramesOK

(***************************************************************************)
(* The activations of the thread that steps.                               *)
(***************************************************************************)

\* The innermost activation.
LEMMA LastActivation ==
  ASSUME NEW s \in Settings, NEW t \in Threads, NEW cs, ChainOK(s, t, cs), Len(cs) > 0
  PROVE  /\ Len(cs) \in 1..Len(cs)
         /\ Last(cs) = cs[Len(cs)]
         /\ Last(cs) \in Activations
         /\ cs \in Seq(Activations)
<1>1. cs \in Seq(Activations)
  BY DEF ChainOK
<1>2. Len(cs) \in 1..Len(cs)
  BY <1>1, LenProperties
<1>3. QED  BY <1>1, <1>2, ElementOfSeq DEF Last

\* The activations below the innermost.
LEMMA FrontChain ==
  ASSUME NEW s \in Settings, NEW t \in Threads, NEW cs, ChainOK(s, t, cs), Len(cs) > 0
  PROVE  /\ ChainOK(s, t, Front(cs))
         /\ Len(Front(cs)) = Len(cs) - 1
         /\ Len(cs) - 1 \in Nat
         /\ \A i \in 1..(Len(cs) - 1) : Front(cs)[i] = cs[i]
<1> DEFINE fs == Front(cs)
           n  == Len(cs)
<1>1. cs \in Seq(Activations)
  BY DEF ChainOK
<1>2. /\ n \in Nat /\ fs \in Seq(Activations) /\ Len(fs) = n - 1
      /\ \A i \in 1..(n - 1) : fs[i] = cs[i]
  BY <1>1, FrontLast, LenProperties
<1> HIDE DEF fs
<1>3. n - 1 \in Nat /\ \A i \in 1..(n - 1) : i \in 1..n /\ i < n
  BY <1>2
<1>4. n - 1 > 0 => 1 \in 1..(n - 1)
  BY <1>3
<1>5. Len(fs) > 0 => fs[1].parser \in s.uses[t]
  BY <1>2, <1>4 DEF ChainOK
<1>6. \A i \in 1..Len(fs) : /\ fs[i].parser \in Evaluates(s, t)
                            /\ i + Rank[fs[i].parser] <= MaxDepth + 1
  BY <1>2, <1>3 DEF ChainOK
<1>7. \A i, j \in 1..Len(fs) : i < j => Rank[fs[j].parser] < Rank[fs[i].parser]
  BY <1>2, <1>3 DEF ChainOK
<1>8. ASSUME NEW i \in 1..Len(fs)
      PROVE  fs[i].vars = IF i = 1 THEN [array |-> <<t, 0>>, index |-> 1]
                    ELSE [array |-> Owner(s.threadSafe, t, i - 1, fs[i - 1].parser),
                          index |-> fs[i - 1].sp]
  <2>1. i \in 1..n /\ fs[i] = cs[i] /\ (i # 1 => fs[i - 1] = cs[i - 1])
    BY <1>2, <1>3
  <2>2. QED  BY <2>1 DEF ChainOK
<1>9. ASSUME NEW i \in 1..Len(fs), i < Len(fs)
      PROVE  fs[i].checks = fs[i + 1].parser
  <2>1. i \in 1..n /\ i < n /\ fs[i] = cs[i] /\ fs[i + 1] = cs[i + 1]
    BY <1>2, <1>3, <1>9
  <2>2. QED  BY <2>1 DEF ChainOK
<1>10. ChainOK(s, t, fs)
  BY <1>2, <1>5, <1>6, <1>7, <1>8, <1>9 DEF ChainOK
<1>11. QED  BY <1>2, <1>3, <1>10 DEF fs

\* One more activation.
LEMMA ChainAppended ==
  ASSUME NEW s \in Settings, NEW t \in Threads, NEW cs, ChainOK(s, t, cs),
         NEW d \in Activations, d.parser \in Evaluates(s, t),
         Len(cs) = 0 => /\ d.parser \in s.uses[t]
                        /\ d.vars = [array |-> <<t, 0>>, index |-> 1],
         Len(cs) > 0 => /\ Last(cs).checks = d.parser
                        /\ Rank[d.parser] < Rank[Last(cs).parser]
                        /\ d.vars = [array |-> Owner(s.threadSafe, t, Len(cs), Last(cs).parser),
                                     index |-> Last(cs).sp]
  PROVE  /\ ChainOK(s, t, Append(cs, d))
         /\ Len(Append(cs, d)) = Len(cs) + 1
         /\ \A i \in 1..Len(cs) : Append(cs, d)[i] = cs[i]
         /\ Append(cs, d)[Len(cs) + 1] = d
         /\ Last(Append(cs, d)) = d
         /\ Len(cs) \in Nat
<1> DEFINE es == Append(cs, d)
           n  == Len(cs)
<1>1. cs \in Seq(Activations)
  BY DEF ChainOK
<1>2. /\ n \in Nat /\ es \in Seq(Activations) /\ Len(es) = n + 1
      /\ \A i \in 1..n : es[i] = cs[i]
      /\ es[n + 1] = d
      /\ Last(es) = d
  BY <1>1, Appended
<1> HIDE DEF es
<1>3. \A i \in 1..(n + 1) : i \in 1..n \/ i = n + 1
  BY <1>2
<1>4. n > 0 => n \in 1..n /\ 1 \in 1..n /\ Last(cs) = cs[n]
  BY <1>2 DEF Last
<1>5. n = 0 \/ n > 0
  BY <1>2
<1>6. d.parser \in Parsers /\ Rank[d.parser] \in 1..MaxDepth /\ MaxDepth \in Nat
  BY RankHolds, ConstantsAssumption DEF Activations
<1>7. n > 0 => /\ n + Rank[Last(cs).parser] <= MaxDepth + 1
               /\ Rank[Last(cs).parser] \in 1..MaxDepth
  <2>1. SUFFICES ASSUME n > 0
                 PROVE  /\ n + Rank[Last(cs).parser] <= MaxDepth + 1
                        /\ Rank[Last(cs).parser] \in 1..MaxDepth
    OBVIOUS
  <2>2. n \in 1..n /\ Last(cs) = cs[n]
    BY <1>4, <2>1
  <2>3. n + Rank[cs[n].parser] <= MaxDepth + 1
    BY <2>2 DEF ChainOK
  <2>4. cs[n].parser \in Parsers
    BY <2>2, OwnerTyped
  <2>5. QED  BY <2>2, <2>3, <2>4, RankHolds
<1>8. es[1].parser \in s.uses[t]
  <2>1. CASE n = 0
    BY <1>2, <2>1
  <2>2. CASE n > 0
    BY <1>2, <1>4, <2>2 DEF ChainOK
  <2>3. QED  BY <1>5, <2>1, <2>2
<1>9. (n + 1) + Rank[d.parser] <= MaxDepth + 1
  BY <1>2, <1>5, <1>6, <1>7
<1>10. \A i \in 1..(n + 1) : /\ es[i].parser \in Evaluates(s, t)
                             /\ i + Rank[es[i].parser] <= MaxDepth + 1
  BY <1>2, <1>3, <1>9 DEF ChainOK
<1>11. ASSUME NEW i \in 1..(n + 1), NEW j \in 1..(n + 1), i < j
       PROVE  Rank[es[j].parser] < Rank[es[i].parser]
  <2>1. i \in 1..n /\ es[i] = cs[i]
    BY <1>2, <1>11
  <2>2. CASE j \in 1..n
    BY <1>2, <1>11, <2>1, <2>2 DEF ChainOK
  <2>3. CASE j = n + 1
    <3>1. Rank[d.parser] < Rank[Last(cs).parser] /\ n \in 1..n /\ Last(cs) = cs[n]
      BY <1>2, <1>4, <2>1
    <3>2. i = n \/ Rank[cs[n].parser] < Rank[cs[i].parser]
      BY <1>2, <2>1, <3>1 DEF ChainOK
    <3>3. Rank[cs[n].parser] \in Int /\ Rank[cs[i].parser] \in Int
      BY <2>1, <3>1, OwnerTyped, RankHolds
    <3>4. QED  BY <1>2, <1>6, <2>1, <2>3, <3>1, <3>2, <3>3
  <2>4. QED  BY <1>3, <2>2, <2>3
<1>12. ASSUME NEW i \in 1..(n + 1)
       PROVE  es[i].vars = IF i = 1 THEN [array |-> <<t, 0>>, index |-> 1]
                     ELSE [array |-> Owner(s.threadSafe, t, i - 1, es[i - 1].parser),
                           index |-> es[i - 1].sp]
  <2>1. CASE i \in 1..n
    <3>1. es[i] = cs[i] /\ (i # 1 => es[i - 1] = cs[i - 1])
      BY <1>2, <2>1
    <3>2. QED  BY <2>1, <3>1 DEF ChainOK
  <2>2. CASE i = n + 1 /\ n = 0
    BY <1>2, <2>2
  <2>3. CASE i = n + 1 /\ n > 0
    <3>1. i # 1 /\ i - 1 = n /\ es[i - 1] = Last(cs) /\ es[i] = d
      BY <1>2, <1>4, <2>3
    <3>2. QED  BY <2>3, <3>1
  <2>4. QED  BY <1>3, <1>5, <2>1, <2>2, <2>3
<1>13. ASSUME NEW i \in 1..(n + 1), i < n + 1
       PROVE  es[i].checks = es[i + 1].parser
  <2>1. i \in 1..n /\ es[i] = cs[i]
    BY <1>2, <1>13
  <2>2. CASE i < n
    <3>1. i + 1 \in 1..n /\ es[i + 1] = cs[i + 1]
      BY <1>2, <2>1, <2>2
    <3>2. QED  BY <2>1, <2>2, <3>1 DEF ChainOK
  <2>3. CASE i = n
    BY <1>2, <1>4, <2>1, <2>3
  <2>4. QED  BY <1>2, <2>1, <2>2, <2>3
<1>14. ChainOK(s, t, es)
  BY <1>2, <1>8, <1>10, <1>11, <1>12, <1>13 DEF ChainOK
<1>15. QED  BY <1>2, <1>14 DEF es

\* The innermost activation goes on: the others are as they were.
LEMMA TopReplaced ==
  ASSUME NEW s \in Settings, NEW t \in Threads, NEW cs, ChainOK(s, t, cs), Len(cs) > 0,
         NEW d \in Activations, d.parser = Last(cs).parser, d.vars = Last(cs).vars
  PROVE  /\ ChainOK(s, t, Append(Front(cs), d))
         /\ Len(Append(Front(cs), d)) = Len(cs)
         /\ \A i \in 1..(Len(cs) - 1) : Append(Front(cs), d)[i] = cs[i]
         /\ Append(Front(cs), d)[Len(cs)] = d
         /\ Last(Append(Front(cs), d)) = d
<1> DEFINE fs == Front(cs)
           n  == Len(cs)
<1>1. /\ n \in 1..n /\ Last(cs) = cs[n]
  BY LastActivation
<1>2. /\ ChainOK(s, t, fs) /\ Len(fs) = n - 1 /\ n - 1 \in Nat
      /\ \A i \in 1..(n - 1) : fs[i] = cs[i]
  BY FrontChain
<1> HIDE DEF fs
<1>3. d.parser \in Evaluates(s, t)
  BY <1>1 DEF ChainOK
<1>4. ASSUME Len(fs) = 0
      PROVE  d.parser \in s.uses[t] /\ d.vars = [array |-> <<t, 0>>, index |-> 1]
  <2>1. n = 1 /\ n \in 1..n
    BY <1>1, <1>2, <1>4
  <2>2. cs[1].parser \in s.uses[t] /\ cs[1].vars = [array |-> <<t, 0>>, index |-> 1]
    BY <2>1 DEF ChainOK
  <2>3. QED  BY <1>1, <2>1, <2>2
<1>5. ASSUME Len(fs) > 0
      PROVE  /\ Last(fs).checks = d.parser
             /\ Rank[d.parser] < Rank[Last(fs).parser]
             /\ d.vars = [array |-> Owner(s.threadSafe, t, Len(fs), Last(fs).parser),
                          index |-> Last(fs).sp]
  <2>1. Last(fs) = cs[n - 1] /\ n - 1 \in 1..n /\ n - 1 < n /\ (n - 1) + 1 = n /\ n # 1
    BY <1>1, <1>2, <1>5 DEF Last
  <2>2. Last(fs).checks = cs[n].parser /\ Rank[cs[n].parser] < Rank[cs[n - 1].parser]
    BY <1>1, <2>1 DEF ChainOK
  <2>3. cs[n].vars = [array |-> Owner(s.threadSafe, t, n - 1, cs[n - 1].parser),
                      index |-> cs[n - 1].sp]
    BY <1>1, <2>1 DEF ChainOK
  <2>4. QED  BY <1>1, <1>2, <2>1, <2>2, <2>3
<1> DEFINE es == Append(fs, d)
<1>6. /\ ChainOK(s, t, es) /\ Len(es) = Len(fs) + 1
      /\ \A i \in 1..Len(fs) : es[i] = fs[i]
      /\ es[Len(fs) + 1] = d /\ Last(es) = d
  BY <1>2, <1>3, <1>4, <1>5, ChainAppended
<1> HIDE DEF es
<1>7. Len(es) = n /\ es[n] = d /\ \A i \in 1..(n - 1) : es[i] = cs[i]
  BY <1>1, <1>2, <1>6
<1>8. QED  BY <1>6, <1>7 DEF es, fs

\* mem2 is mem but in array a.
SameBut(mem, mem2, a) == \A b \in Arrays : b # a => mem2[b] = mem[b]

\* mem2 is mem with x at place i of array a.
Puts(mem, mem2, a, i, x) ==
  /\ mem2 \in [Arrays -> [1..StackSize -> Int]]
  /\ mem2[a][i] = x
  /\ \A j \in 1..StackSize : j # i => mem2[a][j] = mem[a][j]
  /\ SameBut(mem, mem2, a)

\* That is what an assignment to an element does.
LEMMA PutIs ==
  ASSUME NEW mem \in [Arrays -> [1..StackSize -> Int]],
         NEW a \in Arrays, NEW i \in 1..StackSize, NEW x \in Int
  PROVE  Puts(mem, [mem EXCEPT ![a][i] = x], a, i, x)
BY DEF Puts, SameBut

\* The innermost activation and its stack.
LEMMA LastFrame ==
  ASSUME NEW s \in Settings, NEW t \in Threads, NEW cs, ChainOK(s, t, cs), Len(cs) > 0,
         NEW mem, FramesOK(s.threadSafe, t, cs, mem), NEW c, c = Last(cs)
  PROVE  /\ FrameOK(s.threadSafe, t, Len(cs), c, mem)
         /\ c \in Activations /\ c.parser \in Parsers
         /\ ArgumentOf(c, mem) \in Int
         /\ Done(c) \in 0..Len(Code[c.parser]) /\ Len(Code[c.parser]) \in Nat
         /\ Reached(c, mem) \in Moments /\ Reached(c, mem).error = 0
         /\ c.sp = Len(Reached(c, mem).stack) /\ c.sp = Height(c.parser)[Done(c) + 1]
         /\ c.sp \in 0..StackSize
         /\ \A j \in 1..c.sp :
              mem[Owner(s.threadSafe, t, Len(cs), c.parser)][j] = Reached(c, mem).stack[j]
         /\ Owner(s.threadSafe, t, Len(cs), c.parser) \in Arrays
<1> DEFINE k == Done(c)
           m == Reached(c, mem)
<1>1. Len(cs) \in 1..Len(cs) /\ c = cs[Len(cs)] /\ c \in Activations
  BY LastActivation
<1>2. FrameOK(s.threadSafe, t, Len(cs), c, mem)
  BY <1>1 DEF FramesOK
<1>3. c.parser \in Parsers
  BY <1>1 DEF Activations
<1>4. /\ ArgumentOf(c, mem) \in Int
      /\ k \in 0..Len(Code[c.parser])
      /\ m.error = 0
      /\ c.sp = Len(m.stack)
      /\ \A j \in 1..c.sp : mem[Owner(s.threadSafe, t, Len(cs), c.parser)][j] = m.stack[j]
  BY <1>2 DEF FrameOK
<1>5. Len(Code[c.parser]) \in Nat /\ AtHeight(m, c.parser, k + 1)
  BY <1>3, <1>4, RunSteps, RunTyped, GivenIs DEF Reached
<1>6. m \in Moments /\ c.sp = Height(c.parser)[k + 1]
  BY <1>4, <1>5 DEF AtHeight
<1>7. k + 1 \in 1..(Len(Code[c.parser]) + 1)
  BY <1>4, <1>5
<1>8. Height(c.parser)[k + 1] \in 0..StackSize
  BY <1>3, <1>7, HeightHolds
<1>9. Owner(s.threadSafe, t, Len(cs), c.parser) \in Arrays
  BY <1>1, OwnerTyped
<1>10. QED  BY <1>1, <1>2, <1>3, <1>4, <1>5, <1>6, <1>8, <1>9

\* Activations below the innermost keep their stacks while it works on its own.
LEMMA LowerKept ==
  ASSUME NEW s \in Settings, NEW t \in Threads, NEW cs, ChainOK(s, t, cs), Len(cs) > 0,
         NEW mem, FramesOK(s.threadSafe, t, cs, mem), NEW mem2,
         SameBut(mem, mem2, Owner(s.threadSafe, t, Len(cs), Last(cs).parser))
  PROVE  \A i \in 1..(Len(cs) - 1) : FrameOK(s.threadSafe, t, i, cs[i], mem2)
<1>1. Len(cs) \in 1..Len(cs) /\ Last(cs) = cs[Len(cs)]
  BY LastActivation
<1>2. ASSUME NEW i \in 1..Len(cs)
      PROVE  mem2[cs[i].vars.array] = mem[cs[i].vars.array]
  BY ArgumentsApart DEF SameBut
<1>3. ASSUME NEW i \in 1..(Len(cs) - 1)
      PROVE  FrameOK(s.threadSafe, t, i, cs[i], mem2)
  <2>1. i \in 1..Len(cs) /\ i # Len(cs)
    BY <1>1
  <2>2. mem2[Owner(s.threadSafe, t, i, cs[i].parser)] = mem[Owner(s.threadSafe, t, i, cs[i].parser)]
    BY <1>1, <2>1, OwnersApart, OwnerTyped DEF SameBut
  <2>3. FrameOK(s.threadSafe, t, i, cs[i], mem)
    BY <2>1 DEF FramesOK
  <2>4. QED  BY <1>2, <2>1, <2>2, <2>3, FrameKept
<1>4. QED  BY <1>3

\* So does its own argument.
LEMMA ArgumentKept ==
  ASSUME NEW s \in Settings, NEW t \in Threads, NEW cs, ChainOK(s, t, cs), Len(cs) > 0,
         NEW mem, NEW mem2,
         SameBut(mem, mem2, Owner(s.threadSafe, t, Len(cs), Last(cs).parser))
  PROVE  ArgumentOf(Last(cs), mem2) = ArgumentOf(Last(cs), mem)
<1>1. Len(cs) \in 1..Len(cs) /\ Last(cs) = cs[Len(cs)]
  BY LastActivation
<1>2. /\ cs[Len(cs)].vars.array \in Arrays
      /\ cs[Len(cs)].vars.array # Owner(s.threadSafe, t, Len(cs), Last(cs).parser)
  BY <1>1, ArgumentsApart
<1>3. QED  BY <1>1, <1>2 DEF ArgumentOf, SameBut

\* m is where Eval(), alone, is one operation further, without an error.
Further(c, mem, m) ==
  /\ Done(c) < Len(Code[c.parser])
  /\ m = Reaching(c, mem)
  /\ m.error = 0

\* What m has on top of its stack has been put on stack a.
PutOnTop(mem, mem2, a, m) ==
  /\ \A j \in 1..(Len(m.stack) - 1) : mem[a][j] = m.stack[j]
  /\ Puts(mem, mem2, a, Len(m.stack), m.stack[Len(m.stack)])

\* d is activation c gone on to m.
GoneOn(c, d, m) ==
  /\ d \in Activations /\ d.parser = c.parser /\ d.vars = c.vars
  /\ d.ip = Done(c) + 2 /\ d.sp = Len(m.stack) /\ d.checks = NoParser

\* The innermost activation has completed one more operation, whose result is
\* on top of its stack.
LEMMA MovesOn ==
  ASSUME NEW s \in Settings, NEW t \in Threads, NEW cs, ChainOK(s, t, cs), Len(cs) > 0,
         NEW mem, FramesOK(s.threadSafe, t, cs, mem), NEW mem2,
         NEW m, Further(Last(cs), mem, m),
         PutOnTop(mem, mem2, Owner(s.threadSafe, t, Len(cs), Last(cs).parser), m),
         NEW d, GoneOn(Last(cs), d, m)
  PROVE  /\ ChainOK(s, t, Append(Front(cs), d))
         /\ FramesOK(s.threadSafe, t, Append(Front(cs), d), mem2)
<1> DEFINE safe == s.threadSafe
           n  == Len(cs)
           c  == Last(cs)
           k  == Done(c)
           es == Append(Front(cs), d)
           o  == Owner(safe, t, n, c.parser)
<1>1. /\ k < Len(Code[c.parser]) /\ m.error = 0
      /\ m = Run(c.parser, ArgumentOf(c, mem), Given)[k + 1]
      /\ \A j \in 1..(Len(m.stack) - 1) : mem[o][j] = m.stack[j]
      /\ Puts(mem, mem2, o, Len(m.stack), m.stack[Len(m.stack)])
      /\ d \in Activations /\ d.parser = c.parser /\ d.vars = c.vars
      /\ d.ip = k + 2 /\ d.sp = Len(m.stack) /\ d.checks = NoParser
  BY DEF Further, PutOnTop, GoneOn, Reaching
<1> HIDE DEF c, k
<1>2. /\ ChainOK(s, t, es) /\ Len(es) = n /\ es[n] = d /\ Last(es) = d
      /\ \A i \in 1..(n - 1) : es[i] = cs[i]
  BY <1>1, TopReplaced DEF c
<1>3. n \in Nat /\ \A i \in 1..n : i \in 1..(n - 1) \/ i = n
  BY LastActivation
<1>4. /\ ArgumentOf(c, mem) \in Int
      /\ k \in 0..Len(Code[c.parser]) /\ Len(Code[c.parser]) \in Nat
      /\ c \in Activations /\ c.parser \in Parsers
  <2>1. /\ ArgumentOf(c, mem) \in Int /\ c \in Activations
        /\ k \in 0..Len(Code[c.parser]) /\ Len(Code[c.parser]) \in Nat
    BY LastFrame DEF c, k
  <2>2. QED  BY <2>1 DEF Activations
<1>5. SameBut(mem, mem2, o)
  BY <1>1 DEF Puts
<1>6. /\ \A i \in 1..(n - 1) : FrameOK(safe, t, i, cs[i], mem2)
      /\ ArgumentOf(c, mem2) = ArgumentOf(c, mem)
  <2>1. \A i \in 1..(n - 1) : FrameOK(safe, t, i, cs[i], mem2)
    BY <1>5, LowerKept DEF c
  <2>2. ArgumentOf(c, mem2) = ArgumentOf(c, mem)
    BY <1>5, ArgumentKept DEF c
  <2>3. QED  BY <2>1, <2>2
<1>7. ArgumentOf(d, mem2) = ArgumentOf(c, mem) /\ Done(d) = k + 1
  <2>1. ArgumentOf(d, mem2) = ArgumentOf(c, mem2)
    <3>1. d.vars = c.vars
      BY <1>1
    <3>2. QED  BY <3>1 DEF ArgumentOf
  <2>2. Done(d) = (k + 2) - 1
    BY <1>1 DEF Done
  <2>3. k \in Int
    BY <1>4
  <2>4. QED  BY <1>6, <2>1, <2>2, <2>3
<1>8. k + 1 \in 0..Len(Code[c.parser])
  BY <1>1, <1>4
<1>9. AtHeight(m, c.parser, (k + 1) + 1)
  BY <1>1, <1>4, <1>8, RunTyped, GivenIs
<1>10. (k + 1) + 1 \in 1..(Len(Code[c.parser]) + 1)
  BY <1>4, <1>8
<1>11. Height(c.parser)[(k + 1) + 1] \in 0..StackSize
  BY <1>4, <1>10, HeightHolds
<1>12. Len(m.stack) \in 0..StackSize /\ StackSize \in Nat
  BY <1>1, <1>9, <1>11, ConstantsAssumption DEF AtHeight
<1>13. ASSUME NEW j \in 1..Len(m.stack)
       PROVE  mem2[o][j] = m.stack[j]
  <2>1. j \in 1..StackSize
    BY <1>12
  <2>2. CASE j = Len(m.stack)
    BY <1>1, <2>2 DEF Puts
  <2>3. CASE j # Len(m.stack)
    <3>1. j \in 1..(Len(m.stack) - 1)
      BY <1>12, <2>3
    <3>2. QED  BY <1>1, <2>1, <2>3, <3>1 DEF Puts
  <2>4. QED  BY <2>2, <2>3
<1>14. FrameOK(safe, t, n, d, mem2)
  BY <1>1, <1>4, <1>7, <1>8, <1>13 DEF FrameOK, Reached
<1>15. ASSUME NEW i \in 1..n
       PROVE  FrameOK(safe, t, i, es[i], mem2)
  <2> HIDE DEF es
  <2>1. QED  BY <1>2, <1>3, <1>6, <1>14
<1>16. FramesOK(safe, t, es, mem2)
  BY <1>2, <1>15 DEF FramesOK
<1>17. QED  BY <1>2, <1>16

\* Eval() returns to the cPCall that made it: what it gives alone.
LEMMA ReturnsUp ==
  ASSUME NEW s \in Settings, NEW t \in Threads, NEW cs, ChainOK(s, t, cs), Len(cs) > 1,
         NEW mem, FramesOK(s.threadSafe, t, cs, mem), NEW mem2,
         SameBut(mem, mem2, Owner(s.threadSafe, t, Len(cs), Last(cs).parser)),
         NEW given, given = Given[Last(cs).parser][ArgumentOf(Last(cs), mem)],
         given \in Results, NEW err2, err2[Last(cs).parser] = given.error,
         NEW fs, fs = Front(cs),
         NEW d \in Activations, d.parser = Last(fs).parser, d.vars = Last(fs).vars,
         d.ip = Last(fs).ip, d.sp = Last(fs).sp, d.checks = Last(fs).checks,
         d.retVal = given.value
  PROVE  /\ ChainOK(s, t, Append(Front(fs), d))
         /\ FramesOK(s.threadSafe, t, Append(Front(fs), d), mem2)
         /\ ReturnedOK(s.threadSafe, t, Append(Front(fs), d), mem2, err2)
         /\ Len(Append(Front(fs), d)) > 0
<1> DEFINE safe == s.threadSafe
           n  == Len(cs)
           es == Append(Front(fs), d)
           c  == Last(fs)
<1>1. n \in 1..n /\ Last(cs) = cs[n] /\ n # 1
  BY LastActivation
<1>2. /\ ChainOK(s, t, fs) /\ Len(fs) = n - 1 /\ n - 1 \in Nat /\ n - 1 > 0
      /\ \A i \in 1..(n - 1) : fs[i] = cs[i]
  BY <1>1, FrontChain
<1>3. c = cs[n - 1] /\ c \in Activations /\ n - 1 \in 1..(n - 1) /\ n - 1 \in 1..n /\ n - 1 < n
  BY <1>1, <1>2, LastActivation
<1>4. /\ d \in Activations /\ d.parser = c.parser /\ d.vars = c.vars /\ d.ip = c.ip
      /\ d.sp = c.sp /\ d.checks = c.checks /\ d.retVal = given.value
  OBVIOUS
<1>5. /\ ChainOK(s, t, es) /\ Len(es) = n - 1 /\ es[n - 1] = d /\ Last(es) = d
      /\ \A i \in 1..((n - 1) - 1) : es[i] = fs[i]
  <2>1. /\ ChainOK(s, t, es) /\ Len(es) = Len(fs) /\ es[Len(fs)] = d /\ Last(es) = d
        /\ \A i \in 1..(Len(fs) - 1) : es[i] = fs[i]
    <3>1. Len(fs) > 0 /\ ChainOK(s, t, fs)
      BY <1>2
    <3>2. d \in Activations /\ d.parser = Last(fs).parser /\ d.vars = Last(fs).vars
      BY <1>4
    <3> HIDE DEF safe, n, c
    <3>3. ChainOK(s, t, Append(Front(fs), d))
      BY <3>1, <3>2, TopReplaced
    <3>4. Len(es) = Len(fs)
      BY <3>1, <3>2, TopReplaced
    <3>5. es[Len(fs)] = d /\ Last(es) = d
      BY <3>1, <3>2, TopReplaced
    <3>6. \A i \in 1..(Len(fs) - 1) : es[i] = fs[i]
      BY <3>1, <3>2, TopReplaced
    <3>7. QED  BY <3>3, <3>4, <3>5, <3>6
  <2>2. QED  BY <1>2, <2>1
<1> HIDE DEF es
<1>6. \A i \in 1..(n - 1) : FrameOK(safe, t, i, cs[i], mem2)
  <2>1. Len(cs) > 0
    BY <1>1
  <2> HIDE DEF n, c, safe
  <2>2. \A i \in 1..(Len(cs) - 1) : FrameOK(s.threadSafe, t, i, cs[i], mem2)
    BY <2>1, LowerKept
  <2>3. QED  BY <2>2 DEF n, safe
<1>7. FrameOK(safe, t, n - 1, d, mem2)
  <2>1. FrameOK(safe, t, n - 1, c, mem2)
    BY <1>3, <1>6
  <2> HIDE DEF c, n, safe
  <2>2. QED  BY <1>4, <2>1, FrameKept
<1>8. ASSUME NEW i \in 1..(n - 1)
      PROVE  FrameOK(safe, t, i, es[i], mem2)
  <2>1. i = n - 1 \/ i \in 1..((n - 1) - 1)
    BY <1>2
  <2>2. QED  BY <1>2, <1>5, <1>6, <1>7, <2>1
<1>9. FramesOK(safe, t, es, mem2)
  BY <1>5, <1>8 DEF FramesOK
<1>10. d.checks = Last(cs).parser
  <2>1. (n - 1) + 1 = n
    BY <1>1
  <2>2. cs[n - 1].checks = cs[(n - 1) + 1].parser
    BY <1>3 DEF ChainOK
  <2>3. QED  BY <1>1, <1>3, <1>4, <2>1, <2>2
<1>11. Top(safe, t, n - 1, d, mem2) = ArgumentOf(Last(cs), mem)
  <2>1. cs[n].vars = [array |-> Owner(safe, t, n - 1, cs[n - 1].parser), index |-> cs[n - 1].sp]
    BY <1>1 DEF ChainOK
  <2>2. ArgumentOf(Last(cs), mem) = mem[Owner(safe, t, n - 1, c.parser)][c.sp]
    <3>1. /\ Last(cs).vars.array = Owner(safe, t, n - 1, c.parser)
          /\ Last(cs).vars.index = c.sp
      BY <1>1, <1>3, <2>1
    <3>2. QED  BY <3>1 DEF ArgumentOf
  <2>3. mem2[Owner(safe, t, n - 1, c.parser)] = mem[Owner(safe, t, n - 1, c.parser)]
    BY <1>1, <1>3, OwnersApart, OwnerTyped DEF SameBut
  <2>4. QED  BY <1>4, <2>2, <2>3 DEF Top
<1>12. ReturnedOK(safe, t, es, mem2, err2)
  BY <1>4, <1>5, <1>10, <1>11 DEF ReturnedOK
<1>13. QED  BY <1>2, <1>5, <1>9, <1>12 DEF es

(***************************************************************************)
(* Each action keeps the invariant.                                        *)
(***************************************************************************)

\* What a step of thread t has to do.
StepOK(t) ==
  /\ Typed'
  /\ setting' = setting
  /\ \A u \in Threads : u # t => calls'[u] = calls[u] /\ outcome'[u] = outcome[u]
  /\ Touches(t, calls[t], memory, memory', evalError, evalError')
  /\ ThreadOK(setting, t, calls'[t], memory', evalError', outcome'[t])

\* A step of one thread keeps the invariant for all, where they keep apart.
LEMMA StepKeeps ==
  ASSUME IInv, Apart(setting), NEW t \in Threads, StepOK(t)
  PROVE  IInv'
<1>1. /\ Typed' /\ setting' = setting /\ setting \in Settings
      /\ \A u \in Threads : u # t => calls'[u] = calls[u] /\ outcome'[u] = outcome[u]
      /\ Touches(t, calls[t], memory, memory', evalError, evalError')
  BY DEF StepOK, IInv, Typed
<1>2. ASSUME NEW u \in Threads
      PROVE  ThreadOK(setting, u, calls'[u], memory', evalError', outcome'[u])
  <2>1. CASE u = t
    BY <2>1 DEF StepOK
  <2>2. CASE u # t
    <3>1. ChainOK(setting, t, calls[t])
      BY DEF IInv, ThreadOK
    <3>2. ThreadOK(setting, u, calls[u], memory, evalError, outcome[u])
      BY DEF IInv
    <3>3. ThreadOK(setting, u, calls[u], memory', evalError', outcome[u])
      BY <1>1, <2>2, <3>1, <3>2, OthersKept
    <3>4. QED  BY <1>1, <2>2, <3>3
  <2>3. QED  BY <2>1, <2>2
<1>3. QED  BY <1>1, <1>2 DEF IInv

\* A thread inside Eval().
LEMMA Inside ==
  ASSUME IInv, NEW t \in Threads, calls[t] # <<>>
  PROVE  /\ setting \in Settings /\ Typed
         /\ ChainOK(setting, t, calls[t]) /\ Len(calls[t]) > 0 /\ Len(calls[t]) \in Nat
         /\ FramesOK(setting.threadSafe, t, calls[t], memory)
         /\ ReturnedOK(setting.threadSafe, t, calls[t], memory, evalError)
         /\ outcome[t] = Nothing
         /\ Here(t) = Last(calls[t])
         /\ Here(t) \in Activations /\ Here(t).parser \in Parsers
         /\ StackOwner(t, Len(calls[t]), Here(t).parser)
              = Owner(setting.threadSafe, t, Len(calls[t]), Here(t).parser)
         /\ Owner(setting.threadSafe, t, Len(calls[t]), Here(t).parser) \in Arrays
<1>1. /\ ThreadOK(setting, t, calls[t], memory, evalError, outcome[t])
      /\ setting \in Settings /\ Typed
  BY DEF IInv, Typed
<1>2. /\ ChainOK(setting, t, calls[t])
      /\ FramesOK(setting.threadSafe, t, calls[t], memory)
      /\ ReturnedOK(setting.threadSafe, t, calls[t], memory, evalError)
      /\ outcome[t] = Nothing
  BY <1>1 DEF ThreadOK, OutcomeOK
<1>3. calls[t] \in Seq(Activations)
  BY <1>2 DEF ChainOK
<1>4. Len(calls[t]) > 0 /\ Len(calls[t]) \in Nat
  BY <1>3, EmptySeq, LenProperties
<1>5. Here(t) = Last(calls[t])
  BY DEF Here
<1>6. Here(t) \in Activations /\ Here(t) = calls[t][Len(calls[t])] /\ Len(calls[t]) \in 1..Len(calls[t])
  BY <1>1, <1>2, <1>4, <1>5, LastActivation
<1>7. Owner(setting.threadSafe, t, Len(calls[t]), Here(t).parser) \in Arrays
  BY <1>1, <1>2, <1>6, OwnerTyped
<1>8. Here(t).parser \in Parsers
  BY <1>6 DEF Activations
<1>9. QED  BY <1>1, <1>2, <1>4, <1>5, <1>6, <1>7, <1>8 DEF StackOwner, Owner

\* The innermost activation goes on.
LEMMA GoneOnOK ==
  ASSUME IInv, NEW t \in Threads, calls[t] # <<>>, NEW c, c = Here(t),
         NEW m, Further(c, memory, m),
         PutOnTop(memory, memory', Owner(setting.threadSafe, t, Len(calls[t]), c.parser), m),
         NEW d, GoneOn(c, d, m),
         calls' = [calls EXCEPT ![t] = Append(Front(calls[t]), d)],
         UNCHANGED <<setting, evalError, outcome>>
  PROVE  StepOK(t)
<1> DEFINE cs == calls[t]
           safe == setting.threadSafe
           o == Owner(safe, t, Len(cs), c.parser)
           es == Append(Front(cs), d)
<1>1. /\ setting \in Settings /\ Typed
      /\ ChainOK(setting, t, cs) /\ Len(cs) > 0
      /\ FramesOK(safe, t, cs, memory)
      /\ outcome[t] = Nothing /\ c = Last(cs) /\ c.parser \in Parsers
  BY Inside
<1>2. calls = [u \in Threads |-> calls[u]] /\ evalError \in [Parsers -> Int]
      /\ outcome = [u \in Threads |-> outcome[u]]
  BY <1>1 DEF Typed
<1>3. /\ calls' = [u \in Threads |-> calls'[u]]
      /\ calls'[t] = es
      /\ \A u \in Threads : u # t => calls'[u] = calls[u]
      /\ setting' = setting /\ outcome' = outcome /\ evalError' = evalError
  BY <1>2
<1>4. Typed'
  <2>1. memory' \in [Arrays -> [1..StackSize -> Int]]
    BY DEF PutOnTop, Puts
  <2>2. QED  BY <1>1, <1>2, <1>3, <2>1 DEF Typed
<1>5. /\ ChainOK(setting, t, es)
      /\ FramesOK(safe, t, es, memory')
  <2> HIDE DEF cs
  <2>1. PutOnTop(memory, memory', o, m)
    BY DEF cs
  <2>2. QED  BY <1>1, <2>1, MovesOn
<1>6. Len(es) > 0 /\ Last(es).checks = NoParser
  <2>1. d \in Activations /\ d.parser = c.parser /\ d.vars = c.vars /\ d.checks = NoParser
    BY DEF GoneOn
  <2>2. Len(es) = Len(cs) /\ Last(es) = d
    BY <1>1, <2>1, TopReplaced
  <2>3. QED  BY <1>1, <2>1, <2>2
<1>7. ReturnedOK(safe, t, es, memory', evalError')
  <2> HIDE DEF es
  <2>1. QED  BY <1>6 DEF ReturnedOK, Last
<1>8. OutcomeOK(setting, t, es, outcome[t], evalError')
  BY <1>1 DEF OutcomeOK
<1>9. ThreadOK(setting, t, calls'[t], memory', evalError', outcome'[t])
  BY <1>3, <1>5, <1>7, <1>8 DEF ThreadOK
<1>10. Touches(t, cs, memory, memory', evalError, evalError')
  BY <1>1, <1>3 DEF Touches, PutOnTop, Puts, SameBut
<1> HIDE DEF cs
<1>11. QED  BY <1>3, <1>4, <1>9, <1>10 DEF StepOK, cs

\* An assignment to the stack.
LEMMA PutOK ==
  ASSUME IInv, NEW t \in Threads, calls[t] # <<>>, NEW c, c = Here(t),
         NEW i \in 1..StackSize, NEW x \in Int, Put(t, i, x)
  PROVE  Puts(memory, memory', Owner(setting.threadSafe, t, Len(calls[t]), c.parser), i, x)
<1> DEFINE o == Owner(setting.threadSafe, t, Len(calls[t]), c.parser)
<1>1. Typed /\ StackOwner(t, Len(calls[t]), c.parser) = o /\ o \in Arrays
  BY Inside
<1>2. memory' = [memory EXCEPT ![o][i] = x]
  BY <1>1 DEF Put
<1>3. memory \in [Arrays -> [1..StackSize -> Int]]
  BY <1>1 DEF Typed
<1> HIDE DEF o
<1>4. Puts(memory, memory', o, i, x)
  BY <1>1, <1>2, <1>3, PutIs
<1>5. QED  BY <1>4 DEF o

\* The height of a stack one operation further.
LEMMA ReachingTyped ==
  ASSUME NEW c, c.parser \in Parsers, NEW mem, ArgumentOf(c, mem) \in Int,
         Done(c) \in 0..Len(Code[c.parser]), Done(c) < Len(Code[c.parser]),
         Reaching(c, mem).error = 0
  PROVE  Len(Reaching(c, mem).stack) \in 0..StackSize
<1> DEFINE p == c.parser
           k == Done(c)
<1>1. Len(Code[p]) \in Nat
  BY CodeAssumption, LenProperties
<1>2. k + 1 \in 0..Len(Code[p]) /\ (k + 1) + 1 \in 1..(Len(Code[p]) + 1)
  BY <1>1
<1>3. AtHeight(Reaching(c, mem), p, (k + 1) + 1)
  BY <1>2, RunTyped, GivenIs DEF Reaching
<1>4. Height(p)[(k + 1) + 1] \in 0..StackSize
  BY <1>2, HeightHolds
<1>5. QED  BY <1>3, <1>4 DEF AtHeight

\* An Eval() that fails gives 0 and its error.
LEMMA GivenFails ==
  ASSUME NEW p \in Parsers, NEW y \in Int, NEW k \in 0..Len(Code[p]),
         Run(p, y, Given)[k].error # 0
  PROVE  Given[p][y] = [value |-> 0, error |-> Run(p, y, Given)[k].error]
<1>1. Run(p, y, Given)[Len(Code[p])] = Run(p, y, Given)[k]
  BY GivenIs, ErrorLasts
<1>2. Given[p][y] = Gives(p, y, Given)
  BY GivenIs
<1>3. QED  BY <1>1, <1>2 DEF Gives

\* The outermost activation is the call of a user, with the argument of that user.
LEMMA UsersCall ==
  ASSUME IInv, NEW t \in Threads, calls[t] # <<>>, Len(calls[t]) = 1
  PROVE  /\ Here(t).parser \in setting.uses[t]
         /\ ArgumentOf(Here(t), memory) = memory[<<t, 0>>][1]
<1>1. ChainOK(setting, t, calls[t]) /\ Here(t) = Last(calls[t])
  BY Inside
<1>2. Here(t) = calls[t][1]
  BY <1>1 DEF Last
<1>3. /\ calls[t][1].parser \in setting.uses[t]
      /\ calls[t][1].vars = [array |-> <<t, 0>>, index |-> 1]
  BY <1>1 DEF ChainOK
<1>4. Here(t).vars.array = <<t, 0>> /\ Here(t).vars.index = 1
  BY <1>2, <1>3
<1>5. QED  BY <1>2, <1>3, <1>4 DEF ArgumentOf

\* Return() ends a user's call, or hands the value to the caller.
LEMMA ReturnIs ==
  ASSUME NEW t, NEW x, Return(t, x)
  PROVE  /\ setting' = setting
         /\ Front(calls[t]) = <<>> =>
              /\ calls' = [calls EXCEPT ![t] = <<>>]
              /\ outcome' = [outcome EXCEPT ![t] =
                   [parser |-> Here(t).parser, argument |-> memory[<<t, 0>>][1],
                    value |-> x, error |-> Nothing]]
         /\ Front(calls[t]) # <<>> =>
              /\ calls' = [calls EXCEPT ![t] =
                   Append(Front(Front(calls[t])), [Last(Front(calls[t])) EXCEPT !.retVal = x])]
              /\ outcome' = outcome
BY DEF Return

\* The innermost Eval() returns what it gives alone.
LEMMA ReturnOK ==
  ASSUME IInv, NEW t \in Threads, calls[t] # <<>>, NEW c, c = Here(t),
         NEW given, given = Given[c.parser][ArgumentOf(c, memory)],
         Return(t, given.value),
         evalError' = [evalError EXCEPT ![c.parser] = given.error],
         memory' \in [Arrays -> [1..StackSize -> Int]],
         SameBut(memory, memory', Owner(setting.threadSafe, t, Len(calls[t]), c.parser))
  PROVE  StepOK(t)
<1> DEFINE cs == calls[t]
           fs == Front(cs)
           safe == setting.threadSafe
           n == Len(cs)
<1>1. /\ setting \in Settings /\ Typed
      /\ ChainOK(setting, t, cs) /\ n > 0 /\ n \in Nat
      /\ FramesOK(safe, t, cs, memory)
      /\ outcome[t] = Nothing /\ c = Last(cs) /\ c \in Activations /\ c.parser \in Parsers
  BY Inside
<1>2. /\ calls = [u \in Threads |-> calls[u]] /\ evalError \in [Parsers -> Int]
      /\ outcome = [u \in Threads |-> outcome[u]]
  BY <1>1 DEF Typed
<1>3. ArgumentOf(c, memory) \in Int /\ given \in Results
  <2>1. ArgumentOf(c, memory) \in Int
    BY <1>1, LastFrame
  <2>2. Given \in [Parsers -> [Int -> Results]]
    BY GivenIs DEF Inner
  <2>3. QED  BY <1>1, <2>1, <2>2
<1>4. evalError' \in [Parsers -> Int] /\ evalError'[c.parser] = given.error
      /\ \A p \in Parsers : p # c.parser => evalError'[p] = evalError[p]
  <2>1. given.error \in Int
    BY <1>3 DEF Results
  <2>2. evalError \in [Parsers -> Int] /\ c.parser \in Parsers
    BY <1>1, <1>2
  <2>3. evalError' \in [Parsers -> Int]
    BY <2>1, <2>2
  <2>4. evalError'[c.parser] = given.error
    BY <2>2
  <2>5. \A p \in Parsers : p # c.parser => evalError'[p] = evalError[p]
    BY <2>2
  <2>6. QED  BY <2>3, <2>4, <2>5
<1>5. setting' = setting
  BY ReturnIs
<1>6. Touches(t, cs, memory, memory', evalError, evalError')
  BY <1>1, <1>4 DEF Touches, SameBut
<1>7. ChainOK(setting, t, fs) /\ Len(fs) = n - 1 /\ \A i \in 1..(n - 1) : fs[i] = cs[i]
  <2>1. setting \in Settings /\ ChainOK(setting, t, cs) /\ Len(cs) > 0
    BY <1>1
  <2> HIDE DEF cs
  <2>2. ChainOK(setting, t, Front(cs))
    BY <2>1, FrontChain
  <2>3. Len(Front(cs)) = Len(cs) - 1 /\ \A i \in 1..(Len(cs) - 1) : Front(cs)[i] = cs[i]
    BY <2>1, FrontChain
  <2>4. QED  BY <2>2, <2>3
<1>8. n \in 1..n /\ c = cs[n]
  BY <1>1, LastActivation
<1>9. CASE n = 1
  <2> DEFINE r == [parser |-> c.parser, argument |-> memory[<<t, 0>>][1],
                   value |-> given.value, error |-> Nothing]
  <2>1. fs = <<>>
    <3>1. fs \in Seq(Activations) /\ Len(fs) = 0
      BY <1>7, <1>9 DEF ChainOK
    <3>2. QED  BY <3>1, EmptySeq
  <2>2. calls' = [calls EXCEPT ![t] = <<>>] /\ outcome' = [outcome EXCEPT ![t] = r]
    BY <2>1, ReturnIs
  <2>3. /\ calls' = [u \in Threads |-> calls'[u]] /\ calls'[t] = <<>>
        /\ outcome' = [u \in Threads |-> outcome'[u]] /\ outcome'[t] = r
        /\ \A u \in Threads : u # t => calls'[u] = calls[u] /\ outcome'[u] = outcome[u]
    <3> HIDE DEF r
    <3>1. QED  BY <1>2, <2>2
  <2>4. Typed'
    <3>1. setting' \in Settings
      BY <1>1, <1>5
    <3> HIDE DEF cs, fs, n, safe, r
    <3>2. QED  BY <1>4, <2>3, <3>1 DEF Typed
  <2>5. ArgumentOf(c, memory) = memory[<<t, 0>>][1] /\ c.parser \in setting.uses[t]
    <3>1. Len(calls[t]) = 1
      BY <1>9
    <3>2. QED  BY <3>1, UsersCall
  <2>6. OutcomeOK(setting, t, <<>>, r, evalError')
    <3> HIDE DEF cs, fs, n, safe
    <3>1. /\ r.parser = c.parser /\ r.argument = ArgumentOf(c, memory)
          /\ r.value = given.value /\ r.error = Nothing
      <4>1. r.argument = memory[<<t, 0>>][1]
        OBVIOUS
      <4>2. r.parser = c.parser /\ r.value = given.value /\ r.error = Nothing
        OBVIOUS
      <4> HIDE DEF r
      <4>3. QED  BY <2>5, <4>1, <4>2
    <3>2. r \in Outcomes
      <4>1. ArgumentOf(c, memory) \in Int
        BY <1>3
      <4>2. ArgumentOf(c, memory) = memory[<<t, 0>>][1]
        BY <2>5
      <4>3. QED  BY <1>1, <1>3, <4>1, <4>2 DEF Outcomes, Results
    <3> HIDE DEF r
    <3>3. r.parser \in setting.uses[t] /\ evalError'[r.parser] = given.error
      BY <1>4, <2>5, <3>1
    <3>4. Given[r.parser][r.argument] = given
      BY <3>1
    <3>5. QED  BY <3>1, <3>2, <3>3, <3>4 DEF OutcomeOK
  <2>7. ChainOK(setting, t, <<>>)
    BY <1>7, <2>1
  <2>8. ThreadOK(setting, t, <<>>, memory', evalError', r)
    <3> HIDE DEF r
    <3>1. Len(<<>>) = 0
      OBVIOUS
    <3>2. QED  BY <2>6, <2>7, <3>1 DEF ThreadOK, FramesOK, ReturnedOK
  <2> HIDE DEF r
  <2>9. QED  BY <1>5, <1>6, <2>3, <2>4, <2>8 DEF StepOK
<1>10. CASE n # 1
  <2> DEFINE d == [Last(fs) EXCEPT !.retVal = given.value]
             es == Append(Front(fs), d)
  <2>1. n > 1 /\ Len(fs) > 0
    <3>1. n > 0 /\ n \in Nat /\ n # 1 /\ Len(fs) = n - 1
      BY <1>1, <1>7, <1>10
    <3> HIDE DEF n, fs
    <3>2. QED  BY <3>1
  <2>2. fs # <<>>
    BY <2>1
  <2>3. calls' = [calls EXCEPT ![t] = es] /\ outcome' = outcome
    BY <2>2, ReturnIs
  <2>4. /\ calls' = [u \in Threads |-> calls'[u]] /\ calls'[t] = es
        /\ \A u \in Threads : u # t => calls'[u] = calls[u]
    <3> HIDE DEF es, cs, fs, n, safe
    <3>1. calls' = [u \in Threads |-> calls'[u]]
      BY <1>2, <2>3
    <3>2. calls'[t] = es
      BY <1>2, <2>3
    <3>3. \A u \in Threads : u # t => calls'[u] = calls[u]
      BY <1>2, <2>3
    <3>4. QED  BY <3>1, <3>2, <3>3
  <2>5. Typed'
    <3>1. setting' \in Settings /\ outcome' = [u \in Threads |-> outcome'[u]]
      BY <1>1, <1>2, <1>5, <2>3
    <3> HIDE DEF cs, fs, n, safe, es
    <3>2. QED  BY <1>4, <2>4, <3>1 DEF Typed
  <2>6. Last(fs) \in Activations
    BY <1>1, <1>7, <2>1, LastActivation
  <2>7. /\ d \in Activations /\ d.parser = Last(fs).parser /\ d.vars = Last(fs).vars
        /\ d.ip = Last(fs).ip /\ d.sp = Last(fs).sp /\ d.checks = Last(fs).checks
        /\ d.retVal = given.value
    <3>1. given.value \in Int
      BY <1>3 DEF Results
    <3>2. QED  BY <2>6, <3>1 DEF Activations
  <2>8. /\ ChainOK(setting, t, es)
        /\ FramesOK(safe, t, es, memory')
        /\ ReturnedOK(safe, t, es, memory', evalError')
        /\ Len(es) > 0
    <3> DEFINE err2 == evalError'
    <3>1. err2[Last(cs).parser] = given.error
      BY <1>1, <1>4
    <3>2. SameBut(memory, memory', Owner(setting.threadSafe, t, Len(cs), Last(cs).parser))
      BY <1>1
    <3>3. given = Given[Last(cs).parser][ArgumentOf(Last(cs), memory)]
      BY <1>1
    <3> HIDE DEF d, err2, cs, fs, safe
    <3>4. fs = Front(cs) /\ Len(cs) > 1 /\ FramesOK(setting.threadSafe, t, cs, memory)
      BY <1>1, <2>1 DEF fs, cs, safe
    <3>5. ChainOK(setting, t, es) /\ FramesOK(setting.threadSafe, t, es, memory')
      BY <1>1, <1>3, <2>7, <3>1, <3>2, <3>3, <3>4, ReturnsUp
    <3>6. ReturnedOK(setting.threadSafe, t, es, memory', err2) /\ Len(es) > 0
      BY <1>1, <1>3, <2>7, <3>1, <3>2, <3>3, <3>4, ReturnsUp
    <3>7. QED  BY <3>5, <3>6 DEF err2, safe
  <2> HIDE DEF es
  <2>9. OutcomeOK(setting, t, es, outcome[t], evalError')
    BY <1>1 DEF OutcomeOK
  <2>10. ThreadOK(setting, t, es, memory', evalError', outcome[t])
    BY <2>8, <2>9 DEF ThreadOK
  <2> HIDE DEF cs
  <2>11. QED  BY <1>5, <1>6, <2>3, <2>4, <2>5, <2>10 DEF StepOK, cs
<1>11. QED  BY <1>9, <1>10

\* Where a thread is inside Eval(): its stack is the one it makes alone.
LEMMA Standing ==
  ASSUME IInv, NEW t \in Threads, calls[t] # <<>>, NEW c, c = Here(t)
  PROVE  /\ c \in Activations /\ c.parser \in Parsers
         /\ FrameOK(setting.threadSafe, t, Len(calls[t]), c, memory)
         /\ ArgumentOf(c, memory) \in Int
         /\ Done(c) \in 0..Len(Code[c.parser]) /\ Len(Code[c.parser]) \in Nat
         /\ Reached(c, memory) \in Moments /\ Reached(c, memory).error = 0
         /\ c.sp = Len(Reached(c, memory).stack)
         /\ c.sp = Height(c.parser)[Done(c) + 1] /\ c.sp \in 0..StackSize
         /\ \A j \in 1..c.sp : Stack(t)[j] = Reached(c, memory).stack[j]
<1> DEFINE cs == calls[t]
           y  == ArgumentOf(c, memory)
           m  == Reached(c, memory)
<1>1. /\ setting \in Settings /\ ChainOK(setting, t, cs) /\ Len(cs) > 0
      /\ FramesOK(setting.threadSafe, t, cs, memory) /\ c = Last(cs)
      /\ StackOwner(t, Len(cs), c.parser) = Owner(setting.threadSafe, t, Len(cs), c.parser)
  BY Inside
<1>2. Stack(t) = memory[Owner(setting.threadSafe, t, Len(cs), c.parser)]
  BY <1>1 DEF Stack
<1> HIDE DEF cs
<1>3. /\ FrameOK(setting.threadSafe, t, Len(cs), c, memory)
      /\ c \in Activations /\ c.parser \in Parsers
  <2>1. FrameOK(setting.threadSafe, t, Len(cs), c, memory)
    BY <1>1, LastFrame
  <2>2. c \in Activations
    BY <1>1, LastActivation
  <2>3. QED  BY <2>1, <2>2 DEF Activations
<1>4. /\ y \in Int /\ m \in Moments /\ m.error = 0
      /\ Done(c) \in 0..Len(Code[c.parser]) /\ Len(Code[c.parser]) \in Nat
      /\ c.sp = Len(m.stack) /\ c.sp = Height(c.parser)[Done(c) + 1] /\ c.sp \in 0..StackSize
  BY <1>1, LastFrame
<1>5. \A j \in 1..c.sp : memory[Owner(setting.threadSafe, t, Len(cs), c.parser)][j]
                          = m.stack[j]
  BY <1>1, LastFrame
<1>6. QED  BY <1>2, <1>3, <1>4, <1>5 DEF cs

\* Where a thread is that runs an operation: m is what it has computed.
LEMMA Executing ==
  ASSUME IInv, NEW t \in Threads, NEW op, At(t, op), NEW c, c = Here(t)
  PROVE  /\ calls[t] # <<>> /\ c.parser \in Parsers
         /\ c.ip \in 1..Len(Code[c.parser]) /\ Code[c.parser][c.ip].op = op
         /\ ArgumentOf(c, memory) \in Int
         /\ Reached(c, memory).stack \in Seq(Int) /\ Reached(c, memory).error = 0
         /\ c.sp = Len(Reached(c, memory).stack) /\ c.sp = Height(c.parser)[c.ip]
         /\ c.sp \in Nat
         /\ Reaching(c, memory) = After(Reached(c, memory), Code[c.parser][c.ip],
                                        ArgumentOf(c, memory), Given)
         /\ \A j \in 1..c.sp : Stack(t)[j] = Reached(c, memory).stack[j]
<1> DEFINE y == ArgumentOf(c, memory)
           m == Reached(c, memory)
<1>1. /\ calls[t] # <<>> /\ c.checks = NoParser
      /\ c.ip \in DOMAIN Code[c.parser] /\ Code[c.parser][c.ip].op = op
  BY DEF At
<1>2. c.parser \in Parsers
  BY <1>1, Inside
<1>3. c.ip \in 1..Len(Code[c.parser])
  BY <1>1, <1>2, CodeAssumption, LenProperties
<1>4. Done(c) = c.ip - 1 /\ Done(c) + 1 = c.ip
  BY <1>1, <1>3 DEF Done
<1>5. /\ y \in Int /\ m \in Moments /\ m.error = 0
      /\ c.sp = Len(m.stack) /\ c.sp = Height(c.parser)[Done(c) + 1] /\ c.sp \in 0..StackSize
      /\ \A j \in 1..c.sp : Stack(t)[j] = m.stack[j]
      /\ c.parser \in Parsers
  BY <1>1, Standing
<1>6. m.stack \in Seq(Int)
  BY <1>5 DEF Moments
<1>7. Reaching(c, memory) = After(m, Code[c.parser][c.ip], y, Given)
  BY <1>2, <1>3, <1>4, <1>5, RunSteps, GivenIs DEF Reached, Reaching
<1>8. c.sp \in Nat
  BY <1>5, ConstantsAssumption
<1>9. QED  BY <1>1, <1>2, <1>3, <1>4, <1>5, <1>6, <1>7, <1>8

\* m is h numbers high, x is on top, and the stack of t has the others.
Tops(t, m, h, x) ==
  /\ Len(m.stack) = h /\ h > 0 /\ m.stack[Len(m.stack)] = x
  /\ \A j \in 1..(Len(m.stack) - 1) : Stack(t)[j] = m.stack[j]

\* An operation that puts its result on top of the stack.
LEMMA ComputeOK ==
  ASSUME IInv, NEW t \in Threads, NEW op, At(t, op),
         NEW c, c = Here(t), NEW n \in {1, -1}, NEW x \in Int,
         NEW m, m = Reaching(c, memory), m.error = 0, Tops(t, m, c.sp + n, x),
         Put(t, c.sp + n, x), Advance(t, n), UNCHANGED evalError
  PROVE  StepOK(t)
<1> DEFINE d == [c EXCEPT !.ip = @ + 1, !.sp = @ + n]
           o == Owner(setting.threadSafe, t, Len(calls[t]), c.parser)
<1>1. /\ calls[t] # <<>> /\ c.checks = NoParser
      /\ c.ip \in 1..Len(Code[c.parser])
  <2>1. c.ip \in 1..Len(Code[c.parser])
    BY Executing
  <2>2. QED  BY <2>1 DEF At
<1>2. /\ c \in Activations /\ c.parser \in Parsers /\ Len(Code[c.parser]) \in Nat
      /\ ArgumentOf(c, memory) \in Int /\ Done(c) \in 0..Len(Code[c.parser])
  BY <1>1, Standing
<1>3. Done(c) = c.ip - 1 /\ Done(c) + 1 = c.ip /\ Done(c) < Len(Code[c.parser])
      /\ c.ip + 1 = Done(c) + 2
  BY <1>1, <1>2 DEF Done
<1>4. Len(m.stack) \in 1..StackSize /\ Len(m.stack) = c.sp + n
  <2>1. Len(m.stack) \in 0..StackSize
    BY <1>2, <1>3, ReachingTyped
  <2>2. QED  BY <2>1, ConstantsAssumption DEF Tops
<1>5. PutOnTop(memory, memory', o, m)
  <2>1. Puts(memory, memory', o, Len(m.stack), x)
    BY <1>1, <1>4, PutOK
  <2>2. Stack(t) = memory[o]
    BY <1>1, Inside DEF Stack
  <2>3. QED  BY <2>1, <2>2 DEF PutOnTop, Tops
<1>6. GoneOn(c, d, m)
  <2>1. c.ip + 1 \in Nat /\ c.sp + n \in Nat
    BY <1>1, <1>4
  <2>2. d \in Activations /\ d.ip = c.ip + 1 /\ d.sp = c.sp + n
        /\ d.parser = c.parser /\ d.vars = c.vars /\ d.checks = c.checks
    BY <1>2, <2>1 DEF Activations
  <2>3. c.ip + 1 = Done(c) + 2 /\ c.sp + n = Len(m.stack) /\ c.checks = NoParser
    BY <1>1, <1>3, <1>4
  <2> HIDE DEF d
  <2>4. QED  BY <2>2, <2>3 DEF GoneOn
<1>7. Further(c, memory, m)
  BY <1>3 DEF Further
<1>8. /\ calls' = [calls EXCEPT ![t] = Append(Front(calls[t]), d)]
      /\ UNCHANGED <<setting, evalError, outcome>>
  BY DEF Advance
<1> HIDE DEF d
<1>9. QED  BY <1>1, <1>5, <1>6, <1>7, <1>8, GoneOnOK

\* The next operation of c succeeds and leaves r with x on top.
Leaves(c, mem, r, x) ==
  After(Reached(c, mem), Code[c.parser][c.ip], ArgumentOf(c, mem), Given)
    = [stack |-> Append(r, x), error |-> 0]

\* What an operation that succeeds puts on top of the stack.
LEMMA Pushed ==
  ASSUME IInv, NEW t \in Threads, NEW op, At(t, op), NEW c, c = Here(t),
         NEW n \in {1, -1}, NEW r \in Seq(Int), NEW x \in Int,
         Leaves(c, memory, r, x),
         Len(r) + 1 = c.sp + n, Len(r) <= c.sp,
         \A j \in 1..Len(r) : r[j] = Reached(c, memory).stack[j],
         Put(t, c.sp + n, x), Advance(t, n), UNCHANGED evalError
  PROVE  StepOK(t)
<1> DEFINE u == Reaching(c, memory)
<1>1. /\ c.sp \in Nat
      /\ u = After(Reached(c, memory), Code[c.parser][c.ip], ArgumentOf(c, memory), Given)
      /\ \A j \in 1..c.sp : Stack(t)[j] = Reached(c, memory).stack[j]
  <2>1. c.sp \in Nat
    BY Executing
  <2>2. u = After(Reached(c, memory), Code[c.parser][c.ip], ArgumentOf(c, memory), Given)
    BY Executing
  <2>3. \A j \in 1..c.sp : Stack(t)[j] = Reached(c, memory).stack[j]
    BY Executing
  <2>4. QED  BY <2>1, <2>2, <2>3
<1>2. u.stack = Append(r, x) /\ u.error = 0
  BY <1>1 DEF Leaves
<1>3. /\ Append(r, x)[Len(r) + 1] = x /\ Len(Append(r, x)) = Len(r) + 1 /\ Len(r) \in Nat
      /\ \A j \in 1..Len(r) : Append(r, x)[j] = r[j]
  BY Appended
<1> HIDE DEF u
<1>4. /\ Len(u.stack) = c.sp + n /\ Len(u.stack) > 0 /\ u.stack[Len(u.stack)] = x
      /\ Len(u.stack) - 1 = Len(r)
  BY <1>2, <1>3
<1>5. \A j \in 1..Len(r) : j \in 1..c.sp
  BY <1>1, <1>3
<1>6. ASSUME NEW j \in 1..(Len(u.stack) - 1)
      PROVE  Stack(t)[j] = u.stack[j]
  <2>1. j \in 1..Len(r) /\ j \in 1..c.sp
    BY <1>4, <1>5
  <2>2. Stack(t)[j] = Reached(c, memory).stack[j] /\ u.stack[j] = r[j]
    BY <1>1, <1>2, <1>3, <2>1
  <2>3. QED  BY <2>1, <2>2
<1>7. u = Reaching(c, memory)
  BY DEF u
<1>8. u.error = 0
  BY <1>2
<1>9. Tops(t, u, c.sp + n, x)
  BY <1>4, <1>6 DEF Tops
<1>10. QED  BY <1>7, <1>8, <1>9, ComputeOK

\* An operation that pushes a number.
LEMMA PushOK ==
  ASSUME IInv, NEW t \in Threads, NEW op, At(t, op), NEW c, c = Here(t), NEW x \in Int,
         After(Reached(c, memory), Code[c.parser][c.ip], ArgumentOf(c, memory), Given)
           = [stack |-> Append(Reached(c, memory).stack, x), error |-> 0],
         Put(t, c.sp + 1, x), Advance(t, 1), UNCHANGED evalError
  PROVE  StepOK(t)
<1> DEFINE r == Reached(c, memory).stack
<1>1. r \in Seq(Int) /\ c.sp = Len(r) /\ c.sp \in Nat
  BY Executing
<1>2. /\ Len(r) + 1 = c.sp + 1 /\ Len(r) <= c.sp /\ 1 \in {1, -1}
      /\ \A j \in 1..Len(r) : r[j] = Reached(c, memory).stack[j]
  BY <1>1
<1>3. Leaves(c, memory, r, x)
  BY DEF Leaves
<1> HIDE DEF r
<1>4. QED  BY <1>1, <1>2, <1>3, Pushed

\* The two numbers on top of the stack, and the rest.
LEMMA TopTwo ==
  ASSUME NEW s \in Seq(Int), Len(s) > 1
  PROVE  /\ Last(s) = s[Len(s)] /\ Last(s) \in Int
         /\ Last(Front(s)) = s[Len(s) - 1] /\ Last(Front(s)) \in Int
         /\ Front(Front(s)) \in Seq(Int)
         /\ Len(Front(Front(s))) = Len(s) - 2
         /\ \A j \in 1..(Len(s) - 2) : Front(Front(s))[j] = s[j]
         /\ Len(s) \in Nat
<1> DEFINE f == Front(s)
           g == Front(f)
           n == Len(s)
<1>1. n \in Nat /\ n > 0 /\ n - 1 > 0 /\ (n - 1) - 1 = n - 2 /\ n - 1 \in 1..(n - 1)
  <2>1. n \in Nat /\ n > 1
    BY LenProperties
  <2> HIDE DEF n
  <2>2. QED  BY <2>1
<1>2. /\ f \in Seq(Int) /\ Len(f) = n - 1 /\ Last(s) \in Int /\ Last(s) = s[n]
      /\ \A j \in 1..(n - 1) : f[j] = s[j]
  <2>1. Len(s) > 0
    BY <1>1
  <2>2. QED  BY <2>1, FrontLast
<1> HIDE DEF f
<1>3. /\ g \in Seq(Int) /\ Len(g) = Len(f) - 1 /\ Last(f) \in Int /\ Last(f) = f[Len(f)]
      /\ \A j \in 1..(Len(f) - 1) : g[j] = f[j]
  <2> HIDE DEF n
  <2>1. Len(f) > 0
    BY <1>1, <1>2
  <2>2. QED  BY <1>2, <2>1, FrontLast
<1> HIDE DEF g
<1>4. \A j \in 1..(n - 2) : j \in 1..(n - 1)
  BY <1>1
<1>5. Last(f) = s[n - 1] /\ Len(g) = n - 2 /\ \A j \in 1..(n - 2) : g[j] = s[j]
  <2> HIDE DEF n
  <2>1. QED  BY <1>1, <1>2, <1>3, <1>4
<1>6. QED  BY <1>1, <1>2, <1>3, <1>5 DEF f, g

\* An operation that replaces two numbers by one.
LEMMA BinaryOK ==
  ASSUME IInv, NEW t \in Threads, NEW op \in {"cAdd", "cDiv"}, At(t, op),
         NEW c, c = Here(t), NEW x \in Int,
         After(Reached(c, memory), Code[c.parser][c.ip], ArgumentOf(c, memory), Given)
           = [stack |-> Append(Front(Front(Reached(c, memory).stack)), x), error |-> 0],
         Put(t, c.sp - 1, x), Advance(t, -1), UNCHANGED evalError
  PROVE  StepOK(t)
<1> DEFINE m == Reached(c, memory)
           r == Front(Front(m.stack))
<1>1. /\ c.parser \in Parsers /\ c.ip \in 1..Len(Code[c.parser])
      /\ Code[c.parser][c.ip].op = op
      /\ m.stack \in Seq(Int) /\ c.sp = Len(m.stack) /\ c.sp \in Nat
      /\ c.sp = Height(c.parser)[c.ip]
  BY Executing
<1>2. c.sp > 1
  BY <1>1, HeightMoves
<1>3. /\ r \in Seq(Int) /\ Len(r) = c.sp - 2
      /\ \A j \in 1..(c.sp - 2) : r[j] = m.stack[j]
  <2> HIDE DEF m
  <2>1. QED  BY <1>1, <1>2, TopTwo
<1>4. Leaves(c, memory, r, x)
  BY DEF Leaves
<1> HIDE DEF r
<1>5. Len(r) + 1 = c.sp + (-1) /\ c.sp - 1 = c.sp + (-1) /\ Len(r) <= c.sp /\ -1 \in {1, -1}
  <2>1. c.sp \in Nat /\ Len(r) = c.sp - 2
    BY <1>1, <1>3
  <2> HIDE DEF m
  <2>2. QED  BY <2>1
<1>6. Put(t, c.sp + (-1), x)
  BY <1>5
<1>7. \A j \in 1..Len(r) : r[j] = m.stack[j]
  BY <1>3
<1>8. QED  BY <1>3, <1>4, <1>5, <1>6, <1>7, Pushed

\* An operation that pushes the variable.
LEMMA PushVariableOK ==
  ASSUME IInv, NEW t \in Threads, PushVariable(t)
  PROVE  StepOK(t)
<1> DEFINE c == Here(t)
           m == Reached(c, memory)
           o == Code[c.parser][c.ip]
           y == ArgumentOf(c, memory)
<1>1. At(t, "var") /\ Put(t, c.sp + 1, y) /\ Advance(t, 1) /\ UNCHANGED evalError
  BY DEF PushVariable, ArgumentOf
<1>2. o.op = "var" /\ m.error = 0 /\ y \in Int
  BY <1>1, Executing
<1>3. After(m, o, y, Given) = [stack |-> Append(m.stack, y), error |-> 0]
  <2> HIDE DEF m, o, y
  <2>1. QED  BY <1>2, AfterSuccess
<1> HIDE DEF c
<1>4. c = Here(t)
  BY DEF c
<1>5. QED  BY <1>1, <1>2, <1>3, <1>4, PushOK

\* An operation that pushes a constant.
LEMMA PushImmedOK ==
  ASSUME IInv, NEW t \in Threads, PushImmed(t)
  PROVE  StepOK(t)
<1> DEFINE c == Here(t)
           m == Reached(c, memory)
           o == Code[c.parser][c.ip]
           y == ArgumentOf(c, memory)
<1>1. At(t, "cImmed") /\ Put(t, c.sp + 1, o.arg) /\ Advance(t, 1) /\ UNCHANGED evalError
  BY DEF PushImmed, Operand
<1>2. /\ o.op = "cImmed" /\ m.error = 0
      /\ c.parser \in Parsers /\ c.ip \in 1..Len(Code[c.parser])
  BY <1>1, Executing
<1>3. o.arg \in Int
  BY <1>2, OperationTyped
<1>4. After(m, o, y, Given) = [stack |-> Append(m.stack, o.arg), error |-> 0]
  <2> HIDE DEF m, o, y
  <2>1. QED  BY <1>2, AfterSuccess
<1> HIDE DEF c
<1>5. c = Here(t)
  BY DEF c
<1>6. QED  BY <1>1, <1>3, <1>4, <1>5, PushOK

\* The operands of an operation that takes two.
LEMMA Operands ==
  ASSUME IInv, NEW t \in Threads, NEW op \in {"cAdd", "cDiv"}, At(t, op),
         NEW c, c = Here(t), NEW s, s = Reached(c, memory).stack
  PROVE  /\ Stack(t)[c.sp] = Last(s) /\ Last(s) \in Int
         /\ Stack(t)[c.sp - 1] = Last(Front(s)) /\ Last(Front(s)) \in Int
<1>1. /\ c.parser \in Parsers /\ c.ip \in 1..Len(Code[c.parser])
      /\ Code[c.parser][c.ip].op = op
      /\ s \in Seq(Int) /\ c.sp = Len(s) /\ c.sp \in Nat
      /\ c.sp = Height(c.parser)[c.ip]
      /\ \A j \in 1..c.sp : Stack(t)[j] = s[j]
  BY Executing
<1>2. c.sp > 1
  BY <1>1, HeightMoves
<1>3. /\ Last(s) = s[Len(s)] /\ Last(s) \in Int
      /\ Last(Front(s)) = s[Len(s) - 1] /\ Last(Front(s)) \in Int
  <2>1. s \in Seq(Int) /\ Len(s) > 1
    BY <1>1, <1>2
  <2>2. QED  BY <2>1, TopTwo
<1>4. c.sp \in 1..c.sp /\ c.sp - 1 \in 1..c.sp
  BY <1>1, <1>2
<1>5. Stack(t)[c.sp] = s[c.sp] /\ Stack(t)[c.sp - 1] = s[c.sp - 1] /\ c.sp = Len(s)
  BY <1>1, <1>4
<1>6. QED  BY <1>3, <1>5

\* An addition leaves the sum that the evaluation alone has.
LEMMA AddOK ==
  ASSUME IInv, NEW t \in Threads, Add(t)
  PROVE  StepOK(t)
<1> DEFINE c == Here(t)
           m == Reached(c, memory)
           o == Code[c.parser][c.ip]
           y == ArgumentOf(c, memory)
           x == Last(Front(m.stack)) + Last(m.stack)
<1>1. /\ At(t, "cAdd") /\ Put(t, c.sp - 1, Stack(t)[c.sp - 1] + Stack(t)[c.sp])
      /\ Advance(t, -1) /\ UNCHANGED evalError
  BY DEF Add
<1>2. o.op = "cAdd" /\ m.error = 0
  BY <1>1, Executing
<1>3. /\ Stack(t)[c.sp] = Last(m.stack) /\ Last(m.stack) \in Int
      /\ Stack(t)[c.sp - 1] = Last(Front(m.stack)) /\ Last(Front(m.stack)) \in Int
  BY <1>1, Operands
<1>4. x \in Int /\ Put(t, c.sp - 1, x)
  BY <1>1, <1>3
<1>5. After(m, o, y, Given) = [stack |-> Append(Front(Front(m.stack)), x), error |-> 0]
  <2> HIDE DEF m, o, y
  <2>1. QED  BY <1>2, AfterSuccess
<1> HIDE DEF c, x
<1>6. c = Here(t)
  BY DEF c
<1>7. QED  BY <1>1, <1>4, <1>5, <1>6, BinaryOK

\* A division leaves the quotient that the evaluation alone has.
LEMMA DivideOK ==
  ASSUME IInv, NEW t \in Threads, Divide(t)
  PROVE  StepOK(t)
<1> DEFINE c == Here(t)
           m == Reached(c, memory)
           o == Code[c.parser][c.ip]
           y == ArgumentOf(c, memory)
           x == Quotient(Last(Front(m.stack)), Last(m.stack))
<1>1. /\ At(t, "cDiv") /\ Put(t, c.sp - 1, Quotient(Stack(t)[c.sp - 1], Stack(t)[c.sp]))
      /\ Advance(t, -1) /\ UNCHANGED evalError /\ Stack(t)[c.sp] # 0
  BY DEF Divide
<1>2. o.op = "cDiv" /\ m.error = 0
  BY <1>1, Executing
<1>3. /\ Stack(t)[c.sp] = Last(m.stack) /\ Last(m.stack) \in Int
      /\ Stack(t)[c.sp - 1] = Last(Front(m.stack)) /\ Last(Front(m.stack)) \in Int
  BY <1>1, Operands
<1>4. x \in Int /\ Put(t, c.sp - 1, x) /\ Last(m.stack) # 0
  BY <1>1, <1>3, QuotientTyped
<1>5. After(m, o, y, Given) = [stack |-> Append(Front(Front(m.stack)), x), error |-> 0]
  <2> HIDE DEF m, o, y
  <2>1. QED  BY <1>2, <1>4, AfterSuccess
<1> HIDE DEF c, x
<1>6. c = Here(t)
  BY DEF c
<1>7. QED  BY <1>1, <1>4, <1>5, <1>6, BinaryOK

\* An Eval() that divides by zero returns where it fails alone as well.
LEMMA DivideByZeroOK ==
  ASSUME IInv, NEW t \in Threads, DivideByZero(t)
  PROVE  StepOK(t)
<1> DEFINE c == Here(t)
           m == Reached(c, memory)
           o == Code[c.parser][c.ip]
           y == ArgumentOf(c, memory)
           given == Given[c.parser][y]
<1>1. /\ At(t, "cDiv") /\ Stack(t)[c.sp] = 0 /\ Return(t, 0) /\ memory' = memory
      /\ evalError' = [evalError EXCEPT ![c.parser] = 1]
  BY DEF DivideByZero
<1>2. /\ o.op = "cDiv" /\ m.error = 0 /\ calls[t] # <<>>
      /\ c.parser \in Parsers /\ c.ip \in 1..Len(Code[c.parser]) /\ y \in Int
      /\ Reaching(c, memory) = After(m, o, y, Given)
  BY <1>1, Executing
<1>3. Last(m.stack) = 0
  BY <1>1, Operands
<1>4. After(m, o, y, Given).error = 1
  <2> HIDE DEF m, o, y
  <2>1. After(m, o, y, Given) = [stack |-> m.stack, error |-> 1]
    BY <1>2, <1>3, AfterFailure
  <2>2. QED  BY <2>1
<1>5. Run(c.parser, y, Given)[c.ip].error = 1 /\ c.ip \in 0..Len(Code[c.parser])
  <2>1. c.checks = NoParser /\ c.ip \in Int
    BY <1>1, <1>2 DEF At
  <2>2. Done(c) + 1 = c.ip
    BY <2>1 DEF Done
  <2>3. QED  BY <1>2, <1>4, <2>2 DEF Reaching
<1>6. given = [value |-> 0, error |-> 1]
  <2> HIDE DEF c, y
  <2>1. Run(c.parser, y, Given)[c.ip].error # 0
    BY <1>5
  <2>2. Given[c.parser][y] = [value |-> 0, error |-> Run(c.parser, y, Given)[c.ip].error]
    BY <1>2, <1>5, <2>1, GivenFails
  <2>3. QED  BY <1>5, <2>2
<1>7. /\ memory' \in [Arrays -> [1..StackSize -> Int]]
      /\ SameBut(memory, memory', Owner(setting.threadSafe, t, Len(calls[t]), c.parser))
  BY <1>1 DEF IInv, Typed, SameBut
<1> HIDE DEF c
<1>8. c = Here(t) /\ given = Given[c.parser][ArgumentOf(c, memory)]
  BY DEF c
<1> HIDE DEF given
<1>9. Return(t, given.value) /\ evalError' = [evalError EXCEPT ![c.parser] = given.error]
  BY <1>1, <1>6
<1>10. QED  BY <1>1, <1>2, <1>7, <1>8, <1>9, ReturnOK

\* An Eval() at the end of its byte code returns what it gives alone.
LEMMA EndOK ==
  ASSUME IInv, NEW t \in Threads, End(t)
  PROVE  StepOK(t)
<1> DEFINE c == Here(t)
           m == Reached(c, memory)
           y == ArgumentOf(c, memory)
           n == Len(Code[c.parser])
           given == Given[c.parser][y]
<1>1. /\ calls[t] # <<>> /\ c.checks = NoParser /\ c.ip \notin DOMAIN Code[c.parser]
      /\ Return(t, Stack(t)[c.sp]) /\ memory' = memory
      /\ evalError' = [evalError EXCEPT ![c.parser] = 0]
  BY DEF End
<1>2. c.parser \in Parsers
  BY <1>1, Inside
<1>3. /\ y \in Int /\ Done(c) \in 0..n /\ n \in Nat /\ m.error = 0 /\ m \in Moments
      /\ c.sp = Len(m.stack) /\ c.sp = Height(c.parser)[Done(c) + 1]
      /\ \A j \in 1..c.sp : Stack(t)[j] = m.stack[j]
      /\ c \in Activations
  BY <1>1, Standing
<1>4. c.ip \notin 1..n
  BY <1>1, <1>2, CodeAssumption, LenProperties
<1>5. Done(c) = n
  <2>1. Done(c) = c.ip - 1 /\ c.ip \in Nat
    BY <1>1, <1>3 DEF Done, Activations
  <2>2. QED  BY <1>3, <1>4, <2>1
<1>6. Height(c.parser)[n + 1] = 1
  BY <1>2, HeightHolds DEF Heights
<1>7. Stack(t)[c.sp] = Last(m.stack)
  <2>1. c.sp = 1
    BY <1>3, <1>5, <1>6
  <2>2. QED  BY <1>3, <2>1 DEF Last
<1>8. given = [value |-> Last(m.stack), error |-> 0]
  <2>1. given = Gives(c.parser, y, Given)
    BY <1>2, <1>3, GivenIs
  <2>2. m = Run(c.parser, y, Given)[n]
    BY <1>5 DEF Reached
  <2>3. QED  BY <1>3, <2>1, <2>2 DEF Gives
<1>9. /\ memory' \in [Arrays -> [1..StackSize -> Int]]
      /\ SameBut(memory, memory', Owner(setting.threadSafe, t, Len(calls[t]), c.parser))
  BY <1>1 DEF IInv, Typed, SameBut
<1> HIDE DEF c
<1>10. c = Here(t) /\ given = Given[c.parser][ArgumentOf(c, memory)]
  BY DEF c
<1> HIDE DEF given
<1>11. Return(t, given.value) /\ evalError' = [evalError EXCEPT ![c.parser] = given.error]
  BY <1>1, <1>7, <1>8
<1>12. QED  BY <1>1, <1>9, <1>10, <1>11, ReturnOK

\* A cPCall leads to a parser of less rank that the thread evaluates.
LEMMA CallLeads ==
  ASSUME NEW s \in Settings, NEW t \in Threads, NEW p \in Evaluates(s, t),
         NEW i \in 1..Len(Code[p]), Code[p][i].op = "cPCall", NEW q, q = Code[p][i].arg
  PROVE  /\ q \in Parsers /\ q \in Callees(p) /\ q \in Evaluates(s, t)
         /\ q # NoParser
         /\ Rank[q] < Rank[p]
         /\ Code[p][i] = [op |-> "cPCall", arg |-> q]
<1>1. p \in Parsers
  BY EvaluatesClosed
<1>2. q \in Parsers /\ q \in Callees(p) /\ Code[p][i] \in Operations
  BY <1>1, OperationTyped
<1>3. q \in Evaluates(s, t)
  BY <1>2, EvaluatesClosed
<1>4. Rank[q] < Rank[p]
  BY <1>1, <1>2, RankHolds DEF Ranks
<1>5. Code[p][i] = [op |-> "cPCall", arg |-> q]
  BY <1>2 DEF Operations
<1>6. QED  BY <1>2, <1>3, <1>4, <1>5, ConstantsAssumption

\* A callee starts on the number on top of the caller's stack.
LEMMA CallOK ==
  ASSUME IInv, NEW t \in Threads, Call(t)
  PROVE  StepOK(t)
<1> DEFINE cs == calls[t]
           safe == setting.threadSafe
           n == Len(cs)
           c == Here(t)
           p == c.parser
           q == Operand(t)
           o == Owner(safe, t, n, p)
           caller == [c EXCEPT !.ip = @ + 1, !.checks = q]
           callee == Activation(q, o, c.sp)
           es == Append(Front(cs), caller)
           fs == Append(es, callee)
<1>1. /\ At(t, "cPCall") /\ cs # <<>> /\ c.checks = NoParser
      /\ UNCHANGED <<setting, memory, evalError, outcome>>
  BY DEF Call, At
<1>2. /\ setting \in Settings /\ Typed
      /\ ChainOK(setting, t, cs) /\ n > 0 /\ n \in Nat
      /\ FramesOK(safe, t, cs, memory)
      /\ outcome[t] = Nothing /\ c = Last(cs) /\ c \in Activations
      /\ StackOwner(t, n, p) = o /\ o \in Arrays
  BY <1>1, Inside
<1>3. n \in 1..n /\ c = cs[n]
  BY <1>2, LastActivation
<1>4. p \in Evaluates(setting, t) /\ p \in Parsers
  BY <1>2, <1>3, EvaluatesClosed DEF ChainOK
<1>5. /\ c.ip \in 1..Len(Code[p]) /\ Code[p][c.ip].op = "cPCall"
      /\ c.sp \in Nat /\ c.sp = Height(p)[c.ip]
      /\ \A j \in 1..c.sp : Stack(t)[j] = Reached(c, memory).stack[j]
      /\ Reached(c, memory).stack \in Seq(Int) /\ c.sp = Len(Reached(c, memory).stack)
  BY <1>1, Executing
<1>6. q = Code[p][c.ip].arg
  BY DEF Operand
<1>7. /\ q \in Parsers /\ q \in Evaluates(setting, t) /\ q # NoParser
      /\ Rank[q] < Rank[p] /\ Code[p][c.ip] = [op |-> "cPCall", arg |-> q]
  <2> HIDE DEF c, q
  <2>1. QED  BY <1>2, <1>4, <1>5, <1>6, CallLeads
<1>8. c.sp \in 1..c.sp
  <2>1. Height(p)[c.ip] > 0
    BY <1>4, <1>5, HeightMoves
  <2> HIDE DEF c
  <2>2. QED  BY <1>5, <2>1
<1>9. /\ caller \in Activations /\ caller.parser = p /\ caller.vars = c.vars
      /\ caller.ip = c.ip + 1 /\ caller.sp = c.sp /\ caller.checks = q
  <2>1. c.ip + 1 \in Nat
    BY <1>5
  <2> HIDE DEF c, q
  <2>2. QED  BY <1>2, <1>7, <2>1 DEF Activations
<1>10. /\ callee \in Activations /\ callee.parser = q /\ callee.ip = 1 /\ callee.sp = 0
       /\ callee.vars = [array |-> o, index |-> c.sp] /\ callee.checks = NoParser
  <2> HIDE DEF c, q, o
  <2>1. QED  BY <1>2, <1>5, <1>7 DEF Activation, Activations
<1>11. /\ calls' = [calls EXCEPT ![t] = fs]
       /\ calls = [u \in Threads |-> calls[u]]
       /\ outcome = [u \in Threads |-> outcome[u]]
  BY <1>2 DEF Call, Typed
<1> HIDE DEF caller, callee
<1>12. /\ ChainOK(setting, t, es) /\ Len(es) = n /\ Last(es) = caller
       /\ \A i \in 1..(n - 1) : es[i] = cs[i]
       /\ es[n] = caller
  BY <1>2, <1>9, TopReplaced
<1> HIDE DEF es
<1>13. /\ ChainOK(setting, t, fs) /\ Len(fs) = n + 1
       /\ \A i \in 1..n : fs[i] = es[i]
       /\ fs[n + 1] = callee /\ Last(fs) = callee
  <2>1. Len(es) > 0
    BY <1>2, <1>12
  <2>2. /\ Last(es).checks = callee.parser
        /\ Rank[callee.parser] < Rank[Last(es).parser]
        /\ callee.vars = [array |-> Owner(safe, t, Len(es), Last(es).parser),
                          index |-> Last(es).sp]
    BY <1>7, <1>9, <1>10, <1>12
  <2>3. callee.parser \in Evaluates(setting, t) /\ callee \in Activations
    BY <1>7, <1>10
  <2>4. setting \in Settings /\ ChainOK(setting, t, es) /\ ~ (Len(es) = 0)
    BY <1>2, <1>12, <2>1
  <2>5. Len(es) = 0 => /\ callee.parser \in setting.uses[t]
                       /\ callee.vars = [array |-> <<t, 0>>, index |-> 1]
    BY <2>4
  <2>6. Len(es) > 0 =>
          /\ Last(es).checks = callee.parser
          /\ Rank[callee.parser] < Rank[Last(es).parser]
          /\ callee.vars = [array |-> Owner(setting.threadSafe, t, Len(es), Last(es).parser),
                            index |-> Last(es).sp]
    BY <2>2
  <2> HIDE DEF n, c, q, p, o, safe
  <2>7. /\ ChainOK(setting, t, fs) /\ Len(fs) = Len(es) + 1
        /\ \A i \in 1..Len(es) : fs[i] = es[i]
        /\ fs[Len(es) + 1] = callee /\ Last(fs) = callee
    BY <2>3, <2>4, <2>5, <2>6, ChainAppended
  <2> HIDE DEF fs
  <2>8. QED  BY <1>12, <2>7
<1> HIDE DEF fs
<1>14. /\ FrameOK(safe, t, n, c, memory) /\ ArgumentOf(c, memory) \in Int
       /\ Done(c) \in 0..Len(Code[p])
  BY <1>1, Standing
<1>15. FrameOK(safe, t, n, caller, memory)
  <2>1. ArgumentOf(caller, memory) = ArgumentOf(c, memory)
    BY <1>9 DEF ArgumentOf
  <2>2. Done(caller) = Done(c) /\ Done(c) + 1 = c.ip
    BY <1>1, <1>5, <1>7, <1>9 DEF Done
  <2>3. Reached(caller, memory) = Reached(c, memory)
    BY <1>9, <2>1, <2>2 DEF Reached
  <2>4. Done(c) < Len(Code[p])
    <3>1. Len(Code[p]) \in Nat
      BY <1>4, CodeAssumption, LenProperties
    <3> HIDE DEF c
    <3>2. QED  BY <1>5, <1>14, <2>2, <3>1
  <2>5. /\ Reached(c, memory).error = 0 /\ c.sp = Len(Reached(c, memory).stack)
        /\ \A j \in 1..c.sp : memory[o][j] = Reached(c, memory).stack[j]
    BY <1>14 DEF FrameOK
  <2> HIDE DEF c, q, o, safe, n
  <2>6. o = Owner(safe, t, n, caller.parser)
    BY <1>9 DEF o
  <2>7. QED  BY <1>7, <1>9, <1>14, <2>1, <2>2, <2>3, <2>4, <2>5, <2>6 DEF FrameOK
<1>16. FrameOK(safe, t, n + 1, callee, memory)
  <2>1. ArgumentOf(callee, memory) = Stack(t)[c.sp]
    BY <1>2, <1>10 DEF ArgumentOf, Stack
  <2>2. ArgumentOf(callee, memory) \in Int
    <3>1. Reached(c, memory).stack[c.sp] \in Int
      BY <1>5, <1>8, ElementOfSeq
    <3>2. QED  BY <1>5, <1>8, <2>1, <3>1
  <2>3. Done(callee) = 0
    BY <1>10 DEF Done
  <2>4. Reached(callee, memory) = [stack |-> <<>>, error |-> 0] /\ Len(Code[q]) \in Nat
    <3> HIDE DEF q
    <3>1. QED  BY <1>7, <1>10, <2>2, <2>3, RunSteps, GivenIs DEF Reached
  <2>5. 0 \in 0..Len(Code[q]) /\ 1..0 = {}
    BY <2>4
  <2>6. Reached(callee, memory).error = 0 /\ Len(Reached(callee, memory).stack) = 0
    BY <2>4
  <2> HIDE DEF q
  <2>7. QED  BY <1>10, <2>2, <2>3, <2>5, <2>6 DEF FrameOK
<1>17. FramesOK(safe, t, fs, memory)
  <2>1. ASSUME NEW i \in 1..(n + 1)
        PROVE  FrameOK(safe, t, i, fs[i], memory)
    <3>1. i \in 1..(n - 1) \/ i = n \/ i = n + 1
      BY <1>2
    <3>2. CASE i \in 1..(n - 1)
      <4>1. i \in 1..n /\ fs[i] = cs[i]
        BY <1>2, <1>12, <1>13, <3>2
      <4>2. QED  BY <1>2, <4>1 DEF FramesOK
    <3>3. CASE i = n
      BY <1>3, <1>12, <1>13, <1>15, <3>3
    <3>4. CASE i = n + 1
      BY <1>13, <1>16, <3>4
    <3>5. QED  BY <3>1, <3>2, <3>3, <3>4
  <2>2. QED  BY <1>13, <2>1 DEF FramesOK
<1>18. ReturnedOK(safe, t, fs, memory, evalError) /\ OutcomeOK(setting, t, fs, outcome[t], evalError)
  BY <1>2, <1>10, <1>13 DEF ReturnedOK, OutcomeOK
<1>19. ThreadOK(setting, t, fs, memory, evalError, outcome[t])
  BY <1>13, <1>17, <1>18 DEF ThreadOK
<1>20. /\ calls' = [u \in Threads |-> calls'[u]] /\ calls'[t] = fs
       /\ \A u \in Threads : u # t => calls'[u] = calls[u]
  BY <1>11
<1>21. Typed'
  BY <1>1, <1>2, <1>20 DEF Typed
<1>22. Touches(t, cs, memory, memory', evalError, evalError')
  BY <1>1 DEF Touches
<1>23. QED  BY <1>1, <1>19, <1>20, <1>21, <1>22 DEF StepOK

\* What a thread has whose callee has returned.
LEMMA Returned ==
  ASSUME IInv, NEW t \in Threads, Checks(t), NEW c, c = Here(t),
         NEW m, m = Reached(c, memory), NEW x, x = Last(m.stack)
  PROVE  /\ calls[t] # <<>>
         /\ Done(c) < Len(Code[c.parser]) /\ Done(c) + 1 \in 1..Len(Code[c.parser])
         /\ Code[c.parser][Done(c) + 1].op = "cPCall"
         /\ Code[c.parser][Done(c) + 1].arg = c.checks
         /\ m.stack \in Seq(Int) /\ m.error = 0 /\ Len(m.stack) > 0 /\ c.sp = Len(m.stack)
         /\ c.retVal \in Int
         /\ c.retVal = Given[c.checks][x].value
         /\ evalError[c.checks] = Given[c.checks][x].error
         /\ Reaching(c, memory) = After(m, Code[c.parser][Done(c) + 1],
                                        ArgumentOf(c, memory), Given)
<1> DEFINE p == c.parser
           k == Done(c)
<1>1. calls[t] # <<>> /\ c.checks # NoParser
  BY DEF Checks
<1>2. /\ c \in Activations /\ p \in Parsers
      /\ FrameOK(setting.threadSafe, t, Len(calls[t]), c, memory)
      /\ ArgumentOf(c, memory) \in Int
      /\ k \in 0..Len(Code[p]) /\ Len(Code[p]) \in Nat
      /\ m \in Moments /\ m.error = 0
      /\ c.sp = Len(m.stack) /\ c.sp = Height(p)[k + 1] /\ c.sp \in 0..StackSize
      /\ \A j \in 1..c.sp : Stack(t)[j] = m.stack[j]
  <2> HIDE DEF p, k
  <2>1. QED  BY <1>1, Standing DEF p, k
<1>3. k < Len(Code[p]) /\ Code[p][k + 1] = [op |-> "cPCall", arg |-> c.checks]
  BY <1>1, <1>2 DEF FrameOK
<1>4. k + 1 \in 1..Len(Code[p]) /\ (k + 1) - 1 = k
  BY <1>2, <1>3
<1>5. m.stack \in Seq(Int) /\ c.retVal \in Int
  BY <1>2 DEF Moments, Activations
<1>6. Len(m.stack) > 0 /\ Len(m.stack) \in Nat
  <2>1. Height(p)[k + 1] > 0
    BY <1>2, <1>3, <1>4, HeightMoves
  <2>2. QED  BY <1>2, <1>5, <2>1, LenProperties
<1>7. Reaching(c, memory) = After(m, Code[p][k + 1], ArgumentOf(c, memory), Given)
  BY <1>2, <1>4, RunSteps, GivenIs DEF Reached, Reaching
<1>8. c.retVal = Given[c.checks][x].value /\ evalError[c.checks] = Given[c.checks][x].error
  <2>1. /\ ReturnedOK(setting.threadSafe, t, calls[t], memory, evalError)
        /\ Len(calls[t]) > 0 /\ c = Last(calls[t])
        /\ StackOwner(t, Len(calls[t]), p) = Owner(setting.threadSafe, t, Len(calls[t]), p)
    BY <1>1, Inside
  <2>2. Top(setting.threadSafe, t, Len(calls[t]), c, memory) = Stack(t)[c.sp]
    BY <2>1 DEF Top, Stack
  <2>3. Stack(t)[c.sp] = x
    BY <1>2, <1>6 DEF Last
  <2>4. c = calls[t][Len(calls[t])]
    BY <2>1 DEF Last
  <2>5. QED  BY <1>1, <2>1, <2>2, <2>3, <2>4 DEF ReturnedOK
<1>9. QED  BY <1>1, <1>2, <1>3, <1>4, <1>5, <1>6, <1>7, <1>8

\* A caller fails with the error of its callee, where it fails alone as well.
LEMMA CheckFailsOK ==
  ASSUME IInv, NEW t \in Threads, CheckFails(t)
  PROVE  StepOK(t)
<1> DEFINE c == Here(t)
           m == Reached(c, memory)
           q == c.checks
           x == Last(m.stack)
           y == ArgumentOf(c, memory)
           o == Code[c.parser][Done(c) + 1]
           e == evalError[q]
           given == Given[c.parser][y]
<1>1. /\ Checks(t) /\ e # 0 /\ Put(t, c.sp, c.retVal) /\ Return(t, 0)
      /\ evalError' = [evalError EXCEPT ![c.parser] = e]
  BY DEF CheckFails
<1>2. /\ calls[t] # <<>> /\ Done(c) < Len(Code[c.parser])
      /\ o.op = "cPCall" /\ o.arg = q /\ m.stack \in Seq(Int) /\ m.error = 0 /\ Len(m.stack) > 0
      /\ c.sp = Len(m.stack) /\ c.retVal \in Int
      /\ e = Given[q][x].error
      /\ Reaching(c, memory) = After(m, o, y, Given)
  BY <1>1, Returned
<1>3. /\ c.parser \in Parsers /\ y \in Int /\ c.sp \in 0..StackSize
      /\ Done(c) \in 0..Len(Code[c.parser]) /\ Len(Code[c.parser]) \in Nat
  BY <1>2, Standing
<1>4. Reaching(c, memory).error = e
  <2> HIDE DEF m, o, y, q
  <2>1. After(m, o, y, Given) = [stack |-> m.stack, error |-> Given[o.arg][Last(m.stack)].error]
    BY <1>1, <1>2, AfterFailure
  <2>2. QED  BY <1>2, <2>1
<1>5. given = [value |-> 0, error |-> e]
  <2> DEFINE k == Done(c) + 1
  <2>1. k \in 0..Len(Code[c.parser]) /\ Run(c.parser, y, Given)[k].error = e
    BY <1>2, <1>3, <1>4 DEF Reaching
  <2> HIDE DEF c, y, k, e
  <2>2. Run(c.parser, y, Given)[k].error # 0
    BY <1>1, <2>1
  <2>3. Given[c.parser][y] = [value |-> 0, error |-> Run(c.parser, y, Given)[k].error]
    BY <1>3, <2>1, <2>2, GivenFails
  <2>4. QED  BY <2>1, <2>3
<1>6. Puts(memory, memory', Owner(setting.threadSafe, t, Len(calls[t]), c.parser), c.sp, c.retVal)
  <2>1. c.sp \in 1..StackSize
    BY <1>2, <1>3
  <2> HIDE DEF c
  <2>2. c = Here(t)
    BY DEF c
  <2>3. QED  BY <1>1, <1>2, <2>1, <2>2, PutOK
<1> HIDE DEF c
<1>7. c = Here(t) /\ given = Given[c.parser][ArgumentOf(c, memory)]
  BY DEF c
<1> HIDE DEF given
<1>8. Return(t, given.value) /\ evalError' = [evalError EXCEPT ![c.parser] = given.error]
  BY <1>1, <1>5
<1>9. /\ memory' \in [Arrays -> [1..StackSize -> Int]]
      /\ SameBut(memory, memory', Owner(setting.threadSafe, t, Len(calls[t]), c.parser))
  <2>1. memory' \in [Arrays -> [1..StackSize -> Int]]
    BY <1>6 DEF Puts
  <2>2. SameBut(memory, memory', Owner(setting.threadSafe, t, Len(calls[t]), c.parser))
    BY <1>6 DEF Puts
  <2>3. QED  BY <2>1, <2>2
<1>10. QED  BY <1>2, <1>7, <1>8, <1>9, ReturnOK

\* A caller goes on with the value that its callee gives alone.
LEMMA CheckPassesOK ==
  ASSUME IInv, NEW t \in Threads, CheckPasses(t)
  PROVE  StepOK(t)
<1> DEFINE c == Here(t)
           m == Reached(c, memory)
           u == Reaching(c, memory)
           q == c.checks
           x == Last(m.stack)
           y == ArgumentOf(c, memory)
           o == Code[c.parser][Done(c) + 1]
           a == Owner(setting.threadSafe, t, Len(calls[t]), c.parser)
           d == [c EXCEPT !.checks = NoParser]
           f == Front(m.stack)
<1>1. /\ Checks(t) /\ evalError[q] = 0 /\ Put(t, c.sp, c.retVal)
      /\ calls' = [calls EXCEPT ![t] = Append(Front(calls[t]), d)]
      /\ UNCHANGED <<setting, evalError, outcome>>
  BY DEF CheckPasses
<1>2. /\ calls[t] # <<>> /\ Done(c) < Len(Code[c.parser])
      /\ o.op = "cPCall" /\ o.arg = q /\ m.stack \in Seq(Int) /\ m.error = 0 /\ Len(m.stack) > 0
      /\ c.sp = Len(m.stack) /\ c.retVal \in Int
      /\ c.retVal = Given[q][x].value
      /\ evalError[q] = Given[q][x].error
      /\ u = After(m, o, y, Given)
  BY <1>1, Returned
<1>3. /\ c \in Activations /\ c.sp \in 0..StackSize
      /\ Done(c) \in 0..Len(Code[c.parser]) /\ Len(Code[c.parser]) \in Nat
      /\ \A j \in 1..c.sp : Stack(t)[j] = m.stack[j]
  BY <1>2, Standing
<1>4. u = [stack |-> Append(f, c.retVal), error |-> 0]
  <2> HIDE DEF m, o, y, q, u
  <2>1. After(m, o, y, Given)
          = [stack |-> Append(Front(m.stack), Given[o.arg][Last(m.stack)].value), error |-> 0]
    BY <1>1, <1>2, AfterSuccess
  <2>2. QED  BY <1>2, <2>1
<1>5. /\ f \in Seq(Int) /\ Len(f) = c.sp - 1 /\ \A j \in 1..(c.sp - 1) : f[j] = m.stack[j]
  <2> HIDE DEF m
  <2>1. /\ f \in Seq(Int) /\ Len(f) = Len(m.stack) - 1
        /\ \A j \in 1..(Len(m.stack) - 1) : f[j] = m.stack[j]
    BY <1>2, FrontLast
  <2> HIDE DEF f, c
  <2>2. QED  BY <1>2, <2>1
<1>6. /\ u.error = 0 /\ Len(u.stack) = c.sp /\ u.stack[Len(u.stack)] = c.retVal
      /\ \A j \in 1..(Len(u.stack) - 1) : Stack(t)[j] = u.stack[j]
  <2>1. /\ Append(f, c.retVal)[Len(f) + 1] = c.retVal /\ Len(Append(f, c.retVal)) = Len(f) + 1
        /\ \A j \in 1..Len(f) : Append(f, c.retVal)[j] = f[j]
    <3> HIDE DEF f
    <3>1. QED  BY <1>2, <1>5, Appended
  <2> HIDE DEF u, f, c, m
  <2>2. c.sp \in Int /\ \A j \in 1..(c.sp - 1) : j \in 1..c.sp
    BY <1>3
  <2>3. u.stack = Append(f, c.retVal) /\ u.error = 0 /\ Len(f) + 1 = c.sp
    BY <1>4, <1>5, <2>2
  <2>4. QED  BY <1>3, <1>5, <2>1, <2>2, <2>3
<1>7. PutOnTop(memory, memory', a, u)
  <2>1. c.sp \in 1..StackSize
    BY <1>2, <1>3
  <2>2. Puts(memory, memory', a, c.sp, c.retVal)
    <3> HIDE DEF c
    <3>1. c = Here(t)
      BY DEF c
    <3>2. QED  BY <1>1, <1>2, <2>1, <3>1, PutOK
  <2>3. Stack(t) = memory[a]
    BY <1>2, Inside DEF Stack
  <2> HIDE DEF u, a
  <2>4. QED  BY <1>6, <2>2, <2>3 DEF PutOnTop
<1>8. Further(c, memory, u)
  BY <1>2, <1>6 DEF Further
<1>9. GoneOn(c, d, u)
  <2>1. c.checks # NoParser /\ c.ip \in Int
    BY <1>1, <1>3 DEF Checks, Activations
  <2>2. c.ip = Done(c) + 2
    BY <2>1 DEF Done
  <2> HIDE DEF c, u
  <2>3. QED  BY <1>3, <1>6, <2>2 DEF GoneOn, Activations
<1> HIDE DEF c, d, u
<1>10. c = Here(t)
  BY DEF c
<1>11. QED  BY <1>1, <1>2, <1>7, <1>8, <1>9, <1>10, GoneOnOK

\* The user calls Eval(): what the thread has is its first activation.
LEMMA BeginOK ==
  ASSUME IInv, NEW t \in Threads, NEW p \in Parsers, NEW x \in Arguments, Begin(t, p, x)
  PROVE  StepOK(t)
<1> DEFINE safe == setting.threadSafe
           d == Activation(p, <<t, 0>>, 1)
           es == <<d>>
<1>1. /\ calls[t] = <<>> /\ p \in setting.uses[t]
      /\ memory' = [memory EXCEPT ![<<t, 0>>][1] = x]
      /\ calls' = [calls EXCEPT ![t] = es]
      /\ outcome' = [outcome EXCEPT ![t] = Nothing]
      /\ UNCHANGED <<setting, evalError>>
  BY DEF Begin
<1>2. setting \in Settings /\ Typed /\ x \in Int
  BY ConstantsAssumption DEF IInv, Typed
<1>3. p \in Evaluates(setting, t)
  BY <1>1, <1>2, EvaluatesClosed
<1>4. /\ d \in Activations /\ d.parser = p /\ d.ip = 1 /\ d.sp = 0
      /\ d.vars = [array |-> <<t, 0>>, index |-> 1] /\ d.checks = NoParser
  BY UsersArray DEF Activation, Activations
<1>5. 1 \in 1..StackSize /\ Len(Code[p]) \in Nat
  <2>1. Len(Code[p]) \in Nat
    BY CodeAssumption, LenProperties
  <2>2. Len(Code[p]) + 1 \in 1..(Len(Code[p]) + 1) /\ Height(p)[Len(Code[p]) + 1] = 1
    BY <2>1, HeightHolds DEF Heights
  <2>3. 1 \in 0..StackSize
    BY <2>2, HeightHolds
  <2>4. QED  BY <2>1, <2>3, ConstantsAssumption
<1>6. Puts(memory, memory', <<t, 0>>, 1, x)
  BY <1>1, <1>2, <1>5, PutIs, UsersArray DEF Typed
<1> HIDE DEF d
<1>7. es \in Seq(Activations) /\ Len(es) = 1 /\ es[1] = d /\ es # <<>>
  BY <1>4
<1> HIDE DEF es
<1>8. 1 + Rank[p] <= MaxDepth + 1
  <2>1. Rank[p] \in 1..MaxDepth /\ MaxDepth \in Nat
    BY RankHolds, ConstantsAssumption
  <2>2. QED  BY <2>1
<1>9. ChainOK(setting, t, es)
  BY <1>1, <1>3, <1>4, <1>7, <1>8 DEF ChainOK
<1>10. FrameOK(safe, t, 1, d, memory')
  <2>1. ArgumentOf(d, memory') = x
    BY <1>4, <1>6 DEF ArgumentOf, Puts
  <2>2. Done(d) = 0
    BY <1>4 DEF Done
  <2>3. Reached(d, memory') = [stack |-> <<>>, error |-> 0]
    <3>1. Reached(d, memory') = Run(p, x, Given)[0]
      BY <1>4, <2>1, <2>2 DEF Reached
    <3>2. QED  BY <1>2, <3>1, RunSteps, GivenIs
  <2>4. 0 \in 0..Len(Code[p]) /\ 1..0 = {}
    BY <1>5
  <2>5. Reached(d, memory').error = 0 /\ Len(Reached(d, memory').stack) = 0
    BY <2>3
  <2>6. QED  BY <1>2, <1>4, <2>1, <2>2, <2>4, <2>5 DEF FrameOK
<1>11. FramesOK(safe, t, es, memory')
  <2>1. \A i \in 1..Len(es) : i = 1
    BY <1>7
  <2>2. QED  BY <1>7, <1>10, <2>1 DEF FramesOK
<1>12. /\ calls' = [u \in Threads |-> calls'[u]] /\ calls'[t] = es
       /\ \A u \in Threads : u # t => calls'[u] = calls[u]
       /\ outcome' = [u \in Threads |-> outcome'[u]] /\ outcome'[t] = Nothing
       /\ \A u \in Threads : u # t => outcome'[u] = outcome[u]
  BY <1>1, <1>2 DEF Typed
<1>13. ReturnedOK(safe, t, es, memory', evalError') /\ OutcomeOK(setting, t, es, Nothing, evalError')
  BY <1>4, <1>7 DEF ReturnedOK, OutcomeOK
<1>14. ThreadOK(setting, t, es, memory', evalError', Nothing)
  BY <1>9, <1>11, <1>13 DEF ThreadOK
<1>15. Typed'
  BY <1>1, <1>2, <1>6, <1>12 DEF Typed, Puts
<1>16. Touches(t, calls[t], memory, memory', evalError, evalError')
  BY <1>1, <1>6 DEF Touches, Puts
<1>17. QED  BY <1>1, <1>12, <1>14, <1>15, <1>16 DEF StepOK

\* The user asks for the error of the call that returned.
LEMMA ReadErrorOK ==
  ASSUME IInv, NEW t \in Threads, ReadError(t)
  PROVE  StepOK(t)
<1> DEFINE out == outcome[t]
           e == evalError[out.parser]
           new == [out EXCEPT !.error = e]
<1>1. /\ calls[t] = <<>> /\ out # Nothing /\ out.error = Nothing
      /\ outcome' = [outcome EXCEPT ![t].error = e]
      /\ UNCHANGED <<setting, calls, memory, evalError>>
  BY DEF ReadError
<1>2. /\ setting \in Settings /\ Typed
      /\ ThreadOK(setting, t, calls[t], memory, evalError, out)
  BY DEF IInv, Typed
<1>3. OutcomeOK(setting, t, calls[t], out, evalError)
  BY <1>2 DEF ThreadOK
<1>4. out \in Outcomes
  BY <1>1, <1>3 DEF OutcomeOK
<1>5. out.parser \in Parsers /\ e \in Int /\ e # Nothing
  BY <1>2, <1>4, ConstantsAssumption DEF Outcomes, Typed
<1>6. outcome = [u \in Threads |-> outcome[u]]
  BY <1>2 DEF Typed
<1>7. /\ outcome' = [u \in Threads |-> outcome'[u]] /\ outcome'[t] = new
      /\ \A u \in Threads : u # t => outcome'[u] = outcome[u]
  BY <1>1, <1>6
<1> HIDE DEF out, e
<1>8. /\ new \in Outcomes /\ new.parser = out.parser /\ new.argument = out.argument
      /\ new.value = out.value /\ new.error = e
  BY <1>4, <1>5 DEF Outcomes
<1> HIDE DEF new
<1>9. OutcomeOK(setting, t, calls[t], new, evalError)
  <2>1. e = evalError[out.parser]
    BY DEF e
  <2>2. QED  BY <1>1, <1>3, <1>5, <1>8, <2>1 DEF OutcomeOK
<1>10. ThreadOK(setting, t, calls[t], memory, evalError, new)
  BY <1>2, <1>9 DEF ThreadOK
<1>11. Typed'
  BY <1>1, <1>2, <1>7 DEF Typed
<1>12. Touches(t, calls[t], memory, memory', evalError, evalError')
  BY <1>1 DEF Touches
<1>13. QED  BY <1>1, <1>7, <1>10, <1>11, <1>12 DEF StepOK

(***************************************************************************)
(* The invariant and what follows from it.                                 *)
(***************************************************************************)

\* Before the first call.
LEMMA InitOK == Init => IInv
<1> SUFFICES ASSUME Init PROVE IInv
  OBVIOUS
<1>1. /\ setting \in Settings
      /\ calls = [t \in Threads |-> <<>>]
      /\ memory = [a \in Arrays |-> [i \in 1..StackSize |-> 0]]
      /\ evalError = [p \in Parsers |-> 0]
      /\ outcome = [t \in Threads |-> Nothing]
  BY DEF Init
<1>2. Typed
  BY <1>1 DEF Typed
<1>3. ASSUME NEW t \in Threads
      PROVE  ThreadOK(setting, t, calls[t], memory, evalError, outcome[t])
  <2>1. calls[t] = <<>> /\ outcome[t] = Nothing
    BY <1>1
  <2>2. Len(<<>>) = 0 /\ 1..0 = {} /\ ~ (0 > 0) /\ <<>> \in Seq(Activations)
    OBVIOUS
  <2>3. ChainOK(setting, t, <<>>)
    BY <2>2 DEF ChainOK
  <2>4. FramesOK(setting.threadSafe, t, <<>>, memory)
    BY <2>2 DEF FramesOK
  <2>5. /\ ReturnedOK(setting.threadSafe, t, <<>>, memory, evalError)
        /\ OutcomeOK(setting, t, <<>>, Nothing, evalError)
    BY <2>2 DEF ReturnedOK, OutcomeOK
  <2>6. QED  BY <2>1, <2>3, <2>4, <2>5 DEF ThreadOK
<1>4. QED  BY <1>2, <1>3 DEF IInv

\* Every step keeps the invariant, where threads keep apart.
LEMMA NextKeeps ==
  ASSUME IInv, Apart(setting), [Next]_vars
  PROVE  IInv'
<1>1. ASSUME NEW t \in Threads, NEW p \in Parsers, NEW x \in Arguments, Begin(t, p, x)
      PROVE  IInv'
  BY <1>1, BeginOK, StepKeeps
<1>2. ASSUME NEW t \in Threads, Step(t)
      PROVE  IInv'
  <2>1. CASE PushVariable(t)
    BY <2>1, PushVariableOK, StepKeeps
  <2>2. CASE PushImmed(t)
    BY <2>2, PushImmedOK, StepKeeps
  <2>3. CASE Add(t)
    BY <2>3, AddOK, StepKeeps
  <2>4. CASE Divide(t)
    BY <2>4, DivideOK, StepKeeps
  <2>5. CASE DivideByZero(t)
    BY <2>5, DivideByZeroOK, StepKeeps
  <2>6. CASE Call(t)
    BY <2>6, CallOK, StepKeeps
  <2>7. CASE CheckFails(t)
    BY <2>7, CheckFailsOK, StepKeeps
  <2>8. CASE CheckPasses(t)
    BY <2>8, CheckPassesOK, StepKeeps
  <2>9. CASE End(t)
    BY <2>9, EndOK, StepKeeps
  <2>10. QED  BY <1>2, <2>1, <2>2, <2>3, <2>4, <2>5, <2>6, <2>7, <2>8, <2>9 DEF Step
<1>3. ASSUME NEW t \in Threads, ReadError(t)
      PROVE  IInv'
  BY <1>3, ReadErrorOK, StepKeeps
<1>4. CASE UNCHANGED vars
  <2>1. /\ setting' = setting /\ calls' = calls /\ memory' = memory
        /\ evalError' = evalError /\ outcome' = outcome
    BY <1>4 DEF vars
  <2>2. QED  BY <2>1 DEF IInv, Typed
<1>5. QED  BY <1>1, <1>2, <1>3, <1>4 DEF Next

\* Alone() in terms of Given.
LEMMA OutcomeAlone ==
  ASSUME IInv, NEW t \in Threads, outcome[t] # Nothing
  PROVE  /\ outcome[t].value = Alone(outcome[t].parser, outcome[t].argument).value
         /\ (/\ outcome[t].error # Nothing
             /\ \A u \in Threads \ {t} : outcome[t].parser \notin setting.uses[u])
            => outcome[t].error = Alone(outcome[t].parser, outcome[t].argument).error
<1>1. OutcomeOK(setting, t, calls[t], outcome[t], evalError)
  BY DEF IInv, ThreadOK
<1>2. Alone(outcome[t].parser, outcome[t].argument)
        = Given[outcome[t].parser][outcome[t].argument]
  BY DEF Alone, Given
<1>3. QED  BY <1>1, <1>2 DEF OutcomeOK

\* The invariant holds throughout, where threads keep apart.
THEOREM ThreadsRunAsAlone ==
  ASSUME \A s \in Settings : Apart(s)
  PROVE  Spec => []IInv
<1>1. Init => IInv
  BY InitOK
<1>2. IInv /\ [Next]_vars => IInv'
  <2>1. IInv => Apart(setting)
    BY DEF IInv, Typed
  <2>2. QED  BY <2>1, NextKeeps
<1>3. QED  BY <1>1, <1>2, PTL DEF Spec

\* Every Eval() gives the value it gives alone, whatever the other threads do
\* and wherever their steps fall, for every byte code and every use of it that
\* keeps the threads apart: no activation's stack, argument or return value is
\* ever written by another.
THEOREM ThreadsEvaluateAlone ==
  ASSUME \A s \in Settings : Apart(s)
  PROVE  Spec => []EvaluatesAlone
<1>1. IInv => EvaluatesAlone
  BY OutcomeAlone DEF EvaluatesAlone
<1>2. QED  BY <1>1, ThreadsRunAsAlone, PTL

\* EvalError() asked after a call tells of that call, however many calls on
\* other parsers failed since, where no other thread uses the parser.
THEOREM ThreadsReportErrors ==
  ASSUME \A s \in Settings : Apart(s)
  PROVE  Spec => []ErrorsReported
<1>1. IInv => ErrorsReported
  BY OutcomeAlone DEF ErrorsReported
<1>2. QED  BY <1>1, ThreadsRunAsAlone, PTL
==============================================================================
