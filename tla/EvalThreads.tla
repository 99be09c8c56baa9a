------------------------------ MODULE EvalThreads ------------------------------
(***************************************************************************)
(* Threads that call Eval() at the same time (FunctionParserBase::Eval,    *)
(* fparser.cc).                                                            *)
(*                                                                         *)
(* Eval() keeps IP, SP and DP in local variables, but two things outside:  *)
(* the operand stack, which is mData->mStack unless the library is built   *)
(* with FP_USE_THREAD_SAFE_EVAL, and mData->mEvalErrorType, always.  A     *)
(* cPCall passes the callee a pointer into the caller's stack, and reads   *)
(* the callee's EvalError() after the callee has returned.                 *)
(*                                                                         *)
(* A step is one turn of Eval()'s loop.  Parsers have been parsed, with    *)
(* one parameter; byte code keeps one operation of each kind that touches  *)
(* the stack or the error in a way of its own.                             *)
(***************************************************************************)
EXTENDS Integers, SequencesExt

CONSTANTS
  Threads,
  Parsers,    (* Data structs: what objects that share one evaluate.       *)
  Code,       (* mByteCode of each: a sequence of records [op, arg].       *)
  Arguments,  (* Numbers the user passes to Eval().                        *)
  Settings,   (* Builds and uses to consider: records [threadSafe, uses],  *)
              (* where thread t calls Eval() of the parsers uses[t] only.  *)
  StackSize,  (* mStackSize of every parser.                               *)
  MaxDepth,   (* A bound no chain of cPCalls exceeds.                      *)
  NoParser,   (* No callee whose error is still to be checked.             *)
  Nothing     (* No outcome; an EvalError() not asked for.                 *)

ASSUME ConstantsAssumption ==
  /\ Arguments \subseteq Int
  /\ StackSize \in Nat
  /\ MaxDepth \in Nat
  /\ NoParser \notin Parsers
  /\ Nothing \notin Int
  /\ \A s \in Settings :
       s.threadSafe \in BOOLEAN /\ s.uses \in [Threads -> SUBSET Parsers]

Operations == [op : {"var", "cImmed", "cAdd", "cDiv"}, arg : Int]
              \cup [op : {"cPCall"}, arg : Parsers]

\* Operands an operation finds on the stack; it leaves one number.
Takes(o) == CASE o.op \in {"var", "cImmed"} -> 0
              [] o.op = "cPCall"            -> 1
              [] o.op \in {"cAdd", "cDiv"}  -> 2

\* h[i] is SP before operation i of a code, and h[Len + 1] at its end.
Heights(code, h) ==
  /\ h[1] = 0
  /\ h[Len(code) + 1] = 1
  /\ \A i \in 1..Len(code) : /\ h[i] >= Takes(code[i])
                             /\ h[i + 1] = h[i] - Takes(code[i]) + 1

Callees(p) == {Code[p][i].arg : i \in {j \in DOMAIN Code[p] : Code[p][j].op = "cPCall"}}

\* Chains of calls are finite: AddFunction() refuses a loop.
Ranks(r) == \A p \in Parsers : \A q \in Callees(p) : r[q] < r[p]

\* What the compiler and AddFunction() make.
ASSUME CodeAssumption ==
  /\ Code \in [Parsers -> Seq(Operations)]
  /\ \A p \in Parsers :
       \E h \in [1..(Len(Code[p]) + 1) -> 0..StackSize] : Heights(Code[p], h)
  /\ \E r \in [Parsers -> 1..MaxDepth] : Ranks(r)

VARIABLES
  setting,    (* The build, and which thread uses what; it never changes.  *)
  calls,      (* Eval() activations of each thread, the innermost last.    *)
  memory,     (* Every array of Value_t: stacks, and the users' arguments. *)
  evalError,  (* mEvalErrorType of each Data.                              *)
  outcome     (* The last call of each thread: what its user has seen.     *)

vars == <<setting, calls, memory, evalError, outcome>>

(***************************************************************************)
(* Arrays, by owner: <<t, 0>> is thread t's array of arguments.            *)
(***************************************************************************)
Arrays == Parsers \cup (Threads \X (0..MaxDepth))

ASSUME ArraysAssumption == Parsers \cap (Threads \X (0..MaxDepth)) = {}

\* Mutant: mStack is the stack in every build.
SharedStack(t, depth, p) == p

\* The stack of an activation: one of its own, or mData->mStack.
StackOwner(t, depth, p) == IF setting.threadSafe THEN <<t, depth>> ELSE p

Here(t) == Last(calls[t])

Stack(t) == memory[StackOwner(t, Len(calls[t]), Here(t).parser)]

\* The operator / of integers.
Quotient(x, y) ==
  LET Size(n) == IF n < 0 THEN -n ELSE n
      q == Size(x) \div Size(y)
  IN  IF (x < 0) = (y < 0) THEN q ELSE -q

Put(t, i, x) ==
  memory' = [memory EXCEPT
               ![StackOwner(t, Len(calls[t]), Here(t).parser)][i] = x]

Activation(p, array, i) ==
  [parser |-> p, ip |-> 1, sp |-> 0, vars |-> [array |-> array, index |-> i],
   checks |-> NoParser, retVal |-> 0]

Init ==
  /\ setting \in Settings
  /\ calls = [t \in Threads |-> <<>>]
  /\ memory = [a \in Arrays |-> [i \in 1..StackSize |-> 0]]
  /\ evalError = [p \in Parsers |-> 0]
  /\ outcome = [t \in Threads |-> Nothing]

\* The user of thread t calls Eval() of p on a number.
Begin(t, p, x) ==
  /\ calls[t] = <<>>
  /\ p \in setting.uses[t]
  /\ memory' = [memory EXCEPT ![<<t, 0>>][1] = x]
  /\ calls' = [calls EXCEPT ![t] = <<Activation(p, <<t, 0>>, 1)>>]
  /\ outcome' = [outcome EXCEPT ![t] = Nothing]
  /\ UNCHANGED <<setting, evalError>>

\* Thread t is about to run an operation of this kind.
At(t, op) ==
  /\ calls[t] # <<>>
  /\ Here(t).checks = NoParser
  /\ Here(t).ip \in DOMAIN Code[Here(t).parser]
  /\ Code[Here(t).parser][Here(t).ip].op = op

Operand(t) == Code[Here(t).parser][Here(t).ip].arg

\* Thread t goes on to the next operation with SP moved by n.
Advance(t, n) ==
  /\ LET next == [Here(t) EXCEPT !.ip = @ + 1, !.sp = @ + n]
     IN  calls' = [calls EXCEPT ![t] = Append(Front(@), next)]
  /\ UNCHANGED <<setting, outcome>>

\* The innermost Eval() of thread t returns x: to the cPCall that made it, or
\* to its user.
Return(t, x) ==
  /\ LET callers == Front(calls[t])
     IN  IF callers = <<>>
         THEN /\ calls' = [calls EXCEPT ![t] = <<>>]
              /\ outcome' = [outcome EXCEPT ![t] =
                   [parser |-> Here(t).parser, argument |-> memory[<<t, 0>>][1],
                    value |-> x, error |-> Nothing]]
         ELSE /\ calls' = [calls EXCEPT ![t] =
                   Append(Front(callers),
                          [Last(callers) EXCEPT !.retVal = x])]
              /\ UNCHANGED outcome
  /\ UNCHANGED setting

(***************************************************************************)
(* The operations.                                                         *)
(***************************************************************************)
PushVariable(t) ==
  /\ At(t, "var")
  /\ LET v == Here(t).vars
     IN  Put(t, Here(t).sp + 1, memory[v.array][v.index])
  /\ Advance(t, 1)
  /\ UNCHANGED evalError

PushImmed(t) ==
  /\ At(t, "cImmed")
  /\ Put(t, Here(t).sp + 1, Operand(t))
  /\ Advance(t, 1)
  /\ UNCHANGED evalError

Add(t) ==
  /\ At(t, "cAdd")
  /\ LET sp == Here(t).sp
     IN  Put(t, sp - 1, Stack(t)[sp - 1] + Stack(t)[sp])
  /\ Advance(t, -1)
  /\ UNCHANGED evalError

Divide(t) ==
  /\ At(t, "cDiv")
  /\ Stack(t)[Here(t).sp] # 0
  /\ LET sp == Here(t).sp
     IN  Put(t, sp - 1, Quotient(Stack(t)[sp - 1], Stack(t)[sp]))
  /\ Advance(t, -1)
  /\ UNCHANGED evalError

DivideByZero(t) ==
  /\ At(t, "cDiv")
  /\ Stack(t)[Here(t).sp] = 0
  /\ evalError' = [evalError EXCEPT ![Here(t).parser] = 1]
  /\ Return(t, 0)
  /\ UNCHANGED memory

\* cPCall: the callee's Vars point to the top of this stack.
Call(t) ==
  /\ At(t, "cPCall")
  /\ LET caller == [Here(t) EXCEPT !.ip = @ + 1, !.checks = Operand(t)]
         array  == StackOwner(t, Len(calls[t]), Here(t).parser)
         callee == Activation(Operand(t), array, Here(t).sp)
     IN  calls' = [calls EXCEPT ![t] = Append(Append(Front(@), caller), callee)]
  /\ UNCHANGED <<setting, memory, evalError, outcome>>

\* Mutant: an Eval() that succeeds leaves the error of the one before.
EndKeepingError(t) ==
  /\ calls[t] # <<>>
  /\ Here(t).checks = NoParser
  /\ Here(t).ip \notin DOMAIN Code[Here(t).parser]
  /\ Return(t, Stack(t)[Here(t).sp])
  /\ UNCHANGED <<memory, evalError>>

\* The end of the byte code.
End(t) ==
  /\ calls[t] # <<>>
  /\ Here(t).checks = NoParser
  /\ Here(t).ip \notin DOMAIN Code[Here(t).parser]
  /\ evalError' = [evalError EXCEPT ![Here(t).parser] = 0]
  /\ Return(t, Stack(t)[Here(t).sp])
  /\ UNCHANGED memory

\* The innermost activation of thread t has a callee that has returned.
Checks(t) == calls[t] # <<>> /\ Here(t).checks # NoParser

\* Mutant: a callee that failed is called again.
CheckRetrying(t) ==
  /\ Checks(t)
  /\ evalError[Here(t).checks] # 0
  /\ LET caller == [Here(t) EXCEPT !.ip = @ - 1, !.checks = NoParser]
     IN  calls' = [calls EXCEPT ![t] = Append(Front(@), caller)]
  /\ UNCHANGED <<setting, memory, evalError, outcome>>

\* The rest of cPCall: the value is stored, then the callee's EvalError() read.
CheckFails(t) ==
  /\ Checks(t)
  /\ evalError[Here(t).checks] # 0
  /\ Put(t, Here(t).sp, Here(t).retVal)
  /\ evalError' = [evalError EXCEPT
                     ![Here(t).parser] = evalError[Here(t).checks]]
  /\ Return(t, 0)

CheckPasses(t) ==
  /\ Checks(t)
  /\ evalError[Here(t).checks] = 0
  /\ Put(t, Here(t).sp, Here(t).retVal)
  /\ LET caller == [Here(t) EXCEPT !.checks = NoParser]
     IN  calls' = [calls EXCEPT ![t] = Append(Front(@), caller)]
  /\ UNCHANGED <<setting, evalError, outcome>>

\* The user of thread t asks for the EvalError() of the call that returned.
ReadError(t) ==
  /\ calls[t] = <<>>
  /\ outcome[t] # Nothing
  /\ outcome[t].error = Nothing
  /\ outcome' = [outcome EXCEPT ![t].error = evalError[outcome[t].parser]]
  /\ UNCHANGED <<setting, calls, memory, evalError>>

\* One turn of the loop of Eval() in thread t.
Step(t) ==
  \/ PushVariable(t)
  \/ PushImmed(t)
  \/ Add(t)
  \/ Divide(t)
  \/ DivideByZero(t)
  \/ Call(t)
  \/ CheckFails(t)
  \/ CheckPasses(t)
  \/ End(t)

Next ==
  \E t \in Threads :
    \/ \E p \in Parsers, x \in Arguments : Begin(t, p, x)
    \/ Step(t)
    \/ ReadError(t)

\* A thread inside Eval() takes no lock: the scheduler of the operating system
\* runs it on.  Nothing makes a user call Eval() again.
Fairness == \A t \in Threads : WF_vars(Step(t))

Spec == Init /\ [][Next]_vars /\ Fairness

(***************************************************************************)
(* What the documentation lets threads do.                                 *)
(***************************************************************************)

\* The parsers that thread t evaluates: those it uses, and what they call.
Evaluates(s, t) ==
  {p \in Parsers :
     \A S \in SUBSET Parsers :
       (s.uses[t] \subseteq S /\ \A q \in S : Callees(q) \subseteq S) => p \in S}

\* No two threads evaluate one parser, in the thread-safe build no parser that
\* one of them reaches by a cPCall.
Apart(s) ==
  \A t, u \in Threads : t # u =>
    \A p \in Evaluates(s, t) : \A q \in Evaluates(s, u) :
      /\ s.threadSafe \/ p # q
      /\ q \notin Callees(p)

(***************************************************************************)
(* Properties.                                                             *)
(***************************************************************************)

\* What operation o of an Eval() on y makes of its stack and its error, where
\* inner[q][x] is what Eval() of q on x gives.
After(m, o, y, inner) ==
  LET top  == Last(m.stack)
      rest == Front(m.stack)
      Result(below, z) == [stack |-> Append(below, z), error |-> 0]
      Failure(e)       == [stack |-> m.stack, error |-> e]
  IN  IF m.error # 0 THEN m
      ELSE CASE o.op = "var"    -> Result(m.stack, y)
             [] o.op = "cImmed" -> Result(m.stack, o.arg)
             [] o.op = "cAdd"   -> Result(Front(rest), Last(rest) + top)
             [] o.op = "cDiv"   ->
                  IF top = 0 THEN Failure(1)
                  ELSE Result(Front(rest), Quotient(Last(rest), top))
             [] o.op = "cPCall" ->
                  IF inner[o.arg][top].error # 0
                  THEN Failure(inner[o.arg][top].error)
                  ELSE Result(rest, inner[o.arg][top].value)

\* The stack and the error of Eval() of p on y after each of its operations.
Run(p, y, inner) ==
  LET m[i \in 0..Len(Code[p])] ==
        IF i = 0 THEN [stack |-> <<>>, error |-> 0]
        ELSE After(m[i - 1], Code[p][i], y, inner)
  IN  m

\* What Eval() of p on y gives.
Gives(p, y, inner) ==
  LET end == Run(p, y, inner)[Len(Code[p])]
  IN  [value |-> IF end.error = 0 THEN Last(end.stack) ELSE 0, error |-> end.error]

\* level[d] is what parsers give whose chains of calls are at most d long.
Level ==
  LET level[d \in 0..MaxDepth] ==
        [p \in Parsers |-> [y \in Int |->
           IF d = 0 THEN [value |-> 0, error |-> 0] ELSE Gives(p, y, level[d - 1])]]
  IN  level

\* What Eval() of p on x gives where no other call runs: [value, error].
Alone(p, x) == Level[MaxDepth][p][x]

\* Every call gives the value it gives alone, whatever calls the other threads
\* make meanwhile and in whatever order their steps fall.
EvaluatesAlone ==
  \A t \in Threads : outcome[t] # Nothing =>
    outcome[t].value = Alone(outcome[t].parser, outcome[t].argument).value

\* EvalError() tells of the user's own call, if no other thread evaluates this
\* parser: also after other calls, on it or on the parsers it calls, failed.
ErrorsReported ==
  \A t \in Threads :
    (/\ outcome[t] # Nothing
     /\ outcome[t].error # Nothing
     /\ \A u \in Threads \ {t} : outcome[t].parser \notin setting.uses[u])
    => outcome[t].error = Alone(outcome[t].parser, outcome[t].argument).error

\* Every Eval() returns, errors in its callees included, if its own thread runs
\* on: it waits for no other thread.
EvalReturns ==
  \A t \in Threads : calls[t] # <<>> ~> calls[t] = <<>>
==============================================================================
