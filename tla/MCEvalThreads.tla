---------------------------- MODULE MCEvalThreads ----------------------------
(***************************************************************************)
(* Instances of EvalThreads for TLC.                                       *)
(***************************************************************************)
EXTENDS EvalThreads, TLC

CONSTANTS t1, t2, f1, f2, g1, g2

Var == [op |-> "var", arg |-> 0]
Immed(x) == [op |-> "cImmed", arg |-> x]
Plus == [op |-> "cAdd", arg |-> 0]
Over == [op |-> "cDiv", arg |-> 0]
PCall(p) == [op |-> "cPCall", arg |-> p]

\* g1 and g2 are x+2/x, f1 and f2 call one of them: x+g1(x), x+g2(x).
Inner == <<Var, Immed(2), Var, Over, Plus>>
Outer(g) == <<Var, Var, PCall(g), Plus>>

CodeOwnCallees == (f1 :> Outer(g1)) @@ (f2 :> Outer(g2))
                  @@ (g1 :> Inner) @@ (g2 :> Inner)

\* The deep copy of a parser keeps the pointers to the parsers it calls.
CodeOneCallee == (f1 :> Outer(g1)) @@ (f2 :> Outer(g1))
                 @@ (g1 :> Inner) @@ (g2 :> Inner)

Uses(p, q) == (t1 :> {p}) @@ (t2 :> {q})

\* What the documentation asks for: an instance of its own for each thread, or
\* the thread-safe build; and parsers that are called are not shared.
SafeSettings == {[threadSafe |-> FALSE, uses |-> Uses(f1, f2)],
                 [threadSafe |-> TRUE, uses |-> Uses(f1, f2)],
                 [threadSafe |-> TRUE, uses |-> Uses(g1, g1)]}

DeepCopies == {[threadSafe |-> FALSE, uses |-> Uses(f1, f2)]}

OneInstance == {[threadSafe |-> TRUE, uses |-> Uses(f1, f1)]}

ASSUME SafetyAssumption ==
  (\A s \in Settings : Apart(s)) <=> (Code = CodeOwnCallees /\ Settings = SafeSettings)
==============================================================================
