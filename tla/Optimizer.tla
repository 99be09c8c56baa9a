------------------------------ MODULE Optimizer ------------------------------
(***************************************************************************)
(* Optimize() in the build for long: the byte code of a parsed function is *)
(* read into a tree, which is folded while it is built; the grammars       *)
(* simplify it; inversions and negations are recreated; byte code is made  *)
(* from the tree and takes the place of the old one.  A function may be    *)
(* optimized again.                                                        *)
(***************************************************************************)
EXTENDS ReadByteCode, TreeGrammar, Inversions, Synthesis

CONSTANTS
  Grammars,    \* what texts are typed from (Compiler)
  Points,      \* the arguments <<x, y>> that a function is evaluated for
  MaxOptimize  \* how often a function is optimized at most

VARIABLES
  grammar,     \* what this text is typed from
  text,        \* the text
  out,         \* what ParseFunction made of it
  func,        \* mByteCode, mImmed and mStackSize of the Data
  stage,       \* how far Optimize() has got
  tree,        \* the CodeTree in Optimize()
  round,       \* which grammar is being applied
  had,         \* the trees that this grammar had before
  known,       \* what the synthesizer says is on the stack in the end
  times        \* how often Optimize() was called

C == INSTANCE Compiler

vars == <<grammar, text, out, func, stage, tree, round, had, known, times>>

ASSUME OptimizerAssumption == MaxOptimize \in Nat \ {0}

Function(s) == [code |-> s.code, imm |-> s.imm, size |-> s.size]

-----------------------------------------------------------------------------

Init ==
  /\ C!Init
  /\ func = Function(out)
  /\ stage = "parsed"
  /\ tree = CodeTreeImmed(0)
  /\ round = 1
  /\ had = {}
  /\ known = <<>>
  /\ times = 0

\* Parse() of a longer text.
Parse(t) ==
  /\ stage = "parsed"
  /\ C!Type(t)
  /\ func' = Function(out')
  /\ UNCHANGED <<stage, tree, round, had, known, times>>

\* Optimize() of a function that was parsed without an error.
Generate ==
  /\ stage \in {"parsed", "optimized"}
  /\ C!Accepted
  /\ times < MaxOptimize
  /\ tree' = GenerateFrom(func.code, func.imm)
  /\ stage' = "read"
  /\ round' = 1
  /\ times' = times + 1
  /\ UNCHANGED <<grammar, text, out, func, had, known>>

\* ApplyGrammars(): each grammar is applied until it changes nothing more.  The
\* passes that change nothing are part of the step that comes after them.
Rounds == <<round1, round2, round3, round4, shortcut_logical_evaluation, abslogical>>

ApplyGrammars ==
  /\ stage = "read"
  /\ \E passes \in {[k \in round..Len(Rounds) |-> ApplyGrammar(tree, Rounds[k], FALSE)]} :
       LET changing == {k \in DOMAIN passes : passes[k].changed}
       IN IF changing = {} THEN stage' = "simplified" /\ round' = 1 /\ had' = {} /\ UNCHANGED tree
          ELSE /\ round' = First(changing)
               /\ tree' = passes[First(changing)].tree
               /\ had' = {tree} \cup (IF round' = round THEN had ELSE {})
               /\ UNCHANGED stage
  /\ UNCHANGED <<grammar, text, out, func, known, times>>

\* SynthesizeByteCode() first changes the tree ...
Recreate ==
  /\ stage = "simplified"
  /\ tree' = Sort(RecreateInversionsAndNegations(tree))
  /\ stage' = "recreated"
  /\ UNCHANGED <<grammar, text, out, func, round, had, known, times>>

\* ... and then makes the new byte code of it.
Synthesize ==
  /\ stage = "recreated"
  /\ LET s == Pull(SynthesizeTree(NewSynth, tree, FALSE))
     IN func' = Function(s) /\ known' = s.known
  /\ stage' = "optimized"
  /\ UNCHANGED <<grammar, text, out, tree, round, had, times>>

Next == (\E t \in grammar.tokens : Parse(t)) \/ Generate \/ ApplyGrammars \/ Recreate \/ Synthesize

Spec == Init /\ [][Next]_vars

-----------------------------------------------------------------------------
(***************************************************************************)
(* Properties.                                                             *)
(***************************************************************************)

Evaluated(q) == Eval(func.code, func.imm, q)
HasTree == stage \in {"read", "simplified", "recreated"}

Subtrees(t) == {t} \cup ToSet(Descendants(t))

\* Each node has as many parameters as its opcode takes; a group has at least
\* two, and a power a constant exponent, which is at least 2.
IsTree(t) ==
  CASE t.op \in {"cImmed", "VarBegin"} -> t.par = <<>>
    [] t.op \in Ifs -> Len(t.par) = 3
    [] t.op = "cPow" -> Len(t.par) = 2 /\ IsImmed(t.par[2]) /\ t.par[2].val >= 2
    [] t.op \in Groups \cup {"cAbsAnd", "cAbsOr"} -> Len(t.par) >= 2
    [] OTHER -> Len(t.par) = Operands(Number[t.op])

\* Whatever the folding of its parts left, the tree is one that byte code can
\* be made from (a sum or product without parameters makes none for min()).
TypeOK ==
  /\ C!TypeOK
  /\ stage \in {"parsed", "read", "simplified", "recreated", "optimized"}
  /\ round \in DOMAIN Rounds /\ times \in 0..MaxOptimize
  /\ func.code \in Seq(0 .. FP_ParamGuardMask - 1) /\ func.imm \in Seq(Int)
  /\ HasTree => \A t \in Subtrees(tree) : IsTree(t)

\* The rules for powers assume that no constant is a factor of what is raised
\* to a power: fp_log2 of a long is 0, and they divide by it.
NoScaledPower ==
  HasTree =>
    \A t \in Subtrees(tree) :
      t.op = "cPow" /\ t.par[1].op = "cMul" => \A i \in DOMAIN t.par[1].par : ~IsImmed(t.par[1].par[i])

\* A value that the text computes lies in the range that the optimizer
\* estimates for it: what is decided from a range alone is right.
RangesHold ==
  HasTree =>
    \A t \in Subtrees(tree) :
      LET r == CalculateResultBoundaries(t)
      IN \A q \in Points : \A v \in Evaluate(t, q) : Within(v, r)

\* The tree has the value of the byte code that it was read from, wherever
\* that has one, both as it was read and folded and with its inversions.
TreeKeepsValues ==
  HasTree =>
    \A q \in Points :
      Evaluated(q).status = "done" => Evaluate(tree, q) = {Top(Evaluated(q).st)}

\* The byte code that was made has the value of the tree, wherever the tree
\* has one: the subexpressions that are shared, the sequences for powers and
\* multiples, the peephole rules and the jumps change none.
SynthesisKeepsValues ==
  stage = "optimized" =>
    \A q \in Points :
      LET v == Evaluate(tree, q)
      IN v # {} => Evaluated(q).status = "done" /\ {Top(Evaluated(q).st)} = v

\* What the synthesizer says of a place of the stack is true when Eval ends,
\* whichever branches were taken: a tree that is found there has that value,
\* wherever it has one (1/x*x, which is not computed, has none when x is 0).
RecordsTrue ==
  stage = "optimized" =>
    \A q \in Points :
      Evaluated(q).status = "done" =>
        \A i \in DOMAIN Evaluated(q).st \cap DOMAIN known :
          \A t \in known[i] : Evaluate(t, q) \subseteq {Evaluated(q).st[i]}

\* The stack size that SynthesizeByteCode reports is enough for what it made,
\* no place is read that is not there, and every immediate is used up.
StackReported ==
  stage = "optimized" =>
    \A q \in Points :
      LET m == Evaluated(q)
      IN /\ m.status # "corrupt" /\ m.peak <= func.size
         /\ m.status = "done" => m.dp = Len(func.imm)

\* The rules of a grammar never undo one another: no grammar comes back to a
\* tree that it had before.  Applying them has no other way not to end than
\* to go on with larger and larger trees.
GrammarsProgress == stage = "read" => tree \notin had
=============================================================================
