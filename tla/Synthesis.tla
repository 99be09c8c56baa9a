------------------------------ MODULE Synthesis ------------------------------
(***************************************************************************)
(* SynthesizeByteCode(): the byte code made from a tree, in the build for  *)
(* long.  Subtrees that occur more than once are computed first and kept   *)
(* on the stack; products with constants and powers become sequences of    *)
(* additions and multiplications.                                          *)
(*                                                                         *)
(* A synthesis s (ByteCodeSynth) has the byte code, mImmed, StackTop (sp)  *)
(* and StackMax (size) that the peephole optimizer works on, and known     *)
(* (StackState): for each place of the stack the tree whose value it is    *)
(* known to hold, or none.  A place that is popped keeps what it says.     *)
(* Places are counted from 1, but from 0 in the byte code.                 *)
(***************************************************************************)
EXTENDS Folding, Peephole

-----------------------------------------------------------------------------
(***************************************************************************)
(* The synthesizer (bytecodesynth.hh).                                     *)
(***************************************************************************)

NewSynth == [code |-> <<>>, imm |-> <<>>, sp |-> 0, size |-> 0, known |-> <<>>,
             used |-> {}, outside |-> FALSE]

Emit(s, bytes) == [s EXCEPT !.code = @ \o bytes]
Guard(v) == v + FP_ParamGuardMask

EatNParams(s, n) == [s EXCEPT !.sp = @ - n]
Known(s, i) == IF i \in DOMAIN s.known THEN s.known[i] ELSE {}
Says(s, i, trees) ==
  [s EXCEPT !.known = [j \in 1..s.size |-> IF j = i THEN trees ELSE Known(s, j)]]

\* Mutant: the place below the top one.
StackTopIsBelow(s, t) == IF s.sp > 1 THEN Says(s, s.sp - 1, {t}) ELSE s

StackTopIs(s, t) == IF s.sp > 0 THEN Says(s, s.sp, {t}) ELSE s
IsStackTop(s, t) == s.sp > 0 /\ t \in Known(s, s.sp)

\* The places where t is, and the one that is used.
Places(s, t) == {i \in 1..s.sp : t \in Known(s, i)}
Found(s, t) == Places(s, t) # {}
FindPos(s, t) == Largest(Places(s, t))

SynthImmed(s, v) == ProducedNParams([s EXCEPT !.code = Append(@, Number["cImmed"]),
                                              !.imm = Append(@, v)], 1)
PushVar(s, b) == ProducedNParams(Emit(s, <<b>>), 1)

AddOperation(s, o, eat) == ProducedNParams(EatNParams(AddFunctionOpcode(s, Number[o]), eat), 1)

DoDup(s, i) ==
  LET t == ProducedNParams(Emit(s, IF i = s.sp THEN <<Number["cDup"]>>
                                   ELSE <<Number["cFetch"], Guard(i - 1)>>), 1)
  IN Says(t, t.sp, Known(s, i))

\* The value at source becomes the top of the stack, at target.
DoPopNMov(s, target, source) ==
  LET t == Emit(s, <<Number["cPopNMov"], Guard(target - 1), Guard(source - 1)>>)
  IN [Says(t, target, Known(s, source)) EXCEPT !.sp = target]

-----------------------------------------------------------------------------
(***************************************************************************)
(* if(): the parameters of a jump are set when the place it goes to is     *)
(* reached; a jump to a jump is redirected to where that one goes.         *)
(***************************************************************************)

\* The condition, or the first branch, ends here: a jump without its target.
JumpHere(s, o) == EatNParams(Emit(s, <<Number[o], Guard(0), Guard(0)>>), 1)

\* Sets the jump at index i to go to the byte with this number.
SetJump(s, i, byte) ==
  [s EXCEPT !.code = [@ EXCEPT ![i + 1] = Guard(byte), ![i + 2] = Guard(Len(s.imm))]]

SynthIfStep2(s, i) == JumpHere(SetJump(s, i, Len(s.code) + 2), "cJump")

\* Mutant: the last byte of the second branch stays as it is.
SynthIfStep3Unguarded(s, i) == SetJump(s, i, Len(s.code) - 1)

\* The bit is set in the last byte, so that no rule changes the second branch.
SynthIfStep3(s, i) ==
  LET guarded == [s EXCEPT !.code[Len(s.code)] = IF @ >= FP_ParamGuardMask THEN @ ELSE Guard(@)]
      set == SetJump(guarded, i, Len(s.code) - 1)
      threaded == {j \in 1 .. i - 1 : set.code[j] = Number["cJump"] /\ set.code[j + 1] = Guard(i - 2)}
  IN FoldSet(LAMBDA j, r : SetJump(r, j, Len(s.code) - 1), set, threaded)

-----------------------------------------------------------------------------
(***************************************************************************)
(* AssembleSequence(): the operand on top of the stack is multiplied by    *)
(* count, or raised to the power of count, by way of smaller factors.  A   *)
(* cache has the places of the factors that are on the stack, and how      *)
(* often each is still needed.                                             *)
(***************************************************************************)

AddSequence == [basevalue |-> 0, flip |-> "cNeg", normal |-> "cAdd", normal_flip |-> "cAdd",
                inverse |-> "cSub", inverse_flip |-> "cRSub"]
MulSequence == [basevalue |-> 1, flip |-> "cInv", normal |-> "cMul", normal_flip |-> "cMul",
                inverse |-> "cDiv", inverse_flip |-> "cRDiv"]

\* How a factor is made, from powi_table: 128 is added for a product.
powi_table == <<
    1,   1,   1,   2,   1,   2,   1,   4,   1,   2,   1,   4,   1,   2, 131,
    8,   1,   2,   1,   4,   1,   2,   1,   8, 133,   2, 131,   4,   1,  15,   1,
   16,   1,   2,   1,   4,   1,   2, 131,   8,   1,   2,   1,   4, 133,   2,   1,
   16,   1,  25, 131,   4,   1,  27,   5,   8,   3,   2,   1,  30,   1,  31,   3,
   32,   1,   2,   1,   4,   1,   2,   1,   8,   1,   2, 131,   4,   1,  39,   1,
   16, 137,   2,   1,   4, 133,   2, 131,   8,   1,  45, 135,   4,  31,   2,   5,
   32,   1,   2, 131,  50,   1,  51,   1,   8,   3,   2,   1,  54,   1,  55,   3,
   16,   1,  57, 133,   4, 137,   2, 135,  60,   1,  61,   3,  62, 133,  63,   1,
  130,   1,   2,   1, 130,   1,   2, 131, 130,   1,   2,   1, 130,   1,   2, 139,
  130,   1,   2, 131, 130,   1,  30,   1, 130, 137,   2,  31, 130,   1,   2, 131,
  130,   1, 130,   1, 130, 133,   2,   1, 130,   1, 130,   1,   2,   1, 130, 133,
  130,   1,   2,   1, 130,   1,   2,  61, 130, 133,  62, 139, 130, 137, 130,   1,
  130,   1,   2, 131, 130,   1, 130,   1, 130,   1,   2,   1, 130,   1,   2, 131,
  130,   1, 130,   1, 130, 131,   2, 133, 130,   1,   2, 131, 130, 141, 130,   1,
  130, 133,   2,   1, 130,   1,   5, 135, 130,   1, 130,   1,   2, 131, 130,   1,
  130,   1,   2, 131, 130, 133, 130, 141, 130, 131, 130,   1, 130,   1,   2, 131 >>

IsProduct(value) == value <= 255 /\ powi_table[value] >= 128
Entry(value) == powi_table[value] % 128
\* A factor above 63 stands for a negative one.
Half(value) ==
  CASE value > 255 -> IF value % 2 = 1 THEN value % 8 ELSE value \div 2
    [] value <= 255 -> IF Entry(value) >= 64 THEN -(Entry(value) % 64) - 1 ELSE Entry(value)

\* A sum is made of a part and of another one, which may be subtracted.
Part1(value) == LET h == Half(value) IN IF h > value - h \/ h < 0 THEN value - h ELSE h
Part2(value) == value - Part1(value)

Cacheable(value) == value < 256

\* PlanNtimesCache: how often each factor is needed, and which will be made.
RECURSIVE PlanNtimesCache(_, _, _)
PlanNtimesCache(value, cache, need) ==
  LET planned == IF Cacheable(value) THEN [cache EXCEPT !.needed[value] = @ + need] ELSE cache
      has(c, v) == IF Cacheable(v) THEN [c EXCEPT !.made = @ \cup {v}] ELSE c
      half == Half(value)
  IN CASE value < 1 -> cache
       [] value >= 1 /\ value \in cache.made -> planned
       [] value >= 1 /\ value \notin cache.made /\ IsProduct(value) ->
            has(PlanNtimesCache(half, planned, 1), half)
       [] OTHER ->
            has(IF Part1(value) = Part2(value) THEN PlanNtimesCache(Part1(value), planned, 2)
                ELSE PlanNtimesCache(Abs(Part2(value)), PlanNtimesCache(Part1(value), planned, 1), 1),
                value)

\* A sequence q: the synthesis, the places of the factors, what is needed of each,
\* and the place of the last factor that was asked for.
Remember(q, value) ==
  [q EXCEPT !.at = IF Cacheable(value) THEN (value :> q.s.sp) @@ @ ELSE @, !.pos = q.s.sp]

Need(q, value) == IF Cacheable(value) THEN q.needed[value] ELSE 0
UseGetNeeded(q, value) == IF Cacheable(value) THEN [q EXCEPT !.needed[value] = @ - 1] ELSE q

\* Both operands, the one that is higher up first.
Both(a, b, top) == IF a < b THEN <<b, a>> ELSE <<a, IF a = b THEN top + 1 ELSE b>>

\* What is copied of the operands at a and b, when those that are needed again
\* stay, and whether the other operand is the one on top then.
Copies(a, b, a_needed, b_needed, top) ==
  LET both == [dup |-> Both(a, b, top), flipped |-> a < b]
      one(i, flipped) == [dup |-> <<i>>, flipped |-> flipped]
      none(flipped) == [dup |-> <<>>, flipped |-> flipped]
  IN CASE a_needed /\ b_needed -> both
       [] a_needed /\ ~b_needed -> IF b # top THEN both ELSE one(a, TRUE)
       [] ~a_needed /\ b_needed -> IF a # top THEN both ELSE one(b, FALSE)
       [] OTHER ->
            CASE a = b /\ a = top -> one(a, FALSE)
              [] a = top /\ b = top - 1 -> none(TRUE)
              [] a = top - 1 /\ b = top -> none(FALSE)
              [] a = top /\ b \notin {top, top - 1} -> one(b, FALSE)
              [] b = top /\ a \notin {top, top - 1} -> one(a, TRUE)
              [] OTHER -> both

\* The operation is the flipped one when the operands come in the other order.
CombineCopies(q, copies, normal, flip) ==
  [q EXCEPT !.s = AddOperation(FoldLeft(DoDup, @, copies.dup),
                               IF copies.flipped THEN flip ELSE normal, 2)]

\* Subdivide_Combine: what is still needed is copied.
Combine(q0, a, aval, b, bval, normal, flip) ==
  LET q1 == UseGetNeeded(q0, aval)
      q == UseGetNeeded(q1, bval)
  IN CombineCopies(q, Copies(a, b, Need(q1, aval) > 0, Need(q, bval) > 0, q.s.sp), normal, flip)

RECURSIVE Subdivide(_, _, _), AssembleSequence(_, _, _)

\* The first factor of a product is kept when it is needed again.
KeepFactor(q, half) ==
  IF Need(q, half) > 0 \/ q.pos # q.s.sp
    THEN Remember([q EXCEPT !.s = DoDup(@, q.pos)], half) ELSE q

Product(q, value, sequencing) ==
  LET half == Half(value)
      kept == KeepFactor(UseGetNeeded(Subdivide(q, half, sequencing), half), half)
  IN Remember([kept EXCEPT !.s = AssembleSequence(@, value \div half, sequencing)], value)

\* q1 has the first part on the stack, and q2 the other one as well.
CombineParts(q1, q2, value, sequencing) ==
  LET added == Part2(value) > 0
  IN Combine(q2, q1.pos, Part1(value), q2.pos, Abs(Part2(value)),
             IF added THEN sequencing.normal ELSE sequencing.inverse,
             IF added THEN sequencing.normal_flip ELSE sequencing.inverse_flip)

AddPart(q, value, sequencing) ==
  CombineParts(q, IF Part2(value) = Part1(value) THEN q ELSE Subdivide(q, Abs(Part2(value)), sequencing),
               value, sequencing)

Sum(q, value, sequencing) ==
  Remember(AddPart(Subdivide(q, Part1(value), sequencing), value, sequencing), value)

\* AssembleSequence_Subdivide.
Subdivide(q, value, sequencing) ==
  CASE value \in DOMAIN q.at -> [q EXCEPT !.pos = q.at[value]]
    [] value \notin DOMAIN q.at /\ IsProduct(value) -> Product(q, value, sequencing)
    [] OTHER -> Sum(q, value, sequencing)

\* What is left of the factors above the operand is removed.
OnlyResult(q, top) ==
  IF q.s.sp > top \/ q.pos # top THEN DoPopNMov(q.s, top, q.pos) ELSE q.s

\* The operand `count` times.
Multiplied(s, count, sequencing) ==
  LET plan == PlanNtimesCache(count, [needed |-> [v \in 1..255 |-> 0], made |-> {1}], 1)
  IN OnlyResult(Subdivide([s |-> s, at |-> (1 :> s.sp), needed |-> plan.needed, pos |-> s.sp],
                          count, sequencing), s.sp)

AssembleSequence(s, count, sequencing) ==
  CASE count = 0 -> SynthImmed(s, sequencing.basevalue)
    [] count = 1 -> s
    [] count > 1 -> Multiplied(s, count, sequencing)
    [] count < 0 -> AddOperation(AssembleSequence(s, -count, sequencing), sequencing.flip, 1)

-----------------------------------------------------------------------------
(***************************************************************************)
(* Common subexpressions (cse.cc).  A count has a tree and how often it    *)
(* occurs below the root.                                                  *)
(***************************************************************************)

RECURSIVE Descendants(_)
Descendants(t) ==
  FlattenSeq([i \in DOMAIN t.par |-> <<t.par[i]>> \o Descendants(t.par[i])])

IsDescendantOf(t, expr) == Contains(Descendants(t), expr)

FindTreeCounts(t) ==
  LET all == Descendants(t)
      count(d) == [tree |-> d, n |-> Cardinality({i \in DOMAIN all : all[i] = d})]
      first(d, i) == \A j \in 1 .. i - 1 : all[j] # d
      each == FlattenSeq([i \in DOMAIN all |-> IF first(all[i], i) THEN <<count(all[i])>> ELSE <<>>])
  IN SortSeq(each, LAMBDA a, b : HashLess(a.tree, b.tree))

\* Whether a tree occurs evenly in the branches of each if(), or in a condition.
RECURSIVE IfBalanceGood(_, _)
IfBalanceGood(root, child) ==
  LET r == [i \in DOMAIN root.par |-> IfBalanceGood(root.par[i], child)]
      found == \E i \in DOMAIN r : r[i].found
      condition == r[1].found /\ r[1].good
      even == /\ r[2].found = r[3].found \/ condition
              /\ r[1].good \/ (r[2].found /\ r[3].found)
              /\ r[2].good \/ condition
              /\ r[3].good \/ condition
  IN CASE root = child -> [good |-> TRUE, found |-> TRUE]
       [] root # child /\ root.op \in Ifs -> [good |-> even, found |-> found]
       [] OTHER -> [good |-> (\A i \in DOMAIN r : r[i].good) \/ (\E i \in DOMAIN r : r[i].good /\ r[i].found),
                    found |-> found]

\* It is not there yet, is no constant or variable, and occurs often and evenly.
IsCandidate(root, s, c) ==
  ~Found(s, c.tree) /\ Depth(c.tree) >= 2 /\ c.n >= 2 /\ IfBalanceGood(root, c.tree).good

ContainsOtherCandidates(root, tree, s, counts) ==
  \E c \in ToSet(counts) : IsDescendantOf(tree, c.tree) /\ IsCandidate(root, s, c)

GoodMomentForCSE(parent, expr) ==
  \/ parent.op = "cIf"
  \/ Contains(parent.par, expr)
  \/ Cardinality({i \in DOMAIN parent.par : IsDescendantOf(parent.par[i], expr)}) # 1

\* One look at the counts: those that are left, and the best one.
BestCandidate(root, s, counts) ==
  LET erase(f, c) == [f EXCEPT !.counts = SelectSeq(@, LAMBDA d : d # c)]
      score(c) == c.n * Depth(c.tree)
      look(f, c) ==
        CASE ~IsCandidate(root, s, c) -> erase(f, c)
          [] IsCandidate(root, s, c) /\ ContainsOtherCandidates(root, c.tree, s, f.counts) -> f
          [] OTHER -> IF ~GoodMomentForCSE(root, c.tree) THEN erase(f, c)
                      ELSE IF \A b \in f.best : score(c) > score(b) THEN [f EXCEPT !.best = {c}]
                      ELSE f
  IN FoldLeft(look, [counts |-> counts, best |-> {}], counts)

-----------------------------------------------------------------------------
(***************************************************************************)
(* The byte code of a tree.                                                *)
(***************************************************************************)
MAX_POWI_BYTECODE_LENGTH == 20
MAX_MULI_BYTECODE_LENGTH == 3

RECURSIVE SynthesizeTree(_, _, _), SynthesizeCommon(_, _, _), StackTopFirst(_, _)

SynthesizeBest(s, t, f) ==
  IF f.best = {} THEN s
  ELSE LET c == The(f.best)
       IN SynthesizeCommon(SynthesizeTree(s, c.tree, FALSE), t, SelectSeq(f.counts, LAMBDA d : d # c))

SynthesizeCommon(s, t, counts) == SynthesizeBest(s, t, BestCandidate(t, s, counts))

SynthCommonSubExpressions(s, t) == SynthesizeCommon(s, t, FindTreeCounts(t))

\* What was added is short enough; the unsigned difference of the lengths is
\* large, too, when the byte code became shorter.
Short(before, after, limit) ==
  IF Len(after.code) - Len(before.code) \in 0..limit THEN {after} ELSE {}

\* The sequence for an operand, unless it is too long; none is needed for 0.
Sequence(s, operand, count, sequencing, limit) ==
  LET before == IF count = 0 THEN s ELSE operand
  IN Short(before, AssembleSequence(before, count, sequencing), limit)

FirstOf(made) ==
  LET short == {a \in DOMAIN made : made[a] # {}} IN IF short = {} THEN {} ELSE made[First(short)]

\* A product with a constant that is a short sum.
MultipleOf(s, t) ==
  FirstOf([a \in DOMAIN t.par |->
    IF ~IsImmed(t.par[a]) THEN {}
    ELSE Sequence(s, SynthesizeTree(s, Rehash("cMul", RemoveAt(t.par, a)), TRUE),
                  t.par[a].val, AddSequence, MAX_MULI_BYTECODE_LENGTH)])

\* What sums or products can stand for, if they can.
SynthesizeSequence(s, t) ==
  CASE t.op = "cMul" -> MultipleOf(s, t)
    [] t.op = "cPow" /\ IsImmed(t.par[2]) ->
         Sequence(s, SynthesizeTree(s, t.par[1], TRUE), t.par[2].val, MulSequence, MAX_POWI_BYTECODE_LENGTH)
    [] OTHER -> {}

(***************************************************************************)
(* A group g: the synthesis and the parameters that are in it.  They are   *)
(* combined as soon as there are two.                                      *)
(***************************************************************************)
Cumulated(s, t, done) ==
  [done |-> done,
   s |-> IF Len(done) = 1 THEN s
         ELSE StackTopIs(AddOperation(s, t.op, 2),
                         Sort(Node(t.op, [k \in DOMAIN done |-> t.par[done[k]]])))]

Cumulate(g, t, i) == Cumulated(SynthesizeTree(g.s, t.par[i], TRUE), t, Append(g.done, i))

\* Parameters that are what is on top of the stack come first.
CumulateAgain(before, after, t) ==
  IF after.done = before.done THEN before ELSE StackTopFirst(after, t)

StackTopFirst(g, t) ==
  LET take(h, i) == IF ~Contains(h.done, i) /\ IsStackTop(h.s, t.par[i]) THEN Cumulate(h, t, i) ELSE h
  IN CumulateAgain(g, FoldLeft(take, g, Indices(t.par)), t)

SynthesizeGroup(s, t) ==
  LET stacked == StackTopFirst([s |-> s, done |-> <<>>], t)
      rest(h, i) == IF Contains(h.done, i) THEN h ELSE Cumulate(h, t, i)
  IN IF t.par = <<>>
       THEN SynthImmed(s, IF t.op \in {"cMul", "cAnd", "cAbsAnd"} THEN 1 ELSE 0)
       ELSE FoldLeft(rest, stacked, Indices(t.par)).s

SynthesizeParams(s, t) == FoldLeft(LAMBDA r, p : SynthesizeTree(r, p, TRUE), s, t.par)

AddSecondBranch(first, i, t) ==
  SynthIfStep3(SynthesizeTree(SynthIfStep2(first, i), t.par[3], TRUE), Len(first.code) + 1)

AddFirstBranch(condition, t) ==
  AddSecondBranch(SynthesizeTree(JumpHere(condition, t.op), t.par[2], TRUE), Len(condition.code) + 1, t)

SynthesizeIf(s, t) == AddFirstBranch(SynthesizeTree(s, t.par[1], TRUE), t)

SynthesizeOperation(s, t, sequence) ==
  CASE t.op = "VarBegin" -> PushVar(s, VarBegin + t.val - 1)
    [] IsImmed(t) -> SynthImmed(s, t.val)
    [] sequence # {} -> The(sequence)
    [] t.op \in Groups \cup {"cAbsAnd", "cAbsOr"} /\ sequence = {} -> SynthesizeGroup(s, t)
    [] t.op \in Ifs -> SynthesizeIf(s, t)
    [] OTHER -> AddOperation(SynthesizeParams(s, t), t.op, Len(t.par))

Popped(s, n) == IF n > 0 THEN DoPopNMov(s, s.sp - n, s.sp) ELSE s

\* The common subexpressions are removed afterwards.
SynthesizeAfter(common, s, t, MustPopTemps) ==
  Popped(StackTopIs(SynthesizeOperation(common, t, SynthesizeSequence(common, t)), t),
         IF MustPopTemps THEN common.sp - s.sp ELSE 0)

\* A tree that is on the stack is copied.
SynthesizeTree(s, t, MustPopTemps) ==
  IF t.op # "VarBegin" /\ Found(s, t) THEN DoDup(s, FindPos(s, t))
  ELSE SynthesizeAfter(SynthCommonSubExpressions(s, t), s, t, MustPopTemps)

\* Pull: the bits that guard the parameters are removed.
Pull(s) == [s EXCEPT !.code = [i \in DOMAIN @ |-> @[i] % FP_ParamGuardMask]]
=============================================================================
