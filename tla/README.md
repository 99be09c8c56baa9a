# A verification project for fparser

fparser is a C++ library: a `FunctionParser` object parses a function given as a
string (`Parse`), keeps it as byte code, may simplify it (`Optimize`), and
evaluates it (`Eval`). These modules model the state that objects share, reuse or
leave behind when calls fail, where the order of calls decides whether the library
is right; the way of a text through compiler, optimizer and synthesizer, where what
it computes must not change; and the storage that trees and numbers share.
References are to the files under `src/`.

## Inventory

| Component | State | Operations | What makes it correct |
|---|---|---|---|
| Objects and shared `Data` (`fparser.cc` 633–853, `extrasrc/fptypes.hh` 185–252) | `mData`, `mReferenceCounter`, `mDelimiterChar`, `mStack` | constructors, `operator=`, destructor, `CopyOnWrite`, `ForceDeepCopy`, `setDelimiterChar` | counts are exact; copies behave as values; `mStack` is as large as `mStackSize` |
| `FunctionWrapper`s (`fparser.hh` 236–258, `fparser.cc` 697–783) | `mReferenceCount` | `AddFunctionWrapper`, copy and destruction of `mFuncPtrs` entries | alive while some `Data` holds it, deleted with the last |
| Identifier table (`fparser.cc` 590–629, 860–1008, 1236–1291) | `mNamePtrs`, `mFuncPtrs`, `mFuncParsers`, `mVariablesString` | `AddConstant`, `AddUnit`, `AddFunction` (three), `RemoveIdentifier`, `ParseVariables` | byte code compiled earlier keeps its meaning; variable keys point into the stored string |
| Compiler (`fparser.cc` 1296–2607, `extrasrc/fp_opcode_add.inc`) | `mByteCode`, `mImmed`, `mStackPtr`, `mStackSize`, `mInlineVarNames`, `mParseErrorType` | `ParseFunction`, `Compile*`, `AddFunctionOpcode` | the byte code computes what the text says, in the stack that was counted |
| Variable deduction (`fparser.cc` 3020–3111) | the names found so far | `ParseAndDeduceVariables` | ends, and finds the fewest variables that make the text valid |
| Nested parsers (`fparser.cc` 951–984, 2894–2912) | `mFuncParsers` pointers | `AddFunction`, `Eval`'s `cPCall`, inlining by `Optimize` | no loops; the callee's errors are the caller's |
| Evaluator (`fparser.cc` 2612–3018) | operand stack, `mEvalErrorType` | `Eval`, `EvalError` | the value depends on the arguments only, other threads included |
| Tree reader (`fpoptimizer/readbytecode.cc`) | stack of trees, open if()s, runs of squares and sums | `GenerateFrom` | the tree has the value of the byte code |
| Folding, ranges (`constantfolding.cc`, `logic_*.hh`, `rangeestimation.cc`) | – | `ConstantFolding`, `CalculateResultBoundaries` | no rule changes a value; a range holds every value |
| Grammars (`grammar_data.cc`, `optimize*.cc`, `treerules.dat`) | what holders have matched | `ApplyGrammars`, `TestParams`, `SynthesizeRule` | no rule changes a value; they come to an end |
| Synthesizer (`makebytecode.cc`, `cse.cc`, `bytecodesynth.*`) | `StackState`, `StackTop`, `StackMax` | `SynthesizeByteCode`, common subexpressions, power sequences | the byte code has the value of the tree, in the stack it reports |
| Tree nodes (`codetree.*`, `lib/autoptr.hh`) | `RefCount`, `Params` | `AddParam`…, `Become`, `CopyOnWrite`, `GetUniqueRef` | counts are exact; who edits in place is alone |
| `GmpInt`, `MpfrFloat` (`mpfr/`) | shared items, released ones, cached constants, the default precision | operators, functions, `setDefaultPrecision` | sharing never shows; an item to be reused is nobody's |
| Numerics (`extrasrc/fpaux.hh`), lexer, debug output, generators in `util/`, testbed | – | – | not modelled; see below |

**Interaction.** Objects share a `Data` until one of them changes it. A `Data`
points to `FunctionWrapper`s, which it counts, and to other *objects*, which it
does not: the user keeps those alive. `Optimize` reads the `Data` of every
parser that this one calls; `Eval` calls their `Eval`. Inside `Optimize` the parts
work one after the other: byte code becomes a tree, folded while it is read; the
grammars rewrite it, with folding after each change; the synthesizer emits byte
code through the same peephole rules as the compiler. All of them work on trees
whose nodes are shared. Nothing is a callback into the object that called it,
nothing is persisted, nothing blocks. Threads are the user's: the library has two
promises for them (`docs/fparser.html`, "About thread safety").

**Hard behaviours.** Long sequences of legal calls (copies, failed parses,
redefinitions, assignments after links); texts whose byte code is rewritten
while it is emitted; rewriting rules that meet in combinations nobody wrote down,
and conclusions from estimated ranges; stack places that are remembered across
branches; nodes and numbers that are shared and edited in place; calls that fail
half way and leave state; state kept twice (`mStack` and `mStackSize`, names and
indices, strings and pointers into them); threads inside `Eval`. `PROJECT.json`
lists each hazard at its line.

## Modules

```
ParserValue      what one Data means, and what each call computes on it (pure)
  └ FunctionParser      objects, shared blocks, wrapper counts: one action per call
      ├ MCFunctionParser       instances for TLC
      ├ ValueSemantics         (INSTANCE) the abstract specification it implements
      └ FunctionParserProofs   theorems: counts, value semantics, contents of blocks; of parsers
                               that call each other: types, loops, meanings
RecursionProofs  lemmas about sequences and functions defined by recursion
EvalThreads      threads inside Eval(): one action per turn of its loop
  ├ MCEvalThreads
  └ EvalThreadsProofs      theorems: threads evaluate as if alone
ByteCode         opcodes, their classes, and how Eval() runs them (pure)
  ├ Meaning             what a text means (pure)
  ├ Peephole            AddFunctionOpcode(): the rules and how they are applied (pure)
  │   └ Compiler            ParseFunction(), Compile*(): texts typed token by token
  │       ├ MCCompiler          instances for TLC
  │       └ Meaning             (INSTANCE) the reference
  └ Trees               the optimizer's trees as values, their order, what they mean (pure)
      └ ValueRange          CalculateResultBoundaries() (pure)
          └ Folding             ConstantFolding() (pure)
              ├ ReadByteCode        GenerateFrom() (pure)
              ├ TreeGrammar         ApplyGrammar() with the rules of TreeRules (pure)
              ├ Inversions          RecreateInversionsAndNegations() (pure)
              └ Synthesis           SynthesizeByteCode(), on Peephole (pure)
Optimizer        all of these composed: Parse(), Optimize(), Optimize() again
  ├ MCOptimizer
  └ Compiler            (INSTANCE) types the texts
CodeTree         tree nodes in memory, and each operation of CodeTree on them (pure)
  └ CodeTreeCallers     sequences of operations as the optimizer's functions use them
      ├ MCCodeTreeCallers      ├ CodeTreeCallersProofs   theorem: counts of nodes
      │                            └ CodeTreeValuesProofs    theorem: trees are values
      └ TreeValues          (INSTANCE) the abstract specification: trees are values
NumberStorage    items that objects share, with reuse (pure)
  ├ NumberStorageProofs    lemmas
  ├ GmpInt                 ├ MCGmpInt      ├ GmpIntProofs      theorems
  └ MpfrFloat              ├ MCMpfrFloat   ├ MpfrFloatProofs   theorems
                           └ IndependentNumbers  (INSTANCE) what both implement
```

**ParserValue** holds no variables. A value of `Data` is a record: the error of
the last parse, the `Vars` string as its comma-separated tokens, the identifier
table, the two tables of functions and parsers, the byte code and `mStackSize`.
`WithConstant`, `WithFunction`, `Without`, `Parsed`, `Deduced` and `Optimized`
give the value after a call. A function string is abstracted to the identifiers
it uses in order, each *plain*, as a *call* or as a *unit*, the character at
which compilation stops, and the stack it needs; byte code to the operations
that refer to something outside it. That is what the properties tell apart:
which names, functions, parsers and variables a compiled function refers to.
Errors keep their exact effects: which part of the byte code and of the stack
size a parse that fails leaves, and that a `Vars` string is stored before it is
validated and accepted unseen when it is equal to the stored one.
`Meanings` resolves byte code the way `Eval` does (cFCall through `mFuncPtrs`,
cPCall through the callee's own byte code); it and `Inlined`, which is what
`Optimize` reads, unfold calls of parsers by the same `Unfolded`, to the depth that
any chain of calls which returns can have.

**FunctionParser** keeps those values in blocks. `data[p]` is `mData`,
`refs[d]` the reference count, `delim`, `stackLen` and `wrapperRefs` are
`mDelimiterChar`, `mStack.size()` and the wrappers' counts. Every mutating call
is `CopyOnWrite` followed by the change, in one action; `setDelimiterChar`
writes to the block as it is. The library is called from one thread here, and no
call is interrupted. The guard of `AddParser` asks for a callee that has been
parsed, that of `Destroy` for an object nobody links to and that of `Optimize`
for byte code that `GenerateFrom` can read: what the interface asks of its
user, or beyond which the behaviour of C++ is undefined.

**ValueSemantics** is what a user expects: an object has a value; copying
copies it; a call changes the value of its object only. `FunctionParser`
implements it under `objects <- Live, val <- Val`, where `Val` looks through
`mData`.

**ByteCode**, **Peephole** and **Compiler** are the compiler of
`FunctionParser_li`, the build for `long`, in which values are exact and there
is no tolerance to compare with. A byte is a number, as in the code: opcodes,
variables and parameters are told apart by their range only, which is what
`FP_ParamGuardMask` is about. `Peephole` has every rule that this build
compiles in, with its line of `util/bytecoderules.dat` and in the order in which
the generated code tries them, as patterns of the last bytes and immediates;
`AddFunctionOpcode` uses the first that matches and adds what it puts through itself
where the generated code does. `Compiler` has one operator for each `Compile*`
function, from a compilation to a compilation: byte code, `mImmed`, `mStackPtr`,
`mStackSize`, inline variables, and the error with its location. A call that
returns 0 ends the caller by `Then`. In the loops of `CompileMult` and
`CompileAddition` a constant operand is taken back out of the byte code and waits in
`pending_immed`. The state machine types texts: each step appends a token and
compiles the text from the start, as long as a legal text may still come of it.

**Meaning** says what such a text means without a parser: it splits at the
outermost operator of the lowest precedence, evaluates both parts and never sees
byte code. It is the reference that acceptance, values and divisions by zero
are compared with.

**ReadByteCode** to **Optimizer** are `Optimize()` in the same build. A tree is a
value, so that "identical" is `=`; which nodes are shared is the business of
`CodeTree`. `ReadByteCode` runs the byte code on a stack of trees and recognizes the
runs of squares, copies and products that stand for powers and multiples; each tree
is folded when it is made. `Folding` has one operator for each of the groups of
rules of `constantfolding.cc` and the `logic_*.hh` files, applied in their order and
again where the code says `goto redo`. `TreeRules` has the rules of
`grammar_data.cc` that a tree of this build can match, by their numbers there, and
the grammars they belong to; `TreeGrammar` finds all ways to match a rule in the
order in which the code backtracks through them and applies the first.
`Synthesis` emits byte code and keeps what it knows of each place of the stack, as
`StackState` does. `Optimizer` makes a state machine of them: a text is typed by the
`Compiler`, and once it is a function it is optimized, step by step (`Generate`,
`ApplyGrammars`, `Recreate`, `Synthesize`), and then again. The order of operands of
a sum or product depends on hashes; `Trees` uses the opcode, which is the highest
byte of the hash, and then any fixed order. `had` is a history variable: the trees
that the current grammar has already been applied to.

**CodeTree** has the nodes at addresses, with `RefCount` and `Params`, and every
operation as the calls of `FPOPT_autoptr` that the source makes, in their order.
A place is a handle outside the nodes or a parameter in one. A release goes through
the handles that are still to be released, one after the other, as the destructors
nest. `CodeTreeCallers` calls them as the optimizer does: after `CopyOnWrite` or
`GetUniqueRef`, or where it has looked at the counts. A step is a call, from the
objects' view: the temporaries of the functions (`tmp`, `holder`, `mul`, `func`,
`p2`) are handles of the heap, empty between calls. `CallNodes` addresses are free
when a call begins: memory does not run out within one. `TreeValues` says what they
rely on: an object's tree changes only by calls on that object.

**NumberStorage** has the items, who holds them, and those that wait to be reused;
`GmpInt` and `MpfrFloat` have one operator for each constructor, operator and
function of the classes, as a composition of the calls it makes. `shared_ptr`, GMP
and MPFR are external and are what their manuals say. `IndependentNumbers` says
what a user expects: a call changes the number of its own object.

**EvalThreads** runs byte code for real, over integers: activations of `Eval`
with IP, SP and the pointer to their variables; arrays of values owned by a
`Data` (the default build) or by the activation (`FP_USE_THREAD_SAFE_EVAL`); and
`mEvalErrorType` per `Data`. A step of a thread is one turn of the loop; the
rest of a cPCall, which stores the result and reads the callee's `EvalError()`,
is a step of its own, as is the user's `EvalError()`. Its parsers stand for
`Data` structs: objects that share one, by copying without `ForceDeepCopy`, are
one parser of the model. `CodeAssumption` has the byte codes those that the compiler
and `AddFunction` make: no operation finds fewer operands than it takes, the stack
suffices, one number is left, and chains of calls end. `Alone` is what a call gives
where no other runs: `Run` goes through the byte code on a stack of its own, and
`Level` has the callees' results ready, by the length of chains of calls. `Apart` is
the use for which the documentation promises anything, so far as the code keeps it: no
two threads evaluate one parser, directly or through others, or in the
thread-safe build one parser that is called. Data races are interleavings of these steps; C++
promises less, which matters only in the two configurations that show a violation
and for `mEvalErrorType` of the shared instance, on which no checked property relies.

The pure models were also run beside the real library: for some 6 000 random texts
the compiler's byte code, immediates, stack size and values are the same, and so are
7 644 optimized byte codes but for 108 that differ in the order of operands, which
depends on hashes. In the compiler a position counts tokens, and for a `!=`
where an operand is due the code reports the `=`, having taken the `!` for a negation.

## Runs

All bounds are constants of the configurations. State counts are distinct states.

| Run | Bounds | Shows |
|---|---|---|
| `Sharing.cfg` (31 076) | 3 objects, 3 blocks, 1 name, 1 wrapper, `MaxFuncs` 1 | `RefCountsExact`, `WrapperCountsExact`, `CopiesAreValues`, `WrapperDeletedWithLastHolder` |
| `Linking.cfg` (167 692) | 3 parsers, links up to 2 each | `AddFunctionClosesNoLoop` |
| `Optimizing.cfg` (34 158) | 2 parsers, 2 C++ functions, 2 table entries, 1 link | `TableCallsKeepMeaning`, `OptimizeKeepsPureMeaning` |
| `Naming.cfg` (87 023) | 1 parser, 2 names, 5 `Vars` strings, 3 texts, a delimiter | `TypeOK`, `VariablesPointIntoString`, `StackSized`, `DeducesVariables` |
| `Compiling.cfg` (67 670) | 29 groups of tokens, texts of up to 17 tokens, 3 points | `TypeOK`, `AcceptsGrammar`, `LocatesError`, `KeepsValues`, `KeepsDefined`, `StackSuffices`, `EndsEven`, `ReadsInside` |
| `Pipeline.cfg` (72 873) | 34 groups of tokens, texts of up to 19 tokens, 5 points, optimized twice | `TypeOK`, `NoScaledPower`, `RangesHold`, `TreeKeepsValues`, `GrammarsProgress`, `SynthesisKeepsValues`, `RecordsTrue`, `StackReported` |
| `Evaluating.cfg` (26 533) | 2 threads, 3 uses, arguments 0..2 | `EvaluatesAlone`, `ErrorsReported`, `EvalReturns` |
| `CodeTrees.cfg` (15 054) | 2 objects, up to 3 nodes between calls, 2 parameters | `NodesCounted`, `TreesIndependent` |
| `GmpInts.cfg` (2 420) | 3 objects, integers up to 2 before a call, items reused | `ItemsAccounted`, `ZeroStaysZero`, `DividesAsCxx`, `ObjectsAreIndependent` |
| `MpfrFloats.cfg` (18 656) | 2 objects, 4 constants, 2 precisions | `ConstantsIntact`, `ObjectsAreIndependent`, `PrecisionKeepsNumbers` |
| `SharedProduct.cfg` (violation) | as `CodeTrees` | `TreesIndependent` fails |

Why these are enough: a block is shared by two objects and left by one, or by three
when a copy of a copy changes: three objects give every case of the counts, and
three blocks one for each object. A loop of parsers needs two, and three to close
one through a parser in between. A redefinition needs a second entry in the function
table, and an index that is wrong in the caller needs a caller and a callee. The
`Vars` strings of `Naming` are the empty one, one and two names, a repeated name and
one that is no identifier; its texts succeed or fail at either use, as plain name,
unit or call. `Delimiters` is nonempty in `Naming`, but its texts run to the end:
one that ends at a delimiter breaks `StackSized` (see the findings). The states are
finite: `MaxFuncs` and `MaxLinks` bound the tables, which only grow; every other
variable is finite by its type. Symmetry permutes parsers and blocks, which no
definition tells apart.

`Compiling` types every viable text over small sets of tokens, and all their
extensions by one token that make them illegal. A group has the tokens that some
rules need to meet: sums and products with constants on either side, negations,
comparisons of results of comparisons, calls, if() in if(), inline variables,
products that are added, products with 0. The longest patterns of the rules have six
bytes; the prefixes of the groups bring the byte code to where they begin. At the
three points x is negative, zero and positive, y zero or positive, and each is the
larger one at some point. Values are integers without a width: an overflow of `long`
is undefined behaviour and no property is about one. `CHECK_DEADLOCK FALSE`: a text
ends where no token may follow, or at the group's length.

`Pipeline` does the same for the optimizer. Its groups lead to the rules of folding,
of the grammars and of the synthesizer: quotients and powers, sums of comparisons,
if() under if() with operands that branches share, inline variables that are used
several times. The five points have each sign of x and y with the other's, equal and
unequal. Optimizing twice shows that the byte code the synthesizer makes, with its
cFetch, cDup and cPopNMov, is read back to the same value.

The conclusions about values hold for the texts of the groups. Some texts *are*
optimized wrongly (findings below), and the groups keep away from those: no sums of
a number and a comparison that are compared, no divisor `5*(y<1)-5`, no products of
`!x` with itself, no `x*(1/x)`, no square to be completed, no conditions of if()
that are conjunctions of negated values. `Folding` and `TreeRules` still have these rules as
the code does.

`GrammarsProgress` is how termination of the grammars is checked: a grammar that
comes back to a tree it had goes on forever (`ApplyGrammars` is deterministic). The
states being finitely many, no other way is left for the texts of this run; that is
why no liveness property is needed, and none is stated with it.

In `CodeTrees` and the number runs a `VIEW` identifies states that differ in
addresses only. Two objects with three nodes suffice for a node to be shared between
objects, between an object and a part of the other's tree, and twice in one tree.
Three integers suffice for an item to be shared by two of them, by all, and with the
constant zero. `MpfrFloats` has real numbers as integers: 3 needs two bits and is
rounded to 4 in one, which is how a change of precision shows.

Fairness is stated in `EvalThreads` only, `WF_vars(Step(t))`: a thread inside
`Eval` waits for no lock, and the operating system runs it. Users are not assumed
to call anything.

Every property of a passing run has a mutant in the modules (marked "Mutant")
that breaks it: a plausible slip in the code that the run would catch.

## Findings

`PROJECT.json` quotes what each of these contradicts. `SharedProduct.cfg` shows the
first; the others were found with the modules, and where a configuration is named it
reproduces one (each has a single property, which TLC finds violated).

* Folding `f(c*u)` for a condition `c` edits the product in place although other
  trees share its node (`constantfolding.cc:677`), and so does a rule for logical
  contexts that replaces parameters (`optimize_synth.cc:108`).
* `OptimizeInlines.cfg` (of `MCFunctionParser`): `Optimize()` inlines a called parser
  and keeps the callee's function index, which means another function in the
  caller's table.
* `AssignLinks.cfg` (of `MCFunctionParser`): `b.AddFunction("f", a); a = b;` makes
  `a` call itself; `CheckRecursiveLinking` guards `AddFunction` only.
* `NegatedTerms.cfg` (of `MCCompiler`): the rule at `bytecoderules.dat:364` changes
  `- x + - y - 5`, for `double` as well.
* `ZeroProducts.cfg` (of `MCCompiler`): in `a := x ; 0 % ! a * 0` the rule at
  `bytecoderules.dat:94` drops the `!`, and with it the division is by zero.
* `DeepCopiesEvaluate.cfg`, `ThreadSafeEvaluate.cfg` (of `MCEvalThreads`): neither of
  the documented ways to evaluate in two threads covers parsers that call parsers:
  deep copies share the callee, and the thread-safe build still shares its
  `EvalError()`.
* A parse that ends at the delimiter succeeds without resizing `mStack`
  (`ParsedToEnd` of `ParserValue`), and a `Vars` string with a repeated name is
  refused once and accepted when given again (`VarsOK`). `setDelimiterChar` changes
  every copy, and a wrapper that cannot be added is never deleted.
* Values that folding changes: a range `[1, n]` taken for 1 in a comparison
  (`logic_comparisons.hh:92`); the range of `x % y` (`rangeestimation.cc:494`); an
  empty `min()` in a branch of if() (`logic_ifoperations.hh:244`); the opcode of an
  inner if() (`logic_ifoperations.hh:70`); `fp_pow` of two `long`s
  (`fpaux.hh:1262`); cInv as the exponent -1 in the builds for integers
  (`readbytecode.cc:44`, `logic_collections.hh:278`).
* Rule 121 completes squares with a half and a root, for integers too
  (`grammar_data.cc:1159`).
* In `MpfrFloat` the cached constants keep the precision they were made with, and
  epsilon changes in place under those who hold it.
* Three comments differ from the code: the grouping of exponents that is never built
  (`logic_collections.hh:399`), rest holders that may be used twice
  (`optimize_synth.cc:48`), and what `dim` and `fmms` compute (`MpfrFloat.hh:202`).

The checked properties hold around these: `AddFunctionClosesNoLoop` says
that `AddFunction` is not what closes the loop, `OptimizeKeepsPureMeaning` that
inlining is right for callees without C++ functions, `Evaluating` that without
shared callees threads do not disturb each other, and `Compiling` that texts which
do not use the rules in `WrongRules` keep their value and fit their stack, and those
which do not use the rules in `PeelingRules` divide by zero only where they say so.
`PeelingRules` are the rules that take an operand away from below an operator they
leave in place: the hazard is the same for all, whether or not a short text shows
it. `CodeTrees` has products that are not shared, and `PrecisionKeepsNumbers` excepts
epsilon.

## Proofs

TLC checks the instances above; the theorems hold for every value of the constants:
any number of objects, blocks, names, functions, texts and parsers, any integers and
precisions, any threads and byte codes. They rest on the assumptions named in the
modules: objects and the owners of numbers are finitely many, null pointers are no
blocks and no items, raw functions are no wrappers, byte codes are as the compiler
makes them, and the inputs are of the types that C++ gives them. A theorem that has
a hypothesis besides states it. Most modules `X` have their proofs in `XProofs`.

| Theorem | Says |
|---|---|
| `RefCountsCorrect` | the count of a `Data` is the number of objects that point to it: it is not deleted early and does not leak |
| `ValueSemanticsImplemented` | objects that share `Data` implement `ValueSemantics` |
| `WrapperCountsCorrect`, `WrapperFreed` | a wrapper in use is counted once for each `Data` that holds it, and is deleted in the step that takes it from the last |
| `VariablesCorrect` | the variables in the table of identifiers are the leading tokens of the stored `Vars` string |
| `StacksSuffice` | where no text ends at a delimiter, `mStack` is as large as the byte code needs |
| `DeductionCorrect` | `ParseAndDeduceVariables` ends, and makes a function of each text that some variables make one, with the fewest |
| `TypesCorrect` | `TypeOK` |
| `NoLoopClosed` | `AddFunction` does not close a loop of parsers |
| `TableCallsKeepMeanings` | adding and removing identifiers does not change what a parsed function computes |
| `OptimizeKeepsMeanings` | nor does `Optimize()`, if no callee, at any depth, calls a C++ function |
| `ThreadsEvaluateAlone`, `ThreadsReportErrors` | threads that keep apart get the values and the errors that each call gives alone |
| `GmpIntsIndependent`, `ItemsStayAccounted`, `ZeroIsConstant`, `DivisionIsCxx` | `GmpInt` implements `IndependentNumbers`; released items are nobody's; the shared zero is 0; division is that of C++ |
| `NodesCountedHolds` | every tree node counts the handles that refer to it, inside nodes and outside, and is deleted exactly when there is none |
| `TreesIndependentHolds` | if `DistributeFunction` is given no shared product, tree objects that share nodes implement `TreeValues`: each call changes the trees of the objects it is given, as their callers expect, and no other |
| `MpfrFloatsIndependent`, `ConstantsStayIntact`, `PrecisionLeavesNumbers` | `MpfrFloat` implements `IndependentNumbers` while the precision stands; the cached constants are what they should be; a change of the precision changes no number but epsilon |

**Counts of blocks** (`FunctionParserProofs`). `RefCountsExact` with the types of
`data`, `refs` and `delim` is almost inductive: `IInv` adds that `body` is a function
on the blocks, without which `[body EXCEPT ![d] = v]` says nothing of block `d`. The
counting lemmas (`UsersFinite`, `UsersMove`, `CountsTell`) say how the users of two
blocks change when one object moves from one to the other, and that a count of 1 means
a single user; `CopyOnWriteIsolates` concludes that the block a call goes on with is
used by no other object. From there `WritesValue` gives the refinement step for
every mutating call at once, and each action has a lemma that shows both that the
invariant is kept and that the step is one of `ValueSemantics`. A block
counted too low would be written in place while another object uses it: the
refinement needs the counts to be exact.

**Wrappers, variables, stacks** (`FunctionParserProofs`). The invariant is `SInv`:
`IInv`; blocks in no use hold a new value (`FreeIsNew`), so that those who hold a
wrapper are allocated; every block's value is `Sound`, for which each call's
value has a lemma; the count of a wrapper is the number of
blocks that hold it; `mStack` has the size that was computed. `Follows` describes what
one step does to the holders of one wrapper: it enters or leaves one block, or the
step copies one. `StacksSuffice` assumes `Undelimited`, that no text ends at a
delimiter character. Without it the theorem is false, and the code too: such a parse
succeeds without resizing `mStack` (Findings).

**Deduction.** The compiler sees of a variable only that it is one, so that a round
depends on the set of names found so far (`Table`, `SeesSame`) and not on the list that
`Parse()` is given; only a list that equals the stored string is accepted unseen, which
the lemmas exclude (`Ready`). While it is `Going`, the loop has compiled every
use before the last name it found, and each set that works needs all it has
found: so each round stops at a later use. A round that stops at an error no variable
mends is followed by one that stops at the same place, or is refused for its
variables (`Hopeless`), and with that the loop ends. `DeductionRounds`, the bound
of the definition, is thereby no restriction.

**Types** (`FunctionParserProofs`, its second part). The values get their types where they are easy to
state, on `ValueSemantics`: `ValTyped` is kept by each of its actions, and the
refinement carries that over to `FunctionParser`, where `Stores` has only the
blocks' types left to add. A value is `Typed` when its indices of parsers, in byte
code and in the table of identifiers, are those of entries (`Callable`): this is what makes
the following theorems' unfolding of calls meaningful.

**Loops.** `CheckRecursiveLinking(q)` finds out whether `q` leads back to the
parser that `q` is added to. `NoReturnNoLoop`: an edge whose target does not lead back
to its source is on no cycle. `Reaches` is defined by the closed sets
of parsers, so that the proof needs no induction over paths.

**Meanings.** What a parser computes, and what `Optimize` inlines, are recursive
functions over the depth of calls and over sequences (`Levels`, `FlattenSeq`).
tlapm cannot use the library's induction theorems, which take an operator as a
parameter. `RecursionProofs` goes around that: `LeastNatural` gets a least element from
the library's fact that strict inclusion of finite sets is well-founded, `Induction`
and `Iteration` follow for sets of naturals and for functions over `0..n`, and with
those `FlattenSeq` and the largest and least elements of finite sets can be
reasoned about.

For `TableCallsKeepMeanings` a call of the table only `Extends` a value: byte code
stays, the tables of functions and parsers keep their entries and may get one more.
`OwnMeaningKept` concludes that the instructions mean what they meant, if they meant
anything, and `UnfoldKept` takes that to any depth. What one parser gains can show in
those that call it, so the induction is over all parsers at once, and is restricted to
those that evaluate without an index "nowhere". For `OptimizeKeepsMeanings`,
`CalleesLeadOn` says that where the calls of `p` return, nothing it reaches leads back
to `p`, whose byte code is all that changes; `LevelsAgree` that an unfolding depends
only on the byte codes that can be reached; and `FlattenMapped` that inlining first and
resolving functions then is the same as the other way around.

**Threads** (`EvalThreadsProofs`). Both theorems assume `Apart` of every setting; the
assumption of `MCEvalThreads` has TLC check that the instance of `Evaluating` is
one where it holds, and those of the two configurations that find a violation are not.
`ThreadsRunAsAlone` is the invariant: each activation of each thread stands where
`Run`, on the argument it was called with, stands after as many operations
(`FrameOK`), with the same numbers on its part of the stack; the activations of a
thread are a chain, of decreasing `Rank`, each of which has its argument in the stack
of the one below (`ChainOK`); and a callee's result and error, until they are
read, are what it gives alone (`ReturnedOK`). That an activation gives what `Level` says
needs that the levels exist and no longer change above a parser's rank
(`LevelDefined`, `LevelEnough`: `Iteration` and `Induction` of `RecursionProofs`). A
step writes one array and one error (`Touches`). Of the own thread, `OwnersApart` has the
stacks of different activations different, also in the default build, where two
activations of one parser would have one `mStack`: ranks exclude that a parser is
entered again. Of another thread, `ThreadsApart` has no array in
common, and `OthersKept` no error that a thread still reads, for which the
thread-safe build needs the condition on parsers that are called. Each action then has
a lemma of one shape, `StepOK`: `Begin` and `Call` enter a parser at its first
operation, five actions move on by one place in `Run`, and the three that return give
what `Gives` says.

**Numbers** (`NumberStorageProofs`, `GmpIntProofs`, `MpfrFloatProofs`). The storage
operations are proved once: each keeps the items in the pool unused (`PoolUnused`),
gives its owner an item that is his `Alone`, and leaves every other owner the `Same`.
An operator of the classes is a composition of these: `Acts(s, t, W)` says that it
leads from a sound store to a sound store and works on the owners `W` only, and
`ActsAgain` composes. For `GmpInt` a store is `Sound` when its items are accounted for
and the shared zero is 0; division is reduced to the `\div` and `%` of the
naturals by the signs. For `MpfrFloat` it adds `ConstantsOK`: constants have items
of their own, 1/log(2) exists only with log(2), and each has the rounded value of its
item's size. That a constant is exact for the precision it was made with, and stays so
when `recalculate` writes it anew, needs the sizes in the invariant.
`Round` uses powers of 2; the lemma that these are positive numbers greater than
their exponents comes from the number of subsets of a set.

**Tree nodes** (`CodeTreeCallersProofs`). `NodesCounted` is inductive between calls but
not within one: `ChangeTo` counts a handle before it is in its place, `Release` takes
back a count whose handle is still there, and the death of a node leaves a list of
handles to release. `Balanced(h, X, l, e)` holds at each of these moments: the
count of a node is the number of handles that refer to it, those in `X` left out, plus
the releases pending in `l`, plus the claims in `e` that have no place yet. One turn of
`ReleaseNext` keeps it; `ReleaseAll` ends, because each turn uses up a pending release
or brings those of a node that dies, of which there are no more than there are
parameters (`Induction` over the turns). A place inside a node must not disappear while
it is written: it is `Rooted`, held from outside, and `Guarded` nodes outlive
the releases. `Excess` says by how much a node is counted too high; `Alters` says so
of a function that has released nothing yet, and `Settled`, `SettledReleased` and
`SettledReplaced` close the account for the three ways in which functions end.
Each function of `CodeTree` then `Does` what it does between exact heaps: which handles
and whose parameters may have changed and how many addresses were taken. `Done` says the same as
a handle sees it, so that calls compose (`DoneNext`) and the parameters of an
object stay known through calls that may delete nodes. Where a node's parameters are
moved to another, the two must be different nodes: `Unshared`, which `CopyOnWrite` and
`GetUniqueRef` leave. `DistributeFunction`, which does not copy, is no exception: sharing a
product is wrong for the trees' values (Findings), but its counts stay exact.
The theorem needs no bound but that memory does not run out within a call.

**Trees** (`CodeTreeValuesProofs`). `TreesIndependentHolds` rests on the exact counts: a
node whose only handle is the caller's is in no other object's tree. The invariant is
`Orderly`: the heap is `Exact`, every object has a node, and the nodes are `Acyclic`, so
that a tree has an end. Acyclic must be kept by calls that hang one node below another:
the node that gets a parameter is the caller's own, which no node refers to,
or is written together with the only node that does (`Layered`). `Below` is
defined by closed sets of nodes, as `Reaches` is; `DepthEnough` shows by the number
of nodes below that the levels `Tree` goes down are all there are, and `TreeIs` that the
tree of a node is then made of the trees of its parameters. `Written` and `CallLeaves` say
what a call keeps: as only written nodes refer to written nodes (`Enclosed`), every other
node keeps its tree. `Wrote`, for calls that write one object's node, and `Passed`, for those
that empty another's too, say with which tree each leaves its object; every function of
`CodeTree` that changes nodes has a lemma of this form. `AddParamsMove` is the awkward one: it moves
the parameters out of a node that other objects may share, so that its callers must copy
that node as well (`Sharers`, `Lends`). The functions that are compositions follow:
`GetUniqueRefTree` and `CopyBelowTree` make a parameter the caller's own, and
`DistributeFunction`, which writes the product without copying it, is taken apart
into the steps `ProductTree`, `FactorTree` and `RebuiltTree`; here the theorem needs that
the product is not shared (`Grips`), and `SharedProduct` shows that without it the
trees of other objects change. `Yields` compares what the objects show with
what `TreeValues` allows, action by action.

**Only model-checked**, and why:

* `EvalReturns` is liveness under fairness, which tlapm does not do.
* `Compiler`, `Optimizer` and the pure modules under them are built from RECURSIVE
  operators over texts and trees: no theorem can be stated in such a module.

## Not modelled, and why

The peephole rules, folding rules and grammar rules of the floating-point and
complex builds, and with them the power operator, exponents that are not constant and
the retraction of inverses in `CompileMult`, rewrite real numbers, one algebraic
identity at a time; so do the numeric functions: TLC has nothing to say about them.
Hashes, and `MarkIncompletes`/`FixIncompletes`, which put off computing them, are
replaced by equality of trees; the marks that a subtree is done with a grammar
(`OptimizedUsing`) and the recreation grammar with optional rules are left out. The
synthesizer has no sine-cosine pairs and no calls of functions. The characters of
identifiers and literals are below the models' level of abstraction: spaces separate
all tokens, and the keys of identifier tables are names, so that the offsets by which
`Data`'s copy constructor moves them are not modelled. Debug output and `InjectRawByteCode` have no state of their own.
Generators in `util/` run at build time; the testbed and the documentation were read
as statements of what the library promises. Details of C++ (moves of
`FuncWrapperPtrData` while a vector grows) keep the counts as they are. A
callee whose number of variables changes after it was linked is excluded by the
documentation and by the instances.

## Plan

What could be added is modelled nowhere yet: hashes that are put off and refreshed
(`MarkIncompletes`, `FixIncompletes`), whose marks stop at a node already marked; the
marks that a subtree is done with a grammar; and the rules of the builds for real numbers.
To prove anything about `Compiler` and `Optimizer`, their operators over texts and trees
would have to be written without RECURSIVE, as those of `ParserValue` and `CodeTree` are.
