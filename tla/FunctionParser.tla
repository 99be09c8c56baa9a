---------------------------- MODULE FunctionParser ----------------------------
(***************************************************************************)
(* FunctionParser objects that share their Data by copy-on-write.          *)
(*                                                                         *)
(* An object holds a pointer mData to a block; the block counts the        *)
(* objects that point to it (mReferenceCounter), and every call that       *)
(* changes the function starts with CopyOnWrite().  FunctionWrapper        *)
(* objects are counted too, by the mFuncPtrs entries that hold them.       *)
(* Each call of the interface is one action: the library is used from one  *)
(* thread, and no call is interrupted by another.                          *)
(***************************************************************************)
EXTENDS ParserValue

CONSTANTS
  Blocks,       (* Addresses at which Data structs are allocated.          *)
  NoBlock,      (* mData where no object exists.                           *)
  UserNames,    (* Names given to the calls that add or remove one.        *)
  UserNumbers,  (* Numbers given to AddConstant() and AddUnit().           *)
  DeducedTexts, (* Texts given to ParseAndDeduceVariables().               *)
  Delimiters,   (* Characters given to setDelimiterChar().                 *)
  NoDelimiter,  (* The default '\0': no delimiter character.               *)
  MaxFuncs,     (* Bound on mFuncPtrs.size() in the model.                 *)
  MaxLinks      (* Bound on mFuncParsers.size() in the model.              *)

ASSUME BlocksAssumption == NoBlock \notin Blocks
ASSUME UserAssumption == /\ UserNames \subseteq Names
                         /\ UserNumbers \subseteq Numbers
                         /\ DeducedTexts \subseteq Texts
ASSUME DelimiterAssumption == \A text \in Texts : text.tail # NoDelimiter

VARIABLES
  data,         (* mData of the object at each address.                    *)
  refs,         (* mReferenceCounter of each block; 0 where none exists.   *)
  body,         (* The value each block holds.                             *)
  delim,        (* mDelimiterChar of each block.                           *)
  stackLen,     (* mStack.size() of each block.                            *)
  wrapperRefs   (* FunctionWrapper::mReferenceCount; 0 where none exists.  *)

vars == <<data, refs, body, delim, stackLen, wrapperRefs>>

Live == {p \in Parsers : data[p] # NoBlock}

Allocated == {d \in Blocks : refs[d] > 0}

\* The value of each object, as its user sees it.
Val == [p \in Parsers |-> IF p \in Live THEN body[data[p]] ELSE NewValue]

WrappersOf(v) == ToSet(v.funcs) \cap Wrappers

Init ==
  /\ data = [p \in Parsers |-> NoBlock]
  /\ refs = [d \in Blocks |-> 0]
  /\ body = [d \in Blocks |-> NewValue]
  /\ delim = [d \in Blocks |-> NoDelimiter]
  /\ stackLen = [d \in Blocks |-> 0]
  /\ wrapperRefs = [w \in Wrappers |-> 0]

(***************************************************************************)
(* Construction, copying, assignment and destruction.                      *)
(***************************************************************************)

\* Mutant: a new block is not counted for the object that made it.
ConstructUncounted(p) ==
  /\ data[p] = NoBlock
  /\ \E d \in Blocks \ Allocated :
       /\ data' = [data EXCEPT ![p] = d]
       /\ body' = [body EXCEPT ![d] = NewValue]
       /\ delim' = [delim EXCEPT ![d] = NoDelimiter]
       /\ stackLen' = [stackLen EXCEPT ![d] = 0]
  /\ UNCHANGED <<refs, wrapperRefs>>

\* FunctionParserBase()
Construct(p) ==
  /\ data[p] = NoBlock
  /\ \E d \in Blocks \ Allocated :
       /\ data' = [data EXCEPT ![p] = d]
       /\ refs' = [refs EXCEPT ![d] = 1]
       /\ body' = [body EXCEPT ![d] = NewValue]
       /\ delim' = [delim EXCEPT ![d] = NoDelimiter]
       /\ stackLen' = [stackLen EXCEPT ![d] = 0]
  /\ UNCHANGED wrapperRefs

\* FunctionParserBase(const FunctionParserBase&)
CopyConstruct(p, q) ==
  /\ data[p] = NoBlock
  /\ q \in Live
  /\ data' = [data EXCEPT ![p] = data[q]]
  /\ refs' = [refs EXCEPT ![data[q]] = @ + 1]
  /\ UNCHANGED <<body, delim, stackLen, wrapperRefs>>

\* Mutant: ~Data() forgets its wrappers.
ReleaseNoWrappers(d) == UNCHANGED wrapperRefs

\* The wrappers a block holds lose a reference when ~Data() runs, and are
\* deleted at 0.
ReleaseWrappers(d) ==
  wrapperRefs' = [w \in Wrappers |-> IF w \in WrappersOf(body[d])
                                     THEN wrapperRefs[w] - 1
                                     ELSE wrapperRefs[w]]

\* An object lets go of block d: the last one to do so deletes it.
Unreference(d) ==
  IF refs[d] = 1
  THEN /\ ReleaseWrappers(d)
       /\ body' = [body EXCEPT ![d] = NewValue]
       /\ delim' = [delim EXCEPT ![d] = NoDelimiter]
       /\ stackLen' = [stackLen EXCEPT ![d] = 0]
  ELSE UNCHANGED <<body, delim, stackLen, wrapperRefs>>

\* operator=.  Two objects with the same block are left as they are.
Assign(p, q) ==
  /\ p \in Live
  /\ q \in Live
  /\ data[p] # data[q]
  /\ data' = [data EXCEPT ![p] = data[q]]
  /\ refs' = [refs EXCEPT ![data[p]] = @ - 1, ![data[q]] = @ + 1]
  /\ Unreference(data[p])

\* ~FunctionParserBase().  A parser must exist for as long as another one
\* links to it: this is what the interface asks of its user.
Destroy(p) ==
  /\ p \in Live
  /\ \A q \in Live \ {p} : p \notin Linked(Val)[q]
  /\ data' = [data EXCEPT ![p] = NoBlock]
  /\ refs' = [refs EXCEPT ![data[p]] = @ - 1]
  /\ Unreference(data[p])

\* Mutant: the copy leaves the count of the original as it was.
CopyWithoutRelease(p, d) ==
  /\ IF refs[data[p]] > 1 THEN d \in Blocks \ Allocated ELSE d = data[p]
  /\ data' = [data EXCEPT ![p] = d]
  /\ refs' = [refs EXCEPT ![d] = 1]
  /\ delim' = [delim EXCEPT ![d] = delim[data[p]]]

\* Mutant: a block that two objects share is taken for one's own.
CopyIfMoreThanTwo(p, d) ==
  /\ IF refs[data[p]] > 2 THEN d \in Blocks \ Allocated ELSE d = data[p]
  /\ data' = [data EXCEPT ![p] = d]
  /\ refs' = IF d = data[p] THEN refs
             ELSE [refs EXCEPT ![data[p]] = @ - 1, ![d] = 1]
  /\ delim' = [delim EXCEPT ![d] = delim[data[p]]]

(***************************************************************************)
(* CopyOnWrite(), which starts every call that changes the function: p     *)
(* goes on with block d, its own or a copy, and the block then holds v.    *)
(* The copy's mStack is allocated with the mStackSize of the original, and *)
(* the wrappers it holds gain a reference.                                 *)
(***************************************************************************)
CopyOnWrite(p, d) ==
  /\ IF refs[data[p]] > 1 THEN d \in Blocks \ Allocated ELSE d = data[p]
  /\ data' = [data EXCEPT ![p] = d]
  /\ refs' = IF d = data[p] THEN refs
             ELSE [refs EXCEPT ![data[p]] = @ - 1, ![d] = 1]
  /\ delim' = [delim EXCEPT ![d] = delim[data[p]]]

\* mStack.size() of the block p writes to, before the call changes it.
StackOf(p, d) == IF d = data[p] THEN stackLen[d] ELSE body[data[p]].stackSize

\* Mutant: a copied block does not count the wrappers it holds.
CountNewWrappers(p, d, new) ==
  wrapperRefs' = [w \in Wrappers |-> IF w \in new THEN 1 ELSE wrapperRefs[w]]

\* The wrapper counts after CopyOnWrite() and the addition of the set new.
CountWrappers(p, d, new) ==
  wrapperRefs' = [w \in Wrappers |->
                    IF w \in new THEN 1
                    ELSE IF d # data[p] /\ w \in WrappersOf(body[data[p]])
                         THEN wrapperRefs[w] + 1
                    ELSE wrapperRefs[w]]

\* A call that writes the value v and leaves mStack alone.
Change(p, v) ==
  \E d \in Blocks :
    /\ CopyOnWrite(p, d)
    /\ body' = [body EXCEPT ![d] = v]
    /\ stackLen' = [stackLen EXCEPT ![d] = StackOf(p, d)]
    /\ CountWrappers(p, d, {})

(***************************************************************************)
(* The interface.                                                          *)
(***************************************************************************)

\* ForceDeepCopy(), and GetFunctionWrapper(), which looks up a name after it.
ForceDeepCopy(p) ==
  /\ p \in Live
  /\ Change(p, Val[p])

AddConstant(p, n, x) ==
  /\ p \in Live
  /\ Change(p, WithConstant(Val[p], n, x))

AddUnit(p, n, x) ==
  /\ p \in Live
  /\ Change(p, WithUnit(Val[p], n, x))

\* AddFunction() of a C++ function.
AddFunction(p, n, f) ==
  /\ p \in Live
  /\ Len(Val[p].funcs) < MaxFuncs
  /\ Change(p, WithFunction(Val[p], n, f))

\* AddFunctionWrapper() copies its argument to the heap, with a count of 1,
\* before it is known whether the name can be added.
AddFunctionWrapper(p, n, w) ==
  /\ p \in Live
  /\ Len(Val[p].funcs) < MaxFuncs
  /\ wrapperRefs[w] = 0
  /\ \E d \in Blocks :
       /\ CopyOnWrite(p, d)
       /\ body' = [body EXCEPT ![d] = WithFunction(Val[p], n, w)]
       /\ stackLen' = [stackLen EXCEPT ![d] = StackOf(p, d)]
       /\ CountWrappers(p, d, {w})

\* Mutant: the check for a loop looks at the parser's own links only.
AddParserUnlessDirect(p, n, q) ==
  /\ p \in Live
  /\ q \in Live
  /\ Val[q].err = "no_error"
  /\ Len(Val[p].links) < MaxLinks
  /\ p # q /\ p \notin Linked(Val)[q]
  /\ Change(p, WithParser(Val[p], n, q))

\* AddFunction() of a parser, which has been parsed as the interface asks.  It
\* returns false, and changes nothing, when CheckRecursiveLinking() finds p
\* from q; it never returns from a loop.
AddParser(p, n, q) ==
  /\ p \in Live
  /\ q \in Live
  /\ Val[q].err = "no_error"
  /\ Len(Val[p].links) < MaxLinks
  /\ ~Reaches(Linked(Val), q, p)
  /\ Terminates(Linked(Val), q)
  /\ Change(p, WithParser(Val[p], n, q))

RemoveIdentifier(p, n) ==
  /\ p \in Live
  /\ Change(p, Without(Val[p], n))

\* setDelimiterChar() writes to the block as it is, shared or not.
SetDelimiterChar(p, c) ==
  /\ p \in Live
  /\ delim' = [delim EXCEPT ![data[p]] = c]
  /\ UNCHANGED <<data, refs, body, stackLen, wrapperRefs>>

\* mStack gets its size at the end of ParseFunction() only.
Reparse(p, text, v) ==
  \E d \in Blocks :
    /\ CopyOnWrite(p, d)
    /\ body' = [body EXCEPT ![d] = v]
    /\ stackLen' = [stackLen EXCEPT ![d] = IF ParsedToEnd(v, text)
                                          THEN v.stackSize
                                          ELSE StackOf(p, d)]
    /\ CountWrappers(p, d, {})

Parse(p, tokens, text) ==
  /\ p \in Live
  /\ Reparse(p, text, Parsed(Val[p], tokens, text, delim[data[p]]))

ParseAndDeduceVariables(p, text) ==
  /\ p \in Live
  /\ Reparse(p, text, Deduced(Val[p], text, delim[data[p]]))

\* Mutant: mStack keeps its size.
OptimizeWithoutResize(p, size) ==
  /\ p \in Live
  /\ \A q \in Parsers : Reaches(Called(Val), p, q) => Readable(Val[q])
  /\ Terminates(Called(Val), p)
  /\ \E d \in Blocks :
       /\ CopyOnWrite(p, d)
       /\ body' = [body EXCEPT ![d] = Optimized(Val, p, size)]
       /\ stackLen' = [stackLen EXCEPT ![d] = StackOf(p, d)]
       /\ CountWrappers(p, d, {})

\* Optimize(), called where GenerateFrom() can read the byte code of p and of
\* every parser that it calls (elsewhere the behaviour is undefined).  mStack is
\* resized only when the size noted in mStackSize changes.
Optimize(p, size) ==
  /\ p \in Live
  /\ \A q \in Parsers : Reaches(Called(Val), p, q) => Readable(Val[q])
  /\ Terminates(Called(Val), p)
  /\ \E d \in Blocks :
       /\ CopyOnWrite(p, d)
       /\ body' = [body EXCEPT ![d] = Optimized(Val, p, size)]
       /\ stackLen' = [stackLen EXCEPT
            ![d] = IF Val[p].stackSize # size THEN size ELSE StackOf(p, d)]
       /\ CountWrappers(p, d, {})

StackSizes == {text.stack : text \in Texts}

Next ==
  \E p \in Parsers :
    \/ Construct(p)
    \/ Destroy(p)
    \/ ForceDeepCopy(p)
    \/ \E q \in Parsers : CopyConstruct(p, q) \/ Assign(p, q)
    \/ \E n \in UserNames : RemoveIdentifier(p, n)
    \/ \E n \in UserNames, x \in UserNumbers : AddConstant(p, n, x) \/ AddUnit(p, n, x)
    \/ \E n \in UserNames, f \in RawFuncs : AddFunction(p, n, f)
    \/ \E n \in UserNames, w \in Wrappers : AddFunctionWrapper(p, n, w)
    \/ \E n \in UserNames, q \in Parsers : AddParser(p, n, q)
    \/ \E c \in Delimiters : SetDelimiterChar(p, c)
    \/ \E input \in Inputs : Parse(p, input.vars, input.text)
    \/ \E text \in DeducedTexts : ParseAndDeduceVariables(p, text)
    \/ \E size \in StackSizes : Optimize(p, size)

Spec == Init /\ [][Next]_vars

(***************************************************************************)
(* Properties.                                                             *)
(***************************************************************************)

\* Types: every pointer is a block or null, every block holds a value.
PointersOK ==
  /\ data \in [Parsers -> Blocks \cup {NoBlock}]
  /\ refs \in [Blocks -> Nat]
  /\ delim \in [Blocks -> Delimiters \cup {NoDelimiter}]

TypeOK ==
  /\ PointersOK
  /\ body \in [Blocks -> Value]
  /\ stackLen \in [Blocks -> Nat]
  /\ wrapperRefs \in [Wrappers -> Nat]

\* mReferenceCounter is the number of objects that point to the block, after
\* any sequence of constructions, copies, assignments, changes and
\* destructions: no object points to a deleted block (the count of a deleted
\* block is 0) and no block outlives its last object.
RefCountsExact ==
  \A d \in Blocks : refs[d] = Cardinality({p \in Parsers : data[p] = d})

\* The blocks whose mFuncPtrs hold wrapper w.
Holders(w) == {d \in Allocated : w \in WrappersOf(body[d])}

\* A wrapper that some block holds is counted once per block: the wrapper is
\* not deleted under a block that can still call it, however its blocks were
\* copied by CopyOnWrite() and deleted.
WrapperCountsExact ==
  \A w \in Wrappers : Holders(w) # {} => wrapperRefs[w] = Cardinality(Holders(w))

\* The step that takes away a wrapper's last holder deletes the wrapper.
WrapperDeletedWithLastHolder ==
  [][\A w \in Wrappers :
       Holders(w) # {} /\ Holders(w)' = {} => wrapperRefs'[w] = 0]_vars

\* Copies behave as independent values: the objects, each seen through its
\* mData, make only steps of ValueSemantics.  In particular no call on one
\* object changes what another computes, although they share a block.  (The
\* delimiter is not part of the value, for copies share it: a call of Parse()
\* may use any.)
CallGives(V, p, v) ==
  \/ \E n \in Names :
       \/ \E x \in Numbers : v = WithConstant(V[p], n, x)
                           \/ v = WithUnit(V[p], n, x)
       \/ \E f \in Funcs : v = WithFunction(V[p], n, f)
       \/ \E q \in Parsers : v = WithParser(V[p], n, q)
       \/ v = Without(V[p], n)
  \/ \E c \in Delimiters \cup {NoDelimiter} :
       \/ \E input \in Inputs : v = Parsed(V[p], input.vars, input.text, c)
       \/ \E text \in Texts : v = Deduced(V[p], text, c)
  \/ \E size \in StackSizes : v = Optimized(V, p, size)

Copies == INSTANCE ValueSemantics WITH objects <- Live, val <- Val

CopiesAreValues == Copies!Spec

\* The VARIABLE entries of mNamePtrs are the leading tokens of the stored
\* mVariablesString, the i-th one with index i.  Their keys point into that
\* string: an entry left from an earlier string would be a dangling key.
VariablesPointIntoString ==
  \A d \in Allocated :
    LET v    == body[d]
        used == {n \in Names : IsVariable(v.names, n)}
    IN  /\ Cardinality(used) <= Len(v.vars)
        /\ {<<v.names[n].data, n>> : n \in used}
             = {<<i, v.vars[i]>> : i \in 1..Cardinality(used)}

Runnable(p) == p \in Live /\ Val[p].err = "no_error"

\* Calls that work on the identifier table or on the objects' sharing.
TableCall ==
  \E p \in Parsers :
    \/ ForceDeepCopy(p)
    \/ \E n \in UserNames :
         \/ RemoveIdentifier(p, n)
         \/ \E x \in UserNumbers : AddConstant(p, n, x) \/ AddUnit(p, n, x)
         \/ \E f \in RawFuncs : AddFunction(p, n, f)
         \/ \E w \in Wrappers : AddFunctionWrapper(p, n, w)
         \/ \E q \in Parsers : AddParser(p, n, q)

\* Eval() of p can run: it returns, and finds every function it calls.
Evaluable(p) ==
  /\ Runnable(p)
  /\ Terminates(Called(Val), p)
  /\ \A o \in ToSet(Meanings(Val)[p]) : o.op # "nowhere"

\* A function once parsed computes the same after any of its names, or of the
\* names of a parser it calls, is redefined or removed: byte code refers to
\* mFuncPtrs and mFuncParsers by index, and their entries stay.
TableCallsKeepMeaning ==
  [][(\E p \in Parsers : Evaluable(p) /\ Meanings(Val')[p] # Meanings(Val)[p])
       => ~TableCall]_vars

\* Optimize() leaves every parser computing what it computed, whatever the
\* parsers it calls have compiled (and inlines at this call).
OptimizeKeepsMeaning ==
  [][Meanings(Val') # Meanings(Val)
       => ~\E p \in Parsers, size \in StackSizes : Optimize(p, size)]_vars

\* The part of OptimizeKeepsMeaning that the code keeps: for parsers whose
\* callees, at any depth, call no C++ function.
PureCallees(p) ==
  \A q \in Parsers \ {p} : Reaches(Called(Val), p, q) =>
    \A o \in ToSet(Val[q].code) : o.op # "cFCall"

OptimizeKeepsPureMeaning ==
  [][\A p \in Parsers :
       (/\ Val'[p].code # Val[p].code
        /\ Meanings(Val')[p] # Meanings(Val)[p]
        /\ PureCallees(p))
       => ~\E size \in StackSizes : Optimize(p, size)]_vars

\* ParseAndDeduceVariables() ends by itself, and parses a text whenever some
\* set of variables makes it a function, with the fewest variables, whatever
\* Vars string an earlier call has left.
DeducesVariables ==
  \A p \in Live, text \in DeducedTexts :
    LET v == Val[p]
        c == delim[data[p]]
        r == Deduction(v, text, c)
        w == [v EXCEPT !.vars = <<>>, !.names = NonVariables(@)]
        enough == {S \in SUBSET Names :
                     /\ IsFiniteSet(S)
                     /\ Parsed(w, SetToSeq(S), text, c).err = "no_error"}
    IN  /\ r.done
        /\ r.value.err = "no_error" <=> enough # {}
        /\ \A S \in enough : ToSet(r.value.vars) \subseteq S

\* Eval() has the stack its byte code needs: the comment at mStack says that
\* mStack.size() and mStackSize are mutually redundant.
StackSized ==
  \A p \in Live : Runnable(p) => stackLen[data[p]] >= Val[p].stackSize

\* AddFunction() never closes a loop of parsers that call each other, from
\* any links that copies and earlier calls have left.
AddFunctionClosesNoLoop ==
  [][Linked(Val') # Linked(Val) /\ Acyclic(Val) /\ ~Acyclic(Val')
       => ~\E p, q \in Parsers, n \in UserNames : AddParser(p, n, q)]_vars

\* No parsers call each other in a loop: "cPCalls can never recurse", by which
\* GenerateFrom(), Eval() and CheckRecursiveLinking() terminate.
LinksAcyclic == Acyclic(Val)

==============================================================================
