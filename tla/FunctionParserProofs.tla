------------------------- MODULE FunctionParserProofs -------------------------
(***************************************************************************)
(* Proofs about FunctionParser: the reference counts are exact, shared     *)
(* Data is never written, so that copies are independent values, and what  *)
(* the blocks hold stays sound: the variables of each stand for its Vars   *)
(* string, the counts of the wrappers are exact, and mStack has the size   *)
(* that the byte code needs.  First, lemmas about what the calls of the    *)
(* interface compute (ParserValue): the tables of functions they leave     *)
(* alone, the variables that stand for the Vars string, and the loop of    *)
(* ParseAndDeduceVariables().                                              *)
(*                                                                         *)
(* Then parsers that call each other: every value has its type and every   *)
(* cPCall a callee; calls that work on the table of identifiers, and       *)
(* Optimize() of parsers whose callees call no C++ function, change        *)
(* nothing that is computed; AddFunction() never closes a loop.            *)
(***************************************************************************)
EXTENDS FunctionParser, RecursionProofs

(***************************************************************************)
(* The loop of ParseAndDeduceVariables().                                  *)
(***************************************************************************)

\* The rounds are the function that its recursive definition describes.
LEMMA RoundsDefined ==
  ASSUME NEW v, NEW text, NEW c, Len(text.elems) \in Nat
  PROVE  /\ Rounds(v, text, c)[0] = FirstRound(v)
         /\ \A k \in 1..DeductionRounds(text) :
              Rounds(v, text, c)[k] = NextRound(Rounds(v, text, c)[k - 1], text, c)
<1> DEFINE N == DeductionRounds(text)
           Runs(g, n) == /\ g[0] = FirstRound(v)
                         /\ \A k \in 1..n : g[k] = NextRound(g[k - 1], text, c)
           Stuck == {n \in 0..N : ~\E g : DOMAIN g = 0..n /\ Runs(g, n)}
<1>1. N \in Nat
  BY DEF DeductionRounds
<1> HIDE DEF N
<1>2. Stuck = {}
  <2>1. SUFFICES ASSUME Stuck # {}
                 PROVE  FALSE
    OBVIOUS
  <2>0. Stuck \in SUBSET Nat
    BY <1>1
  <2>2. PICK m \in Stuck : \A n \in Stuck : m <= n
    BY <2>0, <2>1, LeastNatural
  <2>3. CASE m = 0
    <3> DEFINE g == [k \in 0..0 |-> FirstRound(v)]
    <3>1. 0 \in 0..0 /\ 1..0 = {}
      OBVIOUS
    <3>2. DOMAIN g = 0..0 /\ Runs(g, 0)
      BY <3>1
    <3>3. QED  BY <2>3, <3>2
  <2>4. CASE m # 0
    <3>1. m \in Nat /\ m - 1 \in 0..N /\ m - 1 \notin Stuck
      BY <1>1, <2>2, <2>4
    <3>2. PICK g : DOMAIN g = 0..(m - 1) /\ Runs(g, m - 1)
      BY <3>1
    <3> DEFINE h == [k \in 0..m |-> IF k = m THEN NextRound(g[m - 1], text, c) ELSE g[k]]
    <3>3. Runs(h, m)
      <4>1. h[0] = FirstRound(v)
        BY <2>4, <3>1, <3>2
      <4>2. ASSUME NEW k \in 1..m
            PROVE  h[k] = NextRound(h[k - 1], text, c)
        <5>1. k \in 0..m /\ k - 1 \in 0..m /\ k - 1 # m
          BY <3>1
        <5>2. h[k - 1] = g[k - 1]
          BY <5>1
        <5>3. CASE k = m
          BY <5>1, <5>2, <5>3
        <5>4. CASE k # m
          <6>1. k \in 1..(m - 1)
            BY <3>1, <5>4
          <6>2. QED  BY <3>2, <5>1, <5>2, <5>4, <6>1
        <5>5. QED  BY <5>3, <5>4
      <4>3. QED  BY <4>1, <4>2
    <3>4. DOMAIN h = 0..m
      OBVIOUS
    <3>5. QED  BY <2>2, <3>3, <3>4
  <2>5. QED  BY <2>3, <2>4
<1>3. PICK g : DOMAIN g = 0..N /\ Runs(g, N)
  BY <1>1, <1>2
<1> DEFINE Body(f) == [k \in 0..N |-> IF k = 0 THEN FirstRound(v)
                                              ELSE NextRound(f[k - 1], text, c)]
           h == [k \in 0..N |-> g[k]]
<1>4. h = Body(h)
  <2>1. ASSUME NEW k \in 0..N
        PROVE  h[k] = Body(h)[k]
    <3>1. CASE k = 0
      BY <1>3, <3>1
    <3>2. CASE k # 0
      <4>1. k \in 1..N /\ k - 1 \in 0..N
        BY <1>1, <3>2
      <4>2. QED  BY <1>3, <3>2, <4>1
    <3>3. QED  BY <3>1, <3>2
  <2>2. QED  BY <2>1
<1>5. Rounds(v, text, c) = CHOOSE f : f = Body(f)
  BY DEF Rounds, N
<1>6. Rounds(v, text, c) = Body(Rounds(v, text, c))
  BY <1>4, <1>5
<1> HIDE DEF h
<1>7. ASSUME NEW k \in 1..N
      PROVE  Rounds(v, text, c)[k] = NextRound(Rounds(v, text, c)[k - 1], text, c)
  <2>1. k \in 0..N /\ k # 0
    BY <1>1
  <2>2. QED  BY <1>6, <2>1
<1>8. Rounds(v, text, c)[0] = FirstRound(v)
  <2>1. 0 \in 0..N
    BY <1>1
  <2>2. QED  BY <1>6, <2>1
<1>9. QED  BY <1>7, <1>8 DEF N

(***************************************************************************)
(* What every call keeps of a value.                                       *)
(***************************************************************************)
Fields == {"err", "vars", "nvars", "names", "funcs", "links", "code", "stackSize"}

\* The entries of the table that are variables are the first k names of the
\* stored Vars string, each with its place as index.
VariablesStand(v) ==
  /\ Len(v.vars) \in Nat
  /\ \E k \in 0..Len(v.vars) :
       /\ \A i \in 1..k : /\ v.vars[i] \in Names
                          /\ v.names[v.vars[i]] = [type |-> "VARIABLE", data |-> i]
       /\ \A n \in Names : IsVariable(v.names, n) => \E i \in 1..k : v.vars[i] = n

Sound(v) ==
  /\ DOMAIN v = Fields
  /\ DOMAIN v.names = Names
  /\ v.funcs \in Seq(Funcs)
  /\ VariablesStand(v)
  /\ v.err = "no_error" => v.stackSize \in Nat

\* A call leaves the functions, the error and the stack of a value alone.
Keeps(v, w) == w.funcs = v.funcs /\ w.err = v.err /\ w.stackSize = v.stackSize

\* A variable's entry is not the one of an undefined name.
LEMMA VariableEntry ==
  ASSUME NEW i \in Nat
  PROVE  [type |-> "VARIABLE", data |-> i] # Undefined
<1>1. [type |-> "VARIABLE", data |-> i] \in NameData
  BY DEF NameData
<1>2. QED  BY <1>1, UndefinedAssumption

\* A new Data is sound.
LEMMA NewValueSound == Sound(NewValue)
<1>1. Len(NewValue.vars) = 0
  BY DEF NewValue
<1>2. \A n \in Names : ~IsVariable(NewValue.names, n)
  BY DEF NewValue, IsVariable
<1>3. VariablesStand(NewValue)
  BY <1>1, <1>2 DEF VariablesStand
<1>4. NewValue.funcs \in Seq(Funcs)
  BY DEF NewValue
<1>5. QED  BY <1>3, <1>4 DEF Sound, NewValue, Fields

\* The entry of a name changes that is no variable, and becomes none.
LEMMA EntryChanged ==
  ASSUME NEW v, Sound(v), NEW w, DOMAIN w = Fields, NEW n \in Names, NEW e,
         w.names = [v.names EXCEPT ![n] = e], w.vars = v.vars, Keeps(v, w),
         ~IsVariable(v.names, n), ~IsVariable(w.names, n)
  PROVE  Sound(w)
<1>1. PICK k \in 0..Len(v.vars) :
        /\ \A i \in 1..k : /\ v.vars[i] \in Names
                           /\ v.names[v.vars[i]] = [type |-> "VARIABLE", data |-> i]
        /\ \A m \in Names : IsVariable(v.names, m) => \E i \in 1..k : v.vars[i] = m
  BY DEF Sound, VariablesStand
<1>2. ASSUME NEW i \in 1..k
      PROVE  w.names[v.vars[i]] = [type |-> "VARIABLE", data |-> i]
  <2>1. IsVariable(v.names, v.vars[i])
    <3>1. i \in Nat
      BY DEF Sound, VariablesStand
    <3>2. [type |-> "VARIABLE", data |-> i] # Undefined
      BY <3>1, VariableEntry
    <3>3. v.names[v.vars[i]] = [type |-> "VARIABLE", data |-> i]
      BY <1>1
    <3>4. v.names[v.vars[i]].type = "VARIABLE"
      BY <3>3
    <3>5. QED  BY <3>2, <3>3, <3>4 DEF IsVariable
  <2>2. v.vars[i] # n
    BY <2>1
  <2>3. QED  BY <1>1, <2>2 DEF Sound
<1>3. \A m \in Names : IsVariable(w.names, m) => \E i \in 1..k : v.vars[i] = m
  BY <1>1 DEF IsVariable, Sound
<1>4. VariablesStand(w)
  BY <1>1, <1>2, <1>3 DEF VariablesStand, Sound
<1>5. QED  BY <1>4 DEF Sound, Keeps

\* A name that is added takes no variable's place.
LEMMA WithNameSound ==
  ASSUME NEW v, Sound(v), NEW n \in Names, NEW type, type # "VARIABLE",
         CanAdd(v, n, type), NEW x
  PROVE  Sound(WithName(v, n, type, x)) /\ Keeps(v, WithName(v, n, type, x))
<1> DEFINE w == WithName(v, n, type, x)
<1>1. /\ DOMAIN w = Fields /\ w.vars = v.vars
      /\ w.names = [v.names EXCEPT ![n] = [type |-> type, data |-> x]]
      /\ Keeps(v, w)
  BY DEF WithName, Sound, Fields, Keeps
<1>2. ~IsVariable(v.names, n) /\ ~IsVariable(w.names, n)
  BY <1>1 DEF IsVariable, CanAdd, Sound
<1> HIDE DEF w
<1>3. Sound(w)
  BY <1>1, <1>2, EntryChanged
<1>4. QED  BY <1>1, <1>3 DEF w

\* The calls that add a constant, a unit or a parser, or remove a name.
LEMMA TableCallSound ==
  ASSUME NEW v, Sound(v), NEW n \in Names, NEW x, NEW w,
         w \in {WithConstant(v, n, x), WithUnit(v, n, x), WithParser(v, n, x), Without(v, n)}
  PROVE  Sound(w) /\ Keeps(v, w)
<1>1. Sound(v) /\ Keeps(v, v)
  BY DEF Keeps
<1>2. CASE w = WithConstant(v, n, x)
  BY <1>1, <1>2, WithNameSound DEF WithConstant
<1>3. CASE w = WithUnit(v, n, x)
  BY <1>1, <1>3, WithNameSound DEF WithUnit
<1>4. CASE w = WithParser(v, n, x)
  <2>1. CASE CanAdd(v, n, "PARSER_PTR")
    <3> DEFINE u == WithName(v, n, "PARSER_PTR", Len(v.links) + 1)
    <3>1. Sound(u) /\ Keeps(v, u)
      BY <2>1, WithNameSound
    <3> HIDE DEF u
    <3>2. w = [u EXCEPT !.links = Append(@, x)]
      BY <1>4, <2>1 DEF WithParser, u
    <3>3. /\ DOMAIN w = Fields /\ w.names = u.names /\ w.vars = u.vars
          /\ Keeps(u, w)
      BY <3>1, <3>2 DEF Sound, Fields, Keeps
    <3>4. QED  BY <3>1, <3>3 DEF Sound, Keeps, VariablesStand
  <2>2. CASE ~CanAdd(v, n, "PARSER_PTR")
    BY <1>1, <1>4, <2>2 DEF WithParser
  <2>3. QED  BY <2>1, <2>2
<1>5. CASE w = Without(v, n)
  <2>1. CASE v.names[n] = Undefined \/ v.names[n].type = "VARIABLE"
    BY <1>1, <1>5, <2>1 DEF Without
  <2>2. CASE ~(v.names[n] = Undefined \/ v.names[n].type = "VARIABLE")
    <3>1. w = [v EXCEPT !.names[n] = Undefined]
      BY <1>5, <2>2 DEF Without
    <3>2. /\ DOMAIN w = Fields /\ w.vars = v.vars
          /\ w.names = [v.names EXCEPT ![n] = Undefined]
          /\ Keeps(v, w)
      BY <3>1 DEF Sound, Fields, Keeps
    <3>3. ~IsVariable(v.names, n) /\ ~IsVariable(w.names, n)
      BY <2>2, <3>2 DEF IsVariable, Sound
    <3>4. QED  BY <3>2, <3>3, EntryChanged
  <2>3. QED  BY <2>1, <2>2
<1>6. QED  BY <1>2, <1>3, <1>4, <1>5

\* AddFunction() appends to mFuncPtrs, or leaves it alone.
LEMMA WithFunctionSound ==
  ASSUME NEW v, Sound(v), NEW n \in Names, NEW f \in Funcs
  PROVE  LET w == WithFunction(v, n, f)
         IN  /\ Sound(w) /\ w.err = v.err /\ w.stackSize = v.stackSize
             /\ w.funcs \in {v.funcs, Append(v.funcs, f)}
<1> DEFINE w == WithFunction(v, n, f)
<1>1. CASE CanAdd(v, n, "FUNC_PTR")
  <2> DEFINE u == WithName(v, n, "FUNC_PTR", Len(v.funcs) + 1)
  <2>1. Sound(u) /\ Keeps(v, u)
    BY <1>1, WithNameSound
  <2>2. w = [u EXCEPT !.funcs = Append(@, f)]
    BY <1>1 DEF WithFunction
  <2> HIDE DEF u, w
  <2>3. /\ DOMAIN w = Fields /\ w.names = u.names /\ w.vars = u.vars
        /\ w.err = v.err /\ w.stackSize = v.stackSize /\ w.funcs = Append(v.funcs, f)
    BY <2>1, <2>2 DEF Sound, Fields, Keeps
  <2>4. QED  BY <2>1, <2>3 DEF Sound, Keeps, VariablesStand, w
<1>2. CASE ~CanAdd(v, n, "FUNC_PTR")
  BY <1>2 DEF WithFunction
<1>3. QED  BY <1>1, <1>2

(***************************************************************************)
(* Parse().                                                                *)
(***************************************************************************)

\* The tokens that ParseVariables() accepts are names, free and different.
LEMMA AcceptedTokens ==
  ASSUME NEW names, NEW tokens, Len(tokens) \in Nat
  PROVE  LET k == Accepted(names, tokens)
         IN  /\ k \in 0..Len(tokens)
             /\ \A i \in 1..k : /\ tokens[i] \in Names
                                /\ names[tokens[i]] = Undefined
                                /\ \A j \in 1..(i - 1) : tokens[j] # tokens[i]
<1> DEFINE S == {k \in 0..Len(tokens) :
                   \A i \in 1..k : /\ tokens[i] \in Names
                                   /\ names[tokens[i]] = Undefined
                                   /\ \A j \in 1..(i - 1) : tokens[j] # tokens[i]}
<1>1. 0 \in S /\ S \in SUBSET (0..Len(tokens))
  OBVIOUS
<1>2. Max(S) \in S
  BY <1>1, MaxIsGreatest
<1>3. Accepted(names, tokens) = Max(S)
  BY DEF Accepted
<1>4. QED  BY <1>2, <1>3

\* The table after ParseVariables() has the variables of the new string.
LEMMA WithVariablesSound ==
  ASSUME NEW v, Sound(v), NEW tokens, Len(tokens) \in Nat
  PROVE  Sound(WithVariables(v, tokens)) /\ Keeps(v, WithVariables(v, tokens))
<1>1. CASE v.vars = tokens
  BY <1>1 DEF WithVariables, Keeps
<1>2. CASE v.vars # tokens
  <2> DEFINE w        == WithVariables(v, tokens)
             others   == NonVariables(v.names)
             k        == Accepted(others, tokens)
             index(n) == {i \in 1..k : tokens[i] = n}
  <2>1. /\ k \in 0..Len(tokens)
        /\ \A i \in 1..k : /\ tokens[i] \in Names
                           /\ \A j \in 1..(i - 1) : tokens[j] # tokens[i]
    BY AcceptedTokens
  <2> HIDE DEF k
  <2>2. w = [v EXCEPT
              !.vars  = tokens,
              !.nvars = IF k = Len(tokens) THEN k ELSE @,
              !.names = [n \in Names |->
                           IF index(n) # {}
                           THEN [type |-> "VARIABLE", data |-> Min(index(n))]
                           ELSE others[n]]]
    BY <1>2 DEF WithVariables, k
  <2>3. /\ DOMAIN w = Fields /\ w.vars = tokens /\ Keeps(v, w)
        /\ w.names = [n \in Names |->
                        IF index(n) # {}
                        THEN [type |-> "VARIABLE", data |-> Min(index(n))]
                        ELSE others[n]]
    BY <2>2 DEF Sound, Fields, Keeps
  <2> HIDE DEF w
  <2>4. ASSUME NEW i \in 1..k
        PROVE  tokens[i] \in Names /\ w.names[tokens[i]] = [type |-> "VARIABLE", data |-> i]
    <3>1. k \in Nat /\ i \in Nat
      BY <2>1
    <3>2. index(tokens[i]) = {i}
      <4>1. ASSUME NEW j \in 1..k, tokens[j] = tokens[i]
            PROVE  j = i
        <5>1. j < i => j \in 1..(i - 1)
          BY <3>1
        <5>2. i < j => i \in 1..(j - 1)
          BY <3>1
        <5>3. QED  BY <2>1, <3>1, <4>1, <5>1, <5>2
      <4>2. QED  BY <4>1
    <3>3. Min({i}) = i
      BY <3>1, MinIsLeast
    <3>4. QED  BY <2>1, <2>3, <3>2, <3>3
  <2>5. ASSUME NEW n \in Names, IsVariable(w.names, n)
        PROVE  \E i \in 1..k : tokens[i] = n
    <3>1. ~IsVariable(others, n)
      BY DEF NonVariables, IsVariable
    <3>2. index(n) # {}
      BY <2>3, <2>5, <3>1 DEF IsVariable
    <3>3. QED  BY <3>2
  <2>6. VariablesStand(w)
    <3>1. w.vars = tokens
      BY <2>3
    <3>2. \A i \in 1..k : /\ w.vars[i] \in Names
                          /\ w.names[w.vars[i]] = [type |-> "VARIABLE", data |-> i]
      BY <2>4, <3>1
    <3>3. \A n \in Names : IsVariable(w.names, n) => \E i \in 1..k : w.vars[i] = n
      BY <2>5, <3>1
    <3>4. k \in 0..Len(w.vars) /\ Len(w.vars) \in Nat
      BY <2>1, <3>1
    <3>5. QED  BY <3>2, <3>3, <3>4 DEF VariablesStand
  <2>7. QED  BY <2>3, <2>6 DEF Sound, Keeps, w
<1>3. QED  BY <1>1, <1>2

\* The compiler comes as far as the first use that is an error.
LEMMA CompiledUsesStops ==
  ASSUME NEW names, NEW elems, Len(elems) \in Nat
  PROVE  LET k == CompiledUses(names, elems)
         IN  /\ k \in 0..Len(elems)
             /\ \A i \in 1..k : UseError(names, elems[i]) = "no_error"
             /\ k # Len(elems) => UseError(names, elems[k + 1]) # "no_error"
<1> DEFINE S == {k \in 0..Len(elems) :
                   \A i \in 1..k : UseError(names, elems[i]) = "no_error"}
           k == CompiledUses(names, elems)
<1>1. 0 \in S /\ S \in SUBSET (0..Len(elems))
  OBVIOUS
<1>2. k \in S /\ \A j \in S : j <= k
  BY <1>1, MaxIsGreatest DEF CompiledUses
<1> HIDE DEF k
<1>3. ASSUME k # Len(elems), UseError(names, elems[k + 1]) = "no_error"
      PROVE  FALSE
  <2>1. k + 1 \in 0..Len(elems) /\ k \in Nat
    BY <1>2, <1>3
  <2>2. \A i \in 1..(k + 1) : i \in 1..k \/ i = k + 1
    BY <2>1
  <2>3. k + 1 \in S
    BY <1>2, <1>3, <2>1, <2>2
  <2>4. QED  BY <1>2, <2>1, <2>3
<1>4. QED  BY <1>2, <1>3 DEF k

\* Compilation leaves the table alone, succeeds only where the text ends or a
\* delimiter stands, and counts the stack where it succeeds.
LEMMA FunctionParsedSound ==
  ASSUME NEW v, Sound(v), NEW text \in Texts, NEW c
  PROVE  LET w == WithFunctionParsed(v, text, c)
         IN  /\ Sound(w) /\ w.funcs = v.funcs
             /\ w.err = "no_error" => text.tail \in {EndOfText, c}
<1> DEFINE w     == WithFunctionParsed(v, text, c)
           k     == CompiledUses(v.names, text.elems)
           full  == k = Len(text.elems)
           error == UseError(v.names, text.elems[k + 1])
<1>1. PICK input \in Inputs : text = input.text
  BY DEF Texts
<1>2. Len(text.elems) \in Nat /\ text.stack \in Nat
  BY <1>1, InputsAssumption, LenProperties
<1>3. ~full => error # "no_error"
  BY <1>2, CompiledUsesStops
<1>4. /\ DOMAIN w = Fields /\ w.names = v.names /\ w.vars = v.vars /\ w.funcs = v.funcs
      /\ w.err = IF ~full THEN error
                 ELSE IF text.tail \in {EndOfText, c} THEN "no_error"
                 ELSE "expect_operator"
      /\ full => w.stackSize = text.stack
  BY DEF WithFunctionParsed, Sound, Fields
<1> HIDE DEF w, full, error
<1>5. w.err = "no_error" => full /\ text.tail \in {EndOfText, c}
  BY <1>3, <1>4
<1>6. Sound(w)
  BY <1>2, <1>4, <1>5 DEF Sound, VariablesStand
<1>7. QED  BY <1>4, <1>5, <1>6 DEF w

\* Parse() leaves a sound Data, and succeeds only at the end or at the delimiter.
LEMMA ParsedSound ==
  ASSUME NEW v, Sound(v), NEW tokens, Len(tokens) \in Nat, NEW text \in Texts, NEW c
  PROVE  LET w == Parsed(v, tokens, text, c)
         IN  /\ Sound(w) /\ w.funcs = v.funcs
             /\ w.err = "no_error" => text.tail \in {EndOfText, c}
<1> DEFINE w == Parsed(v, tokens, text, c)
           u == WithVariables(v, tokens)
<1>1. Sound(u) /\ Keeps(v, u)
  BY WithVariablesSound
<1>2. CASE VarsOK(v, tokens)
  <2>1. w = WithFunctionParsed(u, text, c)
    BY <1>2 DEF Parsed
  <2> HIDE DEF u
  <2>2. QED  BY <1>1, <2>1, FunctionParsedSound DEF Keeps
<1>3. CASE ~VarsOK(v, tokens)
  <2>1. w = [u EXCEPT !.err = "invalid_vars"]
    BY <1>3 DEF Parsed
  <2> HIDE DEF u, w
  <2>2. /\ DOMAIN w = Fields /\ w.names = u.names /\ w.vars = u.vars /\ w.funcs = u.funcs
        /\ w.err = "invalid_vars"
    BY <1>1, <2>1 DEF Sound, Fields
  <2>3. Sound(w)
    BY <1>1, <2>2 DEF Sound, VariablesStand
  <2>4. QED  BY <1>1, <2>2, <2>3 DEF Keeps, w
<1>4. QED  BY <1>2, <1>3

\* A list of a finite set is a sequence.
LEMMA SetToSeqTyped ==
  ASSUME NEW S, IsFiniteSet(S)
  PROVE  SetToSeq(S) \in Seq(S) /\ Len(SetToSeq(S)) \in Nat
<1>1. PICK n \in Nat : ExistsBijection(1..n, S)
  BY FS_NatBijection
<1>2. Cardinality(S) = n
  BY <1>1, FS_CountingElements
<1>3. PICK f : f \in Bijection(1..n, S)
  BY <1>1 DEF ExistsBijection
<1>4. f \in [1..n -> S] /\ IsInjective(f)
  BY <1>3 DEF Bijection, Injection, IsInjective
<1>5. SetToSeq(S) \in [1..n -> S]
  BY <1>2, <1>4 DEF SetToSeq
<1>6. QED  BY <1>5, FunctionIsSeq

\* ParseAndDeduceVariables() does what calls of Parse() do.
LEMMA DeducedSound ==
  ASSUME NEW v, Sound(v), NEW text \in Texts, NEW c
  PROVE  LET w == Deduced(v, text, c)
         IN  /\ Sound(w) /\ w.funcs = v.funcs
             /\ w.err = "no_error" => text.tail \in {EndOfText, c}
<1> DEFINE N == DeductionRounds(text)
           R == Rounds(v, text, c)
           Good(k) == /\ Sound(R[k].value) /\ R[k].value.funcs = v.funcs
                      /\ IsFiniteSet(R[k].names)
                      /\ k = 0 => R[k].done = FALSE
                      /\ k # 0 /\ R[k].value.err = "no_error" =>
                           text.tail \in {EndOfText, c}
           Bad == {k \in 0..N : ~Good(k)}
<1>1. Len(text.elems) \in Nat
  <2>1. PICK input \in Inputs : text = input.text
    BY DEF Texts
  <2>2. QED  BY <2>1, InputsAssumption, LenProperties
<1>2. N \in Nat /\ N # 0
  BY <1>1 DEF DeductionRounds
<1>3. /\ R[0] = FirstRound(v)
      /\ \A k \in 1..N : R[k] = NextRound(R[k - 1], text, c)
  BY <1>1, RoundsDefined
<1> HIDE DEF N, R
<1>4. Good(0)
  BY <1>3, FS_EmptySet DEF FirstRound
<1>5. ASSUME NEW k \in 1..N, Good(k - 1)
      PROVE  Good(k)
  <2> DEFINE r  == R[k - 1]
             w  == Parsed(r.value, SetToSeq(r.names), text, c)
             at == StoppedAt(w, text)
  <2>1. k # 0 /\ k \in Nat
    BY <1>2
  <2>2. R[k] = IF r.done THEN r
               ELSE IF at \in {0, r.old}
               THEN [value |-> w, names |-> r.names, old |-> r.old, done |-> TRUE]
               ELSE [value |-> w, names |-> r.names \cup {text.elems[at].name},
                     old |-> at, done |-> FALSE]
    BY <1>3 DEF NextRound
  <2>3. /\ Sound(w) /\ w.funcs = v.funcs
        /\ w.err = "no_error" => text.tail \in {EndOfText, c}
    BY <1>5, SetToSeqTyped, ParsedSound
  <2> HIDE DEF w, at
  <2>4. CASE r.done
    <3>1. k - 1 # 0
      BY <1>5, <2>4
    <3>2. QED  BY <1>5, <2>1, <2>2, <2>4, <3>1
  <2>5. CASE ~r.done
    <3>1. R[k].value = w /\ IsFiniteSet(R[k].names)
      <4>1. IsFiniteSet(r.names) /\ IsFiniteSet(r.names \cup {text.elems[at].name})
        BY <1>5, FS_AddElement
      <4>2. CASE at \in {0, r.old}
        BY <2>2, <2>5, <4>1, <4>2
      <4>3. CASE at \notin {0, r.old}
        BY <2>2, <2>5, <4>1, <4>3
      <4>4. QED  BY <4>2, <4>3
    <3>2. QED  BY <2>1, <2>3, <3>1
  <2>6. QED  BY <2>4, <2>5
<1>6. Bad = {}
  <2>1. SUFFICES ASSUME Bad # {}
                 PROVE  FALSE
    OBVIOUS
  <2>2. Bad \in SUBSET Nat
    BY <1>2
  <2>3. PICK m \in Bad : \A k \in Bad : m <= k
    BY <2>1, <2>2, LeastNatural
  <2>4. m # 0 /\ m \in 0..N
    BY <1>4, <2>3
  <2>5. m \in 1..N /\ m - 1 \in 0..N /\ ~(m <= m - 1)
    BY <1>2, <2>4
  <2>6. Good(m - 1)
    BY <2>3, <2>5
  <2>7. QED  BY <1>5, <2>3, <2>5, <2>6
<1>7. Good(N)
  BY <1>2, <1>6
<1>8. QED  BY <1>2, <1>7 DEF Deduced, Deduction, R, N

\* Optimize() replaces the byte code and the size of the stack.
LEMMA OptimizedSound ==
  ASSUME NEW V, NEW p, Sound(V[p]), NEW size \in Nat
  PROVE  LET w == Optimized(V, p, size)
         IN  /\ Sound(w) /\ w.funcs = V[p].funcs
             /\ w.err = V[p].err /\ w.stackSize = size
<1> DEFINE w == Optimized(V, p, size)
<1>1. /\ DOMAIN w = Fields /\ w.names = V[p].names /\ w.vars = V[p].vars
      /\ w.funcs = V[p].funcs /\ w.err = V[p].err /\ w.stackSize = size
  BY DEF Optimized, Sound, Fields
<1> HIDE DEF w
<1>2. Sound(w)
  BY <1>1 DEF Sound, VariablesStand
<1>3. QED  BY <1>1, <1>2 DEF w

\* What VariablesStand says is that entries and tokens are the same pairs.
LEMMA VariablesArePairs ==
  ASSUME NEW v, Sound(v)
  PROVE  LET used == {n \in Names : IsVariable(v.names, n)}
         IN  /\ Cardinality(used) <= Len(v.vars)
             /\ {<<v.names[n].data, n>> : n \in used}
                  = {<<i, v.vars[i]>> : i \in 1..Cardinality(used)}
<1> DEFINE used == {n \in Names : IsVariable(v.names, n)}
<1>1. PICK k \in 0..Len(v.vars) :
        /\ \A i \in 1..k : /\ v.vars[i] \in Names
                           /\ v.names[v.vars[i]] = [type |-> "VARIABLE", data |-> i]
        /\ \A m \in Names : IsVariable(v.names, m) => \E i \in 1..k : v.vars[i] = m
  BY DEF Sound, VariablesStand
<1>2. k \in Nat /\ k <= Len(v.vars)
  BY DEF Sound, VariablesStand
<1> DEFINE f == [i \in 1..k |-> v.vars[i]]
<1>3. ASSUME NEW i \in 1..k
      PROVE  f[i] \in used /\ v.names[f[i]].data = i
  <2>1. [type |-> "VARIABLE", data |-> i] # Undefined
    BY <1>2, VariableEntry
  <2>2. v.names[f[i]] = [type |-> "VARIABLE", data |-> i] /\ f[i] \in Names
    BY <1>1
  <2>3. v.names[f[i]].type = "VARIABLE" /\ v.names[f[i]].data = i
    BY <2>2
  <2>4. QED  BY <2>1, <2>2, <2>3 DEF IsVariable
<1>4. \A n \in used : \E i \in 1..k : f[i] = n
  BY <1>1
<1>5. \A i, j \in 1..k : f[i] = f[j] => i = j
  BY <1>3
<1>6. f \in [1..k -> used]
  BY <1>3
<1>7. Cardinality(used) = k
  <2>1. f \in Bijection(1..k, used)
    <3> HIDE DEF f, used
    <3>1. QED  BY <1>4, <1>5, <1>6 DEF Bijection, Injection, Surjection, IsInjective
  <2>2. ExistsBijection(1..k, used)
    BY <2>1 DEF ExistsBijection
  <2>3. QED  BY <1>2, <2>2, FS_CountingElements
<1>8. \A n \in used : \E i \in 1..k : <<v.names[n].data, n>> = <<i, f[i]>>
  BY <1>3, <1>4
<1>9. \A i \in 1..k : \E n \in used : <<v.names[n].data, n>> = <<i, f[i]>>
  BY <1>3
<1>10. {<<v.names[n].data, n>> : n \in used} = {<<i, v.vars[i]>> : i \in 1..k}
  <2>1. \A i \in 1..k : f[i] = v.vars[i]
    OBVIOUS
  <2> HIDE DEF f, used
  <2>2. ASSUME NEW n \in used
        PROVE  \E i \in 1..k : <<v.names[n].data, n>> = <<i, v.vars[i]>>
    BY <1>8, <2>1
  <2>3. ASSUME NEW i \in 1..k
        PROVE  \E n \in used : <<i, v.vars[i]>> = <<v.names[n].data, n>>
    <3>1. PICK n \in used : <<v.names[n].data, n>> = <<i, f[i]>>
      BY <1>9
    <3>2. f[i] = v.vars[i]
      BY <2>1
    <3>3. QED  BY <3>1, <3>2
  <2>4. {<<v.names[n].data, n>> : n \in used} \subseteq {<<i, v.vars[i]>> : i \in 1..k}
    BY <2>2
  <2>5. {<<i, v.vars[i]>> : i \in 1..k} \subseteq {<<v.names[n].data, n>> : n \in used}
    BY <2>3
  <2>6. QED  BY <2>4, <2>5
<1>11. QED  BY <1>2, <1>7, <1>10

(***************************************************************************)
(* ParseAndDeduceVariables() finds the fewest variables.  Table(v, S) is   *)
(* what the compiler sees where the variables of v are the names of S: it  *)
(* does not look at the indices.                                           *)
(***************************************************************************)
Others(v) == NonVariables(v.names)

Free(v) == {n \in Names : Others(v)[n] = Undefined}

Table(v, S) ==
  [n \in Names |-> IF n \in S THEN [type |-> "VARIABLE", data |-> 1] ELSE Others(v)[n]]

Sees(names, v, S) ==
  \A n \in Names : IF n \in S THEN IsVariable(names, n) ELSE names[n] = Others(v)[n]

\* A text is a list of uses of names.
LEMMA TextTyped ==
  ASSUME NEW text \in Texts
  PROVE  /\ Len(text.elems) \in Nat
         /\ \A i \in 1..Len(text.elems) : /\ text.elems[i].name \in Names
                                          /\ text.elems[i].form \in {"plain", "call", "unit"}
<1> DEFINE Use == [name : Names, form : {"plain", "call", "unit"}]
<1>1. PICK input \in Inputs : text = input.text
  BY DEF Texts
<1>2. text.elems \in Seq(Use)
  BY <1>1, InputsAssumption
<1>3. Len(text.elems) \in Nat /\ \A i \in 1..Len(text.elems) : text.elems[i] \in Use
  BY <1>2, LenProperties, ElementOfSeq
<1>4. QED  BY <1>3

\* A use of a name is an error or not whatever the index of a variable is.
LEMMA SeesSame ==
  ASSUME NEW names, NEW v, NEW S, Sees(names, v, S), NEW use, use.name \in Names,
         use.form \in {"plain", "call", "unit"}
  PROVE  UseError(names, use) = UseError(Table(v, S), use)
<1> DEFINE n == use.name
           t == Table(v, S)
<1>1. CASE n \notin S
  <2>1. names[n] = t[n]
    BY <1>1 DEF Sees, Table
  <2>2. QED  BY <2>1 DEF UseError
<1>2. CASE n \in S
  <2>1. /\ names[n] # Undefined /\ names[n].type = "VARIABLE"
        /\ t[n] # Undefined /\ t[n].type = "VARIABLE"
    BY <1>2, VariableEntry DEF Sees, IsVariable, Table
  <2>2. CASE use.form = "unit"
    BY <2>1, <2>2 DEF UseError
  <2>3. CASE use.form # "unit"
    BY <2>1, <2>3 DEF UseError
  <2>4. QED  BY <2>2, <2>3
<1>3. QED  BY <1>1, <1>2

\* So compilation comes equally far.
LEMMA CompiledSame ==
  ASSUME NEW names, NEW v, NEW S, Sees(names, v, S), NEW text \in Texts
  PROVE  CompiledUses(names, text.elems) = CompiledUses(Table(v, S), text.elems)
<1>1. \A i \in 1..Len(text.elems) :
        UseError(names, text.elems[i]) = UseError(Table(v, S), text.elems[i])
  BY TextTyped, SeesSame
<1>2. ASSUME NEW k \in 0..Len(text.elems)
      PROVE  (\A i \in 1..k : UseError(names, text.elems[i]) = "no_error")
             <=> (\A i \in 1..k : UseError(Table(v, S), text.elems[i]) = "no_error")
  <2>1. Len(text.elems) \in Nat /\ 1..k \subseteq 1..Len(text.elems)
    BY TextTyped
  <2>2. QED  BY <1>1, <2>1
<1>3. {k \in 0..Len(text.elems) :
         \A i \in 1..k : UseError(names, text.elems[i]) = "no_error"}
      = {k \in 0..Len(text.elems) :
           \A i \in 1..k : UseError(Table(v, S), text.elems[i]) = "no_error"}
  BY <1>2
<1>4. QED  BY <1>3 DEF CompiledUses

\* It comes to the use that is an error and follows none.
LEMMA CompiledUsesIs ==
  ASSUME NEW names, NEW elems, Len(elems) \in Nat, NEW k \in 0..Len(elems),
         \A i \in 1..k : UseError(names, elems[i]) = "no_error",
         k = Len(elems) \/ UseError(names, elems[k + 1]) # "no_error"
  PROVE  CompiledUses(names, elems) = k
<1> DEFINE j == CompiledUses(names, elems)
<1>1. /\ j \in 0..Len(elems)
      /\ \A i \in 1..j : UseError(names, elems[i]) = "no_error"
      /\ j # Len(elems) => UseError(names, elems[j + 1]) # "no_error"
  BY CompiledUsesStops
<1> HIDE DEF j
<1>2. ~(j < k)
  <2>1. j < k => j + 1 \in 1..k /\ j # Len(elems)
    BY <1>1
  <2>2. QED  BY <1>1, <2>1
<1>3. ~(k < j)
  <2>1. k < j => k + 1 \in 1..j /\ k # Len(elems)
    BY <1>1
  <2>2. QED  BY <1>1, <2>1
<1>4. QED  BY <1>1, <1>2, <1>3 DEF j

\* The list of a set has each of its members once.
LEMMA SetToSeqOnto ==
  ASSUME NEW S, IsFiniteSet(S)
  PROVE  /\ ToSet(SetToSeq(S)) = S
         /\ S = {SetToSeq(S)[i] : i \in 1..Len(SetToSeq(S))}
         /\ \A i, j \in 1..Len(SetToSeq(S)) : SetToSeq(S)[i] = SetToSeq(S)[j] => i = j
<1>1. PICK n \in Nat : ExistsBijection(1..n, S)
  BY FS_NatBijection
<1>2. Cardinality(S) = n
  BY <1>1, FS_CountingElements
<1>3. PICK f : f \in Bijection(1..n, S)
  BY <1>1 DEF ExistsBijection
<1>4. f \in [1..n -> S] /\ IsInjective(f)
  BY <1>3 DEF Bijection, Injection, IsInjective
<1>5. SetToSeq(S) \in [1..n -> S] /\ IsInjective(SetToSeq(S))
  BY <1>2, <1>4 DEF SetToSeq
<1> DEFINE s == SetToSeq(S)
<1>6. s \in [1..n -> S] /\ \A i, j \in 1..n : s[i] = s[j] => i = j
  BY <1>5 DEF IsInjective
<1>7. Len(s) = n
  <2>1. s \in Seq(S) /\ Len(s) \in Nat /\ DOMAIN s = 1..Len(s)
    BY SetToSeqTyped, LenProperties
  <2>2. 1..Len(s) = 1..n
    BY <1>6, <2>1
  <2> HIDE DEF s
  <2>3. \A k \in Nat : 1..k = 1..n => k = n
    <3>1. SUFFICES ASSUME NEW k \in Nat, 1..k = 1..n
                   PROVE  k = n
      OBVIOUS
    <3>2. (k \in 1..k <=> k # 0) /\ (n \in 1..n <=> n # 0)
      OBVIOUS
    <3>3. (k # 0 => k \in 1..n) /\ (n # 0 => n \in 1..k)
      BY <3>1, <3>2
    <3>4. QED  BY <3>3
  <2>4. QED  BY <2>1, <2>2, <2>3
<1> HIDE DEF s
<1>8. S = {s[i] : i \in 1..n}
  <2> DEFINE T == {s[i] : i \in 1..n}
  <2>1. T \subseteq S
    BY <1>6
  <2>2. s \in Bijection(1..n, T)
    BY <1>6 DEF Bijection, Injection, Surjection, IsInjective
  <2>3. ExistsBijection(1..n, T)
    BY <2>2 DEF ExistsBijection
  <2>4. Cardinality(T) = n
    BY <2>1, <2>3, FS_Subset, FS_CountingElements
  <2>5. QED  BY <1>2, <2>1, <2>4, FS_Subset
<1>9. DOMAIN s = 1..n
  BY <1>6
<1>10. QED  BY <1>6, <1>7, <1>8, <1>9 DEF ToSet, s

(***************************************************************************)
(* One Parse() of the loop.                                                *)
(***************************************************************************)

\* What Parse() may start from when it is to find the variables X: their list
\* is accepted unseen only where they are in the table.
Ready(u, v, X) ==
  /\ DOMAIN u = Fields
  /\ NonVariables(u.names) = Others(v)
  /\ u.vars = SetToSeq(X) => Sees(u.names, v, X)

\* Tokens are accepted to the last if they are names, free and different.
LEMMA AcceptedAll ==
  ASSUME NEW names, NEW tokens, Len(tokens) \in Nat,
         \A i \in 1..Len(tokens) : /\ tokens[i] \in Names
                                   /\ names[tokens[i]] = Undefined,
         \A i, j \in 1..Len(tokens) : tokens[i] = tokens[j] => i = j
  PROVE  Accepted(names, tokens) = Len(tokens)
<1> DEFINE S == {k \in 0..Len(tokens) :
                   \A i \in 1..k : /\ tokens[i] \in Names
                                   /\ names[tokens[i]] = Undefined
                                   /\ \A j \in 1..(i - 1) : tokens[j] # tokens[i]}
<1>1. Len(tokens) \in S
  <2>1. ASSUME NEW i \in 1..Len(tokens), NEW j \in 1..(i - 1)
        PROVE  tokens[j] # tokens[i]
    <3>1. j \in 1..Len(tokens) /\ j # i
      OBVIOUS
    <3>2. QED  BY <3>1
  <2>2. QED  BY <2>1
<1>2. Max(S) \in S /\ \A k \in S : k <= Max(S)
  <2>1. S \in SUBSET (0..Len(tokens)) /\ S # {}
    BY <1>1
  <2>2. QED  BY <2>1, MaxIsGreatest
<1>3. Accepted(names, tokens) = Max(S)
  BY DEF Accepted
<1>4. QED  BY <1>1, <1>2, <1>3

\* ParseVariables() of free names puts them into the table.
LEMMA VariablesSeen ==
  ASSUME NEW v, NEW u, NEW X, IsFiniteSet(X), X \subseteq Free(v), Ready(u, v, X)
  PROVE  LET w == WithVariables(u, SetToSeq(X))
         IN  /\ VarsOK(u, SetToSeq(X)) /\ DOMAIN w = Fields
             /\ w.vars = SetToSeq(X) /\ Sees(w.names, v, X)
<1> DEFINE tokens == SetToSeq(X)
           w      == WithVariables(u, tokens)
<1>1. CASE u.vars = tokens
  BY <1>1 DEF WithVariables, VarsOK, Ready
<1>2. CASE u.vars # tokens
  <2> DEFINE k        == Accepted(NonVariables(u.names), tokens)
             index(n) == {i \in 1..k : tokens[i] = n}
  <2>1. /\ Len(tokens) \in Nat
        /\ X = {tokens[i] : i \in 1..Len(tokens)}
        /\ \A i, j \in 1..Len(tokens) : tokens[i] = tokens[j] => i = j
    BY SetToSeqTyped, SetToSeqOnto
  <2>2. NonVariables(u.names) = Others(v)
    BY DEF Ready
  <2>3. k = Len(tokens)
    <3>1. \A i \in 1..Len(tokens) : tokens[i] \in Names /\ Others(v)[tokens[i]] = Undefined
      BY <2>1 DEF Free
    <3> HIDE DEF tokens
    <3>2. QED  BY <2>1, <2>2, <3>1, AcceptedAll
  <2>4. w = [u EXCEPT
              !.vars  = tokens,
              !.nvars = IF k = Len(tokens) THEN k ELSE @,
              !.names = [n \in Names |->
                           IF index(n) # {}
                           THEN [type |-> "VARIABLE", data |-> Min(index(n))]
                           ELSE NonVariables(u.names)[n]]]
    BY <1>2 DEF WithVariables
  <2> HIDE DEF k, tokens
  <2>5. /\ DOMAIN w = Fields /\ w.vars = tokens
        /\ w.names = [n \in Names |->
                        IF index(n) # {}
                        THEN [type |-> "VARIABLE", data |-> Min(index(n))]
                        ELSE NonVariables(u.names)[n]]
    BY <2>4 DEF Ready, Fields
  <2> HIDE DEF w
  <2>6. ASSUME NEW n \in Names
        PROVE  IF n \in X THEN IsVariable(w.names, n) ELSE w.names[n] = Others(v)[n]
    <3>1. CASE n \in X
      <4>1. PICK i \in 1..k : tokens[i] = n
        BY <2>1, <2>3, <3>1
      <4>2. index(n) # {} /\ index(n) \in SUBSET Nat
        BY <2>1, <2>3, <4>1
      <4>3. Min(index(n)) \in Nat
        BY <4>2, MinIsLeast
      <4>4. w.names[n] = [type |-> "VARIABLE", data |-> Min(index(n))]
        BY <2>5, <4>2
      <4>5. QED  BY <3>1, <4>3, <4>4, VariableEntry DEF IsVariable
    <3>2. CASE n \notin X
      <4>1. index(n) = {}
        BY <2>1, <2>3, <3>2
      <4>2. QED  BY <2>2, <2>5, <3>2, <4>1
    <3>3. QED  BY <3>1, <3>2
  <2>7. VarsOK(u, tokens)
    BY <2>3 DEF VarsOK, k
  <2>8. QED  BY <2>5, <2>6, <2>7 DEF Sees, w, tokens
<1>3. QED  BY <1>1, <1>2

\* Names that are not all free are refused, unless they are the string of before.
LEMMA NotAccepted ==
  ASSUME NEW v, NEW u, NEW X, IsFiniteSet(X), ~(X \subseteq Free(v)),
         NonVariables(u.names) = Others(v), u.vars # SetToSeq(X), DOMAIN u = Fields,
         NEW text, NEW c
  PROVE  LET w == Parsed(u, SetToSeq(X), text, c)
         IN  w.err = "invalid_vars" /\ StoppedAt(w, text) = 0
<1> DEFINE tokens == SetToSeq(X)
           w      == Parsed(u, tokens, text, c)
           k      == Accepted(Others(v), tokens)
<1>1. Len(tokens) \in Nat /\ X = {tokens[i] : i \in 1..Len(tokens)}
  BY SetToSeqTyped, SetToSeqOnto
<1> HIDE DEF tokens
<1>2. k # Len(tokens)
  <2>1. \A i \in 1..k : tokens[i] \in Names /\ Others(v)[tokens[i]] = Undefined
    BY <1>1, AcceptedTokens
  <2>2. QED  BY <1>1, <2>1 DEF Free
<1>3. ~VarsOK(u, tokens)
  BY <1>2 DEF VarsOK, tokens
<1>4. w = [WithVariables(u, tokens) EXCEPT !.err = "invalid_vars"]
  BY <1>3 DEF Parsed
<1>5. DOMAIN WithVariables(u, tokens) = Fields
  BY DEF WithVariables
<1> HIDE DEF w
<1>6. w.err = "invalid_vars"
  BY <1>4, <1>5 DEF Fields
<1>7. QED  BY <1>6 DEF StoppedAt, w, tokens

\* Where Parse() stops that compiled the uses before the k-th and one more.
StopsAt(err, use, k) ==
  IF \/ err = "invalid_vars"
     \/ err = "missing_parenthesis_after_function"
     \/ err = "expect_operator" /\ use.form = "call"
  THEN 0
  ELSE k + 1

\* A Parse() with variables that are free.
LEMMA ParsedWith ==
  ASSUME NEW v, NEW u, NEW X, IsFiniteSet(X), X \subseteq Free(v), Ready(u, v, X),
         NEW text \in Texts, NEW c
  PROVE  LET w   == Parsed(u, SetToSeq(X), text, c)
             k   == CompiledUses(Table(v, X), text.elems)
             use == text.elems[k + 1]
         IN  /\ DOMAIN w = Fields /\ w.vars = SetToSeq(X) /\ Sees(w.names, v, X)
             /\ k = Len(text.elems) =>
                  /\ w.err = "no_error" <=> text.tail \in {EndOfText, c}
                  /\ StoppedAt(w, text) = 0
             /\ k # Len(text.elems) =>
                  /\ w.err = UseError(Table(v, X), use)
                  /\ StoppedAt(w, text) = StopsAt(w.err, use, k)
<1> DEFINE u2  == WithVariables(u, SetToSeq(X))
           w   == Parsed(u, SetToSeq(X), text, c)
           k   == CompiledUses(Table(v, X), text.elems)
           use == text.elems[k + 1]
<1>1. /\ VarsOK(u, SetToSeq(X)) /\ DOMAIN u2 = Fields
      /\ u2.vars = SetToSeq(X) /\ Sees(u2.names, v, X)
  BY VariablesSeen
<1>2. w = WithFunctionParsed(u2, text, c)
  BY <1>1 DEF Parsed
<1>3. CompiledUses(u2.names, text.elems) = k
  BY <1>1, CompiledSame
<1>4. k \in 0..Len(text.elems) /\ Len(text.elems) \in Nat
  BY CompiledUsesStops, TextTyped
<1>5. k # Len(text.elems) => UseError(u2.names, use) = UseError(Table(v, X), use)
  <2>1. k # Len(text.elems) => k + 1 \in 1..Len(text.elems)
    BY <1>4
  <2>2. QED  BY <1>1, <2>1, SeesSame, TextTyped
<1> HIDE DEF u2, k
<1>6. /\ DOMAIN w = Fields /\ w.vars = u2.vars /\ w.names = u2.names
      /\ w.err = IF k # Len(text.elems) THEN UseError(u2.names, use)
                 ELSE IF text.tail \in {EndOfText, c} THEN "no_error"
                 ELSE "expect_operator"
  BY <1>1, <1>2, <1>3 DEF WithFunctionParsed, Fields
<1> HIDE DEF w
<1>7. StoppedAt(w, text) = IF k = Len(text.elems) THEN 0 ELSE StopsAt(w.err, use, k)
  BY <1>3, <1>6 DEF StoppedAt, StopsAt
<1>8. QED  BY <1>1, <1>5, <1>6, <1>7 DEF w, k

\* With the variables S, and no others, the text is a function.
Works(v, S, text, c) ==
  /\ IsFiniteSet(S) /\ S \subseteq Free(v)
  /\ CompiledUses(Table(v, S), text.elems) = Len(text.elems)
  /\ text.tail \in {EndOfText, c}

\* This is what DeducesVariables asks a Parse() for that starts without variables.
LEMMA EnoughWorks ==
  ASSUME NEW v, Sound(v), NEW S \in SUBSET Names, IsFiniteSet(S), NEW text \in Texts, NEW c
  PROVE  LET w == [v EXCEPT !.vars = <<>>, !.names = NonVariables(@)]
         IN  Parsed(w, SetToSeq(S), text, c).err = "no_error" <=> Works(v, S, text, c)
<1> DEFINE w == [v EXCEPT !.vars = <<>>, !.names = NonVariables(@)]
           r == Parsed(w, SetToSeq(S), text, c)
           k == CompiledUses(Table(v, S), text.elems)
<1>1. DOMAIN w = Fields /\ w.vars = <<>> /\ w.names = Others(v)
  BY DEF Sound, Fields, Others
<1> HIDE DEF w
<1>2. NonVariables(w.names) = Others(v)
  BY <1>1 DEF Others, NonVariables, IsVariable
<1>3. w.vars = SetToSeq(S) => S = {}
  <2>1. SetToSeq(S) = <<>> => Len(SetToSeq(S)) = 0
    BY EmptySeq
  <2>2. QED  BY <1>1, <2>1, SetToSeqTyped, SetToSeqOnto
<1>4. CASE S \subseteq Free(v)
  <2>1. Ready(w, v, S)
    BY <1>1, <1>2, <1>3 DEF Ready, Sees
  <2>2. /\ k = Len(text.elems) => (r.err = "no_error" <=> text.tail \in {EndOfText, c})
        /\ k # Len(text.elems) => r.err = UseError(Table(v, S), text.elems[k + 1])
    BY <1>4, <2>1, ParsedWith
  <2>3. k # Len(text.elems) => UseError(Table(v, S), text.elems[k + 1]) # "no_error"
    BY TextTyped, CompiledUsesStops
  <2>4. QED  BY <1>4, <2>2, <2>3 DEF Works, w
<1>5. CASE ~(S \subseteq Free(v))
  <2>1. r.err = "invalid_vars"
    BY <1>1, <1>2, <1>3, <1>5, NotAccepted
  <2>2. QED  BY <1>5, <2>1 DEF Works, w
<1>6. QED  BY <1>4, <1>5

\* Then every use is compiled.
LEMMA WorksCompiles ==
  ASSUME NEW v, NEW S, NEW text \in Texts, NEW c, Works(v, S, text, c),
         NEW i \in 1..Len(text.elems)
  PROVE  UseError(Table(v, S), text.elems[i]) = "no_error"
BY TextTyped, CompiledUsesStops DEF Works

\* A use that is an error with the variables X is one with any more, unless its
\* name is the first of a free variable that is not among them.
LEMMA ErrorStays ==
  ASSUME NEW v, NEW X, NEW S, X \subseteq S, S \subseteq Free(v), NEW use,
         use.name \in Names, use.form \in {"plain", "call", "unit"},
         UseError(Table(v, X), use) # "no_error",
         use.name \in Free(v) \ X => use.form = "unit"
  PROVE  UseError(Table(v, S), use) # "no_error"
<1> DEFINE n == use.name
<1>1. CASE n \in X \/ n \notin Free(v)
  <2>1. Table(v, S)[n] = Table(v, X)[n]
    BY <1>1 DEF Table
  <2>2. QED  BY <2>1 DEF UseError
<1>2. CASE n \in Free(v) \ X
  <2>1. Table(v, S)[n] = Undefined \/ Table(v, S)[n].type = "VARIABLE"
    BY <1>2 DEF Table, Free
  <2>2. QED  BY <1>2, <2>1 DEF UseError
<1>3. QED  BY <1>1, <1>2

\* A variable that is added changes nothing for uses compiled without it.
LEMMA CompiledStays ==
  ASSUME NEW v, NEW X, NEW n \in Free(v), NEW use,
         use.name \in Names, use.form \in {"plain", "call", "unit"},
         UseError(Table(v, X), use) = "no_error"
  PROVE  UseError(Table(v, X \cup {n}), use) = "no_error"
<1>1. CASE use.name \in X \/ use.name # n
  <2>1. Table(v, X \cup {n})[use.name] = Table(v, X)[use.name]
    BY <1>1 DEF Table
  <2>2. QED  BY <2>1 DEF UseError
<1>2. CASE use.name \notin X /\ use.name = n
  <2>1. Table(v, X)[n] = Undefined
    BY <1>2 DEF Table, Free
  <2>2. UseError(Table(v, X), use) \in {"unknown_identifier", "expect_operator"}
    BY <1>2, <2>1 DEF UseError
  <2>3. QED  BY <2>2
<1>3. QED  BY <1>1, <1>2

\* Variables seen in a table are the ones that the next ParseVariables() erases.
LEMMA SeenOthers ==
  ASSUME NEW v, NEW names, NEW X \in SUBSET Free(v), Sees(names, v, X)
  PROVE  NonVariables(names) = Others(v)
<1>1. ASSUME NEW n \in Names
      PROVE  NonVariables(names)[n] = Others(v)[n]
  <2>1. CASE n \in X
    BY <2>1 DEF Sees, NonVariables, Free
  <2>2. CASE n \notin X
    BY <2>2 DEF Sees, NonVariables, Others, IsVariable
  <2>3. QED  BY <2>1, <2>2
<1>2. QED  BY <1>1 DEF NonVariables, Others

(***************************************************************************)
(* The rounds.  While it is going on, each round stops at a later use than *)
(* the one before, and what it has found every set that works needs too.   *)
(***************************************************************************)
Going(r, v, text, c, k) ==
  /\ ~r.done
  /\ IsFiniteSet(r.names) /\ r.names \subseteq Free(v)
  /\ Ready(r.value, v, r.names)
  /\ r.old \in 0..Len(text.elems) /\ k <= r.old
  /\ r.old # 0 => text.elems[r.old].name \in r.names
  /\ \A i \in 1..(r.old - 1) : UseError(Table(v, r.names), text.elems[i]) = "no_error"
  /\ \A S \in SUBSET Names : Works(v, S, text, c) => r.names \subseteq S

NothingWorks(v, text, c) == \A S \in SUBSET Names : ~Works(v, S, text, c)

\* Nothing works, and the next round finds that it stops where it stopped.
Hopeless(r, v, text, c) ==
  /\ ~r.done
  /\ NothingWorks(v, text, c)
  /\ LET s == NextRound(r, text, c)
     IN  s.done /\ s.value.err # "no_error"

Finished(r, v, text, c) ==
  /\ r.done
  /\ r.value.err = "no_error" =>
       /\ Works(v, r.names, text, c)
       /\ r.value.vars = SetToSeq(r.names)
       /\ \A S \in SUBSET Names : Works(v, S, text, c) => r.names \subseteq S
  /\ r.value.err # "no_error" => NothingWorks(v, text, c)

\* The loop begins with the variables of any Vars string.
LEMMA FirstGoing ==
  ASSUME NEW v, Sound(v), NEW text \in Texts, NEW c
  PROVE  Going(FirstRound(v), v, text, c, 0)
<1> DEFINE r == FirstRound(v)
<1>1. r.value = v /\ r.names = {} /\ r.old = 0 /\ ~r.done
  BY DEF FirstRound
<1> HIDE DEF r
<1>2. IsFiniteSet({})
  BY FS_EmptySet
<1>3. ASSUME v.vars = SetToSeq({})
      PROVE  Sees(v.names, v, {})
  <2>1. Len(v.vars) = 0
    <3>1. {} = {v.vars[i] : i \in 1..Len(v.vars)} /\ Len(v.vars) \in Nat
      BY <1>2, <1>3, SetToSeqTyped, SetToSeqOnto
    <3>2. 1 \notin 1..Len(v.vars)
      BY <3>1
    <3>3. QED  BY <3>1, <3>2
  <2>2. \A n \in Names : ~IsVariable(v.names, n)
    BY <2>1 DEF Sound, VariablesStand
  <2>3. QED  BY <2>2 DEF Sees, Others, NonVariables
<1>4. Ready(v, v, {})
  BY <1>3 DEF Ready, Others, Sound
<1>5. Len(text.elems) \in Nat
  BY TextTyped
<1>6. QED  BY <1>1, <1>2, <1>4, <1>5 DEF Going, r

\* A round that stops at an error which no more variables mend comes to an end
\* or leaves that to the next.
LEMMA StopsForGood ==
  ASSUME NEW v, NEW text \in Texts, NEW c, NEW k, NEW r, Going(r, v, text, c, k),
         LET j   == CompiledUses(Table(v, r.names), text.elems)
             use == text.elems[j + 1]
         IN  /\ j # Len(text.elems)
             /\ use.name \in Free(v) \ r.names => use.form = "unit"
  PROVE  \/ Finished(NextRound(r, text, c), v, text, c)
         \/ Hopeless(NextRound(r, text, c), v, text, c)
<1> DEFINE X   == r.names
           j   == CompiledUses(Table(v, X), text.elems)
           use == text.elems[j + 1]
           n   == use.name
           w   == Parsed(r.value, SetToSeq(X), text, c)
           at  == StoppedAt(w, text)
           s   == NextRound(r, text, c)
<1>1. /\ ~r.done /\ IsFiniteSet(X) /\ X \in SUBSET Free(v) /\ Ready(r.value, v, X)
      /\ \A S \in SUBSET Names : Works(v, S, text, c) => X \subseteq S
  BY DEF Going
<1>2. /\ Len(text.elems) \in Nat /\ j \in 0..Len(text.elems) /\ j # Len(text.elems)
      /\ \A i \in 1..j : UseError(Table(v, X), text.elems[i]) = "no_error"
      /\ UseError(Table(v, X), use) # "no_error"
  BY TextTyped, CompiledUsesStops
<1>3. j + 1 \in 1..Len(text.elems) /\ n \in Names /\ use.form \in {"plain", "call", "unit"}
  <2>1. j + 1 \in 1..Len(text.elems)
    BY <1>2
  <2>2. QED  BY <2>1, TextTyped
<1>4. /\ DOMAIN w = Fields /\ w.vars = SetToSeq(X) /\ Sees(w.names, v, X)
      /\ w.err = UseError(Table(v, X), use) /\ at = StopsAt(w.err, use, j)
  BY <1>1, <1>2, ParsedWith
<1>5. NothingWorks(v, text, c)
  <2>1. SUFFICES ASSUME NEW S \in SUBSET Names, Works(v, S, text, c)
                 PROVE  FALSE
    BY DEF NothingWorks
  <2>2. X \subseteq S /\ S \subseteq Free(v)
    BY <1>1, <2>1 DEF Works
  <2>3. UseError(Table(v, S), use) # "no_error"
    BY <1>2, <1>3, <2>2, ErrorStays
  <2>4. QED  BY <1>3, <2>1, <2>3, WorksCompiles
<1>6. s = IF at \in {0, r.old}
          THEN [value |-> w, names |-> X, old |-> r.old, done |-> TRUE]
          ELSE [value |-> w, names |-> X \cup {text.elems[at].name}, old |-> at, done |-> FALSE]
  BY <1>1 DEF NextRound
<1> HIDE DEF s, w, at, j
<1>7. CASE at \in {0, r.old}
  <2>1. s.done /\ s.value = w
    BY <1>6, <1>7
  <2>2. w.err # "no_error"
    BY <1>2, <1>4
  <2>3. QED  BY <1>5, <2>1, <2>2 DEF Finished, s
<1>8. CASE at \notin {0, r.old}
  <2> DEFINE Y == X \cup {n}
             t == NextRound(s, text, c)
             z == Parsed(w, SetToSeq(Y), text, c)
  <2>1. at = j + 1
    BY <1>4, <1>8 DEF StopsAt
  <2>2. s = [value |-> w, names |-> Y, old |-> j + 1, done |-> FALSE]
    BY <1>6, <1>8, <2>1
  <2>3. IsFiniteSet(Y)
    BY <1>1, FS_AddElement
  <2>4. NonVariables(w.names) = Others(v)
    BY <1>1, <1>4, SeenOthers
  <2>5. w.vars = SetToSeq(Y) => X = Y
    <3> HIDE DEF Y
    <3>1. ToSet(SetToSeq(X)) = X /\ ToSet(SetToSeq(Y)) = Y
      BY <1>1, <2>3, SetToSeqOnto
    <3>2. QED  BY <1>4, <3>1
  <2>6. StoppedAt(z, text) \in {0, j + 1} /\ z.err # "no_error"
    <3>1. CASE n \notin Free(v)
      <4>1. ~(Y \subseteq Free(v)) /\ X # Y
        BY <1>1, <3>1
      <4> HIDE DEF Y
      <4>2. z.err = "invalid_vars" /\ StoppedAt(z, text) = 0
        BY <1>4, <2>3, <2>4, <2>5, <4>1, NotAccepted
      <4>3. QED  BY <4>2
    <3>2. CASE n \in Free(v)
      <4>1. use.form = "unit"
        <5>1. SUFFICES ASSUME n \in X, use.form # "unit"
                       PROVE  FALSE
          BY <3>2 DEF j
        <5>2. Table(v, X)[n] # Undefined /\ Table(v, X)[n].type = "VARIABLE"
          BY <1>3, <5>1, VariableEntry DEF Table
        <5>3. UseError(Table(v, X), use) = IF use.form = "plain" THEN "no_error"
                                                                 ELSE "expect_operator"
          BY <5>1, <5>2 DEF UseError
        <5>4. use.form = "call" /\ w.err = "expect_operator"
          BY <1>2, <1>3, <1>4, <5>1, <5>3
        <5>5. QED  BY <1>4, <1>8, <5>4 DEF StopsAt
      <4>2. Y \subseteq Free(v)
        BY <1>1, <3>2
      <4>3. Ready(w, v, Y)
        BY <1>4, <2>4, <2>5 DEF Ready
      <4>4. \A i \in 1..j : UseError(Table(v, Y), text.elems[i]) = "no_error"
        <5>1. ASSUME NEW i \in 1..j
              PROVE  UseError(Table(v, Y), text.elems[i]) = "no_error"
          <6>1. i \in 1..Len(text.elems)
            BY <1>2
          <6>2. QED  BY <1>2, <3>2, <6>1, TextTyped, CompiledStays
        <5>2. QED  BY <5>1
      <4>5. Table(v, Y)[n] # Undefined /\ Table(v, Y)[n].type = "VARIABLE"
        BY <1>3, VariableEntry DEF Table
      <4>6. UseError(Table(v, Y), use) = "expect_operator"
        BY <4>1, <4>5 DEF UseError
      <4> HIDE DEF Y
      <4>7. CompiledUses(Table(v, Y), text.elems) = j
        BY <1>2, <4>4, <4>6, CompiledUsesIs
      <4>8. z.err = "expect_operator" /\ StoppedAt(z, text) = StopsAt(z.err, use, j)
        BY <1>2, <2>3, <4>2, <4>3, <4>6, <4>7, ParsedWith
      <4>9. QED  BY <4>1, <4>8 DEF StopsAt
    <3>3. QED  BY <3>1, <3>2
  <2>7. s.value = w /\ s.names = Y /\ s.old = j + 1 /\ ~s.done
    BY <2>2
  <2> HIDE DEF Y
  <2>8. t = [value |-> z, names |-> Y, old |-> j + 1, done |-> TRUE]
    BY <2>6, <2>7 DEF NextRound
  <2>9. t.done /\ t.value.err # "no_error"
    BY <2>6, <2>8
  <2> HIDE DEF t
  <2>10. QED  BY <1>5, <2>7, <2>9 DEF Hopeless, t, s
<1>9. QED  BY <1>7, <1>8

\* A round that stops at a name which may become a variable takes it for one.
LEMMA StopsAtVariable ==
  ASSUME NEW v, NEW text \in Texts, NEW c, NEW k \in Nat, NEW r, Going(r, v, text, c, k),
         LET j   == CompiledUses(Table(v, r.names), text.elems)
             use == text.elems[j + 1]
         IN  /\ j # Len(text.elems)
             /\ use.name \in Free(v) \ r.names /\ use.form # "unit"
  PROVE  Going(NextRound(r, text, c), v, text, c, k + 1)
<1> DEFINE X   == r.names
           j   == CompiledUses(Table(v, X), text.elems)
           use == text.elems[j + 1]
           n   == use.name
           Y   == X \cup {n}
           w   == Parsed(r.value, SetToSeq(X), text, c)
           at  == StoppedAt(w, text)
           s   == NextRound(r, text, c)
<1>1. /\ ~r.done /\ IsFiniteSet(X) /\ X \in SUBSET Free(v) /\ Ready(r.value, v, X)
      /\ r.old \in 0..Len(text.elems) /\ k <= r.old
      /\ r.old # 0 => text.elems[r.old].name \in X
      /\ \A i \in 1..(r.old - 1) : UseError(Table(v, X), text.elems[i]) = "no_error"
      /\ \A S \in SUBSET Names : Works(v, S, text, c) => X \subseteq S
  BY DEF Going
<1>2. /\ Len(text.elems) \in Nat /\ j \in 0..Len(text.elems) /\ j # Len(text.elems)
      /\ \A i \in 1..j : UseError(Table(v, X), text.elems[i]) = "no_error"
      /\ UseError(Table(v, X), use) # "no_error"
      /\ n \in Free(v) \ X /\ use.form # "unit"
  BY TextTyped, CompiledUsesStops
<1>3. j + 1 \in 1..Len(text.elems) /\ n \in Names /\ use.form \in {"plain", "call", "unit"}
  <2>1. j + 1 \in 1..Len(text.elems)
    BY <1>2
  <2>2. QED  BY <2>1, TextTyped
<1>4. /\ DOMAIN w = Fields /\ w.vars = SetToSeq(X) /\ Sees(w.names, v, X)
      /\ w.err = UseError(Table(v, X), use) /\ at = StopsAt(w.err, use, j)
  BY <1>1, <1>2, ParsedWith
<1> HIDE DEF w, at, j
<1>5. w.err = "unknown_identifier"
  <2>1. Table(v, X)[n] = Undefined
    BY <1>2, <1>3 DEF Table, Free
  <2>2. QED  BY <1>2, <1>4, <2>1 DEF UseError
<1>6. at = j + 1
  BY <1>4, <1>5 DEF StopsAt
<1>7. r.old < j + 1
  <2>1. r.old # j + 1
    BY <1>1, <1>2
  <2>2. ~(j + 1 < r.old)
    <3>1. j + 1 < r.old => j + 1 \in 1..(r.old - 1)
      BY <1>1, <1>2
    <3>2. QED  BY <1>1, <1>2, <3>1
  <2>3. QED  BY <1>1, <1>2, <2>1, <2>2
<1>8. s = [value |-> w, names |-> Y, old |-> j + 1, done |-> FALSE]
  <2>1. at \notin {0, r.old}
    BY <1>1, <1>2, <1>6, <1>7
  <2>2. QED  BY <1>1, <1>6, <2>1 DEF NextRound, w, at
<1>9. s.value = w /\ s.names = Y /\ s.old = j + 1 /\ ~s.done
  BY <1>8
<1> HIDE DEF s
<1>10. IsFiniteSet(Y) /\ Y \subseteq Free(v) /\ n \in Y
  BY <1>1, <1>2, FS_AddElement
<1>11. Ready(w, v, Y)
  <2>1. NonVariables(w.names) = Others(v)
    BY <1>1, <1>4, SeenOthers
  <2>2. w.vars # SetToSeq(Y)
    BY <1>1, <1>2, <1>4, <1>10, SetToSeqOnto
  <2>3. QED  BY <1>4, <2>1, <2>2 DEF Ready
<1>12. \A i \in 1..j : UseError(Table(v, Y), text.elems[i]) = "no_error"
  <2>1. ASSUME NEW i \in 1..j
        PROVE  UseError(Table(v, Y), text.elems[i]) = "no_error"
    <3>1. i \in 1..Len(text.elems)
      BY <1>2
    <3>2. /\ text.elems[i].name \in Names
          /\ text.elems[i].form \in {"plain", "call", "unit"}
          /\ UseError(Table(v, X), text.elems[i]) = "no_error"
      BY <1>2, <3>1, TextTyped
    <3>3. n \in Free(v)
      BY <1>2
    <3> HIDE DEF n
    <3>4. QED  BY <3>2, <3>3, CompiledStays
  <2>2. QED  BY <2>1
<1>13. ASSUME NEW S \in SUBSET Names, Works(v, S, text, c)
       PROVE  Y \subseteq S
  <2>1. UseError(Table(v, S), use) = "no_error"
    BY <1>3, <1>13, WorksCompiles
  <2>2. ASSUME n \notin S
        PROVE  FALSE
    <3>1. Table(v, S)[n] = Undefined
      BY <1>2, <1>3, <2>2 DEF Table, Free
    <3>2. UseError(Table(v, S), use) = "unknown_identifier"
      BY <1>2, <3>1 DEF UseError
    <3>3. QED  BY <2>1, <3>2
  <2>3. QED  BY <1>1, <1>13, <2>2
<1> HIDE DEF Y
<1>14. /\ s.old \in 0..Len(text.elems) /\ k + 1 <= s.old /\ s.old - 1 = j
       /\ text.elems[s.old].name \in Y
  BY <1>1, <1>2, <1>3, <1>7, <1>9, <1>10
<1>15. QED  BY <1>9, <1>10, <1>11, <1>12, <1>13, <1>14 DEF Going, s

\* A round that compiles everything is the last one.
LEMMA StopsAtEnd ==
  ASSUME NEW v, NEW text \in Texts, NEW c, NEW k, NEW r, Going(r, v, text, c, k),
         CompiledUses(Table(v, r.names), text.elems) = Len(text.elems)
  PROVE  Finished(NextRound(r, text, c), v, text, c)
<1> DEFINE X == r.names
           w == Parsed(r.value, SetToSeq(X), text, c)
           s == NextRound(r, text, c)
<1>1. /\ ~r.done /\ IsFiniteSet(X) /\ X \subseteq Free(v) /\ Ready(r.value, v, X)
      /\ \A S \in SUBSET Names : Works(v, S, text, c) => X \subseteq S
  BY DEF Going
<1>2. /\ w.vars = SetToSeq(X) /\ StoppedAt(w, text) = 0
      /\ w.err = "no_error" <=> text.tail \in {EndOfText, c}
  BY <1>1, ParsedWith
<1>3. s = [value |-> w, names |-> X, old |-> r.old, done |-> TRUE]
  BY <1>1, <1>2 DEF NextRound
<1> HIDE DEF w
<1>4. s.value = w /\ s.names = X /\ s.done
  BY <1>3
<1> HIDE DEF s
<1>5. w.err = "no_error" => Works(v, X, text, c)
  BY <1>1, <1>2 DEF Works
<1>6. w.err # "no_error" => NothingWorks(v, text, c)
  BY <1>2 DEF NothingWorks, Works
<1>7. QED  BY <1>1, <1>2, <1>4, <1>5, <1>6 DEF Finished, s

\* The loop ends, with a function if some variables make the text one, and then
\* with the fewest.
LEMMA DeductionFinishes ==
  ASSUME NEW v, Sound(v), NEW text \in Texts, NEW c
  PROVE  Finished(Deduction(v, text, c), v, text, c)
<1> DEFINE L == Len(text.elems)
           N == DeductionRounds(text)
           R == Rounds(v, text, c)
           P == {k \in 0..N : \/ Going(R[k], v, text, c, k)
                              \/ k <= L + 1 /\ Hopeless(R[k], v, text, c)
                              \/ Finished(R[k], v, text, c)}
<1>1. L \in Nat /\ N = L + 2
  BY TextTyped DEF DeductionRounds
<1>2. R[0] = FirstRound(v) /\ \A k \in 1..N : R[k] = NextRound(R[k - 1], text, c)
  BY <1>1, RoundsDefined
<1> HIDE DEF R, N
<1>3. 0 \in P
  BY <1>1, <1>2, FirstGoing
<1>4. ASSUME NEW k \in P, k < N
      PROVE  k + 1 \in P
  <2> DEFINE r == R[k]
             s == NextRound(r, text, c)
  <2>1. k \in Nat /\ k + 1 \in 0..N /\ R[k + 1] = s
    <3>1. k \in 0..N
      OBVIOUS
    <3>2. k + 1 \in 1..N /\ (k + 1) - 1 = k
      BY <1>1, <1>4, <3>1
    <3>3. QED  BY <1>2, <3>1, <3>2
  <2>2. CASE Going(r, v, text, c, k)
    <3> DEFINE X   == r.names
               j   == CompiledUses(Table(v, X), text.elems)
               use == text.elems[j + 1]
    <3>1. k <= L
      BY <1>1, <2>1, <2>2 DEF Going
    <3>2. CASE j = L
      BY <2>1, <2>2, <3>2, StopsAtEnd
    <3>3. CASE j # L /\ use.name \in Free(v) \ X /\ use.form # "unit"
      BY <2>1, <2>2, <3>3, StopsAtVariable
    <3>4. CASE j # L /\ (use.name \in Free(v) \ X => use.form = "unit")
      <4>1. Finished(s, v, text, c) \/ Hopeless(s, v, text, c)
        BY <2>2, <3>4, StopsForGood
      <4>2. k + 1 <= L + 1
        BY <1>1, <2>1, <3>1
      <4>3. QED  BY <2>1, <4>1, <4>2
    <3>5. QED  BY <3>2, <3>3, <3>4
  <2>3. CASE Hopeless(r, v, text, c)
    <3>1. Finished(s, v, text, c)
      BY <2>3 DEF Hopeless, Finished
    <3>2. QED  BY <2>1, <3>1
  <2>4. CASE Finished(r, v, text, c)
    <3>1. s = r
      BY <2>4 DEF Finished, NextRound
    <3>2. QED  BY <2>1, <2>4, <3>1
  <2>5. QED  BY <2>2, <2>3, <2>4
<1>5. N \in P
  <2>1. ASSUME NEW k \in 1..N, k - 1 \in P
        PROVE  k \in P
    <3>1. k - 1 < N /\ (k - 1) + 1 = k
      BY <1>1
    <3> HIDE DEF P
    <3>2. QED  BY <1>4, <2>1, <3>1
  <2> HIDE DEF P
  <2>2. N \in Nat /\ N \in 0..N
    BY <1>1
  <2>3. \A k \in 0..N : k \in P
    BY <1>3, <2>1, <2>2, Induction
  <2>4. QED  BY <2>2, <2>3
<1>6. ~Going(R[N], v, text, c, N) /\ ~(N <= L + 1)
  BY <1>1 DEF Going
<1>7. Finished(R[N], v, text, c)
  BY <1>5, <1>6
<1>8. QED  BY <1>7 DEF Deduction, R, N

(***************************************************************************)
(* What the objects and their Data hold.                                   *)
(***************************************************************************)

\* The objects whose mData is d, in a state where mData is f.
Users(f, d) == {p \in Parsers : f[p] = d}

\* A step that makes object p, which pointed elsewhere, point to e.
Moves(p, e) == data[p] # e /\ data' = [data EXCEPT ![p] = e]

\* The counts of the block that p leaves and of the block it takes follow.
Recounts(p, e) ==
  /\ refs' \in [Blocks -> Int]
  /\ \A d \in Blocks : refs'[d] = IF d = e THEN refs[d] + 1
                                  ELSE IF d = data[p] THEN refs[d] - 1
                                  ELSE refs[d]

DelimOK == delim \in [Blocks -> Delimiters \cup {NoDelimiter}]

Counted == PointersOK /\ RefCountsExact

IInv == Counted /\ DOMAIN body = Blocks

(***************************************************************************)
(* Counting.                                                               *)
(***************************************************************************)

\* The number of objects with one block is a natural number.
LEMMA UsersFinite ==
  ASSUME NEW f, NEW d
  PROVE  IsFiniteSet(Users(f, d)) /\ Cardinality(Users(f, d)) \in Nat
BY ParsersAssumption, FS_Subset, FS_CardinalityType DEF Users

\* Setting one pointer moves one user from the block it pointed to, if any, to
\* the block it points to now, if any.
LEMMA UsersMove ==
  ASSUME data \in [Parsers -> Blocks \cup {NoBlock}],
         NEW p \in Parsers, NEW e \in Blocks \cup {NoBlock}, Moves(p, e),
         NEW d \in Blocks
  PROVE  Cardinality(Users(data', d)) =
           IF d = e THEN Cardinality(Users(data, d)) + 1
           ELSE IF d = data[p] THEN Cardinality(Users(data, d)) - 1
           ELSE Cardinality(Users(data, d))
<1>1. CASE d = e
  <2>1. Users(data', d) = Users(data, d) \cup {p} /\ p \notin Users(data, d)
    BY <1>1 DEF Users, Moves
  <2>2. Cardinality(Users(data', d)) = Cardinality(Users(data, d)) + 1
    BY <2>1, UsersFinite, FS_AddElement
  <2>3. QED  BY <2>2, <1>1
<1>2. CASE d # e /\ d = data[p]
  <2>1. Users(data', d) = Users(data, d) \ {p} /\ p \in Users(data, d)
    BY <1>2 DEF Users, Moves
  <2>2. Cardinality(Users(data', d)) = Cardinality(Users(data, d)) - 1
    BY <2>1, UsersFinite, FS_RemoveElement
  <2>3. QED  BY <2>2, <1>2
<1>3. CASE d # e /\ d # data[p]
  <2>1. Users(data', d) = Users(data, d)
    BY <1>3 DEF Users, Moves
  <2>2. QED  BY <2>1, <1>3
<1>4. QED  BY <1>1, <1>2, <1>3

\* A block whose count is 0 has no user; one whose count is 1 has no other.
LEMMA CountsTell ==
  ASSUME Counted, NEW p \in Parsers, NEW d \in Blocks
  PROVE  /\ data[p] = d => refs[d] >= 1
         /\ \A q \in Parsers : data[p] = d /\ data[q] = d /\ refs[d] = 1 => q = p
<1>1. refs[d] = Cardinality(Users(data, d)) /\ refs[d] \in Nat
  BY DEF Counted, RefCountsExact, Users, PointersOK
<1>2. ASSUME data[p] = d
      PROVE  refs[d] >= 1
  <2>1. Users(data, d) # {}
    BY <1>2 DEF Users
  <2>2. QED  BY <2>1, <1>1, UsersFinite, FS_EmptySet
<1>3. ASSUME NEW q \in Parsers, data[p] = d, data[q] = d, refs[d] = 1
      PROVE  q = p
  <2>1. p \in Users(data, d) /\ q \in Users(data, d)
    BY <1>3 DEF Users, Moves
  <2>2. PICK r : Users(data, d) = {r}
    BY <1>1, <1>3, UsersFinite, FS_Singleton
  <2>3. QED  BY <2>1, <2>2
<1>4. QED  BY <1>2, <1>3

\* The counts stay exact when one pointer is set and the counts of the block it
\* leaves and of the block it takes are adjusted.
LEMMA PointerSet ==
  ASSUME Counted, NEW p \in Parsers, NEW e \in Blocks \cup {NoBlock}, Moves(p, e),
         Recounts(p, e), DelimOK'
  PROVE  Counted'
<1>1. data \in [Parsers -> Blocks \cup {NoBlock}]
  BY DEF Counted, PointersOK
<1>2. \A d \in Blocks : refs'[d] = Cardinality(Users(data', d))
  <2>1. SUFFICES ASSUME NEW d \in Blocks
                 PROVE  refs'[d] = Cardinality(Users(data', d))
    OBVIOUS
  <2>2. refs[d] = Cardinality(Users(data, d))
    BY DEF Counted, RefCountsExact, Users
  <2>3. Cardinality(Users(data', d)) =
          IF d = e THEN Cardinality(Users(data, d)) + 1
          ELSE IF d = data[p] THEN Cardinality(Users(data, d)) - 1
          ELSE Cardinality(Users(data, d))
    BY <1>1, UsersMove
  <2>4. QED  BY <2>2, <2>3 DEF Recounts
<1>3. refs' \in [Blocks -> Nat]
  BY <1>2, UsersFinite DEF Recounts
<1>4. QED  BY <1>1, <1>2, <1>3 DEF Counted, Moves, DelimOK, PointersOK, RefCountsExact, Users

(***************************************************************************)
(* Copy-on-write.                                                          *)
(***************************************************************************)

\* The block that CopyOnWrite() gives to p is p's alone.
LEMMA CopyOnWriteIsolates ==
  ASSUME Counted, NEW p \in Live, NEW d \in Blocks, CopyOnWrite(p, d)
  PROVE  /\ Counted'
         /\ data'[p] = d
         /\ \A q \in Parsers \ {p} : data'[q] = data[q] /\ data[q] # d
<1>1. /\ data \in [Parsers -> Blocks \cup {NoBlock}]
      /\ refs \in [Blocks -> Nat]
      /\ delim \in [Blocks -> Delimiters \cup {NoDelimiter}]
      /\ p \in Parsers /\ data[p] \in Blocks
  BY DEF Counted, PointersOK, Live
<1>2. /\ data' = [data EXCEPT ![p] = d]
      /\ delim' = [delim EXCEPT ![d] = delim[data[p]]]
      /\ refs' = IF d = data[p] THEN refs
                 ELSE [refs EXCEPT ![data[p]] = @ - 1, ![d] = 1]
  BY DEF CopyOnWrite
<1>3. DelimOK'
  BY <1>1, <1>2 DEF DelimOK
<1>4. CASE d = data[p]
  <2>1. data' = data /\ refs' = refs
    BY <1>1, <1>2, <1>4
  <2>2. Counted'
    BY <1>3, <2>1 DEF DelimOK, Counted, PointersOK, RefCountsExact
  <2>3. refs[d] = 1
    <3>1. refs[d] >= 1
      BY <1>1, <1>4, CountsTell
    <3>2. ~(refs[d] > 1)
      BY <1>1, <1>4 DEF CopyOnWrite, Allocated
    <3>3. QED  BY <1>1, <3>1, <3>2
  <2>4. \A q \in Parsers \ {p} : data[q] # d
    BY <1>1, <1>4, <2>3, CountsTell
  <2>5. QED  BY <1>4, <2>1, <2>2, <2>4
<1>5. CASE d # data[p]
  <2>1. refs[d] = 0
    BY <1>1, <1>5 DEF CopyOnWrite, Allocated
  <2>2. Moves(p, d)
    BY <1>2, <1>5 DEF Moves
  <2>3. refs' = [refs EXCEPT ![data[p]] = @ - 1, ![d] = 1]
    BY <1>2, <1>5
  <2>4. Recounts(p, d)
    <3>1. refs' \in [Blocks -> Int]
      BY <1>1, <2>3
    <3>2. \A c \in Blocks : refs'[c] = IF c = d THEN refs[c] + 1
                                     ELSE IF c = data[p] THEN refs[c] - 1
                                     ELSE refs[c]
      BY <1>1, <1>5, <2>1, <2>3
    <3>3. QED  BY <3>1, <3>2 DEF Recounts
  <2>5. Counted'
    BY <1>1, <1>3, <2>2, <2>4, PointerSet
  <2>6. \A q \in Parsers : data[q] # d
    <3>1. SUFFICES ASSUME NEW q \in Parsers, data[q] = d
                   PROVE  FALSE
      OBVIOUS
    <3>2. QED  BY <2>1, <3>1, CountsTell
  <2>7. QED  BY <1>1, <1>2, <2>5, <2>6
<1>6. QED  BY <1>4, <1>5

\* A call that leaves v in the block that CopyOnWrite() gives to p.
Writes(p, v) ==
  /\ p \in Live
  /\ \E d \in Blocks : CopyOnWrite(p, d) /\ body' = [body EXCEPT ![d] = v]

\* Such a call makes v the value of p, and changes the value of no other object.
LEMMA WritesValue ==
  ASSUME IInv, NEW p \in Parsers, NEW v, Writes(p, v)
  PROVE  /\ IInv'
         /\ Live' = Live
         /\ Val' = [Val EXCEPT ![p] = v]
<1>1. PICK d \in Blocks : CopyOnWrite(p, d) /\ body' = [body EXCEPT ![d] = v]
  BY DEF Writes
<1>2. p \in Live /\ Counted /\ DOMAIN body = Blocks
  BY DEF Writes, IInv
<1>3. /\ Counted'
      /\ data'[p] = d
      /\ \A q \in Parsers \ {p} : data'[q] = data[q] /\ data[q] # d
  BY <1>1, <1>2, CopyOnWriteIsolates
<1>4. IInv'
  BY <1>1, <1>2, <1>3 DEF IInv
<1>5. Live' = Live
  BY <1>2, <1>3, BlocksAssumption DEF Live
<1>6. Val' = [Val EXCEPT ![p] = v]
  <2>1. ASSUME NEW q \in Parsers
        PROVE  Val'[q] = IF q = p THEN v ELSE Val[q]
    <3>1. CASE q = p
      BY <1>1, <1>2, <1>3, <1>5, <3>1 DEF Val
    <3>2. CASE q # p
      <4>1. q \in Live => data[q] \in Blocks
        BY <1>2 DEF Live, Counted, PointersOK
      <4>2. QED  BY <1>1, <1>2, <1>3, <1>5, <3>2, <4>1 DEF Val
    <3>3. QED  BY <3>1, <3>2
  <2>2. QED  BY <2>1 DEF Val
<1>7. QED  BY <1>4, <1>5, <1>6

(***************************************************************************)
(* Objects come, are copied, and go.                                       *)
(***************************************************************************)

\* What the pointers and the counts are in every step.
LEMMA Typing ==
  ASSUME IInv
  PROVE  /\ Counted
         /\ DOMAIN body = Blocks
         /\ data \in [Parsers -> Blocks \cup {NoBlock}]
         /\ refs \in [Blocks -> Nat]
         /\ delim \in [Blocks -> Delimiters \cup {NoDelimiter}]
         /\ \A p \in Live : p \in Parsers /\ data[p] \in Blocks
BY DEF IInv, Counted, PointersOK, Live

\* The body of a block changes in Unreference() only where no object remains.
LEMMA UnreferenceKeeps ==
  ASSUME IInv, NEW p \in Live, Unreference(data[p])
  PROVE  /\ DOMAIN body' = Blocks
         /\ DelimOK'
         /\ \A q \in Live \ {p} : body'[data[q]] = body[data[q]]
<1>1. CASE refs[data[p]] = 1
  <2>1. /\ body' = [body EXCEPT ![data[p]] = NewValue]
        /\ delim' = [delim EXCEPT ![data[p]] = NoDelimiter]
    BY <1>1 DEF Unreference
  <2>2. ASSUME NEW q \in Live \ {p}
        PROVE  data[q] # data[p]
    BY <1>1, Typing, CountsTell
  <2>3. DOMAIN body' = Blocks /\ DelimOK'
    BY <2>1, Typing DEF DelimOK
  <2>4. ASSUME NEW q \in Live \ {p}
        PROVE  body'[data[q]] = body[data[q]]
    BY <2>1, <2>2, Typing
  <2>5. QED  BY <2>3, <2>4
<1>2. CASE refs[data[p]] # 1
  BY <1>2, Typing DEF Unreference, DelimOK
<1>3. QED  BY <1>1, <1>2

\* The constructor takes an unused block for the new object's value.
LEMMA ConstructStep ==
  ASSUME IInv, NEW p \in Parsers, Construct(p)
  PROVE  IInv' /\ Copies!Create(p)
<1>1. PICK d \in Blocks \ Allocated :
        /\ data' = [data EXCEPT ![p] = d]
        /\ refs' = [refs EXCEPT ![d] = 1]
        /\ body' = [body EXCEPT ![d] = NewValue]
        /\ delim' = [delim EXCEPT ![d] = NoDelimiter]
  BY DEF Construct
<1>2. data[p] = NoBlock /\ d # NoBlock /\ refs[d] = 0
  BY Typing, BlocksAssumption DEF Construct, Allocated
<1>3. Moves(p, d)
  BY <1>1, <1>2 DEF Moves
<1>4. Recounts(p, d)
  <2>1. refs' \in [Blocks -> Int]
    BY <1>1, Typing
  <2>2. \A c \in Blocks : refs'[c] = IF c = d THEN refs[c] + 1
                                   ELSE IF c = data[p] THEN refs[c] - 1
                                   ELSE refs[c]
    BY <1>1, <1>2, Typing, BlocksAssumption
  <2>3. QED  BY <2>1, <2>2 DEF Recounts
<1>5. DelimOK'
  BY <1>1, Typing DEF DelimOK
<1>6. Counted'
  BY <1>3, <1>4, <1>5, Typing, PointerSet
<1>7. IInv'
  BY <1>1, <1>6, Typing DEF IInv
<1>8. p \notin Live /\ Live' = Live \cup {p}
  BY <1>1, <1>2, Typing DEF Live
<1>9. Val' = [Val EXCEPT ![p] = NewValue]
  <2>1. ASSUME NEW q \in Parsers
        PROVE  Val'[q] = IF q = p THEN NewValue ELSE Val[q]
    <3>1. CASE q = p
      BY <1>1, <1>8, <3>1, Typing DEF Val
    <3>2. CASE q # p
      <4>1. data[q] # d
        BY <1>2, Typing, CountsTell
      <4>2. data'[q] = data[q] /\ (q \in Live' <=> q \in Live)
        BY <1>1, <1>8, <3>2, Typing
      <4>3. q \in Live => body'[data[q]] = body[data[q]]
        BY <1>1, <4>1, Typing
      <4>4. QED  BY <3>2, <4>2, <4>3 DEF Val
    <3>3. QED  BY <3>1, <3>2
  <2>2. QED  BY <2>1 DEF Val
<1>10. QED  BY <1>7, <1>8, <1>9 DEF Copies!Create, Copies!Becomes

\* A copy shares the block of the object that it is made from.
LEMMA CopyConstructStep ==
  ASSUME IInv, NEW p \in Parsers, NEW q \in Parsers, CopyConstruct(p, q)
  PROVE  IInv' /\ Copies!Copy(p, q)
<1>1. /\ data[p] = NoBlock /\ q \in Live /\ data[q] \in Blocks
      /\ data' = [data EXCEPT ![p] = data[q]]
      /\ refs' = [refs EXCEPT ![data[q]] = @ + 1]
      /\ body' = body /\ delim' = delim
  BY Typing DEF CopyConstruct
<1>2. Moves(p, data[q])
  BY <1>1, BlocksAssumption DEF Moves
<1>3. Recounts(p, data[q])
  <2>1. refs' \in [Blocks -> Int]
    BY <1>1, Typing
  <2>2. \A c \in Blocks : refs'[c] = IF c = data[q] THEN refs[c] + 1
                                   ELSE IF c = data[p] THEN refs[c] - 1
                                   ELSE refs[c]
    BY <1>1, Typing, BlocksAssumption
  <2>3. QED  BY <2>1, <2>2 DEF Recounts
<1>4. DelimOK'
  BY <1>1, Typing DEF DelimOK
<1>5. Counted'
  BY <1>1, <1>2, <1>3, <1>4, Typing, PointerSet
<1>6. IInv'
  BY <1>1, <1>5, Typing DEF IInv
<1>7. Live' = Live \cup {p}
  BY <1>1, Typing, BlocksAssumption DEF Live
<1>8. Val' = [Val EXCEPT ![p] = Val[q]]
  BY <1>1, <1>7, Typing DEF Val
<1>9. QED  BY <1>1, <1>6, <1>7, <1>8 DEF Copies!Copy, Copies!Becomes

\* An assignment leaves one block for another; deletes the one that nobody is left in.
LEMMA AssignStep ==
  ASSUME IInv, NEW p \in Parsers, NEW q \in Parsers, Assign(p, q)
  PROVE  IInv' /\ Copies!Copy(p, q)
<1>1. /\ p \in Live /\ data[p] \in Blocks
      /\ q \in Live /\ data[q] \in Blocks
      /\ data[p] # data[q]
      /\ data' = [data EXCEPT ![p] = data[q]]
      /\ refs' = [refs EXCEPT ![data[p]] = @ - 1, ![data[q]] = @ + 1]
      /\ Unreference(data[p])
  BY Typing DEF Assign
<1>2. Moves(p, data[q])
  BY <1>1 DEF Moves
<1>3. Recounts(p, data[q])
  <2>1. refs' \in [Blocks -> Int]
    BY <1>1, Typing
  <2>2. \A c \in Blocks : refs'[c] = IF c = data[q] THEN refs[c] + 1
                                   ELSE IF c = data[p] THEN refs[c] - 1
                                   ELSE refs[c]
    BY <1>1, Typing
  <2>3. QED  BY <2>1, <2>2 DEF Recounts
<1>4. /\ DOMAIN body' = Blocks
      /\ DelimOK'
      /\ \A r \in Live \ {p} : body'[data[r]] = body[data[r]]
  BY <1>1, UnreferenceKeeps
<1>5. Counted'
  BY <1>1, <1>2, <1>3, <1>4, Typing, PointerSet
<1>6. IInv'
  BY <1>4, <1>5 DEF IInv
<1>7. Live' = Live
  BY <1>1, Typing, BlocksAssumption DEF Live
<1>8. Val' = [Val EXCEPT ![p] = Val[q]]
  <2>1. ASSUME NEW r \in Parsers
        PROVE  Val'[r] = IF r = p THEN Val[q] ELSE Val[r]
    <3>1. CASE r = p
      BY <1>1, <1>4, <1>7, <3>1, Typing DEF Val
    <3>2. CASE r # p
      BY <1>1, <1>4, <1>7, <3>2, Typing DEF Val
    <3>3. QED  BY <3>1, <3>2
  <2>2. QED  BY <2>1 DEF Val
<1>9. Live' = Live \cup {p}
  BY <1>1, <1>7
<1>10. QED  BY <1>1, <1>6, <1>8, <1>9 DEF Copies!Copy, Copies!Becomes

\* A destroyed object leaves its block to those who share it.
LEMMA DestroyStep ==
  ASSUME IInv, NEW p \in Parsers, Destroy(p)
  PROVE  IInv' /\ Copies!Delete(p)
<1>1. /\ p \in Live /\ data[p] \in Blocks
      /\ data' = [data EXCEPT ![p] = NoBlock]
      /\ refs' = [refs EXCEPT ![data[p]] = @ - 1]
      /\ Unreference(data[p])
  BY Typing DEF Destroy
<1>2. Moves(p, NoBlock)
  BY <1>1, BlocksAssumption DEF Moves
<1>3. Recounts(p, NoBlock)
  <2>1. refs' \in [Blocks -> Int]
    BY <1>1, Typing
  <2>2. \A c \in Blocks : refs'[c] = IF c = NoBlock THEN refs[c] + 1
                                   ELSE IF c = data[p] THEN refs[c] - 1
                                   ELSE refs[c]
    BY <1>1, Typing, BlocksAssumption
  <2>3. QED  BY <2>1, <2>2 DEF Recounts
<1>4. /\ DOMAIN body' = Blocks
      /\ DelimOK'
      /\ \A r \in Live \ {p} : body'[data[r]] = body[data[r]]
  BY <1>1, UnreferenceKeeps
<1>5. Counted'
  BY <1>1, <1>2, <1>3, <1>4, Typing, PointerSet
<1>6. IInv'
  BY <1>4, <1>5 DEF IInv
<1>7. Live' = Live \ {p}
  BY <1>1, Typing DEF Live
<1>8. Val' = [Val EXCEPT ![p] = NewValue]
  <2>1. ASSUME NEW r \in Parsers
        PROVE  Val'[r] = IF r = p THEN NewValue ELSE Val[r]
    <3>1. CASE r = p
      BY <1>7, <3>1 DEF Val
    <3>2. CASE r # p
      BY <1>1, <1>4, <1>7, <3>2, Typing DEF Val
    <3>3. QED  BY <3>1, <3>2
  <2>2. QED  BY <2>1 DEF Val
<1>9. QED  BY <1>1, <1>6, <1>7, <1>8 DEF Copies!Delete, Copies!Becomes

(***************************************************************************)
(* Calls that change the function.                                         *)
(***************************************************************************)

\* A call that writes a value it is allowed to give is a call of the abstract object.
LEMMA CallStep ==
  ASSUME IInv, NEW p \in Parsers, NEW v, Writes(p, v), CallGives(Val, p, v)
  PROVE  IInv' /\ Copies!Call(p)
<1>1. /\ IInv'
      /\ Live' = Live
      /\ Val' = [Val EXCEPT ![p] = v]
  BY WritesValue
<1>2. Val'[p] = v
  BY <1>1 DEF Val
<1>3. p \in Live
  BY DEF Writes
<1>4. Val' = [Val EXCEPT ![p] = Val'[p]] /\ CallGives(Val, p, Val'[p])
  BY <1>1, <1>2
<1>5. QED  BY <1>1, <1>3, <1>4 DEF Copies!Call, Copies!Becomes

\* Change is how most calls write.
LEMMA ChangeWrites ==
  ASSUME NEW p \in Live, NEW v, Change(p, v)
  PROVE  Writes(p, v)
BY DEF Change, Writes

\* To unshare a block changes no value.
LEMMA ForceDeepCopyStep ==
  ASSUME IInv, NEW p \in Parsers, ForceDeepCopy(p)
  PROVE  IInv' /\ UNCHANGED <<Live, Val>>
<1>1. Writes(p, Val[p])
  BY ChangeWrites DEF ForceDeepCopy
<1>2. /\ IInv'
      /\ Live' = Live
      /\ Val' = [Val EXCEPT ![p] = Val[p]]
  BY <1>1, WritesValue
<1>3. QED  BY <1>2 DEF Val

\* The delimiter is no part of the value.
LEMMA SetDelimiterCharStep ==
  ASSUME IInv, NEW p \in Parsers, NEW c \in Delimiters, SetDelimiterChar(p, c)
  PROVE  IInv' /\ UNCHANGED <<Live, Val>>
<1>1. UNCHANGED <<data, refs, body>>
  BY DEF SetDelimiterChar
<1>2. DelimOK'
  BY Typing DEF SetDelimiterChar, DelimOK
<1>3. IInv'
  BY <1>1, <1>2 DEF IInv, Counted, PointersOK, RefCountsExact, DelimOK
<1>4. QED  BY <1>1, <1>3 DEF Live, Val

\* The calls that work on the identifier table.
LEMMA TableStep ==
  ASSUME IInv, NEW p \in Parsers, NEW n \in UserNames,
         \/ RemoveIdentifier(p, n)
         \/ \E x \in UserNumbers : AddConstant(p, n, x) \/ AddUnit(p, n, x)
         \/ \E f \in RawFuncs : AddFunction(p, n, f)
         \/ \E w \in Wrappers : AddFunctionWrapper(p, n, w)
         \/ \E q \in Parsers : AddParser(p, n, q)
  PROVE  IInv' /\ Copies!Call(p)
<1>1. n \in Names
  BY UserAssumption
<1>2. CASE RemoveIdentifier(p, n)
  <2>1. Writes(p, Without(Val[p], n))
    BY <1>2, ChangeWrites DEF RemoveIdentifier
  <2>2. CallGives(Val, p, Without(Val[p], n))
    BY <1>1 DEF CallGives
  <2>3. QED  BY <2>1, <2>2, CallStep
<1>3. ASSUME NEW x \in UserNumbers, AddConstant(p, n, x)
      PROVE  IInv' /\ Copies!Call(p)
  <2>1. Writes(p, WithConstant(Val[p], n, x))
    BY <1>3, ChangeWrites DEF AddConstant
  <2>2. CallGives(Val, p, WithConstant(Val[p], n, x))
    BY <1>1, UserAssumption DEF CallGives
  <2>3. QED  BY <2>1, <2>2, CallStep
<1>4. ASSUME NEW x \in UserNumbers, AddUnit(p, n, x)
      PROVE  IInv' /\ Copies!Call(p)
  <2>1. Writes(p, WithUnit(Val[p], n, x))
    BY <1>4, ChangeWrites DEF AddUnit
  <2>2. CallGives(Val, p, WithUnit(Val[p], n, x))
    BY <1>1, UserAssumption DEF CallGives
  <2>3. QED  BY <2>1, <2>2, CallStep
<1>5. ASSUME NEW f \in RawFuncs, AddFunction(p, n, f)
      PROVE  IInv' /\ Copies!Call(p)
  <2>1. Writes(p, WithFunction(Val[p], n, f))
    BY <1>5, ChangeWrites DEF AddFunction
  <2>2. CallGives(Val, p, WithFunction(Val[p], n, f))
    BY <1>1 DEF CallGives, Funcs
  <2>3. QED  BY <2>1, <2>2, CallStep
<1>6. ASSUME NEW w \in Wrappers, AddFunctionWrapper(p, n, w)
      PROVE  IInv' /\ Copies!Call(p)
  <2>1. Writes(p, WithFunction(Val[p], n, w))
    BY <1>6 DEF AddFunctionWrapper, Writes
  <2>2. CallGives(Val, p, WithFunction(Val[p], n, w))
    BY <1>1 DEF CallGives, Funcs
  <2>3. QED  BY <2>1, <2>2, CallStep
<1>7. ASSUME NEW q \in Parsers, AddParser(p, n, q)
      PROVE  IInv' /\ Copies!Call(p)
  <2>1. Writes(p, WithParser(Val[p], n, q))
    BY <1>7, ChangeWrites DEF AddParser
  <2>2. CallGives(Val, p, WithParser(Val[p], n, q))
    BY <1>1 DEF CallGives
  <2>3. QED  BY <2>1, <2>2, CallStep
<1>8. QED  BY <1>2, <1>3, <1>4, <1>5, <1>6, <1>7

\* The calls that compile.
LEMMA CompileStep ==
  ASSUME IInv, NEW p \in Parsers,
         \/ \E input \in Inputs : Parse(p, input.vars, input.text)
         \/ \E text \in DeducedTexts : ParseAndDeduceVariables(p, text)
         \/ \E size \in StackSizes : Optimize(p, size)
  PROVE  IInv' /\ Copies!Call(p)
<1>1. p \in Live => delim[data[p]] \in Delimiters \cup {NoDelimiter}
  BY Typing
<1>2. ASSUME NEW input \in Inputs, Parse(p, input.vars, input.text)
      PROVE  IInv' /\ Copies!Call(p)
  <2> DEFINE v == Parsed(Val[p], input.vars, input.text, delim[data[p]])
  <2>1. Writes(p, v)
    BY <1>2 DEF Parse, Reparse, Writes
  <2>2. p \in Live
    BY <1>2 DEF Parse
  <2>3. CallGives(Val, p, v)
    BY <1>1, <2>2 DEF CallGives
  <2>4. QED  BY <2>1, <2>3, CallStep
<1>3. ASSUME NEW text \in DeducedTexts, ParseAndDeduceVariables(p, text)
      PROVE  IInv' /\ Copies!Call(p)
  <2> DEFINE v == Deduced(Val[p], text, delim[data[p]])
  <2>1. Writes(p, v)
    BY <1>3 DEF ParseAndDeduceVariables, Reparse, Writes
  <2>2. p \in Live
    BY <1>3 DEF ParseAndDeduceVariables
  <2>3. CallGives(Val, p, v)
    BY <1>1, <2>2, UserAssumption DEF CallGives
  <2>4. QED  BY <2>1, <2>3, CallStep
<1>4. ASSUME NEW size \in StackSizes, Optimize(p, size)
      PROVE  IInv' /\ Copies!Call(p)
  <2>1. Writes(p, Optimized(Val, p, size))
    BY <1>4 DEF Optimize, Writes
  <2>2. CallGives(Val, p, Optimized(Val, p, size))
    BY DEF CallGives
  <2>3. QED  BY <2>1, <2>2, CallStep
<1>5. QED  BY <1>2, <1>3, <1>4

(***************************************************************************)
(* The theorems.                                                           *)
(***************************************************************************)

\* The invariant holds when there are no objects.
LEMMA Initially ==
  ASSUME Init
  PROVE  IInv /\ Copies!Init
<1>1. /\ data = [p \in Parsers |-> NoBlock]
      /\ refs = [d \in Blocks |-> 0]
      /\ body = [d \in Blocks |-> NewValue]
      /\ delim = [d \in Blocks |-> NoDelimiter]
  BY DEF Init
<1>2. PointersOK
  BY <1>1 DEF PointersOK
<1>3. RefCountsExact
  <2>1. ASSUME NEW d \in Blocks
        PROVE  Cardinality({p \in Parsers : data[p] = d}) = 0
    <3>1. {p \in Parsers : data[p] = d} = {}
      BY <1>1, BlocksAssumption
    <3>2. QED  BY <3>1, FS_EmptySet
  <2>2. QED  BY <1>1, <2>1 DEF RefCountsExact
<1>4. Live = {}
  BY <1>1 DEF Live
<1>5. Val = [p \in Parsers |-> NewValue]
  BY <1>4 DEF Val
<1>6. QED  BY <1>1, <1>2, <1>3, <1>4, <1>5 DEF IInv, Counted, Copies!Init

\* Every call keeps the invariant and is a call of the abstract objects, or none.
LEMMA Step ==
  ASSUME IInv, [Next]_vars
  PROVE  IInv' /\ [Copies!Next]_<<Live, Val>>
<1>1. CASE UNCHANGED vars
  BY <1>1 DEF vars, IInv, Counted, PointersOK, RefCountsExact, Live, Val
<1>2. CASE Next
  <2>1. PICK p \in Parsers :
          \/ Construct(p)
          \/ Destroy(p)
          \/ ForceDeepCopy(p)
          \/ \E q \in Parsers : CopyConstruct(p, q) \/ Assign(p, q)
          \/ \E n \in UserNames :
               \/ RemoveIdentifier(p, n)
               \/ \E x \in UserNumbers : AddConstant(p, n, x) \/ AddUnit(p, n, x)
               \/ \E f \in RawFuncs : AddFunction(p, n, f)
               \/ \E w \in Wrappers : AddFunctionWrapper(p, n, w)
               \/ \E q \in Parsers : AddParser(p, n, q)
          \/ \E c \in Delimiters : SetDelimiterChar(p, c)
          \/ \E input \in Inputs : Parse(p, input.vars, input.text)
          \/ \E text \in DeducedTexts : ParseAndDeduceVariables(p, text)
          \/ \E size \in StackSizes : Optimize(p, size)
    BY <1>2 DEF Next
  <2>2. CASE Construct(p)
    BY <2>2, ConstructStep DEF Copies!Next
  <2>3. CASE Destroy(p)
    BY <2>3, DestroyStep DEF Copies!Next
  <2>4. CASE ForceDeepCopy(p)
    BY <2>4, ForceDeepCopyStep
  <2>5. CASE \E q \in Parsers : CopyConstruct(p, q) \/ Assign(p, q)
    BY <2>5, CopyConstructStep, AssignStep DEF Copies!Next
  <2>6. ASSUME NEW n \in UserNames,
               \/ RemoveIdentifier(p, n)
               \/ \E x \in UserNumbers : AddConstant(p, n, x) \/ AddUnit(p, n, x)
               \/ \E f \in RawFuncs : AddFunction(p, n, f)
               \/ \E w \in Wrappers : AddFunctionWrapper(p, n, w)
               \/ \E q \in Parsers : AddParser(p, n, q)
        PROVE  IInv' /\ [Copies!Next]_<<Live, Val>>
    BY <2>6, TableStep DEF Copies!Next
  <2>7. CASE \E c \in Delimiters : SetDelimiterChar(p, c)
    BY <2>7, SetDelimiterCharStep
  <2>8. CASE \/ \E input \in Inputs : Parse(p, input.vars, input.text)
             \/ \E text \in DeducedTexts : ParseAndDeduceVariables(p, text)
             \/ \E size \in StackSizes : Optimize(p, size)
    BY <2>8, CompileStep DEF Copies!Next
  <2>9. QED  BY <2>1, <2>2, <2>3, <2>4, <2>5, <2>6, <2>7, <2>8
<1>3. QED  BY <1>1, <1>2

\* Every reachable state has its pointers in range and its reference counts
\* exact: no parser points to deleted Data, and no Data leaks.
THEOREM RefCountsCorrect == Spec => [](PointersOK /\ RefCountsExact)
<1>1. Init => IInv
  BY Initially
<1>2. IInv /\ [Next]_vars => IInv'
  BY Step
<1>3. IInv => PointersOK /\ RefCountsExact
  BY DEF IInv, Counted
<1>4. QED  BY <1>1, <1>2, <1>3, PTL DEF Spec

\* FunctionParser implements ValueSemantics: copies that share Data by
\* copy-on-write cannot be told from copies that do not.
THEOREM ValueSemanticsImplemented == Spec => CopiesAreValues
<1>1. Init => IInv /\ Copies!Init
  BY Initially
<1>2. IInv /\ [Next]_vars => IInv' /\ [Copies!Next]_<<Live, Val>>
  BY Step
<1>3. QED  BY <1>1, <1>2, PTL DEF Spec, CopiesAreValues, Copies!Spec

(***************************************************************************)
(* What the blocks hold.                                                   *)
(***************************************************************************)

\* The blocks whose mFuncPtrs hold wrapper w, in a state where the blocks are b.
HoldersIn(b, w) == {d \in Blocks : w \in WrappersOf(b[d])}

\* Where no block is, there is a value that nobody has written to.
FreeIsNew == \A d \in Blocks : refs[d] = 0 => body[d] = NewValue

Contents == \A d \in Blocks : Sound(body[d])

HoldersCounted ==
  \A w \in Wrappers :
    /\ IsFiniteSet(HoldersIn(body, w))
    /\ wrapperRefs[w] \in Nat
    /\ HoldersIn(body, w) # {} => wrapperRefs[w] = Cardinality(HoldersIn(body, w))

\* No function is parsed that ends at a delimiter.
Undelimited == \A text \in Texts : text.tail \notin Delimiters

\* mStack.size() and mStackSize are redundant.
StacksEqual ==
  /\ DOMAIN stackLen = Blocks
  /\ Undelimited => \A d \in Blocks : body[d].err = "no_error" =>
                                        stackLen[d] = body[d].stackSize

SInv == IInv /\ FreeIsNew /\ Contents /\ HoldersCounted /\ StacksEqual

\* A wrapper that loses its last holder in this step is deleted.
Deletes == \A w \in Wrappers :
             HoldersIn(body, w) # {} /\ HoldersIn(body', w) = {} => wrapperRefs'[w] = 0

(***************************************************************************)
(* What a step does to the holders of one wrapper.                         *)
(***************************************************************************)

\* Only blocks that exist hold wrappers.
LEMMA HoldersExist ==
  ASSUME NEW r \in [Blocks -> Nat], NEW b, NEW w,
         \A d \in Blocks : r[d] = 0 => b[d] = NewValue
  PROVE  {d \in {e \in Blocks : r[e] > 0} : w \in WrappersOf(b[d])} = HoldersIn(b, w)
<1>1. WrappersOf(NewValue) = {}
  BY DEF WrappersOf, NewValue, ToSet
<1>2. QED  BY <1>1 DEF HoldersIn

\* The count of a wrapper follows its holders: they stay, one more comes, one
\* of them goes, or the first one comes, if any, with a count of 1.
LEMMA CountFollows ==
  ASSUME NEW H, NEW G, NEW n \in Nat, NEW m, NEW d,
         IsFiniteSet(H), H # {} => n = Cardinality(H),
         \/ G = H /\ m = n
         \/ H # {} /\ d \notin H /\ G = H \cup {d} /\ m = n + 1
         \/ d \in H /\ G = H \ {d} /\ m = n - 1
         \/ n = 0 /\ G \subseteq H \cup {d} /\ m = 1
  PROVE  /\ IsFiniteSet(G) /\ m \in Nat
         /\ G # {} => m = Cardinality(G)
         /\ H # {} /\ G = {} => m = 0
<1>1. CASE G = H /\ m = n
  BY <1>1
<1>2. CASE H # {} /\ d \notin H /\ G = H \cup {d} /\ m = n + 1
  <2>1. IsFiniteSet(G) /\ Cardinality(G) = Cardinality(H) + 1
    BY <1>2, FS_AddElement
  <2>2. G # {}
    BY <1>2
  <2>3. QED  BY <1>2, <2>1, <2>2
<1>3. CASE d \in H /\ G = H \ {d} /\ m = n - 1
  <2>1. IsFiniteSet(G) /\ Cardinality(G) = Cardinality(H) - 1
    BY <1>3, FS_RemoveElement
  <2>2. Cardinality(G) \in Nat /\ m = Cardinality(G)
    BY <1>3, <2>1, FS_CardinalityType
  <2>3. G = {} => m = 0
    BY <2>2, FS_EmptySet
  <2>4. QED  BY <2>1, <2>2, <2>3
<1>4. CASE n = 0 /\ G \subseteq H \cup {d} /\ m = 1
  <2>1. H = {}
    BY <1>4, FS_EmptySet
  <2>2. G = {} \/ G = {d}
    BY <1>4, <2>1
  <2>3. IsFiniteSet({d}) /\ Cardinality({d}) = 1 /\ IsFiniteSet({})
    BY FS_Singleton, FS_EmptySet
  <2>4. QED  BY <1>4, <2>1, <2>2, <2>3
<1>5. QED  BY <1>1, <1>2, <1>3, <1>4

\* The counts of all wrappers follow.
Follows(d) ==
  \A w \in Wrappers :
    LET H == HoldersIn(body, w)
        G == HoldersIn(body', w)
        n == wrapperRefs[w]
        m == wrapperRefs'[w]
    IN  \/ G = H /\ m = n
        \/ H # {} /\ d \notin H /\ G = H \cup {d} /\ m = n + 1
        \/ d \in H /\ G = H \ {d} /\ m = n - 1
        \/ n = 0 /\ G \subseteq H \cup {d} /\ m = 1

\* Counts that follow the pointers of one block stay exact, and reach 0 with the last.
LEMMA FollowsKeeps ==
  ASSUME HoldersCounted, NEW d, Follows(d)
  PROVE  HoldersCounted' /\ Deletes
<1>1. ASSUME NEW w \in Wrappers
      PROVE  /\ IsFiniteSet(HoldersIn(body', w)) /\ wrapperRefs'[w] \in Nat
             /\ HoldersIn(body', w) # {} =>
                  wrapperRefs'[w] = Cardinality(HoldersIn(body', w))
             /\ HoldersIn(body, w) # {} /\ HoldersIn(body', w) = {} => wrapperRefs'[w] = 0
  <2> DEFINE H == HoldersIn(body, w)
             G == HoldersIn(body', w)
             n == wrapperRefs[w]
             m == wrapperRefs'[w]
  <2>1. IsFiniteSet(H) /\ n \in Nat /\ (H # {} => n = Cardinality(H))
    BY DEF HoldersCounted
  <2>2. \/ G = H /\ m = n
        \/ H # {} /\ d \notin H /\ G = H \cup {d} /\ m = n + 1
        \/ d \in H /\ G = H \ {d} /\ m = n - 1
        \/ n = 0 /\ G \subseteq H \cup {d} /\ m = 1
    BY DEF Follows
  <2> HIDE DEF H, G, n, m
  <2>3. /\ IsFiniteSet(G) /\ m \in Nat
        /\ G # {} => m = Cardinality(G)
        /\ H # {} /\ G = {} => m = 0
    BY <2>1, <2>2, CountFollows
  <2>4. QED  BY <2>3 DEF H, G, n, m
<1>2. HoldersCounted'
  BY <1>1 DEF HoldersCounted, HoldersIn
<1>3. QED  BY <1>1, <1>2 DEF Deletes

(***************************************************************************)
(* The three ways in which a step changes what the blocks hold.            *)
(***************************************************************************)

\* It does not: no block is freed, and only the stacks of blocks without a
\* parsed function may change.
LEMMA SameKeeps ==
  ASSUME SInv, IInv', UNCHANGED wrapperRefs,
         \A d \in Blocks : body'[d] = body[d],
         \A d \in Blocks : refs'[d] = 0 => refs[d] = 0,
         DOMAIN stackLen' = Blocks,
         \A d \in Blocks : body[d].err = "no_error" => stackLen'[d] = stackLen[d]
  PROVE  SInv' /\ Deletes
<1>1. FreeIsNew' /\ Contents' /\ StacksEqual'
  BY DEF SInv, FreeIsNew, Contents, StacksEqual
<1>2. HoldersCounted'
  BY DEF SInv, HoldersCounted, HoldersIn
<1>3. Deletes
  BY DEF Deletes, HoldersIn
<1>4. QED  BY <1>1, <1>2, <1>3 DEF SInv

\* An object lets go of its block.
LEMMA UnreferencedKeeps ==
  ASSUME SInv, IInv', NEW p \in Live, Unreference(data[p]),
         \A d \in Blocks : refs'[d] = 0 /\ refs[d] # 0 => d = data[p] /\ refs[d] = 1
  PROVE  SInv' /\ Deletes
<1>1. data[p] \in Blocks
  BY Typing DEF SInv
<1>2. CASE refs[data[p]] = 1
  <2>1. /\ wrapperRefs' = [w \in Wrappers |-> IF w \in WrappersOf(body[data[p]])
                                              THEN wrapperRefs[w] - 1
                                              ELSE wrapperRefs[w]]
        /\ body' = [body EXCEPT ![data[p]] = NewValue]
        /\ stackLen' = [stackLen EXCEPT ![data[p]] = 0]
    BY <1>2 DEF Unreference, ReleaseWrappers
  <2>2. DOMAIN body = Blocks
    BY DEF SInv, IInv
  <2>3. FreeIsNew'
    BY <1>1, <2>1, <2>2 DEF SInv, FreeIsNew
  <2>4. Contents'
    BY <1>1, <2>1, <2>2, NewValueSound DEF SInv, Contents
  <2>5. StacksEqual'
    <3>1. NewValue.err # "no_error"
      BY DEF NewValue
    <3>2. QED  BY <1>1, <2>1, <2>2, <3>1 DEF SInv, StacksEqual
  <2>6. Follows(data[p])
    <3>1. SUFFICES ASSUME NEW w \in Wrappers
                   PROVE  LET H == HoldersIn(body, w)
                              G == HoldersIn(body', w)
                          IN  \/ G = H /\ wrapperRefs'[w] = wrapperRefs[w]
                              \/ /\ data[p] \in H /\ G = H \ {data[p]}
                                 /\ wrapperRefs'[w] = wrapperRefs[w] - 1
      BY DEF Follows
    <3>2. w \notin WrappersOf(NewValue)
      BY DEF WrappersOf, NewValue, ToSet
    <3>3. QED  BY <1>1, <2>1, <2>2, <3>2 DEF HoldersIn
  <2>7. QED  BY <2>3, <2>4, <2>5, <2>6, FollowsKeeps DEF SInv
<1>3. CASE refs[data[p]] # 1
  <2>1. UNCHANGED <<body, stackLen, wrapperRefs>>
    BY <1>3 DEF Unreference
  <2>2. \A d \in Blocks : refs'[d] = 0 => refs[d] = 0
    BY <1>3
  <2>3. QED  BY <2>1, <2>2, SameKeeps DEF SInv, StacksEqual
<1>4. QED  BY <1>2, <1>3

\* A call writes value v to the block that CopyOnWrite() gives, with a stack of
\* len, and makes the wrappers of the set new.
Rewrites(p, d, v, len, new) ==
  /\ CopyOnWrite(p, d)
  /\ body' = [body EXCEPT ![d] = v]
  /\ stackLen' = [stackLen EXCEPT ![d] = len]
  /\ CountWrappers(p, d, new)

\* The value is one that a call makes of the value before.
Fits(p, v, len, new) ==
  /\ Sound(v)
  /\ WrappersOf(v) \in {WrappersOf(Val[p]), WrappersOf(Val[p]) \cup new}
  /\ new \subseteq Wrappers
  /\ \A w \in new : wrapperRefs[w] = 0
  /\ Undelimited /\ v.err = "no_error" => len = v.stackSize

\* A value written into one block keeps the invariant when its wrappers are counted.
LEMMA RewritesKeeps ==
  ASSUME SInv, IInv', NEW p \in Live, NEW d \in Blocks, NEW v, NEW len, NEW new,
         Rewrites(p, d, v, len, new), Fits(p, v, len, new)
  PROVE  SInv' /\ Deletes
<1>1. /\ data[p] \in Blocks /\ DOMAIN body = Blocks
      /\ refs \in [Blocks -> Nat]
      /\ Val[p] = body[data[p]]
  BY Typing DEF SInv, Val
<1>2. /\ body' = [body EXCEPT ![d] = v]
      /\ stackLen' = [stackLen EXCEPT ![d] = len]
      /\ refs' = IF d = data[p] THEN refs
                 ELSE [refs EXCEPT ![data[p]] = @ - 1, ![d] = 1]
      /\ d # data[p] => refs[data[p]] > 1 /\ refs[d] = 0
  BY <1>1 DEF Rewrites, CopyOnWrite, Allocated
<1>3. Contents' /\ StacksEqual'
  BY <1>1, <1>2 DEF SInv, Contents, StacksEqual, Fits
<1>4. FreeIsNew'
  <2>1. refs[data[p]] >= 1
    BY <1>1, CountsTell, Typing DEF SInv
  <2>2. ASSUME NEW e \in Blocks, refs'[e] = 0
        PROVE  e # d /\ refs[e] = 0
    <3>1. CASE d = data[p]
      BY <1>1, <1>2, <2>1, <2>2, <3>1
    <3>2. CASE d # data[p]
      BY <1>1, <1>2, <2>2, <3>2
    <3>3. QED  BY <3>1, <3>2
  <2>3. QED  BY <1>1, <1>2, <2>2 DEF SInv, FreeIsNew
<1>5. Follows(d)
  <2>1. SUFFICES ASSUME NEW w \in Wrappers
                 PROVE  LET H == HoldersIn(body, w)
                            G == HoldersIn(body', w)
                            n == wrapperRefs[w]
                            m == wrapperRefs'[w]
                        IN  \/ G = H /\ m = n
                            \/ H # {} /\ d \notin H /\ G = H \cup {d} /\ m = n + 1
                            \/ n = 0 /\ G \subseteq H \cup {d} /\ m = 1
    BY DEF Follows
  <2>2. wrapperRefs'[w] = IF w \in new THEN 1
                          ELSE IF d # data[p] /\ w \in WrappersOf(body[data[p]])
                               THEN wrapperRefs[w] + 1
                          ELSE wrapperRefs[w]
    BY DEF Rewrites, CountWrappers
  <2>3. \A e \in Blocks : body'[e] = IF e = d THEN v ELSE body[e]
    BY <1>1, <1>2
  <2>4. CASE w \in new
    BY <2>2, <2>3, <2>4 DEF Fits, HoldersIn
  <2>5. CASE w \notin new
    <3>1. w \in WrappersOf(v) <=> w \in WrappersOf(body[data[p]])
      BY <1>1, <2>5 DEF Fits
    <3>2. CASE d = data[p]
      BY <2>2, <2>3, <2>5, <3>1, <3>2 DEF HoldersIn
    <3>3. CASE d # data[p]
      <4>1. w \notin WrappersOf(body[d])
        BY <1>2, <3>3 DEF SInv, FreeIsNew, WrappersOf, NewValue, ToSet
      <4>2. CASE w \in WrappersOf(body[data[p]])
        BY <1>1, <2>2, <2>3, <2>5, <3>1, <3>3, <4>1, <4>2 DEF HoldersIn
      <4>3. CASE w \notin WrappersOf(body[data[p]])
        BY <2>2, <2>3, <2>5, <3>1, <4>1, <4>3 DEF HoldersIn
      <4>4. QED  BY <4>2, <4>3
    <3>4. QED  BY <3>2, <3>3
  <2>6. QED  BY <2>4, <2>5
<1>6. HoldersCounted' /\ Deletes
  BY <1>5, FollowsKeeps DEF SInv
<1>7. QED  BY <1>3, <1>4, <1>6 DEF SInv

(***************************************************************************)
(* The interface.                                                          *)
(***************************************************************************)

\* mStack of the block p writes to has the size noted in p's value.
LEMMA StackStays ==
  ASSUME SInv, NEW p \in Live, NEW d \in Blocks, NEW v,
         v.err = Val[p].err, v.stackSize = Val[p].stackSize
  PROVE  Undelimited /\ v.err = "no_error" => StackOf(p, d) = v.stackSize
<1>1. data[p] \in Blocks /\ Val[p] = body[data[p]]
  BY Typing DEF SInv, Val
<1>2. QED  BY <1>1 DEF StackOf, SInv, StacksEqual

\* The value of an object is sound.
LEMMA ValSound ==
  ASSUME SInv, NEW p \in Live
  PROVE  Sound(Val[p])
BY Typing DEF SInv, Contents, Val

\* A change of a value that leaves the function table alone keeps the invariant.
LEMMA ChangeKeeps ==
  ASSUME SInv, IInv', NEW p \in Live, NEW v, Change(p, v), Sound(v),
         WrappersOf(v) = WrappersOf(Val[p]),
         v.err = Val[p].err, v.stackSize = Val[p].stackSize
  PROVE  SInv' /\ Deletes
<1>1. PICK d \in Blocks : Rewrites(p, d, v, StackOf(p, d), {})
  BY DEF Change, Rewrites
<1>2. Fits(p, v, StackOf(p, d), {})
  BY StackStays DEF Fits
<1>3. QED  BY <1>1, <1>2, RewritesKeeps

\* A call that adds or removes a name which is not a C++ function.
LEMMA TableChangeKeeps ==
  ASSUME SInv, IInv', NEW p \in Live, NEW v, Change(p, v), Sound(v), Keeps(Val[p], v)
  PROVE  SInv' /\ Deletes
<1>1. WrappersOf(v) = WrappersOf(Val[p])
  BY DEF Keeps, WrappersOf
<1>2. QED  BY <1>1, ChangeKeeps DEF Keeps

\* AddFunction puts at most the wrapper it is given into the table.
LEMMA FunctionWrappers ==
  ASSUME SInv, NEW p \in Live, NEW n \in Names, NEW f \in Funcs
  PROVE  LET w == WithFunction(Val[p], n, f)
         IN  /\ Sound(w)
             /\ w.err = Val[p].err /\ w.stackSize = Val[p].stackSize
             /\ WrappersOf(w) \in {WrappersOf(Val[p]),
                                   WrappersOf(Val[p]) \cup ({f} \cap Wrappers)}
<1> DEFINE w == WithFunction(Val[p], n, f)
<1>1. Sound(Val[p])
  BY ValSound
<1>2. /\ Sound(w) /\ w.err = Val[p].err /\ w.stackSize = Val[p].stackSize
      /\ w.funcs \in {Val[p].funcs, Append(Val[p].funcs, f)}
  BY <1>1, WithFunctionSound
<1> HIDE DEF w
<1>3. Val[p].funcs \in Seq(Funcs)
  BY <1>1 DEF Sound
<1>4. WrappersOf(w) \in {WrappersOf(Val[p]), WrappersOf(Val[p]) \cup ({f} \cap Wrappers)}
  <2>1. CASE w.funcs = Val[p].funcs
    BY <2>1 DEF WrappersOf
  <2>2. CASE w.funcs = Append(Val[p].funcs, f)
    <3>1. ToSet(w.funcs) = ToSet(Val[p].funcs) \cup {f}
      BY <1>3, <2>2, AppendSet
    <3>2. WrappersOf(w) = WrappersOf(Val[p]) \cup ({f} \cap Wrappers)
      BY <3>1 DEF WrappersOf
    <3>3. QED  BY <3>2
  <2>3. QED  BY <1>2, <2>1, <2>2
<1>5. QED  BY <1>2, <1>4 DEF w

\* The calls that work on the identifier table.
LEMMA TableStepKeeps ==
  ASSUME SInv, IInv', NEW p \in Parsers, NEW n \in UserNames,
         \/ RemoveIdentifier(p, n)
         \/ \E x \in UserNumbers : AddConstant(p, n, x) \/ AddUnit(p, n, x)
         \/ \E f \in RawFuncs : AddFunction(p, n, f)
         \/ \E w \in Wrappers : AddFunctionWrapper(p, n, w)
         \/ \E q \in Parsers : AddParser(p, n, q)
  PROVE  SInv' /\ Deletes
<1>1. n \in Names
  BY UserAssumption
<1>2. p \in Live
  BY DEF RemoveIdentifier, AddConstant, AddUnit, AddFunction, AddFunctionWrapper, AddParser
<1>3. Sound(Val[p])
  BY <1>2, ValSound
<1>4. ASSUME NEW x, NEW v, Change(p, v),
             v \in {WithConstant(Val[p], n, x), WithUnit(Val[p], n, x),
                    WithParser(Val[p], n, x), Without(Val[p], n)}
      PROVE  SInv' /\ Deletes
  <2>1. Sound(v) /\ Keeps(Val[p], v)
    BY <1>1, <1>3, <1>4, TableCallSound
  <2>2. QED  BY <1>2, <1>4, <2>1, TableChangeKeeps
<1>5. CASE RemoveIdentifier(p, n)
  BY <1>4, <1>5 DEF RemoveIdentifier
<1>6. CASE \E x \in UserNumbers : AddConstant(p, n, x) \/ AddUnit(p, n, x)
  BY <1>4, <1>6 DEF AddConstant, AddUnit
<1>7. CASE \E q \in Parsers : AddParser(p, n, q)
  BY <1>4, <1>7 DEF AddParser
<1>8. ASSUME NEW f \in RawFuncs, AddFunction(p, n, f)
      PROVE  SInv' /\ Deletes
  <2> DEFINE v == WithFunction(Val[p], n, f)
  <2>1. f \in Funcs /\ {f} \cap Wrappers = {}
    BY FuncsAssumption DEF Funcs
  <2>2. /\ Sound(v) /\ v.err = Val[p].err /\ v.stackSize = Val[p].stackSize
        /\ WrappersOf(v) = WrappersOf(Val[p])
    BY <1>1, <1>2, <2>1, FunctionWrappers
  <2>3. Change(p, v)
    BY <1>8 DEF AddFunction
  <2> HIDE DEF v
  <2>4. QED  BY <1>2, <2>2, <2>3, ChangeKeeps
<1>9. ASSUME NEW w \in Wrappers, AddFunctionWrapper(p, n, w)
      PROVE  SInv' /\ Deletes
  <2> DEFINE v == WithFunction(Val[p], n, w)
  <2>1. w \in Funcs /\ {w} \cap Wrappers = {w}
    BY DEF Funcs
  <2>2. /\ Sound(v) /\ v.err = Val[p].err /\ v.stackSize = Val[p].stackSize
        /\ WrappersOf(v) \in {WrappersOf(Val[p]), WrappersOf(Val[p]) \cup {w}}
    BY <1>1, <1>2, <2>1, FunctionWrappers
  <2>3. PICK d \in Blocks : Rewrites(p, d, v, StackOf(p, d), {w})
    BY <1>9 DEF AddFunctionWrapper, Rewrites
  <2>4. wrapperRefs[w] = 0
    BY <1>9 DEF AddFunctionWrapper
  <2> HIDE DEF v
  <2>5. Fits(p, v, StackOf(p, d), {w})
    BY <1>2, <2>2, <2>4, StackStays DEF Fits
  <2>6. QED  BY <1>2, <2>3, <2>5, RewritesKeeps
<1>10. QED  BY <1>5, <1>6, <1>7, <1>8, <1>9

\* A parse writes a value with the functions of before, and sets mStack when it
\* reaches the end of the text.
LEMMA ReparseKeeps ==
  ASSUME SInv, IInv', NEW p \in Live, NEW text \in Texts, NEW v, Reparse(p, text, v),
         Sound(v), v.funcs = Val[p].funcs,
         v.err = "no_error" => text.tail \in {EndOfText, delim[data[p]]}
  PROVE  SInv' /\ Deletes
<1> DEFINE Size(d) == IF ParsedToEnd(v, text) THEN v.stackSize ELSE StackOf(p, d)
<1>1. PICK d \in Blocks : Rewrites(p, d, v, Size(d), {})
  BY DEF Reparse, Rewrites
<1>2. delim[data[p]] \in Delimiters \cup {NoDelimiter}
  BY Typing DEF SInv
<1>3. Undelimited /\ v.err = "no_error" => ParsedToEnd(v, text)
  BY <1>2, DelimiterAssumption DEF Undelimited, ParsedToEnd
<1>4. Undelimited /\ v.err = "no_error" => Size(d) = v.stackSize
  BY <1>3
<1> HIDE DEF Size
<1>5. Fits(p, v, Size(d), {})
  BY <1>4 DEF Fits, WrappersOf
<1>6. QED  BY <1>1, <1>5, RewritesKeeps

\* The calls that compile.
LEMMA CompileStepKeeps ==
  ASSUME SInv, IInv', NEW p \in Parsers,
         \/ \E input \in Inputs : Parse(p, input.vars, input.text)
         \/ \E text \in DeducedTexts : ParseAndDeduceVariables(p, text)
         \/ \E size \in StackSizes : Optimize(p, size)
  PROVE  SInv' /\ Deletes
<1>1. p \in Live
  BY DEF Parse, ParseAndDeduceVariables, Optimize
<1>2. Sound(Val[p])
  BY <1>1, ValSound
<1>3. ASSUME NEW input \in Inputs, Parse(p, input.vars, input.text)
      PROVE  SInv' /\ Deletes
  <2> DEFINE v == Parsed(Val[p], input.vars, input.text, delim[data[p]])
  <2>1. Len(input.vars) \in Nat /\ input.text \in Texts
    BY InputsAssumption, LenProperties DEF Texts
  <2>2. /\ Sound(v) /\ v.funcs = Val[p].funcs
        /\ v.err = "no_error" => input.text.tail \in {EndOfText, delim[data[p]]}
    BY <1>2, <2>1, ParsedSound
  <2>3. Reparse(p, input.text, v)
    BY <1>3 DEF Parse
  <2> HIDE DEF v
  <2>4. QED  BY <1>1, <2>1, <2>2, <2>3, ReparseKeeps
<1>4. ASSUME NEW text \in DeducedTexts, ParseAndDeduceVariables(p, text)
      PROVE  SInv' /\ Deletes
  <2> DEFINE v == Deduced(Val[p], text, delim[data[p]])
  <2>1. text \in Texts
    BY UserAssumption
  <2>2. /\ Sound(v) /\ v.funcs = Val[p].funcs
        /\ v.err = "no_error" => text.tail \in {EndOfText, delim[data[p]]}
    BY <1>2, <2>1, DeducedSound
  <2>3. Reparse(p, text, v)
    BY <1>4 DEF ParseAndDeduceVariables
  <2> HIDE DEF v
  <2>4. QED  BY <1>1, <2>1, <2>2, <2>3, ReparseKeeps
<1>5. ASSUME NEW size \in StackSizes, Optimize(p, size)
      PROVE  SInv' /\ Deletes
  <2> DEFINE v       == Optimized(Val, p, size)
             Size(d) == IF Val[p].stackSize # size THEN size ELSE StackOf(p, d)
  <2>1. size \in Nat
    BY InputsAssumption DEF StackSizes, Texts
  <2>2. /\ Sound(v) /\ v.funcs = Val[p].funcs
        /\ v.err = Val[p].err /\ v.stackSize = size
    BY <1>2, <2>1, OptimizedSound
  <2>3. PICK d \in Blocks : Rewrites(p, d, v, Size(d), {})
    BY <1>5 DEF Optimize, Rewrites
  <2> HIDE DEF v
  <2>4. Undelimited /\ v.err = "no_error" => Size(d) = v.stackSize
    BY <1>1, <2>2, StackStays
  <2> HIDE DEF Size
  <2>5. Fits(p, v, Size(d), {})
    BY <2>2, <2>4 DEF Fits, WrappersOf
  <2>6. QED  BY <1>1, <2>3, <2>5, RewritesKeeps
<1>6. QED  BY <1>3, <1>4, <1>5

\* Objects come, are copied, and go.
LEMMA ObjectStepKeeps ==
  ASSUME SInv, IInv', NEW p \in Parsers,
         \/ Construct(p)
         \/ Destroy(p)
         \/ ForceDeepCopy(p)
         \/ \E q \in Parsers : CopyConstruct(p, q) \/ Assign(p, q)
         \/ \E c \in Delimiters : SetDelimiterChar(p, c)
  PROVE  SInv' /\ Deletes
<1>1. /\ refs \in [Blocks -> Nat] /\ DOMAIN body = Blocks /\ DOMAIN stackLen = Blocks
      /\ \A q \in Live : data[q] \in Blocks
  BY Typing DEF SInv, StacksEqual
<1>2. CASE Construct(p)
  <2>1. PICK d \in Blocks \ Allocated :
          /\ refs' = [refs EXCEPT ![d] = 1]
          /\ body' = [body EXCEPT ![d] = NewValue]
          /\ stackLen' = [stackLen EXCEPT ![d] = 0]
    BY <1>2 DEF Construct
  <2>2. body[d] = NewValue
    BY <1>1, <2>1 DEF SInv, FreeIsNew, Allocated
  <2>3. \A e \in Blocks : body'[e] = body[e]
    BY <1>1, <2>1, <2>2
  <2>4. \A e \in Blocks : body[e].err = "no_error" => e # d
    BY <2>2 DEF NewValue
  <2>5. \A e \in Blocks : body[e].err = "no_error" => stackLen'[e] = stackLen[e]
    BY <1>1, <2>1, <2>4
  <2>6. \A e \in Blocks : refs'[e] = 0 => refs[e] = 0
    BY <1>1, <2>1
  <2>7. QED  BY <1>1, <1>2, <2>1, <2>3, <2>5, <2>6, SameKeeps DEF Construct
<1>3. CASE Destroy(p)
  <2>1. p \in Live /\ refs' = [refs EXCEPT ![data[p]] = @ - 1] /\ Unreference(data[p])
    BY <1>3 DEF Destroy
  <2>2. \A d \in Blocks : refs'[d] = 0 /\ refs[d] # 0 => d = data[p] /\ refs[d] = 1
    BY <1>1, <2>1
  <2>3. QED  BY <2>1, <2>2, UnreferencedKeeps
<1>4. CASE ForceDeepCopy(p)
  BY <1>4, ValSound, TableChangeKeeps DEF ForceDeepCopy, Keeps
<1>5. ASSUME NEW q \in Parsers, CopyConstruct(p, q)
      PROVE  SInv' /\ Deletes
  <2>1. /\ q \in Live /\ refs' = [refs EXCEPT ![data[q]] = @ + 1]
        /\ UNCHANGED <<body, stackLen, wrapperRefs>>
    BY <1>5 DEF CopyConstruct
  <2>2. \A d \in Blocks : refs'[d] = 0 => refs[d] = 0
    BY <1>1, <2>1
  <2>3. QED  BY <1>1, <2>1, <2>2, SameKeeps
<1>6. ASSUME NEW q \in Parsers, Assign(p, q)
      PROVE  SInv' /\ Deletes
  <2>1. /\ p \in Live /\ q \in Live /\ data[p] # data[q]
        /\ refs' = [refs EXCEPT ![data[p]] = @ - 1, ![data[q]] = @ + 1]
        /\ Unreference(data[p])
    BY <1>6 DEF Assign
  <2>2. \A d \in Blocks : refs'[d] = 0 /\ refs[d] # 0 => d = data[p] /\ refs[d] = 1
    BY <1>1, <2>1
  <2>3. QED  BY <2>1, <2>2, UnreferencedKeeps
<1>7. CASE \E c \in Delimiters : SetDelimiterChar(p, c)
  BY <1>1, <1>7, SameKeeps DEF SetDelimiterChar
<1>8. QED  BY <1>2, <1>3, <1>4, <1>5, <1>6, <1>7

(***************************************************************************)
(* The theorems.                                                           *)
(***************************************************************************)

\* The invariant holds when there are no objects.
LEMMA SInitially ==
  ASSUME Init
  PROVE  SInv
<1>1. /\ body = [d \in Blocks |-> NewValue]
      /\ stackLen = [d \in Blocks |-> 0]
      /\ wrapperRefs = [w \in Wrappers |-> 0]
  BY DEF Init
<1>2. IInv
  BY Initially
<1>3. FreeIsNew /\ Contents /\ StacksEqual
  <2>1. NewValue.err # "no_error"
    BY DEF NewValue
  <2>2. QED  BY <1>1, <2>1, NewValueSound DEF FreeIsNew, Contents, StacksEqual
<1>4. HoldersCounted
  <2>1. WrappersOf(NewValue) = {}
    BY DEF WrappersOf, NewValue, ToSet
  <2>2. \A w \in Wrappers : HoldersIn(body, w) = {}
    BY <1>1, <2>1 DEF HoldersIn
  <2>3. QED  BY <1>1, <2>2, FS_EmptySet DEF HoldersCounted
<1>5. QED  BY <1>2, <1>3, <1>4 DEF SInv

\* Every call keeps the invariant, and deletes the wrappers that lose their last holder.
LEMMA SStep ==
  ASSUME SInv, [Next]_vars
  PROVE  SInv' /\ Deletes
<1>1. IInv'
  BY Step DEF SInv
<1>2. CASE UNCHANGED vars
  BY <1>1, <1>2, SameKeeps DEF vars, SInv, StacksEqual
<1>3. CASE Next
  <2>1. PICK p \in Parsers :
          \/ Construct(p)
          \/ Destroy(p)
          \/ ForceDeepCopy(p)
          \/ \E q \in Parsers : CopyConstruct(p, q) \/ Assign(p, q)
          \/ \E n \in UserNames :
               \/ RemoveIdentifier(p, n)
               \/ \E x \in UserNumbers : AddConstant(p, n, x) \/ AddUnit(p, n, x)
               \/ \E f \in RawFuncs : AddFunction(p, n, f)
               \/ \E w \in Wrappers : AddFunctionWrapper(p, n, w)
               \/ \E q \in Parsers : AddParser(p, n, q)
          \/ \E c \in Delimiters : SetDelimiterChar(p, c)
          \/ \E input \in Inputs : Parse(p, input.vars, input.text)
          \/ \E text \in DeducedTexts : ParseAndDeduceVariables(p, text)
          \/ \E size \in StackSizes : Optimize(p, size)
    BY <1>3 DEF Next
  <2>2. CASE \/ Construct(p)
             \/ Destroy(p)
             \/ ForceDeepCopy(p)
             \/ \E q \in Parsers : CopyConstruct(p, q) \/ Assign(p, q)
             \/ \E c \in Delimiters : SetDelimiterChar(p, c)
    BY <1>1, <2>2, ObjectStepKeeps
  <2>3. ASSUME NEW n \in UserNames,
               \/ RemoveIdentifier(p, n)
               \/ \E x \in UserNumbers : AddConstant(p, n, x) \/ AddUnit(p, n, x)
               \/ \E f \in RawFuncs : AddFunction(p, n, f)
               \/ \E w \in Wrappers : AddFunctionWrapper(p, n, w)
               \/ \E q \in Parsers : AddParser(p, n, q)
        PROVE  SInv' /\ Deletes
    BY <1>1, <2>3, TableStepKeeps
  <2>4. CASE \/ \E input \in Inputs : Parse(p, input.vars, input.text)
             \/ \E text \in DeducedTexts : ParseAndDeduceVariables(p, text)
             \/ \E size \in StackSizes : Optimize(p, size)
    BY <1>1, <2>4, CompileStepKeeps
  <2>5. QED  BY <2>1, <2>2, <2>3, <2>4
<1>4. QED  BY <1>2, <1>3

\* The holders of a wrapper, before and after a step.
LEMMA HoldersAre ==
  ASSUME SInv, NEW w
  PROVE  Holders(w) = HoldersIn(body, w)
BY Typing, HoldersExist DEF SInv, FreeIsNew, Holders, Allocated

\* After a step, too, the holders are the allocated blocks that point there.
LEMMA HoldersAreAfter ==
  ASSUME SInv', NEW w
  PROVE  Holders(w)' = HoldersIn(body', w)
<1>1. refs' \in [Blocks -> Nat] /\ \A d \in Blocks : refs'[d] = 0 => body'[d] = NewValue
  BY DEF SInv, FreeIsNew, IInv, Counted, PointersOK
<1>2. {d \in {e \in Blocks : refs'[e] > 0} : w \in WrappersOf(body'[d])} = HoldersIn(body', w)
  BY <1>1, HoldersExist
<1>3. QED  BY <1>2 DEF Holders, Allocated

\* In every reachable state a wrapper that some block holds is counted once for
\* each block that holds it, so that none is deleted under its callers.
THEOREM WrapperCountsCorrect == Spec => []WrapperCountsExact
<1>1. Init => SInv
  BY SInitially
<1>2. SInv /\ [Next]_vars => SInv'
  BY SStep
<1>3. SInv => WrapperCountsExact
  BY HoldersAre DEF SInv, HoldersCounted, WrapperCountsExact
<1>4. QED  BY <1>1, <1>2, <1>3, PTL DEF Spec

\* No step takes away the last holder of a wrapper and leaves the wrapper.
THEOREM WrapperFreed == Spec => WrapperDeletedWithLastHolder
<1>1. Init => SInv
  BY SInitially
<1>2. SInv /\ [Next]_vars => SInv'
  BY SStep
<1>3. SInv /\ [Next]_vars =>
        \A w \in Wrappers : Holders(w) # {} /\ Holders(w)' = {} => wrapperRefs'[w] = 0
  BY SStep, HoldersAre, HoldersAreAfter DEF Deletes
<1>4. QED  BY <1>1, <1>2, <1>3, PTL DEF Spec, WrapperDeletedWithLastHolder

\* In every reachable state the variables of the identifier table are the
\* leading tokens of the stored Vars string, in their order.
THEOREM VariablesCorrect == Spec => []VariablesPointIntoString
<1>1. Init => SInv
  BY SInitially
<1>2. SInv /\ [Next]_vars => SInv'
  BY SStep
<1>3. SInv => VariablesPointIntoString
  BY VariablesArePairs DEF SInv, Contents, VariablesPointIntoString, Allocated
<1>4. QED  BY <1>1, <1>2, <1>3, PTL DEF Spec

\* Where no function ends at a delimiter, every parsed function has the stack
\* that its byte code needs.
THEOREM StacksSuffice ==
  ASSUME Undelimited
  PROVE  Spec => []StackSized
<1>1. Init => SInv
  BY SInitially
<1>2. SInv /\ [Next]_vars => SInv'
  BY SStep
<1>3. SInv => StackSized
  <2>1. SUFFICES ASSUME SInv, NEW p \in Live, Runnable(p)
                 PROVE  stackLen[data[p]] >= Val[p].stackSize
    BY DEF StackSized
  <2>2. data[p] \in Blocks /\ Val[p] = body[data[p]]
    BY <2>1, Typing DEF SInv, Val
  <2>3. stackLen[data[p]] = Val[p].stackSize
    BY <2>1, <2>2 DEF SInv, StacksEqual, Runnable
  <2>4. Val[p].stackSize \in Nat
    BY <2>1, ValSound DEF Sound, Runnable
  <2>5. QED  BY <2>3, <2>4
<1>4. QED  BY <1>1, <1>2, <1>3, PTL DEF Spec

\* ParseAndDeduceVariables() comes to an end, makes a function of every text that
\* some variables make one, and then has the fewest, whatever Vars string and
\* table an earlier call has left.
THEOREM DeductionCorrect == Spec => []DeducesVariables
<1>1. Init => SInv
  BY SInitially
<1>2. SInv /\ [Next]_vars => SInv'
  BY SStep
<1>3. SInv => DeducesVariables
  <2>1. SUFFICES ASSUME SInv, NEW p \in Live, NEW text \in DeducedTexts
                 PROVE  LET v == Val[p]
                            c == delim[data[p]]
                            r == Deduction(v, text, c)
                            w == [v EXCEPT !.vars = <<>>, !.names = NonVariables(@)]
                            enough == {S \in SUBSET Names :
                                         /\ IsFiniteSet(S)
                                         /\ Parsed(w, SetToSeq(S), text, c).err = "no_error"}
                        IN  /\ r.done
                            /\ r.value.err = "no_error" <=> enough # {}
                            /\ \A S \in enough : ToSet(r.value.vars) \subseteq S
    BY DEF DeducesVariables
  <2> DEFINE v == Val[p]
             c == delim[data[p]]
             r == Deduction(v, text, c)
             w == [v EXCEPT !.vars = <<>>, !.names = NonVariables(@)]
             enough == {S \in SUBSET Names :
                          /\ IsFiniteSet(S)
                          /\ Parsed(w, SetToSeq(S), text, c).err = "no_error"}
  <2>2. Sound(v) /\ text \in Texts
    BY <2>1, ValSound, UserAssumption
  <2>3. Finished(r, v, text, c)
    BY <2>2, DeductionFinishes
  <2>4. ASSUME NEW S \in SUBSET Names, IsFiniteSet(S)
        PROVE  Parsed(w, SetToSeq(S), text, c).err = "no_error" <=> Works(v, S, text, c)
    BY <2>2, <2>4, EnoughWorks
  <2> HIDE DEF v, c, r, w
  <2>5. \A S \in SUBSET Names : S \in enough <=> Works(v, S, text, c)
    BY <2>4 DEF Works
  <2>6. Works(v, r.names, text, c) => r.names \in SUBSET Names
    BY DEF Works, Free
  <2>7. Works(v, r.names, text, c) => ToSet(SetToSeq(r.names)) = r.names
    BY SetToSeqOnto DEF Works
  <2> HIDE DEF enough
  <2>8. enough \subseteq SUBSET Names
    BY DEF enough
  <2>9. CASE r.value.err = "no_error"
    BY <2>3, <2>5, <2>6, <2>7, <2>8, <2>9 DEF Finished, enough, v, c, r, w
  <2>10. CASE r.value.err # "no_error"
    BY <2>3, <2>5, <2>8, <2>10 DEF Finished, NothingWorks, enough, v, c, r, w
  <2>11. QED  BY <2>9, <2>10
<1>4. QED  BY <1>1, <1>2, <1>3, PTL DEF Spec

(***************************************************************************)
(* Parsers that call each other.                                           *)
(***************************************************************************)

\* The indices of parsers that a value holds are those of entries.
Callable(v) ==
  /\ \A n \in Names : v.names[n] # Undefined /\ v.names[n].type = "PARSER_PTR" =>
                        v.names[n].data \in 1..Len(v.links)
  /\ \A i \in 1..Len(v.code) : v.code[i].op = "cPCall" =>
                                 v.code[i].arg \in 1..Len(v.links)

Typed == {v \in Value : Callable(v)}

(***************************************************************************)
(* The values that calls make have their type.                             *)
(***************************************************************************)

\* A new Data has the types of a Data.
LEMMA NewValueTyped == NewValue \in Typed
<1>1. /\ <<>> \in Seq(Tokens) /\ <<>> \in Seq(Funcs) /\ <<>> \in Seq(Parsers)
      /\ <<>> \in Seq(Op) /\ Len(NewValue.code) = 0
  BY EmptySeq DEF NewValue
<1>2. NewValue \in Value
  BY <1>1 DEF NewValue, Value, ErrorTypes
<1>3. Callable(NewValue)
  BY <1>1 DEF Callable, NewValue
<1>4. QED  BY <1>2, <1>3 DEF Typed

\* A name gets an entry whose index, if it is one of a parser, is valid.
LEMMA EntryTyped ==
  ASSUME NEW v \in Typed, NEW n \in Names, NEW e \in NameData \cup {Undefined},
         e # Undefined /\ e.type = "PARSER_PTR" => e.data \in 1..Len(v.links)
  PROVE  [v EXCEPT !.names[n] = e] \in Typed
<1> DEFINE w == [v EXCEPT !.names[n] = e]
<1>1. v \in Value /\ Callable(v)
  BY DEF Typed
<1>2. w \in Value
  BY <1>1 DEF Value
<1>3. /\ w.links = v.links /\ w.code = v.code
      /\ \A m \in Names : w.names[m] = IF m = n THEN e ELSE v.names[m]
  BY <1>1 DEF Value
<1> HIDE DEF w
<1>4. Callable(w)
  BY <1>1, <1>3 DEF Callable
<1>5. QED  BY <1>2, <1>4 DEF Typed, w

\* Functions and parsers are added at the end of their tables, to which the
\* byte code refers by index.
LEMMA AppendFunctionTyped ==
  ASSUME NEW v \in Typed, NEW f \in Funcs
  PROVE  [v EXCEPT !.funcs = Append(@, f)] \in Typed
<1> DEFINE w == [v EXCEPT !.funcs = Append(@, f)]
<1>1. v \in Value /\ Callable(v)
  BY DEF Typed
<1>2. v.funcs \in Seq(Funcs) /\ Append(v.funcs, f) \in Seq(Funcs)
  BY <1>1, AppendProperties DEF Value
<1>3. w \in Value
  BY <1>1, <1>2 DEF Value
<1>4. w.links = v.links /\ w.code = v.code /\ w.names = v.names
  BY <1>1 DEF Value
<1> HIDE DEF w
<1>5. Callable(w)
  BY <1>1, <1>4 DEF Callable
<1>6. QED  BY <1>3, <1>5 DEF Typed, w

\* A parser added to the table leaves the byte code in range.
LEMMA AppendParserTyped ==
  ASSUME NEW v \in Typed, NEW q \in Parsers
  PROVE  [v EXCEPT !.links = Append(@, q)] \in Typed
<1> DEFINE w == [v EXCEPT !.links = Append(@, q)]
<1>1. v \in Value /\ Callable(v)
  BY DEF Typed
<1>2. /\ v.links \in Seq(Parsers) /\ Len(v.links) \in Nat
      /\ Append(v.links, q) \in Seq(Parsers)
      /\ Len(Append(v.links, q)) = Len(v.links) + 1
  BY <1>1, AppendProperties, LenProperties DEF Value
<1>3. w \in Value
  BY <1>1, <1>2 DEF Value
<1>4. w.links = Append(v.links, q) /\ w.code = v.code /\ w.names = v.names
  BY <1>1 DEF Value
<1> HIDE DEF w
<1>5. \A k \in 1..Len(v.links) : k \in 1..Len(w.links)
  BY <1>2, <1>4
<1>6. Callable(w)
  BY <1>1, <1>4, <1>5 DEF Callable
<1>7. QED  BY <1>3, <1>6 DEF Typed, w

\* What a call that works on the table leaves as it was: the byte code, and the
\* functions and parsers that it refers to.
Extends(v, w) ==
  /\ w.err = v.err /\ w.code = v.code
  /\ \A i \in DOMAIN v.funcs : i \in DOMAIN w.funcs /\ w.funcs[i] = v.funcs[i]
  /\ \A i \in DOMAIN v.links : i \in DOMAIN w.links /\ w.links[i] = v.links[i]

\* The calls that add or remove a name.
LEMMA TableCallTyped ==
  ASSUME NEW v \in Typed, NEW n \in Names, NEW w,
         \/ \E x \in Numbers : w = WithConstant(v, n, x) \/ w = WithUnit(v, n, x)
         \/ \E f \in Funcs : w = WithFunction(v, n, f)
         \/ \E q \in Parsers : w = WithParser(v, n, q)
         \/ w = Without(v, n)
  PROVE  w \in Typed /\ Extends(v, w)
<1>1. v \in Value /\ v \in Typed /\ Extends(v, v)
  BY DEF Typed, Extends
<1>2. ASSUME NEW x \in Numbers, w = WithConstant(v, n, x) \/ w = WithUnit(v, n, x)
      PROVE  w \in Typed /\ Extends(v, w)
  <2>1. PICK type \in {"CONSTANT", "UNIT"} : w = v \/ w = WithName(v, n, type, x)
    BY <1>2 DEF WithConstant, WithUnit
  <2> DEFINE e == [type |-> type, data |-> x]
  <2>2. CASE w = v
    BY <1>1, <2>2
  <2>3. CASE w = WithName(v, n, type, x)
    <3>1. e \in NameData /\ e.type # "PARSER_PTR"
      BY DEF NameData
    <3>2. w = [v EXCEPT !.names[n] = e]
      BY <2>3 DEF WithName
    <3> HIDE DEF e
    <3>3. w \in Typed
      BY <3>1, <3>2, EntryTyped
    <3>4. Extends(v, w)
      BY <1>1, <3>2 DEF Extends, Value
    <3>5. QED  BY <3>3, <3>4
  <2>4. QED  BY <2>1, <2>2, <2>3
<1>3. ASSUME NEW f \in Funcs, w = WithFunction(v, n, f)
      PROVE  w \in Typed /\ Extends(v, w)
  <2> DEFINE u == [v EXCEPT !.funcs = Append(@, f)]
             e == [type |-> "FUNC_PTR", data |-> Len(v.funcs) + 1]
  <2>1. CASE ~CanAdd(v, n, "FUNC_PTR")
    BY <1>1, <1>3, <2>1 DEF WithFunction
  <2>2. CASE CanAdd(v, n, "FUNC_PTR")
    <3>1. v.funcs \in Seq(Funcs)
      BY <1>1 DEF Value
    <3>2. Len(v.funcs) \in Nat
      BY <3>1, LenProperties
    <3>3. e \in NameData /\ e.type # "PARSER_PTR"
      BY <3>2 DEF NameData
    <3>4. u \in Typed
      BY <1>1, AppendFunctionTyped
    <3>5. w = [u EXCEPT !.names[n] = e]
      BY <1>1, <1>3, <2>2 DEF WithFunction, WithName, Value
    <3>6. u.funcs = Append(v.funcs, f) /\ u.links = v.links /\ u.code = v.code /\ u.err = v.err
      BY <1>1 DEF Value
    <3> HIDE DEF u, e
    <3>7. w \in Typed
      BY <3>3, <3>4, <3>5, EntryTyped
    <3>8. w.funcs = u.funcs /\ w.links = u.links /\ w.code = u.code /\ w.err = u.err
      BY <3>4, <3>5 DEF Typed, Value
    <3>9. \A i \in DOMAIN v.funcs : /\ i \in DOMAIN Append(v.funcs, f)
                                    /\ Append(v.funcs, f)[i] = v.funcs[i]
      BY <3>1, AppendProperties, LenProperties
    <3>10. QED  BY <3>6, <3>7, <3>8, <3>9 DEF Extends
  <2>3. QED  BY <2>1, <2>2
<1>4. ASSUME NEW q \in Parsers, w = WithParser(v, n, q)
      PROVE  w \in Typed /\ Extends(v, w)
  <2> DEFINE u == [v EXCEPT !.links = Append(@, q)]
             e == [type |-> "PARSER_PTR", data |-> Len(v.links) + 1]
  <2>1. CASE ~CanAdd(v, n, "PARSER_PTR")
    BY <1>1, <1>4, <2>1 DEF WithParser
  <2>2. CASE CanAdd(v, n, "PARSER_PTR")
    <3>1. v.links \in Seq(Parsers)
      BY <1>1 DEF Value
    <3>2. Len(v.links) \in Nat /\ Len(Append(v.links, q)) = Len(v.links) + 1
      BY <3>1, AppendProperties, LenProperties
    <3>3. u \in Typed
      BY <1>1, AppendParserTyped
    <3>4. w = [u EXCEPT !.names[n] = e]
      BY <1>1, <1>4, <2>2 DEF WithParser, WithName, Value
    <3>5. u.links = Append(v.links, q) /\ u.funcs = v.funcs /\ u.code = v.code /\ u.err = v.err
      BY <1>1 DEF Value
    <3>6. e \in NameData /\ e.data \in 1..Len(u.links)
      BY <3>2, <3>5 DEF NameData
    <3> HIDE DEF u, e
    <3>7. w \in Typed
      BY <3>3, <3>4, <3>6, EntryTyped
    <3>8. w.funcs = u.funcs /\ w.links = u.links /\ w.code = u.code /\ w.err = u.err
      BY <3>3, <3>4 DEF Typed, Value
    <3>9. \A i \in DOMAIN v.links : /\ i \in DOMAIN Append(v.links, q)
                                    /\ Append(v.links, q)[i] = v.links[i]
      BY <3>1, AppendProperties, LenProperties
    <3>10. QED  BY <3>5, <3>7, <3>8, <3>9 DEF Extends
  <2>3. QED  BY <2>1, <2>2
<1>5. CASE w = Without(v, n)
  <2>1. CASE w = v
    BY <1>1, <2>1
  <2>2. CASE w = [v EXCEPT !.names[n] = Undefined]
    <3>1. w \in Typed
      BY <2>2, EntryTyped
    <3>2. Extends(v, w)
      BY <1>1, <2>2 DEF Extends, Value
    <3>3. QED  BY <3>1, <3>2
  <2>3. QED  BY <1>5, <2>1, <2>2 DEF Without
<1>6. QED  BY <1>2, <1>3, <1>4, <1>5

\* The table after ParseVariables().
LEMMA WithVariablesTyped ==
  ASSUME NEW v \in Typed, NEW tokens \in Seq(Tokens)
  PROVE  WithVariables(v, tokens) \in Typed
<1>1. CASE v.vars = tokens
  BY <1>1 DEF WithVariables
<1>2. CASE v.vars # tokens
  <2> DEFINE w        == WithVariables(v, tokens)
             others   == NonVariables(v.names)
             k        == Accepted(others, tokens)
             index(n) == {i \in 1..k : tokens[i] = n}
             names    == [n \in Names |->
                            IF index(n) # {}
                            THEN [type |-> "VARIABLE", data |-> Min(index(n))]
                            ELSE others[n]]
  <2>1. v \in Value /\ Callable(v) /\ Len(tokens) \in Nat
    BY LenProperties DEF Typed
  <2>2. k \in Nat
    BY <2>1, AcceptedTokens
  <2>3. w = [v EXCEPT !.vars  = tokens,
                      !.nvars = IF k = Len(tokens) THEN k ELSE @,
                      !.names = names]
    BY <1>2 DEF WithVariables
  <2>4. ASSUME NEW n \in Names
        PROVE  \/ names[n] \in NameData /\ names[n].type = "VARIABLE"
               \/ names[n] \in {v.names[n], Undefined}
    <3>1. CASE index(n) = {}
      BY <3>1 DEF NonVariables
    <3>2. CASE index(n) # {}
      <4>1. index(n) \in SUBSET Nat
        BY <2>2
      <4>2. PICK m \in Nat : m = Min(index(n))
        BY <3>2, <4>1, MinIsLeast
      <4>3. names[n] = [type |-> "VARIABLE", data |-> m]
        BY <3>2, <4>2
      <4> HIDE DEF names, index
      <4>4. QED  BY <4>3 DEF NameData
    <3>3. QED  BY <3>1, <3>2
  <2>5. names = [n \in Names |-> names[n]]
    OBVIOUS
  <2> HIDE DEF w, names, k
  <2>6. names \in [Names -> NameData \cup {Undefined}]
    <3>1. \A n \in Names : names[n] \in NameData \cup {Undefined}
      BY <2>1, <2>4 DEF Value
    <3>2. QED  BY <2>5, <3>1
  <2>7. w \in Value
    BY <2>1, <2>2, <2>3, <2>6 DEF Value
  <2>8. w.names = names /\ w.links = v.links /\ w.code = v.code
    BY <2>1, <2>3 DEF Value
  <2>9. Callable(w)
    BY <2>1, <2>4, <2>8 DEF Callable
  <2>10. QED  BY <2>7, <2>9 DEF Typed, w
<1>3. QED  BY <1>1, <1>2

\* What a use of a name is compiled to, and which error it can be.
LEMMA UseTyped ==
  ASSUME NEW v \in Typed, NEW use \in [name : Names, form : {"plain", "call", "unit"}]
  PROVE  /\ UseError(v.names, use) \in ErrorTypes
         /\ v.names[use.name] # Undefined =>
              LET o == Compiled(v.names[use.name])
              IN  o \in Op /\ (o.op = "cPCall" => o.arg \in 1..Len(v.links))
<1> DEFINE nd == v.names[use.name]
<1>1. v \in Value /\ Callable(v) /\ use.name \in Names
  BY DEF Typed
<1>2. nd \in NameData \cup {Undefined}
  BY <1>1 DEF Value
<1>3. nd # Undefined /\ nd.type = "PARSER_PTR" => nd.data \in 1..Len(v.links)
  BY <1>1 DEF Callable
<1> HIDE DEF nd
<1>4. nd # Undefined =>
        nd.type \in {"CONSTANT", "UNIT", "FUNC_PTR", "PARSER_PTR", "VARIABLE"}
  BY <1>2 DEF NameData
<1>5. UseError(v.names, use) \in ErrorTypes
  <2>1. CASE use.form = "unit"
    BY <2>1 DEF UseError, ErrorTypes
  <2>2. CASE use.form # "unit" /\ nd = Undefined
    BY <2>2 DEF UseError, ErrorTypes, nd
  <2>3. CASE use.form # "unit" /\ nd # Undefined
    <3>1. nd.type \in {"CONSTANT", "UNIT", "FUNC_PTR", "PARSER_PTR", "VARIABLE"}
      BY <1>4, <2>3
    <3>2. UseError(v.names, use) =
            CASE nd.type = "UNIT" -> "syntax_error"
              [] nd.type \in {"VARIABLE", "CONSTANT"} ->
                   IF use.form = "plain" THEN "no_error" ELSE "expect_operator"
              [] nd.type \in {"FUNC_PTR", "PARSER_PTR"} ->
                   IF use.form = "call" THEN "no_error"
                   ELSE "missing_parenthesis_after_function"
      BY <2>3 DEF UseError, nd
    <3>3. QED  BY <3>1, <3>2 DEF ErrorTypes
  <2>4. QED  BY <2>1, <2>2, <2>3
<1>6. nd # Undefined => /\ Compiled(nd) \in Op
                        /\ Compiled(nd).op = "cPCall" => Compiled(nd).arg \in 1..Len(v.links)
  <2>1. SUFFICES ASSUME nd # Undefined
                 PROVE  /\ Compiled(nd) \in Op
                        /\ Compiled(nd).op = "cPCall" =>
                             Compiled(nd).arg \in 1..Len(v.links)
    OBVIOUS
  <2>2. CASE nd.type \in {"CONSTANT", "UNIT"}
    <3>1. nd.data \in Numbers
      BY <1>2, <2>1, <2>2 DEF NameData
    <3>2. Compiled(nd) = [op |-> "cImmed", arg |-> nd.data]
      BY <2>2 DEF Compiled
    <3>3. QED  BY <3>1, <3>2 DEF Op
  <2>3. CASE nd.type \in {"FUNC_PTR", "PARSER_PTR", "VARIABLE"}
    <3>1. nd.data \in Nat
      BY <1>2, <2>1, <2>3 DEF NameData
    <3>2. CASE nd.type = "FUNC_PTR"
      <4>1. Compiled(nd) = [op |-> "cFCall", arg |-> nd.data]
        BY <3>2 DEF Compiled
      <4>2. QED  BY <3>1, <4>1 DEF Op
    <3>3. CASE nd.type = "PARSER_PTR"
      <4>1. Compiled(nd) = [op |-> "cPCall", arg |-> nd.data]
        BY <3>3 DEF Compiled
      <4>2. QED  BY <1>3, <2>1, <3>1, <3>3, <4>1 DEF Op
    <3>4. CASE nd.type = "VARIABLE"
      <4>1. Compiled(nd) = [op |-> "var", arg |-> nd.data]
        BY <3>4 DEF Compiled
      <4>2. QED  BY <3>1, <4>1 DEF Op
    <3>5. QED  BY <2>3, <3>2, <3>3, <3>4
  <2>4. QED  BY <1>4, <2>1, <2>2, <2>3
<1>7. QED  BY <1>5, <1>6 DEF nd

\* A use that is no error has an entry.
LEMMA UseDefined ==
  ASSUME NEW names, NEW use, UseError(names, use) = "no_error"
  PROVE  names[use.name] # Undefined
BY DEF UseError

\* The byte code of a text that has been compiled, whether up to an error or
\* to the end.
LEMMA CodeTyped ==
  ASSUME NEW v \in Typed, NEW text \in Texts
  PROVE  LET k    == CompiledUses(v.names, text.elems)
             uses == [i \in 1..k |-> Compiled(v.names[text.elems[i].name])]
             last == CompiledAtError(v.names, text.elems[k + 1])
             Fine == {o \in Op : o.op = "cPCall" => o.arg \in 1..Len(v.links)}
         IN  /\ k \in Nat
             /\ uses \in Seq(Fine)
             /\ k # Len(text.elems) =>
                  /\ uses \o last \in Seq(Fine)
                  /\ UseError(v.names, text.elems[k + 1]) \in ErrorTypes
<1> DEFINE elems == text.elems
           k     == CompiledUses(v.names, elems)
           uses  == [i \in 1..k |-> Compiled(v.names[elems[i].name])]
           last  == CompiledAtError(v.names, elems[k + 1])
           Fine  == {o \in Op : o.op = "cPCall" => o.arg \in 1..Len(v.links)}
           Use   == [name : Names, form : {"plain", "call", "unit"}]
<1>1. elems \in Seq(Use) /\ Len(elems) \in Nat
  <2>1. PICK input \in Inputs : text = input.text
    BY DEF Texts
  <2>2. QED  BY <2>1, InputsAssumption, LenProperties
<1>2. /\ k \in 0..Len(elems)
      /\ \A i \in 1..k : UseError(v.names, elems[i]) = "no_error"
  BY <1>1, CompiledUsesStops
<1>3. /\ k \in Nat /\ \A i \in 1..k : elems[i] \in Use
      /\ k # Len(elems) => elems[k + 1] \in Use
  <2>1. \A i \in 1..k : i \in 1..Len(elems)
    BY <1>1, <1>2
  <2>2. k # Len(elems) => k + 1 \in 1..Len(elems)
    BY <1>1, <1>2
  <2>3. \A i \in 1..Len(elems) : elems[i] \in Use
    BY <1>1, ElementOfSeq
  <2>4. k \in Nat
    BY <1>1, <1>2
  <2> HIDE DEF elems, Use, k
  <2>5. QED  BY <2>1, <2>2, <2>3, <2>4
<1> HIDE DEF elems, k
<1>4. \A use \in Use : v.names[use.name] # Undefined =>
                         Compiled(v.names[use.name]) \in Fine
  BY UseTyped
<1>5. uses \in Seq(Fine)
  <2>1. \A i \in 1..k : Compiled(v.names[elems[i].name]) \in Fine
    BY <1>2, <1>3, <1>4, UseDefined
  <2> HIDE DEF Fine
  <2>2. uses \in [1..k -> Fine]
    BY <2>1
  <2>3. QED  BY <1>3, <2>2, FunctionIsSeq
<1>6. ASSUME k # Len(elems)
      PROVE  last \in Seq(Fine)
  <2>1. elems[k + 1] \in Use
    BY <1>3, <1>6
  <2>2. CASE elems[k + 1].form = "unit"
    <3> DEFINE o == [op |-> "cImmed", arg |-> Literal]
    <3>1. o \in Fine
      BY LiteralAssumption DEF Op
    <3>2. last = <<o>>
      BY <2>2 DEF CompiledAtError
    <3> HIDE DEF o, last, Fine
    <3>3. QED  BY <3>1, <3>2
  <2>3. CASE elems[k + 1].form # "unit"
    <3>1. CASE v.names[elems[k + 1].name] = Undefined \/ v.names[elems[k + 1].name].type = "UNIT"
      <4>1. last = <<>>
        BY <2>3, <3>1 DEF CompiledAtError
      <4>2. QED  BY <4>1, EmptySeq
    <3>2. CASE ~(v.names[elems[k + 1].name] = Undefined \/ v.names[elems[k + 1].name].type = "UNIT")
      <4> DEFINE o == Compiled(v.names[elems[k + 1].name])
      <4>1. o \in Fine
        BY <1>4, <2>1, <3>2
      <4>2. last = <<o>>
        BY <2>3, <3>2 DEF CompiledAtError
      <4> HIDE DEF o, last, Fine
      <4>3. QED  BY <4>1, <4>2
    <3>3. QED  BY <3>1, <3>2
  <2>4. QED  BY <2>2, <2>3
<1>7. k # Len(elems) => UseError(v.names, elems[k + 1]) \in ErrorTypes
  BY <1>3, UseTyped
<1> HIDE DEF uses, last, Fine
<1>8. k # Len(elems) => uses \o last \in Seq(Fine)
  BY <1>5, <1>6, ConcatProperties
<1>9. QED  BY <1>3, <1>5, <1>7, <1>8 DEF elems, k, uses, last, Fine

\* ParseFunction(), and Parse().
LEMMA FunctionParsedTyped ==
  ASSUME NEW v \in Typed, NEW text \in Texts, NEW c
  PROVE  WithFunctionParsed(v, text, c) \in Typed
<1> DEFINE w     == WithFunctionParsed(v, text, c)
           k     == CompiledUses(v.names, text.elems)
           full  == k = Len(text.elems)
           error == UseError(v.names, text.elems[k + 1])
           uses  == [i \in 1..k |-> Compiled(v.names[text.elems[i].name])]
           last  == CompiledAtError(v.names, text.elems[k + 1])
           Fine  == {o \in Op : o.op = "cPCall" => o.arg \in 1..Len(v.links)}
<1>1. v \in Value /\ Callable(v) /\ text.stack \in Nat
  <2>1. PICK input \in Inputs : text = input.text
    BY DEF Texts
  <2>2. QED  BY <2>1, InputsAssumption DEF Typed
<1>2. /\ k \in Nat /\ uses \in Seq(Fine)
      /\ ~full => uses \o last \in Seq(Fine) /\ error \in ErrorTypes
  BY CodeTyped
<1> DEFINE err  == IF ~full THEN error
                   ELSE IF text.tail \in {EndOfText, c} THEN "no_error"
                   ELSE "expect_operator"
           code == IF full THEN uses ELSE uses \o last
           size == IF full THEN text.stack
                   ELSE IF error = "expect_operator" THEN k + 1
                   ELSE k
<1>3. w = [v EXCEPT !.err = err, !.code = code, !.stackSize = size]
  BY DEF WithFunctionParsed
<1> HIDE DEF uses, last, full, error, w, k
<1>4. err \in ErrorTypes /\ code \in Seq(Fine) /\ size \in Nat
  BY <1>1, <1>2 DEF ErrorTypes
<1> HIDE DEF err, code, size
<1>5. code \in Seq(Op) /\ \A i \in 1..Len(code) : code[i] \in Fine
  <2>1. Fine \subseteq Op
    OBVIOUS
  <2> HIDE DEF Fine
  <2>2. QED  BY <1>4, <2>1, SeqMonotonic, ElementOfSeq
<1>6. w \in Value
  BY <1>1, <1>3, <1>4, <1>5 DEF Value
<1>7. w.names = v.names /\ w.links = v.links /\ w.code = code
  BY <1>1, <1>3 DEF Value
<1>8. Callable(w)
  BY <1>1, <1>5, <1>7 DEF Callable
<1>9. QED  BY <1>6, <1>8 DEF Typed, w

\* Parse() gives a Data of the right types whether or not it succeeds.
LEMMA ParsedTyped ==
  ASSUME NEW v \in Typed, NEW tokens \in Seq(Tokens), NEW text \in Texts, NEW c
  PROVE  Parsed(v, tokens, text, c) \in Typed
<1> DEFINE u == WithVariables(v, tokens)
<1>1. u \in Typed
  BY WithVariablesTyped
<1> HIDE DEF u
<1>2. WithFunctionParsed(u, text, c) \in Typed
  BY <1>1, FunctionParsedTyped
<1>3. [u EXCEPT !.err = "invalid_vars"] \in Typed
  BY <1>1 DEF Typed, Value, Callable, ErrorTypes
<1>4. QED  BY <1>2, <1>3 DEF Parsed, u

\* ParseAndDeduceVariables().
LEMMA DeducedTyped ==
  ASSUME NEW v \in Typed, NEW text \in Texts, NEW c
  PROVE  Deduced(v, text, c) \in Typed
<1> DEFINE N == DeductionRounds(text)
           R == Rounds(v, text, c)
           Good == {k \in 0..N : /\ R[k].value \in Typed
                                 /\ R[k].names \subseteq Names
                                 /\ IsFiniteSet(R[k].names)}
<1>1. /\ Len(text.elems) \in Nat
      /\ \A i \in 1..Len(text.elems) : text.elems[i].name \in Names
  <2>1. PICK input \in Inputs : text = input.text
    BY DEF Texts
  <2> DEFINE elems == text.elems
             Use   == [name : Names, form : {"plain", "call", "unit"}]
  <2>2. elems \in Seq(Use)
    BY <2>1, InputsAssumption
  <2> HIDE DEF elems
  <2>3. Len(elems) \in Nat /\ \A i \in 1..Len(elems) : elems[i] \in Use
    BY <2>2, LenProperties, ElementOfSeq
  <2>4. QED  BY <2>3 DEF elems
<1>2. N \in Nat
  BY <1>1 DEF DeductionRounds
<1>3. /\ R[0] = FirstRound(v)
      /\ \A k \in 1..N : R[k] = NextRound(R[k - 1], text, c)
  BY <1>1, RoundsDefined
<1> HIDE DEF N, R
<1>4. 0 \in Good
  <2>1. R[0].value = v /\ R[0].names = {} /\ 0 \in 0..N
    BY <1>2, <1>3 DEF FirstRound
  <2>2. QED  BY <2>1, FS_EmptySet
<1>5. ASSUME NEW k \in 1..N, k - 1 \in Good
      PROVE  k \in Good
  <2> DEFINE r  == R[k - 1]
             w  == Parsed(r.value, SetToSeq(r.names), text, c)
             at == StoppedAt(w, text)
  <2>1. k \in 0..N
    BY <1>2
  <2>2. R[k] = IF r.done THEN r
               ELSE IF at \in {0, r.old}
               THEN [value |-> w, names |-> r.names, old |-> r.old, done |-> TRUE]
               ELSE [value |-> w, names |-> r.names \cup {text.elems[at].name},
                     old |-> at, done |-> FALSE]
    BY <1>3 DEF NextRound
  <2>3. w \in Typed
    <3>1. SetToSeq(r.names) \in Seq(r.names)
      BY <1>5, SetToSeqTyped
    <3>2. r.names \subseteq Tokens
      BY <1>5 DEF Tokens
    <3>3. SetToSeq(r.names) \in Seq(Tokens)
      BY <3>1, <3>2, SeqMonotonic
    <3>4. QED  BY <1>5, <3>3, ParsedTyped
  <2>4. at # 0 => at \in 1..Len(text.elems)
    BY <1>1, CompiledUsesStops DEF StoppedAt
  <2> HIDE DEF w, at
  <2>5. CASE r.done
    BY <1>5, <2>1, <2>2, <2>5
  <2>6. CASE ~r.done /\ at \in {0, r.old}
    <3>1. R[k].value = w /\ R[k].names = r.names
      BY <2>2, <2>6
    <3>2. QED  BY <1>5, <2>1, <2>3, <3>1
  <2>7. CASE ~r.done /\ at \notin {0, r.old}
    <3>1. R[k].value = w /\ R[k].names = r.names \cup {text.elems[at].name}
      BY <2>2, <2>7
    <3>2. text.elems[at].name \in Names
      BY <1>1, <2>4, <2>7
    <3>3. IsFiniteSet(r.names \cup {text.elems[at].name})
      BY <1>5, FS_AddElement
    <3>4. QED  BY <1>5, <2>1, <2>3, <3>1, <3>2, <3>3
  <2>8. QED  BY <2>5, <2>6, <2>7
<1> HIDE DEF Good
<1>6. \A k \in 0..N : k \in Good
  BY <1>2, <1>4, <1>5, Induction
<1>7. N \in Good
  BY <1>2, <1>6
<1>8. QED  BY <1>7 DEF Good, Deduced, Deduction, R, N

(***************************************************************************)
(* Calls of parsers followed to any depth.                                 *)
(***************************************************************************)

\* own gives each parser operations of R, of which every cPCall has a callee.
Resolves(V, own, R) ==
  /\ own \in [Parsers -> Seq(R)]
  /\ [op |-> "cImmed", arg |-> Literal] \in R
  /\ \A p \in Parsers : \A i \in 1..Len(own[p]) :
       own[p][i].op = "cPCall" => V[p].links[own[p][i].arg] \in Parsers

\* The operations that are no cPCall.
CallFree(R) == {o \in R : o.op # "cPCall"}

\* Byte code without calls has none when its variables are bound.
LEMMA BindTyped ==
  ASSUME NEW R, [op |-> "cImmed", arg |-> Literal] \in R, NEW code \in Seq(CallFree(R))
  PROVE  BindVariables(code) \in Seq(CallFree(R))
<1> DEFINE o == [op |-> "cImmed", arg |-> Literal]
           P == CallFree(R)
<1>1. o \in P
  BY DEF CallFree
<1> HIDE DEF o, P
<1>2. /\ Len(code) \in Nat
      /\ \A i \in 1..Len(code) : (IF code[i].op = "var" THEN o ELSE code[i]) \in P
  BY <1>1, LenProperties, ElementOfSeq DEF P
<1>3. BindVariables(code) \in [1..Len(code) -> P]
  BY <1>2 DEF BindVariables, o
<1>4. QED  BY <1>2, <1>3, FunctionIsSeq DEF P

\* To bind variables changes no length.
LEMMA BindLength ==
  ASSUME NEW S, NEW code \in Seq(S)
  PROVE  Len(BindVariables(code)) = Len(code)
<1> DEFINE b == BindVariables(code)
           n == Len(code)
<1>1. n \in Nat
  BY LenProperties
<1>2. b \in [1..n -> {b[i] : i \in 1..n}]
  BY DEF BindVariables
<1> HIDE DEF b, n
<1>3. Len(b) = n
  BY <1>1, <1>2, FunctionIsSeq
<1>4. QED  BY <1>3 DEF b, n

\* The parts that one level of calls joins: an operation, or what a callee does.
Parts(V, own, inner, p) ==
  [i \in 1..Len(own[p]) |-> IF own[p][i].op = "cPCall"
                            THEN BindVariables(inner[V[p].links[own[p][i].arg]])
                            ELSE <<own[p][i]>>]

\* What takes the place of each instruction is a piece of byte code without calls.
LEMMA PartsTyped ==
  ASSUME NEW V, NEW own, NEW R, Resolves(V, own, R), NEW p \in Parsers,
         NEW inner \in [Parsers -> Seq(CallFree(R))]
  PROVE  /\ Parts(V, own, inner, p) \in Seq(Seq(CallFree(R)))
         /\ Len(Parts(V, own, inner, p)) = Len(own[p])
         /\ Len(own[p]) \in Nat /\ \A i \in 1..Len(own[p]) : own[p][i] \in R
         /\ Unfold(V, own, inner)[p] = FlattenSeq(Parts(V, own, inner, p))
<1> DEFINE P       == CallFree(R)
           n       == Len(own[p])
           part(i) == IF own[p][i].op = "cPCall"
                      THEN BindVariables(inner[V[p].links[own[p][i].arg]])
                      ELSE <<own[p][i]>>
           parts   == [i \in 1..n |-> part(i)]
<1>1. /\ own[p] \in Seq(R) /\ n \in Nat /\ \A i \in 1..n : own[p][i] \in R
  BY LenProperties, ElementOfSeq DEF Resolves
<1>2. ASSUME NEW i \in 1..n
      PROVE  part(i) \in Seq(P)
  <2>1. CASE own[p][i].op = "cPCall"
    <3> DEFINE q == V[p].links[own[p][i].arg]
    <3>1. q \in Parsers
      BY <2>1 DEF Resolves
    <3>2. inner[q] \in Seq(P)
      BY <3>1
    <3>3. [op |-> "cImmed", arg |-> Literal] \in R
      BY DEF Resolves
    <3> HIDE DEF q
    <3>4. BindVariables(inner[q]) \in Seq(P)
      BY <3>2, <3>3, BindTyped
    <3>5. QED  BY <2>1, <3>4 DEF q
  <2>2. CASE own[p][i].op # "cPCall"
    <3>1. own[p][i] \in P
      BY <1>1, <2>2 DEF CallFree
    <3> HIDE DEF P
    <3>2. <<own[p][i]>> \in Seq(P)
      BY <3>1
    <3>3. QED  BY <2>2, <3>2
  <2>3. QED  BY <2>1, <2>2
<1>3. Unfold(V, own, inner)[p] = FlattenSeq(parts) /\ Parts(V, own, inner, p) = parts
  BY DEF Unfold, Parts
<1> HIDE DEF P, n, part
<1>4. parts \in [1..n -> Seq(P)]
  BY <1>2
<1>5. parts \in Seq(Seq(P)) /\ Len(parts) = n
  BY <1>1, <1>4, FunctionIsSeq
<1>6. QED  BY <1>1, <1>3, <1>5 DEF P, n

\* One level of calls leaves no cPCall.
LEMMA UnfoldTyped ==
  ASSUME NEW V, NEW own, NEW R, Resolves(V, own, R), NEW inner \in [Parsers -> Seq(CallFree(R))]
  PROVE  Unfold(V, own, inner) \in [Parsers -> Seq(CallFree(R))]
<1>1. SUFFICES ASSUME NEW p \in Parsers
               PROVE  Unfold(V, own, inner)[p] \in Seq(CallFree(R))
  BY DEF Unfold
<1>2. QED  BY PartsTyped, FlattenTyped

\* The levels are the function that its recursive definition describes.
LEMMA LevelsDefined ==
  ASSUME NEW V, NEW own, NEW R, Resolves(V, own, R)
  PROVE  LET N     == Cardinality(Parsers)
             level == Levels(V, own)
         IN  /\ N \in Nat
             /\ level[0] = [p \in Parsers |-> <<>>]
             /\ \A k \in 1..N : level[k] = Unfold(V, own, level[k - 1])
             /\ \A k \in 0..N : level[k] \in [Parsers -> Seq(CallFree(R))]
<1> DEFINE N        == Cardinality(Parsers)
           D        == [Parsers -> Seq(CallFree(R))]
           a        == [p \in Parsers |-> <<>>]
           g        == [k \in 1..N |-> [inner \in D |-> Unfold(V, own, inner)]]
           Body(f)  == [k \in 0..N |-> IF k = 0 THEN a ELSE Unfold(V, own, f[k - 1])]
           level    == Levels(V, own)
<1>1. N \in Nat
  BY ParsersAssumption, FS_CardinalityType
<1>2. a \in D
  BY EmptySeq
<1>3. \A inner \in D : Unfold(V, own, inner) \in D
  BY UnfoldTyped
<1> HIDE DEF N, D, a
<1>4. PICK e : Iterates(e, N, D, a, g)
  <2>1. g \in [1..N -> [D -> D]]
    BY <1>3
  <2> HIDE DEF g
  <2>2. QED  BY <1>1, <1>2, <2>1, Iteration
<1>5. /\ e \in [0..N -> D] /\ e[0] = a
      /\ \A k \in 1..N : e[k] = g[k][e[k - 1]]
  BY <1>4 DEF Iterates
<1>6. e = Body(e)
  <2>1. ASSUME NEW k \in 0..N
        PROVE  e[k] = Body(e)[k]
    <3>1. CASE k = 0
      BY <1>5, <3>1
    <3>2. CASE k # 0
      <4>1. k \in 1..N /\ k - 1 \in 0..N
        BY <1>1, <3>2
      <4>2. e[k] = Unfold(V, own, e[k - 1])
        BY <1>5, <4>1
      <4>3. QED  BY <3>2, <4>2
    <3>3. QED  BY <3>1, <3>2
  <2>2. QED  BY <1>5, <2>1
<1>7. level = CHOOSE f : f = Body(f)
  BY DEF Levels, N, a
<1>8. level = Body(level)
  BY <1>6, <1>7
<1> HIDE DEF level
<1>9. level[0] = a
  <2>1. 0 \in 0..N
    BY <1>1
  <2>2. QED  BY <1>8, <2>1
<1>10. ASSUME NEW k \in 1..N
       PROVE  level[k] = Unfold(V, own, level[k - 1])
  <2>1. k \in 0..N /\ k # 0
    BY <1>1
  <2>2. QED  BY <1>8, <2>1
<1> DEFINE Good == {k \in 0..N : level[k] \in D}
<1>11. \A k \in 0..N : k \in Good
  <2>1. 0 \in Good
    BY <1>1, <1>2, <1>9
  <2>2. ASSUME NEW k \in 1..N, k - 1 \in Good
        PROVE  k \in Good
    <3>1. k \in 0..N
      BY <1>1
    <3>2. QED  BY <1>3, <1>10, <2>2, <3>1
  <2> HIDE DEF Good
  <2>3. QED  BY <1>1, <2>1, <2>2, Induction
<1>12. QED  BY <1>1, <1>9, <1>10, <1>11 DEF N, D, a, level

\* The byte codes of typed values call parsers that exist.
LEMMA CodeResolves ==
  ASSUME NEW V \in [Parsers -> Typed]
  PROVE  Resolves(V, [q \in Parsers |-> V[q].code], Op)
<1> DEFINE own == [q \in Parsers |-> V[q].code]
<1>1. ASSUME NEW q \in Parsers
      PROVE  V[q].code \in Seq(Op) /\ V[q].links \in Seq(Parsers) /\ Callable(V[q])
  <2>1. V[q] \in Typed
    OBVIOUS
  <2>2. QED  BY <2>1 DEF Typed, Value
<1>2. [op |-> "cImmed", arg |-> Literal] \in Op
  BY LiteralAssumption DEF Op
<1>3. own \in [Parsers -> Seq(Op)]
  BY <1>1
<1>4. ASSUME NEW q \in Parsers, NEW i \in 1..Len(own[q]), own[q][i].op = "cPCall"
      PROVE  V[q].links[own[q][i].arg] \in Parsers
  <2>1. own[q][i].arg \in 1..Len(V[q].links)
    BY <1>1, <1>4 DEF Callable
  <2>2. QED  BY <1>1, <2>1, ElementOfSeq
<1> HIDE DEF own
<1>5. Resolves(V, own, Op)
  BY <1>2, <1>3, <1>4 DEF Resolves
<1>6. QED  BY <1>5 DEF own

\* Optimize() leaves byte code without calls of parsers.
LEMMA InlinedTyped ==
  ASSUME NEW V \in [Parsers -> Typed], NEW p \in Parsers
  PROVE  Inlined(V)[p] \in Seq(CallFree(Op))
<1> DEFINE own == [q \in Parsers |-> V[q].code]
           N   == Cardinality(Parsers)
           D   == [Parsers -> Seq(CallFree(Op))]
<1>1. Resolves(V, own, Op)
  BY CodeResolves
<1>2. Inlined(V) = Levels(V, own)[N]
  BY DEF Inlined, Unfolded
<1> HIDE DEF own
<1>3. N \in Nat /\ \A k \in 0..N : Levels(V, own)[k] \in D
  BY <1>1, LevelsDefined
<1> HIDE DEF D
<1>4. Levels(V, own)[N] \in D
  BY <1>3
<1>5. QED  BY <1>2, <1>4 DEF D

\* Every call gives an object a value of this type.
LEMMA CallTyped ==
  ASSUME NEW V \in [Parsers -> Typed], NEW p \in Parsers, NEW v, CallGives(V, p, v)
  PROVE  v \in Typed
<1>1. V[p] \in Typed
  OBVIOUS
<1>2. ASSUME NEW n \in Names,
             \/ \E x \in Numbers : v = WithConstant(V[p], n, x) \/ v = WithUnit(V[p], n, x)
             \/ \E f \in Funcs : v = WithFunction(V[p], n, f)
             \/ \E q \in Parsers : v = WithParser(V[p], n, q)
             \/ v = Without(V[p], n)
      PROVE  v \in Typed
  BY <1>1, <1>2, TableCallTyped
<1>3. ASSUME NEW c, NEW input \in Inputs, v = Parsed(V[p], input.vars, input.text, c)
      PROVE  v \in Typed
  <2>1. input.vars \in Seq(Tokens) /\ input.text \in Texts
    BY InputsAssumption DEF Texts
  <2>2. QED  BY <1>1, <1>3, <2>1, ParsedTyped
<1>4. ASSUME NEW c, NEW text \in Texts, v = Deduced(V[p], text, c)
      PROVE  v \in Typed
  BY <1>1, <1>4, DeducedTyped
<1>5. ASSUME NEW size \in StackSizes, v = Optimized(V, p, size)
      PROVE  v \in Typed
  <2> DEFINE code == Inlined(V)[p]
  <2>1. size \in Nat
    BY InputsAssumption DEF StackSizes, Texts
  <2>2. code \in Seq(CallFree(Op))
    BY InlinedTyped
  <2>3. V[p] \in Value /\ Callable(V[p])
    BY <1>1 DEF Typed
  <2>4. v = [V[p] EXCEPT !.code = code, !.stackSize = size]
    BY <1>5 DEF Optimized
  <2> HIDE DEF code
  <2>5. code \in Seq(Op) /\ \A i \in 1..Len(code) : code[i].op # "cPCall"
    <3>1. CallFree(Op) \subseteq Op
      BY DEF CallFree
    <3>2. code \in Seq(Op)
      BY <2>2, <3>1, SeqMonotonic
    <3>3. \A i \in 1..Len(code) : code[i] \in CallFree(Op)
      BY <2>2, ElementOfSeq
    <3>4. QED  BY <3>2, <3>3 DEF CallFree
  <2>6. v \in Value
    BY <2>1, <2>3, <2>4, <2>5 DEF Value
  <2>7. v.names = V[p].names /\ v.links = V[p].links /\ v.code = code
    BY <2>3, <2>4 DEF Value
  <2>8. Callable(v)
    BY <2>3, <2>5, <2>7 DEF Callable
  <2>9. QED  BY <2>6, <2>8 DEF Typed
<1>6. QED  BY <1>2, <1>3, <1>4, <1>5 DEF CallGives

(***************************************************************************)
(* The objects, whose values are those of ValueSemantics, and the blocks.  *)
(***************************************************************************)
ValTyped == Val \in [Parsers -> Typed]

\* Every call of the abstract objects gives values of the right types.
LEMMA ValStep ==
  ASSUME ValTyped, [Copies!Next]_<<Live, Val>>
  PROVE  ValTyped'
<1>1. CASE UNCHANGED <<Live, Val>>
  BY <1>1 DEF ValTyped
<1>2. ASSUME NEW p \in Parsers, NEW v \in Typed, Val' = [Val EXCEPT ![p] = v]
      PROVE  ValTyped'
  BY <1>2 DEF ValTyped
<1>3. CASE Copies!Next
  <2>1. PICK p \in Parsers :
          \/ Copies!Create(p)
          \/ Copies!Delete(p)
          \/ \E q \in Parsers : Copies!Copy(p, q)
          \/ Copies!Call(p)
    BY <1>3 DEF Copies!Next
  <2>2. CASE Copies!Create(p) \/ Copies!Delete(p)
    BY <1>2, <2>2, NewValueTyped DEF Copies!Create, Copies!Delete, Copies!Becomes
  <2>3. ASSUME NEW q \in Parsers, Copies!Copy(p, q)
        PROVE  ValTyped'
    <3>1. Val[q] \in Typed /\ Val' = [Val EXCEPT ![p] = Val[q]]
      BY <2>3 DEF ValTyped, Copies!Copy, Copies!Becomes
    <3>2. QED  BY <1>2, <3>1
  <2>4. CASE Copies!Call(p)
    <3>1. CallGives(Val, p, Val'[p]) /\ Val' = [Val EXCEPT ![p] = Val'[p]]
      BY <2>4 DEF Copies!Call, Copies!Becomes
    <3>2. Val'[p] \in Typed
      BY <3>1, CallTyped DEF ValTyped
    <3>3. QED  BY <1>2, <3>1, <3>2
  <2>5. QED  BY <2>1, <2>2, <2>3, <2>4
<1>4. QED  BY <1>1, <1>2, <1>3

\* After a step, a block that exists is some object's, so it holds a value.
LEMMA BodyTypedAfter ==
  ASSUME RefCountsExact', FreeIsNew', ValTyped'
  PROVE  \A d \in Blocks : body'[d] \in Value
<1>1. SUFFICES ASSUME NEW d \in Blocks
               PROVE  body'[d] \in Value
  OBVIOUS
<1>2. CASE refs'[d] = 0
  BY <1>2, NewValueTyped DEF FreeIsNew, Typed
<1>3. CASE refs'[d] # 0
  <2>1. {p \in Parsers : data'[p] = d} # {}
    BY <1>3, FS_EmptySet DEF RefCountsExact
  <2>2. PICK p \in Parsers : data'[p] = d
    BY <2>1
  <2>3. Val'[p] = body'[d]
    BY <2>2, BlocksAssumption DEF Val, Live
  <2>4. QED  BY <2>3 DEF ValTyped, Typed
<1>4. QED  BY <1>2, <1>3

\* The types of what blocks and wrappers hold besides.
Stores ==
  /\ body \in [Blocks -> Value]
  /\ stackLen \in [Blocks -> Nat]
  /\ wrapperRefs \in [Wrappers -> Nat]

\* A step that writes to a block keeps them.
LEMMA StoresKept ==
  ASSUME SInv', ValTyped', Stores, NEW d \in Blocks, NEW x, NEW len \in Nat,
         body' = body \/ body' = [body EXCEPT ![d] = x],
         stackLen' = stackLen \/ stackLen' = [stackLen EXCEPT ![d] = len],
         wrapperRefs' = wrapperRefs \/ wrapperRefs' = [w \in Wrappers |-> wrapperRefs'[w]]
  PROVE  Stores'
<1>1. \A e \in Blocks : body'[e] \in Value
  BY BodyTypedAfter DEF SInv, IInv, Counted
<1>2. \A w \in Wrappers : wrapperRefs'[w] \in Nat
  BY DEF SInv, HoldersCounted
<1>3. QED  BY <1>1, <1>2 DEF Stores

\* The blocks that nobody points to, the wrapper counts and the stacks keep theirs.
LEMMA StoresStep ==
  ASSUME SInv, SInv', ValTyped', Stores, [Next]_vars
  PROVE  Stores'
<1>1. /\ \A p \in Live : data[p] \in Blocks
      /\ \A p \in Live, d \in Blocks : StackOf(p, d) \in Nat
  BY Typing DEF SInv, Stores, StackOf, Value
<1>2. CASE UNCHANGED vars
  BY <1>2 DEF vars, Stores
<1>3. ASSUME NEW p \in Live, NEW d \in Blocks, NEW v, NEW len \in Nat, NEW new,
             Rewrites(p, d, v, len, new)
      PROVE  Stores'
  BY <1>3, StoresKept DEF Rewrites, CountWrappers
<1>4. ASSUME NEW p \in Live, Unreference(data[p])
      PROVE  Stores'
  BY <1>1, <1>4, StoresKept DEF Unreference, ReleaseWrappers
<1>5. ASSUME NEW p \in Live, NEW v, Change(p, v)
      PROVE  Stores'
  BY <1>1, <1>3, <1>5 DEF Change, Rewrites
<1>6. ASSUME NEW p \in Live, NEW text, NEW v, Reparse(p, text, v)
      PROVE  Stores'
  <2>1. PICK d \in Blocks :
          Rewrites(p, d, v, IF ParsedToEnd(v, text) THEN v.stackSize ELSE StackOf(p, d), {})
    BY <1>6 DEF Reparse, Rewrites
  <2>2. v.stackSize \in Nat
    <3>1. body' = [body EXCEPT ![d] = v]
      BY <2>1 DEF Rewrites
    <3>2. body'[d] \in Value /\ body'[d] = v
      BY <3>1, BodyTypedAfter DEF SInv, IInv, Counted, Stores
    <3>3. QED  BY <3>2 DEF Value
  <2>3. QED  BY <1>1, <1>3, <2>1, <2>2
<1>7. ASSUME NEW p \in Parsers, Construct(p)
      PROVE  Stores'
  <2>1. PICK d \in Blocks : /\ body' = [body EXCEPT ![d] = NewValue]
                            /\ stackLen' = [stackLen EXCEPT ![d] = 0]
    BY <1>7 DEF Construct
  <2>2. wrapperRefs' = wrapperRefs
    BY <1>7 DEF Construct
  <2>3. QED  BY <2>1, <2>2, StoresKept
<1>8. ASSUME NEW p \in Parsers, NEW n \in UserNames, NEW w \in Wrappers,
             AddFunctionWrapper(p, n, w)
      PROVE  Stores'
  BY <1>1, <1>3, <1>8 DEF AddFunctionWrapper, Rewrites
<1>9. ASSUME NEW p \in Parsers, NEW size \in StackSizes, Optimize(p, size)
      PROVE  Stores'
  <2>1. size \in Nat
    BY InputsAssumption DEF StackSizes, Texts
  <2>2. QED  BY <1>1, <1>3, <1>9, <2>1 DEF Optimize, Rewrites
<1>10. CASE Next
  <2>1. PICK p \in Parsers :
          \/ Construct(p)
          \/ Destroy(p)
          \/ ForceDeepCopy(p)
          \/ \E q \in Parsers : CopyConstruct(p, q) \/ Assign(p, q)
          \/ \E n \in UserNames : RemoveIdentifier(p, n)
          \/ \E n \in UserNames, x \in UserNumbers : AddConstant(p, n, x) \/ AddUnit(p, n, x)
          \/ \E n \in UserNames, f \in RawFuncs : AddFunction(p, n, f)
          \/ \E n \in UserNames, w \in Wrappers : AddFunctionWrapper(p, n, w)
          \/ \E n \in UserNames, q \in Parsers : AddParser(p, n, q)
          \/ \E c \in Delimiters : SetDelimiterChar(p, c)
          \/ \E input \in Inputs : Parse(p, input.vars, input.text)
          \/ \E text \in DeducedTexts : ParseAndDeduceVariables(p, text)
          \/ \E size \in StackSizes : Optimize(p, size)
    BY <1>10 DEF Next
  <2>2. CASE \/ ForceDeepCopy(p)
             \/ \E n \in UserNames : RemoveIdentifier(p, n)
             \/ \E n \in UserNames, x \in UserNumbers : AddConstant(p, n, x) \/ AddUnit(p, n, x)
             \/ \E n \in UserNames, f \in RawFuncs : AddFunction(p, n, f)
             \/ \E n \in UserNames, q \in Parsers : AddParser(p, n, q)
    BY <1>5, <2>2 DEF ForceDeepCopy, RemoveIdentifier, AddConstant, AddUnit, AddFunction, AddParser
  <2>3. CASE \/ \E input \in Inputs : Parse(p, input.vars, input.text)
             \/ \E text \in DeducedTexts : ParseAndDeduceVariables(p, text)
    BY <1>6, <2>3 DEF Parse, ParseAndDeduceVariables
  <2>4. CASE Destroy(p) \/ \E q \in Parsers : Assign(p, q)
    BY <1>4, <2>4 DEF Destroy, Assign
  <2>5. CASE \/ \E q \in Parsers : CopyConstruct(p, q)
             \/ \E c \in Delimiters : SetDelimiterChar(p, c)
    BY <2>5 DEF CopyConstruct, SetDelimiterChar, Stores
  <2>6. QED  BY <1>7, <1>8, <1>9, <2>1, <2>2, <2>3, <2>4, <2>5
<1>11. QED  BY <1>2, <1>10

\* Before the first call all values are new.
LEMMA ValInitially ==
  ASSUME Init
  PROVE  ValTyped
BY NewValueTyped DEF Init, ValTyped, Val, Live

\* In every reachable state each variable has its type: every value of Data is
\* one that the functions which read it, Eval() and Optimize(), can interpret.
THEOREM TypesCorrect == Spec => []TypeOK
<1>1. Init => SInv /\ ValTyped /\ Stores
  <2>1. SUFFICES ASSUME Init
                 PROVE  SInv /\ ValTyped /\ Stores
    OBVIOUS
  <2>2. SInv
    BY <2>1, SInitially
  <2>3. ValTyped
    BY <2>1, ValInitially
  <2>4. Stores
    BY <2>1, NewValueTyped DEF Init, Stores, Typed
  <2>5. QED  BY <2>2, <2>3, <2>4
<1>2. SInv /\ ValTyped /\ Stores /\ [Next]_vars => (SInv /\ ValTyped /\ Stores)'
  <2>1. SUFFICES ASSUME SInv, ValTyped, Stores, [Next]_vars
                 PROVE  (SInv /\ ValTyped /\ Stores)'
    OBVIOUS
  <2>2. SInv'
    BY <2>1, SStep
  <2>3. ValTyped'
    BY <2>1, Step, ValStep DEF SInv
  <2>4. Stores'
    BY <2>1, <2>2, <2>3, StoresStep
  <2>5. QED  BY <2>2, <2>3, <2>4
<1>3. SInv /\ Stores => TypeOK
  BY DEF SInv, IInv, Counted, Stores, TypeOK
<1>4. QED  BY <1>1, <1>2, <1>3, PTL DEF Spec

(***************************************************************************)
(* AddFunction() of parsers closes no loop.                                *)
(***************************************************************************)

\* A new edge from p to q closes a loop only if q leads to p.
LEMMA NoReturnNoLoop ==
  ASSUME NEW E, NEW F, NEW p \in Parsers, NEW q \in Parsers,
         NoLoopIn(E, Parsers), ~Reaches(E, q, p),
         \A r \in Parsers \ {p} : F[r] = E[r],
         F[p] \subseteq E[p] \cup {q}
  PROVE  NoLoopIn(F, Parsers)
<1>1. SUFFICES ASSUME NEW T \in SUBSET Parsers, T # {},
                      \A r \in T : F[r] \cap T # {}
               PROVE  FALSE
  BY DEF NoLoopIn
<1>2. PICK S \in SUBSET Parsers :
        q \in S /\ (\A r \in S : E[r] \subseteq S) /\ p \notin S
  BY DEF Reaches
<1>3. CASE q \notin T
  <2>1. \A r \in T : E[r] \cap T # {}
    BY <1>1, <1>3
  <2>2. QED  BY <1>1, <2>1 DEF NoLoopIn
<1>4. CASE q \in T
  <2>1. T \cap S \in (SUBSET Parsers) \ {{}}
    BY <1>2, <1>4
  <2>2. PICK r \in T \cap S : E[r] \cap (T \cap S) = {}
    BY <2>1 DEF NoLoopIn
  <2>3. F[r] = E[r] /\ E[r] \subseteq S
    BY <1>2, <2>2
  <2>4. QED  BY <1>1, <2>2, <2>3
<1>5. QED  BY <1>3, <1>4

\* From links without a loop, AddFunction() makes links without a loop.
LEMMA AddParserClosesNoLoop ==
  ASSUME SInv, ValTyped, NEW p \in Parsers, NEW q \in Parsers, NEW n \in Names,
         AddParser(p, n, q), Acyclic(Val)
  PROVE  Acyclic(Val')
<1> DEFINE v == WithParser(Val[p], n, q)
           E == Linked(Val)
           F == Linked(Val')
<1>1. Val' = [Val EXCEPT ![p] = v]
  <2>1. Writes(p, v)
    BY ChangeWrites DEF AddParser
  <2>2. QED  BY <2>1, WritesValue DEF SInv
<1>2. DOMAIN Val = Parsers /\ Val[p] \in Value
  BY DEF ValTyped, Typed
<1>3. ToSet(v.links) \subseteq ToSet(Val[p].links) \cup {q}
  <2>1. v.links = Val[p].links \/ v.links = Append(Val[p].links, q)
    BY <1>2 DEF WithParser, WithName, Value
  <2>2. Val[p].links \in Seq(Parsers)
    BY <1>2 DEF Value
  <2> HIDE DEF v
  <2>3. QED  BY <2>1, <2>2, AppendSet
<1> HIDE DEF v
<1>4. \A r \in Parsers \ {p} : F[r] = E[r]
  BY <1>1, <1>2 DEF Linked
<1>5. F[p] \subseteq E[p] \cup {q}
  BY <1>1, <1>2, <1>3 DEF Linked
<1>6. NoLoopIn(E, Parsers) /\ ~Reaches(E, q, p)
  BY DEF Acyclic, AddParser
<1> HIDE DEF E, F
<1>7. NoLoopIn(F, Parsers)
  BY <1>4, <1>5, <1>6, NoReturnNoLoop
<1>8. QED  BY <1>7 DEF F, Acyclic

\* No call of AddFunction() closes the first loop of parsers that call each
\* other, from whatever links earlier calls, copies and assignments have left.
THEOREM NoLoopClosed == Spec => AddFunctionClosesNoLoop
<1>1. Init => SInv /\ ValTyped
  BY SInitially, ValInitially
<1>2. SInv /\ ValTyped /\ [Next]_vars => (SInv /\ ValTyped)'
  BY SStep, Step, ValStep DEF SInv
<1>3. SInv /\ ValTyped /\ [Next]_vars =>
        (Linked(Val') # Linked(Val) /\ Acyclic(Val) /\ ~Acyclic(Val')
           => ~\E p, q \in Parsers, n \in UserNames : AddParser(p, n, q))
  BY UserAssumption, AddParserClosesNoLoop
<1>4. QED  BY <1>1, <1>2, <1>3, PTL DEF Spec, AddFunctionClosesNoLoop

(***************************************************************************)
(* Calls that work on the table of identifiers change no meaning.          *)
(***************************************************************************)

MeaningOps == Op \cup [op : {"call"}, arg : Funcs] \cup [op : {"zero", "nowhere"}, arg : {0}]

\* No operation refers to an index beyond its table.
Found(code) == \A i \in 1..Len(code) : code[i].op # "nowhere"

\* A function in the meaning of byte code is one that the table has, or is nowhere.
LEMMA ResolvedTyped ==
  ASSUME NEW v \in Typed, NEW o \in Op
  PROVE  /\ Resolved(v, o) \in MeaningOps
         /\ o.op # "cFCall" => Resolved(v, o) = o
         /\ o.op = "cFCall" => Resolved(v, o).op \in {"call", "nowhere"}
<1>1. o.op \in {"var", "cImmed", "cPCall", "cFCall"}
  BY DEF Op
<1>2. CASE o.op # "cFCall"
  <2>1. Resolved(v, o) = o
    BY <1>1, <1>2 DEF Resolved
  <2>2. QED  BY <1>2, <2>1 DEF MeaningOps
<1>3. CASE o.op = "cFCall" /\ o.arg \in DOMAIN v.funcs
  <2>1. Resolved(v, o) = [op |-> "call", arg |-> v.funcs[o.arg]]
    BY <1>3 DEF Resolved
  <2>2. v.funcs \in Seq(Funcs)
    BY DEF Typed, Value
  <2>3. v.funcs[o.arg] \in Funcs
    BY <1>3, <2>2, LenProperties, ElementOfSeq
  <2>4. QED  BY <1>3, <2>1, <2>3 DEF MeaningOps
<1>4. CASE o.op = "cFCall" /\ o.arg \notin DOMAIN v.funcs
  <2>1. Resolved(v, o) = [op |-> "nowhere", arg |-> 0]
    BY <1>4 DEF Resolved
  <2>2. QED  BY <1>4, <2>1 DEF MeaningOps
<1>5. QED  BY <1>2, <1>3, <1>4

\* What a byte code means of itself is an instruction for each of its own.
LEMMA OwnMeaningTyped ==
  ASSUME NEW v \in Typed
  PROVE  /\ OwnMeaning(v) \in Seq(MeaningOps)
         /\ Len(OwnMeaning(v)) \in Nat
         /\ \A i \in 1..Len(OwnMeaning(v)) :
              OwnMeaning(v)[i].op = "cPCall" => /\ OwnMeaning(v)[i].arg \in 1..Len(v.links)
                                                /\ v.links[OwnMeaning(v)[i].arg] \in Parsers
<1>1. v \in Value /\ Callable(v) /\ v.code \in Seq(Op) /\ v.links \in Seq(Parsers)
  BY DEF Typed, Value
<1>2. Len(v.code) \in Nat /\ \A i \in 1..Len(v.code) : v.code[i] \in Op
  BY <1>1, LenProperties, ElementOfSeq
<1>3. CASE v.err # "no_error"
  <2> DEFINE o == [op |-> "zero", arg |-> 0]
  <2>1. o \in MeaningOps /\ o.op # "cPCall"
    BY DEF MeaningOps
  <2>2. OwnMeaning(v) = <<o>>
    BY <1>3 DEF OwnMeaning
  <2> HIDE DEF o
  <2>3. QED  BY <2>1, <2>2
<1>4. CASE v.err = "no_error"
  <2> DEFINE n == Len(v.code)
             m == [i \in 1..n |-> Resolved(v, v.code[i])]
  <2>1. OwnMeaning(v) = m
    BY <1>4 DEF OwnMeaning
  <2>2. m \in [1..n -> MeaningOps]
    BY <1>2, ResolvedTyped
  <2>3. m \in Seq(MeaningOps) /\ Len(m) = n /\ n \in Nat
    <3> HIDE DEF m
    <3>1. QED  BY <1>2, <2>2, FunctionIsSeq
  <2>4. ASSUME NEW i \in 1..n, m[i].op = "cPCall"
        PROVE  m[i].arg \in 1..Len(v.links) /\ v.links[m[i].arg] \in Parsers
    <3>1. v.code[i] \in Op /\ m[i] = Resolved(v, v.code[i])
      BY <1>2
    <3>2. v.code[i].op = "cPCall" /\ m[i] = v.code[i]
      BY <2>4, <3>1, ResolvedTyped
    <3>3. v.code[i].arg \in 1..Len(v.links)
      BY <1>1, <3>2 DEF Callable
    <3>4. QED  BY <1>1, <3>2, <3>3, ElementOfSeq
  <2> HIDE DEF m, n
  <2>5. QED  BY <2>1, <2>3, <2>4
<1>5. QED  BY <1>3, <1>4

\* The meanings of typed values call parsers that exist.
LEMMA MeaningsResolve ==
  ASSUME NEW V \in [Parsers -> Typed]
  PROVE  Resolves(V, [p \in Parsers |-> OwnMeaning(V[p])], MeaningOps)
<1>1. [op |-> "cImmed", arg |-> Literal] \in MeaningOps
  BY LiteralAssumption DEF MeaningOps, Op
<1>2. QED  BY <1>1, OwnMeaningTyped DEF Resolves

\* A meaning has no calls of parsers left.
LEMMA MeaningsTyped ==
  ASSUME NEW V \in [Parsers -> Typed], NEW p \in Parsers
  PROVE  Meanings(V)[p] \in Seq(CallFree(MeaningOps))
<1> DEFINE N   == Cardinality(Parsers)
           own == [q \in Parsers |-> OwnMeaning(V[q])]
           D   == [Parsers -> Seq(CallFree(MeaningOps))]
<1>1. Meanings(V) = Levels(V, own)[N]
  BY DEF Meanings, Unfolded
<1>2. Resolves(V, own, MeaningOps)
  BY MeaningsResolve
<1> HIDE DEF own
<1>3. N \in Nat /\ \A k \in 0..N : Levels(V, own)[k] \in D
  BY <1>2, LevelsDefined
<1> HIDE DEF D
<1>4. Levels(V, own)[N] \in D
  BY <1>3
<1>5. QED  BY <1>1, <1>4 DEF D

\* What a parser does itself, where it is found, is what it did.
LEMMA OwnMeaningKept ==
  ASSUME NEW v \in Typed, NEW w \in Typed, Extends(v, w)
  PROVE  LET m == OwnMeaning(v)
             l == OwnMeaning(w)
         IN  /\ Len(l) = Len(m)
             /\ \A i \in 1..Len(m) : m[i].op # "nowhere" => l[i] = m[i]
             /\ \A i \in 1..Len(m) : m[i].op = "cPCall" => w.links[m[i].arg] = v.links[m[i].arg]
<1>1. /\ v.code \in Seq(Op) /\ Len(v.code) \in Nat /\ w.err = v.err /\ w.code = v.code
      /\ \A i \in 1..Len(v.code) : v.code[i] \in Op
  BY LenProperties, ElementOfSeq DEF Typed, Value, Extends
<1>2. ASSUME NEW i \in 1..Len(OwnMeaning(v)), OwnMeaning(v)[i].op = "cPCall"
      PROVE  w.links[OwnMeaning(v)[i].arg] = v.links[OwnMeaning(v)[i].arg]
  <2>1. OwnMeaning(v)[i].arg \in DOMAIN v.links
    <3>1. v.links \in Seq(Parsers)
      BY DEF Typed, Value
    <3>2. QED  BY <1>2, <3>1, OwnMeaningTyped, LenProperties
  <2>2. QED  BY <2>1 DEF Extends
<1>3. CASE v.err # "no_error"
  <2>1. OwnMeaning(w) = OwnMeaning(v)
    BY <1>1, <1>3 DEF OwnMeaning
  <2>2. QED  BY <1>2, <2>1
<1>4. CASE v.err = "no_error"
  <2> DEFINE n == Len(v.code)
             m == [i \in 1..n |-> Resolved(v, v.code[i])]
             l == [i \in 1..n |-> Resolved(w, v.code[i])]
  <2>1. OwnMeaning(v) = m /\ OwnMeaning(w) = l
    BY <1>1, <1>4 DEF OwnMeaning
  <2>2. Len(m) = n /\ Len(l) = n
    <3>1. m \in [1..n -> MeaningOps] /\ l \in [1..n -> MeaningOps]
      BY <1>1, ResolvedTyped
    <3> HIDE DEF m, l
    <3>2. QED  BY <1>1, <3>1, FunctionIsSeq
  <2>3. ASSUME NEW i \in 1..n, m[i].op # "nowhere"
        PROVE  l[i] = m[i]
    <3> DEFINE o == v.code[i]
    <3>1. o \in Op /\ m[i] = Resolved(v, o) /\ l[i] = Resolved(w, o)
      BY <1>1
    <3> HIDE DEF o, m, l
    <3>2. CASE o.op # "cFCall"
      BY <3>1, <3>2, ResolvedTyped
    <3>3. CASE o.op = "cFCall" /\ o.arg \in DOMAIN v.funcs
      <4>1. o.arg \in DOMAIN w.funcs /\ w.funcs[o.arg] = v.funcs[o.arg]
        BY <3>3 DEF Extends
      <4>2. QED  BY <3>1, <3>3, <4>1 DEF Resolved
    <3>4. CASE o.op = "cFCall" /\ o.arg \notin DOMAIN v.funcs
      <4>1. Resolved(v, o) = [op |-> "nowhere", arg |-> 0]
        BY <3>4 DEF Resolved
      <4>2. QED  BY <2>3, <3>1, <4>1
    <3>5. QED  BY <3>2, <3>3, <3>4
  <2> HIDE DEF m, l, n
  <2>4. QED  BY <1>2, <2>1, <2>2, <2>3
<1>5. QED  BY <1>3, <1>4

\* One level of calls: where everything is found, it stays as it was if what
\* the callees do does.
LEMMA UnfoldKept ==
  ASSUME NEW V \in [Parsers -> Typed], NEW W \in [Parsers -> Typed],
         \A q \in Parsers : Extends(V[q], W[q]),
         NEW A \in [Parsers -> Seq(CallFree(MeaningOps))],
         NEW B \in [Parsers -> Seq(CallFree(MeaningOps))],
         \A q \in Parsers : Found(A[q]) => B[q] = A[q],
         NEW p \in Parsers,
         Found(Unfold(V, [q \in Parsers |-> OwnMeaning(V[q])], A)[p])
  PROVE  Unfold(W, [q \in Parsers |-> OwnMeaning(W[q])], B)[p]
           = Unfold(V, [q \in Parsers |-> OwnMeaning(V[q])], A)[p]
<1> DEFINE own   == [q \in Parsers |-> OwnMeaning(V[q])]
           new   == [q \in Parsers |-> OwnMeaning(W[q])]
           m     == OwnMeaning(V[p])
           l     == OwnMeaning(W[p])
           a     == Parts(V, own, A, p)
           b     == Parts(W, new, B, p)
           whole == FlattenSeq(a)
<1>1. Resolves(V, own, MeaningOps) /\ Resolves(W, new, MeaningOps)
  BY MeaningsResolve
<1>2. own[p] = m /\ new[p] = l
  OBVIOUS
<1> HIDE DEF own, new
<1>3. /\ a \in Seq(Seq(CallFree(MeaningOps))) /\ Len(a) = Len(m) /\ Len(m) \in Nat
      /\ Unfold(V, own, A)[p] = whole
      /\ b \in Seq(Seq(CallFree(MeaningOps))) /\ Len(b) = Len(l)
      /\ Unfold(W, new, B)[p] = FlattenSeq(b)
  BY <1>1, <1>2, PartsTyped
<1>4. /\ Len(l) = Len(m)
      /\ \A i \in 1..Len(m) : m[i].op # "nowhere" => l[i] = m[i]
      /\ \A i \in 1..Len(m) : m[i].op = "cPCall" =>
           W[p].links[m[i].arg] = V[p].links[m[i].arg]
  BY OwnMeaningKept
<1>5. \A i \in 1..Len(m) : m[i].op = "cPCall" => V[p].links[m[i].arg] \in Parsers
  BY OwnMeaningTyped
<1>6. /\ \A i \in 1..Len(m) :
           a[i] = IF m[i].op = "cPCall" THEN BindVariables(A[V[p].links[m[i].arg]])
                                        ELSE <<m[i]>>
      /\ \A i \in 1..Len(m) :
           b[i] = IF l[i].op = "cPCall" THEN BindVariables(B[W[p].links[l[i].arg]])
                                        ELSE <<l[i]>>
  BY <1>2, <1>4 DEF Parts
<1> HIDE DEF a, b
<1>7. \A i \in 1..Len(m) : ToSet(a[i]) \subseteq ToSet(whole)
  BY <1>3, FlattenTyped
<1>8. whole \in Seq(CallFree(MeaningOps)) /\ DOMAIN whole = 1..Len(whole)
  BY <1>3, FlattenTyped, LenProperties
<1>9. \A o \in ToSet(whole) : o.op # "nowhere"
  <2>1. Found(whole)
    BY <1>3 DEF own
  <2>2. QED  BY <1>8, <2>1 DEF Found, ToSet
<1> HIDE DEF m, l, whole
<1>10. ASSUME NEW i \in 1..Len(m)
       PROVE  b[i] = a[i]
  <2>1. a[i] \in Seq(CallFree(MeaningOps)) /\ DOMAIN a[i] = 1..Len(a[i])
    BY <1>3, ElementOfSeq, LenProperties
  <2>2. \A j \in 1..Len(a[i]) : a[i][j] \in ToSet(whole)
    BY <1>7, <2>1 DEF ToSet
  <2>3. \A j \in 1..Len(a[i]) : a[i][j].op # "nowhere"
    BY <1>9, <2>2
  <2>4. CASE m[i].op = "cPCall"
    <3> DEFINE q == V[p].links[m[i].arg]
    <3>1. q \in Parsers /\ W[p].links[m[i].arg] = q
      BY <1>4, <1>5, <2>4
    <3>2. a[i] = BindVariables(A[q])
      BY <1>6, <2>4
    <3>3. l[i] = m[i]
      BY <1>4, <2>4
    <3> HIDE DEF q
    <3>4. b[i] = BindVariables(B[q])
      BY <1>6, <2>4, <3>1, <3>3
    <3>5. A[q] \in Seq(CallFree(MeaningOps)) /\ Len(A[q]) \in Nat
      BY <3>1, LenProperties
    <3>6. Len(a[i]) = Len(A[q])
      BY <3>2, <3>5, BindLength
    <3>7. \A j \in 1..Len(A[q]) : A[q][j].op # "nowhere"
      <4>1. ASSUME NEW j \in 1..Len(A[q]), A[q][j].op = "nowhere"
            PROVE  FALSE
        <5>1. a[i][j] = A[q][j]
          BY <3>2, <4>1 DEF BindVariables
        <5>2. QED  BY <2>3, <3>6, <4>1, <5>1
      <4>2. QED  BY <4>1
    <3>8. B[q] = A[q]
      BY <3>1, <3>7 DEF Found
    <3>9. QED  BY <3>2, <3>4, <3>8
  <2>5. CASE m[i].op # "cPCall"
    <3>1. a[i] = <<m[i]>>
      BY <1>6, <2>5
    <3>2. m[i].op # "nowhere"
      <4>1. 1 \in 1..Len(a[i]) /\ a[i][1] = m[i]
        BY <3>1
      <4>2. QED  BY <2>3, <4>1
    <3>3. l[i] = m[i]
      BY <1>4, <3>2
    <3>4. QED  BY <1>6, <2>5, <3>1, <3>3
  <2>6. QED  BY <2>4, <2>5
<1>11. b = a
  BY <1>3, <1>4, <1>10, SeqEqual
<1>12. QED  BY <1>3, <1>11 DEF own, new, whole

\* The meanings of parsers whose tables have been extended.
LEMMA MeaningsKept ==
  ASSUME NEW V \in [Parsers -> Typed], NEW W \in [Parsers -> Typed],
         \A q \in Parsers : Extends(V[q], W[q]),
         NEW p \in Parsers, Found(Meanings(V)[p])
  PROVE  Meanings(W)[p] = Meanings(V)[p]
<1> DEFINE N   == Cardinality(Parsers)
           own == [q \in Parsers |-> OwnMeaning(V[q])]
           new == [q \in Parsers |-> OwnMeaning(W[q])]
           A   == Levels(V, own)
           B   == Levels(W, new)
           D   == [Parsers -> Seq(CallFree(MeaningOps))]
           Same(k) == \A q \in Parsers : Found(A[k][q]) => B[k][q] = A[k][q]
           Good    == {k \in 0..N : Same(k)}
<1>1. Resolves(V, own, MeaningOps) /\ Resolves(W, new, MeaningOps)
  BY MeaningsResolve
<1>2. Meanings(V) = A[N] /\ Meanings(W) = B[N]
  BY DEF Meanings, Unfolded
<1>3. ASSUME NEW X \in D, NEW Y \in D, NEW q \in Parsers,
             \A r \in Parsers : Found(X[r]) => Y[r] = X[r],
             Found(Unfold(V, own, X)[q])
      PROVE  Unfold(W, new, Y)[q] = Unfold(V, own, X)[q]
  BY <1>3, UnfoldKept
<1> HIDE DEF own, new
<1>4. /\ N \in Nat
      /\ A[0] = [q \in Parsers |-> <<>>] /\ B[0] = [q \in Parsers |-> <<>>]
      /\ \A k \in 1..N : A[k] = Unfold(V, own, A[k - 1]) /\ B[k] = Unfold(W, new, B[k - 1])
      /\ \A k \in 0..N : A[k] \in D /\ B[k] \in D
  BY <1>1, LevelsDefined
<1> HIDE DEF A, B, D, N
<1>5. 0 \in Good
  BY <1>4
<1>6. ASSUME NEW k \in 1..N, k - 1 \in Good
      PROVE  k \in Good
  <2>1. k \in 0..N /\ k - 1 \in 0..N
    BY <1>4
  <2>2. A[k - 1] \in D /\ B[k - 1] \in D /\ Same(k - 1)
    BY <1>4, <1>6, <2>1
  <2>3. A[k] = Unfold(V, own, A[k - 1]) /\ B[k] = Unfold(W, new, B[k - 1])
    BY <1>4
  <2>4. Same(k)
    BY <1>3, <2>2, <2>3
  <2>5. QED  BY <2>1, <2>4
<1> HIDE DEF Good
<1>7. \A k \in 0..N : k \in Good
  BY <1>4, <1>5, <1>6, Induction
<1>8. Same(N)
  <2>1. N \in Good
    BY <1>4, <1>7
  <2>2. QED  BY <2>1 DEF Good
<1>9. QED  BY <1>2, <1>8

\* A call on the table of one parser extends it.
LEMMA TableCallExtends ==
  ASSUME SInv, ValTyped, TableCall
  PROVE  \A q \in Parsers : Extends(Val[q], Val'[q])
<1>1. ASSUME NEW p \in Parsers, NEW v, Writes(p, v), Extends(Val[p], v)
      PROVE  \A q \in Parsers : Extends(Val[q], Val'[q])
  <2>1. Val' = [Val EXCEPT ![p] = v] /\ DOMAIN Val = Parsers
    BY <1>1, WritesValue DEF SInv, ValTyped
  <2>2. \A v1 : Extends(v1, v1)
    BY DEF Extends
  <2>3. QED  BY <1>1, <2>1, <2>2
<1>2. ASSUME NEW p \in Parsers, NEW n \in Names, NEW w, Writes(p, w),
             \/ \E x \in Numbers : w = WithConstant(Val[p], n, x) \/ w = WithUnit(Val[p], n, x)
             \/ \E f \in Funcs : w = WithFunction(Val[p], n, f)
             \/ \E q \in Parsers : w = WithParser(Val[p], n, q)
             \/ w = Without(Val[p], n)
      PROVE  \A q \in Parsers : Extends(Val[q], Val'[q])
  <2>1. Val[p] \in Typed
    BY DEF ValTyped
  <2>2. Extends(Val[p], w)
    BY <1>2, <2>1, TableCallTyped
  <2>3. QED  BY <1>1, <1>2, <2>2
<1>3. PICK p \in Parsers :
        \/ ForceDeepCopy(p)
        \/ \E n \in UserNames :
             \/ RemoveIdentifier(p, n)
             \/ \E x \in UserNumbers : AddConstant(p, n, x) \/ AddUnit(p, n, x)
             \/ \E f \in RawFuncs : AddFunction(p, n, f)
             \/ \E w \in Wrappers : AddFunctionWrapper(p, n, w)
             \/ \E q \in Parsers : AddParser(p, n, q)
  BY DEF TableCall
<1>4. CASE ForceDeepCopy(p)
  <2>1. Writes(p, Val[p])
    BY <1>4, ChangeWrites DEF ForceDeepCopy
  <2>2. QED  BY <1>1, <2>1 DEF Extends
<1>5. ASSUME NEW n \in UserNames,
             \/ RemoveIdentifier(p, n)
             \/ \E x \in UserNumbers : AddConstant(p, n, x) \/ AddUnit(p, n, x)
             \/ \E f \in RawFuncs : AddFunction(p, n, f)
             \/ \E w \in Wrappers : AddFunctionWrapper(p, n, w)
             \/ \E q \in Parsers : AddParser(p, n, q)
      PROVE  \A q \in Parsers : Extends(Val[q], Val'[q])
  <2>1. n \in Names
    BY UserAssumption
  <2>2. CASE RemoveIdentifier(p, n)
    <3>1. Writes(p, Without(Val[p], n))
      BY <2>2, ChangeWrites DEF RemoveIdentifier
    <3>2. QED  BY <1>2, <2>1, <3>1
  <2>3. ASSUME NEW x \in UserNumbers, AddConstant(p, n, x) \/ AddUnit(p, n, x)
        PROVE  \A q \in Parsers : Extends(Val[q], Val'[q])
    <3>1. x \in Numbers
      BY UserAssumption
    <3>2. Writes(p, WithConstant(Val[p], n, x)) \/ Writes(p, WithUnit(Val[p], n, x))
      BY <2>3, ChangeWrites DEF AddConstant, AddUnit
    <3>3. QED  BY <1>2, <2>1, <3>1, <3>2
  <2>4. ASSUME NEW f \in Funcs, AddFunction(p, n, f) \/ AddFunctionWrapper(p, n, f)
        PROVE  \A q \in Parsers : Extends(Val[q], Val'[q])
    <3>1. Writes(p, WithFunction(Val[p], n, f))
      BY <2>4, ChangeWrites DEF AddFunction, AddFunctionWrapper, Writes
    <3>2. QED  BY <1>2, <2>1, <3>1
  <2>5. ASSUME NEW q \in Parsers, AddParser(p, n, q)
        PROVE  \A r \in Parsers : Extends(Val[r], Val'[r])
    <3>1. Writes(p, WithParser(Val[p], n, q))
      BY <2>5, ChangeWrites DEF AddParser
    <3>2. QED  BY <1>2, <2>1, <3>1
  <2>6. QED  BY <1>5, <2>2, <2>3, <2>4, <2>5 DEF Funcs
<1>6. QED  BY <1>3, <1>4, <1>5

\* The meaning of an operation that a function evaluated has found is kept by
\* every call that works on a table.
LEMMA TableCallKeeps ==
  ASSUME SInv, ValTyped, ValTyped', TableCall, NEW p \in Parsers, Evaluable(p)
  PROVE  Meanings(Val')[p] = Meanings(Val)[p]
<1>1. \A q \in Parsers : Extends(Val[q], Val'[q])
  BY TableCallExtends
<1>2. Val \in [Parsers -> Typed] /\ Val' \in [Parsers -> Typed]
  BY DEF ValTyped
<1>3. Found(Meanings(Val)[p])
  <2> DEFINE m == Meanings(Val)[p]
  <2>1. m \in Seq(CallFree(MeaningOps))
    BY <1>2, MeaningsTyped
  <2>2. \A o \in ToSet(m) : o.op # "nowhere"
    BY DEF Evaluable
  <2> HIDE DEF m
  <2>3. \A i \in 1..Len(m) : m[i] \in ToSet(m)
    BY <2>1, LenProperties DEF ToSet
  <2>4. Found(m)
    BY <2>2, <2>3 DEF Found
  <2>5. QED  BY <2>4 DEF m
<1>4. QED  BY <1>1, <1>2, <1>3, MeaningsKept

\* A function once parsed computes the same after any call that redefines,
\* removes or adds a name, in its own parser or in one that it calls.
THEOREM TableCallsKeepMeanings == Spec => TableCallsKeepMeaning
<1>1. Init => SInv /\ ValTyped
  BY SInitially, ValInitially
<1>2. SInv /\ ValTyped /\ [Next]_vars => (SInv /\ ValTyped)'
  BY SStep, Step, ValStep DEF SInv
<1>3. SInv /\ ValTyped /\ [Next]_vars =>
        ((\E p \in Parsers : Evaluable(p) /\ Meanings(Val')[p] # Meanings(Val)[p])
           => ~TableCall)
  BY <1>2, TableCallKeeps
<1>4. QED  BY <1>1, <1>2, <1>3, PTL DEF Spec, TableCallsKeepMeaning

(***************************************************************************)
(* Optimize() of parsers whose callees call no C++ function.               *)
(***************************************************************************)

\* Who is reached reaches further.
LEMMA ReachesOnward ==
  ASSUME NEW E, NEW p, NEW q, NEW r \in E[q], Reaches(E, p, q)
  PROVE  Reaches(E, p, r)
BY DEF Reaches

\* Who reaches another parser does so by one of those it leads to.
LEMMA ReachesFirst ==
  ASSUME NEW E, \A x \in Parsers : E[x] \subseteq Parsers,
         NEW r \in Parsers, NEW q \in Parsers, r # q, Reaches(E, r, q)
  PROVE  \E s \in E[r] : Reaches(E, s, q)
<1> DEFINE U == {r} \cup {x \in Parsers : \E s \in E[r] : Reaches(E, s, x)}
<1>1. E[r] \subseteq U
  BY DEF Reaches
<1>2. ASSUME NEW x \in Parsers, NEW s \in E[r], Reaches(E, s, x)
      PROVE  E[x] \subseteq U
  BY <1>2, ReachesOnward
<1>3. U \in SUBSET Parsers /\ r \in U /\ \A x \in U : E[x] \subseteq U
  BY <1>1, <1>2
<1> HIDE DEF U
<1>4. q \in U
  BY <1>3 DEF Reaches
<1>5. QED  BY <1>4 DEF U

\* Where a recursion from p returns, none that it reaches leads back to p.
LEMMA CalleesLeadOn ==
  ASSUME NEW E, \A x \in Parsers : E[x] \subseteq Parsers,
         NEW p \in Parsers, Terminates(E, p), NEW q \in Parsers, Reaches(E, p, q)
  PROVE  p \notin E[q]
<1> DEFINE T == {r \in Parsers : Reaches(E, p, r) /\ Reaches(E, r, q)}
<1>1. SUFFICES ASSUME p \in E[q]
               PROVE  FALSE
  OBVIOUS
<1>2. Reaches(E, p, p) /\ Reaches(E, q, q)
  BY DEF Reaches
<1>3. T \in (SUBSET {r \in Parsers : Reaches(E, p, r)}) \ {{}} /\ p \in T
  BY <1>2
<1>4. PICK r \in T : E[r] \cap T = {}
  BY <1>3 DEF Terminates, NoLoopIn
<1>5. CASE r = q
  BY <1>1, <1>3, <1>4, <1>5
<1>6. CASE r # q
  <2>1. PICK s \in E[r] : Reaches(E, s, q)
    BY <1>6, ReachesFirst
  <2>2. s \in Parsers /\ Reaches(E, p, s)
    BY ReachesOnward
  <2>3. QED  BY <1>4, <2>1, <2>2
<1>7. QED  BY <1>5, <1>6

\* The parsers of S do the same themselves, and call only each other.
Agree(V, own, new, S) ==
  \A q \in S : /\ own[q] = new[q]
               /\ \A i \in 1..Len(own[q]) :
                    own[q][i].op = "cPCall" => V[q].links[own[q][i].arg] \in S

\* Then the levels are the same too.
LEMMA LevelsAgree ==
  ASSUME NEW V, NEW own, NEW new, NEW R, NEW Q,
         Resolves(V, own, R), Resolves(V, new, Q),
         NEW S \in SUBSET Parsers, Agree(V, own, new, S)
  PROVE  \A k \in 0..Cardinality(Parsers) : \A q \in S :
           Levels(V, own)[k][q] = Levels(V, new)[k][q]
<1> DEFINE N == Cardinality(Parsers)
           A == Levels(V, own)
           B == Levels(V, new)
           DR == [Parsers -> Seq(CallFree(R))]
           DQ == [Parsers -> Seq(CallFree(Q))]
           Same(k) == \A q \in S : A[k][q] = B[k][q]
           Good    == {k \in 0..N : Same(k)}
<1>1. /\ N \in Nat
      /\ A[0] = [q \in Parsers |-> <<>>]
      /\ \A k \in 1..N : A[k] = Unfold(V, own, A[k - 1])
      /\ \A k \in 0..N : A[k] \in DR
  BY LevelsDefined
<1>2. /\ B[0] = [q \in Parsers |-> <<>>]
      /\ \A k \in 1..N : B[k] = Unfold(V, new, B[k - 1])
      /\ \A k \in 0..N : B[k] \in DQ
  BY LevelsDefined
<1> HIDE DEF A, B, N
<1>3. 0 \in Good
  BY <1>1, <1>2
<1>4. ASSUME NEW k \in 1..N, k - 1 \in Good
      PROVE  k \in Good
  <2>1. k \in 0..N /\ k - 1 \in 0..N
    BY <1>1
  <2>2. ASSUME NEW q \in S
        PROVE  A[k][q] = B[k][q]
    <3>1. A[k - 1] \in DR /\ B[k - 1] \in DQ
      BY <1>1, <1>2, <2>1
    <3>2. /\ Unfold(V, own, A[k - 1])[q] = FlattenSeq(Parts(V, own, A[k - 1], q))
          /\ Unfold(V, new, B[k - 1])[q] = FlattenSeq(Parts(V, new, B[k - 1], q))
      BY <3>1, PartsTyped
    <3>3. Parts(V, own, A[k - 1], q) = Parts(V, new, B[k - 1], q)
      BY <1>4 DEF Parts, Agree
    <3>4. QED  BY <1>1, <1>2, <3>2, <3>3
  <2>3. QED  BY <2>1, <2>2
<1> HIDE DEF Good
<1>5. \A k \in 0..N : k \in Good
  BY <1>1, <1>3, <1>4, Induction
<1>6. QED  BY <1>5 DEF Good, A, B, N

\* The operations of callees that call no C++ function.
Simple == {o \in Op : o.op # "cFCall"}

\* What callees do, compiled or as Eval() resolves it, is the same where none
\* of them calls a C++ function: variables and numbers.
LEMMA CalleesAgree ==
  ASSUME NEW V \in [Parsers -> Typed], NEW S \in SUBSET Parsers,
         \A q \in S : /\ V[q].err = "no_error"
                      /\ \A i \in 1..Len(V[q].code) : V[q].code[i].op # "cFCall"
                      /\ \A i \in 1..Len(V[q].code) : V[q].code[i].op = "cPCall" =>
                           V[q].links[V[q].code[i].arg] \in S
  PROVE  LET L == Levels(V, [q \in Parsers |-> V[q].code])
             M == Levels(V, [q \in Parsers |-> OwnMeaning(V[q])])
         IN  \A k \in 0..Cardinality(Parsers) : \A q \in S :
               L[k][q] = M[k][q] /\ L[k][q] \in Seq(CallFree(Simple))
<1> DEFINE code  == [q \in Parsers |-> V[q].code]
           own   == [q \in Parsers |-> OwnMeaning(V[q])]
           inner == [q \in Parsers |-> IF q \in S THEN V[q].code ELSE <<>>]
           N     == Cardinality(Parsers)
           D     == [Parsers -> Seq(CallFree(Simple))]
<1>1. Resolves(V, code, Op) /\ Resolves(V, own, MeaningOps)
  BY CodeResolves, MeaningsResolve
<1>2. ASSUME NEW q \in S
      PROVE  /\ V[q].code \in Seq(Simple) /\ V[q].links \in Seq(Parsers)
             /\ OwnMeaning(V[q]) = V[q].code
  <2> DEFINE c == V[q].code
             n == Len(c)
             m == [i \in 1..n |-> Resolved(V[q], c[i])]
  <2>1. V[q] \in Typed /\ c \in Seq(Op) /\ V[q].links \in Seq(Parsers)
    <3>1. V[q] \in Typed
      OBVIOUS
    <3>2. QED  BY <3>1 DEF Typed, Value
  <2>2. n \in Nat /\ (\A i \in 1..n : c[i] \in Op) /\ c = [i \in 1..n |-> c[i]]
    BY <2>1, LenProperties, ElementOfSeq
  <2>3. \A i \in 1..n : c[i] \in Simple
    BY <2>2 DEF Simple
  <2>4. c \in [1..n -> Simple]
    BY <2>2, <2>3
  <2>5. \A i \in 1..n : Resolved(V[q], c[i]) = c[i]
    BY <2>1, <2>2, ResolvedTyped
  <2>6. OwnMeaning(V[q]) = m
    BY DEF OwnMeaning
  <2> HIDE DEF c, n
  <2>7. m = c
    BY <2>2, <2>5
  <2>8. c \in Seq(Simple)
    BY <2>2, <2>4, FunctionIsSeq
  <2>9. QED  BY <2>1, <2>6, <2>7, <2>8 DEF c
<1>3. Resolves(V, inner, Simple)
  <2>1. [op |-> "cImmed", arg |-> Literal] \in Simple
    BY LiteralAssumption DEF Simple, Op
  <2>2. <<>> \in Seq(Simple) /\ Len(<<>>) = 0
    BY EmptySeq
  <2>3. inner \in [Parsers -> Seq(Simple)]
    BY <1>2, <2>2
  <2>4. ASSUME NEW q \in Parsers, NEW i \in 1..Len(inner[q]), inner[q][i].op = "cPCall"
        PROVE  V[q].links[inner[q][i].arg] \in Parsers
    <3>1. CASE q \in S
      BY <2>4, <3>1
    <3>2. CASE q \notin S
      <4>1. inner[q] = <<>>
        BY <3>2
      <4>2. i \in 1..0
        BY <2>2, <4>1
      <4>3. QED  BY <4>2
    <3>3. QED  BY <3>1, <3>2
  <2> HIDE DEF inner
  <2>5. QED  BY <2>1, <2>3, <2>4 DEF Resolves
<1>4. Agree(V, code, own, S) /\ Agree(V, code, inner, S)
  BY <1>2 DEF Agree
<1> HIDE DEF code, own, inner, D
<1>5. \A k \in 0..N : \A q \in S : Levels(V, code)[k][q] = Levels(V, own)[k][q]
  BY <1>1, <1>4, LevelsAgree
<1>6. \A k \in 0..N : \A q \in S : Levels(V, code)[k][q] = Levels(V, inner)[k][q]
  BY <1>1, <1>3, <1>4, LevelsAgree
<1>7. \A k \in 0..N : Levels(V, inner)[k] \in D
  BY <1>3, LevelsDefined DEF D
<1>8. \A k \in 0..N : \A q \in S : Levels(V, inner)[k][q] \in Seq(CallFree(Simple))
  BY <1>7 DEF D
<1>9. QED  BY <1>5, <1>6, <1>8 DEF code, own, N

\* Without cPCalls a parser does what it does itself.
LEMMA CallFreeMeaning ==
  ASSUME NEW W \in [Parsers -> Typed], NEW p \in Parsers,
         \A i \in 1..Len(OwnMeaning(W[p])) : OwnMeaning(W[p])[i].op # "cPCall"
  PROVE  Meanings(W)[p] = OwnMeaning(W[p])
<1> DEFINE N   == Cardinality(Parsers)
           own == [q \in Parsers |-> OwnMeaning(W[q])]
           m   == OwnMeaning(W[p])
           A   == Levels(W, own)
           D   == [Parsers -> Seq(CallFree(MeaningOps))]
<1>1. Resolves(W, own, MeaningOps)
  BY MeaningsResolve
<1>2. Meanings(W) = A[N] /\ own[p] = m
  BY DEF Meanings, Unfolded
<1> HIDE DEF own
<1>3. /\ N \in Nat
      /\ \A k \in 1..N : A[k] = Unfold(W, own, A[k - 1])
      /\ \A k \in 0..N : A[k] \in D
  BY <1>1, LevelsDefined
<1>4. N # 0
  BY ParsersAssumption, FS_EmptySet
<1> HIDE DEF A, N, D
<1>5. A[N] = Unfold(W, own, A[N - 1]) /\ A[N - 1] \in D
  BY <1>3, <1>4
<1>6. A[N][p] = FlattenSeq(Parts(W, own, A[N - 1], p))
  BY <1>1, <1>5, PartsTyped DEF D
<1>7. Parts(W, own, A[N - 1], p) = [i \in 1..Len(m) |-> <<m[i]>>]
  BY <1>2 DEF Parts
<1>8. m \in Seq(MeaningOps)
  BY OwnMeaningTyped
<1> HIDE DEF m
<1>9. FlattenSeq([i \in 1..Len(m) |-> <<m[i]>>]) = m
  BY <1>8, FlattenSingles
<1>10. QED  BY <1>2, <1>6, <1>7, <1>9 DEF m

\* Byte code inlined for p is, resolved, what p did when it called its callees.
LEMMA InlinedMeaning ==
  ASSUME NEW V \in [Parsers -> Typed], NEW p \in Parsers, V[p].err = "no_error",
         NEW S \in SUBSET Parsers,
         \A q \in S : /\ V[q].err = "no_error"
                      /\ \A i \in 1..Len(V[q].code) : V[q].code[i].op # "cFCall"
                      /\ \A i \in 1..Len(V[q].code) : V[q].code[i].op = "cPCall" =>
                           V[q].links[V[q].code[i].arg] \in S,
         \A i \in 1..Len(V[p].code) : V[p].code[i].op = "cPCall" =>
           V[p].links[V[p].code[i].arg] \in S
  PROVE  Mapped([o \in Op |-> Resolved(V[p], o)], Inlined(V)[p]) = Meanings(V)[p]
<1> DEFINE N    == Cardinality(Parsers)
           f    == [o \in Op |-> Resolved(V[p], o)]
           code == [q \in Parsers |-> V[q].code]
           own  == [q \in Parsers |-> OwnMeaning(V[q])]
           L    == Levels(V, code)
           M    == Levels(V, own)
           c    == V[p].code
           n    == Len(c)
           a    == Parts(V, code, L[N - 1], p)
           b    == Parts(V, own, M[N - 1], p)
           t    == [i \in 1..n |-> Mapped(f, a[i])]
           B    == {f[x] : x \in CallFree(Op)}
           DL   == [Parsers -> Seq(CallFree(Op))]
           DM   == [Parsers -> Seq(CallFree(MeaningOps))]
<1>1. Resolves(V, code, Op) /\ Resolves(V, own, MeaningOps)
  BY CodeResolves, MeaningsResolve
<1>2. /\ Inlined(V) = L[N] /\ Meanings(V) = M[N]
      /\ code[p] = c /\ own[p] = OwnMeaning(V[p])
  BY DEF Inlined, Meanings, Unfolded
<1>3. \A k \in 0..N : \A q \in S : L[k][q] = M[k][q] /\ L[k][q] \in Seq(CallFree(Simple))
  BY CalleesAgree
<1>4. c \in Seq(Op) /\ n \in Nat /\ (\A i \in 1..n : c[i] \in Op) /\ V[p] \in Typed
  <2>1. V[p] \in Typed
    OBVIOUS
  <2>2. c \in Seq(Op)
    BY <2>1 DEF Typed, Value
  <2>3. QED  BY <2>1, <2>2, LenProperties, ElementOfSeq
<1>5. own[p] = [i \in 1..n |-> Resolved(V[p], c[i])] /\ Len(own[p]) = n
  <2>1. own[p] = [i \in 1..n |-> Resolved(V[p], c[i])]
    BY <1>2 DEF OwnMeaning
  <2>2. own[p] \in [1..n -> MeaningOps]
    BY <1>4, <2>1, ResolvedTyped
  <2>3. QED  BY <1>4, <2>1, <2>2, FunctionIsSeq
<1> HIDE DEF code, own
<1>6. /\ N \in Nat /\ L[N] = Unfold(V, code, L[N - 1]) /\ M[N] = Unfold(V, own, M[N - 1])
      /\ N - 1 \in 0..N /\ L[N - 1] \in DL /\ M[N - 1] \in DM
  <2>1. N \in Nat /\ N # 0
    BY ParsersAssumption, FS_CardinalityType, FS_EmptySet
  <2>2. N \in 1..N /\ N - 1 \in 0..N
    BY <2>1
  <2>3. L[N] = Unfold(V, code, L[N - 1]) /\ L[N - 1] \in DL
    BY <1>1, <2>2, LevelsDefined
  <2>4. M[N] = Unfold(V, own, M[N - 1]) /\ M[N - 1] \in DM
    BY <1>1, <2>2, LevelsDefined
  <2>5. QED  BY <2>1, <2>2, <2>3, <2>4
<1> HIDE DEF L, M, N
<1>7. /\ a \in Seq(Seq(CallFree(Op))) /\ Len(a) = n
      /\ L[N][p] = FlattenSeq(a)
      /\ b \in Seq(Seq(CallFree(MeaningOps))) /\ Len(b) = n
      /\ M[N][p] = FlattenSeq(b)
  BY <1>1, <1>2, <1>5, <1>6, PartsTyped
<1>8. /\ \A i \in 1..n :
           a[i] = IF c[i].op = "cPCall" THEN BindVariables(L[N - 1][V[p].links[c[i].arg]])
                                        ELSE <<c[i]>>
      /\ \A i \in 1..n : own[p][i] = Resolved(V[p], c[i])
      /\ \A i \in 1..n :
           b[i] = IF own[p][i].op = "cPCall"
                  THEN BindVariables(M[N - 1][V[p].links[own[p][i].arg]])
                  ELSE <<own[p][i]>>
  BY <1>2, <1>5 DEF Parts
<1> HIDE DEF a, b
<1>9. ASSUME NEW i \in 1..n
      PROVE  b[i] = Mapped(f, a[i])
  <2>1. c[i] \in Op
    BY <1>4
  <2>2. CASE c[i].op = "cPCall"
    <3> DEFINE q == V[p].links[c[i].arg]
               x == L[N - 1][q]
               y == BindVariables(x)
    <3>1. q \in S
      BY <2>2
    <3>2. x = M[N - 1][q] /\ x \in Seq(CallFree(Simple))
      BY <1>3, <1>6, <3>1
    <3>3. own[p][i] = c[i]
      BY <1>4, <1>8, <2>1, <2>2, ResolvedTyped
    <3>4. a[i] = y /\ b[i] = y
      BY <1>8, <2>2, <3>2, <3>3
    <3>5. [op |-> "cImmed", arg |-> Literal] \in Simple
      BY LiteralAssumption DEF Simple, Op
    <3> HIDE DEF q, x
    <3>6. y \in Seq(CallFree(Simple))
      BY <3>2, <3>5, BindTyped
    <3> HIDE DEF y
    <3>7. Mapped(f, y) = y
      <4>1. \A o \in CallFree(Simple) : f[o] = o
        BY <1>4, ResolvedTyped DEF CallFree, Simple
      <4>2. Mapped(f, y) \in Seq(CallFree(Simple)) /\ Len(Mapped(f, y)) = Len(y)
        <5> DEFINE P == CallFree(Simple)
        <5> HIDE DEF P, f
        <5>1. \A o \in P : f[o] \in P
          BY <4>1 DEF P
        <5>2. y \in Seq(P)
          BY <3>6 DEF P
        <5>3. Mapped(f, y) \in Seq(P) /\ Len(Mapped(f, y)) = Len(y)
          BY <5>1, <5>2, MappedTyped
        <5>4. QED  BY <5>3 DEF P
      <4> HIDE DEF f
      <4>3. \A j \in 1..Len(y) : Mapped(f, y)[j] = y[j]
        BY <3>6, <4>1, ElementOfSeq DEF Mapped
      <4>4. QED  BY <3>6, <4>2, <4>3, SeqEqual
    <3>8. QED  BY <3>4, <3>7
  <2>3. CASE c[i].op # "cPCall"
    <3>1. own[p][i].op # "cPCall"
      BY <1>4, <1>8, <2>1, <2>3, ResolvedTyped
    <3>2. a[i] = <<c[i]>> /\ b[i] = <<own[p][i]>> /\ own[p][i] = f[c[i]]
      BY <1>8, <2>1, <2>3, <3>1
    <3> HIDE DEF f
    <3>3. Mapped(f, <<c[i]>>) = <<f[c[i]]>>
      BY DEF Mapped
    <3>4. QED  BY <3>2, <3>3
  <2>4. QED  BY <2>2, <2>3
<1> HIDE DEF f, c, n, DL, DM
<1>10. Mapped(f, FlattenSeq(a)) = FlattenSeq([i \in 1..Len(a) |-> Mapped(f, a[i])])
  BY <1>7, FlattenMapped
<1>11. [i \in 1..Len(a) |-> Mapped(f, a[i])] = t
  BY <1>7
<1>12. t = b
  <2>1. b = [i \in 1..n |-> b[i]]
    BY <1>4, <1>7, LenProperties
  <2>2. QED  BY <1>9, <2>1
<1>13. Mapped(f, Inlined(V)[p]) = Meanings(V)[p]
  BY <1>2, <1>7, <1>10, <1>11, <1>12
<1>14. QED  BY <1>13 DEF f

\* Optimize() of a parser whose callees call no C++ function keeps its meaning.
LEMMA OptimizeKeeps ==
  ASSUME SInv, ValTyped, ValTyped', NEW p \in Parsers, NEW size \in StackSizes,
         Optimize(p, size), PureCallees(p)
  PROVE  Meanings(Val')[p] = Meanings(Val)[p]
<1> DEFINE w    == Optimized(Val, p, size)
           E    == Called(Val)
           S    == {q \in Parsers \ {p} : Reaches(E, p, q)}
           f    == [o \in Op |-> Resolved(Val[p], o)]
           code == Inlined(Val)[p]
           n    == Len(code)
<1>1. Val \in [Parsers -> Typed] /\ Val' \in [Parsers -> Typed]
  BY DEF ValTyped
<1>2. Val'[p] = w
  <2>1. Writes(p, w)
    BY DEF Optimize, Writes
  <2>2. Val' = [Val EXCEPT ![p] = w]
    BY <2>1, WritesValue DEF SInv
  <2>3. QED  BY <1>1, <2>2
<1>3. ASSUME NEW q \in Parsers
      PROVE  /\ Val[q].code \in Seq(Op)
             /\ E[q] \subseteq Parsers
             /\ \A i \in 1..Len(Val[q].code) : /\ Val[q].code[i] \in ToSet(Val[q].code)
                                               /\ Val[q].code[i].op = "cPCall" =>
                                                    Val[q].links[Val[q].code[i].arg] \in E[q]
  <2>1. Val[q] \in Value /\ Callable(Val[q])
    <3>1. Val[q] \in Typed
      BY <1>1
    <3>2. QED  BY <3>1 DEF Typed
  <2>2. Val[q].code \in Seq(Op) /\ Val[q].links \in Seq(Parsers)
    BY <2>1 DEF Value
  <2>3. ToSet(Val[q].code) = {Val[q].code[i] : i \in 1..Len(Val[q].code)}
    BY <2>2, LenProperties DEF ToSet
  <2>4. ASSUME NEW i \in 1..Len(Val[q].code), Val[q].code[i].op = "cPCall"
        PROVE  Val[q].links[Val[q].code[i].arg] \in Parsers
    BY <2>1, <2>2, <2>4, ElementOfSeq DEF Callable
  <2>5. E[q] = {Val[q].links[o.arg] : o \in {x \in ToSet(Val[q].code) : x.op = "cPCall"}}
    BY DEF Called
  <2>6. QED  BY <2>2, <2>3, <2>4, <2>5
<1>4. /\ Terminates(E, p)
      /\ \A q \in Parsers : Reaches(E, p, q) => Val[q].err = "no_error"
      /\ \A q \in S : \A o \in ToSet(Val[q].code) : o.op # "cFCall"
  BY DEF Optimize, Readable, PureCallees
<1> HIDE DEF E
<1>5. Reaches(E, p, p)
  BY DEF Reaches
<1>6. ASSUME NEW q \in Parsers, Reaches(E, p, q)
      PROVE  E[q] \subseteq S
  <2>1. p \notin E[q]
    BY <1>3, <1>4, <1>6, CalleesLeadOn
  <2>2. \A r \in E[q] : r \in Parsers /\ Reaches(E, p, r)
    BY <1>3, <1>6, ReachesOnward
  <2>3. QED  BY <2>1, <2>2
<1>7. /\ S \in SUBSET Parsers
      /\ \A q \in S : /\ Val[q].err = "no_error"
                      /\ \A i \in 1..Len(Val[q].code) : Val[q].code[i].op # "cFCall"
                      /\ \A i \in 1..Len(Val[q].code) : Val[q].code[i].op = "cPCall" =>
                           Val[q].links[Val[q].code[i].arg] \in S
  BY <1>3, <1>4, <1>6
<1>8. /\ Val[p].err = "no_error"
      /\ \A i \in 1..Len(Val[p].code) : Val[p].code[i].op = "cPCall" =>
           Val[p].links[Val[p].code[i].arg] \in S
  BY <1>3, <1>4, <1>5, <1>6
<1> HIDE DEF S
<1>9. Mapped(f, code) = Meanings(Val)[p]
  BY <1>1, <1>7, <1>8, InlinedMeaning
<1>10. code \in Seq(CallFree(Op)) /\ n \in Nat /\ \A i \in 1..n : code[i] \in CallFree(Op)
  BY <1>1, InlinedTyped, LenProperties, ElementOfSeq
<1>11. w.code = code /\ w.err = "no_error" /\ w.funcs = Val[p].funcs
  <2>1. Val[p] \in Value
    <3>1. Val[p] \in Typed
      BY <1>1
    <3>2. QED  BY <3>1 DEF Typed
  <2>2. QED  BY <1>8, <2>1 DEF Optimized, Value
<1> HIDE DEF w, code
<1>12. OwnMeaning(w) = Mapped(f, code)
  <2>1. \A o \in Op : Resolved(w, o) = Resolved(Val[p], o)
    BY <1>11 DEF Resolved
  <2>2. \A i \in 1..n : Resolved(w, code[i]) = f[code[i]]
    BY <1>10, <2>1 DEF CallFree
  <2>3. OwnMeaning(w) = [i \in 1..n |-> Resolved(w, code[i])]
    BY <1>11 DEF OwnMeaning
  <2> HIDE DEF f
  <2>4. Mapped(f, code) = [i \in 1..n |-> f[code[i]]]
    BY DEF Mapped
  <2>5. QED  BY <2>2, <2>3, <2>4
<1>13. ASSUME NEW i \in 1..Len(OwnMeaning(w))
       PROVE  OwnMeaning(w)[i].op # "cPCall"
  <2>1. OwnMeaning(w) = [j \in 1..n |-> Resolved(Val[p], code[j])]
    <3>1. \A j \in 1..n : f[code[j]] = Resolved(Val[p], code[j])
      BY <1>10 DEF CallFree
    <3> HIDE DEF f
    <3>2. QED  BY <1>12, <3>1 DEF Mapped
  <2>2. Len(OwnMeaning(w)) = n
    <3>1. w \in Typed
      BY <1>1, <1>2
    <3>2. OwnMeaning(w) \in Seq(MeaningOps)
      BY <3>1, OwnMeaningTyped
    <3> HIDE DEF n
    <3>3. QED  BY <1>10, <2>1, <3>2, LenProperties
  <2>3. code[i] \in Op /\ code[i].op # "cPCall"
    BY <1>10, <2>2 DEF CallFree
  <2>4. OwnMeaning(w)[i] = Resolved(Val[p], code[i])
    BY <2>1, <2>2
  <2>5. Val[p] \in Typed
    BY <1>1
  <2>6. QED  BY <2>3, <2>4, <2>5, ResolvedTyped
<1>14. Meanings(Val')[p] = OwnMeaning(w)
  BY <1>1, <1>2, <1>13, CallFreeMeaning
<1>15. QED  BY <1>9, <1>12, <1>14

\* Optimize() of a parser, from any state that calls have left, keeps what it
\* computes if none of its callees, at any depth, calls a C++ function.
THEOREM OptimizeKeepsMeanings == Spec => OptimizeKeepsPureMeaning
<1>1. Init => SInv /\ ValTyped
  BY SInitially, ValInitially
<1>2. SInv /\ ValTyped /\ [Next]_vars => (SInv /\ ValTyped)'
  BY SStep, Step, ValStep DEF SInv
<1>3. SInv /\ ValTyped /\ [Next]_vars =>
        \A p \in Parsers :
          (/\ Val'[p].code # Val[p].code
           /\ Meanings(Val')[p] # Meanings(Val)[p]
           /\ PureCallees(p))
          => ~\E size \in StackSizes : Optimize(p, size)
  BY <1>2, OptimizeKeeps
<1>4. QED  BY <1>1, <1>2, <1>3, PTL DEF Spec, OptimizeKeepsPureMeaning
===============================================================================
