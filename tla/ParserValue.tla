----------------------------- MODULE ParserValue -----------------------------
(***************************************************************************)
(* What one FunctionParser's Data means, as a value, and what each call    *)
(* of the interface computes on it (fparser.cc, extrasrc/fptypes.hh).      *)
(*                                                                         *)
(* Nothing here knows how Data is stored or shared: FunctionParser.tla     *)
(* keeps these values in reference-counted blocks, ValueSemantics.tla      *)
(* gives one to each object, and both apply the same operators.            *)
(*                                                                         *)
(* Abstractions.  A Vars string is the sequence of its comma-separated     *)
(* tokens.  A function string is a record [elems, tail, stack]: the        *)
(* identifiers it uses, in order, each with the form of the use; the       *)
(* character at which Compile() stops; the high-water mark incStackPtr()   *)
(* reaches.  Byte code keeps the operations that refer to something        *)
(* outside it: variables, immediates, C++ functions and parsers.           *)
(***************************************************************************)
EXTENDS Naturals, FiniteSets, SequencesExt

CONSTANTS
  Parsers,    (* Addresses of FunctionParser objects.                      *)
  Names,      (* Identifiers that are not names of built-in functions.     *)
  Numbers,    (* Values of constants, units and literals.                  *)
  Literal,    (* The number every literal of a function string stands for. *)
  RawFuncs,   (* C++ functions given to AddFunction().                     *)
  Wrappers,   (* FunctionWrapper objects on the heap.                      *)
  Inputs,     (* Arguments of Parse(): records [vars, text].               *)
  EndOfText,  (* The null character that ends a function string.           *)
  Undefined   (* No entry in mNamePtrs.                                    *)

ASSUME LiteralAssumption == Literal \in Numbers
ASSUME ParsersAssumption == IsFiniteSet(Parsers)
ASSUME FuncsAssumption == RawFuncs \cap Wrappers = {}

ErrorTypes == {"no_function_parsed_yet", "no_error", "invalid_vars",
               "unknown_identifier", "syntax_error", "expect_operator",
               "missing_parenthesis_after_function"}

VarStrings == {input.vars : input \in Inputs}

Tokens == Names \cup UNION {ToSet(tokens) : tokens \in VarStrings}

Texts == {input.text : input \in Inputs}

(***************************************************************************)
(* A value of Data.                                                        *)
(***************************************************************************)
NameData == [type : {"CONSTANT", "UNIT"}, data : Numbers]
            \cup [type : {"FUNC_PTR", "PARSER_PTR", "VARIABLE"}, data : Nat]

Funcs == RawFuncs \cup Wrappers

Op == [op : {"var", "cFCall", "cPCall"}, arg : Nat]
      \cup [op : {"cImmed"}, arg : Numbers]

Value == [err       : ErrorTypes,                         \* mParseErrorType
          vars      : Seq(Tokens),                        \* mVariablesString
          nvars     : Nat,                                \* mVariablesAmount
          names     : [Names -> NameData \cup {Undefined}], \* mNamePtrs
          funcs     : Seq(Funcs),                         \* mFuncPtrs
          links     : Seq(Parsers),                       \* mFuncParsers
          code      : Seq(Op),                            \* mByteCode, mImmed
          stackSize : Nat]                                \* mStackSize

ASSUME UndefinedAssumption == Undefined \notin NameData
ASSUME InputsAssumption ==
  \A input \in Inputs :
    /\ input.vars \in Seq(Tokens)
    /\ input.text.elems \in Seq([name : Names, form : {"plain", "call", "unit"}])
    /\ input.text.stack \in Nat

NewValue == [err |-> "no_function_parsed_yet", vars |-> <<>>, nvars |-> 0,
             names |-> [n \in Names |-> Undefined],
             funcs |-> <<>>, links |-> <<>>, code |-> <<>>, stackSize |-> 0]

(***************************************************************************)
(* The identifier table.                                                   *)
(***************************************************************************)

\* addNewNameData() takes a free name, and a used one only to redefine it as
\* the same type.  (Variables are added by ParseVariables(), below.)
CanAdd(v, n, type) ==
  v.names[n] # Undefined => v.names[n].type = type

WithName(v, n, type, data) ==
  [v EXCEPT !.names[n] = [type |-> type, data |-> data]]

WithConstant(v, n, x) ==
  IF CanAdd(v, n, "CONSTANT") THEN WithName(v, n, "CONSTANT", x) ELSE v

WithUnit(v, n, x) ==
  IF CanAdd(v, n, "UNIT") THEN WithName(v, n, "UNIT", x) ELSE v

\* Mutant: a redefinition replaces the entry of the name.
WithFunctionInPlace(v, n, f) ==
  IF v.names[n] = Undefined
  THEN [WithName(v, n, "FUNC_PTR", Len(v.funcs) + 1)
          EXCEPT !.funcs = Append(@, f)]
  ELSE IF v.names[n].type = "FUNC_PTR"
       THEN [v EXCEPT !.funcs[v.names[n].data] = f]
       ELSE v

\* A redefinition appends too: byte code compiled before keeps its index.
WithFunction(v, n, f) ==
  IF CanAdd(v, n, "FUNC_PTR")
  THEN [WithName(v, n, "FUNC_PTR", Len(v.funcs) + 1)
          EXCEPT !.funcs = Append(@, f)]
  ELSE v

WithParser(v, n, q) ==
  IF CanAdd(v, n, "PARSER_PTR")
  THEN [WithName(v, n, "PARSER_PTR", Len(v.links) + 1)
          EXCEPT !.links = Append(@, q)]
  ELSE v

\* RemoveIdentifier() drops the name; funcs and links keep their entries.
Without(v, n) ==
  IF v.names[n] = Undefined \/ v.names[n].type = "VARIABLE"
  THEN v
  ELSE [v EXCEPT !.names[n] = Undefined]

(***************************************************************************)
(* Parse(): variables, then the function.                                  *)
(***************************************************************************)
IsVariable(names, n) == names[n] # Undefined /\ names[n].type = "VARIABLE"

\* The table after ParseVariables() has erased the variables of before.
NonVariables(names) ==
  [n \in Names |-> IF IsVariable(names, n) THEN Undefined ELSE names[n]]

\* How many leading tokens of a Vars string its loop adds to the table: it
\* stops at a token that is no identifier, is in use, or has occurred before.
Accepted(names, tokens) ==
  Max({k \in 0..Len(tokens) :
         \A i \in 1..k : /\ tokens[i] \in Names
                         /\ names[tokens[i]] = Undefined
                         /\ \A j \in 1..(i - 1) : tokens[j] # tokens[i]})

\* The string is stored before it is validated, and a string equal to the
\* stored one is accepted unseen.
VarsOK(v, tokens) ==
  \/ v.vars = tokens
  \/ Accepted(NonVariables(v.names), tokens) = Len(tokens)

\* Mutant: the variables of the string before are not erased.
WithVariablesKept(v, tokens) ==
  IF v.vars = tokens
  THEN v
  ELSE LET k == Accepted(v.names, tokens)
       IN  [v EXCEPT
              !.vars  = tokens,
              !.nvars = IF k = Len(tokens) THEN k ELSE @,
              !.names = [n \in Names |->
                           IF n \in ToSet(SubSeq(tokens, 1, k))
                           THEN [type |-> "VARIABLE",
                                 data |-> Min({i \in 1..k : tokens[i] = n})]
                           ELSE @[n]]]

WithVariables(v, tokens) ==
  IF v.vars = tokens
  THEN v
  ELSE LET others == NonVariables(v.names)
           k      == Accepted(others, tokens)
           index(n) == {i \in 1..k : tokens[i] = n}
       IN  [v EXCEPT
              !.vars  = tokens,
              !.nvars = IF k = Len(tokens) THEN k ELSE @,
              !.names = [n \in Names |->
                           IF index(n) # {}
                           THEN [type |-> "VARIABLE", data |-> Min(index(n))]
                           ELSE others[n]]]

\* The error CompileElement() or CompilePossibleUnit() leads to at a use of a
\* name.  A "call" is name(...), a "unit" follows a literal, the rest "plain".
\* A variable or constant before "(", and a word after a literal that is no
\* unit, make Compile() return there: ParseFunction() expects an operator.
UseError(names, use) ==
  LET nd == names[use.name]
  IN  CASE use.form = "unit" ->
             IF nd # Undefined /\ nd.type = "UNIT" THEN "no_error"
                                                   ELSE "expect_operator"
        [] use.form # "unit" /\ nd = Undefined -> "unknown_identifier"
        [] OTHER ->
             CASE nd.type = "UNIT" -> "syntax_error"
               [] nd.type \in {"VARIABLE", "CONSTANT"} ->
                    IF use.form = "plain" THEN "no_error" ELSE "expect_operator"
               [] nd.type \in {"FUNC_PTR", "PARSER_PTR"} ->
                    IF use.form = "call" THEN "no_error"
                    ELSE "missing_parenthesis_after_function"

Compiled(nd) ==
  CASE nd.type = "VARIABLE"             -> [op |-> "var", arg |-> nd.data]
    [] nd.type \in {"CONSTANT", "UNIT"} -> [op |-> "cImmed", arg |-> nd.data]
    [] nd.type = "FUNC_PTR"             -> [op |-> "cFCall", arg |-> nd.data]
    [] nd.type = "PARSER_PTR"           -> [op |-> "cPCall", arg |-> nd.data]

\* The number of uses compiled before the first one that is an error.
CompiledUses(names, elems) ==
  Max({k \in 0..Len(elems) :
         \A i \in 1..k : UseError(names, elems[i]) = "no_error"})

\* What the use that is an error adds to the byte code before Compile() stops:
\* the literal before a word that is no unit, the variable or constant before
\* "(", the call without parameters.
CompiledAtError(names, use) ==
  IF use.form = "unit"
  THEN <<[op |-> "cImmed", arg |-> Literal]>>
  ELSE IF names[use.name] = Undefined \/ names[use.name].type = "UNIT"
       THEN <<>>
       ELSE <<Compiled(names[use.name])>>

\* ParseFunction(): on an error the byte code compiled so far stays, and
\* mStackSize is the number of operands it has pushed.
WithFunctionParsed(v, text, delimiter) ==
  LET k     == CompiledUses(v.names, text.elems)
      full  == k = Len(text.elems)
      error == UseError(v.names, text.elems[k + 1])
      uses  == [i \in 1..k |-> Compiled(v.names[text.elems[i].name])]
  IN  [v EXCEPT
         !.err = IF ~full THEN error
                 ELSE IF text.tail \in {EndOfText, delimiter} THEN "no_error"
                 ELSE "expect_operator",
         !.code = IF full THEN uses
                  ELSE uses \o CompiledAtError(v.names, text.elems[k + 1]),
         !.stackSize = IF full THEN text.stack
                       ELSE IF error = "expect_operator" THEN k + 1
                       ELSE k]

Parsed(v, tokens, text, delimiter) ==
  IF VarsOK(v, tokens)
  THEN WithFunctionParsed(WithVariables(v, tokens), text, delimiter)
  ELSE [WithVariables(v, tokens) EXCEPT !.err = "invalid_vars"]

\* ParseFunction() left the value w, and reached its last line, where it
\* resizes mStack.
ParsedToEnd(w, text) == w.err = "no_error" /\ text.tail = EndOfText

(***************************************************************************)
(* ParseAndDeduceVariables().                                              *)
(***************************************************************************)

\* The use whose name stands where a Parse() that left the value w returned; 0
\* if it returned the end of the text or a character that begins no name.
StoppedAt(w, text) ==
  LET k   == CompiledUses(w.names, text.elems)
      use == text.elems[k + 1]
  IN  IF \/ w.err = "invalid_vars"
         \/ k = Len(text.elems)
         \/ w.err = "missing_parenthesis_after_function"
         \/ w.err = "expect_operator" /\ use.form = "call"
      THEN 0
      ELSE k + 1

FirstRound(v) == [value |-> v, names |-> {}, old |-> 0, done |-> FALSE]

\* Mutant: the name that is added takes the place of those found before.
NextRoundReplacing(r, text, delimiter) ==
  LET w  == Parsed(r.value, SetToSeq(r.names), text, delimiter)
      at == StoppedAt(w, text)
  IN  IF r.done THEN r
      ELSE IF at \in {0, r.old}
      THEN [value |-> w, names |-> r.names, old |-> r.old, done |-> TRUE]
      ELSE [value |-> w, names |-> {text.elems[at].name}, old |-> at, done |-> FALSE]

\* One turn of the loop of deduceVariables(): parse, and take the name that
\* stopped the parse for a variable, until there is none or the parse stops at
\* the same place again.  The names of a std::set are listed in a fixed order.
NextRound(r, text, delimiter) ==
  LET w  == Parsed(r.value, SetToSeq(r.names), text, delimiter)
      at == StoppedAt(w, text)
  IN  IF r.done THEN r
      ELSE IF at \in {0, r.old}
      THEN [value |-> w, names |-> r.names, old |-> r.old, done |-> TRUE]
      ELSE [value |-> w, names |-> r.names \cup {text.elems[at].name},
            old |-> at, done |-> FALSE]

\* The rounds of the loop, one that is done stays as it is.  Each but the last
\* two stops at a later use than the one before.
DeductionRounds(text) == Len(text.elems) + 2

Rounds(v, text, delimiter) ==
  LET round[k \in 0..DeductionRounds(text)] ==
        IF k = 0 THEN FirstRound(v) ELSE NextRound(round[k - 1], text, delimiter)
  IN  round

Deduction(v, text, delimiter) == Rounds(v, text, delimiter)[DeductionRounds(text)]

Deduced(v, text, delimiter) == Deduction(v, text, delimiter).value

(***************************************************************************)
(* Parsers that call parsers.  V gives the value of each object, NewValue  *)
(* where none exists.                                                      *)
(***************************************************************************)
\* Whom each parser leads to, by mFuncParsers and by the cPCalls it compiled.
Linked(V) == [p \in Parsers |-> ToSet(V[p].links)]

Called(V) ==
  [p \in Parsers |->
     {V[p].links[o.arg] : o \in {x \in ToSet(V[p].code) : x.op = "cPCall"}}]

\* p can be reached from q: it is in every set with q that E keeps closed.
Reaches(E, q, p) ==
  \A S \in SUBSET Parsers :
    (q \in S /\ \A r \in S : E[r] \subseteq S) => p \in S

\* No loop among the parsers of S: each nonempty part of it has a member that
\* leads to no member of the part.
NoLoopIn(E, S) ==
  \A T \in (SUBSET S) \ {{}} : \E p \in T : E[p] \cap T = {}

Acyclic(V) == NoLoopIn(Linked(V), Parsers)

\* A recursion from q along E returns: CheckRecursiveLinking(), GenerateFrom()
\* and Eval() stop by nothing else.
Terminates(E, q) == NoLoopIn(E, {r \in Parsers : Reaches(E, q, r)})

\* GenerateFrom() can read this byte code: a Parse() that succeeded made it, and
\* its indices are below mVariablesAmount and mFuncPtrs.size().
Readable(v) ==
  /\ v.err = "no_error"
  /\ \A o \in ToSet(v.code) : /\ o.op = "var" => o.arg <= v.nvars
                              /\ o.op = "cFCall" => o.arg \in DOMAIN v.funcs

\* A call passes literals: the callee's variables become that literal.
BindVariables(code) ==
  [i \in 1..Len(code) |->
     IF code[i].op = "var" THEN [op |-> "cImmed", arg |-> Literal] ELSE code[i]]

\* Mutant: the callee's variables are inlined as variables of the caller.
InlinedUnbound(V) ==
  LET inl[depth \in 0..Cardinality(Parsers)] ==
        [p \in Parsers |->
           IF depth = 0 THEN <<>>
           ELSE FlattenSeq([i \in 1..Len(V[p].code) |->
                  LET o == V[p].code[i]
                  IN  IF o.op = "cPCall"
                      THEN inl[depth - 1][V[p].links[o.arg]]
                      ELSE <<o>>])]
  IN  inl[Cardinality(Parsers)]

\* What each parser does: own[p], with every cPCall in it replaced by what the
\* callee does according to inner.
Unfold(V, own, inner) ==
  [p \in Parsers |->
     FlattenSeq([i \in 1..Len(own[p]) |->
                   LET o == own[p][i]
                   IN  IF o.op = "cPCall"
                       THEN BindVariables(inner[V[p].links[o.arg]])
                       ELSE <<o>>])]

\* The same to any depth: no chain of calls that returns is longer.
Levels(V, own) ==
  LET level[depth \in 0..Cardinality(Parsers)] ==
        IF depth = 0 THEN [p \in Parsers |-> <<>>]
                     ELSE Unfold(V, own, level[depth - 1])
  IN  level

Unfolded(V, own) == Levels(V, own)[Cardinality(Parsers)]

\* GenerateFrom() of a parser with the parsers it calls inlined.  The index of a
\* cFCall is copied as it stands in the callee's byte code.
Inlined(V) == Unfolded(V, [p \in Parsers |-> V[p].code])

\* Optimize(): the simplified byte code, and the stack it was found to need.
Optimized(V, p, size) ==
  [V[p] EXCEPT !.code = Inlined(V)[p], !.stackSize = size]

(***************************************************************************)
(* What a parser computes: its byte code with every reference resolved, as *)
(* Eval() resolves it.  "nowhere" is an index beyond the table; a parser   *)
(* whose last Parse() failed returns zero.                                 *)
(***************************************************************************)
Resolved(v, o) ==
  CASE o.op \in {"var", "cImmed", "cPCall"} -> o
    [] o.op = "cFCall" ->
         IF o.arg \in DOMAIN v.funcs THEN [op |-> "call", arg |-> v.funcs[o.arg]]
                                     ELSE [op |-> "nowhere", arg |-> 0]

\* What the parser does itself, its cPCalls as they stand.
OwnMeaning(v) ==
  IF v.err # "no_error"
  THEN <<[op |-> "zero", arg |-> 0]>>
  ELSE [i \in 1..Len(v.code) |-> Resolved(v, v.code[i])]

Meanings(V) == Unfolded(V, [p \in Parsers |-> OwnMeaning(V[p])])
==============================================================================
