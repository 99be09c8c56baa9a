--------------------------- MODULE MCFunctionParser ---------------------------
(***************************************************************************)
(* Instances of FunctionParser for TLC.                                    *)
(***************************************************************************)
EXTENDS FunctionParser

CONSTANTS p1, p2, p3, b1, b2, b3, w1

Symmetric == Permutations(Parsers) \cup Permutations(Blocks)

Text(elems, tail, stack) == [elems |-> elems, tail |-> tail, stack |-> stack]
Plain(n) == [name |-> n, form |-> "plain"]
Unit(n) == [name |-> n, form |-> "unit"]
Calls(n) == [name |-> n, form |-> "call"]

BadToken == "?"     \* a token of a Vars string that is no identifier

Input(tokens, text) == [vars |-> tokens, text |-> text]

SharingNames == {"f"}
SharingInputs == {Input(<<>>, Text(<<Calls("f")>>, "end", 1))}

\* Parsers of one variable: a parser that is linked never changes the number
\* of its variables.
LinkingNames == {"f", "x"}
LinkingInputs == {Input(<<"x">>, Text(<<Plain("x")>>, "end", 1)),
                  Input(<<"x">>, Text(<<Calls("f")>>, "end", 1))}

NamingNames == {"x", "y"}
NamingInputs ==
  [vars : {<<>>, <<"x">>, <<"y", "x">>, <<"x", "x">>, <<"y", BadToken>>},
   text : {Text(<<Plain("x")>>, "end", 1),
           Text(<<Plain("y"), Plain("x")>>, "end", 2),
           Text(<<Unit("y"), Calls("x")>>, "end", 1)}]
NamingTexts == {input.text : input \in NamingInputs}

==============================================================================
