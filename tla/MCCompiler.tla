----------------------------- MODULE MCCompiler -----------------------------
(***************************************************************************)
(* Texts for TLC: for each group of tokens, every viable text that starts  *)
(* with the prefix, up to a length, and all of its extensions by a token.  *)
(* The prefixes bring the texts to where rules with long patterns apply.   *)
(***************************************************************************)
EXTENDS Compiler

From(prefix, tokens, length) == [prefix |-> prefix, tokens |-> tokens, length |-> length]

\* Sums, products and negations; 364 is used here.
Arithmetic ==
  { From(<<>>, {"x", "y", "5", "+", "-", "*"}, 7),
    From(<<"-", "x">>, {"(", ")", "y", "-", "+", "5"}, 8),
    From(<<>>, {"x", "y", "0", "2", "*", "/", "%"}, 5),
    From(<<>>, {"x", "y", "0", "!", "*", "%"}, 6),
    From(<<>>, {"x", "-", "!", "*"}, 8) }

\* Comparisons and logic.
Predicates ==
  { From(<<>>, {"x", "y", "1", "<", "&", "|", "!"}, 6),
    From(<<>>, {"x", "0", "1", "=", "!=", "<=", "!"}, 5),
    From(<<>>, {"x", "0", "1", "-", "+", ">", ">="}, 5),
    From(<<"abs", "(", "x", ")">>, {"*", "<", "<=", ">", ">=", "=", "0", "1", "!"}, 7),
    From(<<"x", "*", "x">>, {"=", "!=", "0", "2", "!", "-", "+", "*"}, 6),
    From(<<"!", "(", "x", "+">>, {"5", "1", "!", ")", "-", "y", "="}, 8) }

\* Calls and if().
Calls ==
  { From(<<>>, {"abs", "(", ")", "x", "-", "!", "<"}, 6),
    From(<<>>, {"min", "max", "abs", "(", ")", ",", "x"}, 7),
    From(<<"max", "(", "max", "(", "x", ",", "y", ")", ",">>, {"x", "y", ")", "*", "5", ","}, 11),
    From(<<"if", "(", "x", ",">>, {"(", ")", ",", "x", "1", "+", "*"}, 10),
    From(<<"if", "(">>, {"x", ",", ")", "1", "<", "!"}, 9),
    From(<<"5", "*", "if", "(", "x", ",", "if", "(", "y", ",">>, {"x", "1", ",", ")", "+"}, 17) }

\* Inline variables.
Definitions ==
  { From(<<"a", ":=">>, {"a", ":=", ";", "x", "+", "5"}, 9),
    From(<<"a", ":=", "x", ";">>, {"a", "x", "y", "+", "*", "-", "0"}, 8),
    From(<<"a", ":=", "x", ";", "max", "(", "a", ",">>, {"a", "x", ")", "*", "5", ","}, 11),
    From(<<"a", ":=", "x", ";", "if", "(", "a", ",">>, {"a", "1", ",", ")", "+", "*"}, 13) }

\* Products that are added, products with 0 and products of sums.
Products ==
  { From(<<"x", "*", "y">>, {"x", "y", "0", "1", "*", "+", "-", "!"}, 7),
    From(<<"x", "*", "y", "+", "5", "*">>, {"x", "y", "2", "0", "*", "+", "-", "!"}, 9),
    From(<<"x", "*", "y", "+", "x", "*">>, {"y", "0", "2", "5", "-", "!", "*", "+"}, 9),
    From(<<"x", "*", "y", "-", "x", "*">>, {"y", "0", "2", "5", "-", "!", "*", "+"}, 9),
    From(<<"x", "*", "y", "+", "x", "*", "(", "!", "x", "%">>, {"y", "0", "2", ")", "*", "+"}, 14),
    From(<<"(", "x", "+", "5", ")", "*">>, {"5", "2", "x", "*", "+", "-", "(", ")"}, 10),
    From(<<"(", "y", "+", "x", "*", "5", ")", "*">>, {"5", "2", "x", "*", "+", "-", "(", ")"}, 11),
    From(<<"(", "x", "*", "y", "+", "x", ")", "*", "(", "y">>,
         {"5", "!", "x", "-", ")", "*", "/", "0"}, 13) }

MCGrammars == Arithmetic \cup Predicates \cup Calls \cup Definitions \cup Products

\* - x + - y and one more term.
NegatedTerms == { From(<<"-", "x", "+", "-">>, {"y", "5", "+", "-"}, 7) }

\* A product with 0 of a quotient by an expression of an inline variable.
ZeroProducts == { From(<<"a", ":=", "x", ";">>, {"a", "x", "0", "%", "!", "*"}, 10) }

MCPoints == {<<-1, 2>>, <<0, 3>>, <<2, 0>>}
=============================================================================
