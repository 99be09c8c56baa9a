----------------------------- MODULE MCOptimizer -----------------------------
(***************************************************************************)
(* Texts for TLC (see MCCompiler): each group is for some of what the      *)
(* optimizer does.  The groups keep away from the texts that are known to  *)
(* be optimized wrongly (Findings in README.md).                           *)
(***************************************************************************)
EXTENDS Optimizer

From(prefix, tokens, length) == [prefix |-> prefix, tokens |-> tokens, length |-> length]

\* Sums and products, powers and multiples, and quotients.
Arithmetic ==
  { From(<<>>, {"x", "y", "2", "+", "-", "*"}, 5),
    From(<<"(", "x", "+", "y", ")", "*">>, {"x", "2", "y", "*", "+", "-", "(", ")"}, 10),
    From(<<"x", "*", "x", "*", "x">>, {"*", "x", "y", "-", "+"}, 10),
    From(<<"5", "*", "(", "x", "+", "2", "*", "y", ")">>, {"*", "5", "-", "y", "2"}, 13),
    From(<<"1", "/", "x">>, {"/", "*", "y", "-", "+", "5"}, 6),
    From(<<"x", "/">>, {"x", "y", "/", "*", "+"}, 6),
    From(<<"x", "%">>, {"y", "5", "2", "%", "*", "-"}, 7) }

\* Comparisons and logic.
Predicates ==
  { From(<<>>, {"x", "1", "0", "<=", ">", "&", "-"}, 5),
    From(<<"(", "x", "<", "y", ")">>, {"+", "&", "|", "=", "!=", "(", ")", "x", "y", "!"}, 9),
    From(<<"(", "x", "<", "y", ")", "*", "(">>, {"x", "y", ")", "=", "<=", "!", "+"}, 12),
    From(<<"(", "x", "=", "y", ")", "+", "(", "x", "<", "y", ")", "+", "(", "x">>,
         {"y", "=", "!=", "<", "<=", ">", ">=", ")"}, 17),
    From(<<"!", "x">>, {"+", "&", "|", "x", "=", "!", ">", "2"}, 6) }

\* Calls and if(), with subexpressions that are shared by the branches.
Calls ==
  { From(<<"max", "(", "x", ",", "y", ")", "+">>, {"min", "max", "(", ")", ",", "x", "y"}, 13),
    From(<<"min", "(", "!", "x", ",">>, {"2", "y", "!", "0", ")", "-"}, 9),
    From(<<"abs", "(", "x", "-", "y", ")">>, {"abs", "(", ")", "x", "-", "*"}, 11),
    From(<<"if", "(", "x", ",">>, {"(", ")", ",", "x", "1", "+", "*"}, 9),
    From(<<"if", "(", "x", ",", "if", "(", "y", ",">>, {"x", "y", "1", ",", ")", "+"}, 14),
    From(<<"if", "(", "x", "<", "y", ",", "x", "*">>, {"y", "x", ",", ")", "-", "+"}, 13),
    From(<<"if", "(", "x", ",", "(", "x", "+", "y", ")", "*">>, {"(", "x", "y", "+", ")", ","}, 17),
    From(<<"(", "x", "+", "y", ")", "*", "if", "(", "x", ",">>, {"x", "y", "+", ",", ")"}, 16),
    From(<<"if", "(", "if", "(", "x", ",", "y", ",", "2", ")", ",">>, {"x", "y", ",", ")", "1"}, 16) }

\* Inline variables, whose values the byte code leaves on the stack.
Definitions ==
  { From(<<"a", ":=", "x", "+", "y", ";">>, {"a", "x", "y", "*", "+", "-"}, 10),
    From(<<"a", ":=", "2", "*", "x", ";">>, {"a", "x", "y", "*", "-"}, 10),
    From(<<"a", ":=", "x", "*", "y", ";", "if", "(", "a", ",">>, {"a", "x", "1", "+", ",", ")"}, 15) }

\* Texts that rules of the grammars match.
Simplified ==
  { From(<<"5", "*", "x", "-">>, {"5", "*", "x", "y", "-", "+"}, 9),
    From(<<"x", "+", "y">>, {"=", "!=", "<", ">=", "x", "y", "+", "5"}, 7),
    From(<<"1", "-", "x", "<=">>, {"5", "x", "+", "y", "-"}, 8),
    From(<<"!", "x", "&">>, {"!", "x", "y", "&", "|"}, 8),
    From(<<"abs", "(", "x", ")", "*">>, {"abs", "(", ")", "x", "y", "!"}, 10),
    From(<<"if", "(", "x", ",">>, {"1", "0", "5", ",", ")", "-", "+", "*"}, 10),
    From(<<"if", "(", "x", "<=", "y", ",">>, {"x", "y", ",", ")", "+", "!"}, 12),
    From(<<"max", "(", "if", "(", "x", ",", "y", ",", "2", ")">>, {"if", "(", "x", "y", "0", ")", ","}, 19),
    From(<<"if", "(", "x", ",", "!", "y", ",">>, {"x", "1", ")", "&", "|", "!", "y"}, 12),
    From(<<"max", "(", "min", "(", "x", ",", "y", ")">>, {",", "x", "y", ")", "min", "("}, 15) }

MCGrammars == Simplified \cup Arithmetic \cup Predicates \cup Calls \cup Definitions

MCPoints == {<<-2, 1>>, <<-1, -1>>, <<0, 2>>, <<1, 0>>, <<2, -2>>}
=============================================================================
