-------------------------- MODULE MCCodeTreeCallers --------------------------
(***************************************************************************)
(* Instances of CodeTreeCallers for TLC.                                   *)
(***************************************************************************)
EXTENDS CodeTreeCallers

CONSTANTS
  a, b,
  MaxNodes          (* Bound: nodes alive before a call that may make more.*)

\* More addresses than nodes that live after a call: calls make nodes that die
\* with them.
Addresses == 1..(MaxNodes + CallNodes)

Variable == {Data("VarBegin", 0, <<>>)}

\* The nodes in the order in which a walk from the objects meets them.
RECURSIVE Walk(_, _)
Walk(met, n) ==
  IF n \in ToSet(met) THEN met
  ELSE FoldLeft(LAMBDA l, m : Walk(l, m), Append(met, n), heap.node[n].Params)

\* States that differ in the addresses of nodes only are the same.
View ==
  LET order == Walk(Walk(<<>>, heap.ptr[a]), heap.ptr[b])
      number(n) == CHOOSE i \in DOMAIN order : order[i] = n
  IN <<number(heap.ptr[b]), Cardinality(Live(heap)),
       [i \in DOMAIN order |->
          LET d == heap.node[order[i]]
          IN [d EXCEPT !.Params = [j \in DOMAIN d.Params |-> number(d.Params[j])]]]>>
==============================================================================
