------------------------------- MODULE MCGmpInt -------------------------------
(***************************************************************************)
(* Instances of GmpInt for TLC.                                            *)
(***************************************************************************)
EXTENDS GmpInt

CONSTANTS a, b, c, zero

\* States that differ in the addresses of items only are the same.
View == Sharing(store)

Symmetric == Permutations(Objects)

Signed == {-3, 0, 2}
Numbered == 1..6
==============================================================================
