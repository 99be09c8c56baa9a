----------------------------- MODULE MCMpfrFloat -----------------------------
(***************************************************************************)
(* Instances of MpfrFloat for TLC.                                         *)
(***************************************************************************)
EXTENDS MpfrFloat

CONSTANTS a, b, zero, log2, log2inv, epsilon

\* States that differ in the addresses of items only are the same.
View == <<Sharing(store), mDefaultPrecision>>

Symmetric == Permutations(Objects)

\* 3 has two significant bits: it is rounded to 4 in one.
Three == 3
Numbers == {0, 3}
OneOrTwo == {1, 2}
SevenMinus(n) == 7 - n
EpsilonOf(bits) == 4^(2 - bits)
SomeNumbers == {-3, 0, 1, 3, 4}
Numbered == 1..8
==============================================================================
