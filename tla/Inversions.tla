----------------------------- MODULE Inversions -----------------------------
(***************************************************************************)
(* RecreateInversionsAndNegations(): before byte code is made, sums with   *)
(* negative terms become differences again, in the build for long.  In     *)
(* this build no tree has a negative power (TypeOK of Optimizer), so that  *)
(* no product becomes a quotient; and since a sum that becomes a           *)
(* difference is not reported as a change, there is one pass, nothing is   *)
(* folded again, and the grammar that follows a change is never applied.   *)
(***************************************************************************)
EXTENDS Folding

\* The factors -1 and -2 of a product; with one it is subtracted.
NegativeFactors(p) ==
  {j \in DOMAIN p.par : p.op = "cMul" /\ IsImmed(p.par[j]) /\ p.par[j].val \in {-1, -2}}
IsSubtracted(p) == NegativeFactors(p) # {}

WithoutSign(p, i) ==
  Rehash("cMul", RemoveAt(p, i) \o IF p[i].val = -1 THEN <<>> ELSE <<CodeTreeImmed(2)>>)
Negated(p) == WithoutSign(p.par, Largest(NegativeFactors(p)))

Subtracted(addgroup, subgroup) ==
  CASE addgroup = Immed0 -> Node("cNeg", <<subgroup>>)
    [] addgroup # Immed0 /\ Depth(addgroup) = 1 -> Node("cRSub", <<subgroup, addgroup>>)
    [] OTHER -> IF subgroup.op = "cAdd"
                  THEN FoldLeft(LAMBDA a, p : Node("cSub", <<a, p>>), addgroup, subgroup.par)
                  ELSE Node("cSub", <<addgroup, subgroup>>)

\* The sum of some parameters, those that are subtracted without their sign.
AddGroup(p) == Rehash("cAdd", [i \in DOMAIN p |-> IF IsSubtracted(p[i]) THEN Negated(p[i]) ELSE p[i]])

Differences(t) ==
  LET subtracted == SelectSeq(Reverse(t.par), IsSubtracted)
      others == SelectSeq(t.par, LAMBDA p : ~IsSubtracted(p))
  IN IF subtracted = <<>> THEN t ELSE Subtracted(AddGroup(others), AddGroup(subtracted))

RecreateNode(t) ==
  CASE t.op = "cAdd" -> Differences(t)
    [] t.op = "cDiv" /\ t.par[1] = Immed1 -> Node("cInv", <<t.par[2]>>)
    [] OTHER -> t

RECURSIVE RecreateInversionsAndNegations(_)
RecreateInversionsAndNegations(t) ==
  RecreateNode([t EXCEPT !.par = [i \in DOMAIN t.par |-> RecreateInversionsAndNegations(t.par[i])]])
=============================================================================
