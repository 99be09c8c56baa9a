----------------------------- MODULE ValueRange -----------------------------
(***************************************************************************)
(* What the optimizer knows of the values that a tree can have, in the     *)
(* build for long: CalculateResultBoundaries and what is concluded from    *)
(* it.  The ends of a range are sets: of the bound when it is known, empty *)
(* when it is not.                                                         *)
(***************************************************************************)
EXTENDS Trees

range(lo, hi) == [min |-> lo, max |-> hi]
Anything == range({}, {})
Hopeless(r) == r = Anything

\* v lies in the range.
Within(v, r) == (\A b \in r.min : b <= v) /\ (\A b \in r.max : v <= b)

\* The bounds of a range when both are known.
Bounds(r) == IF r.min # {} /\ r.max # {} THEN r.min \cup r.max ELSE {}

AtLeast(r, v) == \E b \in r.min : b >= v
AtMost(r, v) == \E b \in r.max : b <= v

Smallest(S) == {m \in S : \A n \in S : m <= n}
Greatest(S) == {m \in S : \A n \in S : n <= m}

-----------------------------------------------------------------------------

\* range::set_abs; a range that meets zero from both sides starts at 0.
set_abs(r) ==
  LET crosses == ~AtLeast(r, 0) /\ ~AtMost(r, 0)
      magnitudes == {Abs(b) : b \in r.min \cup r.max}
  IN range(IF crosses THEN {0} ELSE Smallest(magnitudes),
           IF Bounds(r) # {} THEN Greatest(magnitudes) ELSE {})

\* range::set_neg.
set_neg(r) == range({-b : b \in r.max}, {-b : b \in r.min})

IsLogicalTrueValue(r, abs) == AtLeast(r, 1) \/ (~abs /\ AtMost(r, -1))

IsLogicalFalseValue(r, abs) == AtMost(r, 0) /\ (abs \/ AtLeast(r, 0))

\* A group is estimated from the ranges of its parameters.
AddRanges(r, s) ==
  range({a + b : a \in r.min, b \in s.min}, {a + b : a \in r.max, b \in s.max})

(***************************************************************************)
(* The product of two ends that may be infinite: sign is 0 for a finite    *)
(* one.  Zero counts as positive.                                          *)
(***************************************************************************)
End(S, sign) == IF S = {} THEN [sign |-> sign, v |-> 0] ELSE [sign |-> 0, v |-> The(S)]
IsNegative(e) == e.sign < 0 \/ (e.sign = 0 /\ e.v < 0)
MulEnds(e, f) ==
  IF e.sign = 0 /\ f.sign = 0 THEN [sign |-> 0, v |-> e.v * f.v]
  ELSE [sign |-> IF IsNegative(e) # IsNegative(f) THEN -1 ELSE 1, v |-> 0]

\* An end of the result that was unknown once remains so.
MulRanges(r, s) ==
  LET products == {MulEnds(e, f) : e \in {End(r.min, -1), End(r.max, 1)},
                                   f \in {End(s.min, -1), End(s.max, 1)}}
      finite == {p.v : p \in {q \in products : q.sign = 0}}
  IN IF Hopeless(r) \/ Hopeless(s) THEN Anything
     ELSE range(IF r.min = {} \/ (\E p \in products : p.sign < 0) THEN {} ELSE Smallest(finite),
                IF r.max = {} \/ (\E p \in products : p.sign > 0) THEN {} ELSE Greatest(finite))

\* Mutant: the remainder of a negative number is taken for positive.
ModrangeOfPositive(x, y) == IF y.max = {} THEN Anything ELSE range({0}, y.max)

\* Only the greatest divisor is looked at.
Modrange(x, y) ==
  CASE y.max = {} -> Anything
    [] AtMost(y, -1) ->
         range(y.max, IF AtMost(x, -1) THEN {0} ELSE {-b : b \in y.max})
    [] OTHER ->
         range(IF AtLeast(x, 0) THEN {0} ELSE {-b : b \in y.max}, y.max)

\* min() and max() find the smallest or greatest ends, but never say that the
\* end of the result is known.
SpanIf(r, s) ==
  range(IF r.min = {} \/ s.min = {} THEN {} ELSE Smallest(r.min \cup s.min),
        IF r.max = {} \/ s.max = {} THEN {} ELSE Greatest(r.max \cup s.max))

-----------------------------------------------------------------------------

\* TriTruthValue.
IsAlways == "IsAlways"
IsNever == "IsNever"
Unknown == "Unknown"

GetEvennessInfo(t) ==
  IF ~IsImmed(t) THEN Unknown ELSE IF t.val % 2 = 0 THEN IsAlways ELSE IsNever

\* The power function of the build for long, which has none.
fp_pow(x, y) == 0

\* The range of p0 raised to the tree e, whose range is p1.
Powrange(base, e, p0, p1) ==
  LET positive == CASE AtLeast(p0, 0) -> IsAlways
                    [] AtMost(p0, -1) -> GetEvennessInfo(e)
                    [] GetEvennessInfo(e) = IsAlways -> IsAlways
                    [] OTHER -> Unknown
      even == IsImmed(e) /\ e.val > 0 /\ GetEvennessInfo(e) = IsAlways
      highest == {fp_pow(b, n) : b \in Greatest(p0.max), n \in p1.max}
      lowest == IF AtLeast(p0, 0) THEN p0.min ELSE IF AtMost(p0, 0) THEN p0.max ELSE {}
  IN CASE e = CodeTreeImmed(0) -> range({1}, {1})
       [] base = CodeTreeImmed(0) -> range({0}, {0})
       [] base = CodeTreeImmed(1) -> range({1}, {1})
       [] even -> range(IF lowest = {} THEN {0} ELSE {fp_pow(b, e.val) : b \in lowest},
                        {fp_pow(Abs(b), e.val) : b \in Bounds(p0)})
       [] positive = IsAlways /\ (AtMost(p1, -1) \/ \E b \in p1.min : b < 0) -> Anything
       [] positive = IsAlways ->
            range({0}, IF AtLeast(p0, 0) THEN highest ELSE {})
       [] positive = IsNever -> range({}, {0})
       [] OTHER -> Anything

RECURSIVE CalculateResultBoundaries(_)
CalculateResultBoundaries(t) ==
  LET of(i) == CalculateResultBoundaries(t.par[i])
      each == [i \in DOMAIN t.par |-> of(i)]
      reciprocal(p) == Node("cPow", <<p, CodeTreeImmed(-1)>>)
  IN CASE IsImmed(t) -> range({t.val}, {t.val})
       [] t.op \in Logical -> range({0}, {1})
       [] t.op = "cAbs" -> set_abs(of(1))
       [] t.op = "cNeg" -> set_neg(of(1))
       [] t.op \in {"cIf", "cAbsIf"} -> SpanIf(of(2), of(3))
       [] t.op = "cAdd" -> FoldLeft(AddRanges, range({0}, {0}), each)
       [] t.op = "cMul" -> FoldLeft(MulRanges, range({1}, {1}), each)
       [] t.op = "cMod" -> Modrange(of(1), of(2))
       [] t.op = "cPow" -> Powrange(t.par[1], t.par[2], of(1), of(2))
       [] t.op = "cInv" -> CalculateResultBoundaries(reciprocal(t.par[1]))
       [] t.op = "cDiv" ->
            CalculateResultBoundaries(Node("cMul", <<t.par[1], reciprocal(t.par[2])>>))
       [] t.op = "cSub" ->
            CalculateResultBoundaries(Node("cAdd", <<t.par[1], Node("cNeg", <<t.par[2]>>)>>))
       [] t.op = "cSqr" -> CalculateResultBoundaries(Node("cPow", <<t.par[1], CodeTreeImmed(2)>>))
       [] OTHER -> Anything

Tell(always, never) == IF always THEN IsAlways ELSE IF never THEN IsNever ELSE Unknown

Positivity(r) == Tell(AtLeast(r, 1), AtMost(r, -1))
GetPositivityInfo(t) == Positivity(CalculateResultBoundaries(t))

LogicalValue(r, abs) == Tell(IsLogicalTrueValue(r, abs), IsLogicalFalseValue(r, abs))
GetLogicalValue(t, abs) == LogicalValue(CalculateResultBoundaries(t), abs)

RECURSIVE IsLogicalValue(_)
IsLogicalValue(t) ==
  CASE IsImmed(t) -> t.val \in {0, 1}
    [] t.op = "cMul" -> \A i \in DOMAIN t.par : IsLogicalValue(t.par[i])
    [] t.op \in {"cIf", "cAbsIf"} -> IsLogicalValue(t.par[2]) /\ IsLogicalValue(t.par[3])
    [] OTHER -> t.op \in Logical
=============================================================================
