------------------------------- MODULE Folding -------------------------------
(***************************************************************************)
(* Constant folding of one node of a tree whose parameters are folded      *)
(* already, in the build for long: ConstantFolding and the operations on   *)
(* logical groups, sums and products, if(), powers and comparisons that it *)
(* calls.  Identical trees are equal values here.                          *)
(*                                                                         *)
(* Trees built from long have constant exponents, and no parameter that is *)
(* a product raised to a power has a constant factor (see NoScaledPower in *)
(* Optimizer), for which the code would divide by the logarithm 0 that     *)
(* fp_log2 returns for a long.                                             *)
(***************************************************************************)
EXTENDS ValueRange

Immed0 == CodeTreeImmed(0)
Immed1 == CodeTreeImmed(1)

\* A rule leaves the node as it is to be returned, or to be folded once more.
Done(t) == [tree |-> t, redo |-> FALSE]
Redo(t) == [tree |-> t, redo |-> TRUE]

\* Is folded once more when it became another tree.
Changed(t, new) == [tree |-> new, redo |-> new # t]

With(t, o) == [t EXCEPT !.op = o]
Indices(p) == [i \in DOMAIN p |-> i]
First(S) == CHOOSE i \in S : \A j \in S : i <= j

\* Mutant: products in products stay.
Unadopted(t) == t

\* AdoptChildrenWithSameOpcode: from the last parameter to the first.
Adopted(t) ==
  Node(t.op, SelectSeq(t.par, LAMBDA p : p.op # t.op)
             \o FlattenSeq([i \in DOMAIN t.par |->
                  LET p == t.par[Len(t.par) + 1 - i] IN IF p.op = t.op THEN p.par ELSE <<>>]))

RECURSIVE ConstantFolding(_)
Rehash(o, p) == ConstantFolding(Node(o, p))

-----------------------------------------------------------------------------
(***************************************************************************)
(* Logical groups (logic_boolgroups.hh).  A relationship of two trees is   *)
(* the set of the signs of their difference for which it holds.            *)
(***************************************************************************)
Mask(o) == CASE o = "cLess" -> {-1}       [] o = "cEqual" -> {0}   [] o = "cGreater" -> {1}
             [] o = "cLessOrEq" -> {-1, 0} [] o = "cNEqual" -> {-1, 1}
             [] o = "cGreaterOrEq" -> {0, 1}
WithMask(m) == CHOOSE o \in Comparisons : Mask(o) = m

NoComparisons == [items |-> <<>>, relationships |-> <<>>, const_offset |-> 0, change |-> "Ok"]

\* The item i is there already, negated or not.
ItemAgain(c, i, negated, type) ==
  CASE c.items[i].negated = negated -> [c EXCEPT !.change = "Suboptimal"]
    [] c.items[i].negated # negated ->
         CASE type = "or"  -> [c EXCEPT !.change = "BecomeOne"]
           [] type = "add" -> [c EXCEPT !.items = RemoveAt(@, i), !.const_offset = @ + 1,
                                        !.change = "Suboptimal"]
           [] OTHER        -> [c EXCEPT !.change = "BecomeZero"]

AddItem(c, a, negated, type) ==
  IF \E i \in DOMAIN c.items : c.items[i].value = a
    THEN ItemAgain(c, CHOOSE i \in DOMAIN c.items : c.items[i].value = a, negated, type)
    ELSE [c EXCEPT !.items = Append(@, [value |-> a, negated |-> negated])]

\* The sum of the two is a relationship, a constant, or one of each.
Summable(m, n) ==
  \/ m \cup n = {-1, 1} /\ m \cap n = {}
  \/ m \cup n = {-1, 0, 1} /\ m \cap n \in {{}, {0}}

\* What a relationship becomes when another one of the same trees is added.
Joined(c, i, m, type) ==
  LET old == c.relationships[i].mask
      either == old \cup m
      both == old \cap m
      become(r) == [c EXCEPT !.relationships[i].mask = r, !.change = "Suboptimal"]
  IN CASE type = "or"  -> IF either = {-1, 0, 1} THEN [c EXCEPT !.change = "BecomeOne"]
                          ELSE become(either)
       [] type \in {"and", "mul"} ->
            IF both = {} THEN [c EXCEPT !.change = "BecomeZero"] ELSE become(both)
       [] OTHER ->
            CASE either = {-1, 1} /\ both = {} -> become(either)
              [] either = {-1, 0, 1} /\ both = {} ->
                   [c EXCEPT !.relationships = RemoveAt(@, i), !.const_offset = @ + 1,
                             !.change = "Suboptimal"]
              [] either = {-1, 0, 1} /\ both = {0} ->
                   [become(both) EXCEPT !.const_offset = @ + 1]

\* The first relationship of the same trees is joined, in a sum the first that can be.
AddOrdered(c, a, b, m, type) ==
  LET joinable == {i \in DOMAIN c.relationships :
                     LET r == c.relationships[i]
                     IN r.a = a /\ r.b = b /\ (type = "add" => Summable(r.mask, m))}
  IN IF joinable = {}
       THEN [c EXCEPT !.relationships = Append(@, [a |-> a, b |-> b, mask |-> m])]
       ELSE Joined(c, First(joinable), m, type)

AddRelationship(c, p, m, type) ==
  IF HashLess(p[1], p[2]) THEN AddOrdered(c, p[1], p[2], m, type)
  ELSE AddOrdered(c, p[2], p[1], {-s : s \in m}, type)

Collected(t, type, is_logical) ==
  LET add(c, p) ==
        CASE c.change \in {"BecomeZero", "BecomeOne"} -> c
          [] p.op \in Comparisons -> AddRelationship(c, p.par, Mask(p.op), type)
          [] p.op \in {"cNot", "cNotNot"} -> AddItem(c, p.par[1], p.op = "cNot", type)
          [] p.op \notin Comparisons \cup {"cNot", "cNotNot"} ->
               IF is_logical \/ IsLogicalValue(p) THEN AddItem(c, p, FALSE, type) ELSE c
  IN FoldLeft(add, NoComparisons, t.par)

\* The tree made anew of what was collected, or the same tree.
Regrouped(t, c, is_logical) ==
  LET kept == IF is_logical THEN <<>> ELSE SelectSeq(t.par, LAMBDA p : ~IsLogicalValue(p))
      item(m) == IF m.negated THEN Rehash("cNot", <<m.value>>)
                 ELSE IF is_logical THEN m.value ELSE Rehash("cNotNot", <<m.value>>)
      relation(r) == Rehash(WithMask(r.mask), <<r.a, r.b>>)
      offset == IF c.const_offset = 0 THEN <<>> ELSE <<CodeTreeImmed(c.const_offset)>>
  IN CASE c.change = "Ok" -> t
       [] c.change = "BecomeZero" -> Immed0
       [] c.change = "BecomeOne" -> Immed1
       [] c.change = "Suboptimal" ->
            Node(t.op, kept \o [i \in DOMAIN c.items |-> item(c.items[i])]
                       \o [i \in DOMAIN c.relationships |-> relation(c.relationships[i])]
                       \o offset)

\* ConstantFolding_LogicCommon.
LogicCommon(t, type, is_logical) == Regrouped(t, Collected(t, type, is_logical), is_logical)

IsAnd(t) == t.op \in {"cAnd", "cAbsAnd"}
IsAbs(t) == t.op \in {"cAbsAnd", "cAbsOr"}

\* The group without its neutral parameters; all of them were truth values or not.
RestOfGroup(rest, allLogical) ==
  CASE rest.par = <<>> -> Done(IF IsAnd(rest) THEN Immed1 ELSE Immed0)
    [] Len(rest.par) = 1 -> Redo(With(rest, IF IsAbs(rest) THEN "cAbsNotNot" ELSE "cNotNot"))
    [] Len(rest.par) > 1 ->
         IF IsAbs(rest) /\ ~allLogical THEN Done(rest)
         ELSE Changed(rest, LogicCommon(rest, IF IsAnd(rest) THEN "and" ELSE "or", TRUE))

\* cAnd, cAbsAnd, cOr and cAbsOr.
FoldGroup(t, truth) ==
  LET neutral == IF IsAnd(t) THEN IsAlways ELSE IsNever
      absorbing == IF IsAnd(t) THEN IsNever ELSE IsAlways
  IN IF \E i \in DOMAIN t.par : truth[i] = absorbing
       THEN Done(IF IsAnd(t) THEN Immed0 ELSE Immed1)
       ELSE RestOfGroup(Node(t.op, FlattenSeq([i \in DOMAIN t.par |->
                                      IF truth[i] = neutral THEN <<>> ELSE <<t.par[i]>>])),
                        \A i \in DOMAIN t.par : IsLogicalValue(t.par[i]))

FoldAdopted(t) == FoldGroup(t, [i \in DOMAIN t.par |-> GetLogicalValue(t.par[i], IsAbs(t))])
FoldAndOr(t) == FoldAdopted(Adopted(t))

Opposite ==
  [cEqual |-> "cNEqual", cNEqual |-> "cEqual", cLess |-> "cGreaterOrEq",
   cGreater |-> "cLessOrEq", cLessOrEq |-> "cGreater", cGreaterOrEq |-> "cLess",
   cNotNot |-> "cNot", cNot |-> "cNotNot", cAbsNot |-> "cAbsNotNot", cAbsNotNot |-> "cAbsNot"]

Nots == {"cNot", "cAbsNot"}
Ifs == {"cIf", "cAbsIf"}

\* A negation, or a conversion to a truth value, of an if() with a negation as
\* one branch goes into the branches.
IntoBranches(t) ==
  LET inner == t.par[1]
      i == IF inner.par[2].op \in Nots THEN 2 ELSE 3
      branch == inner.par[i]
      other == Rehash(t.op, <<inner.par[5 - i]>>)
      this == CASE t.op \in Nots ->
                     Rehash(IF branch.op = "cNot" THEN "cNotNot" ELSE "cAbsNotNot", branch.par)
                [] OTHER -> branch
  IN IF inner.op \in Ifs /\ (inner.par[2].op \in Nots \/ inner.par[3].op \in Nots)
       THEN Redo(Node(inner.op, <<inner.par[1]>> \o
                                IF i = 2 THEN <<this, other>> ELSE <<other, this>>))
       ELSE Done(t)

\* A truth value that is known, or the operation o on it, which needs no
\* comparison with zero from both sides when the value is positive.
FoldTruth(t, truth, o, whenTrue) ==
  CASE truth = IsAlways -> Done(CodeTreeImmed(Truth(whenTrue)))
    [] truth = IsNever -> Done(CodeTreeImmed(Truth(~whenTrue)))
    [] OTHER -> IntoBranches(With(t, IF GetPositivityInfo(t.par[1]) = IsAlways THEN o ELSE t.op))

FoldNot(t) ==
  LET p == t.par[1]
  IN IF p.op \in DOMAIN Opposite THEN Redo(Node(Opposite[p.op], p.par))
     ELSE FoldTruth(t, GetLogicalValue(p, t.op = "cAbsNot"), "cAbsNot", FALSE)

FoldNotNot(t) ==
  LET p == t.par[1]
  IN IF IsLogicalValue(p) THEN Redo(p)
     ELSE FoldTruth(t, GetLogicalValue(p, t.op = "cAbsNotNot"), "cAbsNotNot", TRUE)

-----------------------------------------------------------------------------
(***************************************************************************)
(* Sums and products (logic_collections.hh).  A collection is a sequence   *)
(* of values with the parts of their factors or exponents.                 *)
(***************************************************************************)
Position(c, v) == {i \in DOMAIN c : c[i].value = v}

\* AddCollection.
AddCollection(c, v, factor) ==
  IF Position(c, v) = {} THEN Append(c, [value |-> v, factors |-> <<factor>>])
  ELSE [c EXCEPT ![The(Position(c, v))].factors = Append(@, factor)]

InHashOrder(c) == SortSeq(c, LAMBDA a, b : HashLess(a.value, b.value))

\* CollectMulGroup_Item: a factor as a base and an exponent.
BaseAndExponent(p) ==
  CASE p.op = "cPow" -> p.par
    [] p.op = "cInv" -> <<p.par[1], CodeTreeImmed(-1)>>
    [] OTHER -> <<p, Immed1>>

\* Mutant: a base that occurs again keeps its exponent.
FirstExponent(c) == c.factors[1].val

\* The exponent of a base of the collection.
Exponent(c) == FoldLeft(LAMBDA e, f : e + f.val, 0, c.factors)

\* The bases with the exponent e; inverses are kept when there are some already.
RaisedTo(bases, e, has_highlevel_opcodes) ==
  CASE e = 0 -> <<>>
    [] e = 1 -> bases
    [] OTHER -> <<IF e = -1 /\ has_highlevel_opcodes THEN Rehash("cInv", <<Rehash("cMul", bases)>>)
                  ELSE Rehash("cPow", <<Rehash("cMul", bases), CodeTreeImmed(e)>>)>>

\* The product of a collection mul, in the order of the hashes of the exponents,
\* when a base occurred twice or an exponent other than 1 has several bases.
Regenerated(t, mul, has_highlevel_opcodes) ==
  LET with(e) == SelectSeq(mul, LAMBDA c : Exponent(c) = e)
      bases(e) == [i \in DOMAIN with(e) |-> with(e)[i].value]
      exponents == SetToSortSeq({Exponent(mul[i]) : i \in DOMAIN mul},
                                LAMBDA d, e : HashLess(CodeTreeImmed(d), CodeTreeImmed(e)))
      raised(e) == RaisedTo(bases(e), e, has_highlevel_opcodes)
      should_regenerate == Len(mul) < Len(t.par) \/ \E e \in ToSet(exponents) \ {1} : Len(with(e)) > 1
  IN IF should_regenerate
       THEN Node("cMul", FlattenSeq([i \in DOMAIN exponents |-> raised(exponents[i])])) ELSE t

\* ConstantFolding_MulGrouping, as it is built: FP_MUL_COMBINE_EXPONENTS is not
\* defined yet where its file is included.
MulGrouping(t) ==
  LET add(c, p) == AddCollection(c, BaseAndExponent(p)[1], BaseAndExponent(p)[2])
  IN Regenerated(t, InHashOrder(FoldLeft(add, <<>>, t.par)), \E i \in DOMAIN t.par : t.par[i].op = "cInv")

IsMulGroup(p) == p.op = "cMul"

\* x + y*x*z becomes x*(1 + y*z): the position of a factor that is a term.
CommonFactor(c, p) ==
  {b \in DOMAIN p.par : ~IsImmed(p.par[b]) /\ Position(c, p.par[b]) # {}}
WithoutFactor(p, b) == Rehash("cMul", RemoveAt(p.par, b))

\* The factor that occurs in most of the products, with its depth as a weight.
MostFrequent(factors) ==
  LET count(i) == Cardinality({j \in DOMAIN factors : factors[j] = factors[i]})
      weight(i) == count(i) * Depth(factors[i])
      candidates == {i \in DOMAIN factors : count(i) > 1}
      best == {i \in candidates : \A j \in candidates : weight(j) <= weight(i)}
  IN IF candidates = {} THEN {} ELSE {factors[First(best)]}
GroupBy(products) ==
  IF Len(products) < 2 THEN {}
  ELSE MostFrequent(FlattenSeq([i \in DOMAIN products |-> products[i].par]))

AddTerms(c, p) == FoldLeft(LAMBDA d, t : AddCollection(d, t, Immed1), c, p)

\* A product joins the term that it has as a factor.
JoinTerms(c, plain, products) ==
  LET join(d, p) == LET b == First(CommonFactor(plain, p))
                    IN AddCollection(d, p.par[b], WithoutFactor(p, b))
  IN FoldLeft(join, c, products)

\* v times the sum of what is left of the products that have the factor v.
GroupOf(v, products) ==
  LET position(p) == First({b \in DOMAIN p.par : p.par[b] = v})
  IN Rehash("cMul", <<v, Rehash("cAdd",
       [i \in DOMAIN products |-> WithoutFactor(products[i], position(products[i]))])>>)

\* The products that joined no term, grouped by the factor in `by`.
Grouped(products, by) ==
  LET has(p) == \E v \in by : Contains(p.par, v)
  IN (IF by = {} THEN <<>> ELSE <<GroupOf(The(by), SelectSeq(products, has))>>)
     \o SelectSeq(products, LAMBDA p : ~has(p))

TermTimes(v, k) ==
  CASE k = Immed0 -> <<>> [] k = Immed1 -> <<v>> [] OTHER -> <<Rehash("cMul", <<v, k>>)>>

\* The sum of a collection.
SumOf(c) ==
  LET coefficient(k) == IF Len(k) = 1 THEN k[1] ELSE Rehash("cAdd", k)
  IN Node("cAdd", FlattenSeq([i \in DOMAIN c |-> TermTimes(c[i].value, coefficient(c[i].factors))]))

\* ConstantFolding_AddGrouping.
AddGrouping(t) ==
  LET terms == SelectSeq(t.par, LAMBDA p : ~IsMulGroup(p))
      joins(plain, p) == IsMulGroup(p) /\ CommonFactor(plain, p) # {}
      with(plain) == JoinTerms(plain, plain, SelectSeq(t.par, LAMBDA p : joins(plain, p)))
      remaining(plain) == SelectSeq(t.par, LAMBDA p : IsMulGroup(p) /\ ~joins(plain, p))
      result(c, by) == IF by # {} \/ Len(c) < Len(t.par) THEN SumOf(InHashOrder(c)) ELSE t
      all(c, products, by) == result(AddTerms(c, Grouped(products, by)), by)
      grouped(c, products) == all(c, products, GroupBy(products))
      collected(plain) == grouped(with(plain), remaining(plain))
  IN collected(AddTerms(<<>>, terms))

\* The constants of a sum or product t, merged.
Merged(t, total, unit) ==
  LET n == Cardinality({i \in DOMAIN t.par : IsImmed(t.par[i])})
  IN IF n > 1 \/ (n = 1 /\ total = unit)
       THEN Node(t.op, SelectSeq(t.par, LAMBDA p : ~IsImmed(p))
                       \o IF total = unit THEN <<>> ELSE <<CodeTreeImmed(total)>>)
       ELSE t

\* The grouped one when there was something to group, or else the common one.
Either(t, grouped, common) == IF grouped # t THEN Redo(grouped) ELSE Changed(t, common)

FoldFactors(t) ==
  CASE t.par = <<>> -> Done(Immed1)
    [] Len(t.par) = 1 -> Redo(t.par[1])
    [] OTHER -> Either(t, MulGrouping(t), LogicCommon(t, "mul", FALSE))

FoldProduct(t) ==
  LET total == FoldLeft(LAMBDA n, p : IF IsImmed(p) THEN n * p.val ELSE n, 1, t.par)
  IN IF Contains(t.par, Immed0) THEN Done(Immed0) ELSE FoldFactors(Merged(t, total, 1))

FoldMul(t) == FoldProduct(Adopted(t))

FoldTerms(t) ==
  CASE t.par = <<>> -> Done(Immed0)
    [] Len(t.par) = 1 -> Redo(t.par[1])
    [] OTHER -> Either(t, AddGrouping(t), LogicCommon(t, "add", FALSE))

FoldSum(t) ==
  LET total == FoldLeft(LAMBDA n, p : IF IsImmed(p) THEN n + p.val ELSE n, 0, t.par)
  IN FoldTerms(Merged(t, total, 0))

FoldAdd(t) == FoldSum(Adopted(t))

-----------------------------------------------------------------------------
(***************************************************************************)
(* min(), max() and abs().                                                 *)
(***************************************************************************)

\* Identical neighbours are one.
Distinct(p) == FoldLeft(LAMBDA s, x : IF s # <<>> /\ Last(s) = x THEN s ELSE Append(s, x), <<>>, p)

\* The first parameter with the smallest known maximum (or greatest minimum),
\* the limit, is preserved; those that are never smaller (or greater) go.
Preserved(o, p, ranges, limits, limit) ==
  LET preserve == First({i \in DOMAIN p : limits[i] = limit})
      beyond(i) == \E v \in limit : IF o = "cMin" THEN AtLeast(ranges[i], v)
                                    ELSE AtMost(ranges[i], v - 1)
  IN FlattenSeq([i \in DOMAIN p |-> IF beyond(i) /\ i # preserve THEN <<>> ELSE <<p[i]>>])

\* Mutant: one parameter is a group as well.
MinMaxOfAny(o, p) == Done(Node(o, p))

MinMaxOf(o, p) == IF Len(p) = 1 THEN Redo(p[1]) ELSE Done(Node(o, p))

FoldMinMax(t) ==
  LET limit(limits) == IF t.op = "cMin" THEN Smallest(UNION ToSet(limits)) ELSE Greatest(UNION ToSet(limits))
      limited(p, ranges, limits) == Preserved(t.op, p, ranges, limits, limit(limits))
      ranged(p, ranges) ==
        limited(p, ranges, [i \in DOMAIN p |-> IF t.op = "cMin" THEN ranges[i].max ELSE ranges[i].min])
      rest(p) == ranged(p, [i \in DOMAIN p |-> CalculateResultBoundaries(p[i])])
  IN MinMaxOf(t.op, rest(Distinct(Adopted(t).par)))

NeverNegative(p) == AtLeast(CalculateResultBoundaries(p), 0)
NeverPositive(p) == AtMost(CalculateResultBoundaries(p), 0)

\* abs(p*n*x*y) becomes p*-n*abs(x*y).
AbsOfProduct(t, p, pos_set, neg_set) ==
  LET unknown == SelectSeq(p, LAMBDA f : ~NeverNegative(f) /\ ~NeverPositive(f))
      sign == IF Len(neg_set) % 2 = 1 THEN <<CodeTreeImmed(-1)>> ELSE <<>>
  IN IF Len(pos_set) + Len(neg_set) > 0
       THEN Node("cMul", <<Rehash("cAbs", <<Rehash("cMul", unknown)>>)>> \o pos_set \o sign \o neg_set)
       ELSE t

\* It becomes a product, or stays.
FoldAsProduct(t) == IF IsMulGroup(t) THEN FoldMul(t) ELSE Done(t)

FoldAbs(t) ==
  LET p == t.par[1]
  IN IF NeverNegative(p) THEN Redo(p)
     ELSE FoldAsProduct(
       CASE NeverPositive(p) -> Node("cMul", <<p, CodeTreeImmed(-1)>>)
         [] ~NeverPositive(p) /\ IsMulGroup(p) ->
              AbsOfProduct(t, p.par, SelectSeq(p.par, NeverNegative), SelectSeq(p.par, NeverPositive))
         [] OTHER -> t)

-----------------------------------------------------------------------------
(***************************************************************************)
(* if() (logic_ifoperations.hh).                                           *)
(***************************************************************************)

\* A condition that is a negation: the branches are swapped.
RECURSIVE WithoutNot(_)
WithoutNot(t) ==
  IF t.par[1].op \in Nots
    THEN WithoutNot(Node(IF t.par[1].op = "cNot" THEN "cIf" ELSE "cAbsIf",
                         <<t.par[1].par[1], t.par[3], t.par[2]>>))
    ELSE t

\* if(if(x, a, b), c, d) when a or b is constantly true or false.
IfOfIf(t) ==
  LET cond == t.par[1]
      truth(i) == Rehash(IF cond.op = "cIf" THEN "cNotNot" ELSE "cAbsNotNot", <<cond.par[i]>>)
      branch(i) == Rehash(cond.op, <<cond.par[i], t.par[2], t.par[3]>>)
  IN IF cond.op \in Ifs /\ (IsImmed(truth(2)) \/ IsImmed(truth(3)))
       THEN {Node(cond.op, <<cond.par[1], branch(2), branch(3)>>)} ELSE {}

\* Two branches that are an if().
IfMerge(t) ==
  LET cond == t.par[1]
      l1 == t.par[2].par
      l2 == t.par[3].par
      o == t.par[2].op
      inner(i) == Rehash(t.op, <<cond, l1[i], l2[i]>>)
      negated == Rehash(IF o = "cIf" THEN "cNot" ELSE "cAbsNot", <<l2[1]>>)
      choose(c2) == Node(o, <<Rehash(t.op, <<cond, l1[1], c2>>), l1[2], l1[3]>>)
  IN CASE ~(o \in Ifs /\ t.par[3].op = o) -> {}
       [] o \in Ifs /\ t.par[3].op = o ->
            IF l1[1] = l2[1] /\ (l1[2] = l2[2] \/ l1[3] = l2[3])
              THEN {Node(o, <<l1[1], inner(2), inner(3)>>)}
            ELSE IF l1[2] = l2[2] /\ l1[3] = l2[3] THEN {choose(l2[1])}
            ELSE IF l1[2] = l2[3] /\ l1[3] = l2[2] THEN {choose(negated)} ELSE {}

\* The parameters that two groups share, and what is left of each.
Overlap(p, q) ==
  LET take(s, i) ==
        LET found == {b \in DOMAIN s.q : s.q[b] = p[i]}
        IN IF found = {} THEN s
           ELSE [p |-> RemoveAt(s.p, i), q |-> RemoveAt(s.q, Largest(found)),
                 overlap |-> Append(s.overlap, p[i])]
  IN FoldLeft(take, [p |-> p, q |-> q, overlap |-> <<>>], Reverse(Indices(p)))

\* A function that both branches apply is extracted.
SameFunction(t) ==
  LET o == t.par[2].op
      p == t.par[2].par
      q == t.par[3].par
      changed_if(a, b) == Rehash(t.op, <<t.par[1], a, b>>)
      common == Overlap(p, q)
      binary == Len(p) = 2 /\ Len(q) = 2
  IN CASE o # t.par[3].op \/ p = <<>> -> {}
       [] o = t.par[3].op /\ p # <<>> ->
            IF Len(p) = 1 THEN {Node(o, <<changed_if(p[1], q[1])>>)}
            ELSE IF binary /\ p[1] = q[1] THEN {Node(o, <<p[1], changed_if(p[2], q[2])>>)}
            ELSE IF binary /\ p[2] = q[2] THEN {Node(o, <<changed_if(p[1], q[1]), p[2]>>)}
            ELSE IF o \in Groups \cup {"cAbsAnd", "cAbsOr"} /\ common.overlap # <<>>
              THEN {Node(o, common.overlap
                            \o <<changed_if(Rehash(o, common.p), Rehash(o, common.q))>>)}
            ELSE {}

\* if(x, y+z, y) becomes if(x, z, 0) + y; the branch i is the group.
OneShared(t, i) ==
  LET group == t.par[i]
      other == t.par[5 - i]
      whole == IF \/ group.op \in {"cAdd", "cMul"}
                  \/ group.op \in {"cAnd", "cOr"} /\ IsLogicalValue(other)
               THEN {other} ELSE {}
      truth == IF group.op \in {"cAnd", "cOr"} /\ other.op = "cNotNot" THEN {other.par[1]} ELSE {}
      shared == {b \in DOMAIN group.par : group.par[b] \in whole}
      last == Largest(IF shared # {} THEN shared
                      ELSE {b \in DOMAIN group.par : group.par[b] \in truth})
      neutral == CodeTreeImmed(IF group.op \in {"cAdd", "cOr"} THEN 0 ELSE 1)
      rest == Rehash(group.op, RemoveAt(group.par, last))
      branches == IF i = 2 THEN <<rest, neutral>> ELSE <<neutral, rest>>
  IN IF \E b \in DOMAIN group.par : group.par[b] \in whole \cup truth
       THEN {Node(group.op, <<group.par[last], Rehash(t.op, <<t.par[1]>> \o branches)>>)} ELSE {}

\* The first that applies.
OrElse(result, other) == IF result # {} THEN result ELSE other
Become(t, result) == IF result = {} THEN Done(t) ELSE Redo(The(result))

FoldBranches(t, truth) ==
  LET same == IF t.par[2] = t.par[3] THEN {t.par[2]} ELSE {}
      shared == OrElse(SameFunction(t), OrElse(OneShared(t, 2), OneShared(t, 3)))
  IN CASE truth = IsAlways -> Redo(t.par[2])
       [] truth = IsNever -> Redo(t.par[3])
       [] truth = Unknown -> Become(t, OrElse(IfOfIf(t), OrElse(IfMerge(t), OrElse(same, shared))))

\* ConstantFolding_IfOperations.
FoldCondition(t) == FoldBranches(t, GetLogicalValue(t.par[1], t.op = "cAbsIf"))
FoldIf(t) == FoldCondition(WithoutNot(t))

-----------------------------------------------------------------------------
(***************************************************************************)
(* Comparisons (logic_comparisons.hh) and powers (logic_powoperations.hh). *)
(***************************************************************************)

\* RangeComparisonsData: what a comparison becomes when its operands are
\* identical, when the first is always <, <=, > or >= the second, and when one
\* is a truth value and the other's range satisfies a condition.
Data ==
  [cEqual |-> [identical |-> "True", always |-> <<"False", "", "False", "">>,
     logical |-> << <<1, "NotNot", "Eq1">>, <<1, "Not", "Eq0">>,
                    <<2, "NotNot", "Eq1">>, <<2, "Not", "Eq0">> >>],
   cNEqual |-> [identical |-> "False", always |-> <<"True", "", "True", "">>,
     logical |-> << <<1, "NotNot", "Eq0">>, <<1, "Not", "Eq1">>,
                    <<2, "NotNot", "Eq0">>, <<2, "Not", "Eq1">> >>],
   cLess |-> [identical |-> "False", always |-> <<"True", "NEqual", "False", "False">>,
     logical |-> << <<1, "Not", "Gt0Le1">>, <<2, "NotNot", "Ge0Lt1">> >>],
   cLessOrEq |-> [identical |-> "True", always |-> <<"", "True", "False", "Equal">>,
     logical |-> << <<1, "Not", "Ge0Lt1">>, <<2, "NotNot", "Gt0Le1">> >>],
   cGreater |-> [identical |-> "False", always |-> <<"False", "False", "True", "NEqual">>,
     logical |-> << <<1, "NotNot", "Ge0Lt1">>, <<2, "Not", "Gt0Le1">> >>],
   cGreaterOrEq |-> [identical |-> "True", always |-> <<"False", "Equal", "", "True">>,
     logical |-> << <<1, "NotNot", "Gt0Le1">>, <<2, "Not", "Ge0Lt1">> >>]]

\* Eq1 compares the maximum with itself.
TestCase(when, r) ==
  \E lo \in r.min, hi \in r.max :
     CASE when = "Eq0" -> lo = 0 /\ hi = lo
       [] when = "Eq1" -> lo = 1 /\ hi = hi
       [] when = "Gt0Le1" -> lo > 0 /\ hi <= 1
       [] when = "Ge0Lt1" -> lo >= 0 /\ hi < 1

\* RangeComparisonData::Analyze: a decision and the operand that it is about;
\* p has the ranges of the operands.
Decided(d, p) ==
  LET holds == << \E m \in p[1].max, n \in p[2].min : m < n,
                  \E m \in p[1].max, n \in p[2].min : m <= n,
                  \E m \in p[1].min, n \in p[2].max : m > n,
                  \E m \in p[1].min, n \in p[2].max : m >= n >>
  IN {i \in 1..4 : holds[i] /\ d.always[i] # ""}

Analyze(d, operands, p) ==
  LET cases == {i \in DOMAIN d.logical :
                  LET l == d.logical[i] IN IsLogicalValue(operands[l[1]]) /\ TestCase(l[3], p[3 - l[1]])}
      decision(decided) ==
        IF decided # {} THEN <<d.always[First(decided)], 0>>
        ELSE IF cases # {} THEN <<d.logical[First(cases)][2], d.logical[First(cases)][1]>>
        ELSE <<"", 0>>
  IN IF operands[1] = operands[2] THEN <<d.identical, 0>> ELSE decision(Decided(d, p))

Conclude(t, d) ==
  CASE d[1] = "" -> Done(t)
    [] d[1] = "False" -> Redo(Immed0)
    [] d[1] = "True" -> Redo(Immed1)
    [] d[1] = "Equal" -> Redo(With(t, "cEqual"))
    [] d[1] = "NEqual" -> Redo(With(t, "cNEqual"))
    [] d[1] = "NotNot" -> Redo(Node("cNotNot", <<t.par[d[2]]>>))
    [] d[1] = "Not" -> Redo(Node("cNot", <<t.par[d[2]]>>))

FoldComparison(t) ==
  Conclude(t, Analyze(Data[t.op], t.par, [i \in 1..2 |-> CalculateResultBoundaries(t.par[i])]))

\* ConstantFolding_PowOperations, without the rules for exponents that are not
\* constants and for a product with a constant factor.
FoldPow(t) ==
  LET base == t.par[1]
      exponent == t.par[2]
      c == base.par[2].val * exponent.val
      inner == IF base.par[2].val % 2 = 0 /\ c % 2 # 0 THEN Rehash("cAbs", <<base.par[1]>>)
               ELSE base.par[1]
  IN CASE IsImmed(base) /\ IsImmed(exponent) -> Done(CodeTreeImmed(fp_pow(base.val, exponent.val)))
       [] ~IsImmed(base) /\ exponent = Immed1 -> Redo(base)
       [] OTHER -> IF base.op = "cPow" /\ IsImmed(exponent) /\ IsImmed(base.par[2])
                     THEN Done(Node("cPow", <<inner, CodeTreeImmed(c)>>))
                     ELSE Done(t)

-----------------------------------------------------------------------------
(***************************************************************************)
(* ConstantFolding.                                                        *)
(***************************************************************************)

\* The square root of the build for long, which has none.
fp_sqrt(x) == 1

\* An operation on constants.
FoldConstants(t) ==
  LET v == [i \in DOMAIN t.par |-> t.par[i].val]
  IN IF (\A i \in DOMAIN t.par : IsImmed(t.par[i])) /\ ~DividesByZero(t.op, v)
       THEN Done(CodeTreeImmed(Result(t.op, v))) ELSE Done(t)

FoldOperation(t) ==
  CASE t.op \in {"cAnd", "cAbsAnd", "cOr", "cAbsOr"} -> FoldAndOr(t)
    [] t.op \in Nots -> FoldNot(t)
    [] t.op \in {"cNotNot", "cAbsNotNot"} -> FoldNotNot(t)
    [] t.op \in Ifs -> FoldIf(t)
    [] t.op = "cMul" -> FoldMul(t)
    [] t.op = "cAdd" -> FoldAdd(t)
    [] t.op \in {"cMin", "cMax"} -> FoldMinMax(t)
    [] t.op \in Comparisons -> FoldComparison(t)
    [] t.op = "cAbs" -> FoldAbs(t)
    [] t.op = "cPow" -> FoldPow(t)
    [] t.op \in {"cMod", "cDiv", "cInv", "cSub", "cNeg", "cSqr"} -> FoldConstants(t)
    [] t.op = "cSqrt" -> Done(IF IsImmed(t.par[1]) THEN CodeTreeImmed(fp_sqrt(t.par[1].val)) ELSE t)
    [] t.op \in {"cImmed", "VarBegin", "cRDiv", "cRSub", "cFma", "cFms", "cFmma", "cFmms"} -> Done(t)

FoldAgain(f) == IF f.redo THEN ConstantFolding(f.tree) ELSE f.tree

FoldWithRange(t, r) ==
  IF ~IsImmed(t) /\ r.min # {} /\ r.min = r.max THEN CodeTreeImmed(The(r.min))
  ELSE FoldAgain(FoldOperation(t))

FoldSorted(t) == FoldWithRange(t, CalculateResultBoundaries(t))
ConstantFolding(t) == FoldSorted(Sort(t))
=============================================================================
