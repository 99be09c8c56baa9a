----------------------------- MODULE RecursionProofs -----------------------------
(***************************************************************************)
(* Lemmas about natural numbers, sequences and functions that are defined  *)
(* by recursion, for the proofs about the other modules.                   *)
(***************************************************************************)
EXTENDS Naturals, FiniteSets, SequencesExt, FiniteSetTheorems, SequenceTheorems, TLAPS

\* A set of natural numbers that is not empty has a least member.
LEMMA LeastNatural ==
  ASSUME NEW S \in SUBSET Nat, S # {}
  PROVE  \E m \in S : \A k \in S : m <= k
<1>1. PICK n \in S : TRUE
  OBVIOUS
<1> DEFINE R == StrictSubsetOrdering(0..n)
           T == {0..k : k \in {j \in S : j <= n}}
<1>2. IsWellFoundedOn(R, SUBSET (0..n))
  <2>1. IsFiniteSet(0..n)
    BY FS_Interval
  <2>2. IsWellFoundedOn(R, FiniteSubsetsOf(0..n))
    BY FS_StrictSubsetOrderingWellFounded
  <2>3. FiniteSubsetsOf(0..n) = SUBSET (0..n)
    BY <2>1, FS_FiniteSubsetsOfFinite
  <2>4. QED  BY <2>2, <2>3
<1>3. T \subseteq SUBSET (0..n) /\ T # {}
  BY <1>1
<1> HIDE DEF R
<1>4. PICK x \in T : \A y \in T : <<y, x>> \notin R
  BY <1>2, <1>3, WFMin
<1>5. PICK m \in S : x = 0..m /\ m <= n
  OBVIOUS
<1>6. ASSUME NEW k \in S, k < m
      PROVE  FALSE
  <2>1. 0..k \in T
    BY <1>5, <1>6
  <2>2. <<0..k, 0..m>> \in R
    BY <1>5, <1>6 DEF R, StrictSubsetOrdering, FiniteSubsetsOf
  <2>3. QED  BY <1>4, <1>5, <2>1, <2>2
<1>7. QED  BY <1>6

\* Min() of a set of natural numbers is the least of them.
LEMMA MinIsLeast ==
  ASSUME NEW S \in SUBSET Nat, S # {}
  PROVE  Min(S) \in S /\ \A k \in S : Min(S) <= k
BY LeastNatural DEF Min

\* Max() of numbers up to n is the greatest of them.
LEMMA MaxIsGreatest ==
  ASSUME NEW n \in Nat, NEW S \in SUBSET (0..n), S # {}
  PROVE  Max(S) \in S /\ \A k \in S : k <= Max(S)
<1> DEFINE T == {n - k : k \in S}
<1>1. T \in SUBSET Nat /\ T # {}
  <2>1. \A k \in S : k \in 0..n /\ n - k \in Nat
    OBVIOUS
  <2>2. QED  BY <2>1
<1>2. PICK m \in T : \A j \in T : m <= j
  BY <1>1, LeastNatural
<1>3. PICK g \in S : m = n - g
  BY <1>2
<1>4. ASSUME NEW k \in S
      PROVE  k <= g
  <2>1. m <= n - k
    BY <1>2
  <2>2. k \in 0..n /\ g \in 0..n
    OBVIOUS
  <2>3. QED  BY <1>3, <2>1, <2>2
<1>5. \E x \in S : \A y \in S : x >= y
  BY <1>4
<1>6. QED  BY <1>5 DEF Max

\* A set that has 0, and k with k - 1, has all numbers up to n.
LEMMA Induction ==
  ASSUME NEW n \in Nat, NEW S, 0 \in S, \A k \in 1..n : k - 1 \in S => k \in S
  PROVE  \A k \in 0..n : k \in S
<1> DEFINE T == {k \in 0..n : k \notin S}
<1>1. SUFFICES ASSUME T # {}
               PROVE  FALSE
  OBVIOUS
<1>0. T \in SUBSET Nat
  OBVIOUS
<1>2. PICK m \in T : \A k \in T : m <= k
  BY <1>0, <1>1, LeastNatural
<1>3. m # 0 /\ m \in 0..n
  BY <1>2
<1>4. m \in 1..n /\ m - 1 \in 0..n /\ ~(m <= m - 1)
  BY <1>3
<1>5. m - 1 \in S
  BY <1>2, <1>4
<1>6. QED  BY <1>2, <1>4, <1>5

\* Function f starts with a, and step k goes on by g[k], up to n.
Iterates(f, n, D, a, g) ==
  /\ f \in [0..n -> D]
  /\ f[0] = a
  /\ \A k \in 1..n : f[k] = g[k][f[k - 1]]

\* What is defined up to n by a start and a step from each number to the next
\* exists.
LEMMA Iteration ==
  ASSUME NEW n \in Nat, NEW D, NEW a \in D, NEW g \in [1..n -> [D -> D]]
  PROVE  \E f : Iterates(f, n, D, a, g)
<1> DEFINE Good(m) == \E f \in [0..m -> D] :
                         f[0] = a /\ \A k \in 1..m : f[k] = g[k][f[k - 1]]
           S == {m \in 0..n : Good(m)}
<1>1. 0 \in S
  <2> DEFINE f == [k \in 0..0 |-> a]
  <2>1. f \in [0..0 -> D] /\ f[0] = a /\ 1..0 = {}
    OBVIOUS
  <2> HIDE DEF f
  <2>2. Good(0)
    BY <2>1
  <2>3. 0 \in 0..n
    OBVIOUS
  <2> HIDE DEF Good
  <2>4. QED  BY <2>2, <2>3
<1>2. ASSUME NEW m \in 1..n, m - 1 \in S
      PROVE  m \in S
  <2>1. PICK f \in [0..(m - 1) -> D] :
          f[0] = a /\ \A k \in 1..(m - 1) : f[k] = g[k][f[k - 1]]
    BY <1>2
  <2> DEFINE h == [k \in 0..m |-> IF k = m THEN g[m][f[m - 1]] ELSE f[k]]
  <2>2. m \in Nat /\ m # 0 /\ m - 1 \in 0..(m - 1)
    OBVIOUS
  <2>3. h \in [0..m -> D]
    <3>1. ASSUME NEW k \in 0..m
          PROVE  h[k] \in D
      <4>1. f[m - 1] \in D /\ g[m] \in [D -> D]
        BY <2>2
      <4>2. k # m => k \in 0..(m - 1)
        BY <2>2
      <4>3. QED  BY <4>1, <4>2
    <3>2. QED  BY <3>1
  <2>4. h[0] = a
    BY <2>1, <2>2
  <2>5. ASSUME NEW k \in 1..m
        PROVE  h[k] = g[k][h[k - 1]]
    <3>1. k \in 0..m /\ k - 1 \in 0..m /\ k - 1 # m
      BY <2>2
    <3>2. h[k - 1] = f[k - 1]
      BY <3>1
    <3>3. k # m => k \in 1..(m - 1)
      BY <2>2
    <3>4. QED  BY <2>1, <3>1, <3>2, <3>3
  <2>6. m \in 0..n
    OBVIOUS
  <2> HIDE DEF h
  <2>7. QED  BY <2>3, <2>4, <2>5, <2>6
<1> HIDE DEF S
<1>3. \A k \in 1..n : k - 1 \in S => k \in S
  BY <1>2
<1>4. \A k \in 0..n : k \in S
  BY <1>1, <1>3, Induction
<1>5. n \in 0..n
  OBVIOUS
<1>6. n \in S
  BY <1>4, <1>5
<1>7. QED  BY <1>6 DEF S, Iterates

(***************************************************************************)
(* Sequences.                                                              *)
(***************************************************************************)

\* A function on 1..n is a sequence of length n.
LEMMA FunctionIsSeq ==
  ASSUME NEW S, NEW n \in Nat, NEW f \in [1..n -> S]
  PROVE  f \in Seq(S) /\ Len(f) = n
OBVIOUS

\* The concatenation, by a name.
Joined(s, t) == s \o t

\* u has the elements of s, then those of t.
HasBoth(u, s, t) ==
  /\ Len(u) = Len(s) + Len(t)
  /\ \A i \in 1..Len(s) : u[i] = s[i]
  /\ \A i \in 1..Len(t) : u[Len(s) + i] = t[i]

\* The elements of a concatenation, one by one.
LEMMA ConcatElements ==
  ASSUME NEW S, NEW s \in Seq(S), NEW t \in Seq(S), NEW u \in Seq(S), HasBoth(u, s, t)
  PROVE  u = Joined(s, t)
<1> DEFINE w == s \o t
<1>1. /\ Len(u) = Len(s) + Len(t)
      /\ \A i \in 1..Len(s) : u[i] = s[i]
      /\ \A i \in 1..Len(t) : u[Len(s) + i] = t[i]
  BY DEF HasBoth
<1>2. /\ w \in Seq(S) /\ Len(w) = Len(s) + Len(t) /\ Len(s) \in Nat /\ Len(t) \in Nat
      /\ \A i \in 1..(Len(s) + Len(t)) : w[i] = IF i <= Len(s) THEN s[i] ELSE t[i - Len(s)]
  BY ConcatProperties, LenProperties
<1> HIDE DEF w
<1>3. ASSUME NEW i \in 1..Len(u)
      PROVE  u[i] = w[i]
  <2>1. CASE i <= Len(s)
    <3>1. i \in 1..Len(s) /\ w[i] = s[i]
      BY <1>1, <1>2, <2>1
    <3>2. QED  BY <1>1, <3>1
  <2>2. CASE ~(i <= Len(s))
    <3>1. i - Len(s) \in 1..Len(t) /\ w[i] = t[i - Len(s)] /\ Len(s) + (i - Len(s)) = i
      BY <1>1, <1>2, <2>2
    <3>2. QED  BY <1>1, <3>1
  <2>3. QED  BY <2>1, <2>2
<1>4. QED  BY <1>1, <1>2, <1>3, SeqEqual DEF w, Joined

\* The elements of a sequence that has been appended to.
LEMMA AppendSet ==
  ASSUME NEW S, NEW s \in Seq(S), NEW x
  PROVE  ToSet(Append(s, x)) = ToSet(s) \cup {x}
<1> DEFINE t == Append(s, x)
           T == S \cup {x}
<1>1. s \in Seq(T) /\ x \in T
  BY SeqMonotonic
<1>2. /\ DOMAIN s = 1..Len(s) /\ DOMAIN t = 1..(Len(s) + 1) /\ Len(s) \in Nat
      /\ \A i \in 1..Len(s) : t[i] = s[i]
      /\ t[Len(s) + 1] = x
  <2> HIDE DEF T
  <2>1. QED  BY <1>1, AppendProperties, LenProperties
<1>3. \A i \in 1..(Len(s) + 1) : i \in 1..Len(s) \/ i = Len(s) + 1
  BY <1>2
<1>4. Len(s) + 1 \in 1..(Len(s) + 1) /\ 1..Len(s) \subseteq 1..(Len(s) + 1)
  BY <1>2
<1> HIDE DEF t
<1>5. ToSet(t) = ToSet(s) \cup {x}
  BY <1>2, <1>3, <1>4 DEF ToSet
<1>6. QED  BY <1>5 DEF t

(***************************************************************************)
(* FlattenSeq().                                                           *)
(***************************************************************************)

\* f[i] is the concatenation of the sequences s[1] to s[i].
Concatenates(s, f) == \A i \in 1..Len(s) : f[i] = IF i = 1 THEN s[1] ELSE f[i - 1] \o s[i]

\* The elements of FlattenSeq() come from such a function.
LEMMA FlattenDefined ==
  ASSUME NEW S, NEW s \in Seq(Seq(S)), s # <<>>
  PROVE  \E f \in [1..Len(s) -> Seq(S)] : Concatenates(s, f) /\ FlattenSeq(s) = f[Len(s)]
<1> DEFINE n       == Len(s)
           Body(f) == [i \in 1..n |-> IF i = 1 THEN s[i] ELSE f[i - 1] \o s[i]]
           g       == [k \in 1..n |-> [x \in Seq(S) |-> x \o s[k]]]
<1>1. n \in Nat /\ n # 0 /\ \A i \in 1..n : s[i] \in Seq(S)
  BY EmptySeq, ElementOfSeq, LenProperties
<1>2. <<>> \in Seq(S)
  BY EmptySeq
<1>3. g \in [1..n -> [Seq(S) -> Seq(S)]]
  BY <1>1, ConcatProperties
<1>4. PICK e : Iterates(e, n, Seq(S), <<>>, g)
  <2> DEFINE D == Seq(S)
             a == <<>>
  <2>1. n \in Nat /\ a \in D /\ g \in [1..n -> [D -> D]]
    BY <1>1, <1>2, <1>3
  <2> HIDE DEF g, n, D, a
  <2>2. \E e : Iterates(e, n, D, a, g)
    BY <2>1, Iteration
  <2>3. QED  BY <2>2 DEF D, a
<1>5. /\ e \in [0..n -> Seq(S)] /\ e[0] = <<>>
      /\ \A k \in 1..n : e[k] = g[k][e[k - 1]]
  BY <1>4 DEF Iterates
<1> DEFINE h == [i \in 1..n |-> e[i]]
<1>6. ASSUME NEW i \in 1..n
      PROVE  e[i] = IF i = 1 THEN s[i] ELSE e[i - 1] \o s[i]
  <2>1. e[i - 1] \in Seq(S) /\ e[i] = e[i - 1] \o s[i]
    <3>1. i - 1 \in 0..n
      BY <1>1
    <3>2. QED  BY <1>5, <3>1
  <2>2. i = 1 => e[i - 1] = <<>>
    BY <1>5
  <2>3. <<>> \o s[i] = s[i]
    BY <1>1, ConcatEmptySeq
  <2>4. CASE i = 1
    BY <2>1, <2>2, <2>3, <2>4
  <2>5. CASE i # 1
    BY <2>1, <2>5
  <2>6. QED  BY <2>4, <2>5
<1>7. h = Body(h)
  <2>1. ASSUME NEW i \in 1..n
        PROVE  h[i] = Body(h)[i]
    <3>1. i # 1 => i - 1 \in 1..n
      BY <1>1
    <3>2. QED  BY <1>6, <3>1
  <2>2. QED  BY <2>1
<1> DEFINE f == CHOOSE x : x = Body(x)
<1>8. f = Body(f)
  <2> HIDE DEF h
  <2>1. QED  BY <1>7
<1>9. FlattenSeq(s) = f[n]
  BY <1>1 DEF FlattenSeq
<1> HIDE DEF f, h
<1>10. \A i \in 1..n : f[i] = IF i = 1 THEN s[i] ELSE f[i - 1] \o s[i]
  BY <1>8
<1>11. Concatenates(s, f)
  BY <1>10 DEF Concatenates
<1>12. f \in [1..n -> Seq(S)]
  <2> DEFINE Good == {i \in 0..n : i # 0 => f[i] \in Seq(S)}
  <2>1. 0 \in Good
    BY <1>1
  <2>2. ASSUME NEW i \in 1..n, i - 1 \in Good
        PROVE  i \in Good
    <3>1. i = 1 => f[i] \in Seq(S)
      BY <1>1, <1>10
    <3>2. i # 1 => f[i] \in Seq(S)
      <4>1. SUFFICES ASSUME i # 1
                     PROVE  f[i] \in Seq(S)
        OBVIOUS
      <4>2. i - 1 # 0
        BY <1>1, <4>1
      <4>3. f[i - 1] \in Seq(S) /\ s[i] \in Seq(S)
        BY <1>1, <2>2, <4>2
      <4>4. f[i] = f[i - 1] \o s[i]
        BY <1>10, <4>1, Zenon
      <4>5. QED  BY <4>3, <4>4, ConcatProperties
    <3>3. i \in 0..n
      BY <1>1
    <3>4. QED  BY <3>1, <3>2, <3>3
  <2> HIDE DEF Good
  <2>3. \A i \in 0..n : i \in Good
    BY <1>1, <2>1, <2>2, Induction
  <2>4. \A i \in 1..n : f[i] \in Seq(S)
    <3>1. \A i \in 1..n : i \in 0..n /\ i # 0
      BY <1>1
    <3>2. QED  BY <2>3, <3>1 DEF Good
  <2>5. f = [i \in 1..n |-> f[i]]
    BY <1>8
  <2>6. QED  BY <2>4, <2>5
<1>13. QED  BY <1>9, <1>11, <1>12

\* The elements of a concatenation.
LEMMA ConcatSet ==
  ASSUME NEW S, NEW s \in Seq(S), NEW t \in Seq(S)
  PROVE  ToSet(s \o t) = ToSet(s) \cup ToSet(t)
<1> DEFINE u == s \o t
           m == Len(s)
           n == Len(t)
<1>1. /\ m \in Nat /\ n \in Nat /\ DOMAIN s = 1..m /\ DOMAIN t = 1..n
      /\ DOMAIN u = 1..(m + n)
      /\ \A i \in 1..(m + n) : u[i] = IF i <= m THEN s[i] ELSE t[i - m]
  BY ConcatProperties, LenProperties
<1> HIDE DEF u, m, n
<1>2. \A i \in 1..m : i \in 1..(m + n) /\ i <= m
  BY <1>1
<1>3. \A i \in 1..n : m + i \in 1..(m + n) /\ ~(m + i <= m) /\ (m + i) - m = i
  BY <1>1
<1>4. \A i \in 1..(m + n) : i \in 1..m \/ i - m \in 1..n
  BY <1>1
<1>5. ToSet(s) \cup ToSet(t) \subseteq ToSet(u)
  <2>1. \A i \in 1..m : u[i] = s[i]
    BY <1>1, <1>2
  <2>2. \A i \in 1..n : u[m + i] = t[i]
    BY <1>1, <1>3
  <2>3. \A i \in 1..m : s[i] \in ToSet(u)
    BY <1>1, <1>2, <2>1 DEF ToSet
  <2>4. \A i \in 1..n : t[i] \in ToSet(u)
    BY <1>1, <1>3, <2>2 DEF ToSet
  <2>5. QED  BY <1>1, <2>3, <2>4 DEF ToSet
<1>6. ToSet(u) \subseteq ToSet(s) \cup ToSet(t)
  <2>1. ASSUME NEW i \in 1..(m + n)
        PROVE  u[i] \in ToSet(s) \cup ToSet(t)
    <3>1. CASE i <= m
      <4>1. i \in 1..m /\ u[i] = s[i]
        BY <1>1, <3>1
      <4>2. QED  BY <1>1, <4>1 DEF ToSet
    <3>2. CASE ~(i <= m)
      <4>1. i - m \in 1..n /\ u[i] = t[i - m]
        BY <1>1, <3>2
      <4>2. QED  BY <1>1, <4>1 DEF ToSet
    <3>3. QED  BY <3>1, <3>2
  <2>2. QED  BY <1>1, <2>1 DEF ToSet
<1>7. QED  BY <1>5, <1>6 DEF u

\* A flattened sequence has the elements of its parts, and no others.
LEMMA FlattenTyped ==
  ASSUME NEW S, NEW s \in Seq(Seq(S))
  PROVE  /\ FlattenSeq(s) \in Seq(S)
         /\ \A i \in 1..Len(s) : ToSet(s[i]) \subseteq ToSet(FlattenSeq(s))
<1>1. CASE s = <<>>
  <2>1. FlattenSeq(s) = s /\ Len(s) = 0
    BY <1>1 DEF FlattenSeq
  <2>2. s \in Seq(S)
    BY <1>1, EmptySeq
  <2>3. QED  BY <2>1, <2>2
<1>2. CASE s # <<>>
  <2> DEFINE n == Len(s)
  <2>1. PICK f \in [1..n -> Seq(S)] : Concatenates(s, f) /\ FlattenSeq(s) = f[n]
    BY <1>2, FlattenDefined
  <2>2. n \in Nat /\ n # 0 /\ \A i \in 1..n : s[i] \in Seq(S)
    BY <1>2, EmptySeq, ElementOfSeq, LenProperties
  <2>3. FlattenSeq(s) \in Seq(S)
    BY <2>1, <2>2
  <2>4. \A i \in 1..n : f[i] = IF i = 1 THEN s[1] ELSE f[i - 1] \o s[i]
    BY <2>1 DEF Concatenates
  <2> HIDE DEF n
  <2>5. ASSUME NEW i \in 1..n, i # 1
        PROVE  ToSet(f[i]) = ToSet(f[i - 1]) \cup ToSet(s[i])
    <3>1. i - 1 \in 1..n
      BY <2>2, <2>5
    <3>2. f[i - 1] \in Seq(S) /\ s[i] \in Seq(S)
      BY <2>1, <2>2, <3>1
    <3>3. f[i] = f[i - 1] \o s[i]
      BY <2>5, <2>4, Zenon
    <3>4. QED  BY <3>2, <3>3, ConcatSet
  <2>6. f[1] = s[1]
    <3>1. 1 \in 1..n
      BY <2>2
    <3>2. QED  BY <2>4, <3>1
  <2> DEFINE Good == {i \in 0..n : \A j \in 1..i : ToSet(s[j]) \subseteq ToSet(f[i])}
  <2>7. 0 \in Good
    BY <2>2
  <2>8. ASSUME NEW i \in 1..n, i - 1 \in Good
        PROVE  i \in Good
    <3>1. i \in 0..n /\ \A j \in 1..i : j \in 1..(i - 1) \/ j = i
      BY <2>2
    <3>2. CASE i = 1
      BY <2>6, <3>1, <3>2
    <3>3. CASE i # 1
      BY <2>5, <2>8, <3>1, <3>3
    <3>4. QED  BY <3>2, <3>3
  <2> HIDE DEF Good
  <2>9. \A i \in 0..n : i \in Good
    BY <2>2, <2>7, <2>8, Induction
  <2>10. n \in Good
    BY <2>2, <2>9
  <2>11. QED  BY <2>1, <2>3, <2>10 DEF Good, n
<1>3. QED  BY <1>1, <1>2

\* The sequence of the values of f.
Mapped(f, s) == [i \in 1..Len(s) |-> f[s[i]]]

\* To map a sequence keeps its length.
LEMMA MappedTyped ==
  ASSUME NEW A, NEW s \in Seq(A), NEW f, NEW B, \A x \in A : f[x] \in B
  PROVE  Mapped(f, s) \in Seq(B) /\ Len(Mapped(f, s)) = Len(s)
<1>1. Len(s) \in Nat /\ \A i \in 1..Len(s) : s[i] \in A
  BY LenProperties, ElementOfSeq
<1>2. Mapped(f, s) \in [1..Len(s) -> B]
  BY <1>1 DEF Mapped
<1>3. QED  BY <1>1, <1>2, FunctionIsSeq

\* To map two sequences joined is to join them mapped.
LEMMA MappedConcat ==
  ASSUME NEW A, NEW f, NEW s \in Seq(A), NEW t \in Seq(A)
  PROVE  Mapped(f, Joined(s, t)) = Joined(Mapped(f, s), Mapped(f, t))
<1> DEFINE B == {f[x] : x \in A}
           x == Mapped(f, s)
           y == Mapped(f, t)
           w == Joined(s, t)
           u == Mapped(f, w)
<1>1. /\ w \in Seq(A) /\ Len(w) = Len(s) + Len(t)
      /\ Len(s) \in Nat /\ Len(t) \in Nat
      /\ \A i \in 1..Len(s) : w[i] = s[i]
      /\ \A i \in 1..Len(t) : w[Len(s) + i] = t[i]
  BY ConcatProperties, LenProperties DEF Joined
<1>2. \A a \in A : f[a] \in B
  OBVIOUS
<1> HIDE DEF B
<1>3. /\ x \in Seq(B) /\ Len(x) = Len(s)
      /\ y \in Seq(B) /\ Len(y) = Len(t)
      /\ u \in Seq(B) /\ Len(u) = Len(s) + Len(t)
  BY <1>1, <1>2, MappedTyped
<1>4. /\ \A i \in 1..Len(s) : x[i] = f[s[i]]
      /\ \A i \in 1..Len(t) : y[i] = f[t[i]]
      /\ \A i \in 1..(Len(s) + Len(t)) : u[i] = f[w[i]]
  BY <1>1 DEF Mapped
<1> HIDE DEF x, y, u, w
<1>5. HasBoth(u, x, y)
  <2>1. ASSUME NEW i \in 1..Len(s)
        PROVE  u[i] = x[i]
    <3>1. i \in 1..(Len(s) + Len(t))
      BY <1>1
    <3>2. QED  BY <1>1, <1>4, <3>1
  <2>2. ASSUME NEW i \in 1..Len(t)
        PROVE  u[Len(s) + i] = y[i]
    <3>1. Len(s) + i \in 1..(Len(s) + Len(t))
      BY <1>1
    <3>2. u[Len(s) + i] = f[w[Len(s) + i]] /\ w[Len(s) + i] = t[i]
      BY <1>1, <1>4, <3>1
    <3>3. QED  BY <1>4, <3>2
  <2>3. QED  BY <1>3, <2>1, <2>2 DEF HasBoth
<1>6. u = Joined(x, y)
  BY <1>3, <1>5, ConcatElements
<1>7. QED  BY <1>6 DEF u, w, x, y

\* A sequence may be mapped before or after it is flattened.
LEMMA FlattenMapped ==
  ASSUME NEW A, NEW f, NEW s \in Seq(Seq(A))
  PROVE  Mapped(f, FlattenSeq(s)) = FlattenSeq([i \in 1..Len(s) |-> Mapped(f, s[i])])
<1> DEFINE B == {f[x] : x \in A}
           n == Len(s)
           t == [i \in 1..n |-> Mapped(f, s[i])]
<1>1. n \in Nat /\ \A i \in 1..n : s[i] \in Seq(A)
  BY LenProperties, ElementOfSeq
<1>2. t \in Seq(Seq(B)) /\ Len(t) = n
  <2>1. \A i \in 1..n : Mapped(f, s[i]) \in Seq(B)
    <3>1. \A x \in A : f[x] \in B
      OBVIOUS
    <3> HIDE DEF B
    <3>2. QED  BY <1>1, <3>1, MappedTyped
  <2>2. t \in [1..n -> Seq(B)]
    BY <2>1
  <2> HIDE DEF t, n, B
  <2>3. QED  BY <1>1, <2>2, FunctionIsSeq
<1>3. CASE s = <<>>
  <2>1. n = 0 /\ FlattenSeq(s) = <<>>
    BY <1>3 DEF FlattenSeq
  <2>2. t = <<>> /\ Mapped(f, <<>>) = <<>>
    BY <2>1 DEF Mapped
  <2> HIDE DEF t
  <2>3. FlattenSeq(t) = <<>>
    BY <2>2 DEF FlattenSeq
  <2>4. QED  BY <2>1, <2>2, <2>3 DEF t
<1>4. CASE s # <<>>
  <2>1. n # 0
    BY <1>4, EmptySeq, <1>1
  <2> HIDE DEF t, B
  <2>2. PICK F \in [1..n -> Seq(A)] : Concatenates(s, F) /\ FlattenSeq(s) = F[n]
    BY <1>4, FlattenDefined
  <2>3. t # <<>>
    BY <1>2, <2>1
  <2>4. PICK G \in [1..n -> Seq(B)] : Concatenates(t, G) /\ FlattenSeq(t) = G[n]
    BY <1>2, <2>3, FlattenDefined
  <2>5. /\ \A i \in 1..n : F[i] = IF i = 1 THEN s[1] ELSE F[i - 1] \o s[i]
        /\ \A i \in 1..n : G[i] = IF i = 1 THEN t[1] ELSE G[i - 1] \o t[i]
    BY <1>2, <2>2, <2>4 DEF Concatenates
  <2>6. \A i \in 1..n : t[i] = Mapped(f, s[i])
    BY DEF t
  <2> HIDE DEF n
  <2> DEFINE Good == {i \in 0..n : i # 0 => G[i] = Mapped(f, F[i])}
  <2>7. 0 \in Good
    BY <1>1
  <2>8. ASSUME NEW i \in 1..n, i - 1 \in Good
        PROVE  i \in Good
    <3>1. i \in 0..n
      BY <1>1
    <3>2. CASE i = 1
      <4>1. F[i] = s[i] /\ G[i] = t[i]
        BY <2>5, <3>2
      <4>2. QED  BY <2>6, <3>1, <4>1
    <3>3. CASE i # 1
      <4>1. i - 1 \in 1..n /\ i - 1 # 0
        BY <1>1, <3>3
      <4>2. F[i] = Joined(F[i - 1], s[i])
        BY <2>5, <3>3, Zenon DEF Joined
      <4>3. G[i] = Joined(G[i - 1], t[i])
        BY <2>5, <3>3, Zenon DEF Joined
      <4>4. G[i - 1] = Mapped(f, F[i - 1]) /\ t[i] = Mapped(f, s[i])
        BY <2>6, <2>8, <4>1
      <4>5. F[i - 1] \in Seq(A) /\ s[i] \in Seq(A)
        BY <1>1, <2>2, <4>1
      <4>6. G[i] = Mapped(f, F[i])
        BY <4>2, <4>3, <4>4, <4>5, MappedConcat
      <4>7. QED  BY <3>1, <4>6
    <3>4. QED  BY <3>2, <3>3
  <2> HIDE DEF Good
  <2>9. \A i \in 0..n : i \in Good
    BY <1>1, <2>7, <2>8, Induction
  <2>10. G[n] = Mapped(f, F[n])
    BY <1>1, <2>1, <2>9 DEF Good
  <2>11. QED  BY <2>2, <2>4, <2>10 DEF t, n
<1>5. QED  BY <1>3, <1>4

\* Flattening a sequence of single elements gives those elements.
LEMMA FlattenSingles ==
  ASSUME NEW S, NEW s \in Seq(S)
  PROVE  FlattenSeq([i \in 1..Len(s) |-> <<s[i]>>]) = s
<1> DEFINE n == Len(s)
           t == [i \in 1..n |-> <<s[i]>>]
           first(i) == [j \in 1..i |-> s[j]]
<1>1. /\ n \in Nat /\ (\A i \in 1..n : s[i] \in S)
      /\ s = [j \in 1..n |-> s[j]]
  BY LenProperties, ElementOfSeq
<1>2. t \in Seq(Seq(S)) /\ Len(t) = n
  <2>1. \A i \in 1..n : <<s[i]>> \in Seq(S)
    BY <1>1
  <2>2. t \in [1..n -> Seq(S)]
    BY <2>1
  <2> HIDE DEF t, n
  <2>3. QED  BY <1>1, <2>2, FunctionIsSeq
<1>3. CASE n = 0
  <2>1. t = <<>> /\ s = <<>>
    BY <1>1, <1>3
  <2> HIDE DEF t
  <2>2. FlattenSeq(t) = <<>>
    BY <2>1 DEF FlattenSeq
  <2>3. QED  BY <2>1, <2>2 DEF t
<1>4. CASE n # 0
  <2>1. \A i \in 1..n : t[i] = <<s[i]>>
    OBVIOUS
  <2> HIDE DEF t
  <2>2. t # <<>>
    BY <1>2, <1>4
  <2>3. PICK F \in [1..n -> Seq(S)] : Concatenates(t, F) /\ FlattenSeq(t) = F[n]
    BY <1>2, <2>2, FlattenDefined
  <2>4. \A i \in 1..n : F[i] = IF i = 1 THEN t[1] ELSE F[i - 1] \o t[i]
    BY <1>2, <2>3 DEF Concatenates
  <2> HIDE DEF n
  <2> DEFINE Good == {i \in 0..n : i # 0 => F[i] = first(i)}
  <2>5. 0 \in Good
    BY <1>1
  <2>6. ASSUME NEW i \in 1..n, i - 1 \in Good
        PROVE  i \in Good
    <3>1. i \in 0..n /\ i \in Nat
      BY <1>1
    <3>2. CASE i = 1
      <4>1. F[i] = <<s[1]>>
        BY <2>1, <2>4, <3>2
      <4>2. first(1) = <<s[1]>>
        OBVIOUS
      <4>3. QED  BY <3>1, <3>2, <4>1, <4>2
    <3>3. CASE i # 1
      <4>1. i - 1 \in 1..n /\ i - 1 # 0
        BY <1>1, <3>3
      <4>2. F[i] = Joined(F[i - 1], t[i])
        BY <2>4, <3>3, Zenon DEF Joined
      <4>3. F[i - 1] = first(i - 1) /\ t[i] = <<s[i]>>
        BY <2>1, <2>6, <4>1
      <4>4. Joined(first(i - 1), <<s[i]>>) = first(i)
        <5> DEFINE a == first(i - 1)
                   b == <<s[i]>>
                   u == first(i)
        <5>1. a \in Seq(S) /\ Len(a) = i - 1
          <6>1. a \in [1..(i - 1) -> S] /\ i - 1 \in Nat
            BY <1>1, <3>1, <4>1
          <6> HIDE DEF a
          <6>2. QED  BY <6>1, FunctionIsSeq
        <5>2. b \in Seq(S) /\ Len(b) = 1 /\ b[1] = s[i]
          BY <1>1
        <5>3. u \in Seq(S) /\ Len(u) = i
          <6>1. u \in [1..i -> S]
            BY <1>1, <3>1
          <6> HIDE DEF u
          <6>2. QED  BY <3>1, <6>1, FunctionIsSeq
        <5>4. HasBoth(u, a, b)
          <6>1. \A j \in 1..(i - 1) : u[j] = a[j]
            BY <3>1
          <6>2. \A j \in 1..1 : u[(i - 1) + j] = b[j]
            <7>1. \A j \in 1..1 : j = 1 /\ (i - 1) + j = i /\ i \in 1..i
              BY <3>1, <4>1
            <7>2. QED  BY <5>2, <7>1
          <6> HIDE DEF a, b, u
          <6>3. QED  BY <3>1, <5>1, <5>2, <5>3, <6>1, <6>2 DEF HasBoth
        <5> HIDE DEF a, b, u
        <5>5. u = Joined(a, b)
          BY <5>1, <5>2, <5>3, <5>4, ConcatElements
        <5>6. QED  BY <5>5 DEF a, b, u
      <4>5. F[i] = first(i)
        BY <4>2, <4>3, <4>4
      <4>6. QED  BY <3>1, <4>5
    <3>4. QED  BY <3>2, <3>3
  <2> HIDE DEF Good
  <2>7. \A i \in 0..n : i \in Good
    BY <1>1, <2>5, <2>6, Induction
  <2>8. F[n] = first(n)
    BY <1>1, <1>4, <2>7 DEF Good
  <2>9. QED  BY <1>1, <2>3, <2>8 DEF t, n
<1>5. QED  BY <1>3, <1>4
==================================================================================
