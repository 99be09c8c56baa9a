-------------------------- MODULE NumberStorageProofs --------------------------
(***************************************************************************)
(* Lemmas about the stores of NumberStorage: what each operator does to    *)
(* the items, and to the owners that it is not called for.                 *)
(***************************************************************************)
EXTENDS NumberStorage, RecursionProofs

\* The stores whose items hold members of D, and have sizes of B.
Stored(D, B) ==
  [ptr  : [Owners -> Items \cup {NoItem, NoObject}],
   num  : [Items -> D],
   bits : [Items -> B],
   pool : Seq(Items)]

\* Owner w holds the item it held, and that holds what it held.
Same(s, t, w) ==
  /\ t.ptr[w] = s.ptr[w]
  /\ s.ptr[w] \in Items => /\ t.num[s.ptr[w]] = s.num[s.ptr[w]]
                           /\ t.bits[s.ptr[w]] = s.bits[s.ptr[w]]

\* No other owner holds the item of w.
Alone(s, w) == \A v \in Owners \ {w} : s.ptr[v] # s.ptr[w]

(***************************************************************************)
(* Powers of 2.                                                            *)
(***************************************************************************)

\* A power of 2 is a positive integer, and greater than its exponent.
LEMMA Powers ==
  ASSUME NEW n \in Nat
  PROVE  2^n \in Nat /\ 2^n > n
<1> DEFINE S == 1..n
           f == [i \in 0..n |-> 1..i]
<1>1. IsFiniteSet(S) /\ Cardinality(S) = n
  BY FS_Interval
<1>2. IsFiniteSet(0..n) /\ Cardinality(0..n) = n + 1
  BY FS_Interval
<1>3. IsFiniteSet(SUBSET S) /\ Cardinality(SUBSET S) = 2^n
  <2> HIDE DEF S
  <2>1. QED  BY <1>1, FS_SUBSET
<1>4. f \in Injection(0..n, SUBSET S)
  <2>1. f \in [0..n -> SUBSET S]
    <3>1. \A i \in 0..n : 1..i \in SUBSET S
      OBVIOUS
    <3>2. QED  BY <3>1
  <2>2. \A i, j \in 0..n : f[i] = f[j] => i = j
    <3>1. SUFFICES ASSUME NEW i \in 0..n, NEW j \in 0..n, 1..i = 1..j
                   PROVE  i = j
      OBVIOUS
    <3>2. i > 0 => i \in 1..j
      BY <3>1
    <3>3. j > 0 => j \in 1..i
      BY <3>1
    <3>4. QED  BY <3>2, <3>3
  <2> HIDE DEF f, S
  <2>3. QED  BY <2>1, <2>2 DEF Injection, IsInjective
<1> HIDE DEF f, S
<1>5. Cardinality(0..n) <= Cardinality(SUBSET S)
  BY <1>3, <1>4, FS_Injection
<1>6. Cardinality(SUBSET S) \in Nat
  BY <1>3, FS_CardinalityType
<1>7. QED  BY <1>2, <1>3, <1>5, <1>6

(***************************************************************************)
(* Sequences.                                                              *)
(***************************************************************************)

\* An item that is not in the pool is appended to it.
LEMMA AppendedPool ==
  ASSUME NEW s \in Seq(Items), NEW d \in Items, IsInjective(s), d \notin ToSet(s)
  PROVE  LET t == Append(s, d)
         IN  t \in Seq(Items) /\ IsInjective(t) /\ ToSet(t) = ToSet(s) \cup {d}
<1> DEFINE t == Append(s, d)
<1>1. /\ Len(s) \in Nat /\ DOMAIN s = 1..Len(s) /\ DOMAIN t = 1..(Len(s) + 1)
      /\ t \in Seq(Items)
      /\ \A i \in 1..Len(s) : t[i] = s[i]
      /\ t[Len(s) + 1] = d
  BY AppendProperties, LenProperties
<1>2. \A i \in 1..(Len(s) + 1) : i \in 1..Len(s) \/ i = Len(s) + 1
  BY <1>1
<1>3. Len(s) + 1 \in 1..(Len(s) + 1) /\ 1..Len(s) \subseteq 1..(Len(s) + 1)
  BY <1>1
<1> HIDE DEF t
<1>4. ToSet(t) = ToSet(s) \cup {d}
  BY <1>1, <1>2, <1>3 DEF ToSet
<1>5. \A i \in 1..Len(s) : s[i] # d
  BY <1>1 DEF ToSet
<1>6. IsInjective(t)
  BY <1>1, <1>2, <1>5 DEF IsInjective
<1>7. QED  BY <1>1, <1>4, <1>6 DEF t

\* The last item of the pool is taken from it.
LEMMA TakenFromPool ==
  ASSUME NEW s \in Seq(Items), IsInjective(s), s # <<>>
  PROVE  /\ Last(s) \in ToSet(s) /\ Last(s) \in Items
         /\ Front(s) \in Seq(Items) /\ IsInjective(Front(s))
         /\ ToSet(Front(s)) = ToSet(s) \ {Last(s)}
<1>1. /\ Len(s) \in Nat /\ DOMAIN s = 1..Len(s) /\ Len(s) # 0
      /\ \A i \in 1..Len(s) : s[i] \in Items
  BY LenProperties, EmptySeq
<1>2. Front(s) = [i \in 1..(Len(s) - 1) |-> s[i]]
  BY <1>1 DEF Front
<1>3. /\ Front(s) \in Seq(Items) /\ DOMAIN Front(s) = 1..(Len(s) - 1)
      /\ \A i \in 1..(Len(s) - 1) : Front(s)[i] = s[i]
  <2>1. Len(s) - 1 \in Nat /\ 1..(Len(s) - 1) \subseteq 1..Len(s)
    BY <1>1
  <2>2. QED  BY <1>1, <1>2, <2>1, IsASeq
<1>4. \A i \in 1..Len(s) : i \in 1..(Len(s) - 1) \/ i = Len(s)
  <2>1. \A n \in Nat : \A i \in 1..n : i \in 1..(n - 1) \/ i = n
    OBVIOUS
  <2>2. QED  BY <1>1, <2>1
<1>5. Len(s) \in 1..Len(s) /\ 1..(Len(s) - 1) \subseteq 1..Len(s) \ {Len(s)}
  BY <1>1
<1>6. Last(s) = s[Len(s)]
  BY DEF Last
<1> HIDE DEF Front, Last
<1>7. IsInjective(Front(s))
  BY <1>1, <1>3, <1>5 DEF IsInjective
<1>8. \A i \in 1..(Len(s) - 1) : s[i] # s[Len(s)]
  BY <1>1, <1>5 DEF IsInjective
<1>9. ToSet(Front(s)) = ToSet(s) \ {Last(s)}
  BY <1>1, <1>3, <1>4, <1>5, <1>6, <1>8 DEF ToSet
<1>10. QED  BY <1>1, <1>3, <1>5, <1>6, <1>7, <1>9 DEF ToSet

(***************************************************************************)
(* Counting the owners of an item.                                         *)
(***************************************************************************)

\* use_count() is 0 where no owner holds the item, and at most 1 where nobody
\* but w does.
LEMMA UseCountTells ==
  ASSUME NEW s, NEW d
  PROVE  /\ UseCount(s, d) \in Nat
         /\ UseCount(s, d) = 0 <=> \A w \in Owners : s.ptr[w] # d
         /\ \A w \in Owners :
              s.ptr[w] = d => (~(UseCount(s, d) > 1) <=> Alone(s, w))
<1> DEFINE H == {w \in Owners : s.ptr[w] = d}
<1>1. IsFiniteSet(H) /\ Cardinality(H) \in Nat
  BY OwnersAssumption, FS_Subset, FS_CardinalityType
<1>2. UseCount(s, d) = Cardinality(H)
  BY DEF UseCount
<1>3. Cardinality(H) = 0 <=> H = {}
  BY <1>1, FS_EmptySet
<1>4. ASSUME NEW w \in Owners, s.ptr[w] = d
      PROVE  ~(UseCount(s, d) > 1) <=> Alone(s, w)
  <2>1. w \in H
    BY <1>4
  <2>2. ASSUME ~(UseCount(s, d) > 1)
        PROVE  Alone(s, w)
    <3>1. Cardinality(H) = 1
      BY <1>1, <1>2, <1>3, <2>1, <2>2
    <3>2. PICK x : H = {x}
      BY <1>1, <3>1, FS_Singleton
    <3>3. H = {w}
      BY <2>1, <3>2
    <3>4. QED  BY <1>4, <3>3 DEF Alone
  <2>3. ASSUME Alone(s, w)
        PROVE  ~(UseCount(s, d) > 1)
    <3>1. H = {w}
      BY <1>4, <2>3 DEF Alone
    <3>2. Cardinality(H) = 1
      BY <3>1, FS_Singleton
    <3>3. QED  BY <1>2, <3>2
  <2>4. QED  BY <2>2, <2>3
<1>5. QED  BY <1>1, <1>2, <1>3, <1>4

\* There are more items than owners, so that one is always free.
LEMMA ItemLeft ==
  ASSUME NEW D, NEW B, NEW s \in Stored(D, B)
  PROVE  \E d \in Items : d \notin InUse(s)
<1>1. SUFFICES ASSUME Items \subseteq InUse(s)
               PROVE  FALSE
  OBVIOUS
<1> DEFINE H == {w \in Owners : s.ptr[w] \in Items}
           f == [w \in H |-> s.ptr[w]]
<1>2. IsFiniteSet(H) /\ Cardinality(H) <= Cardinality(Owners)
  BY OwnersAssumption, FS_Subset
<1>3. f \in Surjection(H, Items)
  <2>1. f \in [H -> Items]
    OBVIOUS
  <2>2. \A d \in Items : \E w \in H : f[w] = d
    BY <1>1 DEF InUse
  <2> HIDE DEF f, H
  <2>3. QED  BY <2>1, <2>2 DEF Surjection
<1>4. Cardinality(Items) <= Cardinality(H)
  <2> HIDE DEF f, H
  <2>1. QED  BY <1>2, <1>3, FS_Surjection
<1>5. QED
  <2>1. Cardinality(Items) \in Nat /\ Cardinality(Owners) \in Nat /\ Cardinality(H) \in Nat
    BY <1>2, OwnersAssumption, ItemsAssumption, FS_CardinalityType
  <2>2. QED  BY <1>2, <1>4, <2>1, ItemsAssumption

(***************************************************************************)
(* The operators.                                                          *)
(***************************************************************************)

\* A shared_ptr takes an item that is not in the pool, or none.  What owners hold
\* afterwards is as it was before.
LEMMA PointKeeps ==
  ASSUME NEW D, NEW B, Blank \in D, 0 \in B,
         NEW s \in Stored(D, B), PoolUnused(s), NEW w \in Owners,
         NEW d \in (Items \cup {NoItem, NoObject}) \ ToSet(s.pool)
  PROVE  LET t == Point(s, w, d)
         IN  /\ t \in Stored(D, B) /\ PoolUnused(t)
             /\ t.ptr = [s.ptr EXCEPT ![w] = d]
             /\ \A e \in InUse(t) : t.num[e] = s.num[e] /\ t.bits[e] = s.bits[e]
<1> DEFINE t   == [s EXCEPT !.ptr[w] = d]
           old == s.ptr[w]
           u   == Point(s, w, d)
<1>1. /\ s.ptr \in [Owners -> Items \cup {NoItem, NoObject}]
      /\ s.num \in [Items -> D] /\ s.bits \in [Items -> B] /\ s.pool \in Seq(Items)
  BY DEF Stored
<1>2. /\ t \in Stored(D, B) /\ t.ptr = [s.ptr EXCEPT ![w] = d]
      /\ t.num = s.num /\ t.bits = s.bits /\ t.pool = s.pool
  BY DEF Stored
<1>3. u = IF old \in Items /\ UseCount(t, old) = 0 THEN Release(t, old) ELSE t
  BY DEF Point
<1> HIDE DEF t, u
<1>4. PoolUnused(t)
  BY <1>1, <1>2 DEF PoolUnused, InUse
<1>5. CASE old \in Items /\ UseCount(t, old) = 0
  <2>1. u = IF ReuseItems THEN [t EXCEPT !.num[old] = Blank, !.pool = Append(@, old)]
            ELSE [t EXCEPT !.num[old] = Blank, !.bits[old] = 0]
    BY <1>3, <1>5 DEF Release
  <2>2. old \notin InUse(t)
    BY <1>5, UseCountTells DEF InUse
  <2>3. old \notin ToSet(t.pool)
    BY <1>2, <1>5 DEF PoolUnused, InUse
  <2>4. CASE ReuseItems
    <3>1. LET p == Append(t.pool, old)
          IN  p \in Seq(Items) /\ IsInjective(p) /\ ToSet(p) = ToSet(t.pool) \cup {old}
      BY <1>1, <1>2, <1>4, <1>5, <2>3, AppendedPool DEF PoolUnused
    <3>2. /\ u \in Stored(D, B) /\ u.ptr = t.ptr /\ u.pool = Append(t.pool, old)
          /\ u.num = [t.num EXCEPT ![old] = Blank] /\ u.bits = t.bits
      BY <1>2, <1>5, <2>1, <2>4, <3>1 DEF Stored
    <3>3. InUse(u) = InUse(t)
      BY <3>2 DEF InUse
    <3>4. PoolUnused(u)
      BY <1>4, <2>2, <2>4, <3>1, <3>2, <3>3 DEF PoolUnused
    <3>5. QED  BY <1>1, <1>2, <2>2, <3>2, <3>3, <3>4 DEF u, InUse
  <2>5. CASE ~ReuseItems
    <3>1. /\ u \in Stored(D, B) /\ u.ptr = t.ptr /\ u.pool = t.pool
          /\ u.num = [t.num EXCEPT ![old] = Blank] /\ u.bits = [t.bits EXCEPT ![old] = 0]
      BY <1>2, <1>5, <2>1, <2>5 DEF Stored
    <3>2. InUse(u) = InUse(t)
      BY <3>1 DEF InUse
    <3>3. PoolUnused(u)
      BY <1>4, <2>5, <3>1, <3>2 DEF PoolUnused
    <3>4. QED  BY <1>1, <1>2, <2>2, <3>1, <3>2, <3>3 DEF u, InUse
  <2>6. QED  BY <2>4, <2>5
<1>6. CASE ~(old \in Items /\ UseCount(t, old) = 0)
  BY <1>2, <1>3, <1>4, <1>6 DEF u
<1>7. QED  BY <1>5, <1>6

\* The same, said of the owners: all but w hold what they held.
LEMMA PointSame ==
  ASSUME NEW D, NEW B, Blank \in D, 0 \in B,
         NEW s \in Stored(D, B), PoolUnused(s), NEW w \in Owners,
         NEW d \in (Items \cup {NoItem, NoObject}) \ ToSet(s.pool)
  PROVE  LET t == Point(s, w, d)
         IN  /\ t \in Stored(D, B) /\ PoolUnused(t)
             /\ t.ptr[w] = d
             /\ d \in Items => t.num[d] = s.num[d] /\ t.bits[d] = s.bits[d]
             /\ \A v \in Owners \ {w} : Same(s, t, v)
<1> DEFINE t == Point(s, w, d)
<1>1. /\ t \in Stored(D, B) /\ PoolUnused(t)
      /\ t.ptr = [s.ptr EXCEPT ![w] = d]
      /\ \A e \in InUse(t) : t.num[e] = s.num[e] /\ t.bits[e] = s.bits[e]
  BY PointKeeps
<1>2. s.ptr \in [Owners -> Items \cup {NoItem, NoObject}]
  BY DEF Stored
<1> HIDE DEF t
<1>3. t.ptr[w] = d /\ \A v \in Owners \ {w} : t.ptr[v] = s.ptr[v]
  BY <1>1, <1>2
<1>4. QED  BY <1>1, <1>3 DEF t, Same, InUse

\* The item that w allocates is held by nobody else.
LEMMA AllocateSame ==
  ASSUME NEW D, NEW B, Blank \in D, 0 \in B,
         NEW s \in Stored(D, B), PoolUnused(s), NEW w \in Owners,
         NEW bits \in B
  PROVE  LET t == Allocate(s, w, bits)
         IN  /\ t \in Stored(D, B) /\ PoolUnused(t)
             /\ t.ptr[w] \in Items /\ Alone(t, w)
             /\ \A v \in Owners \ {w} : Same(s, t, v)
<1> DEFINE t == Allocate(s, w, bits)
<1>1. /\ s.ptr \in [Owners -> Items \cup {NoItem, NoObject}]
      /\ s.num \in [Items -> D] /\ s.bits \in [Items -> B] /\ s.pool \in Seq(Items)
  BY DEF Stored
<1>2. CASE s.pool # <<>>
  <2> DEFINE u == [s EXCEPT !.pool = Front(@)]
             d == Last(s.pool)
  <2>1. /\ d \in ToSet(s.pool) /\ d \in Items
        /\ Front(s.pool) \in Seq(Items) /\ IsInjective(Front(s.pool))
        /\ ToSet(Front(s.pool)) = ToSet(s.pool) \ {d}
    BY <1>1, <1>2, TakenFromPool DEF PoolUnused
  <2>2. /\ u \in Stored(D, B) /\ u.ptr = s.ptr /\ u.num = s.num /\ u.bits = s.bits
        /\ u.pool = Front(s.pool)
    BY <1>1, <2>1 DEF Stored
  <2>3. t = Point(u, w, d)
    BY <1>2 DEF Allocate
  <2> HIDE DEF u, d
  <2>4. s.pool # <<>> => ReuseItems
    BY DEF PoolUnused
  <2>5. PoolUnused(u)
    BY <1>2, <2>1, <2>2, <2>4 DEF PoolUnused, InUse
  <2>6. d \in Items \ ToSet(u.pool) /\ \A v \in Owners : s.ptr[v] # d
    BY <2>1, <2>2 DEF PoolUnused, InUse
  <2> HIDE DEF t
  <2>7. /\ t \in Stored(D, B) /\ PoolUnused(t) /\ t.ptr[w] = d
        /\ \A v \in Owners \ {w} : Same(u, t, v)
    BY <2>2, <2>3, <2>5, <2>6, PointSame
  <2>8. QED  BY <2>2, <2>6, <2>7 DEF Same, Alone, t
<1>3. CASE s.pool = <<>>
  <2> DEFINE d == Untouched(s)
             u == [s EXCEPT !.bits[d] = bits]
  <2>1. ToSet(s.pool) = {}
    BY <1>3 DEF ToSet
  <2>2. d \in Items /\ d \notin InUse(s)
    BY <2>1, ItemLeft DEF Untouched
  <2>3. t = Point(u, w, d)
    BY <1>3 DEF Allocate
  <2> HIDE DEF d
  <2>4. /\ u \in Stored(D, B) /\ u.ptr = s.ptr /\ u.num = s.num /\ u.pool = s.pool
        /\ u.bits = [s.bits EXCEPT ![d] = bits]
    BY <1>1, <2>2 DEF Stored
  <2> HIDE DEF u, t
  <2>5. PoolUnused(u)
    BY <2>4 DEF PoolUnused, InUse
  <2>6. d \in Items \ ToSet(u.pool) /\ \A v \in Owners : s.ptr[v] # d
    BY <2>1, <2>2, <2>4 DEF InUse
  <2>7. /\ t \in Stored(D, B) /\ PoolUnused(t) /\ t.ptr[w] = d
        /\ \A v \in Owners \ {w} : Same(u, t, v)
    BY <2>3, <2>4, <2>5, <2>6, PointSame
  <2>8. \A v \in Owners \ {w} : Same(s, t, v)
    BY <1>1, <2>4, <2>6, <2>7 DEF Same
  <2>9. QED  BY <2>4, <2>6, <2>7, <2>8 DEF Same, Alone, t
<1>4. QED  BY <1>2, <1>3

\* A number is written to an item that nobody else holds.
LEMMA WriteSame ==
  ASSUME NEW D, NEW B, NEW s \in Stored(D, B), PoolUnused(s), NEW w \in Owners,
         s.ptr[w] \in Items, Alone(s, w), NEW n \in D
  PROVE  LET t == Write(s, w, n)
         IN  /\ t \in Stored(D, B) /\ PoolUnused(t)
             /\ t.ptr = s.ptr /\ t.bits = s.bits /\ Value(t, w) = n
             /\ \A v \in Owners \ {w} : Same(s, t, v)
<1> DEFINE t == Write(s, w, n)
<1>1. /\ t \in Stored(D, B) /\ t.ptr = s.ptr /\ t.bits = s.bits /\ t.pool = s.pool
      /\ t.num = [s.num EXCEPT ![s.ptr[w]] = n]
  BY DEF Write, Stored
<1> HIDE DEF t
<1>2. s.num \in [Items -> D]
  BY DEF Stored
<1>3. QED  BY <1>1, <1>2 DEF t, PoolUnused, InUse, Value, Alone, Same

\* The object o is moved to another, r.
LEMMA MoveSame ==
  ASSUME NEW D, NEW B, Blank \in D, 0 \in B, NEW s \in Stored(D, B), PoolUnused(s),
         NEW r \in Owners, NEW o \in Owners \ {r}, s.ptr[o] \in Items
  PROVE  LET t == MoveTo(s, r, o)
         IN  /\ t \in Stored(D, B) /\ PoolUnused(t)
             /\ t.ptr[r] = s.ptr[o] /\ t.ptr[o] = NoItem
             /\ Value(t, r) = Value(s, o) /\ t.bits[t.ptr[r]] = s.bits[s.ptr[o]]
             /\ \A v \in Owners \ {r, o} : Same(s, t, v)
<1> DEFINE t == MoveTo(s, r, o)
           u == Point(s, r, s.ptr[o])
<1>1. s.ptr[o] \in (Items \cup {NoItem, NoObject}) \ ToSet(s.pool)
  BY DEF PoolUnused, InUse
<1>2. /\ u \in Stored(D, B) /\ PoolUnused(u)
      /\ u.ptr[r] = s.ptr[o]
      /\ u.num[s.ptr[o]] = s.num[s.ptr[o]] /\ u.bits[s.ptr[o]] = s.bits[s.ptr[o]]
      /\ \A v \in Owners \ {r} : Same(s, u, v)
  BY <1>1, PointSame
<1>3. t = [u EXCEPT !.ptr[o] = NoItem]
  BY DEF MoveTo
<1> HIDE DEF u, t
<1>4. /\ t \in Stored(D, B) /\ t.num = u.num /\ t.bits = u.bits /\ t.pool = u.pool
      /\ t.ptr = [u.ptr EXCEPT ![o] = NoItem]
  BY <1>2, <1>3 DEF Stored
<1>5. u.ptr \in [Owners -> Items \cup {NoItem, NoObject}]
  BY <1>2 DEF Stored
<1>6. t.ptr[r] = s.ptr[o] /\ t.ptr[o] = NoItem /\ \A v \in Owners \ {o} : t.ptr[v] = u.ptr[v]
  BY <1>2, <1>4, <1>5
<1>7. PoolUnused(t)
  <2>1. InUse(t) \subseteq InUse(u)
    BY <1>6, ItemsAssumption DEF InUse
  <2>2. QED  BY <1>2, <1>4, <2>1 DEF PoolUnused
<1>8. \A v \in Owners \ {r, o} : Same(s, t, v)
  BY <1>2, <1>4, <1>6 DEF Same
<1>9. QED  BY <1>2, <1>4, <1>6, <1>7, <1>8 DEF t, Value

\* The store before the first object is made.
LEMMA EmptyStored ==
  ASSUME NEW D, NEW B, Blank \in D, 0 \in B
  PROVE  EmptyStore \in Stored(D, B) /\ PoolUnused(EmptyStore)
<1>1. EmptyStore \in Stored(D, B)
  BY DEF EmptyStore, Stored
<1>2. EmptyStore.pool = <<>> /\ \A w \in Owners : EmptyStore.ptr[w] \notin Items
  BY ItemsAssumption DEF EmptyStore
<1>3. QED  BY <1>1, <1>2 DEF PoolUnused, InUse, ToSet, IsInjective
================================================================================
