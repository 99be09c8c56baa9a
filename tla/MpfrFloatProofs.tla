----------------------------- MODULE MpfrFloatProofs -----------------------------
(***************************************************************************)
(* Proofs about MpfrFloat: no call changes another object, or a constant   *)
(* of the container, and a change of the precision changes no object but   *)
(* those that share epsilon.                                               *)
(***************************************************************************)
EXTENDS MpfrFloat, NumberStorageProofs

\* Whom a call can be for: an object, or the unnamed one it makes.
Users == Objects \cup {Temporary}

\* The sizes of items; 0 is that of an item that was never initialized.
Sizes == Precisions \cup {0}

Size(s, w) == s.bits[s.ptr[w]]

\* The constants that exist have items of their own, and hold what they stand
\* for when the default precision is p.
ConstantsOK(s, p) ==
  /\ \A c \in Constants : s.ptr[c] # NoObject
  /\ \A c, e \in Constants : c # e /\ s.ptr[c] \in Items => s.ptr[c] # s.ptr[e]
  /\ s.ptr[Log2Inv] \in Items => s.ptr[Log2] \in Items
  /\ s.ptr[Zero] \in Items => Value(s, Zero) = Round(0, Size(s, Zero))
  /\ s.ptr[Log2] \in Items => Value(s, Log2) = Round(ExactLog2, Size(s, Log2))
  /\ s.ptr[Log2Inv] \in Items =>
       Value(s, Log2Inv) = Round(Reciprocal(Value(s, Log2)), Size(s, Log2Inv))
  /\ s.ptr[Epsilon] \in Items => Value(s, Epsilon) = Round(ExactEpsilon(p), Size(s, Epsilon))

SoundAt(s, p) ==
  /\ p \in Precisions
  /\ s \in Stored(Int, Sizes) /\ PoolUnused(s)
  /\ ConstantsOK(s, p)

Sound(s) == SoundAt(s, mDefaultPrecision)

\* What may happen from s to t when only the owners of W are worked on.
Acts(s, t, W) == Sound(t) /\ \A v \in Owners \ W : Same(s, t, v)

\* What the assumptions say of who holds items, for the lemmas about storage.
LEMMA Kinds ==
  /\ Blank \in Int /\ 0 \in Sizes /\ Sizes \subseteq Nat
  /\ Owners = Users \cup Constants /\ Users \cap Constants = {}
  /\ Objects \subseteq Users /\ Temporary \in Users /\ Temporary \notin Objects
  /\ Constants = {Zero, Log2, Log2Inv, Epsilon}
  /\ Zero \notin {Log2, Log2Inv, Epsilon} /\ Log2 \notin {Log2Inv, Epsilon}
  /\ Log2Inv # Epsilon
BY OwnersAssumption, ConstantsAssumption, ArgumentsAssumption, PrecisionAssumption
DEF Owners, Users, Sizes

\* Rounding gives an integer, for every integer and size.
LEMMA RoundIs ==
  ASSUME NEW n \in Int, NEW bits \in Nat
  PROVE  Round(n, bits) \in Int
<1> DEFINE a == Magnitude(n)
           S == {k \in 0..a : a < 2^(k + bits)}
           u == Ulp(n, bits)
<1>1. a \in Nat
  BY DEF Magnitude
<1>2. S \in SUBSET Nat /\ S # {}
  <2>1. a + bits \in Nat
    BY <1>1
  <2>2. 2^(a + bits) \in Nat /\ 2^(a + bits) > a + bits
    BY <2>1, Powers
  <2>3. a < 2^(a + bits)
    BY <1>1, <2>2
  <2> HIDE DEF a
  <2>4. a \in 0..a
    BY <1>1
  <2>5. QED  BY <2>3, <2>4
<1>3. u = 2^Min(S)
  BY DEF Ulp
<1> HIDE DEF a, S
<1>4. Min(S) \in Nat
  BY <1>2, MinIsLeast
<1> HIDE DEF u
<1>5. u \in Nat /\ u > 0
  BY <1>3, <1>4, Powers
<1> DEFINE q == a \div u
           r == 2 * (a % u)
           m == u * (IF r > u \/ (r = u /\ q % 2 = 1) THEN q + 1 ELSE q)
<1>6. q \in Int /\ m \in Int
  BY <1>1, <1>5
<1>7. Round(n, bits) = IF n < 0 THEN -m ELSE m
  BY DEF Round, u, a
<1> HIDE DEF m
<1>8. QED  BY <1>6, <1>7

(***************************************************************************)
(* Storage.                                                                *)
(***************************************************************************)

\* Two steps one after the other change the objects that either changes.
LEMMA ActsAgain ==
  ASSUME NEW s, NEW t, NEW u, NEW V, NEW W, Acts(s, t, V), Acts(t, u, W)
  PROVE  Acts(s, u, V \cup W)
BY DEF Acts, Same

\* Where the constants keep their items, they are what they were.
LEMMA ConstantsKept ==
  ASSUME NEW s, NEW t, Sound(s), \A c \in Constants : Same(s, t, c)
  PROVE  ConstantsOK(t, mDefaultPrecision)
<1>1. \A c \in Constants : t.ptr[c] = s.ptr[c]
  BY DEF Same
<1>2. \A c \in Constants : s.ptr[c] \in Items => /\ Value(t, c) = Value(s, c)
                                                 /\ Size(t, c) = Size(s, c)
  BY DEF Same, Value, Size
<1>3. ConstantsOK(s, mDefaultPrecision)
  BY DEF Sound, SoundAt
<1>4. QED  BY <1>1, <1>2, <1>3, Kinds DEF ConstantsOK

\* What owners that are no constants do with their items leaves a sound store.
LEMMA UserActs ==
  ASSUME NEW s, NEW t, Sound(s), NEW W \in SUBSET Users,
         t \in Stored(Int, Sizes), PoolUnused(t), \A v \in Owners \ W : Same(s, t, v)
  PROVE  Acts(s, t, W)
<1>1. \A c \in Constants : Same(s, t, c)
  BY Kinds
<1>2. ConstantsOK(t, mDefaultPrecision)
  BY <1>1, ConstantsKept
<1>3. QED  BY <1>2 DEF Acts, Sound, SoundAt

\* An item that is taken is nobody else's.
LEMMA AllocateActs ==
  ASSUME NEW s, Sound(s), NEW o \in Users
  PROVE  LET t == allocateMpfrFloatData(s, o)
         IN  Acts(s, t, {o}) /\ t.ptr[o] \in Items /\ Alone(t, o)
<1> DEFINE t == allocateMpfrFloatData(s, o)
<1>1. mDefaultPrecision \in Sizes
  BY DEF Sound, SoundAt, Sizes
<1>2. /\ t \in Stored(Int, Sizes) /\ PoolUnused(t)
      /\ t.ptr[o] \in Items /\ Alone(t, o)
      /\ \A v \in Owners \ {o} : Same(s, t, v)
  BY <1>1, Kinds, AllocateSame DEF allocateMpfrFloatData, Sound, SoundAt
<1> HIDE DEF t
<1>3. Acts(s, t, {o})
  BY <1>2, UserActs
<1>4. QED  BY <1>2, <1>3 DEF t

\* What MPFR writes to an item that is not shared.
LEMMA PutSame ==
  ASSUME NEW s \in Stored(Int, Sizes), PoolUnused(s), NEW w \in Owners,
         s.ptr[w] \in Items, Alone(s, w), NEW n \in Int
  PROVE  LET t == Put(s, w, n)
         IN  /\ t \in Stored(Int, Sizes) /\ PoolUnused(t)
             /\ t.ptr = s.ptr /\ t.bits = s.bits /\ Alone(t, w)
             /\ Value(t, w) = Round(n, Size(s, w))
             /\ \A v \in Owners \ {w} : Same(s, t, v)
<1> DEFINE m == Round(n, s.bits[s.ptr[w]])
           t == Write(s, w, m)
<1>1. s.bits[s.ptr[w]] \in Nat
  BY Kinds DEF Stored
<1>2. m \in Int
  BY <1>1, RoundIs
<1> HIDE DEF m
<1>3. /\ t \in Stored(Int, Sizes) /\ PoolUnused(t)
      /\ t.ptr = s.ptr /\ t.bits = s.bits /\ Value(t, w) = m
      /\ \A v \in Owners \ {w} : Same(s, t, v)
  BY <1>2, Kinds, WriteSame
<1>4. Put(s, w, n) = t
  BY DEF Put, m
<1> HIDE DEF t
<1>5. Alone(t, w)
  BY <1>3 DEF Alone
<1>6. QED  BY <1>3, <1>4, <1>5 DEF m, Size

\* To write into an item that is the object's alone changes that object.
LEMMA PutActs ==
  ASSUME NEW s, Sound(s), NEW o \in Users, s.ptr[o] \in Items, Alone(s, o), NEW n \in Int
  PROVE  LET t == Put(s, o, n)
         IN  Acts(s, t, {o}) /\ t.ptr = s.ptr /\ Alone(t, o)
<1> DEFINE t == Put(s, o, n)
<1>1. /\ t \in Stored(Int, Sizes) /\ PoolUnused(t) /\ t.ptr = s.ptr /\ Alone(t, o)
      /\ \A v \in Owners \ {o} : Same(s, t, v)
  BY Kinds, PutSame DEF Sound, SoundAt
<1> HIDE DEF t
<1>2. Acts(s, t, {o})
  BY <1>1, UserActs
<1>3. QED  BY <1>1, <1>2 DEF t

\* A new item, with a number written to it.
LEMMA ReturnedActs ==
  ASSUME NEW s, Sound(s), NEW o \in Users, NEW n \in Int
  PROVE  LET t == Put(allocateMpfrFloatData(s, o), o, n)
         IN  Acts(s, t, {o}) /\ t.ptr[o] \in Items /\ Alone(t, o)
<1> DEFINE t == allocateMpfrFloatData(s, o)
           u == Put(t, o, n)
<1>1. Acts(s, t, {o}) /\ t.ptr[o] \in Items /\ Alone(t, o)
  BY AllocateActs
<1> HIDE DEF t
<1>2. Acts(t, u, {o}) /\ u.ptr = t.ptr /\ Alone(u, o)
  BY <1>1, PutActs DEF Acts
<1> HIDE DEF u
<1>3. Acts(s, u, {o} \cup {o})
  BY <1>1, <1>2, ActsAgain
<1>4. QED  BY <1>1, <1>2, <1>3 DEF t, u

\* The numbers of a sound store are integers.
LEMMA NumIs ==
  ASSUME NEW s, Sound(s)
  PROVE  /\ \A w \in Owners : s.ptr[w] \in Items => Value(s, w) \in Int
         /\ \A x \in Valid(s) \cup Longs : Num(s, x) \in Int
<1>1. \A w \in Owners : s.ptr[w] \in Items => Value(s, w) \in Int
  BY DEF Sound, SoundAt, Stored, Value
<1>2. ASSUME NEW x \in Valid(s) \cup Longs
      PROVE  Num(s, x) \in Int
  <2>1. CASE x \in Objects
    <3>1. x \notin Longs /\ x \in Owners
      BY <2>1, ArgumentsAssumption DEF Owners
    <3>2. s.ptr[x] \in Items
      BY <3>1 DEF Valid
    <3>3. QED  BY <1>1, <2>1, <3>1, <3>2 DEF Num
  <2>2. CASE x \notin Objects
    <3>1. x \in Longs
      BY <2>2 DEF Valid
    <3>2. QED  BY <2>2, <3>1, ArgumentsAssumption DEF Num
  <2>3. QED  BY <2>1, <2>2
<1>3. QED  BY <1>1, <1>2

\* After copyIfShared(), o has its item for itself.
LEMMA CopyActs ==
  ASSUME NEW s, Sound(s), NEW o \in Users, s.ptr[o] \in Items
  PROVE  LET t == copyIfShared(s, o)
         IN  Acts(s, t, {o}) /\ t.ptr[o] \in Items /\ Alone(t, o)
<1> DEFINE t == copyIfShared(s, o)
<1>1. o \in Owners /\ Value(s, o) \in Int
  BY Kinds, NumIs
<1>2. CASE UseCount(s, s.ptr[o]) > 1
  BY <1>1, <1>2, ReturnedActs DEF copyIfShared
<1>3. CASE ~(UseCount(s, s.ptr[o]) > 1)
  <2>1. Alone(s, o)
    BY <1>1, <1>3, UseCountTells
  <2>2. t = s
    BY <1>3 DEF copyIfShared
  <2>3. QED  BY <2>1, <2>2 DEF Acts, Same
<1>4. QED  BY <1>2, <1>3

\* What is there of another owner's number stays when o has its item copied.
LEMMA ValidStays ==
  ASSUME NEW s, NEW t, NEW o, Sound(s), Acts(s, t, {o}), s.ptr[o] \in Items, t.ptr[o] \in Items,
         o \in Objects
  PROVE  Valid(t) = Valid(s)
<1>1. \A v \in Objects \ {o} : t.ptr[v] = s.ptr[v]
  BY DEF Acts, Same, Owners
<1>2. QED  BY <1>1 DEF Valid

\* Any number may be written after copyIfShared().
LEMMA CopyPuts ==
  ASSUME NEW s, Sound(s), NEW o \in Users, s.ptr[o] \in Items, NEW n \in Int
  PROVE  Acts(s, Put(copyIfShared(s, o), o, n), {o})
<1> DEFINE t == copyIfShared(s, o)
           u == Put(t, o, n)
<1>1. Acts(s, t, {o}) /\ t.ptr[o] \in Items /\ Alone(t, o)
  BY CopyActs
<1> HIDE DEF t
<1>2. Acts(t, u, {o})
  BY <1>1, PutActs DEF Acts
<1> HIDE DEF u
<1>3. Acts(s, u, {o} \cup {o})
  BY <1>1, <1>2, ActsAgain
<1>4. QED  BY <1>3 DEF t, u

\* After resetIfShared(), o has an item for itself, and may be written to.
LEMMA ResetPuts ==
  ASSUME NEW s, Sound(s), NEW o \in Users, s.ptr[o] \in Items, NEW n \in Int
  PROVE  Acts(s, Put(resetIfShared(s, o, mDefaultPrecision), o, n), {o})
<1> DEFINE t == resetIfShared(s, o, mDefaultPrecision)
           u == Put(t, o, n)
<1>1. Acts(s, t, {o}) /\ t.ptr[o] \in Items /\ Alone(t, o)
  <2>1. CASE UseCount(s, s.ptr[o]) > 1
    BY <2>1, AllocateActs DEF resetIfShared, allocateMpfrFloatData
  <2>2. CASE ~(UseCount(s, s.ptr[o]) > 1)
    <3>1. Alone(s, o)
      BY <2>2, Kinds, UseCountTells
    <3>2. t = s
      BY <2>2 DEF resetIfShared
    <3>3. QED  BY <3>1, <3>2 DEF Acts, Same
  <2>3. QED  BY <2>1, <2>2
<1> HIDE DEF t
<1>2. Acts(t, u, {o})
  BY <1>1, PutActs DEF Acts
<1> HIDE DEF u
<1>3. Acts(s, u, {o} \cup {o})
  BY <1>1, <1>2, ActsAgain
<1>4. QED  BY <1>3 DEF t, u

\* A shared_ptr of a user takes the item of another, or none.
LEMMA PointActs ==
  ASSUME NEW s, Sound(s), NEW o \in Users, NEW d,
         d \in {NoItem, NoObject} \/ \E v \in Owners : s.ptr[v] = d /\ d \in Items
  PROVE  LET t == Point(s, o, d)
         IN  Acts(s, t, {o}) /\ t.ptr[o] = d
<1> DEFINE t == Point(s, o, d)
<1>1. d \in (Items \cup {NoItem, NoObject}) \ ToSet(s.pool)
  <2>1. s.pool \in Seq(Items) /\ PoolUnused(s)
    BY DEF Sound, SoundAt, Stored
  <2>2. ToSet(s.pool) \subseteq Items
    BY <2>1, LenProperties DEF ToSet
  <2>3. QED  BY <2>1, <2>2, ItemsAssumption DEF PoolUnused, InUse
<1>2. /\ t \in Stored(Int, Sizes) /\ PoolUnused(t) /\ t.ptr[o] = d
      /\ \A v \in Owners \ {o} : Same(s, t, v)
  BY <1>1, Kinds, PointSame DEF Sound, SoundAt
<1> HIDE DEF t
<1>3. Acts(s, t, {o})
  BY <1>2, UserActs
<1>4. QED  BY <1>2, <1>3 DEF t

\* An object is moved to another.
LEMMA MoveActs ==
  ASSUME NEW s, Sound(s), NEW r \in Users, NEW o \in Users \ {r}, s.ptr[o] \in Items
  PROVE  LET t == MoveTo(s, r, o)
         IN  /\ Acts(s, t, {r, o})
             /\ t.ptr[r] = s.ptr[o] /\ Value(t, r) = Value(s, o)
<1> DEFINE t == MoveTo(s, r, o)
<1>1. /\ t \in Stored(Int, Sizes) /\ PoolUnused(t)
      /\ t.ptr[r] = s.ptr[o] /\ Value(t, r) = Value(s, o)
      /\ \A v \in Owners \ {r, o} : Same(s, t, v)
  BY Kinds, MoveSame DEF Sound, SoundAt
<1> HIDE DEF t
<1>2. Acts(s, t, {r, o})
  BY <1>1, UserActs
<1>3. QED  BY <1>1, <1>2 DEF t

(***************************************************************************)
(* The constants of the container.                                         *)
(***************************************************************************)

\* What a constant stands for, but for the inverse, which is computed from
\* another.
Exactly(c) ==
  CASE c = Zero    -> 0
    [] c = Log2    -> ExactLog2
    [] c = Epsilon -> ExactEpsilon(mDefaultPrecision)

\* A constant is made when it is first asked for.
LEMMA MakeActs ==
  ASSUME NEW s, Sound(s), NEW c \in {Zero, Log2, Epsilon}
  PROVE  LET t == make_const(s, c, Exactly(c))
         IN  Acts(s, t, {c}) /\ t.ptr[c] \in Items /\ (t = s \/ Alone(t, c))
<1> DEFINE t == make_const(s, c, Exactly(c))
<1>1. Exactly(c) \in Int /\ c \in Constants /\ c \in Owners /\ c # Log2Inv
  BY Kinds, ExactAssumption DEF Exactly, Sound, SoundAt
<1>2. CASE s.ptr[c] = NoItem
  <2> DEFINE a == allocateMpfrFloatData(s, c)
  <2>1. mDefaultPrecision \in Sizes
    BY DEF Sound, SoundAt, Sizes
  <2>2. /\ a \in Stored(Int, Sizes) /\ PoolUnused(a)
        /\ a.ptr[c] \in Items /\ Alone(a, c)
        /\ \A v \in Owners \ {c} : Same(s, a, v)
    BY <1>1, <2>1, Kinds, AllocateSame DEF allocateMpfrFloatData, Sound, SoundAt
  <2>3. t = Put(a, c, Exactly(c))
    BY <1>2 DEF make_const
  <2> HIDE DEF a, t
  <2>4. /\ t \in Stored(Int, Sizes) /\ PoolUnused(t)
        /\ t.ptr = a.ptr /\ t.bits = a.bits /\ Alone(t, c)
        /\ Value(t, c) = Round(Exactly(c), Size(a, c))
        /\ \A v \in Owners \ {c} : Same(a, t, v)
    BY <1>1, <2>2, <2>3, PutSame
  <2>5. \A v \in Owners \ {c} : Same(s, t, v)
    BY <2>2, <2>4 DEF Same
  <2>6. Value(t, c) = Round(Exactly(c), Size(t, c))
    BY <2>4 DEF Size
  <2>7. \A v \in Constants \ {c} : /\ t.ptr[v] = s.ptr[v]
                                   /\ s.ptr[v] \in Items => /\ Value(t, v) = Value(s, v)
                                                            /\ Size(t, v) = Size(s, v)
    BY <2>5, Kinds DEF Same, Value, Size
  <2>8. \A v \in Owners \ {c} : t.ptr[v] # t.ptr[c]
    BY <2>4 DEF Alone
  <2>9. t.ptr[c] \in Items
    BY <2>2, <2>4
  <2>10. /\ \A v \in Constants : s.ptr[v] # NoObject
         /\ \A v, e \in Constants : v # e /\ s.ptr[v] \in Items => s.ptr[v] # s.ptr[e]
    BY DEF Sound, SoundAt, ConstantsOK
  <2>11. /\ \A v \in Constants : t.ptr[v] # NoObject
         /\ \A v, e \in Constants : v # e /\ t.ptr[v] \in Items => t.ptr[v] # t.ptr[e]
    <3>1. \A v \in Constants : v = c \/ t.ptr[v] = s.ptr[v]
      BY <2>7
    <3>2. \A v \in Constants : v = c \/ t.ptr[v] # t.ptr[c]
      BY <2>8, Kinds
    <3>3. t.ptr[c] # NoObject
      BY <2>9, ItemsAssumption
    <3>4. QED  BY <2>10, <3>1, <3>2, <3>3
  <2>12. /\ s.ptr[Log2Inv] \in Items => s.ptr[Log2] \in Items /\ Log2 # c
         /\ s.ptr[Log2Inv] \in Items =>
              Value(s, Log2Inv) = Round(Reciprocal(Value(s, Log2)), Size(s, Log2Inv))
    BY <1>2, ItemsAssumption DEF Sound, SoundAt, ConstantsOK
  <2>13. /\ t.ptr[Log2Inv] \in Items => t.ptr[Log2] \in Items
         /\ t.ptr[Log2Inv] \in Items =>
              Value(t, Log2Inv) = Round(Reciprocal(Value(t, Log2)), Size(t, Log2Inv))
    <3>1. SUFFICES ASSUME t.ptr[Log2Inv] \in Items
                   PROVE  /\ t.ptr[Log2] \in Items
                          /\ Value(t, Log2Inv) =
                               Round(Reciprocal(Value(t, Log2)), Size(t, Log2Inv))
      OBVIOUS
    <3>2. Log2Inv \in Constants \ {c}
      BY <1>1, Kinds
    <3>3. s.ptr[Log2Inv] \in Items
      BY <2>7, <3>1, <3>2
    <3>4. Log2 \in Constants \ {c}
      BY <2>12, <3>3, Kinds
    <3>5. QED  BY <2>7, <2>12, <3>2, <3>3, <3>4
  <2>14. /\ t.ptr[Zero] \in Items => Value(t, Zero) = Round(0, Size(t, Zero))
         /\ t.ptr[Log2] \in Items => Value(t, Log2) = Round(ExactLog2, Size(t, Log2))
         /\ t.ptr[Epsilon] \in Items =>
              Value(t, Epsilon) = Round(ExactEpsilon(mDefaultPrecision), Size(t, Epsilon))
    <3>1. /\ c = Zero => Exactly(c) = 0
          /\ c = Log2 => Exactly(c) = ExactLog2
          /\ c = Epsilon => Exactly(c) = ExactEpsilon(mDefaultPrecision)
      BY Kinds DEF Exactly
    <3>2. /\ s.ptr[Zero] \in Items => Value(s, Zero) = Round(0, Size(s, Zero))
          /\ s.ptr[Log2] \in Items => Value(s, Log2) = Round(ExactLog2, Size(s, Log2))
          /\ s.ptr[Epsilon] \in Items =>
               Value(s, Epsilon) = Round(ExactEpsilon(mDefaultPrecision), Size(s, Epsilon))
      BY DEF Sound, SoundAt, ConstantsOK
    <3>3. \A v \in Constants : v = c \/ v \in Constants \ {c}
      OBVIOUS
    <3>4. Zero \in Constants /\ Log2 \in Constants /\ Epsilon \in Constants
      BY Kinds
    <3>5. t.ptr[Zero] \in Items => Value(t, Zero) = Round(0, Size(t, Zero))
      BY <2>6, <2>7, <3>1, <3>2, <3>3, <3>4
    <3>6. t.ptr[Log2] \in Items => Value(t, Log2) = Round(ExactLog2, Size(t, Log2))
      BY <2>6, <2>7, <3>1, <3>2, <3>3, <3>4
    <3>7. t.ptr[Epsilon] \in Items =>
            Value(t, Epsilon) = Round(ExactEpsilon(mDefaultPrecision), Size(t, Epsilon))
      BY <2>6, <2>7, <3>1, <3>2, <3>3, <3>4
    <3>8. QED  BY <3>5, <3>6, <3>7
  <2>15. ConstantsOK(t, mDefaultPrecision)
    BY <2>11, <2>13, <2>14 DEF ConstantsOK
  <2>16. Acts(s, t, {c})
    BY <2>4, <2>5, <2>15 DEF Acts, Sound, SoundAt
  <2>17. QED  BY <2>4, <2>9, <2>16 DEF t
<1>3. CASE s.ptr[c] # NoItem
  <2>1. t = s
    BY <1>3 DEF make_const
  <2>2. s.ptr[c] \in Items
    BY <1>1, <1>3 DEF Sound, SoundAt, ConstantsOK, Stored
  <2>3. Acts(s, s, {c})
    BY DEF Acts, Same
  <2>4. QED  BY <2>1, <2>2, <2>3
<1>4. QED  BY <1>2, <1>3

\* 1 / log(2) is made in an item that const_log2() does not see.
LEMMA InverseActs ==
  ASSUME NEW s, Sound(s)
  PROVE  LET t == const_log2inv(s)
         IN  Acts(s, t, {Temporary, Log2, Log2Inv}) /\ t.ptr[Log2Inv] \in Items
<1>1. CASE s.ptr[Log2Inv] = NoItem
  <2> DEFINE t == allocateMpfrFloatData(s, Temporary)
             u == const_log2(t)
             R == Reciprocal(Value(u, Log2))
             v == Put(u, Temporary, R)
             m == MoveTo(v, Log2Inv, Temporary)
             z == [m EXCEPT !.ptr[Temporary] = NoObject]
  <2>1. const_log2inv(s) = z
    BY <1>1 DEF const_log2inv
  <2>2. Acts(s, t, {Temporary}) /\ t.ptr[Temporary] \in Items /\ Alone(t, Temporary)
    BY Kinds, AllocateActs
  <2> HIDE DEF t
  <2>3. Acts(t, u, {Log2}) /\ u.ptr[Log2] \in Items /\ (u = t \/ Alone(u, Log2))
    <3>1. u = make_const(t, Log2, Exactly(Log2))
      BY Kinds DEF const_log2, Exactly
    <3> HIDE DEF u
    <3>2. QED  BY <2>2, <3>1, MakeActs DEF Acts
  <2> HIDE DEF u
  <2>4. /\ Sound(u) /\ u.ptr[Temporary] = t.ptr[Temporary] /\ Alone(u, Temporary)
        /\ u.ptr[Log2Inv] = NoItem
    <3>1. \A w \in Owners \ {Log2} : u.ptr[w] = t.ptr[w]
      BY <2>3 DEF Acts, Same
    <3>2. u.ptr[Temporary] = t.ptr[Temporary] /\ Temporary \in Owners
      BY <3>1, Kinds
    <3>3. \A w \in Owners \ {Temporary} : u.ptr[w] # u.ptr[Temporary]
      BY <2>2, <2>3, <3>1, <3>2, Kinds DEF Alone
    <3>4. t.ptr[Log2Inv] = s.ptr[Log2Inv]
      BY <2>2, Kinds DEF Acts, Same
    <3>5. QED  BY <1>1, <2>3, <3>1, <3>2, <3>3, <3>4, Kinds DEF Acts, Alone
  <2>5. R \in Int
    <3>1. Value(u, Log2) = Round(ExactLog2, Size(u, Log2)) /\ Size(u, Log2) \in Sizes
      BY <2>3, <2>4 DEF Sound, SoundAt, ConstantsOK, Stored, Size
    <3>2. QED  BY <3>1, ExactAssumption DEF Sizes
  <2> HIDE DEF R
  <2>6. /\ v \in Stored(Int, Sizes) /\ PoolUnused(v)
        /\ v.ptr = u.ptr /\ v.bits = u.bits /\ Alone(v, Temporary)
        /\ Value(v, Temporary) = Round(R, Size(u, Temporary))
        /\ \A w \in Owners \ {Temporary} : Same(u, v, w)
    BY <2>2, <2>4, <2>5, Kinds, PutSame DEF Sound, SoundAt
  <2>21. m = MoveTo(v, Log2Inv, Temporary) /\ z = [m EXCEPT !.ptr[Temporary] = NoObject]
    OBVIOUS
  <2> HIDE DEF v, m, z
  <2>7. /\ m \in Stored(Int, Sizes) /\ PoolUnused(m)
        /\ m.ptr[Log2Inv] = v.ptr[Temporary]
        /\ Value(m, Log2Inv) = Value(v, Temporary)
        /\ m.bits[m.ptr[Log2Inv]] = v.bits[v.ptr[Temporary]]
        /\ \A w \in Owners \ {Log2Inv, Temporary} : Same(v, m, w)
    <3>1. v.ptr[Temporary] \in Items /\ Temporary \in Owners \ {Log2Inv}
      BY <2>2, <2>4, <2>6, Kinds
    <3>2. Log2Inv \in Owners
      BY Kinds
    <3>3. QED  BY <2>6, <2>21, <3>1, <3>2, Kinds, MoveSame
  <2>8. /\ z \in Stored(Int, Sizes) /\ z.num = m.num /\ z.bits = m.bits /\ z.pool = m.pool
        /\ z.ptr = [m.ptr EXCEPT ![Temporary] = NoObject]
    BY <2>7, <2>21, Kinds DEF Stored
  <2>9. m.ptr \in [Owners -> Items \cup {NoItem, NoObject}]
    BY <2>7 DEF Stored
  <2>10. /\ \A w \in Owners \ {Temporary} : z.ptr[w] = m.ptr[w]
         /\ z.ptr[Temporary] = NoObject
    BY <2>8, <2>9, Kinds
  <2>11. PoolUnused(z)
    <3>1. InUse(z) \subseteq InUse(m)
      BY <2>10, ItemsAssumption DEF InUse
    <3>2. QED  BY <2>7, <2>8, <3>1 DEF PoolUnused
  <2>12. \A w \in Owners \ {Temporary, Log2Inv} : Same(u, z, w)
    BY <2>6, <2>7, <2>8, <2>10 DEF Same
  <2>13. /\ z.ptr[Log2Inv] = u.ptr[Temporary]
         /\ Value(z, Log2Inv) = Round(R, Size(z, Log2Inv))
    BY <2>6, <2>7, <2>8, <2>10, Kinds DEF Value, Size
  <2>14. z.ptr[Log2Inv] \in Items
    BY <2>2, <2>4, <2>13
  <2>15. \A w \in Constants \ {Log2Inv} :
           /\ z.ptr[w] = u.ptr[w] /\ z.ptr[w] # z.ptr[Log2Inv]
           /\ u.ptr[w] \in Items => Value(z, w) = Value(u, w) /\ Size(z, w) = Size(u, w)
    BY <2>4, <2>12, <2>13, Kinds DEF Same, Value, Size, Alone
  <2>16. ConstantsOK(z, mDefaultPrecision)
    <3>1. ConstantsOK(u, mDefaultPrecision)
      BY <2>4 DEF Sound, SoundAt
    <3>2. /\ \A c \in Constants : z.ptr[c] # NoObject
          /\ \A c, e \in Constants : c # e /\ z.ptr[c] \in Items => z.ptr[c] # z.ptr[e]
      BY <2>14, <2>15, <3>1, ItemsAssumption DEF ConstantsOK
    <3>3. /\ z.ptr[Zero] \in Items => Value(z, Zero) = Round(0, Size(z, Zero))
          /\ z.ptr[Log2] \in Items => Value(z, Log2) = Round(ExactLog2, Size(z, Log2))
          /\ z.ptr[Epsilon] \in Items =>
               Value(z, Epsilon) = Round(ExactEpsilon(mDefaultPrecision), Size(z, Epsilon))
      BY <2>15, <3>1, Kinds DEF ConstantsOK
    <3>4. z.ptr[Log2] \in Items /\ Value(z, Log2) = Value(u, Log2)
      BY <2>3, <2>15, Kinds
    <3>5. Value(z, Log2Inv) = Round(Reciprocal(Value(z, Log2)), Size(z, Log2Inv))
      BY <2>13, <3>4 DEF R
    <3>6. QED  BY <3>2, <3>3, <3>4, <3>5 DEF ConstantsOK
  <2>17. Acts(u, z, {Temporary, Log2Inv})
    BY <2>4, <2>8, <2>11, <2>12, <2>16 DEF Acts, Sound, SoundAt
  <2>18. Acts(s, z, ({Temporary} \cup {Log2}) \cup {Temporary, Log2Inv})
    <3>1. Acts(s, u, {Temporary} \cup {Log2})
      BY <2>2, <2>3, ActsAgain
    <3>2. QED  BY <2>17, <3>1, ActsAgain
  <2>19. ({Temporary} \cup {Log2}) \cup {Temporary, Log2Inv} = {Temporary, Log2, Log2Inv}
    OBVIOUS
  <2>20. const_log2inv(s) = z
    BY <2>1 DEF z, m, v, u, t, R
  <2>22. QED  BY <2>14, <2>18, <2>19, <2>20
<1>2. CASE s.ptr[Log2Inv] # NoItem
  <2>1. const_log2inv(s) = s
    BY <1>2 DEF const_log2inv
  <2>2. s.ptr[Log2Inv] \in Items
    BY <1>2, Kinds DEF Sound, SoundAt, ConstantsOK, Stored
  <2>3. QED  BY <2>1, <2>2 DEF Acts, Same
<1>3. QED  BY <1>1, <1>2

\* Whichever constant is asked for, only constants and the unnamed object take
\* other items.
LEMMA CachedActs ==
  ASSUME NEW s, Sound(s), NEW c \in Constants
  PROVE  LET t == cached(s)[c]
         IN  Acts(s, t, {Temporary} \cup Constants) /\ t.ptr[c] \in Items
<1> DEFINE t == cached(s)[c]
<1>1. CASE c = Log2Inv
  <2>1. t = const_log2inv(s)
    BY <1>1, Kinds DEF cached
  <2> HIDE DEF t
  <2>2. Acts(s, t, {Temporary, Log2, Log2Inv}) /\ t.ptr[Log2Inv] \in Items
    BY <2>1, InverseActs
  <2>3. QED  BY <1>1, <2>2, Kinds DEF Acts, t
<1>2. CASE c # Log2Inv
  <2>1. c \in {Zero, Log2, Epsilon}
    BY <1>2, Kinds
  <2>2. t = make_const(s, c, Exactly(c))
    BY <2>1, Kinds DEF cached, const_0, const_log2, const_epsilon, Exactly
  <2> HIDE DEF t
  <2>3. Acts(s, t, {c}) /\ t.ptr[c] \in Items
    BY <2>1, <2>2, MakeActs
  <2>4. QED  BY <2>3 DEF Acts, t
<1>3. QED  BY <1>1, <1>2

\* An object takes the item of a constant.
LEMMA FromConstantActs ==
  ASSUME NEW s, Sound(s), NEW r \in Users, NEW c \in Constants
  PROVE  LET t == FromConstant(s, r, c)
         IN  Acts(s, t, {r, Temporary} \cup Constants) /\ t.ptr[r] \in Items
<1> DEFINE t == cached(s)[c]
           d == t.ptr[c]
           u == Point(t, r, d)
<1>1. Acts(s, t, {Temporary} \cup Constants) /\ d \in Items
  BY CachedActs
<1> HIDE DEF t
<1>2. c \in Owners /\ \E v \in Owners : t.ptr[v] = d /\ d \in Items
  BY <1>1, Kinds
<1> HIDE DEF d
<1>3. Acts(t, u, {r}) /\ u.ptr[r] = d
  BY <1>1, <1>2, PointActs DEF Acts
<1> HIDE DEF u
<1>4. Acts(s, u, ({Temporary} \cup Constants) \cup {r})
  BY <1>1, <1>3, ActsAgain
<1>5. ({Temporary} \cup Constants) \cup {r} = {r, Temporary} \cup Constants
  OBVIOUS
<1>6. FromConstant(s, r, c) = u
  BY DEF FromConstant, t, d, u
<1>7. QED  BY <1>1, <1>3, <1>4, <1>5, <1>6

\* set_0() is the same for the shared zero.
LEMMA SetZeroActs ==
  ASSUME NEW s, Sound(s), NEW o \in Users
  PROVE  LET t == set_0(s, o)
         IN  Acts(s, t, {o, Temporary} \cup Constants) /\ t.ptr[o] \in Items
<1>1. cached(s)[Zero] = const_0(s) /\ Zero \in Constants
  BY Kinds DEF cached
<1>2. set_0(s, o) = FromConstant(s, o, Zero)
  BY <1>1 DEF set_0, FromConstant
<1>3. QED  BY <1>1, <1>2, FromConstantActs

\* setDefaultMantissaBits() leaves every number but that of epsilon.
LEMMA Recalculated ==
  ASSUME NEW s, Sound(s), NEW bits \in Precisions
  PROVE  LET t == recalculate(s, bits)
         IN  /\ SoundAt(t, bits) /\ t.ptr = s.ptr
             /\ \A d \in Items : d # s.ptr[Epsilon] => t.num[d] = s.num[d]
<1> DEFINE Again(t, c, n) == IF t.ptr[c] = NoItem THEN t ELSE Put(t, c, n)
           t1 == Again(s, Log2, ExactLog2)
           t2 == IF t1.ptr[Log2Inv] = NoItem THEN t1
                 ELSE Again(t1, Log2Inv, Reciprocal(Value(t1, Log2)))
           t3 == Again(t2, Epsilon, ExactEpsilon(bits))
<1>1. s \in Stored(Int, Sizes) /\ PoolUnused(s) /\ ConstantsOK(s, mDefaultPrecision)
  BY DEF Sound, SoundAt
<1>2. \A c \in Constants : s.ptr[c] # NoItem => s.ptr[c] \in Items
  BY <1>1, Kinds DEF Stored, ConstantsOK
\* A constant that is computed again is what it was.
<1>3. ASSUME NEW c \in Constants, NEW n, s.ptr[c] \in Items, Value(s, c) = Round(n, Size(s, c))
      PROVE  Put(s, c, n) = s
  <2>1. Put(s, c, n) = [s EXCEPT !.num[s.ptr[c]] = s.num[s.ptr[c]]]
    BY <1>3 DEF Put, Write, Value, Size
  <2>2. s.num \in [Items -> Int]
    BY <1>1 DEF Stored
  <2>3. [s.num EXCEPT ![s.ptr[c]] = s.num[s.ptr[c]]] = s.num
    BY <2>2
  <2>4. QED  BY <1>1, <2>1, <2>3 DEF Stored
<1>4. t1 = s
  <2>1. s.ptr[Log2] \in Items => Value(s, Log2) = Round(ExactLog2, Size(s, Log2))
    BY <1>1 DEF ConstantsOK
  <2>2. QED  BY <1>2, <1>3, <2>1, Kinds
<1>5. t2 = s
  <2> HIDE DEF t1
  <2>1. t2 = Again(s, Log2Inv, Reciprocal(Value(s, Log2)))
    BY <1>4
  <2>2. s.ptr[Log2Inv] \in Items =>
          Value(s, Log2Inv) = Round(Reciprocal(Value(s, Log2)), Size(s, Log2Inv))
    BY <1>1 DEF ConstantsOK
  <2> HIDE DEF t2
  <2>3. QED  BY <1>2, <1>3, <2>1, <2>2, Kinds
<1>6. recalculate(s, bits) = t3
  BY DEF recalculate
<1> HIDE DEF t1, t2
<1>7. t3 = IF s.ptr[Epsilon] = NoItem THEN s ELSE Put(s, Epsilon, ExactEpsilon(bits))
  BY <1>5
<1> HIDE DEF t3
<1>8. CASE s.ptr[Epsilon] = NoItem
  <2>1. ConstantsOK(s, bits)
    BY <1>1, <1>8, ItemsAssumption DEF ConstantsOK
  <2>2. QED  BY <1>1, <1>6, <1>7, <1>8, <2>1 DEF SoundAt
<1>9. CASE s.ptr[Epsilon] # NoItem
  <2> DEFINE d == s.ptr[Epsilon]
             n == Round(ExactEpsilon(bits), s.bits[d])
  <2>1. d \in Items
    BY <1>2, <1>9, Kinds
  <2>2. n \in Int
    <3>1. s.bits[d] \in Nat
      BY <1>1, <2>1, Kinds DEF Stored
    <3>2. QED  BY <3>1, RoundIs, ExactAssumption
  <2>3. t3 = [s EXCEPT !.num[d] = n]
    BY <1>7, <1>9 DEF Put, Write
  <2> HIDE DEF n
  <2>4. /\ t3 \in Stored(Int, Sizes) /\ t3.ptr = s.ptr /\ t3.bits = s.bits /\ t3.pool = s.pool
        /\ t3.num = [s.num EXCEPT ![d] = n]
    BY <1>1, <2>1, <2>2, <2>3 DEF Stored
  <2>5. s.num \in [Items -> Int]
    BY <1>1 DEF Stored
  <2>6. PoolUnused(t3)
    BY <1>1, <2>4 DEF PoolUnused, InUse
  <2>7. \A c \in Constants \ {Epsilon} :
          s.ptr[c] \in Items => Value(t3, c) = Value(s, c) /\ Size(t3, c) = Size(s, c)
    <3>1. \A c \in Constants \ {Epsilon} : s.ptr[c] \in Items => s.ptr[c] # d
      BY <1>1, Kinds DEF ConstantsOK
    <3>2. QED  BY <2>4, <2>5, <3>1 DEF Value, Size
  <2>8. Value(t3, Epsilon) = Round(ExactEpsilon(bits), Size(t3, Epsilon))
    BY <2>1, <2>4, <2>5 DEF Value, Size, n
  <2>9. ConstantsOK(t3, bits)
    BY <1>1, <2>4, <2>7, <2>8, Kinds DEF ConstantsOK
  <2>10. QED  BY <1>6, <2>4, <2>5, <2>6, <2>9 DEF SoundAt
<1>10. QED  BY <1>8, <1>9

(***************************************************************************)
(* The steps.                                                              *)
(***************************************************************************)

\* What a call may do to the store: it is for one object, moves one, or is for
\* two.
Changes(W) ==
  Acts(store, store', W \cup {Temporary} \cup Constants) /\ UNCHANGED mDefaultPrecision

CallOn(o) == Changes({o})

MovesOver(o, p) ==
  /\ Changes({o, p})
  /\ store.ptr[p] \in Items /\ store'.ptr[o] \in Items
  /\ Value(store', o) = Value(store, p)

WritesTwo ==
  /\ \E p, o, q \in Valid(store) : store' = sincos(store, p, o, q)
  /\ \E o, q \in Objects : Changes({o, q})

Step ==
  \/ \E o \in Objects : CallOn(o) \/ \E p \in Objects \ {o} : MovesOver(o, p)
  \/ WritesTwo

\* Objects that a call is not for have the value they had.
LEMMA ValuesKept ==
  ASSUME NEW W \in SUBSET Objects, Changes(W)
  PROVE  /\ Sound(store)'
         /\ Values(store)' = Values(store')
         /\ Values(store) = [v \in Objects |-> Values(store)[v]]
         /\ Values(store') = [v \in Objects |-> Values(store')[v]]
         /\ \A v \in Objects \ W : Values(store')[v] = Values(store)[v]
<1>1. \A v \in Objects \ W : Same(store, store', v)
  BY Kinds DEF Changes, Acts
<1>2. \A v \in Objects \ W : Values(store')[v] = Values(store)[v]
  BY <1>1 DEF Values, Valid, Value, Same
<1>3. Values(store)' = Values(store')
  BY DEF Values, Valid, Value
<1>4. Sound(store)'
  BY DEF Changes, Acts, Sound
<1>5. QED  BY <1>2, <1>3, <1>4 DEF Values

\* A call on an object is one of IndependentNumbers.
LEMMA CallIs ==
  ASSUME NEW o \in Objects, CallOn(o)
  PROVE  Sound(store)' /\ Independent!Call(o)
<1>1. {o} \in SUBSET Objects /\ Changes({o})
  BY DEF CallOn
<1>2. Values(store') = [Values(store) EXCEPT ![o] = Values(store')[o]]
  BY <1>1, ValuesKept
<1>3. QED  BY <1>1, <1>2, ValuesKept DEF Independent!Call

\* A move from another object is one of IndependentNumbers.
LEMMA MoveIs ==
  ASSUME Sound(store), NEW o \in Objects, NEW p \in Objects \ {o}, MovesOver(o, p)
  PROVE  Sound(store)' /\ Independent!Move(o, p)
<1>1. {o, p} \in SUBSET Objects /\ Changes({o, p})
  BY DEF MovesOver
<1>2. Values(store')[o] = Values(store)[p] /\ Values(store)[p] = Value(store, p)
  BY DEF Values, Valid, MovesOver
<1>3. Value(store, p) \in Int
  BY NumIs, Kinds DEF MovesOver
<1>4. Values(store)[p] \notin {NoItem, NoObject}
  BY <1>2, <1>3, ItemsAssumption
<1>5. Values(store') = [Values(store) EXCEPT ![o] = Values(store)[p], ![p] = Values(store')[p]]
  BY <1>1, <1>2, ValuesKept
<1>6. QED  BY <1>1, <1>4, <1>5, ValuesKept DEF Independent!Move

\* What a call leaves is the next store.
LEMMA ActsFor ==
  ASSUME NEW t, NEW o \in Objects, Becomes(t),
         Acts(store, t, {o}) \/ Acts(store, t, {o, Temporary} \cup Constants)
  PROVE  CallOn(o)
<1>1. store' = t /\ UNCHANGED mDefaultPrecision
  BY DEF Becomes
<1>2. QED  BY <1>1 DEF CallOn, Changes, Acts

\* Constructors change only the object constructed; moving also takes the other's item.
LEMMA ConstructSteps ==
  ASSUME Sound(store), ConstructStep
  PROVE  Step
<1>1. PICK o \in Objects \ Existing :
        \/ \E n \in Longs : Becomes(Construct(store, o, n))
        \/ \E p \in Valid(store) : \/ Becomes(CopyConstruct(store, o, p))
                                   \/ Becomes(MoveConstruct(store, o, p))
  BY DEF ConstructStep
<1>2. o \in Users
  BY Kinds
<1>3. ASSUME NEW n \in Longs, Becomes(Construct(store, o, n))
      PROVE  CallOn(o)
  <2>1. CASE n = 0
    BY <1>2, <1>3, <2>1, SetZeroActs, ActsFor DEF Construct
  <2>2. CASE n # 0
    <3>1. n \in Int
      BY ArgumentsAssumption
    <3>2. Construct(store, o, n) = Put(allocateMpfrFloatData(store, o), o, n)
      BY <2>2 DEF Construct
    <3>3. Acts(store, Construct(store, o, n), {o})
      BY <1>2, <3>1, <3>2, ReturnedActs
    <3>4. QED  BY <1>3, <3>3, ActsFor
  <2>3. QED  BY <2>1, <2>2
<1>4. ASSUME NEW p \in Valid(store), Becomes(CopyConstruct(store, o, p))
      PROVE  CallOn(o)
  <2>1. p \in Owners /\ store.ptr[p] \in Items
    BY Kinds DEF Valid
  <2>2. Acts(store, CopyConstruct(store, o, p), {o})
    BY <1>2, <2>1, PointActs DEF CopyConstruct
  <2>3. QED  BY <1>4, <2>2, ActsFor
<1>5. ASSUME NEW p \in Valid(store), Becomes(MoveConstruct(store, o, p))
      PROVE  p \in Objects \ {o} /\ MovesOver(o, p)
  <2>1. p \in Objects \ {o} /\ p \in Users \ {o} /\ store.ptr[p] \in Items
    BY Kinds, ItemsAssumption DEF Valid, Existing
  <2> DEFINE t == MoveTo(store, o, p)
             u == set_0(t, p)
  <2>2. Acts(store, t, {o, p}) /\ t.ptr[o] = store.ptr[p] /\ Value(t, o) = Value(store, p)
    BY <1>2, <2>1, MoveActs
  <2> HIDE DEF t
  <2>3. Acts(t, u, {p, Temporary} \cup Constants)
    BY <2>1, <2>2, SetZeroActs DEF Acts
  <2> HIDE DEF u
  <2>4. Acts(store, u, {o, p} \cup ({p, Temporary} \cup Constants))
    BY <2>2, <2>3, ActsAgain
  <2>5. {o, p} \cup ({p, Temporary} \cup Constants) = {o, p} \cup {Temporary} \cup Constants
    OBVIOUS
  <2>6. o \in Owners \ ({p, Temporary} \cup Constants)
    BY <1>2, <2>1, Kinds
  <2>7. u.ptr[o] \in Items /\ Value(u, o) = Value(store, p)
    BY <2>1, <2>2, <2>3, <2>6 DEF Acts, Same, Value
  <2>8. store' = u /\ UNCHANGED mDefaultPrecision
    BY <1>5 DEF Becomes, MoveConstruct, t, u
  <2>9. QED  BY <2>1, <2>4, <2>5, <2>7, <2>8 DEF MovesOver, Changes
<1>6. QED  BY <1>1, <1>3, <1>4, <1>5 DEF Step

\* Assignments and destruction do.
LEMMA AssignSteps ==
  ASSUME Sound(store), AssignStep
  PROVE  Step
<1>1. PICK o \in Existing :
        \/ \E p \in Valid(store) : \/ Becomes(Assign(store, o, p))
                                   \/ Becomes(MoveAssign(store, o, p))
        \/ \E n \in Longs : /\ o \in Valid(store) \/ n = 0
                            /\ Becomes(AssignNumber(store, o, n))
        \/ Becomes(Destroy(store, o))
  BY DEF AssignStep
<1>2. o \in Users /\ o \in Objects
  BY Kinds DEF Existing
<1>3. Acts(store, store, {o})
  BY DEF Acts, Same
<1>4. ASSUME NEW p \in Valid(store), Becomes(Assign(store, o, p))
      PROVE  CallOn(o)
  <2>1. p \in Owners /\ store.ptr[p] \in Items
    BY Kinds DEF Valid
  <2>2. Assign(store, o, p) = IF o = p THEN store ELSE Point(store, o, store.ptr[p])
    BY DEF Assign
  <2>3. Acts(store, Point(store, o, store.ptr[p]), {o})
    BY <1>2, <2>1, PointActs
  <2>4. QED  BY <1>2, <1>3, <1>4, <2>2, <2>3, ActsFor
<1>5. ASSUME NEW p \in Valid(store), Becomes(MoveAssign(store, o, p))
      PROVE  CallOn(o) \/ (p \in Objects \ {o} /\ MovesOver(o, p))
  <2>1. p \in Objects /\ p \in Users /\ store.ptr[p] \in Items
    BY Kinds DEF Valid
  <2>2. CASE o = p
    <3>1. MoveAssign(store, o, p) = store
      BY <2>2 DEF MoveAssign, MoveTo
    <3>2. QED  BY <1>2, <1>3, <1>5, <3>1, ActsFor
  <2>3. CASE o # p
    <3> DEFINE t == MoveTo(store, o, p)
    <3>1. Acts(store, t, {o, p}) /\ t.ptr[o] = store.ptr[p] /\ Value(t, o) = Value(store, p)
      BY <1>2, <2>1, <2>3, MoveActs
    <3> HIDE DEF t
    <3>2. store' = t /\ UNCHANGED mDefaultPrecision
      BY <1>5 DEF Becomes, MoveAssign, t
    <3>3. Changes({o, p})
      BY <3>1, <3>2 DEF Changes, Acts
    <3>4. QED  BY <2>1, <2>3, <3>1, <3>2, <3>3 DEF MovesOver
  <2>4. QED  BY <2>2, <2>3
<1>6. ASSUME NEW n \in Longs, o \in Valid(store) \/ n = 0, Becomes(AssignNumber(store, o, n))
      PROVE  CallOn(o)
  <2>1. CASE n = 0
    BY <1>2, <1>6, <2>1, SetZeroActs, ActsFor DEF AssignNumber
  <2>2. CASE n # 0
    <3>1. store.ptr[o] \in Items /\ n \in Int
      BY <1>6, <2>2, ArgumentsAssumption DEF Valid
    <3>2. Acts(store, AssignNumber(store, o, n), {o})
      BY <1>2, <2>2, <3>1, ResetPuts DEF AssignNumber
    <3>3. QED  BY <1>2, <1>6, <3>2, ActsFor
  <2>3. QED  BY <2>1, <2>2
<1>7. ASSUME Becomes(Destroy(store, o))
      PROVE  CallOn(o)
  BY <1>2, <1>7, PointActs, ActsFor DEF Destroy
<1>8. QED  BY <1>1, <1>2, <1>4, <1>5, <1>6, <1>7 DEF Step

\* The exact results are integers.
LEMMA ExactIs ==
  ASSUME NEW f \in Operations, NEW n \in Int, NEW m \in Int
  PROVE  Exact(f, n, m) \in Int
<1>1. f \in {"add", "sub", "mul"}
  BY ArgumentsAssumption
<1>2. n + m \in Int /\ n - m \in Int /\ n * m \in Int
  OBVIOUS
<1>3. Exact(f, n, m) \in {n + m, n - m, n * m}
  BY <1>1 DEF Exact
<1>4. QED  BY <1>2, <1>3

\* The numbers that are written after copyIfShared() are integers.
LEMMA CopiedNumbers ==
  ASSUME NEW s, Sound(s), NEW o \in Objects, s.ptr[o] \in Items
  PROVE  LET t == copyIfShared(s, o)
         IN  Value(t, o) \in Int /\ \A x \in Valid(s) \cup Longs : Num(t, x) \in Int
<1> DEFINE t == copyIfShared(s, o)
<1>1. o \in Users /\ o \in Owners
  BY Kinds
<1>2. Acts(s, t, {o}) /\ t.ptr[o] \in Items
  BY <1>1, CopyActs
<1> HIDE DEF t
<1>3. Valid(t) = Valid(s)
  BY <1>2, ValidStays
<1>4. Sound(t)
  BY <1>2 DEF Acts
<1>5. QED  BY <1>1, <1>2, <1>3, <1>4, NumIs DEF t

\* sincos() and sinhcosh() give each of the two objects an item of its own before
\* they write to either.
LEMMA SincosActs ==
  ASSUME NEW s, Sound(s), NEW p \in Valid(s), NEW o \in Valid(s), NEW q \in Valid(s), q # o
  PROVE  Acts(s, sincos(s, p, o, q), {o, q})
<1> DEFINE t1 == copyIfShared(s, o)
           t == copyIfShared(t1, q)
           n == Value(t, p)
           u == Put(t, o, n)
           w == Put(u, q, 1 - n)
<1>1. /\ o \in Users /\ q \in Users /\ o \in Owners /\ q \in Owners /\ p \in Owners
      /\ p \in Objects /\ o \in Objects /\ q \in Objects
      /\ s.ptr[p] \in Items /\ s.ptr[o] \in Items /\ s.ptr[q] \in Items
  BY Kinds DEF Valid
<1>2. Acts(s, t1, {o}) /\ t1.ptr[o] \in Items /\ Alone(t1, o)
  BY <1>1, CopyActs
<1> HIDE DEF t1
<1>3. t1.ptr[q] \in Items /\ Valid(t1) = Valid(s)
  <2>1. Valid(t1) = Valid(s)
    BY <1>1, <1>2, ValidStays
  <2>2. QED  BY <2>1 DEF Valid
<1>4. Acts(t1, t, {q}) /\ t.ptr[q] \in Items /\ Alone(t, q)
  BY <1>1, <1>2, <1>3, CopyActs DEF Acts
<1> HIDE DEF t
<1>5. t.ptr[o] \in Items /\ Alone(t, o)
  <2>1. \A v \in Owners \ {q} : t.ptr[v] = t1.ptr[v]
    BY <1>4 DEF Acts, Same
  <2>2. t.ptr[o] = t1.ptr[o]
    BY <1>1, <2>1
  <2>3. \A v \in Owners \ {o} : t.ptr[v] # t.ptr[o]
    BY <1>1, <1>2, <1>4, <2>1, <2>2 DEF Alone
  <2>4. QED  BY <1>2, <2>2, <2>3 DEF Alone
<1>6. n \in Int
  <2>1. Valid(t) = Valid(t1)
    BY <1>1, <1>2, <1>3, <1>4, ValidStays DEF Acts
  <2>2. t.ptr[p] \in Items
    BY <1>3, <2>1 DEF Valid
  <2>3. Sound(t)
    BY <1>4 DEF Acts
  <2>4. QED  BY <1>1, <2>2, <2>3, NumIs
<1> HIDE DEF n
<1>7. Acts(t, u, {o}) /\ u.ptr = t.ptr
  BY <1>1, <1>4, <1>5, <1>6, PutActs DEF Acts
<1> HIDE DEF u
<1>8. Acts(u, w, {q})
  <2>1. Sound(u) /\ u.ptr[q] \in Items /\ Alone(u, q)
    BY <1>4, <1>7 DEF Acts, Alone
  <2>2. 1 - n \in Int
    BY <1>6
  <2>3. QED  BY <1>1, <2>1, <2>2, PutActs
<1> HIDE DEF w
<1>9. Acts(s, w, (({o} \cup {q}) \cup {o}) \cup {q})
  <2>1. Acts(s, t, {o} \cup {q})
    BY <1>2, <1>4, ActsAgain
  <2>2. Acts(s, u, ({o} \cup {q}) \cup {o})
    BY <1>7, <2>1, ActsAgain
  <2>3. QED  BY <1>8, <2>2, ActsAgain
<1>10. (({o} \cup {q}) \cup {o}) \cup {q} = {o, q}
  OBVIOUS
<1>11. sincos(s, p, o, q) = w
  BY DEF sincos, w, u, n, t, t1
<1>12. QED  BY <1>9, <1>10, <1>11

\* The compound operators and in-place functions change the objects they are given to write.
LEMMA ModifySteps ==
  ASSUME Sound(store), ModifyStep
  PROVE  Step
<1>1. PICK o \in Valid(store) :
        \/ \E x \in Operands, f \in Operations : Becomes(inPlace(store, o, f, x))
        \/ Becomes(negate(store, o))
        \/ Becomes(abs(store, o))
        \/ \E n \in Longs : Becomes(parseValue(store, o, n))
        \/ \E p, q \in Valid(store) : q # o /\ Becomes(sincos(store, p, o, q))
  BY DEF ModifyStep
<1>2. o \in Objects /\ o \in Users /\ store.ptr[o] \in Items
  BY Kinds DEF Valid
<1> DEFINE t == copyIfShared(store, o)
<1>3. Value(t, o) \in Int /\ \A x \in Operands : Num(t, x) \in Int
  BY <1>2, CopiedNumbers DEF Operands
<1>4. \A n \in Int : Acts(store, Put(t, o, n), {o})
  BY <1>2, CopyPuts
<1>5. ASSUME NEW x \in Operands, NEW f \in Operations, Becomes(inPlace(store, o, f, x))
      PROVE  CallOn(o)
  <2>1. inPlace(store, o, f, x) = Put(t, o, Exact(f, Value(t, o), Num(t, x)))
    BY DEF inPlace
  <2> HIDE DEF t
  <2>2. Exact(f, Value(t, o), Num(t, x)) \in Int
    BY <1>3, ExactIs
  <2>3. QED  BY <1>2, <1>4, <1>5, <2>1, <2>2, ActsFor
<1>6. ASSUME Becomes(negate(store, o)) \/ Becomes(abs(store, o))
      PROVE  CallOn(o)
  <2>1. /\ negate(store, o) = Put(t, o, -Value(t, o))
        /\ abs(store, o) = Put(t, o, Magnitude(Value(t, o)))
    BY DEF negate, abs
  <2> HIDE DEF t
  <2>2. -Value(t, o) \in Int /\ Magnitude(Value(t, o)) \in Int
    BY <1>3 DEF Magnitude
  <2>3. QED  BY <1>2, <1>4, <1>6, <2>1, <2>2, ActsFor
<1>7. ASSUME NEW n \in Longs, Becomes(parseValue(store, o, n))
      PROVE  CallOn(o)
  <2>1. Acts(store, parseValue(store, o, n), {o})
    BY <1>2, ResetPuts, ArgumentsAssumption DEF parseValue
  <2>2. QED  BY <1>2, <1>7, <2>1, ActsFor
<1>8. ASSUME NEW p \in Valid(store), NEW q \in Valid(store), q # o,
             Becomes(sincos(store, p, o, q))
      PROVE  WritesTwo
  <2>1. store' = sincos(store, p, o, q) /\ UNCHANGED mDefaultPrecision
    BY <1>8 DEF Becomes
  <2>2. Acts(store, store', {o, q})
    BY <1>8, <2>1, SincosActs
  <2>3. q \in Objects /\ Changes({o, q})
    BY <2>1, <2>2 DEF Changes, Acts, Valid
  <2>4. QED  BY <1>2, <2>1, <2>3 DEF WritesTwo
<1>9. QED  BY <1>1, <1>2, <1>5, <1>6, <1>7, <1>8 DEF Step

\* The operators and functions that return a number change that number only.
LEMMA ReturnSteps ==
  ASSUME Sound(store), ReturnStep
  PROVE  Step
<1>1. PICK r \in Objects :
        \/ \E p \in Valid(store) :
             \/ \E x \in Operands, f \in Operations : Becomes(operator(store, r, f, p, x))
             \/ \E n \in Longs, f \in Operations : Becomes(longOperator(store, r, f, n, p))
             \/ \E f \in {"abs", "neg"} : Becomes(function1(store, r, f, p))
             \/ \E q, t \in Valid(store) : Becomes(fma(store, r, p, q, t))
        \/ \E c \in Constants \ {Zero} : Becomes(FromConstant(store, r, c))
  BY DEF ReturnStep
<1>2. r \in Users
  BY Kinds
<1>3. /\ \A p \in Valid(store) : Value(store, p) \in Int
      /\ \A x \in Operands : Num(store, x) \in Int
  <2>1. \A p \in Valid(store) : p \in Owners /\ store.ptr[p] \in Items
    BY Kinds DEF Valid
  <2>2. QED  BY <2>1, NumIs DEF Operands
<1>4. ASSUME NEW n \in Int, Becomes(Returned(store, r, n))
      PROVE  CallOn(r)
  <2>1. Acts(store, Returned(store, r, n), {r})
    BY <1>2, ReturnedActs DEF Returned
  <2>2. QED  BY <1>4, <2>1, ActsFor
<1>5. ASSUME NEW p \in Valid(store), NEW x \in Operands, NEW f \in Operations,
             Becomes(operator(store, r, f, p, x))
      PROVE  CallOn(r)
  <2>1. Exact(f, Value(store, p), Num(store, x)) \in Int
    BY <1>3, ExactIs
  <2>2. QED  BY <1>4, <1>5, <2>1 DEF operator
<1>6. ASSUME NEW p \in Valid(store), NEW n \in Longs, NEW f \in Operations,
             Becomes(longOperator(store, r, f, n, p))
      PROVE  CallOn(r)
  <2>1. Exact(f, n, Value(store, p)) \in Int
    BY <1>3, ExactIs, ArgumentsAssumption
  <2>2. QED  BY <1>4, <1>6, <2>1 DEF longOperator
<1>7. ASSUME NEW p \in Valid(store), NEW f, Becomes(function1(store, r, f, p))
      PROVE  CallOn(r)
  <2>1. Magnitude(Value(store, p)) \in Int /\ -Value(store, p) \in Int
    BY <1>3 DEF Magnitude
  <2>2. \/ function1(store, r, f, p) = Returned(store, r, Magnitude(Value(store, p)))
        \/ function1(store, r, f, p) = Returned(store, r, -Value(store, p))
    BY DEF function1
  <2>3. QED  BY <1>4, <1>7, <2>1, <2>2
<1>8. ASSUME NEW p \in Valid(store), NEW q \in Valid(store), NEW t \in Valid(store),
             Becomes(fma(store, r, p, q, t))
      PROVE  CallOn(r)
  <2>1. Value(store, p) * Value(store, q) + Value(store, t) \in Int
    BY <1>3
  <2>2. QED  BY <1>4, <1>8, <2>1 DEF fma
<1>9. ASSUME NEW c \in Constants, Becomes(FromConstant(store, r, c))
      PROVE  CallOn(r)
  <2>1. Acts(store, FromConstant(store, r, c), {r, Temporary} \cup Constants)
    BY <1>2, FromConstantActs
  <2>2. QED  BY <1>9, <2>1, ActsFor
<1>10. QED  BY <1>1, <1>5, <1>6, <1>7, <1>8, <1>9 DEF Step

(***************************************************************************)
(* The theorems.                                                           *)
(***************************************************************************)

\* What a call or a change of the precision does.
LEMMA Steps ==
  ASSUME Sound(store), Next
  PROVE  /\ Sound(store)'
         /\ mDefaultPrecision' = mDefaultPrecision =>
              \/ Independent!Next
              \/ \E p, o, q \in Valid(store) : store' = sincos(store, p, o, q)
         /\ mDefaultPrecision' # mDefaultPrecision =>
              \A o \in Objects : \/ Values(store)'[o] = Values(store)[o]
                                 \/ store.ptr[o] = store.ptr[Epsilon]
<1>1. CASE ConstructStep \/ AssignStep \/ ModifyStep \/ ReturnStep
  <2>1. Step
    BY <1>1, ConstructSteps, AssignSteps, ModifySteps, ReturnSteps
  <2>2. ASSUME NEW o \in Objects, CallOn(o)
        PROVE  Sound(store)' /\ UNCHANGED mDefaultPrecision /\ Independent!Next
    <3>1. UNCHANGED mDefaultPrecision
      BY <2>2 DEF CallOn, Changes
    <3>2. QED  BY <2>2, <3>1, CallIs DEF Independent!Next
  <2>3. ASSUME NEW o \in Objects, NEW p \in Objects \ {o}, MovesOver(o, p)
        PROVE  Sound(store)' /\ UNCHANGED mDefaultPrecision /\ Independent!Next
    <3>1. UNCHANGED mDefaultPrecision
      BY <2>3 DEF MovesOver, Changes
    <3>2. QED  BY <2>3, <3>1, MoveIs DEF Independent!Next
  <2>4. ASSUME WritesTwo
        PROVE  /\ Sound(store)' /\ UNCHANGED mDefaultPrecision
               /\ \E p, o, q \in Valid(store) : store' = sincos(store, p, o, q)
    <3>1. PICK o \in Objects, q \in Objects : Changes({o, q})
      BY <2>4 DEF WritesTwo
    <3>2. {o, q} \in SUBSET Objects /\ UNCHANGED mDefaultPrecision
      BY <3>1 DEF Changes
    <3>3. QED  BY <2>4, <3>1, <3>2, ValuesKept DEF WritesTwo
  <2>5. QED  BY <2>1, <2>2, <2>3, <2>4 DEF Step
<1>2. CASE setDefaultMantissaBits
  <2>1. PICK bits \in Precisions \ {mDefaultPrecision} :
          mDefaultPrecision' = bits /\ store' = recalculate(store, bits)
    BY <1>2 DEF setDefaultMantissaBits
  <2>2. /\ SoundAt(store', bits) /\ store'.ptr = store.ptr
        /\ \A d \in Items : d # store.ptr[Epsilon] => store'.num[d] = store.num[d]
    BY <2>1, Recalculated
  <2>3. Sound(store)'
    BY <2>1, <2>2 DEF Sound
  <2>4. ASSUME NEW o \in Objects, store.ptr[o] # store.ptr[Epsilon]
        PROVE  Values(store)'[o] = Values(store)[o]
    <3>1. Values(store)' = Values(store')
      BY DEF Values, Valid, Value
    <3>2. Values(store')[o] = Values(store)[o]
      BY <2>2, <2>4 DEF Values, Valid, Value
    <3>3. QED  BY <3>1, <3>2
  <2>5. QED  BY <2>1, <2>3, <2>4
<1>3. QED  BY <1>1, <1>2 DEF Next

\* The invariant holds when there are no numbers.
LEMMA StartsSound ==
  ASSUME Init
  PROVE  Sound(store)
<1>1. store = EmptyStore /\ mDefaultPrecision \in Precisions
  BY PrecisionAssumption DEF Init
<1>2. EmptyStore \in Stored(Int, Sizes) /\ PoolUnused(EmptyStore)
  BY Kinds, EmptyStored
<1>3. \A c \in Constants : EmptyStore.ptr[c] = NoItem
  BY Kinds DEF EmptyStore
<1>4. ConstantsOK(EmptyStore, mDefaultPrecision)
  BY <1>3, Kinds, ItemsAssumption DEF ConstantsOK
<1>5. QED  BY <1>1, <1>2, <1>4 DEF Sound, SoundAt

\* The invariant that all theorems below rest on.
LEMMA StaysSound == Spec => []Sound(store)
<1>1. Init => Sound(store)
  BY StartsSound
<1>2. Sound(store) /\ [Next]_vars => Sound(store)'
  <2>1. Sound(store) /\ UNCHANGED vars => Sound(store)'
    BY DEF vars, Sound
  <2>2. QED  BY <2>1, Steps
<1>3. QED  BY <1>1, <1>2, PTL DEF Spec

\* No call on an object that shares the item of a cached constant changes the
\* constant, which is what it stands for, rounded to the size of its item
\* (MpfrFloatDataContainer, copyIfShared()).
THEOREM ConstantsStayIntact == Spec => []ConstantsIntact
<1>1. ASSUME Sound(store)
      PROVE  ConstantsIntact
  <2>1. ConstantsOK(store, mDefaultPrecision)
    BY <1>1 DEF Sound, SoundAt
  <2>2. \A c \in Constants : store.ptr[c] # NoItem => store.ptr[c] \in Items
    BY <1>1, <2>1, Kinds DEF Sound, SoundAt, Stored, ConstantsOK
  <2>3. SUFFICES ASSUME NEW c \in Constants, store.ptr[c] # NoItem
                 PROVE  Value(store, c) =
                          Round(CASE c = Zero    -> 0
                                  [] c = Log2    -> ExactLog2
                                  [] c = Log2Inv -> Reciprocal(Value(store, Log2))
                                  [] c = Epsilon -> ExactEpsilon(mDefaultPrecision),
                                store.bits[store.ptr[c]])
    BY DEF ConstantsIntact
  <2>4. store.ptr[c] \in Items
    BY <2>2, <2>3
  <2>5. CASE c = Zero
    BY <2>1, <2>4, <2>5, Kinds DEF ConstantsOK, Size
  <2>6. CASE c = Log2
    BY <2>1, <2>4, <2>6, Kinds DEF ConstantsOK, Size
  <2>7. CASE c = Log2Inv
    BY <2>1, <2>4, <2>7, Kinds DEF ConstantsOK, Size
  <2>8. CASE c = Epsilon
    BY <2>1, <2>4, <2>8, Kinds DEF ConstantsOK, Size
  <2>9. QED  BY <2>5, <2>6, <2>7, <2>8, Kinds
<1>2. Sound(store) => ConstantsIntact
  BY <1>1
<1>3. QED  BY <1>2, StaysSound, PTL

\* While the default precision stands, MpfrFloat objects that share items behave
\* as numbers of their own: copyIfShared() and resetIfShared() let no call reach
\* another object, but for the two that sincos() and sinhcosh() are for.
THEOREM MpfrFloatsIndependent == Spec => ObjectsAreIndependent
<1>1. Sound(store) /\ [Next]_vars =>
        [mDefaultPrecision' = mDefaultPrecision =>
           \/ Independent!Next
           \/ \E p, o, q \in Valid(store) : store' = sincos(store, p, o, q)]_vars
  BY Steps
<1>2. QED  BY <1>1, StaysSound, PTL DEF Spec, ObjectsAreIndependent

\* setDefaultMantissaBits(), which writes to the items that objects share with
\* the constants, changes no object but those that share epsilon.
THEOREM PrecisionLeavesNumbers == Spec => PrecisionKeepsNumbers
<1>1. Sound(store) /\ [Next]_vars =>
        [mDefaultPrecision' # mDefaultPrecision =>
           \A o \in Objects : \/ Values(store)'[o] = Values(store)[o]
                              \/ store.ptr[o] = store.ptr[Epsilon]]_vars
  BY Steps
<1>2. QED  BY <1>1, StaysSound, PTL DEF Spec, PrecisionKeepsNumbers
==================================================================================
