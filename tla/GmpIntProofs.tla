------------------------------ MODULE GmpIntProofs ------------------------------
(***************************************************************************)
(* Proofs about GmpInt: no operator changes another object, no item is     *)
(* lost or used twice, the shared zero stays zero, and division follows    *)
(* the rules of C++ for all operands.                                      *)
(***************************************************************************)
EXTENDS GmpInt, NumberStorageProofs

\* Whom a call can be for: an object, or the unnamed one it makes.
Users == Objects \cup {Temporary}

\* The zero of the container exists from its first use, and is zero.
ZeroOK(s) == s.ptr[Zero] # NoObject /\ (s.ptr[Zero] # NoItem => Value(s, Zero) = 0)

Sound(s) == s \in Stored(Int, Nat) /\ PoolUnused(s) /\ ZeroOK(s)

\* What may happen from s to t when only the objects of W are worked on.
Acts(s, t, W) == Sound(t) /\ \A v \in Users \ W : Same(s, t, v)

(***************************************************************************)
(* Arithmetic.                                                             *)
(***************************************************************************)

\* Division that truncates is the division of C++.
LEMMA Quotient ==
  ASSUME NEW n \in Int, NEW d \in Int, d # 0
  PROVE  /\ mpz_tdiv_q(n, d) \in Int
         /\ IsQuotient(n, d, mpz_tdiv_q(n, d))
         /\ mpz_tdiv_q(-n, -d) = mpz_tdiv_q(n, d)
         /\ mpz_tdiv_q(n, d) \in -mpz_abs(n)..mpz_abs(n)
<1> DEFINE a == mpz_abs(n)
           b == mpz_abs(d)
           q == a \div b
           p == b * q
<1>1. a \in Nat /\ b \in Nat /\ b > 0 /\ mpz_abs(-n) = a /\ mpz_abs(-d) = b
  BY DEF mpz_abs
<1> HIDE DEF a, b
<1>2. q \in Nat /\ p \in Int /\ a - p < b /\ p <= a
  BY <1>1
<1>3. q <= p /\ (a = 0 => q = 0)
  BY <1>1
<1> HIDE DEF q
<1>4. mpz_tdiv_q(n, d) = IF (n < 0) = (d < 0) THEN q ELSE -q
  BY DEF mpz_tdiv_q, a, b, q
<1>5. mpz_tdiv_q(-n, -d) = IF (-n < 0) = (-d < 0) THEN q ELSE -q
  BY <1>1 DEF mpz_tdiv_q, a, b, q
<1>6. mpz_tdiv_q(n, d) \in -a..a
  BY <1>1, <1>2, <1>3, <1>4
<1>7. mpz_tdiv_q(-n, -d) = mpz_tdiv_q(n, d)
  <2>1. CASE n = 0
    BY <1>1, <1>2, <1>3, <1>4, <1>5, <2>1 DEF a, mpz_abs
  <2>2. CASE n # 0
    BY <1>4, <1>5, <2>2
  <2>3. QED  BY <2>1, <2>2
<1>8. IsQuotient(n, d, mpz_tdiv_q(n, d))
  <2>1. mpz_tdiv_q(n, d) * d = IF n < 0 THEN -p ELSE p
    <3>1. d = IF d < 0 THEN -b ELSE b
      BY DEF b, mpz_abs
    <3>2. q * b = p /\ q * (-b) = -p /\ (-q) * b = -p /\ (-q) * (-b) = p
      BY <1>1, <1>2
    <3>3. QED  BY <1>4, <3>1, <3>2
  <2>2. n = IF n < 0 THEN -a ELSE a
    BY DEF a, mpz_abs
  <2> DEFINE r == n - mpz_tdiv_q(n, d) * d
  <2>3. r = IF n < 0 THEN -(a - p) ELSE a - p
    BY <1>1, <1>2, <2>1, <2>2
  <2> HIDE DEF r, p
  <2>4. mpz_abs(r) < b /\ (r = 0 \/ (r < 0) = (n < 0))
    BY <1>1, <1>2, <2>3 DEF mpz_abs
  <2>5. QED  BY <2>4 DEF IsQuotient, r, b
<1>9. QED  BY <1>6, <1>7, <1>8 DEF a

\* The remainder with the sign of n.
Remainder(n, d) == IF n < 0 THEN -mpz_mod(-n, d) ELSE mpz_mod(n, d)

\* mpz_mod, with the sign that takeModulo() gives it, is the remainder of C++.
LEMMA RemainderIs ==
  ASSUME NEW n \in Int, NEW d \in Int, d # 0
  PROVE  /\ mpz_mod(n, d) \in Int
         /\ IsRemainder(n, d, Remainder(n, d))
<1> DEFINE a == mpz_abs(n)
           b == mpz_abs(d)
           q == a \div b
<1>1. a \in Nat /\ b \in Nat /\ b > 0
  BY DEF mpz_abs
<1>2. mpz_mod(n, d) \in Int
  BY <1>1 DEF mpz_mod
<1>3. Remainder(n, d) = IF n < 0 THEN -(a % b) ELSE a % b
  BY DEF Remainder, mpz_mod, mpz_abs
<1> HIDE DEF a, b
<1>4. q \in Nat /\ (a % b) = a - b * q
  BY <1>1
<1> HIDE DEF q
<1>5. mpz_tdiv_q(n, d) = IF (n < 0) = (d < 0) THEN q ELSE -q
  BY DEF mpz_tdiv_q, a, b, q
<1>6. Remainder(n, d) = n - mpz_tdiv_q(n, d) * d
  <2>1. n = (IF n < 0 THEN -a ELSE a) /\ d = (IF d < 0 THEN -b ELSE b)
    BY DEF a, b, mpz_abs
  <2>2. /\ q * b = b * q /\ q * (-b) = -(b * q)
        /\ (-q) * b = -(b * q) /\ (-q) * (-b) = b * q
    BY <1>1, <1>4
  <2>3. mpz_tdiv_q(n, d) * d = IF n < 0 THEN -(b * q) ELSE b * q
    BY <1>5, <2>1, <2>2
  <2>4. b * q \in Int
    BY <1>1, <1>4
  <2>5. QED  BY <1>1, <1>3, <1>4, <2>1, <2>3, <2>4
<1>7. QED  BY <1>2, <1>6, Quotient DEF IsRemainder

(***************************************************************************)
(* Storage.                                                                *)
(***************************************************************************)

\* What the assumptions say of who holds items, for the lemmas about storage.
LEMMA Kinds ==
  /\ 0 \in Int /\ Blank \in Int /\ DefaultBits \in Nat
  /\ Owners = Users \cup {Zero} /\ Zero \notin Users
  /\ Objects \subseteq Users
BY OwnersAssumption, ConstantsAssumption, ArgumentsAssumption DEF Owners, Users

\* Two steps one after the other change the objects that either changes.
LEMMA ActsAgain ==
  ASSUME NEW s, NEW t, NEW u, NEW V, NEW W, Acts(s, t, V), Acts(t, u, W)
  PROVE  Acts(s, u, V \cup W)
BY DEF Acts, Same

\* The owners that keep their items keep the zero.
LEMMA ZeroKept ==
  ASSUME NEW s, NEW t, Sound(s), Same(s, t, Zero)
  PROVE  ZeroOK(t)
<1>1. s.ptr[Zero] \in Items \cup {NoItem, NoObject}
  BY Kinds DEF Sound, Stored
<1>2. QED  BY <1>1 DEF Sound, ZeroOK, Same, Value

\* A new item, with a number written to it.
LEMMA ReturnedActs ==
  ASSUME NEW s, Sound(s), NEW o \in Users, NEW n \in Int
  PROVE  LET t == Write(allocateGmpIntData(s, o), o, n)
         IN  Acts(s, t, {o}) /\ t.ptr[o] \in Items /\ Alone(t, o) /\ Value(t, o) = n
<1> DEFINE t == allocateGmpIntData(s, o)
           u == Write(t, o, n)
<1>1. /\ t \in Stored(Int, Nat) /\ PoolUnused(t)
      /\ t.ptr[o] \in Items /\ Alone(t, o)
      /\ \A v \in Owners \ {o} : Same(s, t, v)
  BY Kinds, AllocateSame DEF allocateGmpIntData, Sound
<1> HIDE DEF t
<1>2. /\ u \in Stored(Int, Nat) /\ PoolUnused(u) /\ u.ptr = t.ptr /\ Value(u, o) = n
      /\ \A v \in Owners \ {o} : Same(t, u, v)
  BY <1>1, Kinds, WriteSame
<1> HIDE DEF u
<1>3. \A v \in Owners \ {o} : Same(s, u, v)
  BY <1>1, <1>2 DEF Same
<1>4. ZeroOK(u)
  BY <1>3, Kinds, ZeroKept
<1>5. QED  BY <1>1, <1>2, <1>3, <1>4, Kinds DEF Acts, Sound, Alone, t, u

\* A number is written to the item that o has for itself.
LEMMA WriteActs ==
  ASSUME NEW s, Sound(s), NEW o \in Users, s.ptr[o] \in Items, Alone(s, o), NEW n \in Int
  PROVE  LET t == Write(s, o, n)
         IN  Acts(s, t, {o}) /\ t.ptr = s.ptr /\ Alone(t, o) /\ Value(t, o) = n
<1> DEFINE t == Write(s, o, n)
<1>1. /\ t \in Stored(Int, Nat) /\ PoolUnused(t) /\ t.ptr = s.ptr /\ Value(t, o) = n
      /\ \A v \in Owners \ {o} : Same(s, t, v)
  BY Kinds, WriteSame DEF Sound
<1> HIDE DEF t
<1>2. ZeroOK(t)
  BY <1>1, Kinds, ZeroKept
<1>3. QED  BY <1>1, <1>2, Kinds DEF Acts, Sound, Alone, t

\* What a number is does not change when another owner's item is copied.
LEMMA NumKept ==
  ASSUME NEW s, NEW t, NEW o, Sound(s), NEW x \in Valid(s) \cup Longs,
         \A v \in Objects : s.ptr[v] \in Items => Value(t, v) = Value(s, v)
  PROVE  Num(t, x) = Num(s, x) /\ Num(s, x) \in Int
<1>1. \A v \in Objects : s.ptr[v] \in Items => Value(s, v) \in Int
  BY DEF Sound, Stored, Value
<1>2. CASE x \in Objects
  <2>1. x \notin Longs
    BY <1>2, ArgumentsAssumption DEF Owners
  <2>2. s.ptr[x] \in Items
    BY <2>1 DEF Valid
  <2>3. QED  BY <1>1, <1>2, <2>2 DEF Num
<1>3. CASE x \notin Objects
  <2>1. x \in Longs
    BY <1>3 DEF Valid
  <2>2. QED  BY <1>3, <2>1, ArgumentsAssumption DEF Num
<1>4. QED  BY <1>2, <1>3

\* After copyIfShared(), o has its item for itself and every number is the same.
LEMMA CopyActs ==
  ASSUME NEW s, Sound(s), NEW o \in Users, s.ptr[o] \in Items
  PROVE  LET t == copyIfShared(s, o)
         IN  /\ Acts(s, t, {o}) /\ t.ptr[o] \in Items /\ Alone(t, o)
             /\ Value(t, o) = Value(s, o) /\ Value(t, o) \in Int
             /\ \A x \in Valid(s) \cup Longs : Num(t, x) = Num(s, x) /\ Num(t, x) \in Int
<1> DEFINE t == copyIfShared(s, o)
<1>1. o \in Owners /\ Value(s, o) \in Int
  BY Kinds DEF Sound, Stored, Value
<1>2. Acts(s, t, {o}) /\ t.ptr[o] \in Items /\ Alone(t, o) /\ Value(t, o) = Value(s, o)
  <2>1. CASE UseCount(s, s.ptr[o]) > 1
    BY <1>1, <2>1, ReturnedActs DEF copyIfShared
  <2>2. CASE ~(UseCount(s, s.ptr[o]) > 1)
    <3>1. Alone(s, o)
      BY <1>1, <2>2, UseCountTells
    <3>2. t = s
      BY <2>2 DEF copyIfShared
    <3>3. QED  BY <3>1, <3>2 DEF Acts, Same
  <2>3. QED  BY <2>1, <2>2
<1> HIDE DEF t
<1>3. \A v \in Objects : s.ptr[v] \in Items => Value(t, v) = Value(s, v)
  BY <1>2, Kinds DEF Acts, Same, Value
<1>4. \A x \in Valid(s) \cup Longs : Num(t, x) = Num(s, x) /\ Num(t, x) \in Int
  BY <1>3, NumKept
<1>5. QED  BY <1>1, <1>2, <1>4 DEF t

\* Any number may be written after copyIfShared().
LEMMA CopyWrites ==
  ASSUME NEW s, Sound(s), NEW o \in Users, s.ptr[o] \in Items, NEW n \in Int
  PROVE  LET t == Write(copyIfShared(s, o), o, n)
         IN  Acts(s, t, {o}) /\ t.ptr[o] \in Items /\ Alone(t, o) /\ Value(t, o) = n
<1> DEFINE t == copyIfShared(s, o)
           u == Write(t, o, n)
<1>1. Acts(s, t, {o}) /\ t.ptr[o] \in Items /\ Alone(t, o)
  BY CopyActs
<1> HIDE DEF t
<1>2. Acts(t, u, {o}) /\ u.ptr = t.ptr /\ Alone(u, o) /\ Value(u, o) = n
  BY <1>1, WriteActs DEF Acts
<1> HIDE DEF u
<1>3. Acts(s, u, {o} \cup {o})
  BY <1>1, <1>2, ActsAgain
<1>4. QED  BY <1>1, <1>2, <1>3 DEF t, u

\* After resetIfShared(), o has an item for itself.
LEMMA ResetActs ==
  ASSUME NEW s, Sound(s), NEW o \in Users, s.ptr[o] \in Items
  PROVE  LET t == resetIfShared(s, o, DefaultBits)
         IN  Acts(s, t, {o}) /\ t.ptr[o] \in Items /\ Alone(t, o)
<1> DEFINE t == resetIfShared(s, o, DefaultBits)
<1>1. CASE UseCount(s, s.ptr[o]) > 1
  <2>1. t = Allocate(s, o, DefaultBits)
    BY <1>1 DEF resetIfShared
  <2> HIDE DEF t
  <2>2. /\ t \in Stored(Int, Nat) /\ PoolUnused(t)
        /\ t.ptr[o] \in Items /\ Alone(t, o)
        /\ \A v \in Owners \ {o} : Same(s, t, v)
    BY <2>1, Kinds, AllocateSame DEF Sound
  <2>3. ZeroOK(t)
    BY <2>2, Kinds, ZeroKept
  <2>4. QED  BY <2>2, <2>3, Kinds DEF Acts, Sound, t
<1>2. CASE ~(UseCount(s, s.ptr[o]) > 1)
  <2>1. Alone(s, o)
    BY <1>2, Kinds, UseCountTells
  <2>2. t = s
    BY <1>2 DEF resetIfShared
  <2>3. QED  BY <2>1, <2>2 DEF Acts, Same
<1>3. QED  BY <1>1, <1>2

\* A shared_ptr of a user takes the item of another, or none.
LEMMA PointActs ==
  ASSUME NEW s, Sound(s), NEW o \in Users, NEW d,
         d \in {NoItem, NoObject} \/ \E v \in Owners : s.ptr[v] = d /\ d \in Items
  PROVE  LET t == Point(s, o, d)
         IN  /\ Acts(s, t, {o}) /\ t.ptr[o] = d
             /\ \A v \in Owners : s.ptr[v] = d /\ d \in Items => Value(t, o) = Value(s, v)
<1> DEFINE t == Point(s, o, d)
<1>1. d \in (Items \cup {NoItem, NoObject}) \ ToSet(s.pool)
  <2>1. s.pool \in Seq(Items) /\ PoolUnused(s)
    BY DEF Sound, Stored
  <2>2. ToSet(s.pool) \subseteq Items
    BY <2>1, LenProperties DEF ToSet
  <2>3. QED  BY <2>1, <2>2, ItemsAssumption DEF PoolUnused, InUse
<1>2. /\ t \in Stored(Int, Nat) /\ PoolUnused(t)
      /\ t.ptr[o] = d
      /\ d \in Items => t.num[d] = s.num[d] /\ t.bits[d] = s.bits[d]
      /\ \A v \in Owners \ {o} : Same(s, t, v)
  BY <1>1, Kinds, PointSame DEF Sound
<1> HIDE DEF t
<1>3. ZeroOK(t)
  BY <1>2, Kinds, ZeroKept
<1>4. QED  BY <1>2, <1>3, Kinds DEF Acts, Sound, Value, t

\* An object takes the shared zero, which is made when it is first needed.
LEMMA SetZeroActs ==
  ASSUME NEW s, Sound(s), NEW o \in Users
  PROVE  LET t == set_0(s, o)
         IN  Acts(s, t, {o}) /\ t.ptr[o] \in Items /\ Value(t, o) = 0
<1> DEFINE t == const_0(s)
           u == Point(t, o, t.ptr[Zero])
<1>1. Acts(s, t, {}) /\ t.ptr[Zero] \in Items
  <2>1. CASE s.ptr[Zero] = NoItem
    <3> DEFINE a == allocateGmpIntData(s, Zero)
    <3>1. /\ a \in Stored(Int, Nat) /\ PoolUnused(a)
          /\ a.ptr[Zero] \in Items /\ Alone(a, Zero)
          /\ \A v \in Owners \ {Zero} : Same(s, a, v)
      BY Kinds, AllocateSame DEF allocateGmpIntData, Sound
    <3>2. t = Write(a, Zero, 0)
      BY <2>1 DEF const_0
    <3> HIDE DEF a, t
    <3>3. /\ t \in Stored(Int, Nat) /\ PoolUnused(t) /\ t.ptr = a.ptr /\ Value(t, Zero) = 0
          /\ \A v \in Owners \ {Zero} : Same(a, t, v)
      BY <3>1, <3>2, Kinds, WriteSame
    <3>4. QED  BY <3>1, <3>3, Kinds, ItemsAssumption DEF Acts, Sound, ZeroOK, Same
  <2>2. CASE s.ptr[Zero] # NoItem
    <3>1. s.ptr[Zero] \in Items
      BY <2>2, Kinds DEF Sound, Stored, ZeroOK
    <3>2. QED  BY <2>2, <3>1 DEF const_0, Acts, Same
  <2>3. QED  BY <2>1, <2>2
<1>2. Value(t, Zero) = 0 /\ Sound(t)
  BY <1>1, ItemsAssumption DEF Acts, Sound, ZeroOK
<1>3. set_0(s, o) = u
  BY DEF set_0
<1> HIDE DEF t
<1>4. Acts(t, u, {o}) /\ u.ptr[o] \in Items /\ Value(u, o) = 0
  <2> DEFINE d == t.ptr[Zero]
  <2>1. d \in Items /\ Zero \in Owners
    BY <1>1, Kinds
  <2>2. \E v \in Owners : t.ptr[v] = d /\ d \in Items
    BY <2>1
  <2>3. u = Point(t, o, d)
    OBVIOUS
  <2> HIDE DEF d, u
  <2>4. /\ Acts(t, u, {o}) /\ u.ptr[o] = d
        /\ \A v \in Owners : t.ptr[v] = d /\ d \in Items => Value(u, o) = Value(t, v)
    BY <1>2, <2>2, <2>3, PointActs
  <2>5. QED  BY <1>2, <2>1, <2>4 DEF d
<1> HIDE DEF u
<1>5. Acts(s, u, {} \cup {o})
  BY <1>1, <1>4, ActsAgain
<1>6. {} \cup {o} = {o}
  OBVIOUS
<1>7. QED  BY <1>3, <1>4, <1>5, <1>6

(***************************************************************************)
(* The operators.                                                          *)
(***************************************************************************)

\* The constructors write an item of the new object's own, or share the zero.
LEMMA ConstructActs ==
  ASSUME NEW s, Sound(s), NEW o \in Users, NEW n \in Int
  PROVE  /\ Acts(s, Construct(s, o, n), {o})
         /\ Construct(s, o, n).ptr[o] \in Items /\ Value(Construct(s, o, n), o) = n
         /\ Acts(s, ConstructDouble(s, o, n), {o})
<1>1. Construct(s, o, n) = IF n = 0 THEN set_0(s, o)
                           ELSE Write(allocateGmpIntData(s, o), o, n)
  BY DEF Construct
<1>2. ConstructDouble(s, o, n) =
        IF mpz_abs(n) < 2 THEN set_0(s, o)
        ELSE Write(allocateGmpIntData(s, o), o, mpz_tdiv_q(n, 2))
  BY DEF ConstructDouble
<1>3. mpz_tdiv_q(n, 2) \in Int
  BY Quotient
<1>4. QED  BY <1>1, <1>2, <1>3, SetZeroActs, ReturnedActs

\* The operators that change an object and take any operand.
LEMMA ModifyActs ==
  ASSUME NEW s, Sound(s), NEW o \in Users, s.ptr[o] \in Items
  PROVE  /\ \A x \in Valid(s) \cup Longs : /\ Acts(s, addTo(s, o, x), {o})
                                           /\ Acts(s, subtractFrom(s, o, x), {o})
                                           /\ Acts(s, multiplyBy(s, o, x), {o})
         /\ \A bits \in Bits : /\ Acts(s, shiftLeft(s, o, bits), {o})
                               /\ Acts(s, shiftRight(s, o, bits), {o})
         /\ \A p \in Valid(s), x \in Valid(s) \cup Longs :
              /\ Acts(s, addProduct(s, o, p, x), {o})
              /\ Acts(s, subProduct(s, o, p, x), {o})
         /\ Acts(s, negate(s, o), {o})
         /\ Acts(s, abs(s, o), {o})
<1> DEFINE t == copyIfShared(s, o)
<1>1. /\ Value(t, o) \in Int
      /\ \A x \in Valid(s) \cup Longs : Num(t, x) \in Int
  BY CopyActs
<1>2. \A n \in Int : Acts(s, Write(t, o, n), {o})
  BY CopyWrites
<1> HIDE DEF t
<1>3. ASSUME NEW x \in Valid(s) \cup Longs
      PROVE  /\ Acts(s, addTo(s, o, x), {o})
             /\ Acts(s, subtractFrom(s, o, x), {o})
             /\ Acts(s, multiplyBy(s, o, x), {o})
  <2>1. /\ addTo(s, o, x) = IF x \in Objects \/ x >= 0
                            THEN Write(t, o, Value(t, o) + Num(t, x))
                            ELSE Write(t, o, Value(t, o) - (-x))
        /\ subtractFrom(s, o, x) = IF x \in Objects \/ x >= 0
                                   THEN Write(t, o, Value(t, o) - Num(t, x))
                                   ELSE Write(t, o, Value(t, o) + (-x))
        /\ multiplyBy(s, o, x) = Write(t, o, Value(t, o) * Num(t, x))
    BY DEF addTo, subtractFrom, multiplyBy, t
  <2>2. x \in Objects \/ x \in Int
    BY ArgumentsAssumption DEF Valid
  <2>3. /\ Value(t, o) + Num(t, x) \in Int /\ Value(t, o) - Num(t, x) \in Int
        /\ Value(t, o) * Num(t, x) \in Int
    BY <1>1
  <2>4. x \notin Objects =>
          Value(t, o) - (-x) \in Int /\ Value(t, o) + (-x) \in Int
    BY <1>1, <2>2
  <2>5. QED  BY <1>2, <2>1, <2>3, <2>4
<1>4. ASSUME NEW bits \in Bits
      PROVE  Acts(s, shiftLeft(s, o, bits), {o}) /\ Acts(s, shiftRight(s, o, bits), {o})
  <2>1. 2^bits \in Int /\ 2^bits # 0
    BY ArgumentsAssumption, Powers
  <2>2. mpz_tdiv_q(Value(t, o), 2^bits) \in Int /\ Value(t, o) * 2^bits \in Int
    BY <1>1, <2>1, Quotient
  <2>3. /\ shiftLeft(s, o, bits) = Write(t, o, Value(t, o) * 2^bits)
        /\ shiftRight(s, o, bits) = Write(t, o, mpz_tdiv_q(Value(t, o), 2^bits))
    BY DEF shiftLeft, shiftRight, t
  <2>4. QED  BY <1>2, <2>2, <2>3
<1>5. ASSUME NEW p \in Valid(s), NEW x \in Valid(s) \cup Longs
      PROVE  /\ Acts(s, addProduct(s, o, p, x), {o})
             /\ Acts(s, subProduct(s, o, p, x), {o})
  <2>1. Num(t, p) = Value(t, p)
    BY DEF Valid, Num
  <2>2. Value(t, p) \in Int /\ Num(t, x) \in Int
    BY <1>1, <2>1
  <2>3. /\ addProduct(s, o, p, x) = Write(t, o, Value(t, o) + Value(t, p) * Num(t, x))
        /\ subProduct(s, o, p, x) = Write(t, o, Value(t, o) - Value(t, p) * Num(t, x))
    BY DEF addProduct, subProduct, t
  <2>4. /\ Value(t, o) + Value(t, p) * Num(t, x) \in Int
        /\ Value(t, o) - Value(t, p) * Num(t, x) \in Int
    BY <1>1, <2>2
  <2>5. QED  BY <1>2, <2>3, <2>4
<1>6. Acts(s, negate(s, o), {o}) /\ Acts(s, abs(s, o), {o})
  <2>1. -Value(t, o) \in Int /\ mpz_abs(Value(t, o)) \in Int
    BY <1>1 DEF mpz_abs
  <2>2. /\ negate(s, o) = Write(t, o, -Value(t, o))
        /\ abs(s, o) = Write(t, o, mpz_abs(Value(t, o)))
    BY DEF negate, abs, t
  <2>3. QED  BY <1>2, <2>1, <2>2
<1>7. QED  BY <1>3, <1>4, <1>5, <1>6

\* A text that is no number leaves the value that the object had, or any.
LEMMA ParseActs ==
  ASSUME NEW s, Sound(s), NEW o \in Users, s.ptr[o] \in Items,
         NEW text \in Longs \cup {BadText}, NEW n \in Int
  PROVE  Acts(s, parseValue(s, o, text, n), {o})
<1> DEFINE t == resetIfShared(s, o, DefaultBits)
<1>1. Acts(s, t, {o}) /\ t.ptr[o] \in Items /\ Alone(t, o)
  BY ResetActs
<1>2. parseValue(s, o, text, n) = IF text # BadText THEN Write(t, o, text)
                                  ELSE IF t.ptr[o] = s.ptr[o] THEN t ELSE Write(t, o, n)
  BY DEF parseValue
<1> HIDE DEF t
<1>3. ASSUME NEW m \in Int
      PROVE  Acts(s, Write(t, o, m), {o})
  <2>1. Acts(t, Write(t, o, m), {o})
    BY <1>1, WriteActs DEF Acts
  <2>2. Acts(s, Write(t, o, m), {o} \cup {o})
    BY <1>1, <2>1, ActsAgain
  <2>3. QED  BY <2>2
<1>4. text # BadText => text \in Int
  BY ArgumentsAssumption
<1>5. QED  BY <1>1, <1>2, <1>3, <1>4

\* operator/=.
LEMMA DivideActs ==
  ASSUME NEW s, Sound(s), NEW o \in Users, s.ptr[o] \in Items,
         NEW x \in Valid(s) \cup Longs, Num(s, x) # 0
  PROVE  /\ Acts(s, divideBy(s, o, x), {o})
         /\ IsQuotient(Value(s, o), Num(s, x), Value(divideBy(s, o, x), o))
<1> DEFINE t == copyIfShared(s, o)
           n == Value(s, o)
           d == Num(s, x)
           u == Write(t, o, -n)
<1>1. /\ Acts(s, t, {o}) /\ t.ptr[o] \in Items /\ Alone(t, o)
      /\ Value(t, o) = n /\ n \in Int /\ Num(t, x) = d /\ d \in Int
  BY CopyActs
<1>2. \A m \in Int : LET w == Write(t, o, m)
                     IN  /\ Acts(s, w, {o}) /\ w.ptr[o] \in Items /\ Alone(w, o)
                         /\ Value(w, o) = m
  BY CopyWrites
<1>3. divideBy(s, o, x) =
        IF x \in Objects \/ x >= 0 THEN Write(t, o, mpz_tdiv_q(Value(t, o), Num(t, x)))
        ELSE LET v == Write(t, o, -Value(t, o)) IN Write(v, o, mpz_tdiv_q(Value(v, o), -x))
  BY DEF divideBy
<1> HIDE DEF t, n, d
<1>4. /\ mpz_tdiv_q(n, d) \in Int /\ IsQuotient(n, d, mpz_tdiv_q(n, d))
      /\ mpz_tdiv_q(-n, -d) = mpz_tdiv_q(n, d)
  BY <1>1, Quotient DEF d
<1>5. CASE x \in Objects \/ x >= 0
  <2>1. divideBy(s, o, x) = Write(t, o, mpz_tdiv_q(n, d))
    BY <1>1, <1>3, <1>5
  <2>2. QED  BY <1>2, <1>4, <2>1 DEF n, d
<1>6. CASE ~(x \in Objects \/ x >= 0)
  <2>1. -n \in Int /\ d = x
    BY <1>1, <1>6 DEF Num, d
  <2>2. Acts(s, u, {o}) /\ u.ptr[o] \in Items /\ Alone(u, o) /\ Value(u, o) = -n
    BY <1>2, <2>1
  <2>3. divideBy(s, o, x) = Write(u, o, mpz_tdiv_q(-n, -d))
    BY <1>1, <1>3, <1>6, <2>1, <2>2
  <2> HIDE DEF u
  <2> DEFINE w == Write(u, o, mpz_tdiv_q(n, d))
  <2>4. Acts(u, w, {o}) /\ Value(w, o) = mpz_tdiv_q(n, d)
    BY <1>4, <2>2, WriteActs DEF Acts
  <2> HIDE DEF w
  <2>5. Acts(s, w, {o} \cup {o})
    BY <2>2, <2>4, ActsAgain
  <2>6. divideBy(s, o, x) = w
    BY <1>4, <2>3 DEF w
  <2>7. QED  BY <1>4, <2>4, <2>5, <2>6 DEF n, d
<1>7. QED  BY <1>5, <1>6

\* operator%=.
LEMMA ModuloActs ==
  ASSUME NEW s, Sound(s), NEW o \in Users, s.ptr[o] \in Items,
         NEW x \in Valid(s) \cup Longs, Num(s, x) # 0
  PROVE  /\ Acts(s, takeModulo(s, o, x), {o})
         /\ IsRemainder(Value(s, o), Num(s, x), Value(takeModulo(s, o, x), o))
<1> DEFINE t      == copyIfShared(s, o)
           n      == Value(s, o)
           d      == Num(s, x)
           Mod(v) == Write(v, o, mpz_mod(Value(v, o), Num(v, x)))
<1>1. /\ Acts(s, t, {o}) /\ t.ptr[o] \in Items /\ Alone(t, o)
      /\ Value(t, o) = n /\ n \in Int /\ Num(t, x) = d /\ d \in Int
  BY CopyActs
<1>2. takeModulo(s, o, x) = IF Value(t, o) < 0 THEN negate(Mod(negate(t, o)), o) ELSE Mod(t)
  BY DEF takeModulo
<1> HIDE DEF t, n, d
<1>3. d # 0
  BY DEF d
<1>4. CASE n < 0
  <2> DEFINE u == negate(t, o)
             v == Mod(u)
             w == negate(v, o)
  <2>1. Acts(t, u, {o}) /\ u.ptr[o] \in Items /\ Alone(u, o) /\ Value(u, o) = -n
    <3>1. Value(copyIfShared(t, o), o) = n
      BY <1>1, CopyActs DEF Acts
    <3>2. u = Write(copyIfShared(t, o), o, -n)
      BY <3>1 DEF negate
    <3>3. -n \in Int /\ Sound(t)
      BY <1>1 DEF Acts
    <3> HIDE DEF u
    <3>4. QED  BY <1>1, <3>2, <3>3, CopyWrites
  <2> HIDE DEF u
  <2>2. Num(u, x) = d \/ Num(u, x) = -d
    <3>1. CASE x \in Objects /\ x # o
      <4>1. s.ptr[x] \in Items
        BY <3>1, ArgumentsAssumption DEF Valid, Owners
      <4>2. t.ptr[x] \in Items
        BY <1>1, <3>1, <4>1, Kinds DEF Acts, Same
      <4>3. Value(u, x) = Value(t, x)
        BY <2>1, <3>1, <4>2, Kinds DEF Acts, Same, Value
      <4>4. QED  BY <1>1, <3>1, <4>3 DEF Num
    <3>2. CASE x \in Objects /\ x = o
      BY <1>1, <2>1, <3>2 DEF Num
    <3>3. CASE x \notin Objects
      BY <1>1, <3>3 DEF Num
    <3>4. QED  BY <3>1, <3>2, <3>3
  <2>3. mpz_mod(-n, Num(u, x)) = mpz_mod(-n, d) /\ mpz_mod(-n, d) \in Int
    <3>1. mpz_abs(Num(u, x)) = mpz_abs(d)
      BY <1>1, <2>2 DEF mpz_abs
    <3>2. mpz_mod(-n, d) \in Int
      BY <1>1, <1>3, RemainderIs
    <3>3. QED  BY <3>1, <3>2 DEF mpz_mod
  <2>4. /\ Acts(u, v, {o}) /\ v.ptr[o] \in Items /\ Alone(v, o)
        /\ Value(v, o) = mpz_mod(-n, d)
    <3>1. v = Write(u, o, mpz_mod(-n, d))
      BY <2>1, <2>3
    <3> HIDE DEF v
    <3>2. QED  BY <2>1, <2>3, <3>1, WriteActs DEF Acts
  <2> HIDE DEF v
  <2>5. Acts(v, w, {o}) /\ Value(w, o) = -mpz_mod(-n, d)
    <3>1. Value(copyIfShared(v, o), o) = mpz_mod(-n, d)
      BY <2>4, CopyActs DEF Acts
    <3>2. w = Write(copyIfShared(v, o), o, -mpz_mod(-n, d))
      BY <3>1 DEF negate
    <3>3. -mpz_mod(-n, d) \in Int /\ Sound(v)
      BY <2>3, <2>4 DEF Acts
    <3> HIDE DEF w
    <3>4. QED  BY <2>4, <3>2, <3>3, CopyWrites
  <2> HIDE DEF w
  <2>6. Acts(s, w, {o})
    <3>1. Acts(s, u, {o} \cup {o})
      BY <1>1, <2>1, ActsAgain
    <3>2. Acts(s, v, ({o} \cup {o}) \cup {o})
      BY <2>4, <3>1, ActsAgain
    <3>3. Acts(s, w, (({o} \cup {o}) \cup {o}) \cup {o})
      BY <2>5, <3>2, ActsAgain
    <3>4. (({o} \cup {o}) \cup {o}) \cup {o} = {o}
      OBVIOUS
    <3>5. QED  BY <3>3, <3>4
  <2>7. takeModulo(s, o, x) = w
    BY <1>1, <1>2, <1>4 DEF u, v, w
  <2>8. Value(w, o) = Remainder(n, d)
    BY <1>4, <2>5 DEF Remainder
  <2>9. IsRemainder(n, d, Value(w, o))
    BY <1>1, <1>3, <2>8, RemainderIs
  <2>10. QED  BY <2>6, <2>7, <2>9 DEF n, d
<1>5. CASE ~(n < 0)
  <2>1. mpz_mod(n, d) \in Int /\ IsRemainder(n, d, Remainder(n, d))
    BY <1>1, <1>3, RemainderIs
  <2>2. takeModulo(s, o, x) = Write(t, o, mpz_mod(n, d))
    BY <1>1, <1>2, <1>5
  <2> DEFINE w == Write(t, o, mpz_mod(n, d))
  <2>3. Acts(t, w, {o}) /\ Value(w, o) = mpz_mod(n, d)
    BY <1>1, <2>1, WriteActs DEF Acts
  <2> HIDE DEF w
  <2>4. Acts(s, w, {o} \cup {o})
    BY <1>1, <2>3, ActsAgain
  <2>5. Remainder(n, d) = mpz_mod(n, d)
    BY <1>5 DEF Remainder
  <2>6. takeModulo(s, o, x) = w
    BY <2>2 DEF w
  <2>7. QED  BY <2>1, <2>3, <2>4, <2>5, <2>6 DEF n, d
<1>6. QED  BY <1>4, <1>5

\* The operators that return a new object to r.
LEMMA ReturnActs ==
  ASSUME NEW s, Sound(s), NEW r \in Users, NEW p, s.ptr[p] \in Items, p \in Users
  PROVE  /\ \A x \in Valid(s) \cup Longs : /\ Acts(s, sum(s, r, p, x), {r})
                                           /\ Acts(s, difference(s, r, p, x), {r})
                                           /\ Acts(s, product(s, r, p, x), {r})
         /\ Acts(s, absOf(s, r, p), {r})
         /\ \A bits \in Bits, f \in {"minus", "left", "right"} :
              Acts(s, transformed(s, r, p, bits)[f], {r})
         /\ \A n \in Longs : Acts(s, longDifference(s, r, n, p), {r})
<1> DEFINE m == Value(s, p)
<1>1. m \in Int
  BY Kinds DEF Sound, Stored, Value
<1>2. \A x \in Valid(s) \cup Longs : Num(s, x) \in Int
  BY NumKept
<1>3. \A n \in Int : Acts(s, Returned(s, r, n), {r})
  BY ReturnedActs DEF Returned
<1> HIDE DEF m
<1>4. ASSUME NEW x \in Valid(s) \cup Longs
      PROVE  /\ Acts(s, sum(s, r, p, x), {r})
             /\ Acts(s, difference(s, r, p, x), {r})
             /\ Acts(s, product(s, r, p, x), {r})
  <2>1. /\ sum(s, r, p, x) = IF x \in Objects \/ x >= 0
                             THEN Returned(s, r, m + Num(s, x))
                             ELSE Returned(s, r, m - (-x))
        /\ difference(s, r, p, x) = IF x \in Objects \/ x >= 0
                                    THEN Returned(s, r, m - Num(s, x))
                                    ELSE Returned(s, r, m + (-x))
        /\ product(s, r, p, x) = Returned(s, r, m * Num(s, x))
    BY DEF sum, difference, product, m
  <2>2. m + Num(s, x) \in Int /\ m - Num(s, x) \in Int /\ m * Num(s, x) \in Int
    BY <1>1, <1>2
  <2>3. x \in Objects \/ x \in Int
    BY ArgumentsAssumption DEF Valid
  <2>4. x \notin Objects => m - (-x) \in Int /\ m + (-x) \in Int
    BY <1>1, <2>3
  <2>5. QED  BY <1>3, <2>1, <2>2, <2>4
<1>5. ASSUME NEW bits \in Bits, NEW f \in {"minus", "left", "right"}
      PROVE  Acts(s, transformed(s, r, p, bits)[f], {r})
  <2>1. 2^bits \in Int /\ 2^bits # 0
    BY ArgumentsAssumption, Powers
  <2>2. /\ mpz_tdiv_q(m, 2^bits) \in Int /\ m * 2^bits \in Int
        /\ -m \in Int
    BY <1>1, <2>1, Quotient
  <2>3. transformed(s, r, p, bits)[f] \in
          {Returned(s, r, -m), Returned(s, r, m * 2^bits),
           Returned(s, r, mpz_tdiv_q(m, 2^bits))}
    BY DEF transformed, m
  <2>4. QED  BY <1>3, <2>2, <2>3
<1>6. ASSUME NEW n \in Longs
      PROVE  Acts(s, longDifference(s, r, n, p), {r})
  <2>1. n - m \in Int /\ -(m + (-n)) \in Int
    BY <1>1, ArgumentsAssumption
  <2>2. longDifference(s, r, n, p) = IF n >= 0 THEN Returned(s, r, n - m)
                                     ELSE Returned(s, r, -(m + (-n)))
    BY DEF longDifference, m
  <2>3. QED  BY <1>3, <2>1, <2>2
<1>7. Acts(s, absOf(s, r, p), {r})
  <2>1. mpz_abs(m) \in Int /\ absOf(s, r, p) = Returned(s, r, mpz_abs(m))
    BY <1>1 DEF mpz_abs, absOf, m
  <2>2. QED  BY <1>3, <2>1
<1>8. QED  BY <1>4, <1>5, <1>6, <1>7

\* operator/ and operator%.
LEMMA QuotientActs ==
  ASSUME NEW s, Sound(s), NEW r \in Users, NEW p \in Users, s.ptr[p] \in Items,
         NEW x \in Valid(s) \cup Longs, Num(s, x) # 0
  PROVE  LET n == Value(s, p)
             d == Num(s, x)
         IN  /\ Acts(s, quotient(s, r, p, x), {r})
             /\ quotient(s, r, p, x).ptr[r] \in Items
             /\ IsQuotient(n, d, Value(quotient(s, r, p, x), r))
             /\ Acts(s, remainder(s, r, p, x), {r})
             /\ remainder(s, r, p, x).ptr[r] \in Items
             /\ IsRemainder(n, d, Value(remainder(s, r, p, x), r))
<1> DEFINE n == Value(s, p)
           d == Num(s, x)
<1>1. n \in Int /\ d \in Int /\ d # 0
  BY NumKept, Kinds DEF Sound, Stored, Value
<1>2. \A m \in Int : LET t == Returned(s, r, m)
                     IN  Acts(s, t, {r}) /\ t.ptr[r] \in Items /\ Value(t, r) = m
  BY ReturnedActs DEF Returned
<1>3. quotient(s, r, p, x) \in {Returned(s, r, mpz_tdiv_q(n, d)),
                               Returned(s, r, mpz_tdiv_q(-n, -d))}
  BY DEF quotient, Num
<1>4. remainder(s, r, p, x) = Returned(s, r, Remainder(n, d))
  BY DEF remainder, Remainder
<1> HIDE DEF n, d
<1>5. /\ mpz_tdiv_q(n, d) \in Int /\ IsQuotient(n, d, mpz_tdiv_q(n, d))
      /\ mpz_tdiv_q(-n, -d) = mpz_tdiv_q(n, d)
  BY <1>1, Quotient
<1>6. Remainder(n, d) \in Int /\ IsRemainder(n, d, Remainder(n, d))
  <2>1. mpz_mod(n, d) \in Int /\ mpz_mod(-n, d) \in Int
    BY <1>1, RemainderIs
  <2>2. QED  BY <1>1, <2>1, RemainderIs DEF Remainder
<1>7. quotient(s, r, p, x) = Returned(s, r, mpz_tdiv_q(n, d))
  BY <1>3, <1>5
<1>8. QED  BY <1>2, <1>4, <1>5, <1>6, <1>7 DEF n, d

\* The same with a long on the left, which the operators make an object of.
LEMMA LongQuotientActs ==
  ASSUME NEW s, Sound(s), NEW r \in Objects, NEW p \in Objects, s.ptr[p] \in Items,
         Value(s, p) # 0, NEW n \in Int
  PROVE  LET d == Value(s, p)
         IN  /\ Acts(s, longQuotient(s, r, n, p), {r, Temporary})
             /\ IsQuotient(n, d, Value(longQuotient(s, r, n, p), r))
             /\ Acts(s, longRemainder(s, r, n, p), {r, Temporary})
             /\ IsRemainder(n, d, Value(longRemainder(s, r, n, p), r))
<1> DEFINE d == Value(s, p)
           c == Construct(s, Temporary, n)
<1>1. Temporary \in Users /\ Temporary \notin Objects /\ r \in Users /\ p \in Users
  BY OwnersAssumption DEF Users
<1>2. Acts(s, c, {Temporary}) /\ c.ptr[Temporary] \in Items /\ Value(c, Temporary) = n
  BY <1>1, ConstructActs
<1> HIDE DEF c
<1>3. c.ptr[p] \in Items /\ Num(c, p) = d /\ p \in Valid(c)
  BY <1>1, <1>2 DEF Acts, Same, Value, Num, Valid
<1>4. ASSUME NEW q, Acts(c, q, {r}), q.ptr[r] \in Items
      PROVE  /\ Acts(s, Destroy(q, Temporary), {r, Temporary})
             /\ Value(Destroy(q, Temporary), r) = Value(q, r)
  <2> DEFINE t == Destroy(q, Temporary)
  <2>1. Acts(q, t, {Temporary})
    BY <1>1, <1>4, PointActs DEF Destroy, Acts
  <2> HIDE DEF t
  <2>2. Value(t, r) = Value(q, r)
    BY <1>1, <1>4, <2>1 DEF Acts, Same, Value
  <2>3. Acts(s, q, {Temporary} \cup {r})
    BY <1>2, <1>4, ActsAgain
  <2>4. Acts(s, t, ({Temporary} \cup {r}) \cup {Temporary})
    BY <2>1, <2>3, ActsAgain
  <2>5. ({Temporary} \cup {r}) \cup {Temporary} = {r, Temporary}
    OBVIOUS
  <2>6. QED  BY <2>2, <2>4, <2>5 DEF t
<1>5. Sound(c) /\ Num(c, p) # 0
  BY <1>2, <1>3 DEF Acts
<1>6. /\ Acts(c, quotient(c, r, Temporary, p), {r})
      /\ quotient(c, r, Temporary, p).ptr[r] \in Items
      /\ IsQuotient(n, d, Value(quotient(c, r, Temporary, p), r))
      /\ Acts(c, remainder(c, r, Temporary, p), {r})
      /\ remainder(c, r, Temporary, p).ptr[r] \in Items
      /\ IsRemainder(n, d, Value(remainder(c, r, Temporary, p), r))
  BY <1>1, <1>2, <1>3, <1>5, QuotientActs
<1>7. /\ longQuotient(s, r, n, p) = Destroy(quotient(c, r, Temporary, p), Temporary)
      /\ longRemainder(s, r, n, p) = Destroy(remainder(c, r, Temporary, p), Temporary)
  BY DEF longQuotient, longRemainder, c
<1>8. QED  BY <1>4, <1>6, <1>7

(***************************************************************************)
(* The steps.                                                              *)
(***************************************************************************)

\* What a call may do to the store: it is for one object, or moves one.
CallOn(o) == Acts(store, store', {o, Temporary})

MovesOver(o, p) ==
  /\ Acts(store, store', {o, p})
  /\ store.ptr[p] \in Items /\ store'.ptr[o] \in Items
  /\ Value(store', o) = Value(store, p)

\* A call on an object is one of IndependentNumbers.
LEMMA CallIs ==
  ASSUME NEW o \in Objects, CallOn(o)
  PROVE  Sound(store') /\ Independent!Call(o)
<1>1. \A v \in Objects \ {o} : Same(store, store', v)
  BY OwnersAssumption DEF CallOn, Acts, Users
<1>2. \A v \in Objects \ {o} : Values(store')[v] = Values(store)[v]
  BY <1>1 DEF Values, Valid, Value, Same
<1>3. /\ Values(store) = [v \in Objects |-> Values(store)[v]]
      /\ Values(store') = [v \in Objects |-> Values(store')[v]]
  BY DEF Values
<1>4. Values(store)' = Values(store')
  BY DEF Values, Valid, Value
<1>5. Values(store') = [Values(store) EXCEPT ![o] = Values(store')[o]]
  BY <1>2, <1>3
<1>6. QED  BY <1>4, <1>5 DEF CallOn, Acts, Independent!Call

\* A move from another object is one of IndependentNumbers.
LEMMA MoveIs ==
  ASSUME Sound(store), NEW o \in Objects, NEW p \in Objects \ {o}, MovesOver(o, p)
  PROVE  Sound(store') /\ Independent!Move(o, p)
<1>1. \A v \in Objects \ {o, p} : Same(store, store', v)
  BY DEF MovesOver, Acts, Users
<1>2. \A v \in Objects \ {o, p} : Values(store')[v] = Values(store)[v]
  BY <1>1 DEF Values, Valid, Value, Same
<1>3. /\ Values(store) = [v \in Objects |-> Values(store)[v]]
      /\ Values(store') = [v \in Objects |-> Values(store')[v]]
  BY DEF Values
<1>4. Values(store)' = Values(store')
  BY DEF Values, Valid, Value
<1>5. Values(store')[o] = Values(store)[p] /\ Values(store)[p] = Value(store, p)
  BY DEF Values, Valid, MovesOver
<1>6. Value(store, p) \in Int
  BY DEF MovesOver, Sound, Stored, Value
<1>7. Values(store)[p] \notin {NoItem, NoObject}
  BY <1>5, <1>6, ItemsAssumption
<1>8. Values(store') = [Values(store) EXCEPT ![o] = Values(store)[p], ![p] = Values(store')[p]]
  BY <1>2, <1>3, <1>5
<1>9. QED  BY <1>4, <1>7, <1>8 DEF MovesOver, Acts, Independent!Move

\* What a call leaves is the next store.
LEMMA ActsFor ==
  ASSUME NEW t, NEW o \in Objects, Becomes(t), Acts(store, t, {o}) \/ Acts(store, t, {o, Temporary})
  PROVE  CallOn(o)
<1>1. store' = t
  BY DEF Becomes
<1>2. QED  BY <1>1 DEF CallOn, Acts

\* A step of an object's lifetime or use.
CallOrMove ==
  \E o \in Objects : CallOn(o) \/ \E p \in Objects \ {o} : MovesOver(o, p)

\* Constructors change only the object constructed; moving also takes the other's item.
LEMMA ConstructSteps ==
  ASSUME Sound(store), ConstructStep
  PROVE  CallOrMove
<1>1. PICK o \in Objects \ Existing :
        \/ \E n \in Longs : \/ Becomes(Construct(store, o, n))
                            \/ Becomes(ConstructDouble(store, o, n))
        \/ \E p \in Valid(store) : \/ Becomes(CopyConstruct(store, o, p))
                                   \/ Becomes(MoveConstruct(store, o, p))
  BY DEF ConstructStep
<1>2. o \in Users
  BY Kinds
<1>3. ASSUME NEW n \in Longs,
             Becomes(Construct(store, o, n)) \/ Becomes(ConstructDouble(store, o, n))
      PROVE  CallOn(o)
  BY <1>2, <1>3, ArgumentsAssumption, ConstructActs, ActsFor
<1>4. ASSUME NEW p \in Valid(store), Becomes(CopyConstruct(store, o, p))
      PROVE  CallOn(o)
  <2>1. p \in Owners /\ store.ptr[p] \in Items
    BY Kinds DEF Valid
  <2>2. Acts(store, CopyConstruct(store, o, p), {o})
    BY <1>2, <2>1, PointActs DEF CopyConstruct
  <2>3. QED  BY <1>4, <2>2, ActsFor
<1>5. ASSUME NEW p \in Valid(store), Becomes(MoveConstruct(store, o, p))
      PROVE  p \in Objects \ {o} /\ MovesOver(o, p)
  <2>1. /\ p \in Objects \ {o} /\ p \in Owners \ {o} /\ o \in Owners
        /\ store.ptr[p] \in Items
    BY <1>2, Kinds, ItemsAssumption DEF Valid, Existing
  <2> DEFINE t == MoveTo(store, o, p)
             u == set_0(t, p)
  <2>2. /\ t \in Stored(Int, Nat) /\ PoolUnused(t)
        /\ t.ptr[o] = store.ptr[p] /\ Value(t, o) = Value(store, p)
        /\ \A v \in Owners \ {o, p} : Same(store, t, v)
    BY <2>1, Kinds, MoveSame DEF Sound
  <2> HIDE DEF t
  <2>3. Same(store, t, Zero)
    BY <2>1, <2>2, Kinds
  <2>4. Acts(store, t, {o, p})
    BY <2>2, <2>3, Kinds, ZeroKept DEF Acts, Sound
  <2>5. Acts(t, u, {p})
    BY <2>1, <2>4, Kinds, SetZeroActs DEF Acts
  <2> HIDE DEF u
  <2>6. Acts(store, u, {o, p} \cup {p})
    BY <2>4, <2>5, ActsAgain
  <2>7. {o, p} \cup {p} = {o, p}
    OBVIOUS
  <2>8. u.ptr[o] \in Items /\ Value(u, o) = Value(store, p)
    BY <1>2, <2>1, <2>2, <2>5 DEF Acts, Same, Value
  <2>9. store' = u
    BY <1>5 DEF Becomes, MoveConstruct, t, u
  <2>10. QED  BY <2>1, <2>6, <2>7, <2>8, <2>9 DEF MovesOver
<1>6. QED  BY <1>1, <1>3, <1>4, <1>5 DEF CallOrMove

\* Assignments and destruction do.
LEMMA AssignSteps ==
  ASSUME Sound(store), AssignStep
  PROVE  CallOrMove
<1>1. PICK o \in Existing :
        \/ \E p \in Valid(store) : \/ Becomes(Assign(store, o, p))
                                   \/ Becomes(MoveAssign(store, o, p))
        \/ \E n \in Longs : /\ o \in Valid(store) \/ n = 0
                            /\ Becomes(AssignLong(store, o, n))
        \/ Becomes(Destroy(store, o))
  BY DEF AssignStep
<1>2. o \in Users /\ o \in Objects /\ o \in Owners
  BY Kinds DEF Existing
<1>3. ASSUME NEW p \in Valid(store), Becomes(Assign(store, o, p))
      PROVE  CallOn(o)
  <2>1. p \in Owners /\ store.ptr[p] \in Items
    BY Kinds DEF Valid
  <2>2. CASE o = p
    <3>1. Acts(store, store, {o})
      BY DEF Acts, Same
    <3>2. Assign(store, o, p) = store
      BY <2>2 DEF Assign
    <3>3. QED  BY <1>2, <1>3, <3>1, <3>2, ActsFor
  <2>3. CASE o # p
    <3>1. Assign(store, o, p) = Point(store, o, store.ptr[p])
      BY <2>3 DEF Assign
    <3>2. Acts(store, Point(store, o, store.ptr[p]), {o})
      BY <1>2, <2>1, PointActs
    <3>3. QED  BY <1>2, <1>3, <3>1, <3>2, ActsFor
  <2>4. QED  BY <2>2, <2>3
<1>4. ASSUME NEW p \in Valid(store), Becomes(MoveAssign(store, o, p))
      PROVE  CallOn(o) \/ (p \in Objects \ {o} /\ MovesOver(o, p))
  <2>1. p \in Objects /\ p \in Owners /\ store.ptr[p] \in Items
    BY Kinds DEF Valid
  <2>2. CASE o = p
    <3>1. Acts(store, store, {o})
      BY DEF Acts, Same
    <3>2. MoveAssign(store, o, p) = store
      BY <2>2 DEF MoveAssign, MoveTo
    <3>3. QED  BY <1>2, <1>4, <3>1, <3>2, ActsFor
  <2>3. CASE o # p
    <3> DEFINE t == MoveTo(store, o, p)
    <3>1. /\ t \in Stored(Int, Nat) /\ PoolUnused(t)
          /\ t.ptr[o] = store.ptr[p] /\ Value(t, o) = Value(store, p)
          /\ \A v \in Owners \ {o, p} : Same(store, t, v)
      BY <1>2, <2>1, <2>3, Kinds, MoveSame DEF Sound
    <3> HIDE DEF t
    <3>2. Same(store, t, Zero)
      BY <1>2, <2>1, <3>1, Kinds
    <3>3. Acts(store, t, {o, p})
      BY <3>1, <3>2, Kinds, ZeroKept DEF Acts, Sound
    <3>4. store' = t
      BY <1>4 DEF Becomes, MoveAssign, t
    <3>5. QED  BY <2>1, <2>3, <3>1, <3>3, <3>4 DEF MovesOver
  <2>4. QED  BY <2>2, <2>3
<1>5. ASSUME NEW n \in Longs, o \in Valid(store) \/ n = 0, Becomes(AssignLong(store, o, n))
      PROVE  CallOn(o)
  <2>1. CASE n = 0
    BY <1>2, <1>5, <2>1, SetZeroActs, ActsFor DEF AssignLong
  <2>2. CASE n # 0
    <3> DEFINE t == resetIfShared(store, o, DefaultBits)
               u == Write(t, o, n)
    <3>1. store.ptr[o] \in Items /\ n \in Int
      BY <1>5, <2>2, ArgumentsAssumption DEF Valid
    <3>2. Acts(store, t, {o}) /\ t.ptr[o] \in Items /\ Alone(t, o)
      BY <1>2, <3>1, ResetActs
    <3> HIDE DEF t
    <3>3. Acts(t, u, {o})
      BY <1>2, <3>1, <3>2, WriteActs DEF Acts
    <3> HIDE DEF u
    <3>4. Acts(store, u, {o} \cup {o})
      BY <3>2, <3>3, ActsAgain
    <3>5. AssignLong(store, o, n) = u
      BY <2>2 DEF AssignLong, t, u
    <3>6. QED  BY <1>2, <1>5, <3>4, <3>5, ActsFor
  <2>3. QED  BY <2>1, <2>2
<1>6. ASSUME Becomes(Destroy(store, o))
      PROVE  CallOn(o)
  BY <1>2, <1>6, PointActs, ActsFor DEF Destroy
<1>7. QED  BY <1>1, <1>2, <1>3, <1>4, <1>5, <1>6 DEF CallOrMove

\* What parseValue() may leave in an item that it did not write.
LEMMA UnwrittenInt == Unwritten \subseteq Int
BY ArgumentsAssumption DEF Unwritten

\* The compound operators and in-place functions change their object only.
LEMMA ModifySteps ==
  ASSUME Sound(store), ModifyStep
  PROVE  CallOrMove
<1>1. PICK o \in Valid(store) :
        \/ \E x \in Operands : \/ Becomes(addTo(store, o, x))
                               \/ Becomes(subtractFrom(store, o, x))
                               \/ Becomes(multiplyBy(store, o, x))
        \/ \E x \in Divisors : \/ Becomes(divideBy(store, o, x))
                               \/ Becomes(takeModulo(store, o, x))
        \/ \E bits \in Bits : \/ Becomes(shiftLeft(store, o, bits))
                               \/ Becomes(shiftRight(store, o, bits))
        \/ \E p \in Valid(store), x \in Valid(store) \cup (Longs \cap Nat) :
             \/ Becomes(addProduct(store, o, p, x))
             \/ Becomes(subProduct(store, o, p, x))
        \/ Becomes(negate(store, o))
        \/ Becomes(abs(store, o))
        \/ \E text \in Longs \cup {BadText}, n \in Unwritten :
             Becomes(parseValue(store, o, text, n))
  BY DEF ModifyStep
<1>2. o \in Objects /\ o \in Users /\ store.ptr[o] \in Items
  BY Kinds DEF Valid
<1>3. Operands = Valid(store) \cup Longs /\ Divisors = {x \in Operands : Num(store, x) # 0}
  BY DEF Operands, Divisors
<1>4. ASSUME NEW x \in Operands,
             \/ Becomes(addTo(store, o, x))
             \/ Becomes(subtractFrom(store, o, x))
             \/ Becomes(multiplyBy(store, o, x))
      PROVE  CallOn(o)
  <2>1. /\ Acts(store, addTo(store, o, x), {o})
        /\ Acts(store, subtractFrom(store, o, x), {o})
        /\ Acts(store, multiplyBy(store, o, x), {o})
    BY <1>2, <1>3, ModifyActs
  <2>2. QED  BY <1>2, <1>4, <2>1, ActsFor
<1>5. ASSUME NEW x \in Divisors,
             Becomes(divideBy(store, o, x)) \/ Becomes(takeModulo(store, o, x))
      PROVE  CallOn(o)
  <2>1. Acts(store, divideBy(store, o, x), {o}) /\ Acts(store, takeModulo(store, o, x), {o})
    BY <1>2, <1>3, DivideActs, ModuloActs
  <2>2. QED  BY <1>2, <1>5, <2>1, ActsFor
<1>6. ASSUME NEW bits \in Bits,
             Becomes(shiftLeft(store, o, bits)) \/ Becomes(shiftRight(store, o, bits))
      PROVE  CallOn(o)
  <2>1. Acts(store, shiftLeft(store, o, bits), {o}) /\ Acts(store, shiftRight(store, o, bits), {o})
    BY <1>2, ModifyActs
  <2>2. QED  BY <1>2, <1>6, <2>1, ActsFor
<1>7. ASSUME NEW p \in Valid(store), NEW x \in Valid(store) \cup (Longs \cap Nat),
             Becomes(addProduct(store, o, p, x)) \/ Becomes(subProduct(store, o, p, x))
      PROVE  CallOn(o)
  <2>1. x \in Valid(store) \cup Longs
    OBVIOUS
  <2>2. Acts(store, addProduct(store, o, p, x), {o}) /\ Acts(store, subProduct(store, o, p, x), {o})
    BY <1>2, <2>1, ModifyActs
  <2>3. QED  BY <1>2, <1>7, <2>2, ActsFor
<1>8. ASSUME Becomes(negate(store, o)) \/ Becomes(abs(store, o))
      PROVE  CallOn(o)
  <2>1. Acts(store, negate(store, o), {o}) /\ Acts(store, abs(store, o), {o})
    BY <1>2, ModifyActs
  <2>2. QED  BY <1>2, <1>8, <2>1, ActsFor
<1>9. ASSUME NEW text \in Longs \cup {BadText}, NEW n \in Unwritten,
             Becomes(parseValue(store, o, text, n))
      PROVE  CallOn(o)
  <2>1. Acts(store, parseValue(store, o, text, n), {o})
    BY <1>2, UnwrittenInt, ParseActs
  <2>2. QED  BY <1>2, <1>9, <2>1, ActsFor
<1>10. QED  BY <1>1, <1>2, <1>4, <1>5, <1>6, <1>7, <1>8, <1>9 DEF CallOrMove

\* The operators and functions that return a number change that number only.
LEMMA ReturnSteps ==
  ASSUME Sound(store), ReturnStep
  PROVE  CallOrMove
<1>1. PICK r \in Objects :
        \/ \E p \in Valid(store) :
             \/ \E x \in Operands : \/ Becomes(sum(store, r, p, x))
                                    \/ Becomes(difference(store, r, p, x))
                                    \/ Becomes(product(store, r, p, x))
             \/ \E x \in Divisors : \/ Becomes(quotient(store, r, p, x))
                                    \/ Becomes(remainder(store, r, p, x))
             \/ Becomes(absOf(store, r, p))
             \/ \E bits \in Bits, f \in {"minus", "left", "right"} :
                  Becomes(transformed(store, r, p, bits)[f])
             \/ \E n \in Longs : Becomes(longDifference(store, r, n, p))
        \/ \E p \in Valid(store) \cap Divisors, n \in Longs :
             \/ Becomes(longQuotient(store, r, n, p))
             \/ Becomes(longRemainder(store, r, n, p))
        \/ \E text \in Longs \cup {BadText}, n \in Unwritten :
             Becomes(parseString(store, r, text, n))
  BY DEF ReturnStep
<1>2. r \in Users
  BY Kinds
<1>3. Operands = Valid(store) \cup Longs /\ Divisors = {x \in Operands : Num(store, x) # 0}
  BY DEF Operands, Divisors
<1>4. \A p \in Valid(store) : p \in Objects /\ p \in Users /\ store.ptr[p] \in Items
  BY Kinds DEF Valid
<1>5. ASSUME NEW p \in Valid(store), NEW x \in Operands,
             \/ Becomes(sum(store, r, p, x))
             \/ Becomes(difference(store, r, p, x))
             \/ Becomes(product(store, r, p, x))
      PROVE  CallOn(r)
  <2>1. /\ Acts(store, sum(store, r, p, x), {r})
        /\ Acts(store, difference(store, r, p, x), {r})
        /\ Acts(store, product(store, r, p, x), {r})
    BY <1>2, <1>3, <1>4, ReturnActs
  <2>2. QED  BY <1>5, <2>1, ActsFor
<1>6. ASSUME NEW p \in Valid(store), NEW x \in Divisors,
             Becomes(quotient(store, r, p, x)) \/ Becomes(remainder(store, r, p, x))
      PROVE  CallOn(r)
  <2>1. Acts(store, quotient(store, r, p, x), {r}) /\ Acts(store, remainder(store, r, p, x), {r})
    BY <1>2, <1>3, <1>4, QuotientActs
  <2>2. QED  BY <1>6, <2>1, ActsFor
<1>7. ASSUME NEW p \in Valid(store), NEW bits \in Bits,
             NEW f \in {"minus", "left", "right"},
             Becomes(transformed(store, r, p, bits)[f])
      PROVE  CallOn(r)
  <2>1. Acts(store, transformed(store, r, p, bits)[f], {r})
    BY <1>2, <1>4, ReturnActs
  <2>2. QED  BY <1>7, <2>1, ActsFor
<1>8. ASSUME NEW p \in Valid(store), NEW n \in Longs, Becomes(longDifference(store, r, n, p))
      PROVE  CallOn(r)
  <2>1. Acts(store, longDifference(store, r, n, p), {r})
    BY <1>2, <1>4, ReturnActs
  <2>2. QED  BY <1>8, <2>1, ActsFor
<1>9. ASSUME NEW p \in Valid(store) \cap Divisors, NEW n \in Longs,
             Becomes(longQuotient(store, r, n, p)) \/ Becomes(longRemainder(store, r, n, p))
      PROVE  CallOn(r)
  <2>1. Value(store, p) # 0 /\ n \in Int
    BY <1>3, <1>4, ArgumentsAssumption DEF Num
  <2>2. /\ Acts(store, longQuotient(store, r, n, p), {r, Temporary})
        /\ Acts(store, longRemainder(store, r, n, p), {r, Temporary})
    BY <1>4, <2>1, LongQuotientActs
  <2>3. QED  BY <1>9, <2>2, ActsFor
<1>10. ASSUME NEW text \in Longs \cup {BadText}, NEW n \in Unwritten,
             Becomes(parseString(store, r, text, n))
      PROVE  CallOn(r)
  <2>1. (IF text = BadText THEN n ELSE text) \in Int
    BY UnwrittenInt, ArgumentsAssumption
  <2>2. Acts(store, parseString(store, r, text, n), {r})
    BY <1>2, <2>1, ReturnedActs DEF parseString, Returned
  <2>3. QED  BY <1>10, <2>2, ActsFor
<1>11. ASSUME NEW p \in Valid(store), Becomes(absOf(store, r, p))
       PROVE  CallOn(r)
  <2>1. Acts(store, absOf(store, r, p), {r})
    BY <1>2, <1>4, ReturnActs
  <2>2. QED  BY <1>11, <2>1, ActsFor
<1>12. QED  BY <1>1, <1>5, <1>6, <1>7, <1>8, <1>9, <1>10, <1>11 DEF CallOrMove

(***************************************************************************)
(* The theorems.                                                           *)
(***************************************************************************)

\* Every step keeps the store sound, and is a step of IndependentNumbers.
LEMMA Steps ==
  ASSUME Sound(store), [Next]_store
  PROVE  Sound(store') /\ [Independent!Next]_(Values(store))
<1>1. CASE Next
  <2>1. CallOrMove
    BY <1>1, ConstructSteps, AssignSteps, ModifySteps, ReturnSteps DEF Next
  <2>2. QED  BY <2>1, CallIs, MoveIs DEF CallOrMove, Independent!Next
<1>2. CASE store' = store
  <2>1. Values(store)' = Values(store)
    BY <1>2 DEF Values, Valid, Value
  <2>2. QED  BY <1>2, <2>1
<1>3. QED  BY <1>1, <1>2

\* The invariant holds when there are no numbers.
LEMMA StartsSound ==
  ASSUME Init
  PROVE  Sound(store) /\ Independent!Init
<1>1. store = EmptyStore
  BY DEF Init
<1>2. EmptyStore \in Stored(Int, Nat) /\ PoolUnused(EmptyStore)
  BY Kinds, EmptyStored
<1>3. /\ EmptyStore.ptr[Zero] = NoItem
      /\ \A o \in Objects : EmptyStore.ptr[o] = NoObject
  BY Kinds, OwnersAssumption, ConstantsAssumption DEF EmptyStore
<1>4. Sound(store)
  BY <1>1, <1>2, <1>3, ItemsAssumption DEF Sound, ZeroOK
<1>5. Independent!Init
  BY <1>1, <1>3, ItemsAssumption DEF Independent!Init, Values, Valid
<1>6. QED  BY <1>4, <1>5

\* The invariant that all theorems below rest on.
LEMMA StaysSound == Spec => []Sound(store)
<1>1. Init => Sound(store)
  BY StartsSound
<1>2. Sound(store) /\ [Next]_store => Sound(store)'
  BY Steps
<1>3. QED  BY <1>1, <1>2, PTL DEF Spec

\* No item is lost to the pool while an object holds it, and none is in the pool
\* twice, after any sequence of calls of the operators (releaseGmpIntData()).
THEOREM ItemsStayAccounted == Spec => []ItemsAccounted
<1>1. Sound(store) => ItemsAccounted
  BY DEF Sound, ItemsAccounted
<1>2. QED  BY <1>1, StaysSound, PTL

\* The zero that GmpInt's container holds, and that objects with the value 0
\* share, is never written to (GmpInt::set_0(), copyIfShared()).
THEOREM ZeroIsConstant == Spec => []ZeroStaysZero
<1>1. Sound(store) => ZeroStaysZero
  BY DEF Sound, ZeroOK, ZeroStaysZero
<1>2. QED  BY <1>1, StaysSound, PTL

\* GmpInt objects that share items behave as integers of their own: the storage
\* implements IndependentNumbers, for any number of objects and any integers.
THEOREM GmpIntsIndependent == Spec => ObjectsAreIndependent
<1>1. Init => Independent!Init
  BY StartsSound
<1>2. Sound(store) /\ [Next]_store => [Independent!Next]_(Values(store))
  BY Steps
<1>3. QED  BY <1>1, <1>2, StaysSound, PTL DEF Spec, ObjectsAreIndependent, Independent!Spec

\* Division and modulo obey the rules of C++ whatever the operands are and share:
\* all integers, an object divided by itself, a long divided by an object.
THEOREM DivisionIsCxx == Spec => []DividesAsCxx
<1>1. ASSUME Sound(store)
      PROVE  DividesAsCxx
  <2> SUFFICES ASSUME NEW p \in Valid(store), NEW x \in Divisors
               PROVE  LET n == Value(store, p)
                          d == Num(store, x)
                      IN  /\ IsQuotient(n, d, Value(divideBy(store, p, x), p))
                          /\ IsRemainder(n, d, Value(takeModulo(store, p, x), p))
                          /\ \A r \in Objects :
                               /\ IsQuotient(n, d, Value(quotient(store, r, p, x), r))
                               /\ IsRemainder(n, d, Value(remainder(store, r, p, x), r))
                          /\ x \notin Objects =>
                               /\ n # 0 => IsQuotient(x, n, Value(longQuotient(store, p, x, p), p))
                               /\ n # 0 => IsRemainder(x, n, Value(longRemainder(store, p, x, p), p))
    BY DEF DividesAsCxx
  <2>1. p \in Objects /\ p \in Users /\ store.ptr[p] \in Items
    BY Kinds DEF Valid
  <2>2. x \in Valid(store) \cup Longs /\ Num(store, x) # 0
    BY DEF Divisors, Operands
  <2>3. \A r \in Objects : r \in Users
    BY Kinds
  <2>4. /\ IsQuotient(Value(store, p), Num(store, x), Value(divideBy(store, p, x), p))
        /\ IsRemainder(Value(store, p), Num(store, x), Value(takeModulo(store, p, x), p))
    BY <1>1, <2>1, <2>2, DivideActs, ModuloActs
  <2>5. \A r \in Objects :
          /\ IsQuotient(Value(store, p), Num(store, x), Value(quotient(store, r, p, x), r))
          /\ IsRemainder(Value(store, p), Num(store, x), Value(remainder(store, r, p, x), r))
    BY <1>1, <2>1, <2>2, <2>3, QuotientActs
  <2>6. ASSUME x \notin Objects, Value(store, p) # 0
        PROVE  /\ IsQuotient(x, Value(store, p), Value(longQuotient(store, p, x, p), p))
               /\ IsRemainder(x, Value(store, p), Value(longRemainder(store, p, x, p), p))
    <3>1. x \in Int
      BY <2>2, <2>6, ArgumentsAssumption DEF Valid
    <3>2. QED  BY <1>1, <2>1, <2>6, <3>1, LongQuotientActs
  <2>7. QED  BY <2>4, <2>5, <2>6
<1>2. Sound(store) => DividesAsCxx
  BY <1>1
<1>3. QED  BY <1>2, StaysSound, PTL
================================================================================
