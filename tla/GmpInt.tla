-------------------------------- MODULE GmpInt --------------------------------
(***************************************************************************)
(* GmpInt objects: integers that share their storage (NumberStorage).      *)
(*                                                                         *)
(* Every operator of the class is a function from the store it is called   *)
(* in to the store it leaves, with the calls of the source in their order; *)
(* an operand is an object or a C++ long.  The library is used from one    *)
(* thread, as its documentation asks of this class, so that one call is    *)
(* one action.  GMP's functions are what its manual says they are.         *)
(***************************************************************************)
EXTENDS NumberStorage

CONSTANTS
  Zero,         (* mConst_0, the one constant of the container.            *)
  Longs,        (* The long and double arguments, the latter in halves.    *)
  Bits,         (* Shift counts.                                           *)
  DefaultBits,  (* gIntDefaultNumberOfBits: no more than a first size.     *)
  BadText,      (* A text that is no integer.                              *)
  MaxInteger    (* Bound on the integers of the model.                     *)

ASSUME ConstantsAssumption == Constants = {Zero}
ASSUME ArgumentsAssumption ==
  /\ Longs \subseteq Int /\ Bits \subseteq Nat
  /\ Blank = 0 /\ DefaultBits \in Nat
  /\ BadText \notin Longs /\ MaxInteger \in Nat
  /\ (Longs \cup {BadText}) \cap Owners = {}

VARIABLE store

(***************************************************************************)
(* Functions of GMP on integers.                                           *)
(***************************************************************************)
mpz_abs(n) == IF n < 0 THEN -n ELSE n

mpz_tdiv_q(n, d) ==
  LET q == mpz_abs(n) \div mpz_abs(d)
  IN IF (n < 0) = (d < 0) THEN q ELSE -q

mpz_mod(n, d) == n % mpz_abs(d)

(***************************************************************************)
(* Storage.                                                                *)
(***************************************************************************)

\* An operand: an object, or a number.
Num(s, x) == IF x \in Objects THEN Value(s, x) ELSE x

allocateGmpIntData(s, w) == Allocate(s, w, DefaultBits)

\* Mutant: an item of two holders is not yet shared.
CopyIfMoreThanTwo(s, o) ==
  IF UseCount(s, s.ptr[o]) > 2 THEN Write(allocateGmpIntData(s, o), o, Value(s, o))
  ELSE s

copyIfShared(s, o) ==
  IF UseCount(s, s.ptr[o]) > 1 THEN Write(allocateGmpIntData(s, o), o, Value(s, o))
  ELSE s

\* The container's zero is made when it is first asked for.
const_0(s) ==
  IF s.ptr[Zero] = NoItem THEN Write(allocateGmpIntData(s, Zero), Zero, 0) ELSE s

set_0(s, o) == LET t == const_0(s) IN Point(t, o, t.ptr[Zero])

(***************************************************************************)
(* Constructors, destructor, assignment.                                   *)
(***************************************************************************)

\* From a long, an unsigned long or an int.
Construct(s, o, n) ==
  IF n = 0 THEN set_0(s, o) ELSE Write(allocateGmpIntData(s, o), o, n)

\* From a double, given in halves: mpz_set_d() truncates.
ConstructDouble(s, o, halves) ==
  IF mpz_abs(halves) < 2 THEN set_0(s, o)
  ELSE Write(allocateGmpIntData(s, o), o, mpz_tdiv_q(halves, 2))

CopyConstruct(s, o, p) == Point(s, o, s.ptr[p])

MoveConstruct(s, o, p) == set_0(MoveTo(s, o, p), p)

Assign(s, o, p) == IF o = p THEN s ELSE Point(s, o, s.ptr[p])

MoveAssign(s, o, p) == MoveTo(s, o, p)

AssignLong(s, o, n) ==
  IF n = 0 THEN set_0(s, o) ELSE Write(resetIfShared(s, o, DefaultBits), o, n)

Destroy(s, o) == Point(s, o, NoObject)

(***************************************************************************)
(* Modifying operators and functions.                                      *)
(***************************************************************************)
addTo(s, o, x) ==
  LET t == copyIfShared(s, o)
  IN IF x \in Objects \/ x >= 0 THEN Write(t, o, Value(t, o) + Num(t, x))
     ELSE Write(t, o, Value(t, o) - (-x))

subtractFrom(s, o, x) ==
  LET t == copyIfShared(s, o)
  IN IF x \in Objects \/ x >= 0 THEN Write(t, o, Value(t, o) - Num(t, x))
     ELSE Write(t, o, Value(t, o) + (-x))

multiplyBy(s, o, x) ==
  LET t == copyIfShared(s, o) IN Write(t, o, Value(t, o) * Num(t, x))

negate(s, o) == LET t == copyIfShared(s, o) IN Write(t, o, -Value(t, o))

abs(s, o) == LET t == copyIfShared(s, o) IN Write(t, o, mpz_abs(Value(t, o)))

divideBy(s, o, x) ==
  LET t == copyIfShared(s, o)
      u == Write(t, o, -Value(t, o))
  IN IF x \in Objects \/ x >= 0 THEN Write(t, o, mpz_tdiv_q(Value(t, o), Num(t, x)))
     ELSE Write(u, o, mpz_tdiv_q(Value(u, o), -x))

\* Mutant: what mpz_mod() returns, which is never negative.
TakeModuloUnsigned(s, o, x) ==
  LET t == copyIfShared(s, o) IN Write(t, o, mpz_mod(Value(t, o), Num(t, x)))

takeModulo(s, o, x) ==
  LET Mod(t) == Write(t, o, mpz_mod(Value(t, o), Num(t, x)))
      t      == copyIfShared(s, o)
  IN IF Value(t, o) < 0 THEN negate(Mod(negate(t, o)), o) ELSE Mod(t)

shiftLeft(s, o, bits) ==
  LET t == copyIfShared(s, o) IN Write(t, o, Value(t, o) * 2^bits)

shiftRight(s, o, bits) ==
  LET t == copyIfShared(s, o) IN Write(t, o, mpz_tdiv_q(Value(t, o), 2^bits))

addProduct(s, o, p, x) ==
  LET t == copyIfShared(s, o) IN Write(t, o, Value(t, o) + Value(t, p) * Num(t, x))

subProduct(s, o, p, x) ==
  LET t == copyIfShared(s, o) IN Write(t, o, Value(t, o) - Value(t, p) * Num(t, x))

\* What an item holds that was allocated and not written: 0, or what it held in
\* its last life.
Unwritten == IF ReuseItems THEN Longs ELSE {0}

\* Either form of parseValue().  mpz_set_str() leaves the number alone when the
\* text is no integer: o keeps its number if its item was not shared, and gets
\* an item with the number n otherwise.
parseValue(s, o, text, n) ==
  LET t == resetIfShared(s, o, DefaultBits)
  IN IF text # BadText THEN Write(t, o, text)
     ELSE IF t.ptr[o] = s.ptr[o] THEN t ELSE Write(t, o, n)

(***************************************************************************)
(* Operators that return a new object, here the object r: the caller's     *)
(* variable, which is constructed or move-assigned from the result.        *)
(***************************************************************************)

\* GmpInt retval(kNoInitialization) with n written to it is returned to r: it
\* is complete before the object that r was is released.
Returned(s, r, n) == Write(allocateGmpIntData(s, r), r, n)

sum(s, r, p, x) ==
  IF x \in Objects \/ x >= 0 THEN Returned(s, r, Value(s, p) + Num(s, x))
  ELSE Returned(s, r, Value(s, p) - (-x))

difference(s, r, p, x) ==
  IF x \in Objects \/ x >= 0 THEN Returned(s, r, Value(s, p) - Num(s, x))
  ELSE Returned(s, r, Value(s, p) + (-x))

product(s, r, p, x) == Returned(s, r, Value(s, p) * Num(s, x))

quotient(s, r, p, x) ==
  IF x \in Objects \/ x >= 0 THEN Returned(s, r, mpz_tdiv_q(Value(s, p), Num(s, x)))
  ELSE Returned(s, r, mpz_tdiv_q(-Value(s, p), -x))

remainder(s, r, p, x) ==
  IF Value(s, p) < 0 THEN Returned(s, r, -mpz_mod(-Value(s, p), Num(s, x)))
  ELSE Returned(s, r, mpz_mod(Value(s, p), Num(s, x)))

\* abs(value).
absOf(s, r, p) == Returned(s, r, mpz_abs(Value(s, p)))

\* operator-() and the shifts.
transformed(s, r, p, bits) ==
  [minus |-> Returned(s, r, -Value(s, p)),
   left  |-> Returned(s, r, Value(s, p) * 2^bits),
   right |-> Returned(s, r, mpz_tdiv_q(Value(s, p), 2^bits))]

\* The operators whose left operand is a long.
longDifference(s, r, n, p) ==
  IF n >= 0 THEN Returned(s, r, n - Value(s, p))
  ELSE Returned(s, r, -(Value(s, p) + (-n)))

longQuotient(s, r, n, p) ==
  Destroy(quotient(Construct(s, Temporary, n), r, Temporary, p), Temporary)

longRemainder(s, r, n, p) ==
  Destroy(remainder(Construct(s, Temporary, n), r, Temporary, p), Temporary)

parseString(s, r, text, n) == Returned(s, r, IF text = BadText THEN n ELSE text)

\* The comparison operators.
compare(s, p, x) ==
  LET d == Value(s, p) - Num(s, x)
  IN [lt |-> d < 0, le |-> d <= 0, gt |-> d > 0, ge |-> d >= 0, eq |-> d = 0, ne |-> d # 0]

(***************************************************************************)
(* The specification: any calls, in any order.                             *)
(***************************************************************************)
Init == store = EmptyStore

Becomes(s) ==
  /\ \A d \in Items : mpz_abs(s.num[d]) <= MaxInteger
  /\ store' = s

Existing == {o \in Objects : store.ptr[o] # NoObject}

Operands == Valid(store) \cup Longs

\* What may divide: GMP stops the program when it divides by 0.
Divisors == {x \in Operands : Num(store, x) # 0}

ConstructStep ==
  \E o \in Objects \ Existing :
    \/ \E n \in Longs : \/ Becomes(Construct(store, o, n))
                        \/ Becomes(ConstructDouble(store, o, n))
    \/ \E p \in Valid(store) : \/ Becomes(CopyConstruct(store, o, p))
                               \/ Becomes(MoveConstruct(store, o, p))

\* An object that was moved from holds nothing: it may be destroyed and assigned
\* another object, but its operators would follow a null pointer.
AssignStep ==
  \E o \in Existing :
    \/ \E p \in Valid(store) : \/ Becomes(Assign(store, o, p))
                               \/ Becomes(MoveAssign(store, o, p))
    \/ \E n \in Longs : /\ o \in Valid(store) \/ n = 0
                        /\ Becomes(AssignLong(store, o, n))
    \/ Becomes(Destroy(store, o))

ModifyStep ==
  \E o \in Valid(store) :
    \/ \E x \in Operands : \/ Becomes(addTo(store, o, x))
                           \/ Becomes(subtractFrom(store, o, x))
                           \/ Becomes(multiplyBy(store, o, x))
    \/ \E x \in Divisors : \/ Becomes(divideBy(store, o, x))
                           \/ Becomes(takeModulo(store, o, x))
    \/ \E bits \in Bits : \/ Becomes(shiftLeft(store, o, bits))
                           \/ Becomes(shiftRight(store, o, bits))
    \/ \E p \in Valid(store), x \in Valid(store) \cup (Longs \cap Nat) :
         \/ Becomes(addProduct(store, o, p, x))
         \/ Becomes(subProduct(store, o, p, x))
    \/ Becomes(negate(store, o))
    \/ Becomes(abs(store, o))
    \/ \E text \in Longs \cup {BadText}, n \in Unwritten :
         Becomes(parseValue(store, o, text, n))

ReturnStep ==
  \E r \in Objects :
    \/ \E p \in Valid(store) :
         \/ \E x \in Operands : \/ Becomes(sum(store, r, p, x))
                                \/ Becomes(difference(store, r, p, x))
                                \/ Becomes(product(store, r, p, x))
         \/ \E x \in Divisors : \/ Becomes(quotient(store, r, p, x))
                                \/ Becomes(remainder(store, r, p, x))
         \/ Becomes(absOf(store, r, p))
         \/ \E bits \in Bits, f \in {"minus", "left", "right"} :
              Becomes(transformed(store, r, p, bits)[f])
         \/ \E n \in Longs : Becomes(longDifference(store, r, n, p))
    \/ \E p \in Valid(store) \cap Divisors, n \in Longs :
         \/ Becomes(longQuotient(store, r, n, p))
         \/ Becomes(longRemainder(store, r, n, p))
    \/ \E text \in Longs \cup {BadText}, n \in Unwritten :
         Becomes(parseString(store, r, text, n))

Next == ConstructStep \/ AssignStep \/ ModifyStep \/ ReturnStep

Spec == Init /\ [][Next]_store

(***************************************************************************)
(* Properties.                                                             *)
(***************************************************************************)

\* Objects that share an item are independent: each call changes the value of
\* its own object only, and a move takes the value of the other.  (The item of
\* another object is never written, GmpInt::copyIfShared().)
Independent == INSTANCE IndependentNumbers WITH value <- Values(store)

ObjectsAreIndependent == Independent!Spec

\* An item is in use, in the pool or free, and never two of these.
ItemsAccounted == PoolUnused(store)

\* The zero that all zero-initialized objects share stays zero, whatever is done
\* to them.
ZeroStaysZero == store.ptr[Zero] # NoItem => Value(store, Zero) = 0

\* The rules of C++ for n / d and n % d: the remainder has the sign of n.
IsQuotient(n, d, q) ==
  LET r == n - q * d
  IN mpz_abs(r) < mpz_abs(d) /\ (r = 0 \/ (r < 0) = (n < 0))

IsRemainder(n, d, r) ==
  \E q \in -mpz_abs(n)..mpz_abs(n) : IsQuotient(n, d, q) /\ r = n - q * d

\* Division and modulo give what C++ integers give, for every sign of the
\* operands, whichever of them share an item or are the same object, in place or
\* into a new object.  (operator/=, operator%=, operator/ and operator%.)
DividesAsCxx ==
  \A p \in Valid(store), x \in Divisors :
    LET n == Value(store, p)  d == Num(store, x)
    IN /\ IsQuotient(n, d, Value(divideBy(store, p, x), p))
       /\ IsRemainder(n, d, Value(takeModulo(store, p, x), p))
       /\ \A r \in Objects : /\ IsQuotient(n, d, Value(quotient(store, r, p, x), r))
                             /\ IsRemainder(n, d, Value(remainder(store, r, p, x), r))
       /\ x \notin Objects => /\ n # 0 =>
                                  IsQuotient(x, n, Value(longQuotient(store, p, x, p), p))
                              /\ n # 0 =>
                                  IsRemainder(x, n, Value(longRemainder(store, p, x, p), p))
==============================================================================
