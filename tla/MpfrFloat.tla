------------------------------ MODULE MpfrFloat ------------------------------
(***************************************************************************)
(* MpfrFloat objects: numbers of a chosen precision that share their       *)
(* storage (NumberStorage), and the constants that their container caches. *)
(*                                                                         *)
(* An item is initialized with the default precision of that moment and    *)
(* keeps it; every MPFR function rounds its result to the precision of the *)
(* item it writes.  The numbers of the model are integers, a precision is  *)
(* their number of significant bits.  The model is of the build without    *)
(* THREAD_SAFETY: the documentation says that this class has no other use. *)
(***************************************************************************)
EXTENDS NumberStorage

CONSTANTS
  Zero, Log2, Log2Inv, Epsilon,   (* mConst_0, mConst_log2 (in the place   *)
                (* of pi, e and log10, too), mConst_log2inv (computed from *)
                (* another constant, as log10inv is) and mConst_epsilon.   *)
  ExactLog2,    (* What mpfr_const_log2() rounds.                          *)
  Reciprocal(_),(* What mpfr_div() rounds for the inverse of a number.     *)
  ExactEpsilon(_),   (* The power of 2 that is epsilon for a precision.    *)
  Precisions,   (* The arguments of setDefaultMantissaBits().              *)
  InitialBits,  (* mDefaultPrecision at the start, 256 in the source.      *)
  Operations,   (* Some of the operators "add", "sub" and "mul".           *)
  Longs,        (* Arguments of the types long, int, double.               *)
  Kept          (* Bound: the numbers that objects have in the model.      *)

ASSUME ConstantsAssumption ==
  /\ Constants = {Zero, Log2, Log2Inv, Epsilon}
  /\ Zero \notin {Log2, Log2Inv, Epsilon} /\ Log2 \notin {Log2Inv, Epsilon}
  /\ Log2Inv # Epsilon
ASSUME PrecisionAssumption == Precisions \subseteq Nat \ {0} /\ InitialBits \in Precisions
ASSUME ArgumentsAssumption ==
  /\ Operations \subseteq {"add", "sub", "mul"}
  /\ Longs \subseteq Int /\ Blank \in Int /\ Longs \cap Owners = {}

VARIABLES
  store,        (* The items and who holds them.                           *)
  mDefaultPrecision

vars == <<store, mDefaultPrecision>>

(***************************************************************************)
(* Functions of MPFR.                                                      *)
(***************************************************************************)
Magnitude(n) == IF n < 0 THEN -n ELSE n

\* The weight of the last of the significant bits of n.
Ulp(n, bits) == 2^Min({k \in 0..Magnitude(n) : Magnitude(n) < 2^(k + bits)})

\* Rounding to nearest, and to even in the middle (MPFR_RNDN).
Round(n, bits) ==
  LET u == Ulp(n, bits)
      q == Magnitude(n) \div u
      r == 2 * (Magnitude(n) % u)
      m == u * (IF r > u \/ (r = u /\ q % 2 = 1) THEN q + 1 ELSE q)
  IN IF n < 0 THEN -m ELSE m

\* The constants are numbers, whatever the size of the items they are put in.
ASSUME ExactAssumption ==
  /\ ExactLog2 \in Int
  /\ \A bits \in Precisions : ExactEpsilon(bits) \in Int
  /\ \A bits \in Precisions \cup {0} : Reciprocal(Round(ExactLog2, bits)) \in Int

\* A function of MPFR writes n to the item of o.
Put(s, o, n) == Write(s, o, Round(n, s.bits[s.ptr[o]]))

(***************************************************************************)
(* Storage.                                                                *)
(***************************************************************************)
Num(s, x) == IF x \in Objects THEN Value(s, x) ELSE x

allocateMpfrFloatData(s, w) == Allocate(s, w, mDefaultPrecision)

\* Mutant: an item of two holders is not yet shared.
CopyIfMoreThanTwo(s, o) ==
  IF UseCount(s, s.ptr[o]) > 2 THEN Put(allocateMpfrFloatData(s, o), o, Value(s, o))
  ELSE s

copyIfShared(s, o) ==
  IF UseCount(s, s.ptr[o]) > 1 THEN Put(allocateMpfrFloatData(s, o), o, Value(s, o))
  ELSE s

\* make_const() of a constant with the exact value n.
make_const(s, c, n) ==
  IF s.ptr[c] = NoItem THEN Put(allocateMpfrFloatData(s, c), c, n) ELSE s

const_0(s) == make_const(s, Zero, 0)

const_log2(s) == make_const(s, Log2, ExactLog2)

\* The new item is allocated before recalculate_log2inv() asks for log2.
const_log2inv(s) ==
  LET t == IF s.ptr[Log2Inv] = NoItem THEN allocateMpfrFloatData(s, Temporary) ELSE s
      u == const_log2(t)
  IN IF s.ptr[Log2Inv] # NoItem THEN s
     ELSE [MoveTo(Put(u, Temporary, Reciprocal(Value(u, Log2))), Log2Inv, Temporary)
             EXCEPT !.ptr[Temporary] = NoObject]

const_epsilon(s) == make_const(s, Epsilon, ExactEpsilon(mDefaultPrecision))

cached(s) == [c \in Constants |->
  CASE c = Zero    -> const_0(s)
    [] c = Log2    -> const_log2(s)
    [] c = Log2Inv -> const_log2inv(s)
    [] c = Epsilon -> const_epsilon(s)]

\* Mutant: the constants that exist take the new precision.
RecalculateResized(s, bits) ==
  LET Again(t, c, n) == IF t.ptr[c] = NoItem THEN t
                        ELSE Put([t EXCEPT !.bits[t.ptr[c]] = bits], c, n)
      t1 == Again(s, Log2, ExactLog2)
      t2 == IF t1.ptr[Log2Inv] = NoItem THEN t1
            ELSE Again(t1, Log2Inv, Reciprocal(Value(t1, Log2)))
  IN Again(t2, Epsilon, ExactEpsilon(bits))

\* The constants that exist are computed again, each in the item it has.
recalculate(s, bits) ==
  LET Again(t, c, n) == IF t.ptr[c] = NoItem THEN t ELSE Put(t, c, n)
      t1 == Again(s, Log2, ExactLog2)
      t2 == IF t1.ptr[Log2Inv] = NoItem THEN t1
            ELSE Again(t1, Log2Inv, Reciprocal(Value(t1, Log2)))
  IN Again(t2, Epsilon, ExactEpsilon(bits))

set_0(s, o) == LET t == const_0(s) IN Point(t, o, t.ptr[Zero])

(***************************************************************************)
(* Constructors, destructor, assignment, parsing.                          *)
(***************************************************************************)
Construct(s, o, n) ==
  IF n = 0 THEN set_0(s, o) ELSE Put(allocateMpfrFloatData(s, o), o, n)

CopyConstruct(s, o, p) == Point(s, o, s.ptr[p])

MoveConstruct(s, o, p) == set_0(MoveTo(s, o, p), p)

Assign(s, o, p) == IF o = p THEN s ELSE Point(s, o, s.ptr[p])

MoveAssign(s, o, p) == MoveTo(s, o, p)

AssignNumber(s, o, n) ==
  IF n = 0 THEN set_0(s, o) ELSE Put(resetIfShared(s, o, mDefaultPrecision), o, n)

parseValue(s, o, n) == Put(resetIfShared(s, o, mDefaultPrecision), o, n)

Destroy(s, o) == Point(s, o, NoObject)

\* MpfrFloat(shared_ptr&&): an object that shares a cached constant is returned.
FromConstant(s, r, c) == LET t == cached(s)[c] IN Point(t, r, t.ptr[c])

(***************************************************************************)
(* Operators and functions.                                                *)
(***************************************************************************)
Exact(f, n, m) ==
  CASE f = "add" -> n + m
    [] f = "sub" -> n - m
    [] f = "mul" -> n * m

\* operator+= and the others, whose operand is an object or a number.
inPlace(s, o, f, x) ==
  LET t == copyIfShared(s, o) IN Put(t, o, Exact(f, Value(t, o), Num(t, x)))

\* Mutant: the sign is changed where it is.
NegateShared(s, o) == Put(s, o, -Value(s, o))

negate(s, o) == LET t == copyIfShared(s, o) IN Put(t, o, -Value(t, o))

abs(s, o) == LET t == copyIfShared(s, o) IN Put(t, o, Magnitude(Value(t, o)))

\* MpfrFloat retval(kNoInitialization), written and returned to r.
Returned(s, r, n) == Put(allocateMpfrFloatData(s, r), r, n)

operator(s, r, f, p, x) == Returned(s, r, Exact(f, Value(s, p), Num(s, x)))

\* The operators whose left operand is a long.
longOperator(s, r, f, n, p) == Returned(s, r, Exact(f, n, Value(s, p)))

\* Static functions of one number, and of several.
function1(s, r, f, p) ==
  Returned(s, r, IF f = "abs" THEN Magnitude(Value(s, p)) ELSE -Value(s, p))

fma(s, r, p, q, t) == Returned(s, r, Value(s, p) * Value(s, q) + Value(s, t))

\* sincos() and sinhcosh() write two objects; "sin" and "cos" stand for them.
sincos(s, p, o, q) ==
  LET t == copyIfShared(copyIfShared(s, o), q)
      n == Value(t, p)
  IN Put(Put(t, o, n), q, 1 - n)

(***************************************************************************)
(* The specification: any calls, in any order.                             *)
(***************************************************************************)
Init == store = EmptyStore /\ mDefaultPrecision = InitialBits

Becomes(s) ==
  /\ \A d \in Items : s.num[d] \in Kept
  /\ store' = s
  /\ UNCHANGED mDefaultPrecision

Existing == {o \in Objects : store.ptr[o] # NoObject}

Operands == Valid(store) \cup Longs

ConstructStep ==
  \E o \in Objects \ Existing :
    \/ \E n \in Longs : Becomes(Construct(store, o, n))
    \/ \E p \in Valid(store) : \/ Becomes(CopyConstruct(store, o, p))
                               \/ Becomes(MoveConstruct(store, o, p))

AssignStep ==
  \E o \in Existing :
    \/ \E p \in Valid(store) : \/ Becomes(Assign(store, o, p))
                               \/ Becomes(MoveAssign(store, o, p))
    \/ \E n \in Longs : /\ o \in Valid(store) \/ n = 0
                        /\ Becomes(AssignNumber(store, o, n))
    \/ Becomes(Destroy(store, o))

ModifyStep ==
  \E o \in Valid(store) :
    \/ \E x \in Operands, f \in Operations : Becomes(inPlace(store, o, f, x))
    \/ Becomes(negate(store, o))
    \/ Becomes(abs(store, o))
    \/ \E n \in Longs : Becomes(parseValue(store, o, n))
    \/ \E p, q \in Valid(store) : q # o /\ Becomes(sincos(store, p, o, q))

ReturnStep ==
  \E r \in Objects :
    \/ \E p \in Valid(store) :
         \/ \E x \in Operands, f \in Operations :
              Becomes(operator(store, r, f, p, x))
         \/ \E n \in Longs, f \in Operations :
              Becomes(longOperator(store, r, f, n, p))
         \/ \E f \in {"abs", "neg"} : Becomes(function1(store, r, f, p))
         \/ \E q, t \in Valid(store) : Becomes(fma(store, r, p, q, t))
    \/ \E c \in Constants \ {Zero} : Becomes(FromConstant(store, r, c))

setDefaultMantissaBits ==
  \E bits \in Precisions \ {mDefaultPrecision} :
    /\ mDefaultPrecision' = bits
    /\ store' = recalculate(store, bits)

Next ==
  \/ ConstructStep \/ AssignStep \/ ModifyStep \/ ReturnStep
  \/ setDefaultMantissaBits

Spec == Init /\ [][Next]_vars

(***************************************************************************)
(* Properties.                                                             *)
(***************************************************************************)
Independent == INSTANCE IndependentNumbers WITH value <- Values(store)

\* While the default precision stands, a call changes the value of its own
\* objects only, although they share items with others.
ObjectsAreIndependent ==
  [][mDefaultPrecision' = mDefaultPrecision =>
       \/ Independent!Next
       \/ \E p, o, q \in Valid(store) : store' = sincos(store, p, o, q)]_vars

\* setDefaultMantissaBits() writes the items of the constants, which objects
\* share: but for epsilon it writes what they hold.
PrecisionKeepsNumbers ==
  [][mDefaultPrecision' # mDefaultPrecision =>
       \A o \in Objects : \/ Values(store)'[o] = Values(store)[o]
                          \/ store.ptr[o] = store.ptr[Epsilon]]_vars

\* No call on an object that shares a cached constant changes the constant.
ConstantsIntact ==
  \A c \in Constants : store.ptr[c] # NoItem =>
    Value(store, c) =
      Round(CASE c = Zero    -> 0
              [] c = Log2    -> ExactLog2
              [] c = Log2Inv -> Reciprocal(Value(store, Log2))
              [] c = Epsilon -> ExactEpsilon(mDefaultPrecision),
            store.bits[store.ptr[c]])
==============================================================================
