---------------------------- MODULE NumberStorage ----------------------------
(***************************************************************************)
(* Numbers that share their storage, as GmpInt and MpfrFloat keep it.      *)
(*                                                                         *)
(* An object holds a std::shared_ptr to an item, which holds the number.   *)
(* Copies share the item; an operation that changes an object first gives  *)
(* it an item of its own.  The container of a class holds shared_ptrs too, *)
(* to the items of its constants.  An item that nobody holds is cleared,   *)
(* or, in a build with REUSE_ITEMS, kept in released_items to be reused.   *)
(*                                                                         *)
(* The operators take and return a store, so that a handler of several     *)
(* calls is written as their composition:                                  *)
(*   store.ptr    the item each shared_ptr holds;                          *)
(*   store.num    the number in each item;                                 *)
(*   store.bits   the size with which the item was initialized;            *)
(*   store.pool   released_items.                                          *)
(***************************************************************************)
EXTENDS Integers, SequencesExt

CONSTANTS
  Objects,      (* Addresses of objects.                                   *)
  Constants,    (* The container's shared_ptrs, mConst_0 and the others.   *)
  Temporary,    (* An unnamed object that a call makes and destroys.       *)
  Items,        (* Addresses of items.                                     *)
  NoItem,       (* A null shared_ptr.                                      *)
  NoObject,     (* In the place of a shared_ptr where no object exists.    *)
  Blank,        (* The number in an item that was never written.           *)
  ReuseItems    (* Whether REUSE_ITEMS is defined.                         *)

Owners == Objects \cup Constants \cup {Temporary}

ASSUME OwnersAssumption ==
  /\ Objects \cap Constants = {} /\ Temporary \notin Objects \cup Constants
  /\ IsFiniteSet(Owners)
ASSUME ItemsAssumption ==
  /\ IsFiniteSet(Items)
  /\ Cardinality(Items) > Cardinality(Owners)
  /\ {NoItem, NoObject} \cap Items = {}
  /\ NoItem # NoObject
  /\ NoItem \notin Int /\ NoObject \notin Int
ASSUME ReuseAssumption == ReuseItems \in BOOLEAN

\* shared_ptr::use_count().
UseCount(s, d) == Cardinality({w \in Owners : s.ptr[w] = d})

InUse(s) == {d \in Items : \E w \in Owners : s.ptr[w] = d}

\* An item that is neither in use nor in the pool.
Untouched(s) == CHOOSE d \in Items : d \notin InUse(s) /\ d \notin ToSet(s.pool)

\* The objects that exist and hold a number.
Valid(s) == {o \in Objects : s.ptr[o] \in Items}

Value(s, o) == s.num[s.ptr[o]]

\* The numbers as the owner of the objects sees them.
Values(s) == [o \in Objects |-> IF o \in Valid(s) THEN Value(s, o) ELSE s.ptr[o]]

\* The store before the first object is made.
EmptyStore ==
  [ptr  |-> [w \in Owners |-> IF w \in Constants THEN NoItem ELSE NoObject],
   num  |-> [d \in Items |-> Blank],
   bits |-> [d \in Items |-> 0],
   pool |-> <<>>]

\* The last holder of item d is gone.  The model forgets its number, so that
\* equal stores are equal: who reads a reused item before writing to it has to
\* expect any number.  What is reused keeps its size.
Release(s, d) ==
  IF ReuseItems THEN [s EXCEPT !.num[d] = Blank, !.pool = Append(@, d)]
  ELSE [s EXCEPT !.num[d] = Blank, !.bits[d] = 0]

\* The shared_ptr w takes the item d; the one it held may lose its last holder.
Point(s, w, d) ==
  LET t   == [s EXCEPT !.ptr[w] = d]
      old == s.ptr[w]
  IN IF old \in Items /\ UseCount(t, old) = 0 THEN Release(t, old) ELSE t

\* Mutant: the reused item stays in the pool.
AllocateKeeping(s, w, bits) ==
  IF s.pool # <<>> THEN Point(s, w, Last(s.pool))
  ELSE LET d == Untouched(s) IN Point([s EXCEPT !.bits[d] = bits], w, d)

\* A new item for w, from the pool if there is one.
Allocate(s, w, bits) ==
  IF s.pool # <<>> THEN Point([s EXCEPT !.pool = Front(@)], w, Last(s.pool))
  ELSE LET d == Untouched(s) IN Point([s EXCEPT !.bits[d] = bits], w, d)

\* The mpz_ or mpfr_ function that writes the number of o.
Write(s, o, n) == [s EXCEPT !.num[s.ptr[o]] = n]

\* Mutant: the shared item is written to.
ResetNothing(s, o, bits) == s

resetIfShared(s, o, bits) ==
  IF UseCount(s, s.ptr[o]) > 1 THEN Allocate(s, o, bits) ELSE s

\* The object o is moved to the variable r: constructed, or assigned.
MoveTo(s, r, o) ==
  IF o = r THEN s ELSE [Point(s, r, s.ptr[o]) EXCEPT !.ptr[o] = NoItem]

\* The store up to the addresses of items, which no call looks at: who shares
\* with whom, what the items hold and how many wait in the pool.
Sharing(s) ==
  <<[w \in Owners |->
       IF s.ptr[w] \in Items
       THEN <<{v \in Owners : s.ptr[v] = s.ptr[w]}, s.num[s.ptr[w]], s.bits[s.ptr[w]]>>
       ELSE s.ptr[w]],
    [i \in DOMAIN s.pool |-> s.bits[s.pool[i]]]>>

(***************************************************************************)
(* What the store promises.                                                *)
(***************************************************************************)

\* An item is in the pool once, and only when nothing holds it; and a pool
\* exists in a build with REUSE_ITEMS only.  (releaseGmpIntData())
PoolUnused(s) ==
  /\ InUse(s) \cap ToSet(s.pool) = {}
  /\ IsInjective(s.pool)
  /\ ~ReuseItems => s.pool = <<>>
==============================================================================
