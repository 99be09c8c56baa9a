-------------------------- MODULE IndependentNumbers --------------------------
(***************************************************************************)
(* What a user may rely on when number objects are copied: each object has *)
(* a value of its own, which only a call on that object changes.           *)
(***************************************************************************)
CONSTANTS
  Objects,      (* Addresses of objects.                                   *)
  NoItem,       (* The value of an object that was moved from.             *)
  NoObject      (* The value where no object exists.                       *)

VARIABLE value

Init == value = [o \in Objects |-> NoObject]

\* A call on o: construction, destruction, assignment, an operation.
Call(o) == value' = [value EXCEPT ![o] = value'[o]]

\* o takes the value of p, and leaves p with some other, if any.
Move(o, p) ==
  /\ value[p] \notin {NoItem, NoObject}
  /\ value' = [value EXCEPT ![o] = value[p], ![p] = value'[p]]

Next == \E o \in Objects : Call(o) \/ \E p \in Objects : Move(o, p)

Spec == Init /\ [][Next]_value
==============================================================================
