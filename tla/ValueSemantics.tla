---------------------------- MODULE ValueSemantics ----------------------------
(***************************************************************************)
(* What a user may rely on when FunctionParser objects are copied: each    *)
(* object has a value of its own.  A copy or an assignment copies the      *)
(* value, and a call on an object changes the value of that object only.   *)
(***************************************************************************)
CONSTANTS
  Parsers,             (* Addresses of FunctionParser objects.             *)
  NewValue,            (* The value of a new object.                       *)
  CallGives(_, _, _)   (* CallGives(V, p, v): where the objects have the   *)
                       (* values V, some call on p gives it the value v.   *)

VARIABLES
  objects,    (* The addresses at which an object exists.                  *)
  val         (* The value of each object; NewValue where none exists.     *)

Becomes(p, v) == val' = [val EXCEPT ![p] = v]

Init ==
  /\ objects = {}
  /\ val = [p \in Parsers |-> NewValue]

Create(p) ==
  /\ p \notin objects
  /\ objects' = objects \cup {p}
  /\ Becomes(p, NewValue)

\* Copy construction and assignment.
Copy(p, q) ==
  /\ q \in objects
  /\ objects' = objects \cup {p}
  /\ Becomes(p, val[q])

Delete(p) ==
  /\ p \in objects
  /\ objects' = objects \ {p}
  /\ Becomes(p, NewValue)

Call(p) ==
  /\ p \in objects
  /\ UNCHANGED objects
  /\ Becomes(p, val'[p])
  /\ CallGives(val, p, val'[p])

Next ==
  \E p \in Parsers :
    \/ Create(p)
    \/ Delete(p)
    \/ \E q \in Parsers : Copy(p, q)
    \/ Call(p)

Spec == Init /\ [][Next]_<<objects, val>>
==============================================================================
