------------------------------- MODULE CodeTree -------------------------------
(***************************************************************************)
(* The optimizer's trees as they lie in memory (codetree.hh, autoptr.hh).  *)
(*                                                                         *)
(* A CodeTree is a handle: an FPOPT_autoptr to a node, whose Params are    *)
(* handles in their turn.  Copies of a handle share the node, so that      *)
(* trees are really graphs; a node counts the handles that refer to it     *)
(* and dies with the last one.  None of the functions that change a node   *)
(* copies it first: that is up to the callers (CopyOnWrite, GetUniqueRef). *)
(*                                                                         *)
(* The operators take and return a heap, so that a function of several     *)
(* calls is written as their composition:                                  *)
(*   heap.node    the CodeTreeData at each address;                        *)
(*   heap.ptr     the node that each handle outside the nodes refers to.   *)
(* A place is a handle: one of those, or <<n, i>>, the i-th of node n.     *)
(***************************************************************************)
EXTENDS Integers, SequencesExt

CONSTANTS
  Objects,      (* Addresses of CodeTree objects of the callers.           *)
  Nodes,        (* Addresses of CodeTreeData.                              *)
  NoNode,       (* A null autoptr.                                         *)
  tmp, holder, mul, func, p2
                (* Variables of the functions that are modelled, and their *)
                (* temporaries.                                            *)

Locals == {tmp, holder, mul, func, p2}

Handles == Objects \cup Locals

ASSUME NodesAssumption == Nodes \subseteq Nat /\ IsFiniteSet(Nodes) /\ NoNode \notin Nodes
ASSUME ObjectsAssumption == IsFiniteSet(Objects) /\ Objects \cap Locals = {}
ASSUME LocalsAssumption == Cardinality(Locals) = 5
ASSUME HandlesAssumption == Handles \cap (Nodes \X Nat) = {}

\* CodeTreeData: Value stands for Value and Var_or_Funcno.
Data(opcode, value, params) ==
  [RefCount |-> 0, Opcode |-> opcode, Value |-> value, Params |-> params]

\* Memory that is not in use.
Deleted == Data("deleted", 0, <<>>)

Nop == Data("cNop", 0, <<>>)

Live(h) == {n \in Nodes : h.node[n] # Deleted}

\* Whether there is memory for k more nodes.
Room(h, k) == Cardinality(Nodes \ Live(h)) >= k

\* Where operator new puts the next node.
Fresh(h) == Min(Nodes \ Live(h))

\* Handles outside the nodes, and those in them.
Slots(h) == UNION {{n} \X DOMAIN h.node[n].Params : n \in Nodes}

Places(h) == Handles \cup Slots(h)

At(h, s) == IF s \in Handles THEN h.ptr[s] ELSE h.node[s[1]].Params[s[2]]

data(h, s) == h.node[At(h, s)]

Param(h, s, i) == <<At(h, s), i>>

Params(h, s) == data(h, s).Params

\* How often n is in l.
Times(l, n) == Cardinality({i \in DOMAIN l : l[i] = n})

(***************************************************************************)
(* FPOPT_autoptr.                                                          *)
(***************************************************************************)
Point(h, s, n) ==
  IF s \in Handles THEN [h EXCEPT !.ptr[s] = n]
  ELSE [h EXCEPT !.node[s[1]].Params[s[2]] = n]

Reserve(h, n) == [h EXCEPT !.node[n].RefCount = @ + 1]

\* A vector of handles is copied.
ReserveAll(h, l) ==
  [h EXCEPT !.node = [n \in Nodes |-> [h.node[n] EXCEPT !.RefCount = @ + Times(l, n)]]]

\* The first of the pending releases.  The last claim to a node deletes it, which
\* releases its parameters before anything else.
ReleaseNext(x) ==
  LET n == Head(x.pending)
      d == x.heap.node[n]
  IN IF d.RefCount > 1
     THEN [heap |-> [x.heap EXCEPT !.node[n].RefCount = @ - 1], pending |-> Tail(x.pending)]
     ELSE [heap |-> [x.heap EXCEPT !.node[n] = Deleted], pending |-> d.Params \o Tail(x.pending)]

\* Releases l[1], l[2] ...: as many releases as there are handles to release.
ReleaseAll(h, l) ==
  LET enough == Cardinality(Slots(h)) + Len(l)
      after[k \in 0..enough] ==
        IF k = 0 THEN [heap |-> h, pending |-> l]
        ELSE LET x == after[k - 1] IN IF x.pending = <<>> THEN x ELSE ReleaseNext(x)
  IN after[enough].heap

Release(h, n) == IF n = NoNode THEN h ELSE ReleaseAll(h, <<n>>)

\* Mutant: the old node is released first.
ChangeToReleased(h, s, n) == Point(Reserve(Release(h, At(h, s)), n), s, n)

\* The new node is claimed before the old one, which may hold it, is released.
ChangeTo(h, s, n) == Point(Release(Reserve(h, n), At(h, s)), s, n)

Swap(h, s, t) == Point(Point(h, s, At(h, t)), t, At(h, s))

\* The end of a handle's life.
Drop(h, s) == [Release(h, At(h, s)) EXCEPT !.ptr[s] = NoNode]

(***************************************************************************)
(* CodeTree: construction and copying of nodes.                            *)
(***************************************************************************)

\* data = new CodeTreeData(d): the constructors, ReplaceWithImmed().
Construct(h, s, d) == ChangeTo([h EXCEPT !.node[Fresh(h)] = d], s, Fresh(h))

\* A copy of a node shares the parameters of the original.
Clone(h, s) ==
  LET d == data(h, s)
  IN Construct(ReserveAll(h, d.Params), s, [d EXCEPT !.RefCount = 0])

CopyOnWrite(h, s) == IF data(h, s).RefCount > 1 THEN Clone(h, s) ELSE h

\* Mutant: the temporary shares the node.
GetSharedRef(h, s) == ChangeTo(h, tmp, At(h, s))

\* The temporary tmp refers to the node of s, or to a copy that nobody shares.
GetUniqueRef(h, s) ==
  LET shared == ChangeTo(h, tmp, At(h, s))
  IN IF data(h, s).RefCount > 1 THEN Clone(shared, tmp) ELSE shared

Become(h, s, b) ==
  IF At(h, s) = At(h, b) THEN h
  ELSE Drop(Swap(CopyOnWrite(ChangeTo(h, tmp, At(h, b)), s), s, tmp), tmp)

SetOpcode(h, s, o) == [h EXCEPT !.node[At(h, s)].Opcode = o]

(***************************************************************************)
(* CodeTree: functions that change a node in place.  A b is a handle that  *)
(* is copied or, in the Move functions, left with the handle it is given   *)
(* in exchange.                                                            *)
(***************************************************************************)
SetAll(h, s, params) == [h EXCEPT !.node[At(h, s)].Params = params]

AddParam(h, s, b) == SetAll(Reserve(h, At(h, b)), s, Append(Params(h, s), At(h, b)))

AddParamMove(h, s, b) ==
  LET f == Fresh(h)
  IN Point(SetAll([h EXCEPT !.node[f] = [Nop EXCEPT !.RefCount = 1]], s,
                  Append(Params(h, s), At(h, b))), b, f)

\* slot_holder keeps the old parameter until the new one is in its place.
HoldSlot(h, s, i) == ChangeTo(h, holder, Params(h, s)[i])

SetParam(h, s, i, b) ==
  Drop(ChangeTo(HoldSlot(h, s, i), Param(h, s, i), At(h, b)), holder)

SetParamMove(h, s, i, b) == Drop(Swap(HoldSlot(h, s, i), Param(h, s, i), b), holder)

AddParams(h, s, b) ==
  SetAll(ReserveAll(h, Params(h, b)), s, Params(h, s) \o Params(h, b))

\* The parameters of b move, and leave b with as many copies of one cNop.
AddParamsMove(h, s, b) ==
  LET f     == Fresh(h)
      added == Len(Params(h, b))
      moved == SetAll(SetAll(h, s, Params(h, s) \o Params(h, b)), b, [i \in 1..added |-> f])
  IN IF added = 0 THEN h ELSE [moved EXCEPT !.node[f] = [Nop EXCEPT !.RefCount = added]]

SetParams(h, s, b) ==
  ReleaseAll(SetAll(ReserveAll(h, Params(h, b)), s, Params(h, b)), Params(h, s))

\* The vectors are swapped and the one of b is cleared.
SetParamsMove(h, s, b) ==
  ReleaseAll(SetAll(SetAll(h, s, Params(h, b)), b, <<>>), Params(h, s))

DelParam(h, s, i) == Release(SetAll(h, s, RemoveAt(Params(h, s), i)), Params(h, s)[i])

DelParams(h, s) == ReleaseAll(SetAll(h, s, <<>>), Params(h, s))

(***************************************************************************)
(* What the heap promises.                                                 *)
(***************************************************************************)

\* The handles that refer to n.
Claims(h, n) == {s \in Places(h) : At(h, s) = n}

\* Every node counts the handles that refer to it, and is deleted exactly when
\* there is none.  (autoptr.hh, ChangeTo and Release)
CountsExact(h) ==
  \A n \in Nodes :
    /\ h.node[n].RefCount = Cardinality(Claims(h, n))
    /\ h.node[n].Opcode = "deleted" <=> Claims(h, n) = {}

\* The trees below the nodes as their owners see them, down to a depth.
TreesTo(h, depth) ==
  LET tree[d \in 0..depth] ==
        [n \in Nodes |->
          [opcode |-> h.node[n].Opcode, value |-> h.node[n].Value,
           params |-> IF d = 0 THEN <<>>
                      ELSE [i \in DOMAIN h.node[n].Params |-> tree[d - 1][h.node[n].Params[i]]]]]
  IN tree[depth]

Tree(h, s) == TreesTo(h, Cardinality(Nodes))[At(h, s)]
===============================================================================
