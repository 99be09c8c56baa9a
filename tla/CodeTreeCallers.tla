--------------------------- MODULE CodeTreeCallers ---------------------------
(***************************************************************************)
(* Functions that work with CodeTrees: any sequence of calls of CodeTree   *)
(* that keeps to what the optimizer's functions keep to.  Who changes a    *)
(* tree in place makes sure first, with CopyOnWrite() or GetUniqueRef(),   *)
(* that nobody shares its node.                                            *)
(***************************************************************************)
EXTENDS CodeTree

CONSTANTS
  Opcodes,          (* Of the trees with parameters.                       *)
  LeafData,         (* The CodeTreeData of leaves.                         *)
  MaxParams,        (* Bound: parameters of a node other than cIf.         *)
  SharedProducts    (* Whether DistributeFunction is given products that   *)
                    (* other handles share.                                *)

\* The optimizer's opcodes; leaves have no parameters.
ASSUME OpcodesAssumption == "deleted" \notin Opcodes
ASSUME LeavesAssumption ==
  \A d \in LeafData : d = Data(d.Opcode, d.Value, <<>>) /\ d.Opcode # "deleted"

VARIABLE heap

\* Bound: memory for the nodes that one call makes.
CallNodes == 8

Becomes(h) ==
  /\ \A n \in Nodes : h.node[n].Opcode = "cIf" \/ Len(h.node[n].Params) <= MaxParams
  /\ heap' = h

Own(r) == CopyOnWrite(heap, r)

\* Only operations get parameters.
IsOperation(r) == data(heap, r).Opcode \in Opcodes \cup {"cIf"}

\* The handles r can take a copy from.
Sources(r) == (Objects \ {r}) \cup {Param(heap, r, i) : i \in DOMAIN Params(heap, r)}

\* The source b seen after r has a node of its own.
Now(h, r, b) == IF b \in Handles THEN b ELSE <<At(h, r), b[2]>>

\* Each object is constructed with a node of its own.
Init ==
  \E at \in Injection(Objects, Nodes) :
    heap = [node |-> [n \in Nodes |-> IF \E r \in Objects : at[r] = n
                                      THEN [Nop EXCEPT !.RefCount = 1] ELSE Deleted],
            ptr  |-> [s \in Handles |-> IF s \in Objects THEN at[s] ELSE NoNode]]

(***************************************************************************)
(* Handles are assigned: no node changes.                                  *)
(***************************************************************************)
Assign(r) ==
  \/ \E d \in LeafData : Becomes(Construct(heap, r, d))
  \/ \E b \in Sources(r) : Becomes(ChangeTo(heap, r, At(heap, b)))

BecomeStep(r) == \E b \in Sources(r) : Becomes(Become(heap, r, b))

Exchange(r) == \E b \in Objects \ {r} : Becomes(Swap(heap, r, b))

(***************************************************************************)
(* A node that is the caller's own is changed.                             *)
(***************************************************************************)
SetOpcodeStep(r) ==
  /\ IsOperation(r) \/ data(heap, r).Opcode = "cNop"
  /\ \E o \in Opcodes : Becomes(SetOpcode(Own(r), r, o))

Add(r) ==
  LET h == Own(r) IN
  \/ \E b \in Sources(r) : Becomes(AddParam(h, r, Now(h, r, b)))
  \/ \E b \in Objects \ {r} : \/ Becomes(AddParamMove(h, r, b))
                              \/ Becomes(AddParams(h, r, b))
                              \/ Becomes(AddParamsMove(CopyOnWrite(h, b), r, b))

Set(r) ==
  LET h == Own(r) IN
  \/ \E i \in DOMAIN Params(h, r) :
       \/ \E b \in Sources(r) : Becomes(SetParam(h, r, i, Now(h, r, b)))
       \/ \E b \in Objects \ {r} : Becomes(SetParamMove(h, r, i, b))
  \/ \E b \in Objects \ {r} : \/ Becomes(SetParams(h, r, b))
                              \/ Becomes(SetParamsMove(CopyOnWrite(h, b), r, b))

Delete(r) ==
  LET h == Own(r) IN
  \/ \E i \in DOMAIN Params(h, r) : Becomes(DelParam(h, r, i))
  \/ Becomes(DelParams(h, r))

\* AdoptChildrenWithSameOpcode: the parameters of parameter i take its place.
\* The holder of the slot keeps it while it is deleted.
Assimilate(r, i) ==
  LET unique == GetUniqueRef(Own(r), Param(Own(r), r, i))
      held   == HoldSlot(unique, r, i)
      moved  == AddParamsMove(DelParam(held, r, i), r, tmp)
  IN Drop(Drop(moved, holder), tmp)

\* cNot [(cNot x)]: the parameters of the parameter take the place of all.
AdoptParams(r, i) ==
  Drop(SetParamsMove(GetUniqueRef(Own(r), Param(Own(r), r, i)), r, tmp), tmp)

Adopt(r) ==
  \E i \in DOMAIN Params(heap, r) :
    \/ Becomes(Assimilate(r, i))
    \/ Becomes(AdoptParams(r, i))

\* RecreateInversionsAndNegations: a factor is taken out of a group below.
\* Both the tree and the group get nodes of their own.
DeleteBelowOwn(h, r, i, j) == DelParam(CopyOnWrite(h, Param(h, r, i)), Param(h, r, i), j)

DeleteBelow(r, i, j) == DeleteBelowOwn(Own(r), r, i, j)

DeleteBelowStep(r) ==
  \E i \in DOMAIN Params(heap, r) :
    \E j \in DOMAIN Params(heap, Param(heap, r, i)) : Becomes(DeleteBelow(r, i, j))

\* HANDLE_UNARY_CONST_FUNC, of a product with a condition: the tree f(c * u)
\* becomes if(c, f(u), f(0)).  The product is not copied.
DistributeFunction(r, n) ==
  LET h1 == Become(Construct(heap, mul, Nop), mul, Param(heap, r, 1))
      h2 == DelParam(SetParamMove(h1, r, 1, Param(h1, mul, n)), mul, n)
      h3 == AddParamMove(Construct(h2, func, Data(data(h2, r).Opcode, data(h2, r).Value, <<>>)), func, mul)
      h4 == AddParamMove(SetOpcode(h3, r, "cIf"), r, func)
      h5 == AddParamMove(Construct(h4, p2, Data("cImmed", 0, <<>>)), r, p2)
  IN Drop(Drop(Drop(h5, p2), func), mul)

Distribute(r) ==
  /\ Len(Params(heap, r)) = 1
  /\ data(heap, r).RefCount = 1
  /\ SharedProducts \/ data(heap, Param(heap, r, 1)).RefCount = 1
  /\ \E n \in DOMAIN Params(heap, Param(heap, r, 1)) : Becomes(DistributeFunction(r, n))

Next ==
  \E r \in Objects :
    \/ Room(heap, 1) /\ (Assign(r) \/ BecomeStep(r))
    \/ /\ Room(heap, CallNodes)
       /\ \/ Exchange(r) \/ SetOpcodeStep(r)
          \/ IsOperation(r) /\ (Add(r) \/ Set(r) \/ Delete(r))
          \/ Adopt(r) \/ DeleteBelowStep(r) \/ Distribute(r)

Spec == Init /\ [][Next]_heap

(***************************************************************************)
(* Properties.                                                             *)
(***************************************************************************)

\* Nodes are counted and deleted exactly, whatever is assigned to what,
\* handles within a node that dies included.  (FPOPT_autoptr)
NodesCounted == CountsExact(heap)

LeafTrees == {[opcode |-> d.Opcode, value |-> d.Value, params |-> <<>>] : d \in LeafData}

Values == INSTANCE TreeValues
  WITH Leaves <- LeafTrees, value <- [r \in Objects |-> Tree(heap, r)]

\* Although handles share nodes, every call works as on trees that each object
\* has for itself: what other objects hold does not change.  (CopyOnWrite,
\* GetUniqueRef, Become, and the functions that change Params)
TreesIndependent == Values!Spec
==============================================================================
