--------------------------- MODULE CodeTreeCallersProofs ---------------------------
(***************************************************************************)
(* Proofs about CodeTreeCallers: every node counts the handles that refer  *)
(* to it, and is deleted exactly when there is none, whatever sequence of  *)
(* calls the callers make and however many objects and nodes there are.    *)
(*                                                                         *)
(* Within a call the counts are not exact: a handle has been counted       *)
(* before it is in its place, or refers to a node that it has given up.    *)
(* What the calls preserve is a balance that allows for both.              *)
(***************************************************************************)
EXTENDS CodeTreeCallers, RecursionProofs

\* 1 for equals.
One(a, b) == IF a = b THEN 1 ELSE 0

\* The positions of n in l.
Positions(l, n) == {i \in DOMAIN l : l[i] = n}

(***************************************************************************)
(* How often a node is in a sequence.                                      *)
(***************************************************************************)

\* Two sets between which f is one-to-one have the same size.
LEMMA SameSize ==
  ASSUME NEW S, IsFiniteSet(S), NEW T, NEW f \in [S -> T],
         \A x, y \in S : f[x] = f[y] => x = y,
         \A t \in T : \E x \in S : f[x] = t
  PROVE  IsFiniteSet(T) /\ Cardinality(T) = Cardinality(S)
<1>1. f \in Bijection(S, T)
  BY DEF Bijection, Injection, Surjection, IsInjective
<1>2. ExistsBijection(S, T)
  BY <1>1 DEF ExistsBijection
<1>3. QED  BY <1>2, FS_Bijection

\* The positions are finitely many, and as many as Times() says.
LEMMA TimesType ==
  ASSUME NEW S, NEW l \in Seq(S), NEW n
  PROVE  /\ IsFiniteSet(Positions(l, n)) /\ Positions(l, n) \subseteq 1..Len(l)
         /\ Times(l, n) = Cardinality(Positions(l, n))
         /\ Times(l, n) \in Nat
<1>1. DOMAIN l = 1..Len(l) /\ Len(l) \in Nat
  BY LenProperties
<1>2. IsFiniteSet(1..Len(l))
  BY <1>1, FS_Interval
<1>3. Positions(l, n) \subseteq 1..Len(l)
  BY <1>1 DEF Positions
<1>4. IsFiniteSet(Positions(l, n))
  BY <1>2, <1>3, FS_Subset
<1>5. QED  BY <1>3, <1>4, FS_CardinalityType DEF Times, Positions

\* Nothing is in the empty sequence.
LEMMA TimesEmpty ==
  ASSUME NEW n
  PROVE  Times(<<>>, n) = 0
<1>1. Positions(<<>>, n) = {}
  BY DEF Positions
<1>2. QED  BY <1>1, FS_EmptySet DEF Times, Positions

\* A sequence of one.
LEMMA TimesSingle ==
  ASSUME NEW m, NEW n
  PROVE  Times(<<m>>, n) = One(m, n)
<1>1. DOMAIN <<m>> = {1} /\ <<m>>[1] = m
  OBVIOUS
<1>2. CASE m = n
  <2>1. Positions(<<m>>, n) = {1}
    BY <1>1, <1>2 DEF Positions
  <2>2. QED  BY <1>2, <2>1, FS_Singleton DEF Times, Positions, One
<1>3. CASE m # n
  <2>1. Positions(<<m>>, n) = {}
    BY <1>1, <1>3 DEF Positions
  <2>2. QED  BY <1>3, <2>1, FS_EmptySet DEF Times, Positions, One
<1>4. QED  BY <1>2, <1>3

\* What is in a concatenation is in its parts.
LEMMA TimesConcat ==
  ASSUME NEW S, NEW s \in Seq(S), NEW t \in Seq(S), NEW n
  PROVE  Times(s \o t, n) = Times(s, n) + Times(t, n)
<1> DEFINE u == s \o t
           k == Len(s)
           j == Len(t)
           A == Positions(s, n)
           B == Positions(t, n)
           f == [i \in B |-> k + i]
           C == {f[i] : i \in B}
<1>1. /\ k \in Nat /\ j \in Nat /\ DOMAIN s = 1..k /\ DOMAIN t = 1..j
      /\ u \in Seq(S) /\ DOMAIN u = 1..(k + j)
      /\ \A i \in 1..(k + j) : u[i] = IF i <= k THEN s[i] ELSE t[i - k]
  BY ConcatProperties, LenProperties
<1>2. /\ IsFiniteSet(A) /\ IsFiniteSet(B) /\ A \subseteq 1..k /\ B \subseteq 1..j
      /\ Times(s, n) = Cardinality(A) /\ Times(t, n) = Cardinality(B)
      /\ Times(u, n) = Cardinality(Positions(u, n))
  <2> HIDE DEF u
  <2>1. QED  BY <1>1, TimesType
<1>3. IsFiniteSet(C) /\ Cardinality(C) = Cardinality(B)
  <2>1. f \in [B -> C] /\ \A c \in C : \E i \in B : f[i] = c
    OBVIOUS
  <2>2. \A x, y \in B : f[x] = f[y] => x = y
    BY <1>1, <1>2
  <2> HIDE DEF f, B, C
  <2>3. QED  BY <1>2, <2>1, <2>2, SameSize
<1> HIDE DEF u, k, j
<1>4. Positions(u, n) = A \cup C
  <2>1. ASSUME NEW i \in Positions(u, n)
        PROVE  i \in A \cup C
    <3>1. i \in 1..(k + j) /\ u[i] = n
      BY <1>1, <2>1 DEF Positions
    <3>2. CASE i <= k
      BY <1>1, <3>1, <3>2 DEF Positions
    <3>3. CASE ~(i <= k)
      <4>1. i - k \in 1..j /\ t[i - k] = n /\ k + (i - k) = i
        BY <1>1, <3>1, <3>3
      <4>2. i - k \in B
        BY <1>1, <4>1 DEF Positions
      <4>3. QED  BY <4>1, <4>2
    <3>4. QED  BY <3>2, <3>3
  <2>2. ASSUME NEW i \in A
        PROVE  i \in Positions(u, n)
    <3>1. i \in 1..k /\ i \in 1..(k + j) /\ i <= k /\ s[i] = n
      BY <1>1 DEF Positions
    <3>2. QED  BY <1>1, <3>1 DEF Positions
  <2>3. ASSUME NEW i \in B
        PROVE  k + i \in Positions(u, n)
    <3>1. k + i \in 1..(k + j) /\ ~(k + i <= k) /\ (k + i) - k = i /\ t[i] = n
      BY <1>1 DEF Positions
    <3>2. QED  BY <1>1, <3>1 DEF Positions
  <2>4. QED  BY <2>1, <2>2, <2>3
<1>5. A \cap C = {}
  BY <1>1, <1>2
<1>6. Cardinality(A \cup C) = Cardinality(A) + Cardinality(C)
  <2> HIDE DEF A, C
  <2>1. Cardinality({}) = 0 /\ Cardinality(A) \in Nat /\ Cardinality(C) \in Nat
    BY <1>2, <1>3, FS_EmptySet, FS_CardinalityType
  <2>2. Cardinality(A \cup C) = Cardinality(A) + Cardinality(C) - Cardinality(A \cap C)
    BY <1>2, <1>3, FS_Union
  <2>3. Cardinality(A \cap C) = 0
    BY <1>5, <2>1, Zenon
  <2> DEFINE a == Cardinality(A)
             c == Cardinality(C)
  <2>4. a \in Nat /\ c \in Nat /\ Cardinality(A \cup C) = (a + c) - 0
    BY <2>1, <2>2, <2>3 DEF a, c
  <2> HIDE DEF a, c
  <2>5. Cardinality(A \cup C) = a + c
    BY <2>4
  <2>6. QED  BY <2>5 DEF a, c
<1> HIDE DEF A, B, C
<1>7. QED  BY <1>2, <1>3, <1>4, <1>6 DEF u

\* What is in a sequence is its head or in its tail.
LEMMA TimesHead ==
  ASSUME NEW S, NEW s \in Seq(S), s # <<>>, NEW n
  PROVE  Times(s, n) = One(Head(s), n) + Times(Tail(s), n)
<1>1. Len(s) \in Nat \ {0} /\ Head(s) \in S /\ Tail(s) \in Seq(S)
  BY EmptySeq, HeadTailProperties
<1>2. /\ SubSeq(s, 1, Len(s)) = <<s[1]>> \o SubSeq(s, 2, Len(s))
      /\ SubSeq(s, 1, Len(s)) = s /\ Tail(s) = SubSeq(s, 2, Len(s))
  BY <1>1, SubSeqRecursiveFirst, SubSeqFull, TailIsSubSeq
<1>3. Head(s) = s[1]
  OBVIOUS
<1>4. <<Head(s)>> \in Seq(S)
  BY <1>1
<1>5. s = <<Head(s)>> \o Tail(s)
  BY <1>2, <1>3
<1> DEFINE p == <<Head(s)>>
           q == Tail(s)
<1>6. p \in Seq(S) /\ q \in Seq(S) /\ s = p \o q /\ Times(p, n) = One(Head(s), n)
  BY <1>1, <1>4, <1>5, TimesSingle
<1> HIDE DEF p, q
<1>7. Times(p \o q, n) = Times(p, n) + Times(q, n)
  BY <1>6, TimesConcat
<1>8. QED  BY <1>6, <1>7 DEF q

\* What is added at the end.
LEMMA TimesAppend ==
  ASSUME NEW S, NEW s \in Seq(S), NEW x \in S, NEW n
  PROVE  Times(Append(s, x), n) = Times(s, n) + One(x, n)
<1>1. Append(s, x) = s \o <<x>> /\ <<x>> \in Seq(S)
  BY AppendIsConcat
<1>2. Times(s \o <<x>>, n) = Times(s, n) + Times(<<x>>, n)
  BY <1>1, TimesConcat
<1>3. QED  BY <1>1, <1>2, TimesSingle

\* What is removed.
LEMMA TimesRemove ==
  ASSUME NEW S, NEW s \in Seq(S), NEW i \in 1..Len(s), NEW n
  PROVE  /\ RemoveAt(s, i) \in Seq(S)
         /\ Times(s, n) = Times(RemoveAt(s, i), n) + One(s[i], n)
<1> DEFINE u == SubSeq(s, 1, i - 1)
           w == SubSeq(s, i + 1, Len(s))
           x == s[i]
<1>1. Len(s) \in Nat /\ x \in S /\ \A j \in 1..Len(s) : s[j] \in S
  BY LenProperties, ElementOfSeq
<1>2. u \in Seq(S) /\ w \in Seq(S)
  <2>1. \A j \in 1..(i - 1) : s[j] \in S
    BY <1>1
  <2>2. \A j \in (i + 1)..Len(s) : s[j] \in S
    BY <1>1
  <2>3. i \in Int /\ i - 1 \in Int /\ i + 1 \in Int /\ Len(s) \in Int /\ 1 \in Int
    BY <1>1
  <2>4. QED  BY <2>1, <2>2, <2>3, SubSeqProperties
<1>3. SubSeq(s, i, Len(s)) = <<x>> \o w
  <2>1. i \in 1..Len(s) /\ Len(s) \in i..Len(s)
    BY <1>1
  <2>2. QED  BY <2>1, SubSeqRecursiveFirst
<1>4. u \o SubSeq(s, i, Len(s)) = s
  <2>1. /\ 1 \in 1..(Len(s) + 1) /\ i - 1 \in 0..Len(s) /\ Len(s) \in (i - 1)..Len(s)
        /\ 1 - 1 = 0 /\ (i - 1) + 1 = i
    BY <1>1
  <2>2. SubSeq(s, 1, i - 1) \o SubSeq(s, (i - 1) + 1, Len(s)) = SubSeq(s, 1, Len(s))
    BY <2>1, ConcatAdjacentSubSeq
  <2>3. QED  BY <2>1, <2>2, SubSeqFull
<1>5. RemoveAt(s, i) = u \o w
  BY DEF RemoveAt
<1> HIDE DEF u, w, x
<1>6. <<x>> \in Seq(S)
  BY <1>1
<1>7. u \o w \in Seq(S) /\ <<x>> \o w \in Seq(S)
  BY <1>2, <1>6, ConcatProperties
<1>8. /\ Times(u \o w, n) = Times(u, n) + Times(w, n)
      /\ Times(<<x>> \o w, n) = Times(<<x>>, n) + Times(w, n)
      /\ Times(u \o (<<x>> \o w), n) = Times(u, n) + Times(<<x>> \o w, n)
  <2> DEFINE p == <<x>>
             q == p \o w
  <2>1. p \in Seq(S) /\ q \in Seq(S)
    BY <1>6, <1>7
  <2> HIDE DEF p
  <2>2. Times(u \o w, n) = Times(u, n) + Times(w, n)
    BY <1>2, TimesConcat
  <2>3. Times(p \o w, n) = Times(p, n) + Times(w, n)
    BY <1>2, <2>1, TimesConcat
  <2> HIDE DEF q
  <2>4. Times(u \o q, n) = Times(u, n) + Times(q, n)
    BY <1>2, <2>1, TimesConcat
  <2>5. QED  BY <2>2, <2>3, <2>4 DEF q, p
<1>9. Times(<<x>>, n) = One(x, n)
  BY TimesSingle
<1>10. Times(u, n) \in Nat /\ Times(w, n) \in Nat /\ One(x, n) \in Nat
  BY <1>2, TimesType DEF One
<1>11. s = u \o (<<x>> \o w)
  BY <1>3, <1>4
<1>12. Times(s, n) = Times(u \o w, n) + One(x, n)
  <2> HIDE DEF One
  <2>1. Times(s, n) = Times(u, n) + (One(x, n) + Times(w, n))
    BY <1>8, <1>9, <1>11
  <2>2. QED  BY <1>8, <1>10, <2>1
<1>13. QED  BY <1>5, <1>7, <1>12 DEF x

\* k copies of one node.
LEMMA TimesCopies ==
  ASSUME NEW S, NEW x \in S, NEW k \in Nat, NEW n
  PROVE  /\ [i \in 1..k |-> x] \in Seq(S)
         /\ Times([i \in 1..k |-> x], n) = IF x = n THEN k ELSE 0
<1> DEFINE l == [i \in 1..k |-> x]
<1>1. l \in Seq(S)
  OBVIOUS
<1>2. Positions(l, n) = IF x = n THEN 1..k ELSE {}
  BY DEF Positions
<1>3. Cardinality(1..k) = k /\ Cardinality({}) = 0
  BY FS_Interval, FS_EmptySet
<1> HIDE DEF l
<1>4. Times(l, n) = Cardinality(Positions(l, n))
  BY DEF Times, Positions
<1>5. QED  BY <1>1, <1>2, <1>3, <1>4 DEF l

(***************************************************************************)
(* Heaps.                                                                  *)
(***************************************************************************)

IsNode(d) ==
  /\ d = [RefCount |-> d.RefCount, Opcode |-> d.Opcode, Value |-> d.Value, Params |-> d.Params]
  /\ d.RefCount \in Nat
  /\ d.Params \in Seq(Nodes)

Shape(h) ==
  /\ h = [node |-> h.node, ptr |-> h.ptr]
  /\ h.node = [n \in Nodes |-> h.node[n]]
  /\ \A n \in Nodes : IsNode(h.node[n])
  /\ h.ptr \in [Handles -> Nodes \cup {NoNode}]

\* The heap h with d as node n, and nodes with another count or other parameters.
Put(h, n, d) == [h EXCEPT !.node[n] = d]

WithCount(d, c) == [d EXCEPT !.RefCount = c]

WithParams(d, l) == [d EXCEPT !.Params = l]

WithOpcode(d, o) == [d EXCEPT !.Opcode = o]

\* g is h but for node n, which is d.
Sets(h, g, n, d) ==
  /\ Shape(g)
  /\ g.ptr = h.ptr
  /\ g.node[n] = d
  /\ \A m \in Nodes \ {n} : g.node[m] = h.node[m]

\* A node with another count.
LEMMA NodeCounted ==
  ASSUME NEW d, IsNode(d), NEW c \in Nat
  PROVE  /\ IsNode(WithCount(d, c)) /\ WithCount(d, c).RefCount = c
         /\ WithCount(d, c).Params = d.Params /\ WithCount(d, c).Opcode = d.Opcode
         /\ WithCount(d, c).Value = d.Value
<1>1. ASSUME NEW e, e = WithCount(d, c)
      PROVE  /\ IsNode(e) /\ e.RefCount = c /\ e.Params = d.Params /\ e.Opcode = d.Opcode
             /\ e.Value = d.Value
  BY <1>1 DEF IsNode, WithCount
<1>2. QED  BY <1>1

\* A node with other parameters.
LEMMA NodeFilled ==
  ASSUME NEW d, IsNode(d), NEW l \in Seq(Nodes)
  PROVE  /\ IsNode(WithParams(d, l)) /\ WithParams(d, l).Params = l
         /\ WithParams(d, l).RefCount = d.RefCount /\ WithParams(d, l).Opcode = d.Opcode
         /\ WithParams(d, l).Value = d.Value
<1>1. ASSUME NEW e, e = WithParams(d, l)
      PROVE  /\ IsNode(e) /\ e.RefCount = d.RefCount /\ e.Params = l /\ e.Opcode = d.Opcode
             /\ e.Value = d.Value
  BY <1>1 DEF IsNode, WithParams
<1>2. QED  BY <1>1

\* A node with another opcode.
LEMMA NodeNamed ==
  ASSUME NEW d, IsNode(d), NEW o
  PROVE  /\ IsNode(WithOpcode(d, o)) /\ WithOpcode(d, o).Params = d.Params
         /\ WithOpcode(d, o).RefCount = d.RefCount /\ WithOpcode(d, o).Opcode = o
         /\ WithOpcode(d, o).Value = d.Value
<1>1. ASSUME NEW e, e = WithOpcode(d, o)
      PROVE  /\ IsNode(e) /\ e.RefCount = d.RefCount /\ e.Params = d.Params /\ e.Opcode = o
             /\ e.Value = d.Value
  BY <1>1 DEF IsNode, WithOpcode
<1>2. QED  BY <1>1

\* New nodes.
LEMMA NodeMade ==
  ASSUME NEW o, NEW v, NEW l \in Seq(Nodes)
  PROVE  /\ IsNode(Data(o, v, l)) /\ Data(o, v, l).Params = l
         /\ Data(o, v, l).RefCount = 0 /\ Data(o, v, l).Opcode = o /\ Data(o, v, l).Value = v
<1>1. ASSUME NEW e, e = Data(o, v, l)
      PROVE  IsNode(e) /\ e.Params = l /\ e.RefCount = 0 /\ e.Opcode = o /\ e.Value = v
  BY <1>1 DEF IsNode, Data
<1>2. QED  BY <1>1

\* Memory that is not in use has no parameters.
LEMMA DeletedNode ==
  /\ IsNode(Deleted) /\ Deleted.Params = <<>>
  /\ Deleted.RefCount = 0 /\ Deleted.Opcode = "deleted"
<1>1. <<>> \in Seq(Nodes)
  BY EmptySeq
<1>2. ASSUME NEW e, e = Deleted
      PROVE  IsNode(e) /\ e.Params = <<>> /\ e.RefCount = 0 /\ e.Opcode = "deleted"
  BY <1>1, <1>2 DEF IsNode, Data, Deleted
<1>3. QED  BY <1>2

\* One node is replaced.
LEMMA PutSets ==
  ASSUME NEW h, Shape(h), NEW n \in Nodes, NEW d, IsNode(d)
  PROVE  Sets(h, Put(h, n, d), n, d)
<1> DEFINE N == [h.node EXCEPT ![n] = d]
           g == [h EXCEPT !.node = N]
<1>1. N = [m \in Nodes |-> IF m = n THEN d ELSE h.node[m]]
  BY DEF Shape
<1>2. g = Put(h, n, d)
  BY DEF Put
<1> HIDE DEF N
<1>3. g = [node |-> N, ptr |-> h.ptr]
  BY DEF Shape
<1> HIDE DEF g
<1>4. g.node = N /\ g.ptr = h.ptr
  BY <1>3
<1>5. N = [m \in Nodes |-> N[m]] /\ \A m \in Nodes : N[m] = IF m = n THEN d ELSE h.node[m]
  BY <1>1
<1>6. g = [node |-> g.node, ptr |-> g.ptr]
  BY <1>3, <1>4
<1>7. Shape(g)
  BY <1>4, <1>5, <1>6 DEF Shape
<1>8. QED  BY <1>2, <1>4, <1>5, <1>7 DEF Sets

\* Parameters are nodes.
LEMMA ParamsTyped ==
  ASSUME NEW h, Shape(h), NEW m \in Nodes
  PROVE  /\ h.node[m].Params \in Seq(Nodes)
         /\ Len(h.node[m].Params) \in Nat
         /\ DOMAIN h.node[m].Params = 1..Len(h.node[m].Params)
         /\ \A i \in 1..Len(h.node[m].Params) : h.node[m].Params[i] \in Nodes
         /\ IsNode(h.node[m]) /\ h.node[m].RefCount \in Nat
<1>1. h.node[m].Params \in Seq(Nodes) /\ IsNode(h.node[m]) /\ h.node[m].RefCount \in Nat
  BY DEF Shape, IsNode
<1>2. QED  BY <1>1, LenProperties, ElementOfSeq

\* The places of a heap: what they are, and what they refer to.
LEMMA PlacesTyped ==
  ASSUME NEW h, Shape(h)
  PROVE  /\ \A s : s \in Slots(h) <=> /\ s \in Nodes \X Nat
                                      /\ s[2] \in 1..Len(h.node[s[1]].Params)
         /\ \A s \in Slots(h) : /\ s \notin Handles
                                /\ At(h, s) = h.node[s[1]].Params[s[2]]
                                /\ At(h, s) \in Nodes
         /\ \A s \in Handles : At(h, s) = h.ptr[s] /\ At(h, s) \in Nodes \cup {NoNode}
         /\ \A m \in Nodes : \A i \in DOMAIN h.node[m].Params :
              /\ <<m, i>> \in Slots(h) /\ At(h, <<m, i>>) = h.node[m].Params[i]
              /\ i \in 1..Len(h.node[m].Params)
<1>1. \A s : s \in Slots(h) <=> s \in Nodes \X Nat /\ s[2] \in 1..Len(h.node[s[1]].Params)
  <2>1. ASSUME NEW s \in Slots(h)
        PROVE  s \in Nodes \X Nat /\ s[2] \in 1..Len(h.node[s[1]].Params)
    <3>1. PICK m \in Nodes : s \in {m} \X DOMAIN h.node[m].Params
      BY <2>1 DEF Slots
    <3>2. QED  BY <3>1, ParamsTyped
  <2>2. ASSUME NEW s \in Nodes \X Nat, s[2] \in 1..Len(h.node[s[1]].Params)
        PROVE  s \in Slots(h)
    <3>1. PICK m \in Nodes, i \in Nat : s = <<m, i>>
      OBVIOUS
    <3>2. i \in DOMAIN h.node[m].Params
      BY <2>2, <3>1, ParamsTyped
    <3>3. s \in {m} \X DOMAIN h.node[m].Params
      BY <3>1, <3>2
    <3>4. QED  BY <3>3 DEF Slots
  <2>3. QED  BY <2>1, <2>2
<1>2. ASSUME NEW s \in Slots(h)
      PROVE  /\ s \notin Handles /\ At(h, s) = h.node[s[1]].Params[s[2]]
             /\ At(h, s) \in Nodes
  <2>1. s \in Nodes \X Nat /\ s[1] \in Nodes /\ s[2] \in 1..Len(h.node[s[1]].Params)
    BY <1>1
  <2>2. s \notin Handles
    BY <2>1, HandlesAssumption
  <2>3. QED  BY <2>1, <2>2, ParamsTyped DEF At
<1>3. \A s \in Handles : At(h, s) = h.ptr[s] /\ At(h, s) \in Nodes \cup {NoNode}
  BY DEF At, Shape
<1>4. ASSUME NEW m \in Nodes, NEW i \in DOMAIN h.node[m].Params
      PROVE  /\ <<m, i>> \in Slots(h) /\ At(h, <<m, i>>) = h.node[m].Params[i]
             /\ i \in 1..Len(h.node[m].Params)
  <2>1. i \in 1..Len(h.node[m].Params) /\ i \in Nat
    BY ParamsTyped
  <2>2. <<m, i>> \in Slots(h)
    BY <1>1, <2>1
  <2>3. QED  BY <1>2, <2>1, <2>2
<1>5. QED  BY <1>1, <1>2, <1>3, <1>4

(***************************************************************************)
(* Claims.                                                                 *)
(***************************************************************************)

\* The handles that refer to n, those in X aside.
Held(h, X, n) == Cardinality(Claims(h, n) \ X)

\* Those of them that are parameters of m.
ClaimsIn(h, m, n) == {m} \X Positions(h.node[m].Params, n)

\* There are finitely many places.
LEMMA PlacesFinite ==
  ASSUME NEW h, Shape(h)
  PROVE  IsFiniteSet(Slots(h)) /\ IsFiniteSet(Places(h))
<1> DEFINE Row(n) == {n} \X DOMAIN h.node[n].Params
           R == {Row(n) : n \in Nodes}
<1>1. IsFiniteSet(R)
  <2> DEFINE f == [n \in Nodes |-> Row(n)]
  <2>1. f \in Surjection(Nodes, R)
    BY DEF Surjection
  <2> HIDE DEF f, R
  <2>2. QED  BY <2>1, NodesAssumption, FS_Surjection
<1>2. ASSUME NEW n \in Nodes
      PROVE  IsFiniteSet(Row(n))
  <2> DEFINE A == {n}
             B == DOMAIN h.node[n].Params
             k == Len(h.node[n].Params)
  <2>1. B = 1..k /\ k \in Nat
    BY ParamsTyped
  <2>2. IsFiniteSet(A)
    BY FS_Singleton
  <2> HIDE DEF A, k
  <2>3. IsFiniteSet(B)
    BY <2>1, FS_Interval
  <2> HIDE DEF B
  <2>4. IsFiniteSet(A \X B)
    BY <2>2, <2>3, FS_Product
  <2>5. QED  BY <2>4 DEF A, B
<1>3. IsFiniteSet(UNION R)
  <2>1. \A T \in R : IsFiniteSet(T)
    BY <1>2
  <2> HIDE DEF R
  <2>2. QED  BY <1>1, <2>1, FS_UNION
<1>4. IsFiniteSet(Slots(h))
  BY <1>3 DEF Slots
<1>5. IsFiniteSet(Locals)
  <2>1. \A S, x : IsFiniteSet(S) => IsFiniteSet(S \cup {x})
    BY FS_AddElement
  <2>2. IsFiniteSet((((({} \cup {tmp}) \cup {holder}) \cup {mul}) \cup {func}) \cup {p2})
    BY <2>1, FS_EmptySet
  <2>3. Locals = (((({} \cup {tmp}) \cup {holder}) \cup {mul}) \cup {func}) \cup {p2}
    BY DEF Locals
  <2>4. QED  BY <2>2, <2>3
<1>6. IsFiniteSet(Handles)
  BY <1>5, ObjectsAssumption, FS_Union DEF Handles
<1>7. QED  BY <1>4, <1>6, FS_Union DEF Places

\* The handles that refer to a node are finitely many.
LEMMA HeldType ==
  ASSUME NEW h, Shape(h), NEW X, NEW n
  PROVE  IsFiniteSet(Claims(h, n)) /\ IsFiniteSet(Claims(h, n) \ X) /\ Held(h, X, n) \in Nat
<1>1. Claims(h, n) \subseteq Places(h) /\ Claims(h, n) \ X \subseteq Places(h)
  BY DEF Claims
<1>2. IsFiniteSet(Claims(h, n)) /\ IsFiniteSet(Claims(h, n) \ X)
  BY <1>1, PlacesFinite, FS_Subset
<1>3. QED  BY <1>2, FS_CardinalityType DEF Held

\* The parameters of m that refer to n are as many as Times() says.
LEMMA ClaimsInTimes ==
  ASSUME NEW h, Shape(h), NEW m \in Nodes, NEW n
  PROVE  /\ IsFiniteSet(ClaimsIn(h, m, n))
         /\ Cardinality(ClaimsIn(h, m, n)) = Times(h.node[m].Params, n)
         /\ ClaimsIn(h, m, n) = Claims(h, n) \cap ({m} \X Nat)
<1> DEFINE l == h.node[m].Params
           S == Positions(l, n)
           T == {m} \X S
           f == [i \in S |-> <<m, i>>]
<1>1. /\ l \in Seq(Nodes) /\ DOMAIN l = 1..Len(l) /\ Len(l) \in Nat
  BY ParamsTyped
<1>2. IsFiniteSet(S) /\ Times(l, n) = Cardinality(S)
  <2> HIDE DEF l
  <2>1. QED  BY <1>1, TimesType
<1>3. IsFiniteSet(T) /\ Cardinality(T) = Cardinality(S)
  <2>1. f \in [S -> T] /\ \A x, y \in S : f[x] = f[y] => x = y
    OBVIOUS
  <2>2. \A t \in T : \E x \in S : f[x] = t
    OBVIOUS
  <2> HIDE DEF f, S, T
  <2>3. QED  BY <1>2, <2>1, <2>2, SameSize
<1>4. ASSUME NEW s \in T
      PROVE  s \in Claims(h, n) /\ s \in {m} \X Nat
  <2>1. PICK i \in S : s = <<m, i>>
    OBVIOUS
  <2>2. i \in DOMAIN l /\ l[i] = n /\ i \in Nat
    BY <1>1 DEF Positions
  <2>3. s \in Slots(h) /\ At(h, s) = n
    BY <2>1, <2>2, PlacesTyped
  <2>4. QED  BY <2>1, <2>2, <2>3 DEF Claims, Places
<1>5. ASSUME NEW s \in Claims(h, n), s \in {m} \X Nat
      PROVE  s \in T
  <2>1. PICK i \in Nat : s = <<m, i>>
    BY <1>5
  <2>2. s \in Nodes \X Nat
    BY <2>1
  <2>3. s \notin Handles
    BY <2>2, HandlesAssumption
  <2>4. s \in Slots(h) /\ At(h, s) = n
    BY <2>3 DEF Claims, Places
  <2>5. i \in 1..Len(l) /\ l[i] = n
    BY <2>1, <2>4, PlacesTyped
  <2>6. i \in S
    BY <1>1, <2>5 DEF Positions
  <2>7. QED  BY <2>1, <2>6
<1>6. QED  BY <1>2, <1>3, <1>4, <1>5 DEF ClaimsIn

\* To change the parameters of one node changes what they claim.
LEMMA HeldByParams ==
  ASSUME NEW h, Shape(h), NEW g, Shape(g), NEW m \in Nodes, NEW X, NEW n,
         g.ptr = h.ptr, \A k \in Nodes \ {m} : g.node[k].Params = h.node[k].Params,
         X \cap ({m} \X Nat) = {}
  PROVE  /\ Held(g, X, n) \in Nat /\ Held(h, X, n) \in Nat
         /\ Times(g.node[m].Params, n) \in Nat /\ Times(h.node[m].Params, n) \in Nat
         /\ Held(g, X, n) + Times(h.node[m].Params, n)
              = Held(h, X, n) + Times(g.node[m].Params, n)
<1> DEFINE M == {m} \X Nat
           Rest(a) == (Claims(a, n) \ X) \ M
<1>1. ASSUME NEW a, Shape(a)
      PROVE  /\ Held(a, X, n) = Cardinality(Rest(a)) + Times(a.node[m].Params, n)
             /\ Cardinality(Rest(a)) \in Nat /\ Held(a, X, n) \in Nat
             /\ Times(a.node[m].Params, n) \in Nat
  <2> DEFINE R == Rest(a)
             I == ClaimsIn(a, m, n)
  <2>1. /\ IsFiniteSet(I) /\ Cardinality(I) = Times(a.node[m].Params, n)
        /\ I = Claims(a, n) \cap M
    BY <1>1, ClaimsInTimes
  <2>2. IsFiniteSet(Claims(a, n)) /\ Held(a, X, n) \in Nat
    BY <1>1, HeldType
  <2>3. IsFiniteSet(R) /\ Cardinality(R) \in Nat
    <3>1. R \subseteq Claims(a, n)
      OBVIOUS
    <3>2. QED  BY <2>2, <3>1, FS_Subset, FS_CardinalityType
  <2>4. Claims(a, n) \ X = R \cup I /\ R \cap I = {}
    BY <2>1
  <2> HIDE DEF R, I
  <2>5. Cardinality(R \cup I) = Cardinality(R) + Cardinality(I) - Cardinality(R \cap I)
    BY <2>1, <2>3, FS_Union
  <2>6. Cardinality(R \cap I) = 0
    BY <2>4, FS_EmptySet, Zenon
  <2>7. Cardinality(I) \in Nat
    BY <2>1, FS_CardinalityType
  <2>8. Held(a, X, n) = Cardinality(R \cup I)
    BY <2>4, Zenon DEF Held
  <2>9. QED  BY <2>1, <2>2, <2>3, <2>5, <2>6, <2>7, <2>8 DEF R
<1>2. Rest(g) = Rest(h)
  <2>1. ASSUME NEW a, Shape(a), NEW b, Shape(b), b.ptr = a.ptr,
               \A k \in Nodes \ {m} : b.node[k].Params = a.node[k].Params,
               NEW s \in Rest(a)
        PROVE  s \in Rest(b)
    <3>1. s \in Places(a) /\ At(a, s) = n /\ s \notin X /\ s \notin M
      BY DEF Claims
    <3>2. CASE s \in Handles
      <4>1. At(b, s) = n
        BY <2>1, <3>1, <3>2 DEF At
      <4>2. QED  BY <3>1, <3>2, <4>1 DEF Claims, Places
    <3>3. CASE s \in Slots(a)
      <4>1. s \in Nodes \X Nat /\ s[2] \in 1..Len(a.node[s[1]].Params)
        BY <2>1, <3>3, PlacesTyped
      <4>2. s[1] \in Nodes \ {m}
        BY <3>1, <4>1
      <4>3. s \in Slots(b) /\ At(b, s) = b.node[s[1]].Params[s[2]]
        BY <2>1, <4>1, <4>2, PlacesTyped
      <4>4. At(a, s) = a.node[s[1]].Params[s[2]]
        BY <2>1, <3>3, PlacesTyped
      <4>5. At(b, s) = n
        BY <2>1, <3>1, <4>2, <4>3, <4>4
      <4>6. QED  BY <3>1, <4>3, <4>5 DEF Claims, Places
    <3>4. QED  BY <3>1, <3>2, <3>3 DEF Places
  <2>2. QED  BY <2>1
<1>3. QED
  <2> DEFINE r == Cardinality(Rest(g))
  <2>1. /\ Held(g, X, n) = r + Times(g.node[m].Params, n) /\ r \in Nat
        /\ Held(g, X, n) \in Nat /\ Times(g.node[m].Params, n) \in Nat
    BY <1>1
  <2>2. /\ Held(h, X, n) = r + Times(h.node[m].Params, n)
        /\ Held(h, X, n) \in Nat /\ Times(h.node[m].Params, n) \in Nat
    BY <1>1, <1>2
  <2> HIDE DEF r
  <2>3. QED  BY <2>1, <2>2

\* Where no parameter changes, nor a handle, no claim does.
LEMMA HeldSame ==
  ASSUME NEW h, Shape(h), NEW g, Shape(g), NEW X, NEW n,
         g.ptr = h.ptr, \A k \in Nodes : g.node[k].Params = h.node[k].Params
  PROVE  /\ Slots(g) = Slots(h) /\ Places(g) = Places(h)
         /\ Held(g, X, n) = Held(h, X, n)
<1>1. Slots(g) = Slots(h)
  BY DEF Slots
<1>2. Places(g) = Places(h)
  BY <1>1 DEF Places
<1>3. ASSUME NEW s \in Places(h)
      PROVE  At(g, s) = At(h, s)
  <2>1. CASE s \in Handles
    BY <2>1 DEF At
  <2>2. CASE s \in Slots(h)
    <3>1. s[1] \in Nodes /\ At(h, s) = h.node[s[1]].Params[s[2]]
      BY <2>2, PlacesTyped
    <3>2. At(g, s) = g.node[s[1]].Params[s[2]]
      BY <1>1, <2>2, PlacesTyped
    <3>3. QED  BY <3>1, <3>2
  <2>3. QED  BY <2>1, <2>2 DEF Places
<1>4. Claims(g, n) = Claims(h, n)
  BY <1>2, <1>3 DEF Claims
<1>5. QED  BY <1>1, <1>2, <1>4 DEF Held

\* g is h with n in place s.
Pointed(h, g, s, n) ==
  /\ Shape(g)
  /\ Slots(g) = Slots(h)
  /\ At(g, s) = n
  /\ \A t \in Places(h) \ {s} : At(g, t) = At(h, t)
  /\ \A m \in Nodes : /\ g.node[m].RefCount = h.node[m].RefCount
                      /\ g.node[m].Opcode = h.node[m].Opcode
                      /\ g.node[m].Value = h.node[m].Value
                      /\ Len(g.node[m].Params) = Len(h.node[m].Params)
  /\ s \in Handles => g.node = h.node
  /\ s \notin Handles => /\ g.ptr = h.ptr
                         /\ \A m \in Nodes \ {s[1]} : g.node[m] = h.node[m]
                         /\ g.node[s[1]].Params = [h.node[s[1]].Params EXCEPT ![s[2]] = n]

\* A handle is changed.
LEMMA PointHandle ==
  ASSUME NEW h, Shape(h), NEW s \in Handles, NEW n \in Nodes \cup {NoNode}
  PROVE  Pointed(h, Point(h, s, n), s, n) /\ Point(h, s, n) = [h EXCEPT !.ptr[s] = n]
<1> DEFINE P == [h.ptr EXCEPT ![s] = n]
           g == [h EXCEPT !.ptr = P]
<1>1. P \in [Handles -> Nodes \cup {NoNode}] /\ \A t \in Handles : P[t] = IF t = s THEN n ELSE h.ptr[t]
  BY DEF Shape
<1>2. g = Point(h, s, n) /\ g = [h EXCEPT !.ptr[s] = n]
  BY DEF Point
<1> HIDE DEF P
<1>3. g = [node |-> h.node, ptr |-> P]
  BY DEF Shape
<1> HIDE DEF g
<1>4. g.node = h.node /\ g.ptr = P
  BY <1>3
<1>5. g = [node |-> g.node, ptr |-> g.ptr]
  BY <1>3, <1>4
<1>6. Shape(g)
  BY <1>1, <1>4, <1>5 DEF Shape
<1>7. Slots(g) = Slots(h)
  BY <1>4 DEF Slots
<1>8. At(g, s) = n
  BY <1>1, <1>4 DEF At
<1>9. \A t \in Places(h) \ {s} : At(g, t) = At(h, t)
  BY <1>1, <1>4 DEF At, Places
<1>10. QED  BY <1>2, <1>4, <1>6, <1>7, <1>8, <1>9 DEF Pointed

\* A parameter is changed.
LEMMA PointSlot ==
  ASSUME NEW h, Shape(h), NEW s \in Slots(h), NEW n \in Nodes
  PROVE  Pointed(h, Point(h, s, n), s, n)
<1> DEFINE m == s[1]
           l == h.node[m].Params
           L == [l EXCEPT ![s[2]] = n]
           d == WithParams(h.node[m], L)
           g == Put(h, m, d)
<1>1. s \notin Handles /\ s \in Nodes \X Nat /\ m \in Nodes /\ s[2] \in 1..Len(l) /\ s = <<m, s[2]>>
  BY PlacesTyped
<1>2. g = Point(h, s, n)
  BY <1>1, Zenon DEF Point, Put, WithParams
<1>3. l \in Seq(Nodes) /\ IsNode(h.node[m]) /\ h.node[m].RefCount \in Nat
  BY <1>1, ParamsTyped
<1>4. /\ L \in Seq(Nodes) /\ Len(L) = Len(l)
      /\ \A j \in 1..Len(l) : L[j] = IF j = s[2] THEN n ELSE l[j]
  <2> HIDE DEF l, m
  <2>1. QED  BY <1>1, <1>3, ExceptSeq
<1> HIDE DEF L
<1>5. /\ IsNode(d) /\ d.Params = L /\ d.RefCount = h.node[m].RefCount
      /\ d.Opcode = h.node[m].Opcode /\ d.Value = h.node[m].Value
  BY <1>3, <1>4, NodeFilled
<1> HIDE DEF d
<1>6. Sets(h, g, m, d)
  BY <1>1, <1>5, PutSets
<1> HIDE DEF g
<1>7. /\ Shape(g) /\ g.ptr = h.ptr /\ g.node[m] = d
      /\ \A k \in Nodes \ {m} : g.node[k] = h.node[k]
  BY <1>6 DEF Sets
<1>8. \A k \in Nodes : /\ g.node[k].RefCount = h.node[k].RefCount
                       /\ g.node[k].Opcode = h.node[k].Opcode
                       /\ g.node[k].Value = h.node[k].Value
                       /\ Len(g.node[k].Params) = Len(h.node[k].Params)
  <2>1. ASSUME NEW k \in Nodes
        PROVE  /\ g.node[k].RefCount = h.node[k].RefCount
               /\ g.node[k].Opcode = h.node[k].Opcode
               /\ g.node[k].Value = h.node[k].Value
               /\ Len(g.node[k].Params) = Len(h.node[k].Params)
    <3>1. CASE k = m
      BY <1>4, <1>5, <1>7, <3>1
    <3>2. CASE k # m
      BY <1>7, <3>2
    <3>3. QED  BY <3>1, <3>2
  <2>2. QED  BY <2>1
<1>9. Slots(g) = Slots(h)
  <2>1. \A t : t \in Slots(g) <=> t \in Nodes \X Nat /\ t[2] \in 1..Len(g.node[t[1]].Params)
    BY <1>7, PlacesTyped
  <2>2. \A t : t \in Slots(h) <=> t \in Nodes \X Nat /\ t[2] \in 1..Len(h.node[t[1]].Params)
    BY PlacesTyped
  <2>3. QED  BY <1>8, <2>1, <2>2
<1>10. At(g, s) = n
  BY <1>1, <1>4, <1>5, <1>7 DEF At
<1>11. ASSUME NEW t \in Places(h) \ {s}
       PROVE  At(g, t) = At(h, t)
  <2>1. CASE t \in Handles
    BY <1>7, <2>1 DEF At
  <2>2. CASE t \in Slots(h)
    <3>1. /\ t \notin Handles /\ t \in Nodes \X Nat /\ t[1] \in Nodes
          /\ t[2] \in 1..Len(h.node[t[1]].Params) /\ t = <<t[1], t[2]>>
      BY <2>2, PlacesTyped
    <3>2. CASE t[1] = m
      <4>1. t[2] # s[2]
        BY <1>1, <1>11, <3>1, <3>2
      <4>2. g.node[t[1]].Params[t[2]] = h.node[t[1]].Params[t[2]]
        BY <1>4, <1>5, <1>7, <3>1, <3>2, <4>1
      <4>3. QED  BY <3>1, <4>2 DEF At
    <3>3. CASE t[1] # m
      BY <1>7, <3>1, <3>3 DEF At
    <3>4. QED  BY <3>2, <3>3
  <2>3. QED  BY <2>1, <2>2 DEF Places
<1>12. g.node[s[1]].Params = [h.node[s[1]].Params EXCEPT ![s[2]] = n]
  BY <1>5, <1>7 DEF L
<1>13. QED  BY <1>1, <1>2, <1>7, <1>8, <1>9, <1>10, <1>11, <1>12 DEF Pointed

\* A place that is not counted is where it refers to.
LEMMA HeldWithout ==
  ASSUME NEW h, Shape(h), NEW s \in Places(h), NEW x
  PROVE  /\ Held(h, {}, x) = Held(h, {s}, x) + One(At(h, s), x)
         /\ Held(h, {}, x) \in Nat /\ Held(h, {s}, x) \in Nat
<1> DEFINE C == Claims(h, x)
<1>1. IsFiniteSet(C) /\ Held(h, {}, x) \in Nat /\ Held(h, {s}, x) \in Nat
  BY HeldType
<1>2. s \in C <=> At(h, s) = x
  BY DEF Claims
<1> HIDE DEF C
<1>3. Cardinality(C \ {s}) = IF s \in C THEN Cardinality(C) - 1 ELSE Cardinality(C)
  BY <1>1, FS_RemoveElement
<1>4. Held(h, {}, x) = Cardinality(C) /\ Held(h, {s}, x) = Cardinality(C \ {s})
  <2>1. C \ {} = C
    OBVIOUS
  <2>2. QED  BY <2>1 DEF Held, C
<1>5. QED
  <2> DEFINE u == Held(h, {}, x)
             w == Held(h, {s}, x)
  <2>1. /\ u \in Nat /\ w \in Nat /\ w = IF s \in C THEN u - 1 ELSE u
    BY <1>1, <1>3, <1>4
  <2> HIDE DEF u, w
  <2>2. CASE At(h, s) = x
    BY <1>2, <2>1, <2>2 DEF One, u, w
  <2>3. CASE At(h, s) # x
    BY <1>2, <2>1, <2>3 DEF One, u, w
  <2>4. QED  BY <2>2, <2>3

\* The other places do not change.
LEMMA HeldPointed ==
  ASSUME NEW h, Shape(h), NEW g, NEW s \in Places(h), NEW n, Pointed(h, g, s, n), NEW x
  PROVE  /\ Held(g, {s}, x) = Held(h, {s}, x)
         /\ Held(g, {}, x) = Held(h, {s}, x) + One(n, x)
<1>1. Shape(g) /\ Places(g) = Places(h) /\ At(g, s) = n /\ s \in Places(g)
  BY DEF Pointed, Places
<1>2. \A t \in Places(h) \ {s} : At(g, t) = At(h, t)
  BY DEF Pointed
<1>3. Claims(g, x) \ {s} = Claims(h, x) \ {s}
  BY <1>1, <1>2 DEF Claims
<1>4. Held(g, {s}, x) = Held(h, {s}, x)
  BY <1>3 DEF Held
<1>5. QED  BY <1>1, <1>4, HeldWithout

\* A handle that is counted makes a node held.
LEMMA HeldByHandle ==
  ASSUME NEW h, Shape(h), NEW X, NEW q \in Places(h) \ X, NEW n, At(h, q) = n
  PROVE  Held(h, X, n) \in Nat \ {0}
<1>1. q \in Claims(h, n) \ X
  BY DEF Claims
<1>2. Held(h, X, n) \in Nat /\ IsFiniteSet(Claims(h, n) \ X)
  BY HeldType
<1>3. QED  BY <1>1, <1>2, FS_EmptySet DEF Held

(***************************************************************************)
(* Releases.                                                               *)
(***************************************************************************)

\* A node that is not counted is deleted, and the others are not.
DeathOK(h) ==
  \A n \in Nodes : /\ h.node[n].RefCount = 0 => h.node[n] = Deleted
                   /\ h.node[n].RefCount # 0 => h.node[n].Opcode # "deleted"

\* The handles outside X, those to be released and e make up the counts.
Balanced(h, X, l, e) ==
  /\ Shape(h)
  /\ DeathOK(h)
  /\ \A n \in Nodes : h.node[n].RefCount = Held(h, X, n) + Times(l, n) + e[n]

\* Nodes with a parameter in X are held from outside the nodes.
Guarded(h, X) ==
  \A s \in X \cap (Nodes \X Nat) : \E q \in Handles \ X : h.ptr[q] = s[1]

\* In g nodes have died, or lost count, since h.
Kept(h, g) ==
  /\ g.ptr = h.ptr
  /\ \A m \in Nodes : \/ g.node[m] = Deleted
                      \/ /\ h.node[m] # Deleted
                         /\ g.node[m].Params = h.node[m].Params
                         /\ g.node[m].Opcode = h.node[m].Opcode
                         /\ g.node[m].Value = h.node[m].Value

\* What remains to be released, at most.
Measure(x) == Cardinality(Slots(x.heap)) + Len(x.pending)

\* n is the first of l, and t are the others.
Splits(l, n, t) ==
  /\ t \in Seq(Nodes)
  /\ Len(t) \in Nat /\ Len(l) = Len(t) + 1
  /\ \A m : Times(t, m) \in Nat /\ Times(l, m) = One(n, m) + Times(t, m)

\* d is the node n of h with one claim less, which is not its last.
LosesOne(h, n, d) ==
  /\ h.node[n].RefCount > 1
  /\ d.RefCount = h.node[n].RefCount - 1
  /\ d.Params = h.node[n].Params
  /\ d.Opcode = h.node[n].Opcode
  /\ d.Value = h.node[n].Value

\* A node loses one of several claims.
LEMMA ClaimReleased ==
  ASSUME NEW h, NEW X, NEW l, NEW n \in Nodes, NEW t, NEW e \in [Nodes -> Nat],
         Splits(l, n, t), Balanced(h, X, l, e), NEW d, LosesOne(h, n, d),
         NEW g, Sets(h, g, n, d)
  PROVE  Balanced(g, X, t, e) /\ Kept(h, g) /\ Slots(g) = Slots(h)
<1>1. Shape(h) /\ DeathOK(h)
  BY DEF Balanced
<1>2. /\ Shape(g) /\ g.ptr = h.ptr /\ g.node[n] = d
      /\ \A m \in Nodes \ {n} : g.node[m] = h.node[m]
  BY DEF Sets
<1>3. h.node[n].RefCount \in Nat
  BY <1>1, ParamsTyped
<1>4. /\ g.node[n].RefCount = h.node[n].RefCount - 1 /\ h.node[n].RefCount > 1
      /\ g.node[n].Params = h.node[n].Params /\ g.node[n].Opcode = h.node[n].Opcode
      /\ g.node[n].Value = h.node[n].Value
  BY <1>2 DEF LosesOne
<1>5. \A m \in Nodes : /\ g.node[m].Params = h.node[m].Params
                       /\ g.node[m].Opcode = h.node[m].Opcode
                       /\ g.node[m].Value = h.node[m].Value
  BY <1>2, <1>4
<1>6. Slots(g) = Slots(h) /\ \A m : Held(g, X, m) = Held(h, X, m)
  BY <1>1, <1>2, <1>5, HeldSame
<1>7. h.node[n].Opcode # "deleted" /\ h.node[n] # Deleted
  BY <1>1, <1>3, <1>4, DeletedNode DEF DeathOK
<1>8. DeathOK(g)
  BY <1>1, <1>2, <1>3, <1>4, <1>7 DEF DeathOK
<1>9. ASSUME NEW m \in Nodes
      PROVE  g.node[m].RefCount = Held(g, X, m) + Times(t, m) + e[m]
  <2>1. h.node[m].RefCount = Held(h, X, m) + Times(l, m) + e[m]
    BY DEF Balanced
  <2>2. Times(t, m) \in Nat /\ Times(l, m) = One(n, m) + Times(t, m)
    BY DEF Splits
  <2>3. Held(h, X, m) \in Nat /\ e[m] \in Nat
    BY <1>1, HeldType
  <2>4. CASE m = n
    <3>1. One(n, m) = 1
      BY <2>4 DEF One
    <3>2. QED  BY <1>4, <1>6, <2>1, <2>2, <2>3, <2>4, <3>1
  <2>5. CASE m # n
    <3>1. g.node[m].RefCount = h.node[m].RefCount /\ One(n, m) = 0
      BY <1>2, <2>5 DEF One
    <3>2. QED  BY <1>6, <2>1, <2>2, <2>3, <3>1
  <2>6. QED  BY <2>4, <2>5
<1>10. Kept(h, g)
  BY <1>2, <1>5, <1>7 DEF Kept
<1>11. Balanced(g, X, t, e)
  BY <1>2, <1>8, <1>9 DEF Balanced
<1>12. QED  BY <1>6, <1>10, <1>11

\* A node that is deleted gives up its parameters.
LEMMA NodeReleased ==
  ASSUME NEW h, NEW X, NEW l, NEW n \in Nodes, NEW t, NEW e \in [Nodes -> Nat],
         Splits(l, n, t), Balanced(h, X, l, e), Guarded(h, X),
         ~(h.node[n].RefCount > 1), NEW g, Sets(h, g, n, Deleted)
  PROVE  /\ Balanced(g, X, h.node[n].Params \o t, e) /\ Kept(h, g)
         /\ Cardinality(Slots(h)) = Cardinality(Slots(g)) + Len(h.node[n].Params)
         /\ Cardinality(Slots(g)) \in Nat
<1> DEFINE p == h.node[n].Params
           u == p \o t
<1>1. Shape(h) /\ DeathOK(h)
  BY DEF Balanced
<1>2. /\ Shape(g) /\ g.ptr = h.ptr /\ g.node[n] = Deleted
      /\ \A m \in Nodes \ {n} : g.node[m] = h.node[m]
  BY DEF Sets
<1>3. p \in Seq(Nodes) /\ t \in Seq(Nodes) /\ Len(p) \in Nat /\ DOMAIN p = 1..Len(p)
  BY <1>1, ParamsTyped DEF Splits
<1>4. \A m : Times(u, m) = Times(p, m) + Times(t, m)
  <2> HIDE DEF p
  <2>1. QED  BY <1>3, TimesConcat
<1>5. /\ h.node[n].RefCount = 1 /\ Held(h, X, n) = 0 /\ Times(t, n) = 0 /\ e[n] = 0
  <2>1. h.node[n].RefCount = Held(h, X, n) + Times(l, n) + e[n]
    BY DEF Balanced
  <2>2. Times(t, n) \in Nat /\ Times(l, n) = 1 + Times(t, n)
    BY DEF Splits, One
  <2>3. Held(h, X, n) \in Nat /\ e[n] \in Nat /\ h.node[n].RefCount \in Nat
    BY <1>1, HeldType, ParamsTyped
  <2>4. QED  BY <2>1, <2>2, <2>3
<1>6. X \cap ({n} \X Nat) = {}
  <2>1. SUFFICES ASSUME NEW s \in X, s \in {n} \X Nat
                 PROVE  FALSE
    OBVIOUS
  <2>2. s \in X \cap (Nodes \X Nat) /\ s[1] = n
    BY <2>1
  <2>3. PICK q \in Handles \ X : h.ptr[q] = n
    BY <2>2 DEF Guarded
  <2>4. q \in Places(h) \ X /\ At(h, q) = n
    BY <2>3 DEF Places, At
  <2>5. Held(h, X, n) \in Nat \ {0}
    BY <1>1, <2>4, HeldByHandle
  <2>6. QED  BY <1>5, <2>5
<1>7. g.node[n].Params = <<>> /\ g.node[n].RefCount = 0 /\ \A m : Times(g.node[n].Params, m) = 0
  BY <1>2, DeletedNode, TimesEmpty
<1>8. \A k \in Nodes \ {n} : g.node[k].Params = h.node[k].Params
  BY <1>2
<1>9. \A m : /\ Held(g, X, m) \in Nat /\ Held(h, X, m) \in Nat /\ Times(p, m) \in Nat
             /\ Held(g, X, m) + Times(p, m) = Held(h, X, m)
  <2>1. ASSUME NEW m
        PROVE  /\ Held(g, X, m) \in Nat /\ Held(h, X, m) \in Nat /\ Times(p, m) \in Nat
               /\ Held(g, X, m) + Times(p, m) = Held(h, X, m) + 0
    BY <1>1, <1>2, <1>6, <1>7, <1>8, HeldByParams
  <2> HIDE DEF p
  <2>2. QED  BY <2>1
<1> HIDE DEF p
<1>10. ASSUME NEW m \in Nodes
       PROVE  g.node[m].RefCount = Held(g, X, m) + Times(u, m) + e[m]
  <2>1. h.node[m].RefCount = Held(h, X, m) + Times(l, m) + e[m]
    BY DEF Balanced
  <2>2. Times(t, m) \in Nat /\ Times(l, m) = One(n, m) + Times(t, m)
    BY DEF Splits
  <2>3. e[m] \in Nat /\ Times(u, m) = Times(p, m) + Times(t, m)
    BY <1>4
  <2>4. /\ Held(g, X, m) \in Nat /\ Held(h, X, m) \in Nat /\ Times(p, m) \in Nat
        /\ Held(g, X, m) + Times(p, m) = Held(h, X, m)
    BY <1>9
  <2> HIDE DEF u
  <2>5. CASE m = n
    <3>1. Held(g, X, m) + Times(p, m) = 0
      BY <1>5, <2>4, <2>5
    <3>2. Held(g, X, m) = 0 /\ Times(p, m) = 0
      BY <2>4, <3>1
    <3>3. Times(t, m) = 0 /\ e[m] = 0 /\ g.node[m].RefCount = 0
      BY <1>5, <1>7, <2>5
    <3>4. QED  BY <2>3, <3>2, <3>3
  <2>6. CASE m # n
    <3>1. g.node[m].RefCount = h.node[m].RefCount /\ One(n, m) = 0
      BY <1>2, <2>6 DEF One
    <3>2. QED  BY <2>1, <2>2, <2>3, <2>4, <3>1
  <2>7. QED  BY <2>5, <2>6
<1>11. DeathOK(g)
  <2>1. ASSUME NEW m \in Nodes
        PROVE  /\ g.node[m].RefCount = 0 => g.node[m] = Deleted
               /\ g.node[m].RefCount # 0 => g.node[m].Opcode # "deleted"
    <3>1. CASE m = n
      BY <1>2, <1>7, <3>1
    <3>2. CASE m # n
      BY <1>1, <1>2, <3>2 DEF DeathOK
    <3>3. QED  BY <3>1, <3>2
  <2>2. QED  BY <2>1 DEF DeathOK
<1>12. Kept(h, g)
  <2>1. ASSUME NEW m \in Nodes, g.node[m] # Deleted
        PROVE  /\ h.node[m] # Deleted /\ g.node[m].Params = h.node[m].Params
               /\ g.node[m].Opcode = h.node[m].Opcode
    BY <1>2, <2>1
  <2>2. QED  BY <1>2, <2>1 DEF Kept
<1>13. Balanced(g, X, u, e)
  BY <1>2, <1>10, <1>11 DEF Balanced
<1>14. /\ Cardinality(Slots(h)) = Cardinality(Slots(g)) + Len(p)
       /\ Cardinality(Slots(g)) \in Nat
  <2> DEFINE G == Slots(g)
             A == {n}
             B == 1..Len(p)
             R == A \X B
  <2>1. IsFiniteSet(G) /\ Cardinality(G) \in Nat
    BY <1>2, PlacesFinite, FS_CardinalityType
  <2>2. IsFiniteSet(R) /\ Cardinality(R) = Len(p)
    <3>1. IsFiniteSet(A) /\ Cardinality(A) = 1
      BY FS_Singleton
    <3>2. IsFiniteSet(B) /\ Cardinality(B) = Len(p)
      <4> DEFINE k == Len(p)
      <4>1. k \in Nat /\ k \in Int /\ 1 \in Int /\ (1 > k => k = 0) /\ (k - 1) + 1 = k
        BY <1>3
      <4> HIDE DEF k
      <4>2. IsFiniteSet(1..k) /\ Cardinality(1..k) = k
        BY <4>1, FS_Interval
      <4>3. QED  BY <4>2 DEF k
    <3> HIDE DEF A, B
    <3>3. IsFiniteSet(A \X B) /\ Cardinality(A \X B) = Cardinality(A) * Cardinality(B)
      BY <3>1, <3>2, FS_Product
    <3> DEFINE k == Len(p)
    <3>4. k \in Nat /\ Cardinality(A \X B) = 1 * k
      BY <1>3, <3>1, <3>2, <3>3
    <3> HIDE DEF k
    <3>5. Cardinality(A \X B) = k
      BY <3>4
    <3>6. QED  BY <3>3, <3>5 DEF k
  <2>3. Slots(h) = G \cup R
    <3>1. \A s : s \in Slots(h) <=> s \in Nodes \X Nat /\ s[2] \in 1..Len(h.node[s[1]].Params)
      BY <1>1, PlacesTyped
    <3>2. \A s : s \in Slots(g) <=> s \in Nodes \X Nat /\ s[2] \in 1..Len(g.node[s[1]].Params)
      BY <1>2, PlacesTyped
    <3>3. Len(g.node[n].Params) = 0
      BY <1>7
    <3>4. ASSUME NEW s \in Slots(h)
          PROVE  s \in G \cup R
      <4>1. s \in Nodes \X Nat /\ s[1] \in Nodes /\ s[2] \in 1..Len(h.node[s[1]].Params)
        BY <3>1
      <4>2. CASE s[1] = n
        BY <4>1, <4>2 DEF p
      <4>3. CASE s[1] # n
        BY <1>2, <3>2, <4>1, <4>3
      <4>4. QED  BY <4>2, <4>3
    <3>5. ASSUME NEW s \in G
          PROVE  s \in Slots(h)
      <4>1. s \in Nodes \X Nat /\ s[1] \in Nodes /\ s[2] \in 1..Len(g.node[s[1]].Params)
        BY <3>2
      <4>2. s[1] # n
        BY <3>3, <4>1
      <4>3. QED  BY <1>2, <3>1, <4>1, <4>2
    <3>6. ASSUME NEW s \in R
          PROVE  s \in Slots(h)
      <4>1. PICK i \in 1..Len(p) : s = <<n, i>>
        BY <3>6
      <4>2. i \in Nat
        BY <1>3
      <4>3. s \in Nodes \X Nat /\ s[1] = n /\ s[2] = i
        BY <4>1, <4>2
      <4>4. QED  BY <3>1, <4>1, <4>3 DEF p
    <3>7. QED  BY <3>4, <3>5, <3>6
  <2>4. G \cap R = {}
    <3>1. SUFFICES ASSUME NEW s \in G, s \in R
                   PROVE  FALSE
      OBVIOUS
    <3>2. s[1] = n /\ s[2] \in 1..Len(g.node[s[1]].Params)
      BY <1>2, <3>1, PlacesTyped
    <3>3. QED  BY <1>7, <3>2
  <2> HIDE DEF G, R
  <2>5. Cardinality(G \cup R) = Cardinality(G) + Cardinality(R) - Cardinality(G \cap R)
    BY <2>1, <2>2, FS_Union
  <2>6. Cardinality(G \cap R) = 0
    BY <2>4, FS_EmptySet, Zenon
  <2> DEFINE k == Cardinality(G)
  <2>7. k \in Nat /\ Cardinality(Slots(h)) = k + Len(p) - 0
    BY <2>1, <2>2, <2>3, <2>5, <2>6, Zenon
  <2> HIDE DEF k
  <2>8. Cardinality(Slots(h)) = k + Len(p)
    BY <1>3, <2>7
  <2>9. QED  BY <2>7, <2>8 DEF k, G
<1>15. QED  BY <1>12, <1>13, <1>14 DEF p, u

\* What a release does.
LEMMA ReleaseNextIs ==
  ASSUME NEW x, NEW n, n = Head(x.pending), NEW d, d = x.heap.node[n]
  PROVE  /\ d.RefCount > 1 =>
              /\ ReleaseNext(x).heap = Put(x.heap, n, WithCount(d, d.RefCount - 1))
              /\ ReleaseNext(x).pending = Tail(x.pending)
         /\ ~(d.RefCount > 1) =>
              /\ ReleaseNext(x).heap = Put(x.heap, n, Deleted)
              /\ ReleaseNext(x).pending = d.Params \o Tail(x.pending)
<1> DEFINE h == x.heap
           l == x.pending
           y == ReleaseNext(x)
<1>1. ASSUME NEW g, NEW u, y = [heap |-> g, pending |-> u]
      PROVE  y.heap = g /\ y.pending = u
  <2> HIDE DEF y
  <2>1. QED  BY <1>1
<1>2. CASE d.RefCount > 1
  <2> DEFINE g == Put(h, n, WithCount(d, d.RefCount - 1))
             t == Tail(l)
  <2>1. y = [heap |-> [h EXCEPT !.node[n].RefCount = @ - 1], pending |-> t]
    BY <1>2, Zenon DEF ReleaseNext
  <2>2. g = [h EXCEPT !.node[n].RefCount = @ - 1]
    BY Zenon DEF Put, WithCount
  <2> HIDE DEF g, t, y
  <2>3. y = [heap |-> g, pending |-> t]
    BY <2>1, <2>2, Zenon
  <2>4. y.heap = g /\ y.pending = t
    BY <1>1, <2>3, Zenon
  <2>5. QED  BY <1>2, <2>4, Zenon DEF g, t, y
<1>3. CASE ~(d.RefCount > 1)
  <2> DEFINE g == Put(h, n, Deleted)
             u == d.Params \o Tail(l)
  <2>1. y = [heap |-> [h EXCEPT !.node[n] = Deleted], pending |-> u]
    BY <1>3, Zenon DEF ReleaseNext
  <2>2. g = [h EXCEPT !.node[n] = Deleted]
    BY Zenon DEF Put
  <2> HIDE DEF g, u, y
  <2>3. y = [heap |-> g, pending |-> u]
    BY <2>1, <2>2, Zenon
  <2>4. y.heap = g /\ y.pending = u
    BY <1>1, <2>3, Zenon
  <2>5. QED  BY <1>3, <2>4, Zenon DEF g, u, y
<1>4. QED  BY <1>2, <1>3, Zenon

\* g and u come after the first release of h and l.
Steps(h, X, l, e, g, u) ==
  /\ Balanced(g, X, u, e)
  /\ u \in Seq(Nodes)
  /\ Kept(h, g)
  /\ Cardinality(Slots(g)) + Len(u) = Cardinality(Slots(h)) + Len(l) - 1

\* To release one of several claims.
LEMMA ClaimSteps ==
  ASSUME NEW h, NEW X, NEW l, NEW n \in Nodes, NEW t, NEW e \in [Nodes -> Nat],
         Splits(l, n, t), Balanced(h, X, l, e), h.node[n].RefCount > 1
  PROVE  Steps(h, X, l, e, Put(h, n, WithCount(h.node[n], h.node[n].RefCount - 1)), t)
<1> DEFINE c == h.node[n]
           b == c.RefCount - 1
           d == WithCount(c, b)
           g == Put(h, n, d)
<1>1. Shape(h) /\ t \in Seq(Nodes) /\ Len(t) \in Nat /\ Len(l) = Len(t) + 1
  BY DEF Balanced, Splits
<1>2. IsNode(c) /\ c.RefCount \in Nat
  BY <1>1, ParamsTyped
<1>3. b \in Nat /\ b = h.node[n].RefCount - 1
  BY <1>2
<1> HIDE DEF b, c
<1>4. /\ IsNode(d) /\ d.RefCount = b /\ d.Params = c.Params /\ d.Opcode = c.Opcode
      /\ d.Value = c.Value
  BY <1>2, <1>3, NodeCounted
<1> HIDE DEF d
<1>5. LosesOne(h, n, d)
  BY <1>3, <1>4 DEF LosesOne, c
<1>6. Sets(h, g, n, d)
  BY <1>1, <1>4, PutSets
<1> HIDE DEF g
<1>7. Balanced(g, X, t, e) /\ Kept(h, g) /\ Slots(g) = Slots(h)
  BY <1>5, <1>6, ClaimReleased
<1>8. Cardinality(Slots(h)) \in Nat
  BY <1>1, PlacesFinite, FS_CardinalityType
<1>9. Steps(h, X, l, e, g, t)
  BY <1>1, <1>7, <1>8 DEF Steps
<1>10. QED  BY <1>9 DEF g, d, b, c

\* To release the last claim of a node.
LEMMA NodeSteps ==
  ASSUME NEW h, NEW X, NEW l, NEW n \in Nodes, NEW t, NEW e \in [Nodes -> Nat],
         Splits(l, n, t), Balanced(h, X, l, e), Guarded(h, X), ~(h.node[n].RefCount > 1)
  PROVE  Steps(h, X, l, e, Put(h, n, Deleted), h.node[n].Params \o t)
<1> DEFINE p == h.node[n].Params
           u == p \o t
           g == Put(h, n, Deleted)
<1>1. Shape(h) /\ t \in Seq(Nodes) /\ Len(t) \in Nat /\ Len(l) = Len(t) + 1
  BY DEF Balanced, Splits
<1>2. p \in Seq(Nodes) /\ Len(p) \in Nat
  BY <1>1, ParamsTyped
<1>3. Sets(h, g, n, Deleted)
  BY <1>1, DeletedNode, PutSets
<1> HIDE DEF g
<1>4. /\ Balanced(g, X, u, e) /\ Kept(h, g)
      /\ Cardinality(Slots(h)) = Cardinality(Slots(g)) + Len(p)
      /\ Cardinality(Slots(g)) \in Nat
  BY <1>3, NodeReleased
<1> HIDE DEF p
<1>5. u \in Seq(Nodes) /\ Len(u) = Len(p) + Len(t)
  BY <1>1, <1>2, ConcatProperties
<1> HIDE DEF u
<1>6. Steps(h, X, l, e, g, u)
  BY <1>1, <1>2, <1>4, <1>5 DEF Steps
<1>7. QED  BY <1>6 DEF u, p, g

\* The next release keeps the balance, and leaves one release less to do.
LEMMA NextReleased ==
  ASSUME NEW x, x.pending \in Seq(Nodes), x.pending # <<>>,
         NEW X, NEW e \in [Nodes -> Nat], Balanced(x.heap, X, x.pending, e), Guarded(x.heap, X)
  PROVE  Steps(x.heap, X, x.pending, e, ReleaseNext(x).heap, ReleaseNext(x).pending)
<1> DEFINE h == x.heap
           l == x.pending
           n == Head(l)
           t == Tail(l)
           y == ReleaseNext(x)
           d == h.node[n]
<1>1. /\ d.RefCount > 1 => y.heap = Put(h, n, WithCount(d, d.RefCount - 1)) /\ y.pending = t
      /\ ~(d.RefCount > 1) => y.heap = Put(h, n, Deleted) /\ y.pending = d.Params \o t
  BY ReleaseNextIs, Zenon
<1>2. l \in Seq(Nodes) /\ l # <<>> /\ Balanced(h, X, l, e) /\ Guarded(h, X)
  OBVIOUS
<1> HIDE DEF h, l, y
<1>3. /\ n \in Nodes /\ t \in Seq(Nodes) /\ Len(t) \in Nat /\ Len(l) = Len(t) + 1
  BY <1>2, HeadTailProperties, LenProperties
<1>4. \A m : Times(l, m) = One(n, m) + Times(t, m)
  BY <1>2, TimesHead
<1> HIDE DEF n, t
<1>5. \A m : Times(t, m) \in Nat
  BY <1>3, TimesType
<1>6. Splits(l, n, t)
  BY <1>3, <1>4, <1>5 DEF Splits
<1>7. CASE d.RefCount > 1
  <2>1. Steps(h, X, l, e, Put(h, n, WithCount(d, d.RefCount - 1)), t)
    BY <1>2, <1>3, <1>6, <1>7, ClaimSteps, Zenon
  <2>2. QED  BY <1>1, <1>7, <2>1, Zenon DEF h, l, y
<1>8. CASE ~(d.RefCount > 1)
  <2>1. Steps(h, X, l, e, Put(h, n, Deleted), d.Params \o t)
    BY <1>2, <1>3, <1>6, <1>8, NodeSteps, Zenon
  <2>2. QED  BY <1>1, <1>8, <2>1, Zenon DEF h, l, y
<1>9. QED  BY <1>7, <1>8

\* What is left of a list of releases, and of the heap, after one more of them.
NextOf(x) == IF x.pending = <<>> THEN x ELSE ReleaseNext(x)

\* f has the heap and the list after each number of releases.
Unwinds(f, h, l, N) ==
  /\ f[0] = [heap |-> h, pending |-> l]
  /\ \A k \in 1..N : f[k] = NextOf(f[k - 1])

\* The releases are the function that their recursive definition describes.
LEMMA ReleasesDefined ==
  ASSUME NEW h, NEW l, NEW N \in Nat, N = Cardinality(Slots(h)) + Len(l)
  PROVE  \E f : Unwinds(f, h, l, N) /\ ReleaseAll(h, l) = f[N].heap
<1> DEFINE a == [heap |-> h, pending |-> l]
           Runs(g, n) == /\ g[0] = a
                         /\ \A k \in 1..n : g[k] = NextOf(g[k - 1])
           Stuck == {n \in 0..N : ~\E g : DOMAIN g = 0..n /\ Runs(g, n)}
<1> HIDE DEF a
<1>1. Stuck = {}
  <2>1. SUFFICES ASSUME Stuck # {}
                 PROVE  FALSE
    OBVIOUS
  <2>2. Stuck \in SUBSET Nat
    OBVIOUS
  <2>3. PICK m \in Stuck : \A n \in Stuck : m <= n
    BY <2>1, <2>2, LeastNatural
  <2>4. CASE m = 0
    <3> DEFINE g == [k \in 0..0 |-> a]
    <3>1. 0 \in 0..0 /\ 1..0 = {}
      OBVIOUS
    <3>2. DOMAIN g = 0..0 /\ Runs(g, 0)
      BY <3>1
    <3>3. QED  BY <2>4, <3>2
  <2>5. CASE m # 0
    <3>1. m \in Nat /\ m - 1 \in 0..N /\ m - 1 \notin Stuck
      BY <2>3, <2>5
    <3>2. PICK g : DOMAIN g = 0..(m - 1) /\ Runs(g, m - 1)
      BY <3>1
    <3> DEFINE r == [k \in 0..m |-> IF k = m THEN NextOf(g[m - 1]) ELSE g[k]]
    <3>3. Runs(r, m)
      <4>1. r[0] = a
        BY <2>5, <3>1, <3>2
      <4>2. ASSUME NEW k \in 1..m
            PROVE  r[k] = NextOf(r[k - 1])
        <5>1. k \in 0..m /\ k - 1 \in 0..m /\ k - 1 # m
          BY <3>1
        <5>2. r[k - 1] = g[k - 1]
          BY <5>1
        <5>3. CASE k = m
          BY <5>1, <5>2, <5>3
        <5>4. CASE k # m
          <6>1. k \in 1..(m - 1)
            BY <3>1, <5>4
          <6>2. QED  BY <3>2, <5>1, <5>2, <5>4, <6>1
        <5>5. QED  BY <5>3, <5>4
      <4>3. QED  BY <4>1, <4>2
    <3>4. DOMAIN r = 0..m
      OBVIOUS
    <3> HIDE DEF r
    <3>5. m \notin Stuck
      BY <3>3, <3>4
    <3>6. QED  BY <2>3, <3>5
  <2>6. QED  BY <2>4, <2>5
<1>2. PICK g : DOMAIN g = 0..N /\ Runs(g, N)
  BY <1>1
<1> DEFINE Body(f) == [k \in 0..N |-> IF k = 0 THEN a ELSE NextOf(f[k - 1])]
           r == [k \in 0..N |-> g[k]]
           c == CHOOSE f : f = Body(f)
<1>3. r = Body(r)
  <2>1. ASSUME NEW k \in 0..N
        PROVE  r[k] = Body(r)[k]
    <3>1. CASE k = 0
      BY <1>2, <3>1
    <3>2. CASE k # 0
      <4>1. k \in 1..N /\ k - 1 \in 0..N
        BY <3>2
      <4>2. QED  BY <1>2, <3>2, <4>1
    <3>3. QED  BY <3>1, <3>2
  <2>2. QED  BY <2>1
<1>4. c = Body(c)
  <2> HIDE DEF r
  <2>1. QED  BY <1>3
<1>5. ReleaseAll(h, l) = c[N].heap
  BY DEF ReleaseAll, NextOf, a
<1> HIDE DEF c, r
<1>6. ASSUME NEW k \in 1..N
      PROVE  c[k] = NextOf(c[k - 1])
  <2>1. k \in 0..N /\ k # 0
    OBVIOUS
  <2>2. QED  BY <1>4, <2>1
<1>7. c[0] = a
  BY <1>4
<1>8. Unwinds(c, h, l, N)
  BY <1>6, <1>7 DEF Unwinds, a
<1>9. QED  BY <1>5, <1>8

\* The state of a list of releases, n of which may be left.
Unwound(x, h, X, e, n) ==
  /\ Balanced(x.heap, X, x.pending, e)
  /\ x.pending \in Seq(Nodes)
  /\ Kept(h, x.heap)
  /\ x.pending = <<>> \/ Measure(x) = n

\* Each release leads from such a state to the next.
LEMMA UnwoundStep ==
  ASSUME NEW x, NEW h, NEW X, NEW e \in [Nodes -> Nat], NEW n \in Nat,
         Guarded(h, X), Unwound(x, h, X, e, n)
  PROVE  Unwound(NextOf(x), h, X, e, n - 1)
<1>1. CASE x.pending = <<>>
  <2>1. NextOf(x) = x
    BY <1>1 DEF NextOf
  <2>2. Unwound(x, h, X, e, n - 1)
    BY <1>1 DEF Unwound
  <2>3. QED  BY <2>1, <2>2
<1>2. CASE x.pending # <<>>
  <2> DEFINE y == ReleaseNext(x)
  <2>1. /\ Balanced(x.heap, X, x.pending, e) /\ x.pending \in Seq(Nodes)
        /\ Kept(h, x.heap) /\ Measure(x) = n
    BY <1>2 DEF Unwound
  <2>2. Guarded(x.heap, X)
    BY <2>1 DEF Guarded, Kept
  <2>3. Steps(x.heap, X, x.pending, e, y.heap, y.pending)
    BY <1>2, <2>1, <2>2, NextReleased
  <2>4. NextOf(x) = y
    BY <1>2, Zenon DEF NextOf
  <2> HIDE DEF y
  <2>5. /\ Balanced(y.heap, X, y.pending, e) /\ y.pending \in Seq(Nodes)
        /\ Kept(x.heap, y.heap)
        /\ Cardinality(Slots(y.heap)) + Len(y.pending)
             = Cardinality(Slots(x.heap)) + Len(x.pending) - 1
    BY <2>3 DEF Steps
  <2>6. Measure(y) = n - 1
    <3>1. Cardinality(Slots(x.heap)) \in Nat /\ Cardinality(Slots(y.heap)) \in Nat
      BY <2>1, <2>5, PlacesFinite, FS_CardinalityType DEF Balanced
    <3>2. Len(x.pending) \in Nat /\ Len(y.pending) \in Nat
      BY <2>1, <2>5, LenProperties
    <3> DEFINE a == Cardinality(Slots(x.heap))
               b == Len(x.pending)
               c == Cardinality(Slots(y.heap))
               d == Len(y.pending)
    <3>3. /\ a \in Nat /\ b \in Nat /\ c \in Nat /\ d \in Nat
          /\ c + d = a + b - 1 /\ Measure(x) = a + b /\ Measure(y) = c + d
      BY <2>5, <3>1, <3>2, Zenon DEF Measure
    <3> HIDE DEF a, b, c, d
    <3>4. QED  BY <2>1, <3>3
  <2>7. Kept(h, y.heap)
    BY <2>1, <2>5 DEF Kept
  <2>8. Unwound(y, h, X, e, n - 1)
    BY <2>5, <2>6, <2>7 DEF Unwound
  <2>9. QED  BY <2>4, <2>8
<1>3. QED  BY <1>1, <1>2

\* To release a list of handles takes them off the balance.
LEMMA ReleaseAllBalanced ==
  ASSUME NEW h, NEW X, NEW l \in Seq(Nodes), NEW e \in [Nodes -> Nat],
         Balanced(h, X, l, e), Guarded(h, X)
  PROVE  /\ Balanced(ReleaseAll(h, l), X, <<>>, e)
         /\ Kept(h, ReleaseAll(h, l))
<1> DEFINE N == Cardinality(Slots(h)) + Len(l)
<1>1. N \in Nat
  BY PlacesFinite, FS_CardinalityType, LenProperties DEF Balanced
<1>2. PICK f : Unwinds(f, h, l, N) /\ ReleaseAll(h, l) = f[N].heap
  BY <1>1, ReleasesDefined
<1>3. Unwound(f[0], h, X, e, N)
  <2> DEFINE x == f[0]
  <2>1. x = [heap |-> h, pending |-> l]
    BY <1>2 DEF Unwinds
  <2> HIDE DEF x
  <2>2. x.heap = h /\ x.pending = l
    BY <2>1
  <2>4. Kept(h, h)
    BY DEF Kept
  <2>5. Measure(x) = N
    BY <2>2 DEF Measure
  <2>6. QED  BY <2>2, <2>4, <2>5 DEF Unwound, x
<1> HIDE DEF N
<1> DEFINE S == {k \in 0..N : Unwound(f[k], h, X, e, N - k)}
<1>4. 0 \in S
  BY <1>1, <1>3
<1>5. ASSUME NEW k \in 1..N, k - 1 \in S
      PROVE  k \in S
  <2> DEFINE j == k - 1
             n == N - j
             x == f[j]
  <2>1. n \in Nat /\ n - 1 = N - k /\ k \in 0..N
    BY <1>1
  <2>2. Unwound(x, h, X, e, n)
    <3>1. j \in S
      BY <1>5
    <3> HIDE DEF j
    <3>2. QED  BY <3>1
  <2>3. f[k] = NextOf(x)
    BY <1>2 DEF Unwinds
  <2> HIDE DEF n, x, j
  <2>4. Unwound(NextOf(x), h, X, e, n - 1)
    BY <2>1, <2>2, UnwoundStep
  <2>5. QED  BY <2>1, <2>3, <2>4
<1> HIDE DEF S
<1>6. \A k \in 0..N : k \in S
  BY <1>1, <1>4, <1>5, Induction
<1>7. Unwound(f[N], h, X, e, 0)
  <2>1. N \in 0..N /\ N - N = 0
    BY <1>1
  <2>2. QED  BY <1>6, <2>1 DEF S
<1> DEFINE x == f[N]
<1> HIDE DEF x
<1>8. /\ Balanced(x.heap, X, x.pending, e) /\ x.pending \in Seq(Nodes)
      /\ Kept(h, x.heap) /\ (x.pending = <<>> \/ Measure(x) = 0)
  BY <1>7 DEF Unwound, x
<1>9. x.pending = <<>>
  <2>1. CASE Measure(x) = 0
    <3>1. Cardinality(Slots(x.heap)) \in Nat
      BY <1>8, PlacesFinite, FS_CardinalityType DEF Balanced
    <3>2. Len(x.pending) \in Nat /\ Cardinality(Slots(x.heap)) + Len(x.pending) = 0
      BY <1>8, <2>1, LenProperties DEF Measure
    <3>3. Len(x.pending) = 0
      BY <3>1, <3>2
    <3>4. QED  BY <1>8, <3>3, EmptySeq
  <2>2. QED  BY <1>8, <2>1
<1>10. QED  BY <1>2, <1>8, <1>9 DEF x

(***************************************************************************)
(* Heaps whose counts are exact, between calls.                            *)
(***************************************************************************)
None == [n \in Nodes |-> 0]

\* A claim on n that has no place yet.
Only(n) == [x \in Nodes |-> One(n, x)]

Exact(h) == Balanced(h, {}, <<>>, None)

\* Addresses that are not in use.
Free(h) == Cardinality(Nodes \ Live(h))

\* s is a place whose node, if it is in one, is held from outside.
Rooted(h, s) ==
  /\ s \in Places(h)
  /\ s \notin Handles => \E q \in Handles : h.ptr[q] = s[1]

\* The node that s is in.
Inside(s) == IF s \in Handles THEN {} ELSE {s[1]}

\* The nodes that live on, those in M aside, are what they were but for their
\* parameters.
Named(h, g, M) ==
  \A m \in Nodes \ M : m \in Live(h) /\ m \in Live(g) =>
    g.node[m].Opcode = h.node[m].Opcode /\ g.node[m].Value = h.node[m].Value

\* Of the nodes in g one is new if k is 1, and none if k is 0.
Born(h, g, k) ==
  /\ k = 0 => Live(g) \subseteq Live(h)
  /\ k = 1 => \A m, n \in Live(g) \ Live(h) : m = n

\* From h to g only the handles in Q, the nodes in M, and of the free addresses k
\* at most have changed.
Does(h, g, Q, M, k) ==
  /\ Exact(g)
  /\ \A q \in Handles \ Q : g.ptr[q] = h.ptr[q]
  /\ \A m \in Nodes \ M : m \in Live(h) /\ m \in Live(g) =>
                            g.node[m].Params = h.node[m].Params
  /\ Named(h, g, M)
  /\ Born(h, g, k)
  /\ Free(h) <= Free(g) + k

\* The nodes that live on have as many parameters.
SameLengths(h, g) ==
  \A m \in Nodes : m \in Live(h) /\ m \in Live(g) =>
                     Len(g.node[m].Params) = Len(h.node[m].Params)

\* What ChangeTo() does once it has claimed n.
Replace(h, s, n) == Point(Release(h, At(h, s)), s, n)

\* What it means that the counts are exact.
LEMMA ExactIs ==
  ASSUME NEW h
  PROVE  Exact(h) <=> /\ Shape(h) /\ DeathOK(h)
                      /\ \A n \in Nodes : h.node[n].RefCount = Held(h, {}, n)
<1>1. ASSUME Shape(h), NEW n \in Nodes
      PROVE  Held(h, {}, n) + Times(<<>>, n) + None[n] = Held(h, {}, n)
  <2>1. Held(h, {}, n) \in Nat /\ Times(<<>>, n) = 0 /\ None[n] = 0
    BY <1>1, HeldType, TimesEmpty DEF None
  <2> HIDE DEF None
  <2>2. QED  BY <2>1
<1>2. QED  BY <1>1 DEF Exact, Balanced

\* A node that a place refers to is alive.
LEMMA ClaimedLive ==
  ASSUME NEW h, Exact(h), NEW s \in Places(h), At(h, s) \in Nodes
  PROVE  h.node[At(h, s)].RefCount # 0 /\ At(h, s) \in Live(h)
<1>1. /\ Shape(h) /\ DeathOK(h)
      /\ h.node[At(h, s)].RefCount = Held(h, {}, At(h, s))
  BY ExactIs
<1>2. Held(h, {}, At(h, s)) # 0
  <2>1. s \in Places(h) \ {}
    OBVIOUS
  <2>2. QED  BY <1>1, <2>1, HeldByHandle
<1>3. QED  BY <1>1, <1>2, DeletedNode DEF Live

\* The nodes that are alive are those that are counted.
LEMMA LiveCounted ==
  ASSUME NEW h, DeathOK(h)
  PROVE  Live(h) = {n \in Nodes : h.node[n].RefCount # 0}
BY DeletedNode DEF Live, DeathOK

\* There are finitely many free addresses.
LEMMA FreeType ==
  ASSUME NEW h
  PROVE  /\ Free(h) \in Nat /\ IsFiniteSet(Nodes \ Live(h))
         /\ \A k : Room(h, k) <=> Free(h) >= k
<1>1. IsFiniteSet(Nodes \ Live(h))
  BY NodesAssumption, FS_Difference
<1>2. QED  BY <1>1, FS_CardinalityType DEF Free, Room

\* Fewer nodes that are alive leave more addresses free.
LEMMA FreeGrows ==
  ASSUME NEW h, NEW g, Live(g) \subseteq Live(h)
  PROVE  Free(h) <= Free(g)
<1>1. Nodes \ Live(h) \subseteq Nodes \ Live(g)
  OBVIOUS
<1>2. IsFiniteSet(Nodes \ Live(g))
  BY FreeType
<1>3. QED  BY <1>1, <1>2, FS_Subset DEF Free

\* One new node takes one address.
LEMMA FreeLessOne ==
  ASSUME NEW h, NEW g, NEW f, Live(g) \subseteq Live(h) \cup {f}
  PROVE  Free(h) <= Free(g) + 1
<1> DEFINE A == Nodes \ Live(h)
           B == Nodes \ Live(g)
<1>1. A \subseteq B \cup {f}
  OBVIOUS
<1>2. IsFiniteSet(A) /\ IsFiniteSet(B) /\ Cardinality(A) \in Nat /\ Cardinality(B) \in Nat
  BY FreeType DEF Free
<1> HIDE DEF A, B
<1>3. /\ IsFiniteSet(B \cup {f})
      /\ Cardinality(B \cup {f}) = IF f \in B THEN Cardinality(B) ELSE Cardinality(B) + 1
  BY <1>2, FS_AddElement
<1>4. Cardinality(A) <= Cardinality(B \cup {f})
  BY <1>1, <1>3, FS_Subset
<1>5. Cardinality(A) <= Cardinality(B) + 1
  BY <1>2, <1>3, <1>4
<1>6. QED  BY <1>5 DEF A, B, Free

\* The next node is put where none is.
LEMMA FreshIsFree ==
  ASSUME NEW h, Free(h) >= 1
  PROVE  Fresh(h) \in Nodes /\ Fresh(h) \notin Live(h) /\ h.node[Fresh(h)] = Deleted
<1> DEFINE S == Nodes \ Live(h)
<1>1. S # {}
  BY FS_EmptySet DEF Free
<1>2. S \in SUBSET Nat
  BY NodesAssumption
<1>3. Min(S) \in S
  BY <1>1, <1>2, MinIsLeast
<1>4. QED  BY <1>3 DEF Fresh, Live

\* The node of a handle that is left alone lives on, with its parameters.
LEMMA HandleKept ==
  ASSUME NEW h, Exact(h), NEW g, NEW Q, NEW M, NEW k, Does(h, g, Q, M, k),
         NEW q \in Handles, q \notin Q, h.ptr[q] \in Nodes
  PROVE  /\ g.ptr[q] = h.ptr[q]
         /\ h.ptr[q] \in Live(h) /\ h.ptr[q] \in Live(g)
         /\ h.ptr[q] \notin M => g.node[h.ptr[q]].Params = h.node[h.ptr[q]].Params
<1>1. Exact(g) /\ g.ptr[q] = h.ptr[q]
  BY DEF Does
<1>2. /\ q \in Places(h) /\ At(h, q) = h.ptr[q]
      /\ q \in Places(g) /\ At(g, q) = h.ptr[q]
  BY <1>1 DEF Places, At
<1>3. h.ptr[q] \in Live(h) /\ h.ptr[q] \in Live(g)
  BY <1>1, <1>2, ClaimedLive
<1>4. QED  BY <1>1, <1>3 DEF Does

(***************************************************************************)
(* FPOPT_autoptr.                                                          *)
(***************************************************************************)

\* The node that s is in has n there, and is the same otherwise.
SlotFilled(h, g, s, n) ==
  s \notin Handles =>
    /\ g.node[s[1]].Params = [h.node[s[1]].Params EXCEPT ![s[2]] = n]
    /\ g.node[s[1]].Opcode = h.node[s[1]].Opcode
    /\ g.node[s[1]].Value = h.node[s[1]].Value

\* A place is given another node.  The claim to that one, if it is a node, has
\* been made; the claim to the old one is released first.
LEMMA Replaced ==
  ASSUME NEW h, NEW s, Rooted(h, s), NEW n \in Nodes \cup {NoNode},
         Balanced(h, {}, <<>>, Only(n)), s \notin Handles => n \in Nodes
  PROVE  /\ Does(h, Replace(h, s, n), {s}, Inside(s), 0)
         /\ SameLengths(h, Replace(h, s, n))
         /\ At(Replace(h, s, n), s) = n /\ Live(Replace(h, s, n)) \subseteq Live(h)
         /\ SlotFilled(h, Replace(h, s, n), s, n)
<1> DEFINE g == Replace(h, s, n)
           old == At(h, s)
           r == Release(h, old)
           e == Only(n)
<1>1. /\ Shape(h) /\ DeathOK(h)
      /\ \A x \in Nodes : h.node[x].RefCount = Held(h, {}, x) + Times(<<>>, x) + e[x]
  BY DEF Balanced
<1>2. /\ s \in Places(h) /\ old \in Nodes \cup {NoNode}
      /\ s \notin Handles => s \in Slots(h) /\ s \in Nodes \X Nat /\ s[1] \in Nodes
  BY <1>1, PlacesTyped DEF Rooted, Places
<1>3. e \in [Nodes -> Nat] /\ \A x \in Nodes : e[x] = One(n, x) /\ One(n, x) \in Nat
  BY DEF Only, One
<1> HIDE DEF e
<1>4. ASSUME NEW x \in Nodes
      PROVE  /\ h.node[x].RefCount = Held(h, {s}, x) + One(old, x) + e[x]
             /\ Held(h, {s}, x) \in Nat /\ One(old, x) \in Nat /\ e[x] \in Nat
  <2>1. /\ Held(h, {}, x) = Held(h, {s}, x) + One(old, x)
        /\ Held(h, {}, x) \in Nat /\ Held(h, {s}, x) \in Nat
    BY <1>1, <1>2, HeldWithout
  <2> HIDE DEF old
  <2>2. One(old, x) \in Nat /\ e[x] \in Nat
    BY <1>3 DEF One
  <2>3. h.node[x].RefCount = Held(h, {}, x) + Times(<<>>, x) + e[x] /\ Times(<<>>, x) = 0
    BY <1>1, TimesEmpty
  <2>4. QED  BY <2>1, <2>2, <2>3
<1>5. Guarded(h, {s})
  <2>1. ASSUME NEW t \in {s} \cap (Nodes \X Nat)
        PROVE  \E q \in Handles \ {s} : h.ptr[q] = t[1]
    <3>1. t = s /\ s \notin Handles
      BY HandlesAssumption
    <3>2. PICK q \in Handles : h.ptr[q] = s[1]
      BY <3>1 DEF Rooted
    <3>3. QED  BY <3>1, <3>2
  <2>2. QED  BY <2>1 DEF Guarded
<1>6. Balanced(r, {s}, <<>>, e) /\ Kept(h, r)
  <2>1. CASE old = NoNode
    <3>1. r = h
      BY <2>1 DEF Release
    <3>2. ASSUME NEW x \in Nodes
          PROVE  h.node[x].RefCount = Held(h, {s}, x) + Times(<<>>, x) + e[x]
      <4>1. One(old, x) = 0 /\ Times(<<>>, x) = 0
        BY <2>1, NodesAssumption, TimesEmpty DEF One
      <4>2. QED  BY <1>4, <4>1
    <3>3. Balanced(h, {s}, <<>>, e)
      BY <1>1, <3>2 DEF Balanced
    <3>4. QED  BY <3>1, <3>3 DEF Kept
  <2>2. CASE old # NoNode
    <3>1. old \in Nodes /\ r = ReleaseAll(h, <<old>>)
      BY <1>2, <2>2 DEF Release
    <3> DEFINE l == <<old>>
    <3>2. l \in Seq(Nodes) /\ \A x : Times(l, x) = One(old, x)
      BY <3>1, TimesSingle
    <3> HIDE DEF l, old
    <3>3. ASSUME NEW x \in Nodes
          PROVE  h.node[x].RefCount = Held(h, {s}, x) + Times(l, x) + e[x]
      BY <1>4, <3>2
    <3>4. Balanced(h, {s}, l, e)
      BY <1>1, <3>3 DEF Balanced
    <3>5. Balanced(ReleaseAll(h, l), {s}, <<>>, e) /\ Kept(h, ReleaseAll(h, l))
      BY <1>3, <1>5, <3>2, <3>4, ReleaseAllBalanced
    <3>6. QED  BY <3>1, <3>5 DEF l
  <2>3. QED  BY <2>1, <2>2
<1> HIDE DEF r, old, g
<1>7. /\ Shape(r) /\ DeathOK(r) /\ r.ptr = h.ptr
      /\ \A x \in Nodes : /\ r.node[x].RefCount = Held(r, {s}, x) + One(n, x)
                          /\ Held(r, {s}, x) \in Nat /\ One(n, x) \in Nat
  <2>1. Shape(r) /\ DeathOK(r) /\ r.ptr = h.ptr
    BY <1>6 DEF Balanced, Kept
  <2>2. ASSUME NEW x \in Nodes
        PROVE  /\ r.node[x].RefCount = Held(r, {s}, x) + One(n, x)
               /\ Held(r, {s}, x) \in Nat /\ One(n, x) \in Nat
    <3>1. r.node[x].RefCount = Held(r, {s}, x) + Times(<<>>, x) + e[x]
      BY <1>6 DEF Balanced
    <3>2. Held(r, {s}, x) \in Nat /\ Times(<<>>, x) = 0 /\ e[x] = One(n, x) /\ One(n, x) \in Nat
      BY <1>3, <2>1, HeldType, TimesEmpty
    <3>3. QED  BY <3>1, <3>2
  <2>3. QED  BY <2>1, <2>2
<1>8. s \notin Handles => /\ s \in Slots(r) /\ n \in Nodes /\ r.node[s[1]].RefCount # 0
  <2>1. SUFFICES ASSUME s \notin Handles
                 PROVE  s \in Slots(r) /\ n \in Nodes /\ r.node[s[1]].RefCount # 0
    OBVIOUS
  <2>2. PICK q \in Handles : h.ptr[q] = s[1]
    BY <2>1 DEF Rooted
  <2>3. q \in Places(r) \ {s} /\ At(r, q) = s[1]
    BY <1>7, <2>1, <2>2 DEF Places, At
  <2>4. Held(r, {s}, s[1]) \in Nat \ {0}
    BY <1>7, <2>3, HeldByHandle
  <2>5. r.node[s[1]].RefCount # 0
    BY <1>2, <1>7, <2>1, <2>4
  <2>6. r.node[s[1]] # Deleted
    BY <2>5, DeletedNode
  <2>7. r.node[s[1]].Params = h.node[s[1]].Params
    BY <1>2, <1>6, <2>1, <2>6 DEF Kept
  <2>8. s \in Slots(r)
    BY <1>1, <1>2, <1>7, <2>1, <2>7, PlacesTyped
  <2>9. QED  BY <2>1, <2>5, <2>8
<1>9. Pointed(r, g, s, n)
  <2>1. g = Point(r, s, n)
    BY DEF r, old, g, Replace
  <2>2. CASE s \in Handles
    BY <1>7, <2>1, <2>2, PointHandle
  <2>3. CASE s \notin Handles
    BY <1>7, <1>8, <2>1, <2>3, PointSlot
  <2>4. QED  BY <2>2, <2>3
<1>10. s \in Places(r)
  BY <1>2, <1>8 DEF Places
<1>11. /\ Shape(g) /\ At(g, s) = n
       /\ \A m \in Nodes : /\ g.node[m].RefCount = r.node[m].RefCount
                           /\ g.node[m].Opcode = r.node[m].Opcode
                           /\ g.node[m].Value = r.node[m].Value
                           /\ Len(g.node[m].Params) = Len(r.node[m].Params)
       /\ s \in Handles => g.node = r.node
       /\ s \notin Handles => /\ g.ptr = r.ptr
                              /\ g.node[s[1]].Params = [r.node[s[1]].Params EXCEPT ![s[2]] = n]
                              /\ \A m \in Nodes \ {s[1]} : g.node[m] = r.node[m]
       /\ \A t \in Places(r) \ {s} : At(g, t) = At(r, t)
  BY <1>9 DEF Pointed
<1>12. ASSUME NEW x \in Nodes
       PROVE  g.node[x].RefCount = Held(g, {}, x)
  <2>1. Held(g, {}, x) = Held(r, {s}, x) + One(n, x)
    <3>1. Shape(r) /\ s \in Places(r) /\ Pointed(r, g, s, n)
      BY <1>7, <1>9, <1>10
    <3>2. QED  BY ONLY <3>1, HeldPointed
  <2>2. QED  BY <1>7, <1>11, <2>1
<1>13. \A m \in Nodes : m \notin Inside(s) => g.node[m] = r.node[m]
  BY <1>11 DEF Inside
<1>14. DeathOK(g)
  <2>1. ASSUME NEW m \in Nodes
        PROVE  /\ g.node[m].RefCount = 0 => g.node[m] = Deleted
               /\ g.node[m].RefCount # 0 => g.node[m].Opcode # "deleted"
    <3>1. g.node[m].RefCount # 0 => g.node[m].Opcode # "deleted"
      BY <1>7, <1>11 DEF DeathOK
    <3>2. CASE m \notin Inside(s)
      BY <1>7, <1>13, <3>1, <3>2 DEF DeathOK
    <3>3. CASE m \in Inside(s)
      BY <1>8, <1>11, <3>1, <3>3 DEF Inside
    <3>4. QED  BY <3>2, <3>3
  <2>2. QED  BY <2>1 DEF DeathOK
<1>15. Exact(g)
  BY <1>11, <1>12, <1>14, ExactIs
<1>16. \A q \in Handles \ {s} : g.ptr[q] = h.ptr[q]
  <2>1. ASSUME NEW q \in Handles \ {s}
        PROVE  g.ptr[q] = h.ptr[q]
    <3>1. q \in Places(r) \ {s}
      BY DEF Places
    <3>2. At(g, q) = At(r, q)
      BY <1>11, <3>1
    <3>3. QED  BY <1>7, <3>2 DEF At
  <2>2. QED  BY <2>1
<1>17. Live(g) = Live(r)
  <2>1. Live(g) = {m \in Nodes : g.node[m].RefCount # 0}
    BY <1>14, LiveCounted
  <2>2. Live(r) = {m \in Nodes : r.node[m].RefCount # 0}
    BY <1>7, LiveCounted
  <2>3. QED  BY <1>11, <2>1, <2>2
<1>18. \A m \in Nodes : m \in Live(r) => /\ r.node[m].Params = h.node[m].Params
                                         /\ r.node[m].Opcode = h.node[m].Opcode
                                         /\ r.node[m].Value = h.node[m].Value
                                         /\ m \in Live(h)
  BY <1>6 DEF Kept, Live
<1>19. Free(h) <= Free(g) + 0
  <2>1. Live(g) \subseteq Live(h)
    BY <1>17, <1>18 DEF Live
  <2> DEFINE a == Free(h)
             b == Free(g)
  <2>2. a <= b /\ a \in Nat /\ b \in Nat
    BY <2>1, FreeGrows, FreeType
  <2> HIDE DEF a, b
  <2>3. a <= b + 0
    BY <2>2
  <2>4. QED  BY <2>3 DEF a, b
<1>20. Live(g) \subseteq Live(h)
  BY <1>17, <1>18 DEF Live
<1>21. Named(h, g, Inside(s)) /\ Born(h, g, 0)
  BY <1>11, <1>17, <1>18, <1>20 DEF Named, Born
<1>22. Does(h, g, {s}, Inside(s), 0)
  BY <1>13, <1>15, <1>16, <1>17, <1>18, <1>19, <1>21 DEF Does
<1>23. SameLengths(h, g)
  BY <1>11, <1>17, <1>18 DEF SameLengths
<1>24. SlotFilled(h, g, s, n)
  <2>1. ASSUME s \notin Handles
        PROVE  s[1] \in Nodes /\ s[1] \in Live(r)
    <3>1. r.node[s[1]].RefCount # 0 /\ s[1] \in Nodes
      BY <1>2, <1>8, <2>1
    <3>2. QED  BY <1>7, <3>1, LiveCounted
  <2>2. QED  BY <1>11, <1>18, <2>1 DEF SlotFilled
<1>25. QED  BY <1>11, <1>20, <1>22, <1>23, <1>24 DEF g

(***************************************************************************)
(* What a function does before it releases anything.                       *)
(***************************************************************************)

Sane(h) == Shape(h) /\ DeathOK(h)

\* By how much n is counted more often than it is referred to.
Excess(h, n) == h.node[n].RefCount - Held(h, {}, n)

\* c, for n alone.
Gain(n, c, x) == IF x = n THEN c ELSE 0

\* From h to g the nodes in F are new, and only the handles in Q and the nodes in M
\* have changed.
Alters(h, g, Q, M, F) ==
  /\ Sane(g)
  /\ Live(g) = Live(h) \cup F
  /\ \A q \in Handles \ Q : g.ptr[q] = h.ptr[q]
  /\ \A m \in Live(h) \ M : /\ g.node[m].Params = h.node[m].Params
                            /\ g.node[m].Opcode = h.node[m].Opcode
                            /\ g.node[m].Value = h.node[m].Value

\* Counts are exact where nothing is in excess; in between some list is.
LEMMA ExcessIs ==
  ASSUME NEW h, Sane(h)
  PROVE  /\ \A n \in Nodes : Excess(h, n) \in Int
         /\ Exact(h) <=> \A n \in Nodes : Excess(h, n) = 0
         /\ \A l \in Seq(Nodes) :
              (\A n \in Nodes : Excess(h, n) = Times(l, n)) => Balanced(h, {}, l, None)
<1>1. ASSUME NEW n \in Nodes
      PROVE  h.node[n].RefCount \in Nat /\ Held(h, {}, n) \in Nat
  BY ParamsTyped, HeldType DEF Sane
<1>2. \A n \in Nodes : Excess(h, n) \in Int
  BY <1>1 DEF Excess
<1>3. Exact(h) <=> \A n \in Nodes : Excess(h, n) = 0
  <2>1. \A n \in Nodes : Excess(h, n) = 0 <=> h.node[n].RefCount = Held(h, {}, n)
    BY <1>1 DEF Excess
  <2>2. QED  BY <2>1, ExactIs DEF Sane
<1>4. ASSUME NEW l \in Seq(Nodes), \A n \in Nodes : Excess(h, n) = Times(l, n)
      PROVE  Balanced(h, {}, l, None)
  <2>1. ASSUME NEW n \in Nodes
        PROVE  h.node[n].RefCount = Held(h, {}, n) + Times(l, n) + None[n]
    <3>1. Times(l, n) \in Nat /\ None[n] = 0 /\ Excess(h, n) = Times(l, n)
      BY <1>4, TimesType DEF None
    <3>2. QED  BY <1>1, <3>1 DEF Excess
  <2>2. QED  BY <2>1 DEF Sane, Balanced
<1>5. QED  BY <1>2, <1>3, <1>4

\* One node is written: another count, other parameters, another opcode, or a node
\* where there was none.
LEMMA PutExcess ==
  ASSUME NEW h, Sane(h), NEW n \in Nodes, NEW d, IsNode(d), d.RefCount # 0,
         d.Opcode # "deleted"
  PROVE  /\ Sets(h, Put(h, n, d), n, d) /\ Sane(Put(h, n, d))
         /\ Live(Put(h, n, d)) = Live(h) \cup {n}
         /\ \A x \in Nodes :
              Excess(Put(h, n, d), x)
                = Excess(h, x) + Gain(n, d.RefCount - h.node[n].RefCount, x)
                    + Times(h.node[n].Params, x) - Times(d.Params, x)
<1> DEFINE g == Put(h, n, d)
           c == h.node[n]
<1>1. Shape(h) /\ DeathOK(h)
  BY DEF Sane
<1>2. Sets(h, g, n, d)
  BY <1>1, PutSets
<1> HIDE DEF g
<1>3. /\ Shape(g) /\ g.ptr = h.ptr /\ g.node[n] = d
      /\ \A m \in Nodes \ {n} : g.node[m] = h.node[m]
  BY <1>2 DEF Sets
<1>4. DeathOK(g)
  <2>1. ASSUME NEW m \in Nodes
        PROVE  /\ g.node[m].RefCount = 0 => g.node[m] = Deleted
               /\ g.node[m].RefCount # 0 => g.node[m].Opcode # "deleted"
    <3>1. CASE m = n
      BY <1>3, <3>1
    <3>2. CASE m # n
      BY <1>1, <1>3, <3>2 DEF DeathOK
    <3>3. QED  BY <3>1, <3>2
  <2>2. QED  BY <2>1 DEF DeathOK
<1>5. Live(g) = Live(h) \cup {n}
  <2>1. Live(g) = {m \in Nodes : g.node[m].RefCount # 0}
    BY <1>4, LiveCounted
  <2>2. Live(h) = {m \in Nodes : h.node[m].RefCount # 0}
    BY <1>1, LiveCounted
  <2>3. QED  BY <1>3, <2>1, <2>2
<1>6. ASSUME NEW x \in Nodes
      PROVE  Excess(g, x) = Excess(h, x) + Gain(n, d.RefCount - c.RefCount, x)
                              + Times(c.Params, x) - Times(d.Params, x)
  <2>1. \A k \in Nodes \ {n} : g.node[k].Params = h.node[k].Params
    BY <1>3
  <2>2. {} \cap ({n} \X Nat) = {}
    OBVIOUS
  <2>3. /\ Held(g, {}, x) \in Nat /\ Held(h, {}, x) \in Nat
        /\ Times(g.node[n].Params, x) \in Nat /\ Times(c.Params, x) \in Nat
        /\ Held(g, {}, x) + Times(c.Params, x) = Held(h, {}, x) + Times(g.node[n].Params, x)
    BY ONLY <1>1, <1>3, <2>1, <2>2, HeldByParams DEF c
  <2>4. g.node[n].Params = d.Params /\ d.RefCount \in Nat
    BY <1>3 DEF IsNode
  <2>5. h.node[x].RefCount \in Nat /\ g.node[x].RefCount \in Nat /\ c.RefCount \in Nat
    BY <1>1, <1>3, ParamsTyped
  <2>6. g.node[x].RefCount = h.node[x].RefCount + Gain(n, d.RefCount - c.RefCount, x)
    <3>1. CASE x = n
      BY <1>3, <2>4, <2>5, <3>1 DEF Gain
    <3>2. CASE x # n
      BY <1>3, <2>5, <3>2 DEF Gain
    <3>3. QED  BY <3>1, <3>2
  <2>7. Gain(n, d.RefCount - c.RefCount, x) \in Int
    BY <2>4, <2>5 DEF Gain
  <2> HIDE DEF c
  <2>8. QED  BY <2>3, <2>4, <2>5, <2>6, <2>7 DEF Excess
<1>7. QED  BY <1>1, <1>2, <1>3, <1>4, <1>5, <1>6 DEF Sane, g

\* A node that is alive is written.
LEMMA LiveWritten ==
  ASSUME NEW h, Sane(h), NEW n \in Live(h), NEW d, IsNode(d), d.RefCount # 0,
         d.Opcode # "deleted"
  PROVE  /\ Alters(h, Put(h, n, d), {}, {n}, {})
         /\ /\ d.Params = h.node[n].Params /\ d.Opcode = h.node[n].Opcode
            /\ d.Value = h.node[n].Value
            => Alters(h, Put(h, n, d), {}, {}, {})
<1> DEFINE g == Put(h, n, d)
<1>1. n \in Nodes
  BY DEF Live
<1>2. Sets(h, g, n, d) /\ Sane(g) /\ Live(g) = Live(h) \cup {n}
  BY <1>1, PutExcess
<1> HIDE DEF g
<1>3. /\ g.ptr = h.ptr /\ g.node[n] = d
      /\ \A m \in Nodes \ {n} : g.node[m] = h.node[m]
  BY <1>2 DEF Sets
<1>4. Live(g) = Live(h) \cup {} /\ Live(h) \subseteq Nodes
  BY <1>2 DEF Live
<1>5. Alters(h, g, {}, {n}, {})
  BY <1>2, <1>3, <1>4 DEF Alters
<1>6. ASSUME d.Params = h.node[n].Params, d.Opcode = h.node[n].Opcode,
             d.Value = h.node[n].Value
      PROVE  Alters(h, g, {}, {}, {})
  BY <1>2, <1>3, <1>4, <1>6 DEF Alters
<1>7. QED  BY <1>5, <1>6 DEF g

\* A node is written where there was none.
LEMMA FreshWritten ==
  ASSUME NEW h, Sane(h), NEW f \in Nodes, h.node[f] = Deleted, NEW d, IsNode(d),
         d.RefCount # 0, d.Opcode # "deleted"
  PROVE  /\ Alters(h, Put(h, f, d), {}, {}, {f}) /\ Put(h, f, d).node[f] = d
         /\ \A x \in Nodes : Excess(Put(h, f, d), x)
                               = Excess(h, x) + Gain(f, d.RefCount, x) - Times(d.Params, x)
<1> DEFINE g == Put(h, f, d)
           t == Times(Deleted.Params, f)
<1>1. /\ Sets(h, g, f, d) /\ Sane(g) /\ Live(g) = Live(h) \cup {f}
      /\ \A x \in Nodes :
           Excess(g, x) = Excess(h, x) + Gain(f, d.RefCount - h.node[f].RefCount, x)
                            + Times(h.node[f].Params, x) - Times(d.Params, x)
  BY PutExcess
<1> HIDE DEF g
<1>2. /\ g.ptr = h.ptr /\ g.node[f] = d
      /\ \A m \in Nodes \ {f} : g.node[m] = h.node[m]
  BY <1>1 DEF Sets
<1>3. f \notin Live(h) /\ Live(h) \subseteq Nodes
  BY DEF Live
<1>4. Alters(h, g, {}, {}, {f})
  BY <1>1, <1>2, <1>3 DEF Alters
<1>5. ASSUME NEW x \in Nodes
      PROVE  Excess(g, x) = Excess(h, x) + Gain(f, d.RefCount, x) - Times(d.Params, x)
  <2>1. h.node[f].RefCount = 0 /\ Times(h.node[f].Params, x) = 0
    BY DeletedNode, TimesEmpty
  <2>2. d.RefCount \in Nat /\ Times(d.Params, x) \in Nat
    BY TimesType DEF IsNode
  <2>3. Excess(h, x) \in Int /\ Gain(f, d.RefCount, x) \in Int
    BY <2>2, ExcessIs DEF Gain
  <2>4. d.RefCount - 0 = d.RefCount
    BY <2>2
  <2>5. Excess(g, x) = Excess(h, x) + Gain(f, d.RefCount, x) + 0 - Times(d.Params, x)
    BY <1>1, <2>1, <2>4
  <2>6. QED  BY <2>2, <2>3, <2>5
<1>6. QED  BY <1>2, <1>4, <1>5 DEF g

\* One change after another.
LEMMA AltersTwice ==
  ASSUME NEW h, NEW k, NEW g, NEW Q, NEW M, NEW F, NEW R, NEW N, NEW E,
         Alters(h, k, Q, M, F), Alters(k, g, R, N, E)
  PROVE  Alters(h, g, Q \cup R, M \cup N, F \cup E)
BY DEF Alters

\* Where a place is, and that it refers to what it did.
LEMMA AltersAt ==
  ASSUME NEW h, Sane(h), NEW g, NEW Q, NEW M, NEW F, Alters(h, g, Q, M, F)
  PROVE  /\ \A s \in Handles \ Q : At(g, s) = At(h, s)
         /\ \A s \in Slots(h) : s[1] \in Live(h) \ M =>
                                  s \in Slots(g) /\ At(g, s) = At(h, s)
<1>1. Shape(h) /\ Shape(g)
  BY DEF Sane, Alters
<1>2. \A s \in Handles \ Q : At(g, s) = At(h, s)
  BY DEF Alters, At
<1>3. ASSUME NEW s \in Slots(h), s[1] \in Live(h) \ M
      PROVE  s \in Slots(g) /\ At(g, s) = At(h, s)
  <2>1. /\ s \in Nodes \X Nat /\ s[2] \in 1..Len(h.node[s[1]].Params)
        /\ At(h, s) = h.node[s[1]].Params[s[2]]
    BY <1>1, PlacesTyped
  <2>2. g.node[s[1]].Params = h.node[s[1]].Params
    BY <1>3 DEF Alters
  <2>3. s \in Slots(g)
    BY <1>1, <2>1, <2>2, PlacesTyped
  <2>4. At(g, s) = g.node[s[1]].Params[s[2]]
    BY <1>1, <2>3, PlacesTyped
  <2>5. QED  BY <2>1, <2>2, <2>3, <2>4
<1>4. QED  BY <1>2, <1>3

\* What it means for a node to be alive.
LEMMA LiveNode ==
  ASSUME NEW h, Sane(h), NEW n \in Live(h)
  PROVE  /\ n \in Nodes /\ IsNode(h.node[n]) /\ h.node[n].RefCount \in Nat \ {0}
         /\ h.node[n].Opcode # "deleted" /\ h.node[n].Params \in Seq(Nodes)
<1>1. n \in {m \in Nodes : h.node[m].RefCount # 0}
  BY LiveCounted DEF Sane
<1>2. QED  BY <1>1, ParamsTyped DEF Sane, DeathOK

\* Another claim on a node.
LEMMA ReserveAlters ==
  ASSUME NEW h, Sane(h), NEW n \in Live(h)
  PROVE  /\ Alters(h, Reserve(h, n), {}, {}, {})
         /\ \A x \in Nodes : Excess(Reserve(h, n), x) = Excess(h, x) + One(n, x)
<1> DEFINE c == h.node[n]
           b == c.RefCount + 1
           d == WithCount(c, b)
<1>1. /\ n \in Nodes /\ IsNode(c) /\ c.RefCount \in Nat \ {0} /\ c.Opcode # "deleted"
      /\ b \in Nat /\ b # 0 /\ b - c.RefCount = 1
  BY LiveNode
<1>2. Reserve(h, n) = Put(h, n, d)
  BY Zenon DEF Reserve, Put, WithCount
<1> HIDE DEF b
<1>3. /\ IsNode(d) /\ d.RefCount = b /\ d.Params = c.Params /\ d.Opcode = c.Opcode
      /\ d.Value = c.Value
  BY <1>1, NodeCounted
<1> HIDE DEF d
<1>4. Alters(h, Put(h, n, d), {}, {}, {})
  BY <1>1, <1>3, LiveWritten
<1>5. ASSUME NEW x \in Nodes
      PROVE  Excess(Put(h, n, d), x) = Excess(h, x) + One(n, x)
  <2> DEFINE t == Times(c.Params, x)
             e == Excess(h, x)
             u == Excess(Put(h, n, d), x)
  <2>1. u = e + Gain(n, d.RefCount - c.RefCount, x) + Times(c.Params, x) - Times(d.Params, x)
    BY <1>1, <1>3, PutExcess
  <2>2. t \in Nat /\ e \in Int
    BY <1>1, TimesType, ExcessIs DEF IsNode
  <2>3. Gain(n, d.RefCount - c.RefCount, x) = One(n, x) /\ One(n, x) \in Int
    BY <1>1, <1>3 DEF Gain, One
  <2> HIDE DEF e, u
  <2>4. u = e + One(n, x) + t - t
    BY <1>3, <2>1, <2>3
  <2> HIDE DEF t
  <2>5. u = e + One(n, x)
    BY <2>2, <2>3, <2>4
  <2>6. QED  BY <2>5 DEF e, u
<1>6. QED  BY <1>2, <1>4, <1>5

\* Another claim on each node of a list.
LEMMA ReserveAllAlters ==
  ASSUME NEW h, Sane(h), NEW l \in Seq(Nodes), \A i \in DOMAIN l : l[i] \in Live(h)
  PROVE  /\ Alters(h, ReserveAll(h, l), {}, {}, {})
         /\ \A x \in Nodes : Excess(ReserveAll(h, l), x) = Excess(h, x) + Times(l, x)
         /\ \A n \in Nodes : /\ ReserveAll(h, l).node[n].Opcode = h.node[n].Opcode
                             /\ ReserveAll(h, l).node[n].Params = h.node[n].Params
<1> DEFINE c(n) == h.node[n].RefCount + Times(l, n)
           d(n) == WithCount(h.node[n], c(n))
           N == [n \in Nodes |-> d(n)]
           g == [h EXCEPT !.node = N]
<1>1. Shape(h) /\ DeathOK(h)
  BY DEF Sane
<1>2. ASSUME NEW n \in Nodes
      PROVE  /\ h.node[n].RefCount \in Nat /\ Times(l, n) \in Nat /\ c(n) \in Nat
             /\ IsNode(d(n)) /\ d(n).RefCount = c(n)
             /\ d(n).Params = h.node[n].Params /\ d(n).Opcode = h.node[n].Opcode
             /\ d(n).Value = h.node[n].Value
             /\ d(n) = [h.node[n] EXCEPT !.RefCount = @ + Times(l, n)]
  <2>1. h.node[n].RefCount \in Nat /\ Times(l, n) \in Nat /\ IsNode(h.node[n])
    BY <1>1, ParamsTyped, TimesType
  <2>2. c(n) \in Nat
    BY <2>1
  <2>3. d(n) = [h.node[n] EXCEPT !.RefCount = @ + Times(l, n)]
    BY Zenon DEF WithCount
  <2> HIDE DEF c
  <2>4. /\ IsNode(d(n)) /\ d(n).RefCount = c(n)
        /\ d(n).Params = h.node[n].Params /\ d(n).Opcode = h.node[n].Opcode
        /\ d(n).Value = h.node[n].Value
    BY <2>1, <2>2, NodeCounted
  <2>5. QED  BY <2>1, <2>2, <2>3, <2>4
<1>3. g = ReserveAll(h, l)
  <2>1. N = [n \in Nodes |-> [h.node[n] EXCEPT !.RefCount = @ + Times(l, n)]]
    BY <1>2
  <2> HIDE DEF N
  <2>2. QED  BY <2>1 DEF ReserveAll
<1>4. \A n \in Nodes : N[n] = d(n)
  OBVIOUS
<1>5. N = [n \in Nodes |-> N[n]]
  OBVIOUS
<1> HIDE DEF N
<1>6. g = [node |-> N, ptr |-> h.ptr]
  BY <1>1 DEF Shape
<1> HIDE DEF g
<1>7. g.node = N /\ g.ptr = h.ptr /\ g = [node |-> g.node, ptr |-> g.ptr]
  BY <1>6
<1>8. ASSUME NEW n \in Nodes
      PROVE  /\ IsNode(g.node[n]) /\ g.node[n].RefCount = h.node[n].RefCount + Times(l, n)
             /\ g.node[n].Params = h.node[n].Params /\ g.node[n].Opcode = h.node[n].Opcode
             /\ g.node[n].Value = h.node[n].Value
  BY <1>2, <1>4, <1>7
<1>9. Shape(g)
  BY <1>1, <1>5, <1>7, <1>8 DEF Shape
<1>10. ASSUME NEW n \in Nodes, h.node[n].RefCount = 0
       PROVE  Times(l, n) = 0
  <2>1. n \notin Live(h)
    BY <1>1, <1>10, LiveCounted
  <2>2. Positions(l, n) = {}
    BY <2>1 DEF Positions
  <2>3. {i \in DOMAIN l : l[i] = n} = {}
    BY <2>2 DEF Positions
  <2>4. QED  BY <2>3, FS_EmptySet DEF Times
<1>11. ASSUME NEW n \in Nodes
       PROVE  /\ g.node[n].RefCount = 0 <=> h.node[n].RefCount = 0
              /\ g.node[n].RefCount = 0 => g.node[n] = Deleted
              /\ g.node[n].RefCount # 0 => g.node[n].Opcode # "deleted"
  <2>1. g.node[n].RefCount = 0 <=> h.node[n].RefCount = 0
    <3>1. /\ h.node[n].RefCount \in Nat /\ Times(l, n) \in Nat
          /\ g.node[n].RefCount = h.node[n].RefCount + Times(l, n)
      BY <1>2, <1>8
    <3>2. h.node[n].RefCount = 0 => Times(l, n) = 0
      BY <1>10
    <3>3. QED  BY ONLY <3>1, <3>2
  <2>2. ASSUME h.node[n].RefCount = 0
        PROVE  g.node[n] = Deleted
    <3>1. h.node[n] = Deleted /\ c(n) = 0
      BY <1>1, <1>10, <2>2 DEF DeathOK
    <3>2. g.node[n] = WithCount(Deleted, 0)
      BY <1>4, <1>7, <3>1
    <3>3. QED  BY <3>2 DEF WithCount, Deleted, Data
  <2>3. QED  BY <1>1, <1>8, <2>1, <2>2 DEF DeathOK
<1>12. DeathOK(g)
  BY <1>11 DEF DeathOK
<1>13. Live(g) = Live(h)
  <2>1. Live(g) = {m \in Nodes : g.node[m].RefCount # 0}
    BY <1>12, LiveCounted
  <2>2. Live(h) = {m \in Nodes : h.node[m].RefCount # 0}
    BY <1>1, LiveCounted
  <2>3. QED  BY <1>11, <2>1, <2>2
<1>14. Alters(h, g, {}, {}, {})
  <2>1. Live(g) = Live(h) \cup {} /\ Live(h) \subseteq Nodes
    BY <1>13 DEF Live
  <2>2. QED  BY <1>7, <1>8, <1>9, <1>12, <2>1 DEF Alters, Sane
<1>15. ASSUME NEW x \in Nodes
       PROVE  Excess(g, x) = Excess(h, x) + Times(l, x)
  <2>1. Held(g, {}, x) = Held(h, {}, x)
    BY <1>1, <1>7, <1>8, <1>9, HeldSame
  <2>2. Held(h, {}, x) \in Nat /\ h.node[x].RefCount \in Nat /\ Times(l, x) \in Nat
    BY <1>1, <1>2, HeldType
  <2>3. g.node[x].RefCount = h.node[x].RefCount + Times(l, x)
    BY <1>8
  <2>4. QED  BY <2>1, <2>2, <2>3 DEF Excess
<1>16. QED  BY <1>3, <1>8, <1>14, <1>15

\* The node d is e with the parameters l.
Holds(d, e, l) == d.Params = l /\ d.Opcode = e.Opcode /\ d.Value = e.Value

\* A node gets other parameters.
LEMMA Filled ==
  ASSUME NEW h, Sane(h), NEW s, At(h, s) \in Live(h), NEW l \in Seq(Nodes)
  PROVE  /\ Alters(h, SetAll(h, s, l), {}, {At(h, s)}, {})
         /\ Holds(SetAll(h, s, l).node[At(h, s)], h.node[At(h, s)], l)
         /\ \A x \in Nodes : Excess(SetAll(h, s, l), x)
                               = Excess(h, x) + Times(Params(h, s), x) - Times(l, x)
<1> DEFINE n == At(h, s)
           c == h.node[n]
           d == WithParams(c, l)
<1>1. /\ n \in Nodes /\ IsNode(c) /\ c.RefCount \in Nat \ {0} /\ c.Opcode # "deleted"
      /\ c.Params \in Seq(Nodes)
  BY LiveNode
<1>2. SetAll(h, s, l) = Put(h, n, d)
  BY Zenon DEF SetAll, Put, WithParams
<1>3. Params(h, s) = c.Params
  BY DEF Params, data
<1> HIDE DEF n
<1>4. /\ IsNode(d) /\ d.RefCount = c.RefCount /\ d.Params = l /\ d.Opcode = c.Opcode
      /\ d.Value = c.Value
  BY <1>1, NodeFilled
<1> HIDE DEF d
<1>5. Alters(h, Put(h, n, d), {}, {n}, {})
  BY <1>1, <1>4, LiveWritten DEF n
<1>6. Sets(h, Put(h, n, d), n, d)
  BY <1>1, <1>4, PutExcess
<1>7. ASSUME NEW x \in Nodes
      PROVE  Excess(Put(h, n, d), x) = Excess(h, x) + Times(c.Params, x) - Times(l, x)
  <2> DEFINE t == Times(c.Params, x)
             e == Excess(h, x)
             u == Excess(Put(h, n, d), x)
  <2>1. u = e + Gain(n, d.RefCount - c.RefCount, x) + t - Times(d.Params, x)
    BY <1>1, <1>4, PutExcess
  <2>2. t \in Nat /\ e \in Int
    BY <1>1, TimesType, ExcessIs
  <2>3. Gain(n, d.RefCount - c.RefCount, x) = 0
    BY <1>1, <1>4 DEF Gain
  <2>4. Times(l, x) \in Nat
    BY TimesType
  <2> HIDE DEF e, u, t
  <2>5. u = e + 0 + t - Times(l, x)
    BY <1>4, <2>1, <2>3
  <2>6. u = e + t - Times(l, x)
    BY <2>2, <2>4, <2>5
  <2>7. QED  BY <2>6 DEF e, u, t
<1>8. QED  BY <1>2, <1>3, <1>4, <1>5, <1>6, <1>7 DEF Sets, Holds, n

\* A place is pointed elsewhere, no claim being made or released.
LEMMA PointAlters ==
  ASSUME NEW h, Sane(h), NEW s \in Places(h), NEW n \in Nodes
  PROVE  /\ Pointed(h, Point(h, s, n), s, n) /\ SameLengths(h, Point(h, s, n))
         /\ Alters(h, Point(h, s, n), {s}, Inside(s), {})
         /\ \A x \in Nodes : Excess(Point(h, s, n), x)
                               = Excess(h, x) + One(At(h, s), x) - One(n, x)
<1> DEFINE g == Point(h, s, n)
<1>1. Shape(h) /\ DeathOK(h)
  BY DEF Sane
<1>2. s \notin Handles => s \in Slots(h) /\ s \in Nodes \X Nat
  BY <1>1, PlacesTyped DEF Places
<1>3. Pointed(h, g, s, n)
  <2>1. CASE s \in Handles
    BY <1>1, <2>1, PointHandle
  <2>2. CASE s \notin Handles
    BY <1>1, <1>2, <2>2, PointSlot
  <2>3. QED  BY <2>1, <2>2
<1> HIDE DEF g
<1>4. /\ Shape(g) /\ At(g, s) = n
      /\ \A t \in Places(h) \ {s} : At(g, t) = At(h, t)
      /\ \A m \in Nodes : /\ g.node[m].RefCount = h.node[m].RefCount
                          /\ g.node[m].Opcode = h.node[m].Opcode
                          /\ g.node[m].Value = h.node[m].Value
                          /\ Len(g.node[m].Params) = Len(h.node[m].Params)
  BY <1>3 DEF Pointed
<1>5. \A m \in Nodes \ Inside(s) : g.node[m] = h.node[m]
  BY <1>3 DEF Pointed, Inside
<1>6. \A q \in Handles \ {s} : g.ptr[q] = h.ptr[q]
  <2>1. Handles \subseteq Places(h)
    BY DEF Places
  <2>2. QED  BY <1>4, <2>1 DEF At
<1>7. ASSUME NEW m \in Inside(s)
      PROVE  m \in Nodes /\ h.node[m].RefCount # 0
  <2>1. /\ s \in Nodes \X Nat /\ s[1] \in Nodes /\ m = s[1]
        /\ s[2] \in 1..Len(h.node[m].Params)
    BY <1>1, <1>2, <1>7, PlacesTyped DEF Inside
  <2>2. h.node[m].Params # <<>>
    BY <2>1
  <2>3. QED  BY <1>1, <2>1, <2>2, DeletedNode DEF DeathOK
<1>8. DeathOK(g)
  <2>1. ASSUME NEW m \in Nodes
        PROVE  /\ g.node[m].RefCount = 0 => g.node[m] = Deleted
               /\ g.node[m].RefCount # 0 => g.node[m].Opcode # "deleted"
    <3>1. g.node[m].RefCount # 0 => g.node[m].Opcode # "deleted"
      BY <1>1, <1>4 DEF DeathOK
    <3>2. g.node[m].RefCount = 0 => g.node[m] = Deleted
      BY <1>1, <1>4, <1>5, <1>7 DEF DeathOK
    <3>3. QED  BY <3>1, <3>2
  <2>2. QED  BY <2>1 DEF DeathOK
<1>9. Live(g) = Live(h) \cup {}
  <2>1. Live(g) = {m \in Nodes : g.node[m].RefCount # 0}
    BY <1>8, LiveCounted
  <2>2. Live(h) = {m \in Nodes : h.node[m].RefCount # 0}
    BY <1>1, LiveCounted
  <2>3. QED  BY <1>4, <2>1, <2>2
<1>10. Alters(h, g, {s}, Inside(s), {})
  BY <1>4, <1>5, <1>6, <1>8, <1>9 DEF Alters, Sane, Live
<1>11. ASSUME NEW x \in Nodes
       PROVE  Excess(g, x) = Excess(h, x) + One(At(h, s), x) - One(n, x)
  <2>1. Held(g, {}, x) = Held(h, {s}, x) + One(n, x)
    BY ONLY <1>1, <1>3, s \in Places(h), HeldPointed
  <2>2. /\ Held(h, {}, x) = Held(h, {s}, x) + One(At(h, s), x)
        /\ Held(h, {}, x) \in Nat /\ Held(h, {s}, x) \in Nat
    BY ONLY <1>1, s \in Places(h), HeldWithout
  <2>3. h.node[x].RefCount \in Nat /\ g.node[x].RefCount = h.node[x].RefCount
    BY <1>1, <1>4, ParamsTyped
  <2>4. One(At(h, s), x) \in Nat /\ One(n, x) \in Nat
    BY DEF One
  <2>5. QED  BY <2>1, <2>2, <2>3, <2>4 DEF Excess
<1>12. SameLengths(h, g)
  BY <1>4 DEF SameLengths
<1>13. QED  BY <1>3, <1>10, <1>11, <1>12 DEF g

(***************************************************************************)
(* What a function has done once it has released what it had to.           *)
(***************************************************************************)

\* The nodes in F take k addresses at most.
Takes(F, k) == (F = {} /\ k = 0) \/ (k = 1 /\ \E f : F = {f})

\* New nodes take addresses.
LEMMA FreeTaken ==
  ASSUME NEW h, NEW g, NEW F, NEW k, Takes(F, k), Live(g) \subseteq Live(h) \cup F
  PROVE  Free(h) <= Free(g) + k /\ Born(h, g, k)
<1>1. Free(h) \in Nat /\ Free(g) \in Nat
  BY FreeType
<1>2. CASE F = {} /\ k = 0
  <2>1. Live(g) \subseteq Live(h)
    BY <1>2
  <2>2. Free(h) <= Free(g)
    BY <2>1, FreeGrows
  <2>3. QED  BY <1>1, <1>2, <2>1, <2>2 DEF Born
<1>3. CASE k = 1 /\ \E f : F = {f}
  <2>1. Free(h) <= Free(g) + k
    BY <1>3, FreeLessOne
  <2>2. Born(h, g, k)
    BY <1>3 DEF Born
  <2>3. QED  BY <2>1, <2>2
<1>4. QED  BY <1>2, <1>3 DEF Takes

\* A function that releases nothing.
LEMMA Settled ==
  ASSUME NEW h, NEW g, NEW Q, NEW M, NEW F, NEW k, Takes(F, k), Alters(h, g, Q, M, F),
         \A n \in Nodes : Excess(g, n) = 0
  PROVE  Does(h, g, Q, M, k)
<1>1. Exact(g)
  BY ExcessIs DEF Alters
<1>2. Live(g) \subseteq Live(h) \cup F
  BY DEF Alters
<1>3. Free(h) <= Free(g) + k /\ Born(h, g, k)
  BY <1>2, FreeTaken
<1>4. Named(h, g, M)
  BY DEF Alters, Named
<1>5. QED  BY <1>1, <1>3, <1>4 DEF Alters, Does

\* A function that ends with releases.
LEMMA SettledReleased ==
  ASSUME NEW h, NEW g, NEW Q, NEW M, NEW F, NEW k, Takes(F, k), Alters(h, g, Q, M, F),
         NEW l \in Seq(Nodes), \A n \in Nodes : Excess(g, n) = Times(l, n)
  PROVE  /\ Does(h, ReleaseAll(g, l), Q, M, k) /\ Kept(g, ReleaseAll(g, l))
         /\ Live(ReleaseAll(g, l)) \subseteq Live(g)
<1> DEFINE r == ReleaseAll(g, l)
<1>1. Balanced(g, {}, l, None)
  BY ExcessIs DEF Alters
<1>2. Guarded(g, {}) /\ None \in [Nodes -> Nat]
  BY DEF Guarded, None
<1>3. Balanced(r, {}, <<>>, None) /\ Kept(g, r)
  BY <1>1, <1>2, ReleaseAllBalanced
<1> HIDE DEF r
<1>4. /\ r.ptr = g.ptr
      /\ \A m \in Live(r) : /\ m \in Live(g) /\ r.node[m].Params = g.node[m].Params
                            /\ r.node[m].Opcode = g.node[m].Opcode
                            /\ r.node[m].Value = g.node[m].Value
  BY <1>3 DEF Kept, Live
<1>5. Live(r) \subseteq Live(h) \cup F
  BY <1>4 DEF Alters
<1>6. Free(h) <= Free(r) + k /\ Born(h, r, k)
  BY <1>5, FreeTaken
<1>7. Named(h, r, M)
  BY <1>4 DEF Alters, Named
<1>8. Does(h, r, Q, M, k)
  BY <1>3, <1>4, <1>6, <1>7 DEF Alters, Does, Exact
<1>9. QED  BY <1>3, <1>4, <1>8 DEF r

\* r is h with n in place s and k addresses taken; n is what it is in g.
Placed(h, g, r, s, n, k) ==
  /\ Does(h, r, {s}, Inside(s), k)
  /\ SameLengths(h, r)
  /\ At(r, s) = n
  /\ SlotFilled(h, r, s, n)
  /\ n \notin Inside(s) => Holds(r.node[n], g.node[n], g.node[n].Params)

\* A function that ends with a place being given a node.
LEMMA SettledReplaced ==
  ASSUME NEW h, NEW g, NEW F, NEW k, Takes(F, k), Alters(h, g, {}, {}, F),
         NEW n \in Nodes, \A x \in Nodes : Excess(g, x) = One(n, x),
         NEW s, Rooted(g, s), s \notin Handles => s[1] \in Live(h)
  PROVE  Placed(h, g, Replace(g, s, n), s, n, k)
<1> DEFINE r == Replace(g, s, n)
<1>1. Balanced(g, {}, <<>>, Only(n))
  <2>1. Sane(g)
    BY DEF Alters
  <2>2. ASSUME NEW x \in Nodes
        PROVE  g.node[x].RefCount = Held(g, {}, x) + Times(<<>>, x) + Only(n)[x]
    <3>1. g.node[x].RefCount \in Nat /\ Held(g, {}, x) \in Nat
      BY <2>1, ParamsTyped, HeldType DEF Sane
    <3>2. Times(<<>>, x) = 0 /\ Only(n)[x] = One(n, x) /\ One(n, x) \in Nat
      BY TimesEmpty DEF Only, One
    <3>3. g.node[x].RefCount - Held(g, {}, x) = One(n, x)
      BY DEF Excess
    <3>4. QED  BY <3>1, <3>2, <3>3
  <2>3. QED  BY <2>1, <2>2 DEF Sane, Balanced
<1>2. Does(g, r, {s}, Inside(s), 0)
  BY ONLY <1>1, n \in Nodes, Rooted(g, s), Replaced
<1>3. SameLengths(g, r)
  BY ONLY <1>1, n \in Nodes, Rooted(g, s), Replaced
<1>4. At(Replace(g, s, n), s) = n
  BY ONLY <1>1, n \in Nodes \cup {NoNode}, s \notin Handles => n \in Nodes, Rooted(g, s),
          Replaced
<1>5. Live(r) \subseteq Live(g) /\ SlotFilled(g, r, s, n)
  BY ONLY <1>1, n \in Nodes, Rooted(g, s), Replaced
<1> HIDE DEF r
<1>6. At(r, s) = n
  BY <1>4 DEF r
<1>7. Live(r) \subseteq Live(h) \cup F
  BY <1>5 DEF Alters
<1>8. Free(h) <= Free(r) + k /\ Born(h, r, k) /\ Named(h, r, Inside(s))
  BY <1>2, <1>5, <1>7, FreeTaken DEF Alters, Does, Named
<1>9. Does(h, r, {s}, Inside(s), k)
  BY <1>2, <1>8 DEF Alters, Does
<1>10. SameLengths(h, r)
  BY <1>3 DEF Alters, SameLengths
<1>11. ASSUME n \notin Inside(s)
       PROVE  Holds(r.node[n], g.node[n], g.node[n].Params)
  <2>1. s \in Places(r)
    <3>1. CASE s \in Handles
      BY <3>1 DEF Places
    <3>2. CASE s \notin Handles
      <4>1. s \in Slots(g) /\ Shape(g) /\ Shape(r)
        BY <1>1, <1>2, <3>2 DEF Rooted, Places, Balanced, Does, Exact
      <4>2. s \in Nodes \X Nat /\ s[2] \in 1..Len(g.node[s[1]].Params) /\ s[1] \in Nodes
        BY <4>1, PlacesTyped
      <4>3. PICK q \in Handles : g.ptr[q] = s[1]
        BY <3>2 DEF Rooted
      <4>4. q # s
        BY <3>2
      <4>5. r.ptr[q] = s[1] /\ q \in Places(r) /\ q \in Places(g)
        BY <1>2, <4>3, <4>4 DEF Does, Places
      <4>6. At(r, q) = s[1]
        BY <4>5 DEF At
      <4>7. s[1] \in Live(r)
        BY <1>2, <4>2, <4>5, <4>6, ClaimedLive DEF Does
      <4>8. s[1] \in Live(g)
        BY <1>5, <4>7
      <4>9. Len(r.node[s[1]].Params) = Len(g.node[s[1]].Params)
        BY <1>3, <4>2, <4>7, <4>8 DEF SameLengths
      <4>10. s \in Slots(r)
        BY <4>1, <4>2, <4>9, PlacesTyped
      <4>11. QED  BY <4>10 DEF Places
    <3>3. QED  BY <3>1, <3>2
  <2>2. n \in Live(r)
    BY <1>2, <1>6, <2>1, ClaimedLive DEF Does
  <2>3. QED  BY <1>2, <1>5, <1>11, <2>2 DEF Does, Named, Holds
<1>12. SlotFilled(h, r, s, n)
  BY <1>5 DEF Alters, SlotFilled
<1>13. QED  BY <1>6, <1>9, <1>10, <1>11, <1>12 DEF r, Placed

(***************************************************************************)
(* Handles that are given a node.                                          *)
(***************************************************************************)

\* q holds the place s: it is that place, or refers to the node that s is in.
Anchored(h, s, q) ==
  /\ s \in Places(h)
  /\ q \in Handles
  /\ IF s \in Handles THEN q = s ELSE h.ptr[q] = s[1]

\* A place that is anchored is rooted; the node that it is in is alive.
LEMMA AnchoredIs ==
  ASSUME NEW h, Exact(h), NEW s
  PROVE  /\ Rooted(h, s) <=> \E q : Anchored(h, s, q)
         /\ Rooted(h, s) /\ s \notin Handles =>
              s \in Slots(h) /\ s \in Nodes \X Nat /\ s[1] \in Live(h)
         /\ At(h, s) \in Nodes /\ Rooted(h, s) => At(h, s) \in Live(h)
<1>1. Rooted(h, s) <=> \E q : Anchored(h, s, q)
  BY DEF Rooted, Anchored
<1>2. ASSUME Rooted(h, s), s \notin Handles
      PROVE  s \in Slots(h) /\ s \in Nodes \X Nat /\ s[1] \in Live(h)
  <2>1. Shape(h) /\ s \in Slots(h)
    BY <1>2, ExactIs DEF Rooted, Places
  <2>2. s \in Nodes \X Nat /\ s[1] \in Nodes
    BY <2>1, PlacesTyped
  <2>3. PICK q \in Handles : h.ptr[q] = s[1]
    BY <1>2 DEF Rooted
  <2>4. q \in Places(h) /\ At(h, q) = s[1]
    BY <2>3 DEF Places, At
  <2>5. QED  BY <2>1, <2>2, <2>4, ClaimedLive
<1>3. At(h, s) \in Nodes /\ Rooted(h, s) => At(h, s) \in Live(h)
  BY ClaimedLive DEF Rooted
<1>4. QED  BY <1>1, <1>2, <1>3

\* An anchored place stays where it is, and refers to what it did, as long as its
\* anchor and the node that it is in are left alone.
LEMMA AnchoredAlters ==
  ASSUME NEW h, Exact(h), NEW g, NEW Q, NEW M, NEW F, Alters(h, g, Q, M, F),
         NEW s, NEW q, Anchored(h, s, q), q \notin Q, Inside(s) \cap M = {}
  PROVE  Anchored(g, s, q) /\ At(g, s) = At(h, s)
<1>1. Sane(h)
  BY ExactIs DEF Sane
<1>2. /\ \A t \in Handles \ Q : At(g, t) = At(h, t)
      /\ \A t \in Slots(h) : t[1] \in Live(h) \ M => t \in Slots(g) /\ At(g, t) = At(h, t)
  BY <1>1, AltersAt
<1>3. q \in Handles /\ g.ptr[q] = h.ptr[q]
  BY DEF Alters, Anchored
<1>4. CASE s \in Handles
  BY <1>2, <1>4 DEF Anchored, Places
<1>5. CASE s \notin Handles
  <2>1. s \in Slots(h) /\ s[1] \in Live(h) \ M
    BY <1>5, AnchoredIs DEF Inside
  <2>2. s \in Slots(g) /\ At(g, s) = At(h, s)
    BY <1>2, <2>1
  <2>3. QED  BY <1>3, <1>5, <2>2 DEF Anchored, Places
<1>6. QED  BY <1>4, <1>5

\* ChangeTo(), to a node that is alive.
LEMMA ChangeToDoes ==
  ASSUME NEW h, Exact(h), NEW s, Rooted(h, s), NEW n \in Live(h)
  PROVE  /\ Does(h, ChangeTo(h, s, n), {s}, Inside(s), 0)
         /\ SameLengths(h, ChangeTo(h, s, n))
         /\ At(ChangeTo(h, s, n), s) = n
         /\ SlotFilled(h, ChangeTo(h, s, n), s, n)
<1> DEFINE k == Reserve(h, n)
           F == {}
<1>1. Sane(h) /\ n \in Nodes /\ \A x \in Nodes : Excess(h, x) = 0
  <2>1. Sane(h)
    BY ExactIs DEF Sane
  <2>2. QED  BY <2>1, ExcessIs DEF Live
<1>2. Alters(h, k, {}, {}, F) /\ \A x \in Nodes : Excess(k, x) = Excess(h, x) + One(n, x)
  BY <1>1, ReserveAlters
<1> HIDE DEF k
<1>3. \A x \in Nodes : Excess(k, x) = One(n, x)
  BY <1>1, <1>2 DEF One
<1>4. PICK q : Anchored(h, s, q)
  BY AnchoredIs
<1>5. Anchored(k, s, q) /\ At(k, s) = At(h, s)
  <2>1. q \notin {} /\ Inside(s) \cap {} = {}
    OBVIOUS
  <2>2. QED  BY ONLY Exact(h), <1>2, <1>4, <2>1, AnchoredAlters
<1>6. Rooted(k, s)
  BY <1>5 DEF Rooted, Anchored
<1>7. ChangeTo(h, s, n) = Replace(k, s, n)
  BY <1>5 DEF ChangeTo, Replace, k
<1>8. Takes(F, 0)
  BY DEF Takes
<1>9. Alters(h, k, {}, {}, F)
  BY <1>2
<1> HIDE DEF F
<1>10. s \notin Handles => s[1] \in Live(h)
  BY AnchoredIs
<1>11. Placed(h, k, Replace(k, s, n), s, n, 0)
  BY <1>1, <1>3, <1>6, <1>8, <1>9, <1>10, SettledReplaced
<1>12. QED  BY <1>7, <1>11 DEF Placed

\* The end of a handle's life.
LEMMA DropDoes ==
  ASSUME NEW h, Exact(h), NEW s \in Handles
  PROVE  Does(h, Drop(h, s), {s}, {}, 0) /\ Drop(h, s).ptr[s] = NoNode
<1>1. Drop(h, s) = Replace(h, s, NoNode)
  BY DEF Drop, Replace, Point
<1>2. Rooted(h, s) /\ Inside(s) = {}
  BY DEF Rooted, Places, Inside
<1>3. Only(NoNode) = None
  <2>1. \A x \in Nodes : One(NoNode, x) = 0
    BY NodesAssumption DEF One
  <2>2. QED  BY <2>1 DEF Only, None
<1>4. Balanced(h, {}, <<>>, Only(NoNode))
  BY <1>3 DEF Exact
<1>5. NoNode \in Nodes \cup {NoNode} /\ (s \notin Handles => NoNode \in Nodes)
  OBVIOUS
<1>6. Does(h, Replace(h, s, NoNode), {s}, Inside(s), 0) /\ At(Replace(h, s, NoNode), s) = NoNode
  BY ONLY <1>2, <1>4, <1>5, Replaced
<1>7. QED  BY <1>1, <1>2, <1>6 DEF At

\* Heaps with the same nodes and handles are the same.
LEMMA SameHeap ==
  ASSUME NEW h, Shape(h), NEW g, Shape(g), g.ptr = h.ptr,
         \A m \in Nodes : g.node[m] = h.node[m]
  PROVE  g = h
<1>1. /\ h = [node |-> h.node, ptr |-> h.ptr] /\ h.node = [n \in Nodes |-> h.node[n]]
      /\ g = [node |-> g.node, ptr |-> g.ptr] /\ g.node = [n \in Nodes |-> g.node[n]]
  BY DEF Shape
<1>2. [n \in Nodes |-> g.node[n]] = [n \in Nodes |-> h.node[n]]
  OBVIOUS
<1>3. g.node = h.node
  BY <1>1, <1>2
<1>4. QED  BY <1>1, <1>3

\* In g the place s has a new node, which is d but for its count.
Renewed(h, g, s, d) ==
  /\ Does(h, g, {s}, Inside(s), 1)
  /\ SameLengths(h, g)
  /\ At(g, s) \in Nodes \ Live(h)
  /\ SlotFilled(h, g, s, At(g, s))
  /\ Holds(data(g, s), d, d.Params)

\* A node is constructed; its parameters have been claimed.
LEMMA ConstructDoes ==
  ASSUME NEW h, Exact(h), Free(h) >= 1, NEW k, Alters(h, k, {}, {}, {}),
         NEW d, IsNode(d), d.RefCount = 0, d.Opcode # "deleted",
         \A x \in Nodes : Excess(k, x) = Times(d.Params, x),
         NEW s, Rooted(h, s)
  PROVE  Renewed(h, Construct(k, s, d), s, d)
<1> DEFINE f == Fresh(k)
           e == WithCount(d, 1)
           u == Put(k, f, d)
           g == Put(k, f, e)
           F == {f}
<1>1. Sane(k) /\ Live(k) = Live(h)
  BY DEF Alters
<1>2. f \in Nodes /\ f \notin Live(h) /\ k.node[f] = Deleted
  <2>1. Free(k) >= 1
    BY <1>1 DEF Free
  <2>2. QED  BY <1>1, <2>1, FreshIsFree
<1>3. /\ IsNode(e) /\ e.RefCount = 1 /\ e.Params = d.Params /\ e.Opcode # "deleted"
      /\ e.Opcode = d.Opcode /\ e.Value = d.Value
  BY NodeCounted
<1> HIDE DEF f, e
<1>4. Sets(k, u, f, d) /\ Sets(k, g, f, e)
  BY <1>1, <1>2, <1>3, PutSets DEF Sane
<1>5. /\ Alters(k, g, {}, {}, F) /\ g.node[f] = e
      /\ \A x \in Nodes : Excess(g, x) = Excess(k, x) + Gain(f, e.RefCount, x)
                                           - Times(e.Params, x)
  BY <1>1, <1>2, <1>3, FreshWritten
<1>6. ASSUME NEW x \in Nodes
      PROVE  Excess(g, x) = One(f, x)
  <2>1. Excess(g, x) = Excess(k, x) + Gain(f, e.RefCount, x) - Times(e.Params, x)
    BY <1>5
  <2>2. Excess(k, x) = Times(d.Params, x) /\ Times(d.Params, x) \in Nat
    BY TimesType DEF IsNode
  <2>3. Gain(f, e.RefCount, x) = One(f, x) /\ One(f, x) \in Nat
    BY <1>3 DEF Gain, One
  <2>4. e.Params = d.Params
    BY <1>3
  <2> DEFINE a == Excess(g, x)
             t == Times(d.Params, x)
             b == One(f, x)
  <2>5. a = t + b - t /\ t \in Nat /\ b \in Nat
    BY <2>1, <2>2, <2>3, <2>4
  <2> HIDE DEF a, t, b
  <2>6. a = b
    BY <2>5
  <2>7. QED  BY <2>6 DEF a, b
<1>7. Construct(k, s, d) = ChangeTo(u, s, f)
  BY DEF Construct, Put, f
<1>8. Reserve(u, f) = g
  <2> DEFINE c == WithCount(u.node[f], u.node[f].RefCount + 1)
             v == Put(u, f, c)
  <2>1. u.node[f] = d /\ Shape(u)
    BY <1>4 DEF Sets
  <2>2. Reserve(u, f) = v
    BY Zenon DEF Reserve, Put, WithCount
  <2>3. c = e
    BY <2>1 DEF e
  <2>4. Sets(u, v, f, e)
    BY <1>2, <1>3, <2>1, <2>3, PutSets
  <2> HIDE DEF u, v, g
  <2>5. /\ Shape(v) /\ Shape(g) /\ g.ptr = v.ptr
        /\ \A m \in Nodes : g.node[m] = v.node[m]
    BY <1>4, <2>4 DEF Sets
  <2>6. g = v
    BY <2>5, SameHeap
  <2>7. QED  BY <2>2, <2>6
<1> HIDE DEF u, g
<1>9. Alters(h, g, {}, {}, F)
  <2>1. Alters(h, g, {} \cup {}, {} \cup {}, {} \cup F)
    BY <1>5, AltersTwice
  <2>2. QED  BY <2>1
<1>10. PICK q : Anchored(h, s, q)
  BY AnchoredIs
<1>11. Anchored(g, s, q) /\ At(g, s) = At(h, s) /\ At(k, s) = At(h, s)
  <2>1. q \notin {} /\ Inside(s) \cap {} = {}
    OBVIOUS
  <2>2. Anchored(g, s, q) /\ At(g, s) = At(h, s)
    BY ONLY Exact(h), <1>9, <1>10, <2>1, AnchoredAlters
  <2>3. At(k, s) = At(h, s)
    BY ONLY Exact(h), Alters(h, k, {}, {}, {}), <1>10, <2>1, AnchoredAlters
  <2>4. QED  BY <2>2, <2>3
<1>12. s \notin Handles => s \in Nodes \X Nat /\ s[1] \in Live(h)
  BY AnchoredIs
<1>13. At(u, s) = At(k, s)
  <2>1. CASE s \in Handles
    BY <1>4, <2>1 DEF Sets, At
  <2>2. CASE s \notin Handles
    <3>1. s[1] \in Nodes \ {f}
      BY <1>2, <1>12, <2>2
    <3>2. u.node[s[1]] = k.node[s[1]]
      BY <1>4, <3>1 DEF Sets
    <3>3. QED  BY <2>2, <3>2 DEF At
  <2>3. QED  BY <2>1, <2>2
<1>14. Construct(k, s, d) = Replace(g, s, f)
  BY <1>7, <1>8, <1>11, <1>13 DEF ChangeTo, Replace
<1>15. Rooted(g, s)
  BY <1>11 DEF Rooted, Anchored
<1>16. Takes(F, 1)
  BY DEF Takes
<1> HIDE DEF F
<1>17. Placed(h, g, Replace(g, s, f), s, f, 1)
  BY ONLY <1>2, <1>6, <1>9, <1>12, <1>15, <1>16, SettledReplaced
<1>18. f \notin Inside(s)
  BY <1>2, <1>12 DEF Inside
<1> DEFINE r == Replace(g, s, f)
<1> HIDE DEF r
<1>19. Placed(h, g, r, s, f, 1) /\ Construct(k, s, d) = r
  BY <1>14, <1>17 DEF r
<1>20. /\ Does(h, r, {s}, Inside(s), 1) /\ SameLengths(h, r) /\ At(r, s) = f
       /\ SlotFilled(h, r, s, f) /\ Holds(r.node[f], g.node[f], g.node[f].Params)
  BY <1>18, <1>19 DEF Placed
<1>21. Holds(data(r, s), d, d.Params)
  BY <1>3, <1>5, <1>20 DEF Holds, data
<1>22. QED  BY <1>2, <1>19, <1>20, <1>21 DEF Renewed

\* No other handle refers to the node of s.
Unshared(h, s) == \A q \in Handles \ {s} : h.ptr[q] # At(h, s)

\* No other parameter does.
Private(h, s) == \A q \in Slots(h) \ {s} : At(h, q) # At(h, s)

\* In g the place s has a node of its own, which is what its node was in h.
Copied(h, g, s) ==
  /\ Does(h, g, {s}, Inside(s), 1)
  /\ SameLengths(h, g)
  /\ At(g, s) \in Nodes
  /\ Holds(data(g, s), data(h, s), Params(h, s))
  /\ Params(g, s) = Params(h, s)
  /\ SlotFilled(h, g, s, At(g, s))
  /\ At(g, s) \in Live(h) => g = h
  /\ Unshared(g, s)
  /\ Private(g, s)

\* The parameters of a node that is alive are alive.
LEMMA ParamsLive ==
  ASSUME NEW h, Exact(h), NEW n \in Nodes
  PROVE  \A i \in DOMAIN h.node[n].Params : h.node[n].Params[i] \in Live(h)
<1>1. Shape(h)
  BY ExactIs
<1>2. ASSUME NEW i \in DOMAIN h.node[n].Params
      PROVE  h.node[n].Params[i] \in Live(h)
  <2>1. /\ <<n, i>> \in Slots(h) /\ At(h, <<n, i>>) = h.node[n].Params[i]
        /\ h.node[n].Params[i] \in Nodes
    BY <1>1, PlacesTyped, ParamsTyped
  <2>2. <<n, i>> \in Places(h)
    BY <2>1 DEF Places
  <2>3. QED  BY <2>1, <2>2, ClaimedLive
<1>3. QED  BY <1>2

\* A node that two places refer to is counted twice.
LEMMA SharedCounted ==
  ASSUME NEW h, Exact(h), NEW s \in Places(h), NEW t \in Places(h), s # t,
         NEW n \in Nodes, At(h, s) = n, At(h, t) = n
  PROVE  h.node[n].RefCount > 1
<1>1. Shape(h) /\ h.node[n].RefCount = Held(h, {}, n)
  BY ExactIs
<1>2. Held(h, {}, n) = Held(h, {s}, n) + One(n, n) /\ One(n, n) = 1
  BY <1>1, HeldWithout DEF One
<1>3. t \in Places(h) \ {s}
  OBVIOUS
<1>4. Held(h, {s}, n) \in Nat \ {0}
  BY <1>1, <1>3, HeldByHandle
<1>5. QED  BY <1>1, <1>2, <1>4

\* A handle that is left alone does not come to refer to a new node; nor does a
\* parameter.
LEMMA NewUnshared ==
  ASSUME NEW h, Exact(h), NEW g, NEW s, Rooted(h, s), NEW d, Renewed(h, g, s, d),
         \A i \in DOMAIN d.Params : d.Params[i] \in Live(h)
  PROVE  Unshared(g, s) /\ Private(g, s)
<1>1. ASSUME NEW q \in Handles \ {s}, g.ptr[q] = At(g, s)
      PROVE  FALSE
  <2>1. h.ptr[q] = At(g, s) /\ q \in Places(h) /\ At(h, q) = At(g, s)
    BY <1>1 DEF Renewed, Does, Places, At
  <2>2. QED  BY <2>1, ClaimedLive DEF Renewed
<1>2. ASSUME NEW q \in Slots(g) \ {s}, At(g, q) = At(g, s)
      PROVE  FALSE
  <2> DEFINE f == At(g, s)
             m == q[1]
             i == q[2]
  <2>1. Shape(h) /\ Shape(g) /\ f \in Nodes \ Live(h) /\ Exact(g)
    BY ExactIs DEF Renewed, Does
  <2>2. /\ q = <<m, i>> /\ m \in Nodes /\ i \in 1..Len(g.node[m].Params)
        /\ i \in DOMAIN g.node[m].Params /\ g.node[m].Params[i] = f
    BY <1>2, <2>1, PlacesTyped, ParamsTyped
  <2>3. f \in Live(g) /\ m \in Live(g)
    <3>1. f \in Live(g)
      BY <2>1, <2>2, ParamsLive
    <3>2. g.node[m].Params # <<>>
      BY <2>2
    <3>3. QED  BY <2>2, <3>1, <3>2, DeletedNode DEF Live
  <2>4. \A p \in Nodes : \A j \in DOMAIN h.node[p].Params : h.node[p].Params[j] # f
    BY <2>1, ParamsLive
  <2>5. s \notin Handles => s \in Slots(h) /\ s = <<s[1], s[2]>> /\ s[1] \in Live(h)
    BY AnchoredIs
  <2> HIDE DEF f, m, i
  <2>6. CASE m = f
    <3>1. g.node[m].Params = d.Params
      BY <2>6 DEF Renewed, Holds, data, f
    <3>2. QED  BY <2>1, <2>2, <3>1
  <2>7. CASE m # f /\ m \notin Live(h)
    BY <2>1, <2>3, <2>7 DEF Renewed, Does, Born
  <2>8. CASE m \in Live(h) /\ m \notin Inside(s)
    <3>1. g.node[m].Params = h.node[m].Params
      BY <2>2, <2>3, <2>8 DEF Renewed, Does
    <3>2. QED  BY <2>2, <2>4, <3>1
  <2>9. CASE m \in Inside(s)
    <3>1. s \notin Handles /\ m = s[1] /\ i # s[2]
      BY <1>2, <2>2, <2>5, <2>9 DEF Inside
    <3>2. g.node[m].Params = [h.node[m].Params EXCEPT ![s[2]] = f]
      BY <3>1 DEF Renewed, SlotFilled, f
    <3>3. i \in DOMAIN h.node[m].Params /\ g.node[m].Params[i] = h.node[m].Params[i]
      BY <2>2, <3>1, <3>2
    <3>4. QED  BY <2>2, <2>4, <3>3
  <2>10. QED  BY <2>6, <2>7, <2>8, <2>9
<1>3. QED  BY <1>1, <1>2 DEF Unshared, Private

\* A copy of a node is made.
LEMMA CloneDoes ==
  ASSUME NEW h, Exact(h), Free(h) >= 1, NEW s, Rooted(h, s), At(h, s) \in Nodes
  PROVE  Copied(h, Clone(h, s), s)
<1> DEFINE c == data(h, s)
           l == c.Params
           k == ReserveAll(h, l)
           d == WithCount(c, 0)
           g == Construct(k, s, d)
<1>1. At(h, s) \in Live(h) /\ Sane(h) /\ \A x \in Nodes : Excess(h, x) = 0
  <2>1. Sane(h)
    BY ExactIs DEF Sane
  <2>2. QED  BY <2>1, AnchoredIs, ExcessIs
<1>2. IsNode(c) /\ c.Opcode # "deleted" /\ l \in Seq(Nodes)
  BY <1>1, LiveNode DEF data
<1>3. \A i \in DOMAIN l : l[i] \in Live(h)
  BY ParamsLive DEF data
<1>4. Clone(h, s) = g
  BY Zenon DEF Clone, WithCount
<1>5. /\ IsNode(d) /\ d.RefCount = 0 /\ d.Params = l /\ d.Opcode # "deleted"
      /\ Holds(d, c, l)
  BY <1>2, NodeCounted DEF Holds
<1>6. Params(h, s) = l /\ c = data(h, s)
  BY DEF Params
<1> HIDE DEF d, l, c
<1>7. /\ Alters(h, k, {}, {}, {})
      /\ \A x \in Nodes : Excess(k, x) = Excess(h, x) + Times(l, x)
  BY <1>1, <1>2, <1>3, ReserveAllAlters
<1> HIDE DEF k
<1>8. ASSUME NEW x \in Nodes
      PROVE  Excess(k, x) = Times(d.Params, x)
  <2>1. Times(l, x) \in Nat
    BY <1>2, TimesType
  <2>2. QED  BY <1>1, <1>5, <1>7, <2>1
<1>9. Renewed(h, g, s, d)
  BY <1>5, <1>7, <1>8, ConstructDoes
<1> HIDE DEF g
<1>10. Unshared(g, s) /\ Private(g, s)
  BY <1>3, <1>5, <1>9, NewUnshared
<1>11. Holds(data(g, s), data(h, s), Params(h, s)) /\ Params(g, s) = Params(h, s)
  BY <1>5, <1>6, <1>9 DEF Renewed, Holds, Params
<1>12. QED  BY <1>4, <1>9, <1>10, <1>11 DEF Copied, Renewed

\* Nothing is done.
LEMMA NothingDone ==
  ASSUME NEW h, Exact(h), NEW Q, NEW M, NEW k \in Nat
  PROVE  Does(h, h, Q, M, k) /\ SameLengths(h, h)
<1>1. Free(h) \in Nat
  BY FreeType
<1>2. Free(h) <= Free(h) + k
  BY <1>1
<1>3. QED  BY <1>2 DEF Does, SameLengths, Named, Born

\* A node counted once is not shared.
LEMMA OneClaim ==
  ASSUME NEW h, Exact(h), NEW s \in Places(h), At(h, s) \in Nodes,
         ~(data(h, s).RefCount > 1)
  PROVE  Unshared(h, s) /\ Private(h, s)
<1>1. ASSUME NEW q \in Handles \ {s}, h.ptr[q] = At(h, s)
      PROVE  FALSE
  <2>1. q \in Places(h) /\ At(h, q) = At(h, s) /\ q # s
    BY <1>1 DEF Places, At
  <2>2. h.node[At(h, s)].RefCount > 1
    BY <2>1, SharedCounted
  <2>3. QED  BY <2>2 DEF data
<1>2. ASSUME NEW q \in Slots(h) \ {s}, At(h, q) = At(h, s)
      PROVE  FALSE
  <2>1. h.node[At(h, s)].RefCount > 1
    BY <1>2, SharedCounted DEF Places
  <2>2. QED  BY <2>1 DEF data
<1>3. QED  BY <1>1, <1>2 DEF Unshared, Private

\* CopyOnWrite() makes a copy of a node that is shared.
LEMMA CopyOnWriteDoes ==
  ASSUME NEW h, Exact(h), Free(h) >= 1, NEW s, Rooted(h, s), At(h, s) \in Nodes
  PROVE  Copied(h, CopyOnWrite(h, s), s)
<1>1. CASE data(h, s).RefCount > 1
  BY <1>1, CloneDoes DEF CopyOnWrite
<1>2. CASE ~(data(h, s).RefCount > 1)
  <2>1. CopyOnWrite(h, s) = h
    BY <1>2 DEF CopyOnWrite
  <2>2. s \in Places(h)
    BY DEF Rooted
  <2>3. Unshared(h, s) /\ Private(h, s)
    BY <1>2, <2>2, OneClaim
  <2>4. Does(h, h, {s}, Inside(s), 1) /\ SameLengths(h, h)
    BY NothingDone
  <2>5. SlotFilled(h, h, s, At(h, s))
    <3>1. ASSUME s \notin Handles
          PROVE  [h.node[s[1]].Params EXCEPT ![s[2]] = At(h, s)] = h.node[s[1]].Params
      <4> DEFINE l == h.node[s[1]].Params
      <4>1. Shape(h) /\ s \in Slots(h)
        BY <2>2, <3>1, ExactIs DEF Places
      <4>2. l \in Seq(Nodes) /\ At(h, s) = l[s[2]]
        BY <4>1, PlacesTyped, ParamsTyped
      <4> HIDE DEF l
      <4>3. l = [i \in DOMAIN l |-> l[i]]
        BY <4>2
      <4>4. [l EXCEPT ![s[2]] = l[s[2]]] = l
        BY <4>3
      <4>5. QED  BY <4>2, <4>4 DEF l
    <3>2. QED  BY <3>1 DEF SlotFilled
  <2>6. Holds(data(h, s), data(h, s), Params(h, s))
    BY DEF Holds, Params
  <2>7. QED  BY <2>1, <2>3, <2>4, <2>5, <2>6 DEF Copied
<1>3. QED  BY <1>1, <1>2

(***************************************************************************)
(* Functions that call others.                                             *)
(***************************************************************************)

\* A node and its parameters.
Near(h, n) == {n} \cup {h.node[n].Params[i] : i \in DOMAIN h.node[n].Params}

\* They have the parameters that they had.
Stays(h, g, M, n) == \A c \in Near(h, n) \ M : g.node[c].Params = h.node[c].Params

\* What Does() leaves, as seen from the handles outside Q.
Done(h, g, Q, M, k) ==
  /\ Exact(g)
  /\ \A q \in Handles \ Q : g.ptr[q] = h.ptr[q]
  /\ \A q \in Handles \ Q : h.ptr[q] \in Nodes \ M => Stays(h, g, M, h.ptr[q])
  /\ Free(h) <= Free(g) + k

\* Those nodes live on.
LEMMA DoesDone ==
  ASSUME NEW h, Exact(h), NEW g, NEW Q, NEW M, NEW k, Does(h, g, Q, M, k)
  PROVE  Done(h, g, Q, M, k)
<1>1. Exact(g)
  BY DEF Does
<1>2. ASSUME NEW q \in Handles \ Q, NEW n \in Nodes \ M, n = h.ptr[q]
      PROVE  Stays(h, g, M, n)
  <2>1. g.node[n].Params = h.node[n].Params /\ n \in Live(h) /\ n \in Live(g)
    BY <1>2, HandleKept
  <2>2. ASSUME NEW c \in Near(h, n) \ M
        PROVE  g.node[c].Params = h.node[c].Params
    <3>1. c \in Live(h)
      BY <2>1, ParamsLive DEF Near
    <3>2. Near(g, n) = Near(h, n)
      BY <2>1 DEF Near
    <3>3. c \in Live(g)
      BY <1>1, <2>1, <3>2, ParamsLive DEF Near
    <3>4. QED  BY <3>1, <3>3 DEF Does, Live
  <2>3. QED  BY <2>2 DEF Stays
<1>3. QED  BY <1>1, <1>2 DEF Does, Done

\* One function after another.
LEMMA DoneTwice ==
  ASSUME NEW h, NEW u, NEW g, NEW Q, NEW M, NEW j \in Nat, NEW R, NEW N, NEW k \in Nat,
         Done(h, u, Q, M, j), Done(u, g, R, N, k)
  PROVE  Done(h, g, Q \cup R, M \cup N, j + k)
<1>1. Exact(g) /\ \A q \in Handles \ (Q \cup R) : g.ptr[q] = h.ptr[q]
  BY DEF Done
<1>2. ASSUME NEW q \in Handles \ (Q \cup R), NEW n \in Nodes \ (M \cup N), n = h.ptr[q]
      PROVE  Stays(h, g, M \cup N, n)
  <2>1. u.ptr[q] = n /\ Stays(h, u, M, n)
    BY <1>2 DEF Done
  <2>2. Stays(u, g, N, n)
    BY <1>2, <2>1 DEF Done
  <2>3. u.node[n].Params = h.node[n].Params
    BY <2>1 DEF Stays, Near
  <2>4. Near(u, n) = Near(h, n)
    BY <2>3 DEF Near
  <2>5. QED  BY <2>1, <2>2, <2>4 DEF Stays
<1>3. Free(h) <= Free(g) + (j + k)
  <2> DEFINE a == Free(h)
             b == Free(u)
             c == Free(g)
  <2>1. a \in Nat /\ b \in Nat /\ c \in Nat /\ a <= b + j /\ b <= c + k
    BY FreeType DEF Done
  <2> HIDE DEF a, b, c
  <2>2. a <= c + (j + k)
    BY <2>1
  <2>3. QED  BY <2>2 DEF a, b, c
<1>4. QED  BY <1>1, <1>2, <1>3 DEF Done

\* What is said of fewer handles and nodes, or of more addresses.
LEMMA DoneMore ==
  ASSUME NEW h, NEW g, NEW R, NEW N, NEW j \in Nat, Done(h, g, R, N, j),
         NEW Q, NEW M, NEW k \in Nat, R \cap Handles \subseteq Q, N \subseteq M, j <= k
  PROVE  Done(h, g, Q, M, k)
<1>1. Free(h) <= Free(g) + k
  <2>1. Free(h) \in Nat /\ Free(g) \in Nat /\ Free(h) <= Free(g) + j
    BY FreeType DEF Done
  <2>2. QED  BY <2>1
<1>2. ASSUME NEW q \in Handles \ Q, NEW n \in Nodes \ M, n = h.ptr[q]
      PROVE  Stays(h, g, M, n)
  <2>1. q \in Handles \ R /\ n \in Nodes \ N
    BY <1>2
  <2>2. Stays(h, g, N, n)
    BY <1>2, <2>1 DEF Done
  <2>3. QED  BY <2>2 DEF Stays
<1>3. Exact(g) /\ \A q \in Handles \ Q : g.ptr[q] = h.ptr[q]
  BY DEF Done
<1>4. QED  BY <1>1, <1>2, <1>3 DEF Done

\* A function that calls others, and then one more.
LEMMA DoneThen ==
  ASSUME NEW h, NEW u, NEW g, NEW Q, NEW M, NEW i \in Nat, Done(h, u, Q, M, i),
         NEW R, NEW N, NEW j \in Nat, Done(u, g, R, N, j),
         NEW k \in Nat, R \cap Handles \subseteq Q, N \subseteq M, i + j <= k
  PROVE  Done(h, g, Q, M, k)
<1>1. j <= j
  OBVIOUS
<1>2. Done(u, g, Q, M, j)
  BY <1>1, DoneMore
<1>3. Done(h, g, Q \cup Q, M \cup M, i + j)
  BY <1>2, DoneTwice
<1>4. Q \cup Q = Q /\ M \cup M = M /\ i + j \in Nat
  OBVIOUS
<1>5. Done(h, g, Q, M, i + j)
  BY <1>3, <1>4
<1> DEFINE n == i + j
<1>6. n \in Nat /\ n <= k /\ Done(h, g, Q, M, n) /\ Q \cap Handles \subseteq Q
  BY <1>4, <1>5
<1> HIDE DEF n
<1>7. QED  BY <1>6, DoneMore

\* The first of several calls.
LEMMA DoneFirst ==
  ASSUME NEW h, Exact(h), NEW g, NEW R, NEW N, NEW j \in Nat, Does(h, g, R, N, j),
         NEW Q, NEW M, NEW k \in Nat, R \cap Handles \subseteq Q, N \subseteq M, j <= k
  PROVE  Done(h, g, Q, M, k)
<1>1. Done(h, g, R, N, j)
  BY DoesDone
<1>2. QED  BY <1>1, DoneMore

\* A call that follows others.
LEMMA DoneNext ==
  ASSUME NEW h, NEW u, NEW g, NEW Q, NEW M, NEW i \in Nat, Done(h, u, Q, M, i),
         NEW R, NEW N, NEW j \in Nat, Does(u, g, R, N, j),
         NEW k \in Nat, R \cap Handles \subseteq Q, N \subseteq M, i + j <= k
  PROVE  Done(h, g, Q, M, k)
<1>1. Done(u, g, R, N, j)
  BY DoesDone DEF Done
<1>2. QED  BY <1>1, DoneThen

\* There is memory for what is still to be done.
LEMMA RoomLeft ==
  ASSUME NEW h, NEW g, NEW Q, NEW M, NEW i \in Nat, Done(h, g, Q, M, i),
         NEW k \in Nat, Free(h) >= i + k
  PROVE  Free(g) >= k /\ Exact(g)
<1>1. Free(h) \in Nat /\ Free(g) \in Nat /\ Free(h) <= Free(g) + i
  BY FreeType DEF Done
<1>2. QED  BY <1>1 DEF Done

\* A call that makes no node leaves the room that there was.
LEMMA RoomKept ==
  ASSUME NEW h, NEW g, NEW Q, NEW M, Does(h, g, Q, M, 0), NEW k \in Nat, Free(h) >= k
  PROVE  Free(g) >= k
<1>1. Free(h) \in Nat /\ Free(g) \in Nat /\ Free(h) <= Free(g) + 0
  BY FreeType DEF Does
<1>2. QED  BY <1>1

\* A call that makes one node.
LEMMA RoomUsed ==
  ASSUME NEW h, NEW g, NEW Q, NEW M, Does(h, g, Q, M, 1), NEW j \in Nat, Free(h) >= j,
         NEW k \in Nat, j = k + 1
  PROVE  Free(g) >= k
<1>1. Free(h) \in Nat /\ Free(g) \in Nat /\ Free(h) <= Free(g) + 1
  BY FreeType DEF Does
<1>2. QED  BY <1>1

\* Where an anchored place is afterwards.
LEMMA AnchoredDone ==
  ASSUME NEW h, Exact(h), NEW g, NEW Q, NEW M, NEW k, Done(h, g, Q, M, k),
         NEW s, NEW q, Anchored(h, s, q), q \notin Q, Inside(s) \cap M = {}
  PROVE  Anchored(g, s, q) /\ At(g, s) = At(h, s)
<1>1. Shape(h) /\ Shape(g)
  BY ExactIs DEF Done
<1>2. q \in Handles /\ g.ptr[q] = h.ptr[q]
  BY DEF Done, Anchored
<1>3. CASE s \in Handles
  BY <1>2, <1>3 DEF Anchored, Places, At
<1>4. CASE s \notin Handles
  <2>1. s \in Slots(h) /\ h.ptr[q] = s[1] /\ s[1] \notin M
    BY <1>4 DEF Anchored, Places, Inside
  <2>2. /\ s \in Nodes \X Nat /\ s[1] \in Nodes /\ s[2] \in 1..Len(h.node[s[1]].Params)
        /\ At(h, s) = h.node[s[1]].Params[s[2]]
    BY <1>1, <2>1, PlacesTyped
  <2>3. g.node[s[1]].Params = h.node[s[1]].Params
    BY <1>2, <2>1, <2>2 DEF Done, Stays, Near
  <2>4. s \in Slots(g)
    BY <1>1, <2>2, <2>3, PlacesTyped
  <2>5. At(g, s) = g.node[s[1]].Params[s[2]]
    BY <1>1, <2>4, PlacesTyped
  <2>6. QED  BY <1>2, <1>4, <2>1, <2>2, <2>3, <2>4, <2>5 DEF Anchored, Places
<1>5. QED  BY <1>3, <1>4

\* The handles of a tree and of its parameters are anchored.
LEMMA HandleAnchored ==
  ASSUME NEW h, Exact(h), NEW r \in Handles, h.ptr[r] \in Nodes
  PROVE  /\ Anchored(h, r, r) /\ Rooted(h, r) /\ Inside(r) = {} /\ At(h, r) = h.ptr[r]
         /\ At(h, r) \in Live(h) /\ Params(h, r) = h.node[h.ptr[r]].Params
         /\ \A i \in DOMAIN Params(h, r) :
              /\ Anchored(h, Param(h, r, i), r) /\ Rooted(h, Param(h, r, i))
              /\ Inside(Param(h, r, i)) = {At(h, r)}
              /\ Param(h, r, i) \notin Handles
              /\ At(h, Param(h, r, i)) = Params(h, r)[i]
              /\ Params(h, r)[i] \in Live(h) /\ Params(h, r)[i] \in Nodes
<1>1. Shape(h)
  BY ExactIs
<1>2. /\ Anchored(h, r, r) /\ Rooted(h, r) /\ Inside(r) = {} /\ At(h, r) = h.ptr[r]
  BY DEF Anchored, Rooted, Places, Inside, At
<1>3. At(h, r) \in Live(h) /\ Params(h, r) = h.node[h.ptr[r]].Params
  BY <1>2, AnchoredIs DEF Params, data
<1>4. ASSUME NEW i \in DOMAIN Params(h, r)
      PROVE  /\ Anchored(h, Param(h, r, i), r) /\ Rooted(h, Param(h, r, i))
             /\ Inside(Param(h, r, i)) = {At(h, r)}
             /\ Param(h, r, i) \notin Handles
             /\ At(h, Param(h, r, i)) = Params(h, r)[i]
             /\ Params(h, r)[i] \in Live(h) /\ Params(h, r)[i] \in Nodes
  <2> DEFINE n == h.ptr[r]
             s == <<n, i>>
  <2>1. s = Param(h, r, i) /\ s[1] = n
    BY <1>2 DEF Param
  <2>2. s \in Slots(h) /\ s \notin Handles /\ At(h, s) = h.node[n].Params[i]
    BY <1>1, <1>3, PlacesTyped
  <2>3. h.node[n].Params[i] \in Live(h)
    BY <1>3, ParamsLive
  <2> HIDE DEF s
  <2>4. Anchored(h, s, r) /\ Rooted(h, s) /\ Inside(s) = {n}
    BY <2>1, <2>2 DEF Anchored, Rooted, Places, Inside
  <2>5. QED  BY <1>2, <1>3, <2>1, <2>2, <2>3, <2>4 DEF Live
<1>5. QED  BY <1>2, <1>3, <1>4

\* In g the places s and t of h have changed their nodes.
Swapped(h, g, s, t) ==
  /\ Does(h, g, {s, t}, Inside(s) \cup Inside(t), 0)
  /\ SameLengths(h, g)
  /\ At(g, s) = At(h, t)
  /\ At(g, t) = At(h, s)
  /\ Inside(s) \cap Inside(t) = {} =>
       SlotFilled(h, g, s, At(h, t)) /\ SlotFilled(h, g, t, At(h, s))

\* Two places swap their nodes.
LEMMA SwapDoes ==
  ASSUME NEW h, Exact(h), NEW s \in Places(h), NEW t \in Places(h),
         At(h, s) \in Nodes, At(h, t) \in Nodes
  PROVE  Swapped(h, Swap(h, s, t), s, t)
<1> DEFINE x == At(h, s)
           y == At(h, t)
           k == Point(h, s, y)
           g == Point(k, t, x)
           Q == {s} \cup {t}
           M == Inside(s) \cup Inside(t)
           F == {} \cup {}
<1>1. Sane(h) /\ \A n \in Nodes : Excess(h, n) = 0
  <2>1. Sane(h)
    BY ExactIs DEF Sane
  <2>2. QED  BY <2>1, ExcessIs
<1>2. Swap(h, s, t) = g
  BY DEF Swap
<1>3. x \in Nodes /\ y \in Nodes
  OBVIOUS
<1> HIDE DEF g, k
<1>4. /\ Pointed(h, k, s, y) /\ SameLengths(h, k) /\ Alters(h, k, {s}, Inside(s), {})
      /\ \A n \in Nodes : Excess(k, n) = Excess(h, n) + One(x, n) - One(y, n)
  BY <1>1, <1>3, PointAlters DEF k
<1>5. t \in Places(k) /\ Sane(k) /\ At(k, s) = y /\ At(k, t) = y
  BY <1>4 DEF Pointed, Places, Alters
<1>6. /\ Pointed(k, g, t, x) /\ SameLengths(k, g) /\ Alters(k, g, {t}, Inside(t), {})
      /\ \A n \in Nodes : Excess(g, n) = Excess(k, n) + One(y, n) - One(x, n)
  BY <1>3, <1>5, PointAlters DEF g
<1>7. At(g, t) = x
  BY <1>6 DEF Pointed
<1>8. At(g, s) = y
  <2>1. s \in Places(k)
    BY <1>4 DEF Pointed, Places
  <2>2. s # t => At(g, s) = At(k, s)
    BY <1>6, <2>1 DEF Pointed
  <2>3. QED  BY <1>5, <1>7, <2>2
<1>9. ASSUME NEW n \in Nodes
      PROVE  Excess(g, n) = 0
  <2>1. One(x, n) \in Nat /\ One(y, n) \in Nat
    BY DEF One
  <2>2. /\ Excess(h, n) = 0 /\ Excess(k, n) = Excess(h, n) + One(x, n) - One(y, n)
        /\ Excess(g, n) = Excess(k, n) + One(y, n) - One(x, n)
    BY <1>1, <1>4, <1>6
  <2> HIDE DEF x, y
  <2>3. QED  BY <2>1, <2>2
<1>10. Alters(h, g, Q, M, F)
  BY <1>4, <1>6, AltersTwice
<1>11. Takes(F, 0)
  BY DEF Takes
<1> HIDE DEF Q, M, F
<1>12. Does(h, g, Q, M, 0)
  BY <1>9, <1>10, <1>11, Settled
<1>13. Q = {s, t} /\ Inside(s) \cup Inside(t) = M
  BY DEF Q, M
<1>14. SameLengths(h, g)
  <2>1. \A m \in Nodes : Len(g.node[m].Params) = Len(h.node[m].Params)
    BY <1>4, <1>6 DEF Pointed
  <2>2. QED  BY <2>1 DEF SameLengths
<1>15. ASSUME Inside(s) \cap Inside(t) = {}
       PROVE  SlotFilled(h, g, s, y) /\ SlotFilled(h, g, t, x)
  <2>1. SlotFilled(h, g, s, y)
    <3>1. ASSUME s \notin Handles
          PROVE  g.node[s[1]] = k.node[s[1]]
      <4>1. s[1] \in Nodes /\ s[1] \notin Inside(t)
        BY <1>1, <1>15, <3>1, PlacesTyped DEF Places, Inside, Sane
      <4>2. QED  BY <1>6, <4>1 DEF Pointed, Inside
    <3>2. ASSUME s \notin Handles
          PROVE  s[1] \in Nodes
      BY <1>1, <3>2, PlacesTyped DEF Places, Sane
    <3>3. QED  BY <1>4, <3>1, <3>2 DEF Pointed, SlotFilled
  <2>2. SlotFilled(h, g, t, x)
    <3>1. ASSUME t \notin Handles
          PROVE  k.node[t[1]] = h.node[t[1]] /\ t[1] \in Nodes
      <4>1. t[1] \in Nodes /\ t[1] \notin Inside(s)
        BY <1>1, <1>15, <3>1, PlacesTyped DEF Places, Inside, Sane
      <4>2. QED  BY <1>4, <4>1 DEF Pointed, Inside
    <3>2. QED  BY <1>6, <3>1 DEF Pointed, SlotFilled
  <2>3. QED  BY <2>1, <2>2
<1>16. QED  BY <1>2, <1>7, <1>8, <1>12, <1>13, <1>14, <1>15 DEF Swapped, x, y

\* Become(): a handle is given the node of b, whatever that is in, through tmp.
LEMMA BecomeDone ==
  ASSUME NEW h, Exact(h), Free(h) >= 1, NEW s \in Handles \ {tmp}, h.ptr[s] \in Nodes,
         NEW b, At(h, b) \in Live(h)
  PROVE  Done(h, Become(h, s, b), {s, tmp}, {}, 1) /\ Become(h, s, b).ptr[s] = At(h, b)
<1> DEFINE n == At(h, b)
           h1 == ChangeTo(h, tmp, n)
           h2 == CopyOnWrite(h1, s)
           h3 == Swap(h2, s, tmp)
           h4 == Drop(h3, tmp)
<1>1. At(h, s) = h.ptr[s] /\ n \in Nodes
  BY DEF At, Live
<1>2. CASE At(h, s) = n
  <2>1. Become(h, s, b) = h
    BY <1>2 DEF Become
  <2>2. Done(h, h, {s, tmp}, {}, 1)
    BY NothingDone, DoesDone
  <2>3. QED  BY <1>1, <1>2, <2>1, <2>2
<1>3. CASE At(h, s) # n
  <2>1. Become(h, s, b) = h4
    BY <1>3 DEF Become
  <2>2. tmp \in Handles /\ Rooted(h, tmp) /\ Inside(tmp) = {} /\ Inside(s) = {}
    BY DEF Handles, Locals, Rooted, Places, Inside
  <2> HIDE DEF h4, h3, h2, h1, n
  <2>3. Does(h, h1, {tmp}, {}, 0) /\ At(h1, tmp) = n
    BY <2>2, ChangeToDoes DEF h1, n
  <2>4. h1.ptr[tmp] = n /\ h1.ptr[s] = h.ptr[s] /\ Exact(h1) /\ Free(h1) >= 1
    <3>1. Free(h1) >= 1
      BY <2>3, RoomKept
    <3>2. QED  BY <2>2, <2>3, <3>1 DEF Does, At
  <2>5. Rooted(h1, s) /\ At(h1, s) = h.ptr[s] /\ Rooted(h1, tmp)
    BY <2>2, <2>4 DEF Rooted, Places, At
  <2>6. Copied(h1, h2, s)
    BY <2>4, <2>5, CopyOnWriteDoes DEF h2
  <2>7. Does(h1, h2, {s}, {}, 1) /\ At(h2, s) \in Nodes
    BY <2>2, <2>6 DEF Copied
  <2>8. Exact(h2) /\ h2.ptr[tmp] = n
    BY <2>2, <2>4, <2>7 DEF Does
  <2>9. /\ s \in Places(h2) /\ tmp \in Places(h2) /\ At(h2, tmp) \in Nodes /\ At(h2, tmp) = n
    BY <1>1, <2>2, <2>8 DEF Places, At
  <2>10. Swapped(h2, h3, s, tmp)
    BY <2>7, <2>8, <2>9, SwapDoes DEF h3
  <2>11. Does(h2, h3, {s, tmp}, {}, 0) /\ At(h3, s) = n
    BY <2>2, <2>9, <2>10 DEF Swapped
  <2>12. Does(h3, h4, {tmp}, {}, 0)
    BY <2>2, <2>11, DropDoes DEF h4, Does
  <2>13. h4.ptr[s] = n
    BY <2>11, <2>12 DEF Does, At
  <2>14. Done(h, h1, {s, tmp}, {}, 0)
    BY <2>3, DoneFirst
  <2>15. Done(h, h2, {s, tmp}, {}, 1)
    BY <2>7, <2>14, DoneNext
  <2>16. Done(h, h3, {s, tmp}, {}, 1)
    BY <2>11, <2>15, DoneNext
  <2>17. Done(h, h4, {s, tmp}, {}, 1)
    BY <2>12, <2>16, DoneNext
  <2>18. QED  BY <2>1, <2>13, <2>17 DEF n
<1>4. QED  BY <1>2, <1>3

\* GetUniqueRef(): tmp has the node of a parameter, or a copy, that no other handle
\* has.
LEMMA GetUniqueRefDone ==
  ASSUME NEW h, Exact(h), Free(h) >= 1, NEW s \in Places(h), s \notin Handles,
         At(h, s) \in Nodes
  PROVE  /\ Done(h, GetUniqueRef(h, s), {tmp}, {}, 1)
         /\ GetUniqueRef(h, s).ptr[tmp] \in Nodes
         /\ Unshared(GetUniqueRef(h, s), tmp)
<1> DEFINE n == At(h, s)
           h1 == ChangeTo(h, tmp, n)
           h2 == Clone(h1, tmp)
           g == GetUniqueRef(h, s)
<1>1. tmp \in Handles /\ Rooted(h, tmp) /\ Inside(tmp) = {}
  BY DEF Handles, Locals, Rooted, Places, Inside
<1>2. n \in Live(h)
  BY ClaimedLive
<1>3. g = IF data(h, s).RefCount > 1 THEN h2 ELSE h1
  BY DEF GetUniqueRef
<1> HIDE DEF g, h2, h1, n
<1>4. Does(h, h1, {tmp}, {}, 0) /\ At(h1, tmp) = n
  BY <1>1, <1>2, ChangeToDoes DEF h1
<1>5. /\ h1.ptr[tmp] = n /\ Exact(h1) /\ Rooted(h1, tmp) /\ n \in Nodes
      /\ \A q \in Handles \ {tmp} : h1.ptr[q] = h.ptr[q]
  BY <1>1, <1>2, <1>4 DEF Does, At, Rooted, Places, n
<1>6. Free(h1) >= 1
  BY <1>4, RoomKept
<1>7. Done(h, h1, {tmp}, {}, 0)
  BY <1>4, DoesDone
<1>8. CASE data(h, s).RefCount > 1
  <2>1. g = h2
    BY <1>3, <1>8
  <2>2. Copied(h1, h2, tmp)
    BY <1>4, <1>5, <1>6, CloneDoes DEF h2
  <2>3. Does(h1, h2, {tmp}, {}, 1) /\ At(h2, tmp) \in Nodes /\ Unshared(h2, tmp)
    BY <1>1, <2>2 DEF Copied
  <2>4. Done(h, h2, {tmp}, {}, 1)
    BY <1>7, <2>3, DoneNext
  <2>5. h2.ptr[tmp] \in Nodes
    BY <1>1, <2>3 DEF At
  <2>6. QED  BY <2>1, <2>3, <2>4, <2>5 DEF g
<1>9. CASE ~(data(h, s).RefCount > 1)
  <2>1. g = h1
    BY <1>3, <1>9
  <2>2. Unshared(h, s)
    BY <1>9, OneClaim
  <2>3. Unshared(h1, tmp)
    BY <1>4, <1>5, <2>2 DEF Unshared, n
  <2>4. Done(h, h1, {tmp}, {}, 1)
    BY <1>7, DoneMore
  <2>5. QED  BY <1>5, <2>1, <2>3, <2>4 DEF g
<1>10. QED  BY <1>8, <1>9

(***************************************************************************)
(* Functions that change a node in place.                                  *)
(***************************************************************************)

\* From k to g a node lost the parameters l, and got r.
Exchanged(k, g, l, r) ==
  \A x \in Nodes : Excess(g, x) = Excess(k, x) + Times(l, x) - Times(r, x)

\* To begin with nothing has changed.
LEMMA Unaltered ==
  ASSUME NEW h, Exact(h)
  PROVE  Alters(h, h, {}, {}, {}) /\ Sane(h) /\ \A x \in Nodes : Excess(h, x) = 0
<1>1. Sane(h)
  BY ExactIs DEF Sane
<1>2. \A x \in Nodes : Excess(h, x) = 0
  BY <1>1, ExcessIs
<1>3. QED  BY <1>1, <1>2 DEF Alters

\* The parameters of the node of a handle are exchanged, after other changes.
LEMMA FilledAfter ==
  ASSUME NEW h, Exact(h), NEW k, NEW Q, NEW M, NEW F, Alters(h, k, Q, M, F),
         NEW s \in Handles \ Q, At(h, s) \in Live(h) \ M, NEW l \in Seq(Nodes)
  PROVE  /\ Alters(h, SetAll(k, s, l), Q, M \cup {At(h, s)}, F)
         /\ Exchanged(k, SetAll(k, s, l), Params(h, s), l)
<1> DEFINE n == At(h, s)
           g == SetAll(k, s, l)
<1>1. Sane(k) /\ At(k, s) = n /\ n \in Live(k)
  BY DEF Alters, At
<1>2. Params(k, s) = Params(h, s)
  BY <1>1 DEF Alters, Params, data
<1>3. /\ Alters(k, g, {}, {n}, {})
      /\ \A x \in Nodes : Excess(g, x) = Excess(k, x) + Times(Params(k, s), x) - Times(l, x)
  BY <1>1, Filled
<1> HIDE DEF g
<1>4. Alters(h, g, Q \cup {}, M \cup {n}, F \cup {})
  BY <1>3, AltersTwice
<1>5. Q \cup {} = Q /\ F \cup {} = F
  OBVIOUS
<1>6. Alters(h, g, Q, M \cup {n}, F)
  BY <1>4, <1>5
<1>7. Exchanged(k, g, Params(h, s), l)
  BY <1>2, <1>3 DEF Exchanged
<1>8. QED  BY <1>6, <1>7 DEF g

\* AddParam(), of a copy.
LEMMA AddParamDoes ==
  ASSUME NEW h, Exact(h), NEW s \in Handles, h.ptr[s] \in Nodes,
         NEW b \in Places(h), At(h, b) \in Nodes
  PROVE  Does(h, AddParam(h, s, b), {}, {At(h, s)}, 0)
<1> DEFINE n == At(h, b)
           P == Params(h, s)
           l == Append(P, n)
           k == Reserve(h, n)
           g == SetAll(k, s, l)
           F == {}
           M == {} \cup {At(h, s)}
<1>1. Sane(h) /\ \A x \in Nodes : Excess(h, x) = 0
  BY Unaltered
<1>2. n \in Live(h) /\ At(h, s) \in Live(h)
  BY HandleAnchored, ClaimedLive
<1>3. P \in Seq(Nodes) /\ l \in Seq(Nodes)
  BY <1>1, <1>2, LiveNode DEF Params, data
<1>4. AddParam(h, s, b) = g
  BY DEF AddParam
<1> HIDE DEF g, k, n, P
<1>5. Alters(h, k, {}, {}, F) /\ \A x \in Nodes : Excess(k, x) = Excess(h, x) + One(n, x)
  BY <1>1, <1>2, ReserveAlters DEF k
<1>6. Alters(h, g, {}, M, F) /\ Exchanged(k, g, P, l)
  <2>1. Alters(h, k, {}, {}, F) /\ s \in Handles \ {} /\ At(h, s) \in Live(h) \ {}
    BY <1>2, <1>5
  <2>2. QED  BY ONLY Exact(h), <1>3, <2>1, FilledAfter DEF g, P
<1>7. ASSUME NEW x \in Nodes
      PROVE  Excess(g, x) = 0
  <2>1. Excess(g, x) = Excess(k, x) + Times(P, x) - Times(l, x)
    BY <1>6 DEF Exchanged
  <2>2. Excess(k, x) = 0 + One(n, x) /\ One(n, x) \in Nat
    BY <1>1, <1>5 DEF One
  <2>3. Times(l, x) = Times(P, x) + One(n, x) /\ Times(P, x) \in Nat
    BY <1>2, <1>3, TimesAppend, TimesType
  <2> HIDE DEF l
  <2>4. QED  BY <2>1, <2>2, <2>3
<1>8. Takes(F, 0)
  BY DEF Takes
<1> HIDE DEF F, M
<1>9. Does(h, g, {}, M, 0)
  BY <1>6, <1>7, <1>8, Settled
<1>10. M = {At(h, s)}
  BY DEF M
<1>11. QED  BY <1>4, <1>9, <1>10

\* AddParams().
LEMMA AddParamsDoes ==
  ASSUME NEW h, Exact(h), NEW s \in Handles, h.ptr[s] \in Nodes,
         NEW b \in Handles, h.ptr[b] \in Nodes
  PROVE  Does(h, AddParams(h, s, b), {}, {At(h, s)}, 0)
<1> DEFINE R == Params(h, b)
           P == Params(h, s)
           l == P \o R
           k == ReserveAll(h, R)
           g == SetAll(k, s, l)
           F == {}
           M == {} \cup {At(h, s)}
<1>1. Sane(h) /\ \A x \in Nodes : Excess(h, x) = 0
  BY Unaltered
<1>2. At(h, b) \in Live(h) /\ At(h, s) \in Live(h) /\ \A i \in DOMAIN R : R[i] \in Live(h)
  BY HandleAnchored
<1>3. P \in Seq(Nodes) /\ R \in Seq(Nodes) /\ l \in Seq(Nodes)
  <2>1. P \in Seq(Nodes) /\ R \in Seq(Nodes)
    BY <1>1, <1>2, LiveNode DEF Params, data
  <2>2. QED  BY <2>1, ConcatProperties
<1>4. AddParams(h, s, b) = g
  BY DEF AddParams
<1> HIDE DEF g, k, R, P
<1>5. Alters(h, k, {}, {}, F) /\ \A x \in Nodes : Excess(k, x) = Excess(h, x) + Times(R, x)
  BY <1>1, <1>2, <1>3, ReserveAllAlters DEF k
<1>6. Alters(h, g, {}, M, F) /\ Exchanged(k, g, P, l)
  <2>1. Alters(h, k, {}, {}, F) /\ s \in Handles \ {} /\ At(h, s) \in Live(h) \ {}
    BY <1>2, <1>5
  <2>2. QED  BY ONLY Exact(h), <1>3, <2>1, FilledAfter DEF g, P
<1>7. ASSUME NEW x \in Nodes
      PROVE  Excess(g, x) = 0
  <2>1. Excess(g, x) = Excess(k, x) + Times(P, x) - Times(l, x)
    BY <1>6 DEF Exchanged
  <2>2. Excess(k, x) = 0 + Times(R, x)
    BY <1>1, <1>5
  <2>3. Times(l, x) = Times(P, x) + Times(R, x) /\ Times(P, x) \in Nat /\ Times(R, x) \in Nat
    BY <1>3, TimesConcat, TimesType
  <2> HIDE DEF l
  <2>4. QED  BY <2>1, <2>2, <2>3
<1>8. Takes(F, 0)
  BY DEF Takes
<1> HIDE DEF F, M
<1>9. Does(h, g, {}, M, 0)
  BY <1>6, <1>7, <1>8, Settled
<1>10. M = {At(h, s)}
  BY DEF M
<1>11. QED  BY <1>4, <1>9, <1>10

\* SetParams().
LEMMA SetParamsDoes ==
  ASSUME NEW h, Exact(h), NEW s \in Handles, h.ptr[s] \in Nodes,
         NEW b \in Handles, h.ptr[b] \in Nodes
  PROVE  /\ Does(h, SetParams(h, s, b), {}, {At(h, s)}, 0)
         /\ Kept(SetAll(ReserveAll(h, Params(h, b)), s, Params(h, b)), SetParams(h, s, b))
<1> DEFINE R == Params(h, b)
           P == Params(h, s)
           k == ReserveAll(h, R)
           g == SetAll(k, s, R)
           F == {}
           M == {} \cup {At(h, s)}
<1>1. Sane(h) /\ \A x \in Nodes : Excess(h, x) = 0
  BY Unaltered
<1>2. At(h, b) \in Live(h) /\ At(h, s) \in Live(h) /\ \A i \in DOMAIN R : R[i] \in Live(h)
  BY HandleAnchored
<1>3. P \in Seq(Nodes) /\ R \in Seq(Nodes)
  BY <1>1, <1>2, LiveNode DEF Params, data
<1>4. SetParams(h, s, b) = ReleaseAll(g, P)
  BY DEF SetParams
<1> HIDE DEF g, k, R, P
<1>5. Alters(h, k, {}, {}, F) /\ \A x \in Nodes : Excess(k, x) = Excess(h, x) + Times(R, x)
  BY <1>1, <1>2, <1>3, ReserveAllAlters DEF k
<1>6. Alters(h, g, {}, M, F) /\ Exchanged(k, g, P, R)
  <2>1. Alters(h, k, {}, {}, F) /\ s \in Handles \ {} /\ At(h, s) \in Live(h) \ {}
    BY <1>2, <1>5
  <2>2. QED  BY ONLY Exact(h), <1>3, <2>1, FilledAfter DEF g, P
<1>7. ASSUME NEW x \in Nodes
      PROVE  Excess(g, x) = Times(P, x)
  <2>1. Excess(g, x) = Excess(k, x) + Times(P, x) - Times(R, x)
    BY <1>6 DEF Exchanged
  <2>2. Excess(k, x) = 0 + Times(R, x) /\ Times(P, x) \in Nat /\ Times(R, x) \in Nat
    BY <1>1, <1>3, <1>5, TimesType
  <2>3. QED  BY <2>1, <2>2
<1>8. Takes(F, 0)
  BY DEF Takes
<1> HIDE DEF F, M
<1>9. Does(h, ReleaseAll(g, P), {}, M, 0) /\ Kept(g, ReleaseAll(g, P))
  BY <1>3, <1>6, <1>7, <1>8, SettledReleased
<1>10. M = {At(h, s)}
  BY DEF M
<1>11. QED  BY <1>4, <1>9, <1>10 DEF g, k, R

\* DelParams().
LEMMA DelParamsDoes ==
  ASSUME NEW h, Exact(h), NEW s \in Handles, h.ptr[s] \in Nodes
  PROVE  /\ Does(h, DelParams(h, s), {}, {At(h, s)}, 0)
         /\ Kept(SetAll(h, s, <<>>), DelParams(h, s))
<1> DEFINE P == Params(h, s)
           e == <<>>
           g == SetAll(h, s, e)
           F == {}
           M == {} \cup {At(h, s)}
<1>1. Sane(h) /\ Alters(h, h, {}, {}, F) /\ \A x \in Nodes : Excess(h, x) = 0
  BY Unaltered
<1>2. At(h, s) \in Live(h)
  BY HandleAnchored
<1>3. P \in Seq(Nodes) /\ e \in Seq(Nodes)
  BY <1>1, <1>2, LiveNode, EmptySeq DEF Params, data
<1>4. DelParams(h, s) = ReleaseAll(g, P)
  BY DEF DelParams
<1>5. \A x : Times(e, x) = 0
  BY TimesEmpty
<1> HIDE DEF g, P, e
<1>6. Alters(h, g, {}, M, F) /\ Exchanged(h, g, P, e)
  <2>1. Alters(h, h, {}, {}, F) /\ s \in Handles \ {} /\ At(h, s) \in Live(h) \ {}
    BY <1>1, <1>2
  <2>2. QED  BY ONLY Exact(h), <1>3, <2>1, FilledAfter DEF g, P
<1>7. ASSUME NEW x \in Nodes
      PROVE  Excess(g, x) = Times(P, x)
  <2>1. Excess(g, x) = 0 + Times(P, x) - 0 /\ Times(P, x) \in Nat
    BY <1>1, <1>3, <1>5, <1>6, TimesType DEF Exchanged
  <2>2. QED  BY <2>1
<1>8. Takes(F, 0)
  BY DEF Takes
<1> HIDE DEF F, M
<1>9. Does(h, ReleaseAll(g, P), {}, M, 0) /\ Kept(g, ReleaseAll(g, P))
  BY <1>3, <1>6, <1>7, <1>8, SettledReleased
<1>10. M = {At(h, s)}
  BY DEF M
<1>11. QED  BY <1>4, <1>9, <1>10 DEF g, e

\* DelParam(), of any place.
LEMMA DelParamDoes ==
  ASSUME NEW h, Exact(h), NEW s, At(h, s) \in Live(h), NEW i \in DOMAIN Params(h, s)
  PROVE  /\ Does(h, DelParam(h, s, i), {}, {At(h, s)}, 0)
         /\ Kept(SetAll(h, s, RemoveAt(Params(h, s), i)), DelParam(h, s, i))
<1> DEFINE P == Params(h, s)
           n == P[i]
           l == RemoveAt(P, i)
           g == SetAll(h, s, l)
           u == <<n>>
           F == {}
           M == {At(h, s)}
<1>1. Sane(h) /\ \A x \in Nodes : Excess(h, x) = 0
  BY Unaltered
<1>2. P \in Seq(Nodes)
  BY <1>1, LiveNode DEF Params, data
<1>3. i \in 1..Len(P) /\ n \in Nodes
  BY <1>2, LenProperties, ElementOfSeq
<1>4. /\ l \in Seq(Nodes)
      /\ \A x : Times(P, x) = Times(l, x) + One(n, x)
  BY <1>2, <1>3, TimesRemove
<1>5. u \in Seq(Nodes) /\ \A x : Times(u, x) = One(n, x)
  BY <1>3, TimesSingle
<1>6. DelParam(h, s, i) = ReleaseAll(g, u)
  BY <1>3, NodesAssumption DEF DelParam, Release
<1>7. /\ Alters(h, g, {}, M, F)
      /\ \A x \in Nodes : Excess(g, x) = Excess(h, x) + Times(P, x) - Times(l, x)
  <2>1. Sane(h) /\ At(h, s) \in Live(h)
    BY <1>1
  <2>2. QED  BY ONLY <1>4, <2>1, Filled
<1> HIDE DEF g, u, l, n, P
<1>8. ASSUME NEW x \in Nodes
      PROVE  Excess(g, x) = Times(u, x)
  <2>1. Excess(g, x) = 0 + Times(P, x) - Times(l, x)
    BY <1>1, <1>7
  <2>2. Times(P, x) = Times(l, x) + One(n, x) /\ Times(u, x) = One(n, x)
    BY <1>4, <1>5
  <2>3. Times(l, x) \in Nat /\ One(n, x) \in Nat
    BY <1>4, TimesType DEF One
  <2>4. QED  BY <2>1, <2>2, <2>3
<1>9. Takes(F, 0)
  BY DEF Takes
<1> HIDE DEF F, M
<1>10. Does(h, ReleaseAll(g, u), {}, M, 0) /\ Kept(g, ReleaseAll(g, u))
  BY <1>5, <1>7, <1>8, <1>9, SettledReleased
<1>11. QED  BY <1>6, <1>10 DEF M, g, l, P

\* SetOpcode().
LEMMA SetOpcodeDoes ==
  ASSUME NEW h, Exact(h), NEW s \in Handles, h.ptr[s] \in Nodes, NEW o, o # "deleted"
  PROVE  /\ Does(h, SetOpcode(h, s, o), {}, {At(h, s)}, 0)
         /\ data(SetOpcode(h, s, o), s) = WithOpcode(data(h, s), o)
<1> DEFINE n == At(h, s)
           c == h.node[n]
           d == WithOpcode(c, o)
           g == Put(h, n, d)
           F == {}
           M == {n}
<1>1. Sane(h) /\ \A x \in Nodes : Excess(h, x) = 0
  BY Unaltered
<1>2. n \in Live(h) /\ n = h.ptr[s]
  BY HandleAnchored
<1>3. n \in Nodes /\ IsNode(c) /\ c.RefCount \in Nat \ {0} /\ c.Params \in Seq(Nodes)
  BY <1>1, <1>2, LiveNode
<1>4. SetOpcode(h, s, o) = g
  BY Zenon DEF SetOpcode, Put, WithOpcode
<1>5. IsNode(d) /\ d.Params = c.Params /\ d.RefCount = c.RefCount /\ d.Opcode = o
  BY <1>3, NodeNamed
<1> HIDE DEF d
<1>6. Alters(h, g, {}, M, F)
  BY <1>1, <1>2, <1>3, <1>5, LiveWritten
<1>7. \A x \in Nodes : Excess(g, x) = Excess(h, x) + Gain(n, d.RefCount - c.RefCount, x)
                                        + Times(c.Params, x) - Times(d.Params, x)
  BY <1>1, <1>3, <1>5, PutExcess
<1> HIDE DEF F, M
<1>8. data(g, s) = d
  <2>1. Sets(h, g, n, d)
    BY <1>1, <1>3, <1>5, PutExcess
  <2>2. QED  BY <1>2, <2>1 DEF Sets, data, At
<1> HIDE DEF g
<1>9. ASSUME NEW x \in Nodes
      PROVE  Excess(g, x) = 0
  <2>1. Gain(n, d.RefCount - c.RefCount, x) = 0
    BY <1>3, <1>5 DEF Gain
  <2>2. Times(c.Params, x) \in Nat
    BY <1>3, TimesType
  <2>3. Excess(g, x) = 0 + 0 + Times(c.Params, x) - Times(c.Params, x)
    BY <1>1, <1>5, <1>7, <2>1
  <2>4. QED  BY <2>2, <2>3
<1>10. Takes(F, 0)
  BY DEF Takes, F
<1>11. Does(h, g, {}, M, 0)
  BY <1>6, <1>9, <1>10, Settled
<1>12. QED  BY <1>4, <1>11, <1>8 DEF M, d, data

\* A node without parameters.
LEMMA NopNode ==
  /\ IsNode(Nop) /\ Nop.Params = <<>>
  /\ Nop.RefCount = 0 /\ Nop.Opcode = "cNop"
<1>1. <<>> \in Seq(Nodes)
  BY EmptySeq
<1>2. ASSUME NEW e, e = Nop
      PROVE  IsNode(e) /\ e.Params = <<>> /\ e.RefCount = 0 /\ e.Opcode = "cNop"
  BY <1>1, <1>2 DEF IsNode, Data, Nop
<1>3. QED  BY <1>2

\* Such a node with its count.
LEMMA NopCounted ==
  ASSUME NEW c \in Nat
  PROVE  /\ IsNode(WithCount(Nop, c)) /\ WithCount(Nop, c).RefCount = c
         /\ WithCount(Nop, c).Params = <<>> /\ WithCount(Nop, c).Opcode # "deleted"
         /\ [Nop EXCEPT !.RefCount = c] = WithCount(Nop, c)
<1>1. /\ IsNode(WithCount(Nop, c)) /\ WithCount(Nop, c).RefCount = c
      /\ WithCount(Nop, c).Params = <<>> /\ WithCount(Nop, c).Opcode = "cNop"
  BY NopNode, NodeCounted
<1>2. [Nop EXCEPT !.RefCount = c] = WithCount(Nop, c)
  BY Zenon DEF WithCount
<1>3. QED  BY <1>1, <1>2

\* AddParamMove(): the parameter moves, and b gets a node of its own.
LEMMA AddParamMoveDoes ==
  ASSUME NEW h, Exact(h), Free(h) >= 1, NEW s \in Handles, h.ptr[s] \in Nodes,
         NEW b \in Handles, h.ptr[b] \in Nodes
  PROVE  /\ Does(h, AddParamMove(h, s, b), {b}, {At(h, s)}, 1)
         /\ AddParamMove(h, s, b).ptr[b] \in Nodes
<1> DEFINE f == Fresh(h)
           n == At(h, b)
           P == Params(h, s)
           l == Append(P, n)
           d == WithCount(Nop, 1)
           u1 == Put(h, f, d)
           u2 == SetAll(u1, s, l)
           g == Point(u2, b, f)
           M == {} \cup {At(h, s)}
           F == {f}
<1>1. Sane(h) /\ \A x \in Nodes : Excess(h, x) = 0
  BY Unaltered
<1>2. n \in Live(h) /\ n \in Nodes /\ At(h, s) \in Live(h)
  BY HandleAnchored
<1>3. P \in Seq(Nodes) /\ l \in Seq(Nodes)
  BY <1>1, <1>2, LiveNode DEF Params, data
<1>4. f \in Nodes /\ f \notin Live(h) /\ h.node[f] = Deleted
  BY FreshIsFree
<1>5. /\ IsNode(d) /\ d.RefCount = 1 /\ d.Params = <<>> /\ d.Opcode # "deleted"
      /\ [Nop EXCEPT !.RefCount = 1] = d
  BY NopCounted
<1>6. AddParamMove(h, s, b) = g
  BY <1>5, Zenon DEF AddParamMove, Put
<1> HIDE DEF d, f, n, P, g, u2, u1
<1>7. /\ Alters(h, u1, {}, {}, F)
      /\ \A x \in Nodes : Excess(u1, x) = Excess(h, x) + Gain(f, d.RefCount, x)
                                            - Times(d.Params, x)
  <2>1. Sane(h) /\ f \in Nodes /\ h.node[f] = Deleted /\ IsNode(d) /\ d.RefCount # 0
        /\ d.Opcode # "deleted"
    BY <1>1, <1>4, <1>5
  <2>2. QED  BY ONLY <2>1, FreshWritten DEF u1
<1>8. Alters(h, u2, {}, M, F) /\ Exchanged(u1, u2, P, l)
  <2>1. Alters(h, u1, {}, {}, F) /\ s \in Handles \ {} /\ At(h, s) \in Live(h) \ {}
    BY <1>2, <1>7
  <2>2. QED  BY ONLY Exact(h), <1>3, <2>1, FilledAfter DEF u2, P
<1>9. Sane(u2) /\ At(u2, b) = n /\ b \in Places(u2) /\ Inside(b) = {}
  BY <1>8 DEF Alters, At, Places, Inside, n
<1>10. /\ Pointed(u2, g, b, f) /\ Alters(u2, g, {b}, {}, {})
       /\ \A x \in Nodes : Excess(g, x) = Excess(u2, x) + One(n, x) - One(f, x)
  <2>1. Sane(u2) /\ b \in Places(u2) /\ f \in Nodes
    BY <1>4, <1>9
  <2>2. /\ Pointed(u2, g, b, f) /\ Alters(u2, g, {b}, Inside(b), {})
        /\ \A x \in Nodes : Excess(g, x) = Excess(u2, x) + One(At(u2, b), x) - One(f, x)
    BY ONLY <2>1, PointAlters DEF g
  <2>3. QED  BY <1>9, <2>2
<1>11. ASSUME NEW x \in Nodes
       PROVE  Excess(g, x) = 0
  <2>1. Excess(u1, x) = 0 + Gain(f, 1, x) - 0
    BY <1>1, <1>5, <1>7, TimesEmpty
  <2>2. Gain(f, 1, x) = One(f, x) /\ One(f, x) \in Nat /\ One(n, x) \in Nat
    BY DEF Gain, One
  <2>3. Excess(u2, x) = Excess(u1, x) + Times(P, x) - Times(l, x)
    BY <1>8 DEF Exchanged
  <2>4. Times(l, x) = Times(P, x) + One(n, x) /\ Times(P, x) \in Nat
    BY <1>2, <1>3, TimesAppend, TimesType
  <2>5. Excess(g, x) = Excess(u2, x) + One(n, x) - One(f, x)
    BY <1>10
  <2> HIDE DEF l
  <2>6. QED  BY <2>1, <2>2, <2>3, <2>4, <2>5
<1>12. Alters(h, g, {b}, M, F)
  <2>1. Alters(h, g, {} \cup {b}, M \cup {}, F \cup {})
    BY <1>8, <1>10, AltersTwice
  <2>2. QED  BY <2>1
<1>13. Takes(F, 1)
  BY DEF Takes
<1> HIDE DEF F, M
<1>14. Does(h, g, {b}, M, 1)
  BY <1>11, <1>12, <1>13, Settled
<1>15. M = {At(h, s)} /\ g.ptr[b] = f
  BY <1>10 DEF M, Pointed, At
<1>16. QED  BY <1>4, <1>6, <1>14, <1>15

\* AddParamsMove(): the parameters of b move, which must be another node.
LEMMA AddParamsMoveDoes ==
  ASSUME NEW h, Exact(h), Free(h) >= 1, NEW s \in Handles, h.ptr[s] \in Nodes,
         NEW b \in Handles, h.ptr[b] \in Nodes, h.ptr[s] # h.ptr[b]
  PROVE  Does(h, AddParamsMove(h, s, b), {}, {At(h, s), At(h, b)}, 1)
<1> DEFINE f == Fresh(h)
           P == Params(h, s)
           R == Params(h, b)
           c == Len(R)
           l == P \o R
           t == [i \in 1..c |-> f]
           d == WithCount(Nop, c)
           u1 == SetAll(h, s, l)
           u2 == SetAll(u1, b, t)
           g == Put(u2, f, d)
           N == {} \cup {At(h, s)}
           M == N \cup {At(h, b)}
           F == {}
           E == F \cup {f}
<1>1. Sane(h) /\ \A x \in Nodes : Excess(h, x) = 0
  BY Unaltered
<1>2. At(h, s) \in Live(h) /\ At(h, b) \in Live(h) /\ At(h, s) # At(h, b)
  BY HandleAnchored
<1>3. P \in Seq(Nodes) /\ R \in Seq(Nodes) /\ l \in Seq(Nodes) /\ c \in Nat
  <2>1. P \in Seq(Nodes) /\ R \in Seq(Nodes)
    BY <1>1, <1>2, LiveNode DEF Params, data
  <2>2. QED  BY <2>1, ConcatProperties, LenProperties
<1>4. f \in Nodes /\ f \notin Live(h) /\ h.node[f] = Deleted
  BY FreshIsFree
<1>5. /\ IsNode(d) /\ d.RefCount = c /\ d.Params = <<>> /\ d.Opcode # "deleted"
      /\ [Nop EXCEPT !.RefCount = c] = d
  BY <1>3, NopCounted
<1>6. AddParamsMove(h, s, b) = IF c = 0 THEN h ELSE g
  BY <1>5, Zenon DEF AddParamsMove, Put
<1>7. t \in Seq(Nodes) /\ \A x : Times(t, x) = IF f = x THEN c ELSE 0
  BY <1>3, <1>4, TimesCopies
<1> HIDE DEF d, f, P, R, g, u2, u1, c, t
<1>8. CASE c = 0
  BY <1>6, <1>8, NothingDone
<1>9. CASE c # 0
  <2>1. Alters(h, u1, {}, N, F) /\ Exchanged(h, u1, P, l)
    <3>1. /\ Alters(h, h, {}, {}, F) /\ s \in Handles \ {} /\ At(h, s) \in Live(h) \ {}
      BY <1>2, Unaltered
    <3>2. QED  BY ONLY Exact(h), <1>3, <3>1, FilledAfter DEF u1, P
  <2>2. Alters(h, u2, {}, M, F) /\ Exchanged(u1, u2, R, t)
    <3>1. b \in Handles \ {} /\ At(h, b) \in Live(h) \ N
      BY <1>2
    <3> HIDE DEF N, F
    <3>2. QED  BY ONLY Exact(h), <1>7, <2>1, <3>1, FilledAfter DEF u2, R, M
  <2>3. Sane(u2) /\ u2.node[f] = Deleted
    BY <1>4, <2>2 DEF Alters, Live
  <2>4. /\ Alters(u2, g, {}, {}, {f})
        /\ \A x \in Nodes : Excess(g, x) = Excess(u2, x) + Gain(f, d.RefCount, x)
                                             - Times(d.Params, x)
    BY <1>4, <1>5, <1>9, <2>3, FreshWritten DEF g
  <2>5. ASSUME NEW x \in Nodes
        PROVE  Excess(g, x) = 0
    <3>1. Excess(u1, x) = 0 + Times(P, x) - Times(l, x)
      BY <1>1, <2>1 DEF Exchanged
    <3>2. Excess(u2, x) = Excess(u1, x) + Times(R, x) - Times(t, x)
      BY <2>2 DEF Exchanged
    <3>3. Excess(g, x) = Excess(u2, x) + Gain(f, c, x) - 0
      BY <1>5, <2>4, TimesEmpty
    <3>4. Times(t, x) = Gain(f, c, x) /\ Gain(f, c, x) \in Nat
      BY <1>3, <1>7 DEF Gain
    <3>5. Times(l, x) = Times(P, x) + Times(R, x) /\ Times(P, x) \in Nat /\ Times(R, x) \in Nat
      BY <1>3, TimesConcat, TimesType
    <3> HIDE DEF l
    <3>6. QED  BY <3>1, <3>2, <3>3, <3>4, <3>5
  <2>6. Alters(h, g, {}, M, E)
    <3>1. Alters(h, g, {} \cup {}, M \cup {}, E)
      BY <2>2, <2>4, AltersTwice
    <3>2. M \cup {} = M
      OBVIOUS
    <3>3. QED  BY <3>1, <3>2
  <2>7. Takes(E, 1)
    BY DEF Takes
  <2> HIDE DEF E, M
  <2>8. Does(h, g, {}, M, 1)
    BY <2>5, <2>6, <2>7, Settled
  <2>9. M = {At(h, s), At(h, b)}
    BY DEF M
  <2>10. QED  BY <1>6, <1>9, <2>8, <2>9
<1>10. QED  BY <1>8, <1>9

\* SetParamsMove(): the parameters are those of b, which must be another node.
LEMMA SetParamsMoveDoes ==
  ASSUME NEW h, Exact(h), NEW s \in Handles, h.ptr[s] \in Nodes,
         NEW b \in Handles, h.ptr[b] \in Nodes, h.ptr[s] # h.ptr[b]
  PROVE  /\ Does(h, SetParamsMove(h, s, b), {}, {At(h, s), At(h, b)}, 0)
         /\ Kept(SetAll(SetAll(h, s, Params(h, b)), b, <<>>), SetParamsMove(h, s, b))
<1> DEFINE P == Params(h, s)
           R == Params(h, b)
           e == <<>>
           u == SetAll(h, s, R)
           g == SetAll(u, b, e)
           N == {} \cup {At(h, s)}
           M == N \cup {At(h, b)}
           F == {}
<1>1. Sane(h) /\ \A x \in Nodes : Excess(h, x) = 0
  BY Unaltered
<1>2. At(h, s) \in Live(h) /\ At(h, b) \in Live(h) /\ At(h, s) # At(h, b)
  BY HandleAnchored
<1>3. P \in Seq(Nodes) /\ R \in Seq(Nodes) /\ e \in Seq(Nodes)
  BY <1>1, <1>2, LiveNode, EmptySeq DEF Params, data
<1>4. SetParamsMove(h, s, b) = ReleaseAll(g, P)
  BY DEF SetParamsMove
<1>5. \A x : Times(e, x) = 0
  BY TimesEmpty
<1> HIDE DEF P, R, g, u, e
<1>6. Alters(h, u, {}, N, F) /\ Exchanged(h, u, P, R)
  <2>1. /\ Alters(h, h, {}, {}, F) /\ s \in Handles \ {} /\ At(h, s) \in Live(h) \ {}
    BY <1>2, Unaltered
  <2>2. QED  BY ONLY Exact(h), <1>3, <2>1, FilledAfter DEF u, P
<1>7. Alters(h, g, {}, M, F) /\ Exchanged(u, g, R, e)
  <2>1. b \in Handles \ {} /\ At(h, b) \in Live(h) \ N
    BY <1>2
  <2> HIDE DEF N, F
  <2>2. QED  BY ONLY Exact(h), <1>3, <1>6, <2>1, FilledAfter DEF g, R, M
<1>8. ASSUME NEW x \in Nodes
      PROVE  Excess(g, x) = Times(P, x)
  <2>1. Excess(u, x) = 0 + Times(P, x) - Times(R, x)
    BY <1>1, <1>6 DEF Exchanged
  <2>2. Excess(g, x) = Excess(u, x) + Times(R, x) - 0
    BY <1>5, <1>7 DEF Exchanged
  <2>3. Times(P, x) \in Nat /\ Times(R, x) \in Nat
    BY <1>3, TimesType
  <2>4. QED  BY <2>1, <2>2, <2>3
<1>9. Takes(F, 0)
  BY DEF Takes
<1> HIDE DEF F, M
<1>10. Does(h, ReleaseAll(g, P), {}, M, 0) /\ Kept(g, ReleaseAll(g, P))
  BY <1>3, <1>7, <1>8, <1>9, SettledReleased
<1>11. M = {At(h, s), At(h, b)}
  BY DEF M, N
<1>12. QED  BY <1>4, <1>10, <1>11 DEF g, u, e, R

\* The variables are distinct.
LEMMA LocalsDistinct ==
  /\ tmp # holder /\ tmp # mul /\ tmp # func /\ tmp # p2 /\ holder # mul /\ holder # func
  /\ holder # p2 /\ mul # func /\ mul # p2 /\ func # p2
  /\ Locals \subseteq Handles /\ Objects \subseteq Handles /\ Objects \cap Locals = {}
<1> DEFINE A == {} \cup {tmp}
           B == A \cup {holder}
           C == B \cup {mul}
           D == C \cup {func}
           E == D \cup {p2}
<1>1. IsFiniteSet(A) /\ Cardinality(A) <= 1 /\ Cardinality(A) \in Nat
  BY FS_EmptySet, FS_AddElement
<1> DEFINE n(S) == Cardinality(S)
<1>2. ASSUME NEW S, IsFiniteSet(S), n(S) \in Nat, NEW x
      PROVE  /\ IsFiniteSet(S \cup {x}) /\ n(S \cup {x}) \in Nat
             /\ n(S \cup {x}) <= n(S) + 1
             /\ x \in S => n(S \cup {x}) <= n(S)
  BY <1>2, FS_AddElement
<1> HIDE DEF n
<1>3. IsFiniteSet(A) /\ n(A) \in Nat /\ n(A) <= 1
  BY <1>1 DEF n
<1> HIDE DEF A
<1>4. /\ IsFiniteSet(B) /\ n(B) \in Nat
      /\ n(B) <= n(A) + 1 /\ (holder \in A => n(B) <= n(A))
  BY <1>2, <1>3
<1> HIDE DEF B
<1>5. /\ IsFiniteSet(C) /\ n(C) \in Nat
      /\ n(C) <= n(B) + 1 /\ (mul \in B => n(C) <= n(B))
  BY <1>2, <1>4
<1> HIDE DEF C
<1>6. /\ IsFiniteSet(D) /\ n(D) \in Nat
      /\ n(D) <= n(C) + 1 /\ (func \in C => n(D) <= n(C))
  BY <1>2, <1>5
<1> HIDE DEF D
<1>7. n(E) \in Nat /\ n(E) <= n(D) + 1 /\ (p2 \in D => n(E) <= n(D))
  BY <1>2, <1>6
<1>8. n(E) = 5
  <2>1. E = Locals
    BY DEF A, B, C, D, Locals
  <2>2. QED  BY <2>1, LocalsAssumption DEF n
<1> DEFINE v == n(A)
           w == n(B)
           x == n(C)
           y == n(D)
           z == n(E)
<1>9. /\ v \in Nat /\ w \in Nat /\ x \in Nat /\ y \in Nat /\ z = 5
      /\ v <= 1 /\ w <= v + 1 /\ x <= w + 1 /\ y <= x + 1 /\ z <= y + 1
      /\ holder \in A => w <= v
      /\ mul \in B => x <= w
      /\ func \in C => y <= x
      /\ p2 \in D => z <= y
  BY ONLY <1>3, <1>4, <1>5, <1>6, <1>7, <1>8
<1> HIDE DEF v, w, x, y, z
<1>10. holder \notin A
  <2>1. ASSUME holder \in A  PROVE  FALSE
    BY ONLY <1>9, <2>1
  <2>2. QED  BY <2>1
<1>11. mul \notin B
  <2>1. ASSUME mul \in B  PROVE  FALSE
    BY ONLY <1>9, <2>1
  <2>2. QED  BY <2>1
<1>12. func \notin C
  <2>1. ASSUME func \in C  PROVE  FALSE
    BY ONLY <1>9, <2>1
  <2>2. QED  BY <2>1
<1>13. p2 \notin D
  <2>1. ASSUME p2 \in D  PROVE  FALSE
    BY ONLY <1>9, <2>1
  <2>2. QED  BY <2>1
<1>14. /\ tmp # holder /\ tmp # mul /\ tmp # func /\ tmp # p2 /\ holder # mul
       /\ holder # func /\ holder # p2 /\ mul # func /\ mul # p2 /\ func # p2
  BY ONLY <1>10, <1>11, <1>12, <1>13 DEF A, B, C, D
<1>15. QED  BY ONLY <1>14, ObjectsAssumption DEF Handles

\* HoldSlot(): the old parameter is held.
LEMMA HoldSlotDoes ==
  ASSUME NEW h, Exact(h), NEW s \in Handles, h.ptr[s] \in Nodes, NEW i \in DOMAIN Params(h, s)
  PROVE  Does(h, HoldSlot(h, s, i), {holder}, {}, 0)
<1>1. Rooted(h, holder) /\ Inside(holder) = {}
  BY LocalsDistinct DEF Rooted, Places, Inside, Locals
<1>2. Params(h, s)[i] \in Live(h)
  BY HandleAnchored
<1>3. QED  BY <1>1, <1>2, ChangeToDoes DEF HoldSlot

\* SetParam(), of a copy.
LEMMA SetParamDone ==
  ASSUME NEW h, Exact(h), NEW s \in Handles \ {holder}, h.ptr[s] \in Nodes,
         NEW i \in DOMAIN Params(h, s),
         NEW b, NEW q, Anchored(h, b, q), q # holder, At(h, b) \in Nodes
  PROVE  Done(h, SetParam(h, s, i, b), {holder}, {At(h, s)}, 0)
<1> DEFINE p == Param(h, s, i)
           n == At(h, b)
           h1 == HoldSlot(h, s, i)
           h2 == ChangeTo(h1, p, n)
           h3 == Drop(h2, holder)
           M == {At(h, s)}
<1>1. SetParam(h, s, i, b) = h3
  BY DEF SetParam
<1>2. Anchored(h, p, s) /\ Inside(p) = M /\ p \notin Handles /\ holder \in Handles
  BY HandleAnchored, LocalsDistinct DEF Locals
<1> HIDE DEF p, n, h3, h2, h1, M
<1>3. Does(h, h1, {holder}, {}, 0)
  BY HoldSlotDoes DEF h1
<1>4. Exact(h1) /\ Done(h, h1, {holder}, {}, 0) /\ Done(h, h1, {holder}, M, 0)
  <2>1. Exact(h1)
    BY <1>3 DEF Does
  <2>2. {holder} \cap Handles \subseteq {holder} /\ {} \subseteq M
    OBVIOUS
  <2>3. QED  BY <1>3, <2>1, <2>2, DoneFirst, DoesDone
<1>5. Anchored(h1, p, s) /\ Rooted(h1, p)
  <2>1. s \notin {holder} /\ Inside(p) \cap {} = {}
    OBVIOUS
  <2>2. Anchored(h1, p, s)
    BY ONLY Exact(h), <1>2, <1>4, <2>1, AnchoredDone
  <2>3. QED  BY <1>4, <2>2, AnchoredIs
<1>6. n \in Live(h1)
  <2>1. q \notin {holder} /\ Inside(b) \cap {} = {}
    OBVIOUS
  <2>2. Anchored(h1, b, q) /\ At(h1, b) = n
    BY ONLY Exact(h), Anchored(h, b, q), <1>4, <2>1, AnchoredDone DEF n
  <2>3. QED  BY <1>4, <2>2, AnchoredIs DEF n
<1>7. Does(h1, h2, {p}, M, 0)
  BY <1>2, <1>4, <1>5, <1>6, ChangeToDoes DEF h2
<1>8. Does(h2, h3, {holder}, {}, 0)
  BY <1>2, <1>7, DropDoes DEF h3, Does
<1>9. Done(h, h2, {holder}, M, 0)
  <2>1. {p} \cap Handles \subseteq {holder} /\ M \subseteq M
    BY <1>2
  <2>2. QED  BY <1>4, <1>7, <2>1, DoneNext
<1>10. Done(h, h3, {holder}, M, 0)
  <2>1. {holder} \cap Handles \subseteq {holder} /\ {} \subseteq M
    OBVIOUS
  <2>2. QED  BY <1>8, <1>9, <2>1, DoneNext
<1>11. QED  BY <1>1, <1>10 DEF M

\* In g the nodes of the handles outside Q have as many parameters.
LengthsKept(h, g, Q) ==
  \A q \in Handles \ Q : h.ptr[q] \in Nodes =>
    Len(g.node[h.ptr[q]].Params) = Len(h.node[h.ptr[q]].Params)

\* SetParamMove(), of a handle or of a parameter.
LEMMA SetParamMoveDone ==
  ASSUME NEW h, Exact(h), NEW s \in Handles \ {holder}, h.ptr[s] \in Nodes,
         NEW i \in DOMAIN Params(h, s),
         NEW b, NEW q, Anchored(h, b, q), q # holder, At(h, b) \in Nodes
  PROVE  /\ Done(h, SetParamMove(h, s, i, b), {holder, b}, {At(h, s)} \cup Inside(b), 0)
         /\ b \in Handles => SetParamMove(h, s, i, b).ptr[b] \in Nodes
         /\ LengthsKept(h, SetParamMove(h, s, i, b), {holder, b})
<1> DEFINE p == Param(h, s, i)
           n == Params(h, s)[i]
           h1 == HoldSlot(h, s, i)
           h2 == Swap(h1, p, b)
           h3 == Drop(h2, holder)
           M == {At(h, s)} \cup Inside(b)
           Q == {holder, b}
<1>1. SetParamMove(h, s, i, b) = h3
  BY DEF SetParamMove
<1>2. /\ Anchored(h, p, s) /\ Inside(p) = {At(h, s)} /\ p \notin Handles
      /\ holder \in Handles /\ At(h, p) = n /\ n \in Nodes
      /\ At(h, s) \in Nodes
  BY HandleAnchored, LocalsDistinct DEF Locals
<1> HIDE DEF p, n, h3, h2, h1
<1>3. Does(h, h1, {holder}, {}, 0)
  BY HoldSlotDoes DEF h1
<1>4. Exact(h1) /\ Done(h, h1, {holder}, {}, 0) /\ Done(h, h1, Q, M, 0)
  <2>1. {holder} \cap Handles \subseteq Q /\ {} \subseteq M
    OBVIOUS
  <2>2. QED  BY <1>3, <2>1, DoneFirst, DoesDone DEF Does
<1>5. Anchored(h1, p, s) /\ At(h1, p) = n
  <2>1. s \notin {holder} /\ Inside(p) \cap {} = {}
    OBVIOUS
  <2>2. Anchored(h1, p, s) /\ At(h1, p) = At(h, p)
    BY ONLY Exact(h), <1>2, <1>4, <2>1, AnchoredDone
  <2>3. QED  BY <1>2, <2>2
<1>6. Anchored(h1, b, q) /\ At(h1, b) = At(h, b)
  <2>1. q \notin {holder} /\ Inside(b) \cap {} = {}
    OBVIOUS
  <2>2. QED  BY ONLY Exact(h), Anchored(h, b, q), <1>4, <2>1, AnchoredDone
<1>7. Swapped(h1, h2, p, b)
  <2>1. p \in Places(h1) /\ b \in Places(h1) /\ At(h1, p) \in Nodes /\ At(h1, b) \in Nodes
    BY <1>2, <1>5, <1>6 DEF Anchored
  <2>2. QED  BY ONLY <1>4, <2>1, SwapDoes DEF h2
<1>8. Does(h1, h2, {p, b}, M, 0) /\ SameLengths(h1, h2) /\ At(h2, b) = n
  BY <1>2, <1>5, <1>7 DEF Swapped
<1>9. Does(h2, h3, {holder}, {}, 0)
  BY <1>2, <1>8, DropDoes DEF h3, Does
<1>10. Done(h, h2, Q, M, 0)
  <2>1. {p, b} \cap Handles \subseteq Q /\ M \subseteq M
    BY <1>2
  <2> HIDE DEF Q, M
  <2>2. QED  BY <1>4, <1>8, <2>1, DoneNext
<1>11. Done(h, h3, Q, M, 0)
  <2>1. {holder} \cap Handles \subseteq Q /\ {} \subseteq M
    OBVIOUS
  <2> HIDE DEF Q, M
  <2>2. QED  BY <1>9, <1>10, <2>1, DoneNext
<1>12. ASSUME b \in Handles
       PROVE  h3.ptr[b] \in Nodes
  <2>1. b # holder
    BY <1>12 DEF Anchored
  <2>2. h2.ptr[b] = n
    BY <1>8, <1>12 DEF At
  <2>3. QED  BY <1>2, <1>9, <1>12, <2>1, <2>2 DEF Does
<1>13. ASSUME NEW t \in Handles \ Q, NEW m \in Nodes, m = h.ptr[t]
       PROVE  Len(h3.node[m].Params) = Len(h.node[m].Params)
  <2>1. h1.ptr[t] = m /\ h1.node[m].Params = h.node[m].Params
    <3>1. t \in Handles /\ t \notin {holder} /\ h.ptr[t] \in Nodes /\ h.ptr[t] \notin {}
      BY <1>13
    <3>2. /\ h1.ptr[t] = h.ptr[t]
          /\ h1.node[h.ptr[t]].Params = h.node[h.ptr[t]].Params
      BY ONLY Exact(h), <1>3, <3>1, HandleKept
    <3>3. QED  BY <1>13, <3>2
  <2>2. h2.ptr[t] = m
    BY <1>2, <1>8, <1>13, <2>1 DEF Does
  <2>3. m \in Live(h1) /\ m \in Live(h2)
    <3>1. t \in Handles \ {p, b}
      BY <1>2, <1>13
    <3>2. QED  BY <1>4, <1>8, <1>13, <2>1, <3>1, HandleKept
  <2>4. Len(h2.node[m].Params) = Len(h1.node[m].Params)
    BY <1>8, <2>3 DEF SameLengths
  <2>5. h3.node[m].Params = h2.node[m].Params
    <3>1. Exact(h2)
      BY <1>8 DEF Does
    <3>2. QED  BY <1>9, <1>13, <2>2, <3>1, HandleKept
  <2>6. QED  BY <2>1, <2>4, <2>5
<1>14. LengthsKept(h, h3, Q)
  BY <1>13 DEF LengthsKept
<1>15. QED  BY <1>1, <1>11, <1>12, <1>14

(***************************************************************************)
(* What the callers do.                                                    *)
(***************************************************************************)

\* Between calls the counts are exact and every object has a node.
Good(h) == Exact(h) /\ \A r \in Objects : h.ptr[r] \in Nodes

\* Calls that leave the objects with nodes.
LEMMA GoodDone ==
  ASSUME NEW h, Good(h), NEW g, NEW Q, NEW M, NEW k, Done(h, g, Q, M, k),
         \A q \in Q \cap Objects : g.ptr[q] \in Nodes
  PROVE  Good(g)
BY LocalsDistinct DEF Good, Done

\* One call.
LEMMA GoodDoes ==
  ASSUME NEW h, Good(h), NEW g, NEW Q, NEW M, NEW k, Does(h, g, Q, M, k),
         \A q \in Q \cap Objects : g.ptr[q] \in Nodes
  PROVE  Good(g)
BY LocalsDistinct DEF Good, Does

\* A node without parameters is constructed.
LEMMA NodeConstructed ==
  ASSUME NEW h, Exact(h), Free(h) >= 1, NEW s \in Handles,
         NEW o, o # "deleted", NEW v
  PROVE  /\ Does(h, Construct(h, s, Data(o, v, <<>>)), {s}, {}, 1)
         /\ Construct(h, s, Data(o, v, <<>>)).ptr[s] \in Nodes
         /\ Renewed(h, Construct(h, s, Data(o, v, <<>>)), s, Data(o, v, <<>>))
<1> DEFINE d == Data(o, v, <<>>)
           g == Construct(h, s, d)
<1>1. IsNode(d) /\ d.RefCount = 0 /\ d.Opcode # "deleted" /\ d.Params = <<>>
  BY EmptySeq, NodeMade DEF Data
<1> HIDE DEF d, g
<1>2. Alters(h, h, {}, {}, {}) /\ \A x \in Nodes : Excess(h, x) = Times(d.Params, x)
  BY <1>1, Unaltered, TimesEmpty
<1>3. Rooted(h, s) /\ Inside(s) = {}
  BY DEF Rooted, Places, Inside
<1>4. Renewed(h, g, s, d)
  <2>1. /\ IsNode(d) /\ d.RefCount = 0 /\ d.Opcode # "deleted"
        /\ Alters(h, h, {}, {}, {}) /\ \A x \in Nodes : Excess(h, x) = Times(d.Params, x)
    BY <1>1, <1>2
  <2>2. Renewed(h, Construct(h, s, d), s, d)
    BY ONLY Exact(h), Free(h) >= 1, <1>3, <2>1, ConstructDoes
  <2>3. QED  BY <1>1, <2>2 DEF g
<1>5. Does(h, g, {s}, {}, 1) /\ g.ptr[s] \in Nodes
  BY <1>3, <1>4 DEF Renewed, At
<1>6. QED  BY <1>4, <1>5 DEF d, g

\* The handles that r can take a copy from hold a node, and are held.
LEMMA SourcesHeld ==
  ASSUME Good(heap), NEW r \in Objects, NEW b \in Sources(r)
  PROVE  /\ At(heap, b) \in Live(heap) /\ b \in Places(heap)
         /\ \E q \in Objects : Anchored(heap, b, q)
<1>1. CASE b \in Objects \ {r}
  BY <1>1, HandleAnchored, LocalsDistinct DEF Good, Places
<1>2. CASE b \in {Param(heap, r, i) : i \in DOMAIN Params(heap, r)}
  <2>1. PICK i \in DOMAIN Params(heap, r) : b = Param(heap, r, i)
    BY <1>2
  <2>2. Anchored(heap, b, r) /\ At(heap, b) \in Live(heap)
    BY <2>1, HandleAnchored, LocalsDistinct DEF Good
  <2>3. QED  BY <2>2 DEF Anchored
<1>3. QED  BY <1>1, <1>2 DEF Sources

\* The object r has been made the only owner of its node.
Owned(h, g, r) ==
  /\ Good(g)
  /\ Done(h, g, {r}, {}, 1)
  /\ Params(g, r) = Params(h, r)
  /\ \A n \in Live(h) \cap Live(g) : g.node[n].Params = h.node[n].Params
  /\ Unshared(g, r)

\* CopyOnWrite() of an object.
LEMMA ObjectOwned ==
  ASSUME NEW h, Good(h), Free(h) >= 1, NEW r \in Objects
  PROVE  Owned(h, CopyOnWrite(h, r), r)
<1> DEFINE g == CopyOnWrite(h, r)
<1>1. Exact(h) /\ Rooted(h, r) /\ Inside(r) = {} /\ At(h, r) \in Nodes /\ r \in Handles
  BY HandleAnchored, LocalsDistinct DEF Good
<1>2. Copied(h, g, r)
  BY <1>1, CopyOnWriteDoes
<1> HIDE DEF g
<1>3. /\ Does(h, g, {r}, {}, 1) /\ g.ptr[r] \in Nodes
      /\ Params(g, r) = Params(h, r) /\ Unshared(g, r)
  BY <1>1, <1>2 DEF Copied, At
<1>4. Done(h, g, {r}, {}, 1) /\ Good(g)
  BY <1>1, <1>3, DoesDone, GoodDoes
<1>5. \A n \in Live(h) \cap Live(g) : g.node[n].Params = h.node[n].Params
  BY <1>3 DEF Does, Live
<1>6. QED  BY <1>3, <1>4, <1>5 DEF Owned, g

\* A copied handle, once r has a node of its own.
LEMMA NowHeld ==
  ASSUME Good(heap), NEW r \in Objects, NEW g, Owned(heap, g, r), NEW b \in Sources(r)
  PROVE  /\ Now(g, r, b) \in Places(g) /\ At(g, Now(g, r, b)) \in Live(g)
         /\ \E q \in Objects : Anchored(g, Now(g, r, b), q)
<1>1. Good(g) /\ Exact(g) /\ Params(g, r) = Params(heap, r)
  BY DEF Owned, Good
<1>2. CASE b \in Objects \ {r}
  <2>1. Now(g, r, b) = b /\ b \in Handles /\ b \in Objects
    BY <1>2, LocalsDistinct DEF Now
  <2>2. QED  BY <1>1, <2>1, HandleAnchored DEF Good, Places
<1>3. CASE b \in {Param(heap, r, i) : i \in DOMAIN Params(heap, r)}
  <2>1. PICK i \in DOMAIN Params(heap, r) : b = Param(heap, r, i)
    BY <1>3
  <2>2. b \notin Handles
    BY <2>1, HandleAnchored, LocalsDistinct DEF Good
  <2>3. Now(g, r, b) = Param(g, r, i)
    BY <2>1, <2>2 DEF Now, Param
  <2>4. Anchored(g, Now(g, r, b), r) /\ At(g, Now(g, r, b)) \in Live(g)
    BY <1>1, <2>1, <2>3, HandleAnchored, LocalsDistinct DEF Good
  <2>5. QED  BY <2>4 DEF Anchored
<1>4. QED  BY <1>2, <1>3 DEF Sources

\* Two objects, one the only owner of its node, have different nodes.
LEMMA OwnersApart ==
  ASSUME NEW g, NEW s \in Handles, Unshared(g, s), NEW q \in Handles \ {s}
  PROVE  g.ptr[q] # g.ptr[s]
BY DEF Unshared, At

\* Memory for two nodes is memory for one.
LEMMA TwoFree ==
  ASSUME NEW g, Free(g) >= 2
  PROVE  Free(g) >= 1
<1>1. Free(g) \in Nat
  BY FreeType
<1>2. QED  BY <1>1

\* Add(): parameters are added to an object's own node.
LEMMA AddGood ==
  ASSUME NEW g, Good(g), Free(g) >= 2, NEW r \in Objects
  PROVE  /\ \A b \in Places(g) : At(g, b) \in Nodes => Good(AddParam(g, r, b))
         /\ \A b \in Objects \ {r} : /\ Good(AddParamMove(g, r, b))
                                     /\ Good(AddParams(g, r, b))
                                     /\ Good(AddParamsMove(CopyOnWrite(g, b), r, b))
<1>1. Exact(g) /\ r \in Handles /\ g.ptr[r] \in Nodes /\ Free(g) >= 1
  BY TwoFree, LocalsDistinct DEF Good
<1>2. ASSUME NEW b \in Places(g), At(g, b) \in Nodes
      PROVE  Good(AddParam(g, r, b))
  <2>1. Does(g, AddParam(g, r, b), {}, {At(g, r)}, 0)
    BY <1>1, <1>2, AddParamDoes
  <2>2. QED  BY <2>1, GoodDoes
<1>3. ASSUME NEW b \in Objects \ {r}
      PROVE  /\ Good(AddParamMove(g, r, b)) /\ Good(AddParams(g, r, b))
             /\ Good(AddParamsMove(CopyOnWrite(g, b), r, b))
  <2>1. b \in Handles /\ g.ptr[b] \in Nodes
    BY LocalsDistinct DEF Good
  <2>2. Good(AddParamMove(g, r, b))
    <3> DEFINE u == AddParamMove(g, r, b)
    <3>1. Does(g, u, {b}, {At(g, r)}, 1) /\ u.ptr[b] \in Nodes
      BY <1>1, <2>1, AddParamMoveDoes
    <3> HIDE DEF u
    <3>2. Good(u)
      BY <3>1, GoodDoes
    <3>3. QED  BY <3>2 DEF u
  <2>3. Good(AddParams(g, r, b))
    <3>1. Does(g, AddParams(g, r, b), {}, {At(g, r)}, 0)
      BY <1>1, <2>1, AddParamsDoes
    <3>2. QED  BY <3>1, GoodDoes
  <2>4. Good(AddParamsMove(CopyOnWrite(g, b), r, b))
    <3> DEFINE u == CopyOnWrite(g, b)
    <3>1. Owned(g, u, b)
      BY <1>1, ObjectOwned
    <3> HIDE DEF u
    <3>2. /\ Good(u) /\ Exact(u) /\ u.ptr[r] \in Nodes /\ u.ptr[b] \in Nodes
          /\ u.ptr[r] # u.ptr[b] /\ Free(u) >= 1
      <4>1. Good(u) /\ Unshared(u, b) /\ Done(g, u, {b}, {}, 1)
        BY <3>1 DEF Owned
      <4>2. Free(u) >= 1
        BY <4>1, RoomLeft
      <4>3. r \in Handles \ {b}
        BY <1>1
      <4>4. QED  BY <2>1, <4>1, <4>2, <4>3, OwnersApart DEF Good
    <3>3. Does(u, AddParamsMove(u, r, b), {}, {At(u, r), At(u, b)}, 1)
      BY <1>1, <2>1, <3>2, AddParamsMoveDoes
    <3>4. QED  BY <3>2, <3>3, GoodDoes DEF u
  <2>5. QED  BY <2>2, <2>3, <2>4
<1>4. QED  BY <1>2, <1>3

\* Set(): parameters of an object's own node are replaced.
LEMMA SetGood ==
  ASSUME NEW g, Good(g), Free(g) >= 2, NEW r \in Objects
  PROVE  /\ \A i \in DOMAIN Params(g, r) :
              /\ \A b : \A q \in Objects : Anchored(g, b, q) /\ At(g, b) \in Nodes =>
                                             Good(SetParam(g, r, i, b))
              /\ \A b \in Objects \ {r} : Good(SetParamMove(g, r, i, b))
         /\ \A b \in Objects \ {r} : /\ Good(SetParams(g, r, b))
                                     /\ Good(SetParamsMove(CopyOnWrite(g, b), r, b))
<1>1. /\ Exact(g) /\ r \in Handles /\ g.ptr[r] \in Nodes /\ Free(g) >= 1
      /\ r \in Handles \ {holder} /\ holder \notin Objects
  BY TwoFree, LocalsDistinct DEF Good, Locals
<1>2. ASSUME NEW i \in DOMAIN Params(g, r), NEW b, NEW q \in Objects,
             Anchored(g, b, q), At(g, b) \in Nodes
      PROVE  Good(SetParam(g, r, i, b))
  <2>1. Done(g, SetParam(g, r, i, b), {holder}, {At(g, r)}, 0)
    BY <1>1, <1>2, SetParamDone
  <2>2. QED  BY <1>1, <2>1, GoodDone
<1>3. ASSUME NEW i \in DOMAIN Params(g, r), NEW b \in Objects \ {r}
      PROVE  Good(SetParamMove(g, r, i, b))
  <2> DEFINE u == SetParamMove(g, r, i, b)
  <2>1. b \in Handles /\ b # holder /\ At(g, b) \in Nodes /\ Anchored(g, b, b)
    BY <1>1, HandleAnchored, LocalsDistinct DEF Good
  <2>2. Done(g, u, {holder, b}, {At(g, r)} \cup Inside(b), 0) /\ u.ptr[b] \in Nodes
    BY <1>1, <2>1, SetParamMoveDone
  <2> HIDE DEF u
  <2>3. Good(u)
    BY <1>1, <2>2, GoodDone
  <2>4. QED  BY <2>3 DEF u
<1>4. ASSUME NEW b \in Objects \ {r}
      PROVE  Good(SetParams(g, r, b)) /\ Good(SetParamsMove(CopyOnWrite(g, b), r, b))
  <2>1. b \in Handles /\ g.ptr[b] \in Nodes
    BY LocalsDistinct DEF Good
  <2>2. Good(SetParams(g, r, b))
    <3>1. Does(g, SetParams(g, r, b), {}, {At(g, r)}, 0)
      BY <1>1, <2>1, SetParamsDoes
    <3>2. QED  BY <3>1, GoodDoes
  <2>3. Good(SetParamsMove(CopyOnWrite(g, b), r, b))
    <3> DEFINE u == CopyOnWrite(g, b)
    <3>1. Owned(g, u, b)
      BY <1>1, ObjectOwned
    <3> HIDE DEF u
    <3>2. /\ Good(u) /\ Exact(u) /\ u.ptr[r] \in Nodes /\ u.ptr[b] \in Nodes
          /\ u.ptr[r] # u.ptr[b]
      <4>1. r \in Handles \ {b} /\ Good(u) /\ Unshared(u, b)
        BY <1>1, <3>1 DEF Owned
      <4>2. QED  BY <2>1, <4>1, OwnersApart DEF Good
    <3>3. Does(u, SetParamsMove(u, r, b), {}, {At(u, r), At(u, b)}, 0)
      BY <1>1, <2>1, <3>2, SetParamsMoveDoes
    <3>4. QED  BY <3>2, <3>3, GoodDoes DEF u
  <2>4. QED  BY <2>2, <2>3
<1>5. QED  BY <1>2, <1>3, <1>4

\* Delete(): parameters of an object's own node are deleted.
LEMMA DeleteGood ==
  ASSUME NEW g, Good(g), NEW r \in Objects
  PROVE  /\ \A i \in DOMAIN Params(g, r) : Good(DelParam(g, r, i))
         /\ Good(DelParams(g, r))
<1>1. Exact(g) /\ r \in Handles /\ g.ptr[r] \in Nodes /\ At(g, r) \in Live(g)
  BY LocalsDistinct, HandleAnchored DEF Good
<1>2. ASSUME NEW i \in DOMAIN Params(g, r)
      PROVE  Good(DelParam(g, r, i))
  <2>1. Does(g, DelParam(g, r, i), {}, {At(g, r)}, 0)
    BY <1>1, DelParamDoes
  <2>2. QED  BY <2>1, GoodDoes
<1>3. Good(DelParams(g, r))
  <2>1. Does(g, DelParams(g, r), {}, {At(g, r)}, 0)
    BY <1>1, DelParamsDoes
  <2>2. QED  BY <2>1, GoodDoes
<1>4. QED  BY <1>2, <1>3

\* A parameter of a parameter of an object's own node is deleted.
LEMMA DeleteBelowGood ==
  ASSUME NEW g, Good(g), Free(g) >= 1, NEW r \in Objects, NEW i \in DOMAIN Params(g, r),
         NEW j \in DOMAIN Params(g, Param(g, r, i))
  PROVE  Good(DeleteBelowOwn(g, r, i, j))
<1> DEFINE p == Param(g, r, i)
           u == CopyOnWrite(g, p)
           n == g.ptr[r]
<1>1. r \in Handles /\ n \in Nodes /\ Exact(g)
  BY LocalsDistinct DEF Good
<1>2. /\ Rooted(g, p) /\ Inside(p) = {n} /\ At(g, p) \in Nodes
      /\ p = <<n, i>> /\ p \notin Handles /\ Params(g, r) = g.node[n].Params
      /\ i \in DOMAIN g.node[n].Params
  BY <1>1, HandleAnchored DEF Param
<1> HIDE DEF p, n
<1>3. Copied(g, u, p)
  BY <1>1, <1>2, CopyOnWriteDoes
<1> HIDE DEF u
<1>4. /\ Does(g, u, {p}, {n}, 1) /\ SameLengths(g, u) /\ At(u, p) \in Nodes
      /\ Params(u, p) = Params(g, p)
  BY <1>2, <1>3 DEF Copied
<1>5. Good(u) /\ Exact(u)
  <2>1. {p} \cap Objects = {}
    BY <1>2, LocalsDistinct
  <2>2. Good(u)
    BY <1>4, <2>1, GoodDoes
  <2>3. QED  BY <2>2 DEF Good
<1>6. At(u, p) \in Live(u)
  <2>1. n \in Live(g) /\ n \in Live(u) /\ u.ptr[r] = n
    <3>1. r \notin {p} /\ g.ptr[r] \in Nodes /\ g.ptr[r] = n
      BY <1>1, <1>2 DEF n
    <3>2. QED  BY ONLY <1>1, <1>4, <3>1, HandleKept
  <2>2. Shape(g) /\ Shape(u)
    BY <1>1, <1>5, ExactIs
  <2>3. i \in DOMAIN u.node[n].Params
    <3>1. /\ Len(u.node[n].Params) = Len(g.node[n].Params)
          /\ u.node[n].Params \in Seq(Nodes) /\ g.node[n].Params \in Seq(Nodes)
      BY <1>1, <1>4, <2>1, <2>2, ParamsTyped DEF SameLengths
    <3>2. QED  BY <1>2, <3>1, LenProperties
  <2>4. u.ptr[r] \in Nodes /\ Params(u, r) = u.node[n].Params /\ p = Param(u, r, i)
    BY <1>1, <1>2, <1>5, <2>1, HandleAnchored DEF Param
  <2>5. QED  BY <1>1, <1>5, <2>3, <2>4, HandleAnchored
<1>7. j \in DOMAIN Params(u, p)
  BY <1>4 DEF p
<1>8. Does(u, DelParam(u, p, j), {}, {At(u, p)}, 0)
  BY <1>5, <1>6, <1>7, DelParamDoes
<1>9. Good(DelParam(u, p, j))
  BY <1>5, <1>8, GoodDoes
<1>10. QED  BY <1>9 DEF DeleteBelowOwn, p, u

\* In u the variable tmp has a node of its own; the object r has what it had in g.
Lent(g, u, r) ==
  /\ Good(u)
  /\ u.ptr[tmp] \in Nodes
  /\ u.ptr[r] \in Nodes
  /\ u.ptr[r] # u.ptr[tmp]
  /\ Params(u, r) = Params(g, r)

\* GetUniqueRef() of a parameter of an object.
LEMMA ParamLent ==
  ASSUME NEW g, Good(g), Free(g) >= 1, NEW r \in Objects, NEW i \in DOMAIN Params(g, r)
  PROVE  /\ Lent(g, GetUniqueRef(g, Param(g, r, i)), r)
         /\ Done(g, GetUniqueRef(g, Param(g, r, i)), {tmp}, {}, 1)
<1> DEFINE p == Param(g, r, i)
           u == GetUniqueRef(g, p)
           n == g.ptr[r]
<1>1. r \in Handles /\ tmp \in Handles /\ tmp \notin Objects /\ n \in Nodes /\ Exact(g)
  BY LocalsDistinct DEF Good, Locals
<1>2. p \in Places(g) /\ p \notin Handles /\ At(g, p) \in Nodes
  BY <1>1, HandleAnchored DEF Rooted
<1> HIDE DEF p
<1>3. Done(g, u, {tmp}, {}, 1) /\ u.ptr[tmp] \in Nodes /\ Unshared(u, tmp)
  BY <1>1, <1>2, GetUniqueRefDone
<1> HIDE DEF u
<1>4. Good(u)
  <2>1. {tmp} \cap Objects = {}
    BY <1>1
  <2>2. QED  BY <1>3, <2>1, GoodDone
<1>5. u.ptr[r] = n /\ u.node[n].Params = g.node[n].Params
  <2>1. r \in Handles \ {tmp} /\ n \in Nodes \ {} /\ n \in Near(g, n)
    BY <1>1 DEF Near
  <2>2. u.ptr[r] = n /\ Stays(g, u, {}, n)
    BY <1>3, <2>1 DEF Done
  <2>3. QED  BY <2>1, <2>2 DEF Stays
<1>6. Params(u, r) = Params(g, r)
  <2>1. Exact(u) /\ u.ptr[r] \in Nodes
    BY <1>1, <1>4, <1>5 DEF Good
  <2> HIDE DEF n
  <2>2. Params(u, r) = u.node[n].Params /\ Params(g, r) = g.node[n].Params
    BY <1>1, <1>5, <2>1, HandleAnchored DEF n
  <2>3. QED  BY <1>5, <2>2
<1>7. u.ptr[r] # u.ptr[tmp]
  <2>1. r \in Handles \ {tmp}
    BY <1>1
  <2>2. QED  BY <1>1, <1>3, <2>1, OwnersApart
<1>8. QED  BY <1>1, <1>3, <1>4, <1>5, <1>6, <1>7 DEF Lent, u, p

\* A variable of the functions is dropped.
LEMMA DropGood ==
  ASSUME NEW g, Good(g), NEW s \in Locals
  PROVE  Good(Drop(g, s))
<1>1. Exact(g) /\ s \in Handles /\ {s} \cap Objects = {}
  BY LocalsDistinct DEF Good
<1>2. Does(g, Drop(g, s), {s}, {}, 0)
  BY <1>1, DropDoes
<1>3. QED  BY <1>1, <1>2, GoodDoes

\* AdoptChildrenWithSameOpcode.
LEMMA AssimilateGood ==
  ASSUME NEW r \in Objects, Good(Own(r)), Free(Own(r)) >= 2,
         NEW i \in DOMAIN Params(Own(r), r)
  PROVE  Good(Assimilate(r, i))
<1> DEFINE g == Own(r)
           u == GetUniqueRef(g, Param(g, r, i))
           h1 == HoldSlot(u, r, i)
           h2 == DelParam(h1, r, i)
           h3 == AddParamsMove(h2, r, tmp)
           n == u.ptr[r]
<1>1. Assimilate(r, i) = Drop(Drop(h3, holder), tmp)
  BY DEF Assimilate
<1>2. /\ r \in Handles /\ tmp \in Handles /\ tmp # holder /\ r # holder
      /\ tmp \in Locals /\ holder \in Locals /\ {holder} \cap Objects = {}
  BY LocalsDistinct DEF Locals
<1>3. Lent(g, u, r) /\ Free(u) >= 1
  <2>1. Free(g) >= 1 /\ Free(g) >= 1 + 1
    BY TwoFree
  <2>2. Lent(g, u, r) /\ Done(g, u, {tmp}, {}, 1)
    BY <2>1, ParamLent
  <2>3. QED  BY <2>1, <2>2, RoomLeft
<1> HIDE DEF g, u, h1, h2, h3
<1>4. /\ Good(u) /\ Exact(u) /\ u.ptr[tmp] \in Nodes /\ n \in Nodes /\ n # u.ptr[tmp]
      /\ i \in DOMAIN Params(u, r)
  BY <1>3 DEF Lent, Good, g
<1>5. Does(u, h1, {holder}, {}, 0)
  BY <1>2, <1>4, HoldSlotDoes DEF h1
<1>6. Good(h1) /\ Free(h1) >= 1 /\ h1.ptr[r] = n /\ h1.ptr[tmp] = u.ptr[tmp]
  BY <1>2, <1>3, <1>4, <1>5, GoodDoes, RoomKept DEF Does
<1>7. i \in DOMAIN Params(h1, r) /\ At(h1, r) \in Live(h1) /\ Exact(h1)
  <2>1. h1.node[u.ptr[r]].Params = u.node[u.ptr[r]].Params
    <3>1. r \notin {holder} /\ u.ptr[r] \in Nodes /\ u.ptr[r] \notin {}
      BY <1>2, <1>4
    <3>2. QED  BY ONLY <1>2, <1>4, <1>5, <3>1, HandleKept
  <2>2. Exact(h1) /\ h1.ptr[r] \in Nodes /\ u.ptr[r] \in Nodes
    BY <1>4, <1>6 DEF Good
  <2>3. Params(u, r) = u.node[u.ptr[r]].Params /\ Params(h1, r) = h1.node[u.ptr[r]].Params
    BY <1>2, <1>4, <1>6, <2>2, HandleAnchored
  <2>4. QED  BY <1>2, <1>4, <2>1, <2>2, <2>3, HandleAnchored
<1>8. Does(h1, h2, {}, {At(h1, r)}, 0)
  BY <1>7, DelParamDoes DEF h2
<1>9. /\ Good(h2) /\ Exact(h2) /\ Free(h2) >= 1
      /\ h2.ptr[r] = n /\ h2.ptr[tmp] = u.ptr[tmp]
  <2>1. Good(h2) /\ Free(h2) >= 1
    BY <1>6, <1>8, GoodDoes, RoomKept
  <2>2. QED  BY <1>2, <1>6, <1>8, <2>1 DEF Does
<1>10. Does(h2, h3, {}, {At(h2, r), At(h2, tmp)}, 1)
  BY <1>2, <1>4, <1>9, AddParamsMoveDoes DEF h3
<1>11. Good(h3)
  BY <1>9, <1>10, GoodDoes
<1>12. QED  BY <1>1, <1>2, <1>11, DropGood

\* cNot [(cNot x)].
LEMMA AdoptParamsGood ==
  ASSUME NEW r \in Objects, Good(Own(r)), Free(Own(r)) >= 1,
         NEW i \in DOMAIN Params(Own(r), r)
  PROVE  Good(AdoptParams(r, i))
<1> DEFINE g == Own(r)
           u == GetUniqueRef(g, Param(g, r, i))
           h1 == SetParamsMove(u, r, tmp)
<1>1. AdoptParams(r, i) = Drop(h1, tmp)
  BY DEF AdoptParams
<1>2. r \in Handles /\ tmp \in Handles /\ tmp \in Locals
  BY LocalsDistinct DEF Locals
<1>3. Lent(g, u, r)
  BY ParamLent
<1> HIDE DEF g, u, h1
<1>4. /\ Good(u) /\ Exact(u) /\ u.ptr[tmp] \in Nodes /\ u.ptr[r] \in Nodes
      /\ u.ptr[r] # u.ptr[tmp]
  BY <1>3 DEF Lent, Good
<1>5. Does(u, h1, {}, {At(u, r), At(u, tmp)}, 0)
  BY <1>2, <1>4, SetParamsMoveDoes DEF h1
<1>6. Good(h1)
  BY <1>4, <1>5, GoodDoes
<1>7. QED  BY <1>1, <1>2, <1>6, DropGood

\* In g the variable mul has the node c; r and c have the parameters they had in h.
Grouped(h, g, r, c) ==
  /\ Good(g)
  /\ g.ptr[mul] = c
  /\ Params(g, r) = Params(h, r)
  /\ Params(g, mul) = h.node[c].Params

\* DistributeFunction() to begin with: mul becomes the parameter.
LEMMA ProductTaken ==
  ASSUME NEW h, Good(h), Free(h) >= 2, NEW r \in Objects, 1 \in DOMAIN Params(h, r)
  PROVE  /\ Grouped(h, Become(Construct(h, mul, Nop), mul, Param(h, r, 1)), r, Params(h, r)[1])
         /\ Done(h, Become(Construct(h, mul, Nop), mul, Param(h, r, 1)), {mul, tmp}, {}, 2)
<1> DEFINE p == Param(h, r, 1)
           c == Params(h, r)[1]
           u == Construct(h, mul, Nop)
           g == Become(u, mul, p)
           n == h.ptr[r]
<1>1. /\ Exact(h) /\ n \in Nodes /\ r \in Handles /\ r \notin {mul, tmp}
      /\ mul \in Handles /\ mul \in Handles \ {tmp} /\ {mul, tmp} \cap Objects = {}
      /\ Free(h) >= 1
  BY LocalsDistinct, TwoFree DEF Good, Locals
<1>2. /\ Anchored(h, p, r) /\ Inside(p) = {n} /\ At(h, p) = c
      /\ c \in Nodes /\ Params(h, r) = h.node[n].Params
  BY <1>1, HandleAnchored
<1>3. c \in Near(h, n) /\ n \in Near(h, n)
  BY <1>2 DEF Near
<1> HIDE DEF p, c, u, g, n
<1>4. Does(h, u, {mul}, {}, 1) /\ u.ptr[mul] \in Nodes /\ Exact(u)
  <2>1. "cNop" # "deleted" /\ u = Construct(h, mul, Data("cNop", 0, <<>>))
    BY DEF u, Nop
  <2>2. Does(h, u, {mul}, {}, 1) /\ u.ptr[mul] \in Nodes
    BY ONLY <1>1, <2>1, NodeConstructed
  <2>3. QED  BY <2>2 DEF Does
<1>5. Done(h, u, {mul}, {}, 1) /\ Free(u) >= 1
  <2>1. Free(h) >= 2 /\ 2 = 1 + 1
    OBVIOUS
  <2>2. QED  BY <1>1, <1>4, <2>1, DoesDone, RoomUsed
<1>6. Anchored(u, p, r) /\ At(u, p) = c
  <2>1. r \notin {mul} /\ Inside(p) \cap {} = {}
    BY <1>1
  <2>2. QED  BY ONLY <1>1, <1>2, <1>5, <2>1, AnchoredDone
<1>7. c \in Live(u)
  BY <1>2, <1>4, <1>6, AnchoredIs
<1>8. Done(u, g, {mul, tmp}, {}, 1) /\ g.ptr[mul] = c
  BY <1>1, <1>4, <1>5, <1>6, <1>7, BecomeDone DEF g
<1>9. Done(h, g, {mul, tmp}, {}, 2)
  <2>1. {mul} \cap Handles \subseteq {mul, tmp} /\ {mul, tmp} \cap Handles \subseteq {mul, tmp}
    OBVIOUS
  <2>2. Done(h, u, {mul, tmp}, {}, 1)
    BY <1>5, <2>1, DoneMore
  <2>3. QED  BY <1>8, <2>1, <2>2, DoneThen
<1>10. Good(g)
  BY <1>1, <1>9, GoodDone
<1>11. /\ g.ptr[r] = n /\ g.node[n].Params = h.node[n].Params
       /\ g.node[c].Params = h.node[c].Params
  <2>1. r \in Handles \ {mul, tmp} /\ h.ptr[r] \in Nodes \ {}
    BY <1>1 DEF n
  <2>2. g.ptr[r] = h.ptr[r] /\ Stays(h, g, {}, h.ptr[r])
    BY <1>9, <2>1 DEF Done
  <2>3. QED  BY <1>3, <2>2 DEF Stays, n
<1>12. Params(g, r) = g.node[n].Params /\ Params(g, mul) = g.node[c].Params
  BY <1>1, <1>2, <1>8, <1>10, <1>11, HandleAnchored DEF Good
<1>13. Grouped(h, g, r, c)
  BY <1>2, <1>8, <1>10, <1>11, <1>12 DEF Grouped
<1>14. QED  BY <1>9, <1>13 DEF g, u, p, c

\* A factor takes the place of the parameter and is deleted from mul.
LEMMA FactorTaken ==
  ASSUME NEW h, NEW g, NEW r \in Objects, NEW c \in Nodes, Grouped(h, g, r, c),
         NEW k \in Nat, Free(g) >= k,
         1 \in DOMAIN Params(h, r), NEW n \in DOMAIN h.node[c].Params
  PROVE  /\ Good(DelParam(SetParamMove(g, r, 1, Param(g, mul, n)), mul, n))
         /\ DelParam(SetParamMove(g, r, 1, Param(g, mul, n)), mul, n).ptr[mul] \in Nodes
         /\ Free(DelParam(SetParamMove(g, r, 1, Param(g, mul, n)), mul, n)) >= k
<1> DEFINE p == Param(g, mul, n)
           u == SetParamMove(g, r, 1, p)
           v == DelParam(u, mul, n)
<1>1. /\ Exact(g) /\ Good(g) /\ mul \in Handles /\ mul # holder /\ g.ptr[mul] = c
      /\ r \in Handles \ {holder} /\ g.ptr[r] \in Nodes
      /\ 1 \in DOMAIN Params(g, r) /\ n \in DOMAIN Params(g, mul)
      /\ {holder} \cap Objects = {}
  BY LocalsDistinct DEF Grouped, Good, Locals
<1>2. /\ Anchored(g, p, mul) /\ p \notin Handles /\ At(g, p) \in Nodes
      /\ Params(g, mul) = g.node[c].Params
  BY <1>1, HandleAnchored
<1> HIDE DEF p, u, v
<1>3. /\ Done(g, u, {holder, p}, {At(g, r)} \cup Inside(p), 0)
      /\ LengthsKept(g, u, {holder, p})
  BY <1>1, <1>2, SetParamMoveDone DEF u
<1>4. Good(u) /\ Exact(u)
  <2>1. {holder, p} \cap Objects = {}
    BY <1>1, <1>2, LocalsDistinct
  <2>2. QED  BY <1>1, <1>3, <2>1, GoodDone DEF Good
<1>5. u.ptr[mul] = c /\ Len(u.node[c].Params) = Len(g.node[c].Params)
  <2>1. mul \in Handles \ {holder, p}
    BY <1>1, <1>2
  <2>2. QED  BY <1>1, <1>3, <2>1 DEF Done, LengthsKept
<1>6. n \in DOMAIN Params(u, mul) /\ At(u, mul) \in Live(u)
  <2>1. g.node[c].Params \in Seq(Nodes) /\ u.node[c].Params \in Seq(Nodes)
    BY <1>1, <1>4, ExactIs, ParamsTyped
  <2>2. Params(u, mul) = u.node[c].Params /\ At(u, mul) \in Live(u)
    BY <1>1, <1>4, <1>5, HandleAnchored
  <2>3. n \in DOMAIN g.node[c].Params
    BY <1>1, <1>2
  <2>4. QED  BY <1>5, <2>1, <2>2, <2>3, LenProperties
<1>7. Does(u, v, {}, {At(u, mul)}, 0)
  BY <1>4, <1>6, DelParamDoes DEF v
<1>8. Good(v) /\ v.ptr[mul] = c
  BY <1>1, <1>4, <1>5, <1>7, GoodDoes DEF Does
<1>9. Free(v) >= k
  <2>1. Free(g) \in Nat /\ Free(u) \in Nat /\ Free(g) <= Free(u) + 0
    BY <1>3, FreeType DEF Done
  <2>2. Free(u) >= k
    BY <2>1
  <2>3. QED  BY <1>7, <2>2, RoomKept
<1>10. QED  BY <1>8, <1>9 DEF v, u, p

\* From g to u one variable has been given a node, and room is left for k.
Given(g, u, b, k) ==
  /\ Good(u)
  /\ Free(u) >= k
  /\ u.ptr[b] \in Nodes
  /\ \A q \in Handles \ {b} : u.ptr[q] = g.ptr[q]

\* The node of a variable moves, as a parameter, to s; the variable gets another.
LEMMA ParamMoved ==
  ASSUME NEW g, Good(g), NEW s \in Handles, g.ptr[s] \in Nodes,
         NEW b \in Locals, g.ptr[b] \in Nodes, NEW j \in Nat, Free(g) >= j,
         NEW k \in Nat, j = k + 1
  PROVE  Given(g, AddParamMove(g, s, b), b, k)
<1> DEFINE u == AddParamMove(g, s, b)
<1>1. Exact(g) /\ b \in Handles /\ {b} \cap Objects = {} /\ Free(g) >= 1
  <2>1. Free(g) \in Nat
    BY FreeType
  <2>2. Free(g) >= 1
    BY <2>1
  <2>3. QED  BY <2>2, LocalsDistinct DEF Good
<1>2. Does(g, u, {b}, {At(g, s)}, 1) /\ u.ptr[b] \in Nodes
  BY <1>1, AddParamMoveDoes
<1> HIDE DEF u
<1>3. Good(u) /\ Free(u) >= k
  BY <1>1, <1>2, GoodDoes, RoomUsed
<1>4. \A q \in Handles \ {b} : u.ptr[q] = g.ptr[q]
  BY <1>2 DEF Does
<1>5. QED  BY <1>2, <1>3, <1>4 DEF Given, u

\* A variable is constructed.
LEMMA VariableConstructed ==
  ASSUME NEW g, Good(g), NEW b \in Locals, NEW o, o # "deleted", NEW v,
         NEW j \in Nat, Free(g) >= j, NEW k \in Nat, j = k + 1
  PROVE  Given(g, Construct(g, b, Data(o, v, <<>>)), b, k)
<1> DEFINE u == Construct(g, b, Data(o, v, <<>>))
<1>1. Exact(g) /\ b \in Handles /\ {b} \cap Objects = {} /\ Free(g) >= 1
  <2>1. Free(g) \in Nat
    BY FreeType
  <2>2. Free(g) >= 1
    BY <2>1
  <2>3. QED  BY <2>2, LocalsDistinct DEF Good
<1>2. Does(g, u, {b}, {}, 1) /\ u.ptr[b] \in Nodes
  BY <1>1, NodeConstructed
<1> HIDE DEF u
<1>3. Good(u) /\ Free(u) >= k
  BY <1>1, <1>2, GoodDoes, RoomUsed
<1>4. \A q \in Handles \ {b} : u.ptr[q] = g.ptr[q]
  BY <1>2 DEF Does
<1>5. QED  BY <1>2, <1>3, <1>4 DEF Given, u

\* The opcode of an object's node is not that of memory that is not in use.
LEMMA OpcodeLives ==
  ASSUME NEW g, Exact(g), NEW r \in Handles, g.ptr[r] \in Nodes
  PROVE  data(g, r).Opcode # "deleted"
<1>1. At(g, r) \in Nodes /\ r \in Places(g) /\ DeathOK(g)
  BY ExactIs DEF At, Places
<1>2. g.node[At(g, r)].RefCount # 0
  BY <1>1, ClaimedLive
<1>3. QED  BY <1>1, <1>2 DEF DeathOK, data

\* DistributeFunction().
LEMMA DistributeGood ==
  ASSUME Good(heap), Free(heap) >= 8, NEW r \in Objects, 1 \in DOMAIN Params(heap, r),
         NEW n \in DOMAIN Params(heap, Param(heap, r, 1))
  PROVE  Good(DistributeFunction(r, n))
<1> DEFINE c  == Params(heap, r)[1]
           h1 == Become(Construct(heap, mul, Nop), mul, Param(heap, r, 1))
           h2 == DelParam(SetParamMove(h1, r, 1, Param(h1, mul, n)), mul, n)
           o  == data(h2, r).Opcode
           v  == data(h2, r).Value
           k3 == Construct(h2, func, Data(o, v, <<>>))
           h3 == AddParamMove(k3, func, mul)
           k4 == SetOpcode(h3, r, "cIf")
           h4 == AddParamMove(k4, r, func)
           k5 == Construct(h4, p2, Data("cImmed", 0, <<>>))
           h5 == AddParamMove(k5, r, p2)
<1>1. DistributeFunction(r, n) = Drop(Drop(Drop(h5, p2), func), mul)
  BY Zenon DEF DistributeFunction
<1>2. /\ r \in Handles /\ mul \in Locals /\ func \in Locals /\ p2 \in Locals
      /\ mul \in Handles /\ func \in Handles
      /\ mul # func /\ r \in Handles \ {mul} /\ r \in Handles \ {func} /\ r \in Handles \ {p2}
  BY LocalsDistinct DEF Locals
<1>3. Free(heap) >= 2 /\ Free(heap) >= 2 + 6
  <2>1. Free(heap) \in Nat
    BY FreeType
  <2>2. QED  BY <2>1
<1>4. c \in Nodes /\ n \in DOMAIN heap.node[c].Params
  <2>1. Exact(heap) /\ heap.ptr[r] \in Nodes
    BY DEF Good
  <2>2. At(heap, Param(heap, r, 1)) = c /\ c \in Nodes
    BY <1>2, <2>1, HandleAnchored
  <2>3. QED  BY <2>2 DEF Params, data
<1>5. Grouped(heap, h1, r, c) /\ Done(heap, h1, {mul, tmp}, {}, 2)
  BY <1>3, ProductTaken
<1> HIDE DEF c, h1, h2, o, v, k3, h3, k4, h4, k5, h5
<1>6. Free(h1) >= 6
  <2>1. 2 \in Nat /\ 6 \in Nat
    OBVIOUS
  <2>2. QED  BY ONLY <1>3, <1>5, <2>1, RoomLeft
<1>7. Good(h2) /\ h2.ptr[mul] \in Nodes /\ Free(h2) >= 6
  BY <1>4, <1>5, <1>6, FactorTaken DEF h2
<1>8. o # "deleted"
  <2>1. Exact(h2) /\ h2.ptr[r] \in Nodes
    BY <1>7 DEF Good
  <2>2. QED  BY <1>2, <2>1, OpcodeLives DEF o
<1>9. /\ Good(k3) /\ Free(k3) >= 5 /\ k3.ptr[func] \in Nodes
      /\ \A q \in Handles \ {func} : k3.ptr[q] = h2.ptr[q]
  <2>1. 6 = 5 + 1 /\ 6 \in Nat /\ 5 \in Nat
    OBVIOUS
  <2>2. Given(h2, k3, func, 5)
    BY ONLY <1>2, <1>7, <1>8, <2>1, VariableConstructed DEF k3
  <2>3. QED  BY <2>2 DEF Given
<1>10. k3.ptr[mul] \in Nodes
  BY <1>2, <1>7, <1>9
<1>11. Good(h3) /\ Free(h3) >= 4 /\ h3.ptr[func] \in Nodes
  <2>1. 5 = 4 + 1 /\ 5 \in Nat /\ 4 \in Nat
    OBVIOUS
  <2>2. /\ Good(h3) /\ Free(h3) >= 4
        /\ \A q \in Handles \ {mul} : h3.ptr[q] = k3.ptr[q]
    BY <1>2, <1>9, <1>10, <2>1, ParamMoved DEF h3, Given
  <2>3. QED  BY <1>2, <1>9, <2>2
<1>12. Good(k4) /\ Free(k4) >= 4 /\ k4.ptr[func] \in Nodes /\ k4.ptr[r] \in Nodes
  <2>1. Exact(h3) /\ h3.ptr[r] \in Nodes /\ "cIf" # "deleted"
    BY <1>11 DEF Good
  <2>2. Does(h3, k4, {}, {At(h3, r)}, 0)
    BY <1>2, <2>1, SetOpcodeDoes DEF k4
  <2>3. Good(k4) /\ Free(k4) >= 4
    BY <1>11, <2>2, GoodDoes, RoomKept
  <2>4. QED  BY <1>2, <1>11, <2>2, <2>3 DEF Does, Good
<1>13. Good(h4) /\ Free(h4) >= 3
  <2>1. 4 = 3 + 1 /\ 4 \in Nat /\ 3 \in Nat
    OBVIOUS
  <2>2. QED  BY <1>2, <1>12, <2>1, ParamMoved DEF h4, Given
<1>14. Good(k5) /\ Free(k5) >= 2 /\ k5.ptr[p2] \in Nodes
  <2>1. 3 = 2 + 1 /\ 3 \in Nat /\ 2 \in Nat /\ "cImmed" # "deleted"
    OBVIOUS
  <2>2. Given(h4, k5, p2, 2)
    BY ONLY <1>2, <1>13, <2>1, VariableConstructed DEF k5
  <2>3. QED  BY <2>2 DEF Given
<1>15. Good(h5)
  <2>1. 2 = 1 + 1 /\ 2 \in Nat /\ 1 \in Nat /\ k5.ptr[r] \in Nodes
    BY <1>14 DEF Good
  <2>2. QED  BY <1>2, <1>14, <2>1, ParamMoved DEF h5, Given
<1>16. QED  BY <1>1, <1>2, <1>15, DropGood

(***************************************************************************)
(* Every step.                                                             *)
(***************************************************************************)

\* When there is memory for a call, the object can be made the owner of its node.
LEMMA CallReady ==
  ASSUME Good(heap), Room(heap, CallNodes), NEW r \in Objects
  PROVE  /\ Owned(heap, Own(r), r) /\ Good(Own(r)) /\ Free(Own(r)) >= 2
         /\ Free(Own(r)) >= 1 /\ Free(heap) >= 8
         /\ Params(Own(r), r) = Params(heap, r)
<1>1. Free(heap) >= 8 /\ Free(heap) \in Nat
  BY FreeType DEF CallNodes
<1>2. Free(heap) >= 1 /\ Free(heap) >= 1 + 2
  BY <1>1
<1>3. Owned(heap, Own(r), r)
  BY <1>2, ObjectOwned DEF Own
<1>4. /\ Good(Own(r)) /\ Done(heap, Own(r), {r}, {}, 1)
      /\ Params(Own(r), r) = Params(heap, r)
  BY <1>3 DEF Owned
<1>5. Free(Own(r)) >= 2
  BY <1>2, <1>4, RoomLeft
<1>6. QED  BY <1>1, <1>3, <1>4, <1>5, TwoFree

\* Handles are assigned.
LEMMA AssignGood ==
  ASSUME Good(heap), Free(heap) >= 1, NEW r \in Objects
  PROVE  /\ \A d \in LeafData : Good(Construct(heap, r, d))
         /\ \A b \in Sources(r) : /\ Good(ChangeTo(heap, r, At(heap, b)))
                                  /\ Good(Become(heap, r, b))
<1>1. /\ Exact(heap) /\ r \in Handles /\ Rooted(heap, r) /\ Inside(r) = {}
      /\ r \in Handles \ {tmp} /\ heap.ptr[r] \in Nodes /\ tmp \notin Objects
  BY LocalsDistinct, HandleAnchored DEF Good, Locals
<1>2. ASSUME NEW d \in LeafData
      PROVE  Good(Construct(heap, r, d))
  <2> DEFINE o == d.Opcode
             v == d.Value
             u == Construct(heap, r, Data(o, v, <<>>))
  <2>1. d = Data(o, v, <<>>) /\ o # "deleted"
    BY LeavesAssumption
  <2> HIDE DEF o, v
  <2>2. Does(heap, u, {r}, {}, 1) /\ u.ptr[r] \in Nodes
    BY <1>1, <2>1, NodeConstructed
  <2>3. u = Construct(heap, r, d)
    BY <2>1
  <2> HIDE DEF u
  <2>4. Good(u)
    BY <2>2, GoodDoes
  <2>5. QED  BY <2>3, <2>4
<1>3. ASSUME NEW b \in Sources(r)
      PROVE  Good(ChangeTo(heap, r, At(heap, b))) /\ Good(Become(heap, r, b))
  <2> DEFINE n == At(heap, b)
             u == ChangeTo(heap, r, n)
             w == Become(heap, r, b)
  <2>1. n \in Live(heap)
    BY SourcesHeld
  <2> HIDE DEF n
  <2>2. Does(heap, u, {r}, {}, 0) /\ At(u, r) = n
    BY <1>1, <2>1, ChangeToDoes
  <2> HIDE DEF u
  <2>3. Good(u)
    BY <1>1, <2>1, <2>2, GoodDoes DEF At, Live
  <2>4. Done(heap, w, {r, tmp}, {}, 1) /\ w.ptr[r] = n
    BY <1>1, <2>1, BecomeDone DEF n
  <2> HIDE DEF w
  <2>5. Good(w)
    <3>1. \A q \in {r, tmp} \cap Objects : w.ptr[q] \in Nodes
      BY <1>1, <2>1, <2>4 DEF Live
    <3>2. QED  BY <2>4, <3>1, GoodDone
  <2>6. QED  BY <2>3, <2>5 DEF n, u, w
<1>4. QED  BY <1>2, <1>3

\* What a call leaves is the next state.
LEMMA BecomesGood ==
  ASSUME NEW h, Good(h), Becomes(h)
  PROVE  Good(heap')
BY DEF Becomes

\* Add().
LEMMA AddStep ==
  ASSUME Good(heap), Room(heap, CallNodes), NEW r \in Objects, Add(r)
  PROVE  Good(heap')
<1> DEFINE g == Own(r)
<1>1. Owned(heap, g, r) /\ Good(g) /\ Free(g) >= 2
  BY CallReady
<1>2. \/ \E b \in Sources(r) : Becomes(AddParam(g, r, Now(g, r, b)))
      \/ \E b \in Objects \ {r} : \/ Becomes(AddParamMove(g, r, b))
                                  \/ Becomes(AddParams(g, r, b))
                                  \/ Becomes(AddParamsMove(CopyOnWrite(g, b), r, b))
  BY DEF Add
<1> HIDE DEF g
<1>3. CASE \E b \in Sources(r) : Becomes(AddParam(g, r, Now(g, r, b)))
  <2>1. PICK b \in Sources(r) : Becomes(AddParam(g, r, Now(g, r, b)))
    BY <1>3
  <2> DEFINE p == Now(g, r, b)
  <2>2. p \in Places(g) /\ At(g, p) \in Nodes
    BY <1>1, NowHeld DEF Live
  <2> HIDE DEF p
  <2>3. Good(AddParam(g, r, p))
    BY <1>1, <2>2, AddGood
  <2>4. QED  BY <2>1, <2>3, BecomesGood DEF p
<1>4. ASSUME NEW b \in Objects \ {r},
             \/ Becomes(AddParamMove(g, r, b))
             \/ Becomes(AddParams(g, r, b))
             \/ Becomes(AddParamsMove(CopyOnWrite(g, b), r, b))
      PROVE  Good(heap')
  <2>1. /\ Good(AddParamMove(g, r, b)) /\ Good(AddParams(g, r, b))
        /\ Good(AddParamsMove(CopyOnWrite(g, b), r, b))
    BY <1>1, AddGood
  <2>2. QED  BY <1>4, <2>1, BecomesGood
<1>5. QED  BY <1>2, <1>3, <1>4

\* Set().
LEMMA SetStep ==
  ASSUME Good(heap), Room(heap, CallNodes), NEW r \in Objects, Set(r)
  PROVE  Good(heap')
<1> DEFINE g == Own(r)
<1>1. Owned(heap, g, r) /\ Good(g) /\ Free(g) >= 2
  BY CallReady
<1>2. \/ \E i \in DOMAIN Params(g, r) :
           \/ \E b \in Sources(r) : Becomes(SetParam(g, r, i, Now(g, r, b)))
           \/ \E b \in Objects \ {r} : Becomes(SetParamMove(g, r, i, b))
      \/ \E b \in Objects \ {r} : \/ Becomes(SetParams(g, r, b))
                                  \/ Becomes(SetParamsMove(CopyOnWrite(g, b), r, b))
  BY DEF Set
<1> HIDE DEF g
<1>3. ASSUME NEW i \in DOMAIN Params(g, r), NEW b \in Sources(r),
             Becomes(SetParam(g, r, i, Now(g, r, b)))
      PROVE  Good(heap')
  <2> DEFINE p == Now(g, r, b)
  <2>1. PICK q \in Objects : Anchored(g, p, q) /\ At(g, p) \in Nodes
    BY <1>1, NowHeld DEF Live
  <2>2. Becomes(SetParam(g, r, i, p))
    BY <1>3
  <2> HIDE DEF p
  <2>3. Good(SetParam(g, r, i, p))
    BY <1>1, <2>1, SetGood
  <2>4. QED  BY <2>2, <2>3, BecomesGood
<1>4. ASSUME NEW i \in DOMAIN Params(g, r), NEW b \in Objects \ {r},
             Becomes(SetParamMove(g, r, i, b))
      PROVE  Good(heap')
  <2>1. Good(SetParamMove(g, r, i, b))
    BY <1>1, SetGood
  <2>2. QED  BY <1>4, <2>1, BecomesGood
<1>5. ASSUME NEW b \in Objects \ {r},
             \/ Becomes(SetParams(g, r, b))
             \/ Becomes(SetParamsMove(CopyOnWrite(g, b), r, b))
      PROVE  Good(heap')
  <2>1. Good(SetParams(g, r, b)) /\ Good(SetParamsMove(CopyOnWrite(g, b), r, b))
    BY <1>1, SetGood
  <2>2. QED  BY <1>5, <2>1, BecomesGood
<1>6. QED  BY <1>2, <1>3, <1>4, <1>5

\* Delete().
LEMMA DeleteStep ==
  ASSUME Good(heap), Room(heap, CallNodes), NEW r \in Objects, Delete(r)
  PROVE  Good(heap')
<1> DEFINE g == Own(r)
<1>1. Good(g)
  BY CallReady
<1>2. \/ \E i \in DOMAIN Params(g, r) : Becomes(DelParam(g, r, i))
      \/ Becomes(DelParams(g, r))
  BY DEF Delete
<1> HIDE DEF g
<1>3. /\ \A i \in DOMAIN Params(g, r) : Good(DelParam(g, r, i))
      /\ Good(DelParams(g, r))
  BY <1>1, DeleteGood
<1>4. QED  BY <1>2, <1>3, BecomesGood

\* SetOpcodeStep(): a live node does not get the opcode of memory not in use.
LEMMA OpcodeStep ==
  ASSUME Good(heap), Room(heap, CallNodes), NEW r \in Objects, SetOpcodeStep(r)
  PROVE  Good(heap')
<1> DEFINE g == Own(r)
<1>1. Good(g)
  BY CallReady
<1>2. PICK o \in Opcodes : Becomes(SetOpcode(g, r, o))
  BY DEF SetOpcodeStep
<1> HIDE DEF g
<1>3. Exact(g) /\ g.ptr[r] \in Nodes /\ r \in Handles /\ o # "deleted"
  BY <1>1, LocalsDistinct, OpcodesAssumption DEF Good
<1>4. Does(g, SetOpcode(g, r, o), {}, {At(g, r)}, 0)
  BY <1>3, SetOpcodeDoes
<1>5. Good(SetOpcode(g, r, o))
  BY <1>1, <1>4, GoodDoes
<1>6. QED  BY <1>2, <1>5, BecomesGood

\* Exchange(): two objects swap their nodes.
LEMMA ExchangeStep ==
  ASSUME Good(heap), NEW r \in Objects, Exchange(r)
  PROVE  Good(heap')
<1>1. PICK b \in Objects \ {r} : Becomes(Swap(heap, r, b))
  BY DEF Exchange
<1> DEFINE u == Swap(heap, r, b)
<1>2. /\ Exact(heap) /\ r \in Handles /\ b \in Handles
      /\ r \in Places(heap) /\ b \in Places(heap)
      /\ At(heap, r) \in Nodes /\ At(heap, b) \in Nodes
  BY LocalsDistinct DEF Good, Places, At
<1>3. Swapped(heap, u, r, b)
  BY <1>2, SwapDoes
<1> HIDE DEF u
<1>4. /\ Does(heap, u, {r, b}, Inside(r) \cup Inside(b), 0)
      /\ u.ptr[r] \in Nodes /\ u.ptr[b] \in Nodes
  BY <1>2, <1>3 DEF Swapped, At
<1>5. Good(u)
  BY <1>4, GoodDoes
<1>6. QED  BY <1>1, <1>5, BecomesGood DEF u

\* Adopt(): the parameters of a parameter are taken over.
LEMMA AdoptStep ==
  ASSUME Good(heap), Room(heap, CallNodes), NEW r \in Objects, Adopt(r)
  PROVE  Good(heap')
<1>1. PICK i \in DOMAIN Params(heap, r) : \/ Becomes(Assimilate(r, i))
                                          \/ Becomes(AdoptParams(r, i))
  BY DEF Adopt
<1>2. Good(Own(r)) /\ Free(Own(r)) >= 2 /\ Free(Own(r)) >= 1 /\ i \in DOMAIN Params(Own(r), r)
  BY <1>1, CallReady
<1>3. Good(Assimilate(r, i)) /\ Good(AdoptParams(r, i))
  BY <1>2, AssimilateGood, AdoptParamsGood
<1>4. QED  BY <1>1, <1>3, BecomesGood

\* DeleteBelowStep().
LEMMA DeleteBelowDone ==
  ASSUME Good(heap), Room(heap, CallNodes), NEW r \in Objects, DeleteBelowStep(r)
  PROVE  Good(heap')
<1>1. PICK i \in DOMAIN Params(heap, r) :
        \E j \in DOMAIN Params(heap, Param(heap, r, i)) : Becomes(DeleteBelow(r, i, j))
  BY DEF DeleteBelowStep
<1>2. PICK j \in DOMAIN Params(heap, Param(heap, r, i)) : Becomes(DeleteBelow(r, i, j))
  BY <1>1
<1> DEFINE g == Own(r)
           n == Params(heap, r)[i]
<1>3. /\ Owned(heap, g, r) /\ Good(g) /\ Free(g) >= 1
      /\ Params(g, r) = Params(heap, r)
  BY CallReady
<1>4. DeleteBelow(r, i, j) = DeleteBelowOwn(g, r, i, j)
  BY DEF DeleteBelow
<1> HIDE DEF g
<1>5. /\ r \in Handles /\ Exact(heap) /\ heap.ptr[r] \in Nodes
      /\ Exact(g) /\ g.ptr[r] \in Nodes /\ i \in DOMAIN Params(g, r)
  BY <1>1, <1>3, LocalsDistinct DEF Good
<1>6. n \in Live(heap) /\ At(heap, Param(heap, r, i)) = n
  BY <1>1, <1>5, HandleAnchored
<1>7. n \in Live(g) /\ At(g, Param(g, r, i)) = n
  BY <1>3, <1>5, HandleAnchored
<1> HIDE DEF n
<1>8. g.node[n].Params = heap.node[n].Params
  BY <1>3, <1>6, <1>7 DEF Owned
<1>9. j \in DOMAIN Params(g, Param(g, r, i))
  BY <1>2, <1>6, <1>7, <1>8 DEF Params, data
<1>10. Good(DeleteBelowOwn(g, r, i, j))
  BY <1>3, <1>5, <1>9, DeleteBelowGood
<1>11. QED  BY <1>2, <1>4, <1>10, BecomesGood

\* Distribute(), whether the product is shared or not.
LEMMA DistributeStep ==
  ASSUME Good(heap), Room(heap, CallNodes), NEW r \in Objects, Distribute(r)
  PROVE  Good(heap')
<1>1. PICK n \in DOMAIN Params(heap, Param(heap, r, 1)) : Becomes(DistributeFunction(r, n))
  BY DEF Distribute
<1>2. 1 \in DOMAIN Params(heap, r)
  <2>1. Exact(heap) /\ heap.ptr[r] \in Nodes /\ r \in Handles
    BY LocalsDistinct DEF Good
  <2>2. Params(heap, r) \in Seq(Nodes)
    BY <2>1, HandleAnchored, ExactIs, ParamsTyped
  <2>3. Len(Params(heap, r)) = 1
    BY DEF Distribute
  <2>4. QED  BY <2>2, <2>3, LenProperties
<1>3. Free(heap) >= 8
  BY CallReady
<1>4. Good(DistributeFunction(r, n))
  BY <1>1, <1>2, <1>3, DistributeGood
<1>5. QED  BY <1>1, <1>4, BecomesGood

\* Assign() and BecomeStep().
LEMMA AssignStep ==
  ASSUME Good(heap), Room(heap, 1), NEW r \in Objects, Assign(r) \/ BecomeStep(r)
  PROVE  Good(heap')
<1>1. Free(heap) >= 1
  BY FreeType
<1>2. /\ \A d \in LeafData : Good(Construct(heap, r, d))
      /\ \A b \in Sources(r) : /\ Good(ChangeTo(heap, r, At(heap, b)))
                               /\ Good(Become(heap, r, b))
  BY <1>1, AssignGood
<1>3. QED  BY <1>2, BecomesGood DEF Assign, BecomeStep

\* Every step leaves the counts exact.
LEMMA NextGood ==
  ASSUME Good(heap), Next
  PROVE  Good(heap')
<1>1. PICK r \in Objects :
        \/ Room(heap, 1) /\ (Assign(r) \/ BecomeStep(r))
        \/ /\ Room(heap, CallNodes)
           /\ \/ Exchange(r) \/ SetOpcodeStep(r)
              \/ IsOperation(r) /\ (Add(r) \/ Set(r) \/ Delete(r))
              \/ Adopt(r) \/ DeleteBelowStep(r) \/ Distribute(r)
  BY DEF Next
<1>2. CASE Room(heap, 1) /\ (Assign(r) \/ BecomeStep(r))
  BY <1>2, AssignStep
<1>3. CASE Exchange(r)
  BY <1>3, ExchangeStep
<1>4. CASE Room(heap, CallNodes) /\ SetOpcodeStep(r)
  BY <1>4, OpcodeStep
<1>5. CASE Room(heap, CallNodes) /\ Add(r)
  BY <1>5, AddStep
<1>6. CASE Room(heap, CallNodes) /\ Set(r)
  BY <1>6, SetStep
<1>7. CASE Room(heap, CallNodes) /\ Delete(r)
  BY <1>7, DeleteStep
<1>8. CASE Room(heap, CallNodes) /\ Adopt(r)
  BY <1>8, AdoptStep
<1>9. CASE Room(heap, CallNodes) /\ DeleteBelowStep(r)
  BY <1>9, DeleteBelowDone
<1>10. CASE Room(heap, CallNodes) /\ Distribute(r)
  BY <1>10, DistributeStep
<1>11. QED  BY <1>1, <1>2, <1>3, <1>4, <1>5, <1>6, <1>7, <1>8, <1>9, <1>10

\* A node as it is at first: an object's own, or not in use.
FirstNode(n, owned) == IF owned THEN WithCount(Nop, 1) ELSE Deleted

\* At first each object has a node of its own.
LEMMA InitGood ==
  ASSUME Init
  PROVE  Good(heap)
<1>1. PICK at \in Injection(Objects, Nodes) :
        heap = [node |-> [n \in Nodes |-> IF \E r \in Objects : at[r] = n
                                          THEN [Nop EXCEPT !.RefCount = 1] ELSE Deleted],
                ptr  |-> [s \in Handles |-> IF s \in Objects THEN at[s] ELSE NoNode]]
  BY DEF Init
<1> DEFINE Used(n) == \E r \in Objects : at[r] = n
           N == [n \in Nodes |-> FirstNode(n, Used(n))]
           P == [s \in Handles |-> IF s \in Objects THEN at[s] ELSE NoNode]
<1>2. at \in [Objects -> Nodes] /\ \A x, y \in Objects : at[x] = at[y] => x = y
  BY DEF Injection, IsInjective
<1>3. heap = [node |-> N, ptr |-> P]
  <2>1. [Nop EXCEPT !.RefCount = 1] = WithCount(Nop, 1)
    BY NopCounted
  <2>2. QED  BY <1>1, <2>1 DEF FirstNode
<1>4. heap.node = N /\ heap.ptr = P
  BY <1>3
<1> HIDE DEF Used
<1>5. ASSUME NEW n \in Nodes
      PROVE  /\ IsNode(heap.node[n]) /\ heap.node[n].Params = <<>>
             /\ Used(n) => heap.node[n].RefCount = 1 /\ heap.node[n].Opcode # "deleted"
             /\ ~Used(n) => heap.node[n].RefCount = 0 /\ heap.node[n] = Deleted
  <2>1. heap.node[n] = FirstNode(n, Used(n))
    BY <1>4
  <2>2. CASE Used(n)
    BY <2>1, <2>2, NopCounted DEF FirstNode
  <2>3. CASE ~Used(n)
    BY <2>1, <2>3, DeletedNode DEF FirstNode
  <2>4. QED  BY <2>2, <2>3
<1>6. Shape(heap)
  <2>1. P \in [Handles -> Nodes \cup {NoNode}]
    BY <1>2
  <2> HIDE DEF P, N
  <2>2. heap = [node |-> heap.node, ptr |-> heap.ptr]
    BY <1>3, <1>4
  <2>3. heap.node = [n \in Nodes |-> heap.node[n]]
    BY <1>4 DEF N
  <2>4. QED  BY <1>4, <1>5, <2>1, <2>2, <2>3 DEF Shape
<1>7. \A r \in Objects : heap.ptr[r] = at[r] /\ at[r] \in Nodes
  BY <1>2, <1>4, LocalsDistinct
<1>8. ASSUME NEW n \in Nodes
      PROVE  Claims(heap, n) = {r \in Objects : at[r] = n}
  <2>1. Slots(heap) = {}
    <3>1. ASSUME NEW s \in Slots(heap)
          PROVE  FALSE
      <4>1. s[1] \in Nodes /\ s[2] \in 1..Len(heap.node[s[1]].Params)
        BY <1>6, <3>1, PlacesTyped
      <4>2. s[2] \in 1..0
        BY <1>5, <4>1
      <4>3. QED  BY <4>2
    <3>2. QED  BY <3>1
  <2>2. ASSUME NEW s \in Handles
        PROVE  At(heap, s) = n <=> s \in Objects /\ at[s] = n
    <3>1. At(heap, s) = IF s \in Objects THEN at[s] ELSE NoNode
      BY <1>4, <2>2 DEF At
    <3>2. QED  BY <1>8, <3>1, NodesAssumption
  <2>3. QED  BY <2>1, <2>2, LocalsDistinct DEF Claims, Places
<1>9. ASSUME NEW n \in Nodes
      PROVE  heap.node[n].RefCount = Held(heap, {}, n)
  <2> DEFINE C == {r \in Objects : at[r] = n}
  <2>1. Held(heap, {}, n) = Cardinality(C)
    <3>1. C \ {} = C
      OBVIOUS
    <3>2. QED  BY <1>8, <3>1 DEF Held
  <2>2. CASE Used(n)
    <3>1. PICK r \in Objects : at[r] = n
      BY <2>2 DEF Used
    <3>2. C = {r}
      BY <1>2, <3>1
    <3>3. Cardinality(C) = 1
      BY <3>2, FS_Singleton
    <3>4. QED  BY <1>5, <2>1, <2>2, <3>3
  <2>3. CASE ~Used(n)
    <3>1. C = {}
      BY <2>3 DEF Used
    <3>2. QED  BY <1>5, <2>1, <2>3, <3>1, FS_EmptySet
  <2>4. QED  BY <2>2, <2>3
<1>10. DeathOK(heap)
  BY <1>5 DEF DeathOK
<1>11. QED  BY <1>6, <1>7, <1>9, <1>10, ExactIs DEF Good

\* Nodes whose counts are exact are counted as CountsExact() says.
LEMMA GoodCounts ==
  ASSUME Good(heap)
  PROVE  NodesCounted
<1>1. /\ Shape(heap) /\ DeathOK(heap)
      /\ \A n \in Nodes : heap.node[n].RefCount = Held(heap, {}, n)
  BY ExactIs DEF Good
<1>2. ASSUME NEW n \in Nodes
      PROVE  /\ heap.node[n].RefCount = Cardinality(Claims(heap, n))
             /\ heap.node[n].Opcode = "deleted" <=> Claims(heap, n) = {}
  <2> DEFINE C == Claims(heap, n)
             c == heap.node[n].RefCount
  <2>1. C \ {} = C
    OBVIOUS
  <2>2. c = Cardinality(C) /\ IsFiniteSet(C)
    BY <1>1, <2>1, HeldType DEF Held
  <2>3. c = 0 <=> C = {}
    BY <2>2, FS_EmptySet
  <2>4. c = 0 <=> heap.node[n].Opcode = "deleted"
    BY <1>1, DeletedNode DEF DeathOK
  <2> HIDE DEF C, c
  <2>5. QED  BY <2>2, <2>3, <2>4 DEF C, c
<1>3. QED  BY <1>2 DEF NodesCounted, CountsExact

\* Every node counts the handles that refer to it, and dies exactly with the last
\* of them, whatever the callers assign, copy, move, swap or delete, and whether or
\* not they share what they change: FPOPT_autoptr and the CodeTree functions never
\* leak a node and never leave a handle with a node that is deleted.
THEOREM NodesCountedHolds == Spec => []NodesCounted
<1>1. Init => Good(heap)
  BY InitGood
<1>2. Good(heap) /\ [Next]_heap => Good(heap)'
  <2>1. ASSUME Good(heap), Next
        PROVE  Good(heap)'
    BY <2>1, NextGood
  <2>2. ASSUME Good(heap), UNCHANGED heap
        PROVE  Good(heap)'
    BY <2>2 DEF Good
  <2>3. QED  BY <2>1, <2>2
<1>3. Good(heap) => NodesCounted
  BY GoodCounts
<1>4. QED  BY <1>1, <1>2, <1>3, PTL DEF Spec
====================================================================================
