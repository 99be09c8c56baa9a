------------------------ MODULE CodeTreeValuesProofs ------------------------
(***************************************************************************)
(* Proof that trees are independent: although their handles share nodes,   *)
(* each call of CodeTreeCallers changes the trees of the objects that it   *)
(* is given, as it would if each object had its tree for itself, and no    *)
(* other tree.                                                             *)
(***************************************************************************)
EXTENDS CodeTreeCallersProofs

(***************************************************************************)
(* The nodes below a node.                                                 *)
(***************************************************************************)

\* The nodes of C have their parameters in C.
Closed(h, C) == \A m \in C : \A i \in DOMAIN h.node[m].Params : h.node[m].Params[i] \in C

\* n, its parameters, theirs and so on.
Below(h, n) == {m \in Nodes : \A C \in SUBSET Nodes : n \in C /\ Closed(h, C) => m \in C}

\* A node d as e was.
Equal(d, e) == Holds(d, e, e.Params)

\* From h to g nothing changed below n.
SameBelow(h, g, n) == \A m \in Below(h, n) : Equal(g.node[m], h.node[m])

\* No node is below its own parameters.
Acyclic(h) ==
  \A n \in Live(h) : \A i \in DOMAIN h.node[n].Params : n \notin Below(h, h.node[n].Params[i])

\* Between calls.
Sound(h) == Exact(h) /\ Acyclic(h)

\* A node is below itself, with its parameters and what is below them.
LEMMA BelowIs ==
  ASSUME NEW h, NEW n \in Nodes
  PROVE  /\ n \in Below(h, n) /\ Below(h, n) \subseteq Nodes
         /\ Closed(h, Nodes) => Closed(h, Below(h, n))
         /\ \A C \in SUBSET Nodes : n \in C /\ Closed(h, C) => Below(h, n) \subseteq C
         /\ IsFiniteSet(Below(h, n)) /\ Cardinality(Below(h, n)) <= Cardinality(Nodes)
<1>1. /\ n \in Below(h, n) /\ Below(h, n) \subseteq Nodes
      /\ \A C \in SUBSET Nodes : n \in C /\ Closed(h, C) => Below(h, n) \subseteq C
  BY DEF Below
<1>2. ASSUME Closed(h, Nodes)
      PROVE  Closed(h, Below(h, n))
  <2>1. ASSUME NEW m \in Below(h, n), NEW i \in DOMAIN h.node[m].Params
        PROVE  h.node[m].Params[i] \in Below(h, n)
    <3>1. m \in Nodes /\ h.node[m].Params[i] \in Nodes
      BY <1>1, <1>2, <2>1 DEF Closed
    <3>2. ASSUME NEW C \in SUBSET Nodes, n \in C, Closed(h, C)
          PROVE  h.node[m].Params[i] \in C
      BY <3>2, <2>1 DEF Below, Closed
    <3>3. QED  BY <3>1, <3>2 DEF Below
  <2>2. QED  BY <2>1 DEF Closed
<1>3. IsFiniteSet(Below(h, n)) /\ Cardinality(Below(h, n)) <= Cardinality(Nodes)
  BY <1>1, NodesAssumption, FS_Subset
<1>4. QED  BY <1>1, <1>2, <1>3

\* In a heap all parameters are nodes.
LEMMA AllClosed ==
  ASSUME NEW h, Shape(h)
  PROVE  Closed(h, Nodes)
<1>1. \A m \in Nodes : h.node[m].Params \in Seq(Nodes)
  BY DEF Shape, IsNode
<1>2. QED  BY <1>1, ParamsTyped DEF Closed

\* What is below a parameter is below the node.
LEMMA BelowParam ==
  ASSUME NEW h, Shape(h), NEW n \in Nodes, NEW i \in DOMAIN h.node[n].Params
  PROVE  /\ h.node[n].Params[i] \in Below(h, n)
         /\ Below(h, h.node[n].Params[i]) \subseteq Below(h, n)
<1> DEFINE c == h.node[n].Params[i]
<1>1. Closed(h, Nodes)
  BY AllClosed
<1>2. c \in Nodes
  BY <1>1 DEF Closed
<1>3. Closed(h, Below(h, n)) /\ n \in Below(h, n) /\ Below(h, n) \subseteq Nodes
  BY <1>1, BelowIs
<1>4. c \in Below(h, n)
  BY <1>3 DEF Closed
<1>5. Below(h, c) \subseteq Below(h, n)
  BY <1>2, <1>3, <1>4, BelowIs
<1>6. QED  BY <1>4, <1>5

\* If nothing changed below n, then the same nodes are below n.
LEMMA BelowKept ==
  ASSUME NEW h, Shape(h), NEW g, Shape(g), NEW n \in Nodes, SameBelow(h, g, n)
  PROVE  Below(g, n) = Below(h, n)
<1>1. Closed(h, Below(h, n)) /\ Closed(g, Below(g, n))
  BY AllClosed, BelowIs
<1>2. n \in Below(h, n) /\ n \in Below(g, n) /\ Below(h, n) \subseteq Nodes /\ Below(g, n) \subseteq Nodes
  BY BelowIs
<1>3. \A m \in Below(h, n) : g.node[m].Params = h.node[m].Params
  BY DEF SameBelow, Equal, Holds
<1>4. Below(g, n) \subseteq Below(h, n)
  <2>1. Closed(g, Below(h, n))
    BY <1>1, <1>3 DEF Closed
  <2>2. QED  BY <1>2, <2>1, BelowIs
<1>5. Below(h, n) \subseteq Below(g, n)
  <2> DEFINE C == Below(h, n) \cap Below(g, n)
  <2>1. Closed(h, C)
    BY <1>1, <1>3 DEF Closed
  <2>2. C \in SUBSET Nodes /\ n \in C
    BY <1>2
  <2> HIDE DEF C
  <2>3. Below(h, n) \subseteq C
    BY <2>1, <2>2, BelowIs
  <2>4. QED  BY <2>3 DEF C
<1>6. QED  BY <1>4, <1>5

(***************************************************************************)
(* The trees of nodes.                                                     *)
(***************************************************************************)

\* The trees of parameters of which t gives the trees.
Trees(t, l) == [i \in DOMAIN l |-> t[l[i]]]

\* The tree of the node d with the parameters p.
TreeOf(d, p) == [opcode |-> d.Opcode, value |-> d.Value, params |-> p]

\* Trees of one level, and of one level more than t.
Bare(h) == [n \in Nodes |-> TreeOf(h.node[n], <<>>)]

Over(h, t) == [n \in Nodes |-> TreeOf(h.node[n], Trees(t, h.node[n].Params))]

\* f has the trees of every depth up to D.
Grows(f, h, D) ==
  /\ f[0] = Bare(h)
  /\ \A d \in 1..D : f[d] = Over(h, f[d - 1])

\* TreesTo() is the function that its recursive definition describes.
LEMMA TreesDefined ==
  ASSUME NEW h, NEW D \in Nat
  PROVE  \E f : Grows(f, h, D) /\ TreesTo(h, D) = f[D]
<1> DEFINE Stuck == {n \in 0..D : ~\E g : DOMAIN g = 0..n /\ Grows(g, h, n)}
<1>1. Stuck = {}
  <2>1. SUFFICES ASSUME Stuck # {}
                 PROVE  FALSE
    OBVIOUS
  <2>2. Stuck \in SUBSET Nat
    OBVIOUS
  <2>3. PICK m \in Stuck : \A n \in Stuck : m <= n
    BY <2>1, <2>2, LeastNatural
  <2>4. CASE m = 0
    <3> DEFINE g == [d \in 0..0 |-> Bare(h)]
    <3>1. 0 \in 0..0 /\ 1..0 = {}
      OBVIOUS
    <3>2. DOMAIN g = 0..0 /\ Grows(g, h, 0)
      BY <3>1 DEF Grows
    <3>3. QED  BY <2>4, <3>2
  <2>5. CASE m # 0
    <3>1. m \in Nat /\ m - 1 \in 0..D /\ m - 1 \notin Stuck
      BY <2>3, <2>5
    <3>2. PICK g : DOMAIN g = 0..(m - 1) /\ Grows(g, h, m - 1)
      BY <3>1
    <3> DEFINE r == [d \in 0..m |-> IF d = m THEN Over(h, g[m - 1]) ELSE g[d]]
    <3>3. Grows(r, h, m)
      <4>1. r[0] = Bare(h)
        BY <2>5, <3>1, <3>2 DEF Grows
      <4>2. ASSUME NEW d \in 1..m
            PROVE  r[d] = Over(h, r[d - 1])
        <5>1. d \in 0..m /\ d - 1 \in 0..m /\ d - 1 # m
          BY <3>1
        <5>2. r[d - 1] = g[d - 1]
          BY <5>1
        <5>3. CASE d = m
          BY <5>1, <5>2, <5>3
        <5>4. CASE d # m
          <6>1. d \in 1..(m - 1)
            BY <3>1, <5>4
          <6>2. QED  BY <3>2, <5>1, <5>2, <5>4, <6>1 DEF Grows
        <5>5. QED  BY <5>3, <5>4
      <4>3. QED  BY <4>1, <4>2 DEF Grows
    <3>4. DOMAIN r = 0..m
      OBVIOUS
    <3> HIDE DEF r
    <3>5. m \notin Stuck
      BY <3>3, <3>4
    <3>6. QED  BY <2>3, <3>5
  <2>6. QED  BY <2>4, <2>5
<1>2. PICK g : DOMAIN g = 0..D /\ Grows(g, h, D)
  BY <1>1
<1> DEFINE Body(f) ==
             [d \in 0..D |->
               [n \in Nodes |->
                 [opcode |-> h.node[n].Opcode, value |-> h.node[n].Value,
                  params |-> IF d = 0 THEN <<>>
                             ELSE [i \in DOMAIN h.node[n].Params |-> f[d - 1][h.node[n].Params[i]]]]]]
           r == [d \in 0..D |-> g[d]]
           c == CHOOSE f : f = Body(f)
<1>3. ASSUME NEW f, NEW d \in 0..D
      PROVE  Body(f)[d] = IF d = 0 THEN Bare(h) ELSE Over(h, f[d - 1])
  <2>1. CASE d = 0
    BY <2>1 DEF Bare, TreeOf
  <2>2. CASE d # 0
    BY <2>2 DEF Over, TreeOf, Trees
  <2>3. QED  BY <2>1, <2>2
<1>4. r = Body(r)
  <2>1. ASSUME NEW d \in 0..D
        PROVE  r[d] = Body(r)[d]
    <3> HIDE DEF Body
    <3>1. CASE d = 0
      BY <1>2, <1>3, <3>1 DEF Grows
    <3>2. CASE d # 0
      <4>1. d \in 1..D /\ d - 1 \in 0..D
        BY <3>2
      <4>2. QED  BY <1>2, <1>3, <3>2, <4>1 DEF Grows
    <3>3. QED  BY <3>1, <3>2
  <2>2. QED  BY <2>1
<1>5. c = Body(c)
  <2> HIDE DEF r, Body
  <2>1. QED  BY <1>4
<1>6. TreesTo(h, D) = c[D]
  BY DEF TreesTo
<1> HIDE DEF c, r, Body
<1>7. ASSUME NEW d \in 1..D
      PROVE  c[d] = Over(h, c[d - 1])
  <2>1. d \in 0..D /\ d # 0
    OBVIOUS
  <2>2. QED  BY <1>3, <1>5, <2>1
<1>8. c[0] = Bare(h)
  BY <1>3, <1>5
<1>9. Grows(c, h, D)
  BY <1>7, <1>8 DEF Grows
<1>10. QED  BY <1>6, <1>9

\* There is one such function.
LEMMA GrowsOnce ==
  ASSUME NEW h, NEW D \in Nat, NEW f, Grows(f, h, D), NEW g, Grows(g, h, D)
  PROVE  \A d \in 0..D : f[d] = g[d]
<1> DEFINE Wrong == {d \in 0..D : f[d] # g[d]}
<1>1. SUFFICES ASSUME Wrong # {}
               PROVE  FALSE
  OBVIOUS
<1>2. Wrong \in SUBSET Nat
  OBVIOUS
<1>3. PICK m \in Wrong : \A n \in Wrong : m <= n
  BY <1>1, <1>2, LeastNatural
<1>4. CASE m = 0
  BY <1>3, <1>4 DEF Grows
<1>5. CASE m # 0
  <2>1. m \in 1..D /\ m - 1 \in 0..D /\ m - 1 \notin Wrong
    BY <1>3, <1>5
  <2>2. f[m - 1] = g[m - 1]
    BY <2>1
  <2>3. f[m] = g[m]
    BY <2>1, <2>2 DEF Grows
  <2>4. QED  BY <1>3, <2>3
<1>6. QED  BY <1>4, <1>5

\* Trees of one level more.
LEMMA TreesDeeper ==
  ASSUME NEW h, NEW D \in Nat
  PROVE  TreesTo(h, 0) = Bare(h) /\ TreesTo(h, D + 1) = Over(h, TreesTo(h, D))
<1>1. PICK f : Grows(f, h, 0) /\ TreesTo(h, 0) = f[0]
  BY TreesDefined
<1>2. D + 1 \in Nat
  OBVIOUS
<1>3. PICK g : Grows(g, h, D + 1) /\ TreesTo(h, D + 1) = g[D + 1]
  BY <1>2, TreesDefined
<1>4. PICK e : Grows(e, h, D) /\ TreesTo(h, D) = e[D]
  BY TreesDefined
<1>5. Grows(g, h, D)
  BY <1>3 DEF Grows
<1>6. g[D] = e[D]
  BY <1>4, <1>5, GrowsOnce
<1>7. g[D + 1] = Over(h, g[(D + 1) - 1])
  BY <1>3 DEF Grows
<1>8. QED  BY <1>1, <1>3, <1>4, <1>6, <1>7 DEF Grows

\* The tree of the node n.
TreeAt(h, n) == TreesTo(h, Cardinality(Nodes))[n]

\* The trees of the nodes in l.
TreesAt(h, l) == [i \in DOMAIN l |-> TreeAt(h, l[i])]

\* What did not change below n shows the same tree.
LEMMA SameTrees ==
  ASSUME NEW h, Shape(h), NEW g, NEW n \in Nodes, SameBelow(h, g, n)
  PROVE  TreeAt(g, n) = TreeAt(h, n)
<1> DEFINE B == Below(h, n)
           Wrong == {d \in Nat : ~\A m \in B : TreesTo(g, d)[m] = TreesTo(h, d)[m]}
<1>1. Closed(h, B) /\ n \in B /\ B \subseteq Nodes
  BY AllClosed, BelowIs
<1>2. \A m \in B : Equal(g.node[m], h.node[m])
  BY DEF SameBelow
<1> HIDE DEF B
<1>3. Wrong = {}
  <2>1. SUFFICES ASSUME Wrong # {}
                 PROVE  FALSE
    OBVIOUS
  <2>2. Wrong \in SUBSET Nat
    OBVIOUS
  <2>3. PICK d \in Wrong : \A e \in Wrong : d <= e
    BY <2>1, <2>2, LeastNatural
  <2>4. PICK m \in B : TreesTo(g, d)[m] # TreesTo(h, d)[m]
    BY <2>3
  <2>5. Equal(g.node[m], h.node[m]) /\ m \in Nodes
    BY <1>1, <1>2
  <2>6. CASE d = 0
    <3>1. TreesTo(g, 0) = Bare(g) /\ TreesTo(h, 0) = Bare(h)
      BY TreesDeeper
    <3>2. Bare(g)[m] = Bare(h)[m]
      BY <2>5 DEF Bare, TreeOf, Equal, Holds
    <3>3. QED  BY <2>4, <2>6, <3>1, <3>2
  <2>7. CASE d # 0
    <3> DEFINE e == d - 1
               l == h.node[m].Params
    <3>1. e \in Nat /\ d = e + 1 /\ e \notin Wrong
      BY <2>3, <2>7
    <3>2. \A c \in B : TreesTo(g, e)[c] = TreesTo(h, e)[c]
      BY <3>1
    <3> HIDE DEF e
    <3>3. TreesTo(g, d) = Over(g, TreesTo(g, e)) /\ TreesTo(h, d) = Over(h, TreesTo(h, e))
      BY <3>1, TreesDeeper
    <3>4. Trees(TreesTo(g, e), l) = Trees(TreesTo(h, e), l)
      BY <1>1, <3>2 DEF Trees, Closed
    <3>5. Over(g, TreesTo(g, e))[m] = Over(h, TreesTo(h, e))[m]
      BY <2>5, <3>4 DEF Over, TreeOf, Equal, Holds
    <3>6. QED  BY <2>4, <3>3, <3>5
  <2>8. QED  BY <2>6, <2>7
<1>4. \A d \in Nat : TreesTo(g, d)[n] = TreesTo(h, d)[n]
  BY <1>1, <1>3
<1>5. Cardinality(Nodes) \in Nat
  BY NodesAssumption, FS_CardinalityType
<1>6. QED  BY <1>4, <1>5 DEF TreeAt

\* Below a parameter are fewer nodes than below the node.
LEMMA BelowFewer ==
  ASSUME NEW h, Sound(h), NEW n \in Live(h), NEW i \in DOMAIN h.node[n].Params
  PROVE  /\ h.node[n].Params[i] \in Live(h)
         /\ Cardinality(Below(h, h.node[n].Params[i])) + 1 <= Cardinality(Below(h, n))
<1> DEFINE c == h.node[n].Params[i]
           A == Below(h, c)
           B == Below(h, n)
<1>1. Shape(h) /\ n \in Nodes /\ c \in Live(h) /\ c \in Nodes
  BY ExactIs, ParamsLive DEF Sound, Live
<1>2. A \subseteq B
  BY <1>1, BelowParam
<1>3. n \in B /\ n \notin A /\ IsFiniteSet(B) /\ IsFiniteSet(A)
  BY <1>1, BelowIs DEF Sound, Acyclic
<1> HIDE DEF A, B, c
<1>4. A \subseteq B \ {n} /\ IsFiniteSet(B \ {n})
  BY <1>2, <1>3, FS_Subset
<1>5. Cardinality(A) <= Cardinality(B \ {n})
  BY <1>4, FS_Subset
<1>6. Cardinality(B \ {n}) = Cardinality(B) - 1
  BY <1>3, FS_RemoveElement
<1>7. Cardinality(A) \in Nat /\ Cardinality(B) \in Nat
  BY <1>3, FS_CardinalityType
<1>8. QED  BY <1>1, <1>5, <1>6, <1>7 DEF A, B, c

\* A tree is no deeper than there are nodes below its node.
LEMMA DepthEnough ==
  ASSUME NEW h, Sound(h)
  PROVE  \A d \in Nat : \A n \in Live(h) :
           Cardinality(Below(h, n)) <= d + 1 => TreesTo(h, d + 1)[n] = TreesTo(h, d)[n]
<1> DEFINE Right(d) == \A n \in Live(h) : Cardinality(Below(h, n)) <= d + 1 =>
                                            TreesTo(h, d + 1)[n] = TreesTo(h, d)[n]
           Wrong == {d \in Nat : ~Right(d)}
<1>1. SUFFICES ASSUME Wrong # {}
               PROVE  FALSE
  OBVIOUS
<1>2. Wrong \in SUBSET Nat
  OBVIOUS
<1>3. PICK d \in Wrong : \A e \in Wrong : d <= e
  BY <1>1, <1>2, LeastNatural
<1>4. d \in Nat /\ ~Right(d)
  BY <1>3
<1>5. PICK n \in Live(h) : /\ Cardinality(Below(h, n)) <= d + 1
                           /\ TreesTo(h, d + 1)[n] # TreesTo(h, d)[n]
  BY <1>4
<1> DEFINE l == h.node[n].Params
<1>6. /\ n \in Nodes /\ TreesTo(h, d + 1) = Over(h, TreesTo(h, d))
      /\ Cardinality(Below(h, n)) \in Nat
  BY <1>4, TreesDeeper, BelowIs, FS_CardinalityType DEF Live
<1>7. ASSUME NEW i \in DOMAIN l
      PROVE  /\ l[i] \in Live(h) /\ Cardinality(Below(h, l[i])) \in Nat
             /\ Cardinality(Below(h, l[i])) + 1 <= Cardinality(Below(h, n))
             /\ 1 <= Cardinality(Below(h, l[i]))
  <2>1. l[i] \in Live(h) /\ Cardinality(Below(h, l[i])) + 1 <= Cardinality(Below(h, n))
    BY BelowFewer
  <2>2. l[i] \in Below(h, l[i]) /\ IsFiniteSet(Below(h, l[i]))
    BY <2>1, BelowIs DEF Live
  <2>3. Cardinality(Below(h, l[i])) \in Nat /\ Cardinality(Below(h, l[i])) # 0
    BY <2>2, FS_CardinalityType, FS_EmptySet
  <2>4. QED  BY <2>1, <2>3
<1>8. CASE d = 0
  <2>1. DOMAIN l = {}
    <3>1. SUFFICES ASSUME NEW i \in DOMAIN l
                   PROVE  FALSE
      OBVIOUS
    <3>2. QED  BY <1>5, <1>6, <1>7, <1>8
  <2>2. Trees(TreesTo(h, d), l) = <<>>
    BY <2>1 DEF Trees
  <2>3. TreesTo(h, d) = Bare(h)
    BY <1>8, TreesDeeper
  <2>4. Over(h, TreesTo(h, d))[n] = Bare(h)[n]
    BY <1>6, <2>2 DEF Over, Bare
  <2>5. QED  BY <1>5, <1>6, <2>3, <2>4
<1>9. CASE d # 0
  <2> DEFINE e == d - 1
  <2>1. e \in Nat /\ d = e + 1 /\ e \notin Wrong
    BY <1>3, <1>9
  <2>2. Right(e)
    BY <2>1
  <2> HIDE DEF e
  <2>3. TreesTo(h, d) = Over(h, TreesTo(h, e))
    BY <2>1, TreesDeeper
  <2>4. ASSUME NEW i \in DOMAIN l
        PROVE  TreesTo(h, d)[l[i]] = TreesTo(h, e)[l[i]]
    <3>1. Cardinality(Below(h, l[i])) <= e + 1
      BY <1>5, <1>6, <1>7, <2>1
    <3>2. QED  BY <1>7, <2>1, <2>2, <3>1
  <2>5. Trees(TreesTo(h, d), l) = Trees(TreesTo(h, e), l)
    BY <2>4 DEF Trees
  <2>6. Over(h, TreesTo(h, d))[n] = Over(h, TreesTo(h, e))[n]
    BY <1>6, <2>5 DEF Over
  <2>7. QED  BY <1>5, <1>6, <2>3, <2>6
<1>10. QED  BY <1>8, <1>9

\* The tree of a node is made of the trees of its parameters.
LEMMA TreeIs ==
  ASSUME NEW h, Sound(h), NEW n \in Live(h)
  PROVE  TreeAt(h, n) = TreeOf(h.node[n], TreesAt(h, h.node[n].Params))
<1> DEFINE K == Cardinality(Nodes)
           c == Cardinality(Below(h, n))
<1>1. n \in Nodes /\ K \in Nat
  BY NodesAssumption, FS_CardinalityType DEF Live
<1>2. c \in Nat /\ c <= K
  BY <1>1, BelowIs, FS_CardinalityType
<1> HIDE DEF K
<1>3. c <= K + 1
  BY <1>1, <1>2
<1>4. TreesTo(h, K + 1)[n] = TreesTo(h, K)[n]
  BY <1>1, <1>3, DepthEnough
<1>5. TreesTo(h, K + 1) = Over(h, TreesTo(h, K))
  BY <1>1, TreesDeeper
<1>6. QED  BY <1>1, <1>4, <1>5 DEF Over, Trees, TreesAt, TreeAt, K

(***************************************************************************)
(* Calls that write some nodes.                                            *)
(***************************************************************************)

\* Only nodes in M have parameters in M.
Enclosed(h, M) == \A n \in Live(h) \ M : \A i \in DOMAIN h.node[n].Params : h.node[n].Params[i] \notin M

\* The nodes that live on, those in M aside, are what they were.
Keeps(h, g, M) == \A n \in (Live(h) \cap Live(g)) \ M : Equal(g.node[n], h.node[n])

\* New nodes have parameters that lived before, and those in M have others, or
\* such in N that have others.
Layered(h, g, M, N) ==
  /\ \A f \in Live(g) \ (Live(h) \cup M) : \A i \in DOMAIN g.node[f].Params :
       g.node[f].Params[i] \in Live(h) \ M
  /\ \A m \in M \cap Live(g) : \A i \in DOMAIN g.node[m].Params :
       /\ g.node[m].Params[i] \in M => g.node[m].Params[i] \in N
       /\ m \in N => g.node[m].Params[i] \notin M

\* Nothing changes below the nodes that are not written, and they keep their trees.
LEMMA Unwritten ==
  ASSUME NEW h, Sound(h), NEW g, Exact(g), NEW M, Enclosed(h, M), Keeps(h, g, M),
         NEW n \in (Live(h) \cap Live(g)) \ M
  PROVE  /\ Below(g, n) = Below(h, n) /\ Below(h, n) \subseteq (Live(h) \cap Live(g)) \ M
         /\ TreeAt(g, n) = TreeAt(h, n)
<1> DEFINE C == (Live(h) \cap Live(g)) \ M
<1>1. Shape(h) /\ Shape(g) /\ Exact(h) /\ n \in Nodes /\ C \in SUBSET Nodes
  BY ExactIs DEF Sound, Live
<1>2. Closed(h, C)
  <2>1. ASSUME NEW m \in C, NEW i \in DOMAIN h.node[m].Params
        PROVE  h.node[m].Params[i] \in C
    <3>1. g.node[m].Params = h.node[m].Params /\ m \in Nodes /\ m \in Live(h) \ M
      BY <1>1 DEF Keeps, Equal, Holds
    <3>2. h.node[m].Params[i] \in Live(h)
      BY <1>1, <3>1, ParamsLive
    <3>3. h.node[m].Params[i] \in Live(g)
      BY <1>1, <3>1, ParamsLive
    <3>4. QED  BY <3>1, <3>2, <3>3 DEF Enclosed
  <2>2. QED  BY <2>1 DEF Closed
<1> HIDE DEF C
<1>3. n \in C
  BY DEF C
<1>4. Below(h, n) \subseteq C
  BY <1>1, <1>2, <1>3, BelowIs
<1>5. SameBelow(h, g, n)
  BY <1>4 DEF SameBelow, Keeps, C
<1>6. Below(g, n) = Below(h, n)
  BY <1>1, <1>5, BelowKept
<1>7. TreeAt(g, n) = TreeAt(h, n)
  BY <1>1, <1>5, SameTrees
<1>8. QED  BY <1>4, <1>6, <1>7 DEF C

\* The call leaves the heap without cycles.
LEMMA Written ==
  ASSUME NEW h, Sound(h), NEW g, Exact(g), NEW M, Enclosed(h, M), Keeps(h, g, M),
         NEW N, Layered(h, g, M, N)
  PROVE  Sound(g)
<1> DEFINE C == Live(g) \ M
<1>1. Shape(h) /\ Shape(g) /\ Exact(h) /\ Live(g) \subseteq Nodes /\ Live(h) \subseteq Nodes
  BY ExactIs DEF Sound, Live
<1>2. ASSUME NEW n \in Live(g), NEW i \in DOMAIN g.node[n].Params
      PROVE  g.node[n].Params[i] \in Live(g)
  BY <1>1, ParamsLive
<1>3. ASSUME NEW n \in C \cap Live(h), NEW i \in DOMAIN g.node[n].Params
      PROVE  g.node[n].Params[i] \in C \cap Live(h)
  <2>1. g.node[n].Params = h.node[n].Params /\ n \in Nodes /\ n \in Live(h) \ M
    BY <1>1 DEF Keeps, Equal, Holds
  <2>2. h.node[n].Params[i] \in Live(h) \ M
    BY <1>1, <2>1, ParamsLive DEF Enclosed
  <2>3. QED  BY <1>2, <2>1, <2>2
<1>4. ASSUME NEW n \in C \ Live(h), NEW i \in DOMAIN g.node[n].Params
      PROVE  g.node[n].Params[i] \in C \cap Live(h)
  BY <1>2 DEF Layered
<1>5. Closed(g, C)
  BY <1>3, <1>4 DEF Closed
<1>6. Closed(g, C \cup (N \cap Live(g)))
  <2>1. ASSUME NEW n \in C \cup (N \cap Live(g)), NEW i \in DOMAIN g.node[n].Params
        PROVE  g.node[n].Params[i] \in C
    <3>1. CASE n \in C
      BY <1>5, <3>1 DEF Closed
    <3>2. CASE n \notin C
      BY <1>2, <3>2 DEF Layered
    <3>3. QED  BY <3>1, <3>2
  <2>2. QED  BY <2>1 DEF Closed
<1>7. ASSUME NEW n \in Live(g), NEW i \in DOMAIN g.node[n].Params
      PROVE  n \notin Below(g, g.node[n].Params[i])
  <2> DEFINE c == g.node[n].Params[i]
  <2>1. c \in Live(g) /\ c \in Nodes /\ n \in Nodes
    BY <1>1, <1>2
  <2>2. CASE n \in C \cap Live(h)
    <3>1. g.node[n].Params = h.node[n].Params
      BY <2>2 DEF Keeps, Equal, Holds
    <3>2. c \in (Live(h) \cap Live(g)) \ M
      BY <1>3, <2>2
    <3>3. Below(g, c) = Below(h, c)
      BY <3>2, Unwritten
    <3>4. QED  BY <2>2, <3>1, <3>3 DEF Sound, Acyclic
  <2>3. CASE n \in C \ Live(h)
    <3>1. c \in (Live(h) \cap Live(g)) \ M
      BY <1>4, <2>3
    <3>2. Below(g, c) \subseteq Live(h)
      BY <3>1, Unwritten
    <3>3. QED  BY <2>3, <3>2
  <2>4. CASE n \in N /\ n \in M
    <3>1. c \in C /\ C \in SUBSET Nodes
      BY <1>1, <2>1, <2>4 DEF Layered
    <3> HIDE DEF C
    <3>2. Below(g, c) \subseteq C
      BY <1>5, <2>1, <3>1, BelowIs
    <3>3. QED  BY <2>4, <3>2 DEF C
  <2>5. CASE n \notin N /\ n \in M
    <3> DEFINE W == C \cup (N \cap Live(g))
    <3>1. c \in W /\ W \in SUBSET Nodes /\ n \notin W
      BY <1>1, <2>1, <2>5 DEF Layered
    <3>2. Closed(g, W)
      BY <1>6
    <3> HIDE DEF W, C
    <3>3. Below(g, c) \subseteq W
      BY <2>1, <3>1, <3>2, BelowIs
    <3>4. QED  BY <3>1, <3>3
  <2>6. QED  BY <2>2, <2>3, <2>4, <2>5
<1>8. QED  BY <1>7 DEF Sound, Acyclic

\* Nodes outside M, and handles outside Q that refer to them, keep their trees.
Leaves(h, g, Q, M) ==
  /\ Sound(g)
  /\ \A n \in (Live(h) \cap Live(g)) \ M : TreeAt(g, n) = TreeAt(h, n)
  /\ \A q \in Handles \ Q :
       /\ g.ptr[q] = h.ptr[q]
       /\ h.ptr[q] \in Nodes \ M => TreeAt(g, g.ptr[q]) = TreeAt(h, h.ptr[q])

\* What a call leaves alone is what the handles see.
LEMMA CallLeaves ==
  ASSUME NEW h, Sound(h), NEW g, NEW Q, NEW M, NEW k, Does(h, g, Q, M, k),
         Enclosed(h, M), NEW N, Layered(h, g, M, N)
  PROVE  Leaves(h, g, Q, M)
<1>1. Exact(g) /\ Exact(h) /\ Keeps(h, g, M)
  BY DEF Sound, Does, Named, Keeps, Equal, Holds, Live
<1>2. Sound(g)
  BY <1>1, Written
<1>3. \A n \in (Live(h) \cap Live(g)) \ M : TreeAt(g, n) = TreeAt(h, n)
  BY <1>1, Unwritten
<1>4. ASSUME NEW q \in Handles \ Q
      PROVE  /\ g.ptr[q] = h.ptr[q]
             /\ h.ptr[q] \in Nodes \ M => TreeAt(g, g.ptr[q]) = TreeAt(h, h.ptr[q])
  <2>1. g.ptr[q] = h.ptr[q]
    BY DEF Does
  <2>2. ASSUME h.ptr[q] \in Nodes \ M
        PROVE  TreeAt(g, g.ptr[q]) = TreeAt(h, h.ptr[q])
    <3>1. h.ptr[q] \in Live(h) /\ h.ptr[q] \in Live(g)
      BY <1>1, <2>2, HandleKept
    <3>2. QED  BY <1>3, <2>1, <2>2, <3>1
  <2>3. QED  BY <2>1, <2>2
<1>5. QED  BY <1>2, <1>3, <1>4 DEF Leaves

\* A call that writes no node, and makes none but f.
LEMMA HandlesLeave ==
  ASSUME NEW h, Sound(h), NEW g, NEW Q, NEW k, Does(h, g, Q, {}, k), NEW f,
         Live(g) \subseteq Live(h) \cup {f},
         \A i \in DOMAIN g.node[f].Params : g.node[f].Params[i] \in Live(h)
  PROVE  Leaves(h, g, Q, {})
<1>1. Enclosed(h, {}) /\ Layered(h, g, {}, {})
  BY DEF Enclosed, Layered
<1>2. QED  BY <1>1, CallLeaves

\* Such a call that makes none.
LEMMA HandlesMove ==
  ASSUME NEW h, Sound(h), NEW g, NEW Q, Does(h, g, Q, {}, 0)
  PROVE  Leaves(h, g, Q, {}) /\ Live(g) \subseteq Live(h)
<1>1. Live(g) \subseteq Live(h)
  BY DEF Does, Born
<1>2. Enclosed(h, {}) /\ Layered(h, g, {}, {})
  BY <1>1 DEF Enclosed, Layered
<1>3. QED  BY <1>1, <1>2, CallLeaves

\* Trees of the same nodes.
LEMMA TreesSame ==
  ASSUME NEW h, NEW g, NEW Q, NEW M, Leaves(h, g, Q, M), NEW l,
         \A i \in DOMAIN l : l[i] \in (Live(h) \cap Live(g)) \ M
  PROVE  TreesAt(g, l) = TreesAt(h, l)
BY DEF Leaves, TreesAt

\* A node without parameters.
LEMMA LeafTree ==
  ASSUME NEW h, Sound(h), NEW n \in Live(h), h.node[n].Params = <<>>
  PROVE  TreeAt(h, n) = TreeOf(h.node[n], <<>>)
<1>1. TreesAt(h, <<>>) = <<>>
  BY DEF TreesAt
<1>2. QED  BY <1>1, TreeIs

(***************************************************************************)
(* Handles are assigned.                                                   *)
(***************************************************************************)

\* The handle of a node is that of a live one.
LEMMA HandleLive ==
  ASSUME NEW h, Sound(h), NEW s \in Handles, h.ptr[s] \in Nodes
  PROVE  /\ At(h, s) = h.ptr[s] /\ h.ptr[s] \in Live(h) /\ Rooted(h, s) /\ Inside(s) = {}
         /\ Exact(h) /\ Shape(h)
         /\ Params(h, s) = h.node[h.ptr[s]].Params /\ Params(h, s) \in Seq(Nodes)
         /\ \A i \in DOMAIN Params(h, s) : Params(h, s)[i] \in Live(h)
<1>1. Exact(h) /\ Shape(h)
  BY ExactIs DEF Sound
<1>2. /\ At(h, s) = h.ptr[s] /\ h.ptr[s] \in Live(h) /\ Rooted(h, s) /\ Inside(s) = {}
      /\ Params(h, s) = h.node[h.ptr[s]].Params
      /\ \A i \in DOMAIN Params(h, s) : Params(h, s)[i] \in Live(h)
  BY <1>1, HandleAnchored
<1>3. Params(h, s) \in Seq(Nodes)
  BY <1>1, <1>2 DEF Shape, IsNode
<1>4. QED  BY <1>1, <1>2, <1>3

\* A handle gets the node n.
LEMMA ChangeToTree ==
  ASSUME NEW h, Sound(h), NEW s \in Handles, NEW n \in Live(h)
  PROVE  /\ Leaves(h, ChangeTo(h, s, n), {s}, {}) /\ Does(h, ChangeTo(h, s, n), {s}, {}, 0)
         /\ ChangeTo(h, s, n).ptr[s] = n
         /\ TreeAt(ChangeTo(h, s, n), n) = TreeAt(h, n)
<1> DEFINE g == ChangeTo(h, s, n)
<1>1. Exact(h) /\ Rooted(h, s) /\ Inside(s) = {}
  BY DEF Sound, Rooted, Places, Inside
<1>2. Does(h, g, {s}, {}, 0) /\ At(g, s) = n
  BY <1>1, ChangeToDoes
<1> HIDE DEF g
<1>3. Leaves(h, g, {s}, {}) /\ g.ptr[s] = n
  BY <1>2, HandlesMove DEF At
<1>4. n \in Live(g)
  <2>1. s \in Places(g) /\ n \in Nodes /\ Exact(g)
    BY <1>2 DEF Places, Live, Does
  <2>2. QED  BY <1>2, <2>1, ClaimedLive
<1>5. QED  BY <1>2, <1>3, <1>4 DEF Leaves, g

\* A handle is dropped.
LEMMA DropTree ==
  ASSUME NEW h, Sound(h), NEW s \in Handles
  PROVE  Leaves(h, Drop(h, s), {s}, {})
<1>1. Exact(h)
  BY DEF Sound
<1>2. Does(h, Drop(h, s), {s}, {}, 0)
  BY <1>1, DropDoes
<1>3. QED  BY <1>2, HandlesMove

\* Two handles exchange their nodes.
LEMMA SwapTree ==
  ASSUME NEW h, Sound(h), NEW s \in Handles, NEW t \in Handles,
         h.ptr[s] \in Nodes, h.ptr[t] \in Nodes
  PROVE  /\ Leaves(h, Swap(h, s, t), {s, t}, {})
         /\ Swap(h, s, t).ptr[s] = h.ptr[t] /\ Swap(h, s, t).ptr[t] = h.ptr[s]
         /\ TreeAt(Swap(h, s, t), h.ptr[s]) = TreeAt(h, h.ptr[s])
         /\ TreeAt(Swap(h, s, t), h.ptr[t]) = TreeAt(h, h.ptr[t])
<1> DEFINE g == Swap(h, s, t)
<1>1. /\ Exact(h) /\ s \in Places(h) /\ t \in Places(h) /\ At(h, s) = h.ptr[s]
      /\ At(h, t) = h.ptr[t] /\ Inside(s) = {} /\ Inside(t) = {}
      /\ h.ptr[s] \in Live(h) /\ h.ptr[t] \in Live(h)
  BY HandleLive DEF Places
<1>2. Swapped(h, g, s, t)
  BY <1>1, SwapDoes
<1> HIDE DEF g
<1>3. Does(h, g, {s, t}, {}, 0) /\ At(g, s) = h.ptr[t] /\ At(g, t) = h.ptr[s]
  BY <1>1, <1>2 DEF Swapped
<1>4. Leaves(h, g, {s, t}, {}) /\ g.ptr[s] = h.ptr[t] /\ g.ptr[t] = h.ptr[s]
  BY <1>3, HandlesMove DEF At
<1>5. h.ptr[s] \in Live(g) /\ h.ptr[t] \in Live(g)
  BY <1>4, HandleLive DEF Leaves
<1>6. QED  BY <1>1, <1>4, <1>5 DEF Leaves, g

(***************************************************************************)
(* Nodes are made.                                                         *)
(***************************************************************************)

\* A handle gets a new node.
LEMMA RenewedTree ==
  ASSUME NEW h, Sound(h), NEW s \in Handles, NEW g, NEW d, Renewed(h, g, s, d),
         \A i \in DOMAIN d.Params : d.Params[i] \in Live(h)
  PROVE  /\ Leaves(h, g, {s}, {})
         /\ g.ptr[s] \in Live(g) \ Live(h)
         /\ TreeAt(g, g.ptr[s]) = TreeOf(d, TreesAt(h, d.Params))
<1> DEFINE f == g.ptr[s]
<1>1. /\ Does(h, g, {s}, {}, 1) /\ f \in Nodes \ Live(h) /\ At(g, s) = f
      /\ Holds(g.node[f], d, d.Params) /\ Exact(g)
  BY DEF Renewed, Inside, At, data, Does
<1>2. f \in Live(g)
  <2>1. s \in Places(g)
    BY DEF Places
  <2>2. QED  BY <1>1, <2>1, ClaimedLive
<1>3. Live(g) \subseteq Live(h) \cup {f}
  BY <1>1, <1>2 DEF Does, Born
<1>4. \A i \in DOMAIN g.node[f].Params : g.node[f].Params[i] \in Live(h)
  BY <1>1 DEF Holds
<1> HIDE DEF f
<1>5. Leaves(h, g, {s}, {})
  BY <1>1, <1>3, <1>4, HandlesLeave
<1>6. TreeAt(g, f) = TreeOf(g.node[f], TreesAt(g, g.node[f].Params))
  BY <1>2, <1>5, TreeIs DEF Leaves
<1>7. TreesAt(g, d.Params) = TreesAt(h, d.Params)
  <2>1. \A i \in DOMAIN d.Params : d.Params[i] \in (Live(h) \cap Live(g)) \ {}
    <3>1. \A i \in DOMAIN g.node[f].Params : g.node[f].Params[i] \in Live(g)
      BY <1>1, ParamsLive
    <3>2. QED  BY <1>1, <3>1 DEF Holds
  <2>2. QED  BY <1>5, <2>1, TreesSame
<1>8. TreeAt(g, f) = TreeOf(d, TreesAt(h, d.Params))
  BY <1>1, <1>6, <1>7 DEF Holds, TreeOf
<1>9. QED  BY <1>1, <1>2, <1>5, <1>8 DEF f

\* A handle gets a copy of its node, if others have it.
LEMMA CopiedTree ==
  ASSUME NEW h, Sound(h), NEW s \in Handles, h.ptr[s] \in Nodes, NEW g, Copied(h, g, s)
  PROVE  /\ Leaves(h, g, {s}, {})
         /\ g.ptr[s] \in Live(g)
         /\ TreeAt(g, g.ptr[s]) = TreeAt(h, h.ptr[s])
<1> DEFINE f == g.ptr[s]
           m == h.ptr[s]
<1>1. /\ Does(h, g, {s}, {}, 1) /\ f \in Nodes /\ At(g, s) = f /\ Exact(g)
      /\ Holds(g.node[f], h.node[m], h.node[m].Params)
      /\ f \in Live(h) => g = h
  BY DEF Copied, Inside, At, data, Does, Params
<1>2. f \in Live(g)
  <2>1. s \in Places(g)
    BY DEF Places
  <2>2. QED  BY <1>1, <2>1, ClaimedLive
<1>3. /\ m \in Live(h) /\ At(h, s) = m
      /\ \A i \in DOMAIN h.node[m].Params : h.node[m].Params[i] \in Live(h)
  BY HandleLive
<1>4. CASE f \in Live(h)
  <2>1. g = h
    BY <1>1, <1>4
  <2>2. Leaves(h, h, {s}, {})
    BY DEF Leaves
  <2>3. QED  BY <1>2, <2>1, <2>2
<1>5. CASE f \notin Live(h)
  <2>1. Renewed(h, g, s, h.node[m])
    <3>1. /\ Does(h, g, {s}, Inside(s), 1) /\ SameLengths(h, g) /\ SlotFilled(h, g, s, At(g, s))
          /\ At(g, s) \in Nodes \ Live(h)
      BY <1>1, <1>5 DEF Copied
    <3>2. Holds(data(g, s), h.node[m], h.node[m].Params)
      BY <1>1 DEF data
    <3>3. QED  BY <3>1, <3>2 DEF Renewed
  <2>2. /\ Leaves(h, g, {s}, {})
        /\ TreeAt(g, f) = TreeOf(h.node[m], TreesAt(h, h.node[m].Params))
    <3> DEFINE d == h.node[m]
    <3>1. Renewed(h, g, s, d) /\ \A i \in DOMAIN d.Params : d.Params[i] \in Live(h)
      BY <1>3, <2>1
    <3> HIDE DEF d
    <3>2. Leaves(h, g, {s}, {}) /\ TreeAt(g, g.ptr[s]) = TreeOf(d, TreesAt(h, d.Params))
      BY ONLY Sound(h), s \in Handles, <3>1, RenewedTree
    <3>3. QED  BY <3>2 DEF d
  <2>3. TreeAt(h, m) = TreeOf(h.node[m], TreesAt(h, h.node[m].Params))
    BY <1>3, TreeIs
  <2>4. QED  BY <1>2, <2>2, <2>3
<1>6. QED  BY <1>4, <1>5

\* Who changes a tree has it for itself.
LEMMA OwnTree ==
  ASSUME NEW h, Sound(h), Free(h) >= 1, NEW s \in Handles, h.ptr[s] \in Nodes
  PROVE  /\ Leaves(h, CopyOnWrite(h, s), {s}, {})
         /\ Copied(h, CopyOnWrite(h, s), s)
         /\ CopyOnWrite(h, s).ptr[s] \in Live(CopyOnWrite(h, s))
         /\ TreeAt(CopyOnWrite(h, s), CopyOnWrite(h, s).ptr[s]) = TreeAt(h, h.ptr[s])
         /\ Unshared(CopyOnWrite(h, s), s) /\ Private(CopyOnWrite(h, s), s)
         /\ Params(CopyOnWrite(h, s), s) = Params(h, s)
<1>1. Exact(h) /\ Rooted(h, s) /\ At(h, s) \in Nodes
  BY HandleLive
<1>2. Copied(h, CopyOnWrite(h, s), s)
  BY <1>1, CopyOnWriteDoes
<1>3. /\ Unshared(CopyOnWrite(h, s), s) /\ Private(CopyOnWrite(h, s), s)
      /\ Params(CopyOnWrite(h, s), s) = Params(h, s)
  BY <1>2 DEF Copied
<1>4. QED  BY <1>2, <1>3, CopiedTree

(***************************************************************************)
(* The node of a handle is written.                                        *)
(***************************************************************************)

\* The trees of one list after those of another.
LEMMA TreesConcat ==
  ASSUME NEW h, NEW l \in Seq(Nodes), NEW e \in Seq(Nodes)
  PROVE  TreesAt(h, l \o e) = TreesAt(h, l) \o TreesAt(h, e)
<1>1. /\ DOMAIN TreesAt(h, l) = 1..Len(l) /\ DOMAIN TreesAt(h, e) = 1..Len(e)
      /\ Len(l) \in Nat /\ Len(e) \in Nat
  BY LenProperties DEF TreesAt
<1>2. Len(TreesAt(h, l)) = Len(l) /\ Len(TreesAt(h, e)) = Len(e)
  BY <1>1
<1>3. QED  BY <1>1, <1>2 DEF TreesAt

\* The trees of lists that are made from others.
LEMMA TreesOfLists ==
  ASSUME NEW h, NEW l \in Seq(Nodes)
  PROVE  /\ DOMAIN TreesAt(h, l) = DOMAIN l /\ Len(TreesAt(h, l)) = Len(l)
         /\ \A n \in Nodes : TreesAt(h, Append(l, n)) = Append(TreesAt(h, l), TreeAt(h, n))
         /\ \A e \in Seq(Nodes) : TreesAt(h, l \o e) = TreesAt(h, l) \o TreesAt(h, e)
         /\ \A i \in DOMAIN l : TreesAt(h, RemoveAt(l, i)) = RemoveAt(TreesAt(h, l), i)
         /\ \A i \in DOMAIN l : \A n \in Nodes :
              TreesAt(h, [l EXCEPT ![i] = n]) = [TreesAt(h, l) EXCEPT ![i] = TreeAt(h, n)]
<1> DEFINE t == TreesAt(h, l)
<1>1. DOMAIN t = DOMAIN l /\ DOMAIN l = 1..Len(l) /\ Len(l) \in Nat
  BY LenProperties DEF TreesAt
<1>2. Len(t) = Len(l)
  BY <1>1
<1>3. ASSUME NEW n \in Nodes
      PROVE  TreesAt(h, Append(l, n)) = Append(t, TreeAt(h, n))
  BY <1>1, <1>2 DEF TreesAt
<1>4. ASSUME NEW e \in Seq(Nodes)
      PROVE  TreesAt(h, l \o e) = t \o TreesAt(h, e)
  BY TreesConcat
<1>5. ASSUME NEW i \in DOMAIN l
      PROVE  TreesAt(h, RemoveAt(l, i)) = RemoveAt(t, i)
  <2> DEFINE u == SubSeq(l, 1, i - 1)
             w == SubSeq(l, i + 1, Len(l))
  <2>1. u \in Seq(Nodes) /\ w \in Seq(Nodes)
    <3>1. /\ i \in Int /\ i - 1 \in Int /\ i + 1 \in Int /\ Len(l) \in Int /\ 1 \in Int
          /\ \A j \in 1..(i - 1) : l[j] \in Nodes
          /\ \A j \in (i + 1)..Len(l) : l[j] \in Nodes
      BY <1>1, ElementOfSeq
    <3>2. QED  BY <3>1, SubSeqProperties
  <2>2. TreesAt(h, u) = SubSeq(t, 1, i - 1)
    BY <1>1, <1>2 DEF TreesAt
  <2>3. TreesAt(h, w) = SubSeq(t, i + 1, Len(t))
    BY <1>1, <1>2 DEF TreesAt
  <2>4. RemoveAt(l, i) = u \o w
    BY DEF RemoveAt
  <2>5. RemoveAt(t, i) = SubSeq(t, 1, i - 1) \o SubSeq(t, i + 1, Len(t))
    BY DEF RemoveAt
  <2> HIDE DEF u, w, t
  <2>6. TreesAt(h, u \o w) = TreesAt(h, u) \o TreesAt(h, w)
    BY <2>1, TreesConcat
  <2>7. QED  BY <2>2, <2>3, <2>4, <2>5, <2>6
<1>6. ASSUME NEW i \in DOMAIN l, NEW n \in Nodes
      PROVE  TreesAt(h, [l EXCEPT ![i] = n]) = [t EXCEPT ![i] = TreeAt(h, n)]
  BY <1>1 DEF TreesAt
<1>7. QED  BY <1>1, <1>2, <1>3, <1>4, <1>5, <1>6

\* The node of r is r's own.
Mine(h, r) == r \in Handles /\ h.ptr[r] \in Nodes /\ Unshared(h, r) /\ Private(h, r)

\* The handles outside Q keep their nodes and trees.
Spares(h, g, Q) ==
  \A q \in Handles \ Q :
    /\ g.ptr[q] = h.ptr[q]
    /\ h.ptr[q] \in Nodes => TreeAt(g, g.ptr[q]) = TreeAt(h, h.ptr[q])

\* The node of r got the tree t.
Wrote(h, g, Q, r, t) ==
  /\ Sound(g)
  /\ Spares(h, g, Q \cup {r})
  /\ g.ptr[r] = h.ptr[r]
  /\ TreeAt(g, g.ptr[r]) = t

\* One call after another.
LEMMA SparesTwice ==
  ASSUME NEW h, NEW u, NEW g, NEW Q, NEW R, Spares(h, u, Q), Spares(u, g, R)
  PROVE  Spares(h, g, Q \cup R)
BY DEF Spares

\* Nobody else refers to the node.
LEMMA MineAlone ==
  ASSUME NEW h, Sound(h), NEW r, Mine(h, r)
  PROVE  /\ \A q \in Handles \ {r} : h.ptr[q] # h.ptr[r]
         /\ \A n \in Nodes : \A i \in DOMAIN h.node[n].Params : h.node[n].Params[i] # h.ptr[r]
         /\ Enclosed(h, {h.ptr[r]})
         /\ h.ptr[r] \in Live(h) /\ Params(h, r) = h.node[h.ptr[r]].Params
<1>1. /\ r \in Handles /\ At(h, r) = h.ptr[r] /\ Shape(h) /\ h.ptr[r] \in Live(h)
      /\ Params(h, r) = h.node[h.ptr[r]].Params
  BY HandleLive DEF Mine
<1>2. \A q \in Handles \ {r} : h.ptr[q] # h.ptr[r]
  BY <1>1 DEF Mine, Unshared
<1>3. ASSUME NEW n \in Nodes, NEW i \in DOMAIN h.node[n].Params
      PROVE  h.node[n].Params[i] # h.ptr[r]
  <2> DEFINE s == <<n, i>>
  <2>1. s \in Slots(h) /\ s \notin Handles /\ At(h, s) = h.node[n].Params[i]
    BY <1>1, PlacesTyped
  <2>2. s \in Slots(h) \ {r}
    BY <1>1, <2>1
  <2> HIDE DEF s
  <2>3. At(h, s) # At(h, r)
    BY <2>2 DEF Mine, Private
  <2>4. QED  BY <1>1, <2>1, <2>3
<1>4. Enclosed(h, {h.ptr[r]})
  BY <1>3 DEF Enclosed, Live
<1>5. QED  BY <1>1, <1>2, <1>3, <1>4

\* The node of r becomes d with the parameters l.
LEMMA OneWritten ==
  ASSUME NEW h, Sound(h), NEW r, Mine(h, r), NEW g, NEW Q, r \notin Q, NEW k,
         Does(h, g, Q, {h.ptr[r]}, k),
         \A f \in Live(g) \ Live(h) : g.node[f].Params = <<>>,
         NEW d, NEW l, Holds(g.node[h.ptr[r]], d, l),
         \A i \in DOMAIN l : l[i] \in Live(h) \ {h.ptr[r]}
  PROVE  Wrote(h, g, Q, r, TreeOf(d, TreesAt(h, l))) /\ Leaves(h, g, Q, {h.ptr[r]})
<1> DEFINE m == h.ptr[r]
           M == {m}
<1>1. /\ \A q \in Handles \ {r} : h.ptr[q] # m
      /\ Enclosed(h, M) /\ m \in Live(h) /\ r \in Handles /\ m \in Nodes
  BY MineAlone DEF Mine
<1>2. Layered(h, g, M, {})
  <2>1. \A i \in DOMAIN g.node[m].Params : g.node[m].Params[i] \notin M
    BY DEF Holds
  <2>2. \A f \in Live(g) \ (Live(h) \cup M) : DOMAIN g.node[f].Params = {}
    OBVIOUS
  <2>3. QED  BY <2>1, <2>2 DEF Layered
<1>3. Leaves(h, g, Q, M)
  BY <1>1, <1>2, CallLeaves
<1>4. Sound(g) /\ g.ptr[r] = m /\ Spares(h, g, Q \cup {r})
  BY <1>1, <1>3 DEF Leaves, Spares
<1>5. m \in Live(g) /\ Exact(g)
  BY <1>1, <1>4, HandleLive
<1>6. TreeAt(g, m) = TreeOf(g.node[m], TreesAt(g, g.node[m].Params))
  BY <1>4, <1>5, TreeIs
<1>7. TreesAt(g, l) = TreesAt(h, l)
  <2>1. \A i \in DOMAIN l : l[i] \in (Live(h) \cap Live(g)) \ M
    <3>1. \A i \in DOMAIN g.node[m].Params : g.node[m].Params[i] \in Live(g)
      BY <1>1, <1>5, ParamsLive
    <3>2. QED  BY <3>1 DEF Holds
  <2>2. QED  BY <1>3, <2>1, TreesSame
<1>8. TreeAt(g, m) = TreeOf(d, TreesAt(h, l))
  BY <1>6, <1>7 DEF Holds, TreeOf
<1>9. QED  BY <1>3, <1>4, <1>8 DEF Wrote

\* Other parameters are another tree.
LEMMA WithIs ==
  ASSUME NEW h, Sound(h), NEW r \in Handles, h.ptr[r] \in Nodes
  PROVE  /\ TreeAt(h, h.ptr[r]) = TreeOf(data(h, r), TreesAt(h, Params(h, r)))
         /\ TreeAt(h, h.ptr[r]).params = TreesAt(h, Params(h, r))
         /\ \A p : TreeOf(data(h, r), p) = Values!With(TreeAt(h, h.ptr[r]), p)
<1>1. TreeAt(h, h.ptr[r]) = TreeOf(data(h, r), TreesAt(h, Params(h, r)))
  BY HandleLive, TreeIs DEF data
<1>2. QED  BY <1>1 DEF TreeOf, Values!With

\* The parameters are exchanged, after other changes.
LEMMA FilledHolds ==
  ASSUME NEW h, NEW k, NEW Q, NEW M, NEW F, Alters(h, k, Q, M, F),
         NEW s \in Handles \ Q, h.ptr[s] \in Live(h) \ M, NEW l \in Seq(Nodes)
  PROVE  /\ Holds(SetAll(k, s, l).node[h.ptr[s]], h.node[h.ptr[s]], l)
         /\ Alters(h, SetAll(k, s, l), Q, M \cup {h.ptr[s]}, F)
         /\ \A n \in Live(k) \ {h.ptr[s]} : Equal(SetAll(k, s, l).node[n], k.node[n])
<1> DEFINE m == h.ptr[s]
           g == SetAll(k, s, l)
<1>1. Sane(k) /\ At(k, s) = m /\ m \in Live(k)
  BY DEF Alters, At
<1>2. Holds(g.node[m], k.node[m], l) /\ Alters(k, g, {}, {m}, {})
  BY <1>1, Filled
<1> HIDE DEF g
<1>3. Holds(g.node[m], h.node[m], l)
  BY <1>2 DEF Alters, Holds
<1>4. \A n \in Live(k) \ {m} : Equal(g.node[n], k.node[n])
  BY <1>2 DEF Alters, Equal, Holds
<1>5. Alters(h, g, Q \cup {}, M \cup {m}, F \cup {})
  BY <1>2, AltersTwice
<1>6. Q \cup {} = Q /\ F \cup {} = F
  OBVIOUS
<1>7. Alters(h, g, Q, M \cup {m}, F)
  BY <1>5, <1>6
<1>8. QED  BY <1>3, <1>4, <1>7 DEF g

\* What lives on after releases is what it was.
LEMMA KeptEqual ==
  ASSUME NEW g, NEW u, Kept(g, u), NEW m \in Live(u)
  PROVE  Equal(u.node[m], g.node[m]) /\ m \in Live(g)
BY DEF Kept, Live, Equal, Holds

\* The parameters of the handles are other nodes.
LEMMA MineApart ==
  ASSUME NEW h, Sound(h), NEW r, Mine(h, r)
  PROVE  /\ \A b \in Handles : h.ptr[b] \in Nodes =>
              \A i \in DOMAIN Params(h, b) : Params(h, b)[i] \in Live(h) \ {h.ptr[r]}
         /\ \A b \in Places(h) \ {r} : At(h, b) \in Nodes => At(h, b) \in Live(h) \ {h.ptr[r]}
<1> DEFINE m == h.ptr[r]
<1>1. r \in Handles /\ At(h, r) = m /\ Exact(h)
  BY HandleLive DEF Mine
<1>2. ASSUME NEW b \in Handles, h.ptr[b] \in Nodes, NEW i \in DOMAIN Params(h, b)
      PROVE  Params(h, b)[i] \in Live(h) \ {m}
  <2>1. /\ Params(h, b) = h.node[h.ptr[b]].Params
        /\ \A j \in DOMAIN Params(h, b) : Params(h, b)[j] \in Live(h)
    BY <1>2, HandleLive
  <2>2. \A n \in Nodes : \A j \in DOMAIN h.node[n].Params : h.node[n].Params[j] # m
    BY MineAlone
  <2> DEFINE P == Params(h, b)
  <2>3. \A j \in DOMAIN P : P[j] # m
    BY <1>2, <2>1, <2>2
  <2>4. QED  BY <2>1, <2>3
<1>3. ASSUME NEW b \in Places(h) \ {r}, At(h, b) \in Nodes
      PROVE  At(h, b) \in Live(h) \ {m}
  <2>1. At(h, b) \in Live(h)
    BY <1>1, <1>3, ClaimedLive
  <2>2. CASE b \in Handles
    BY <1>1, <2>1, <2>2 DEF Mine, Unshared, At
  <2>3. CASE b \notin Handles
    <3>1. b \in Slots(h) \ {r}
      BY <2>3 DEF Places
    <3>2. QED  BY <1>1, <2>1, <3>1 DEF Mine, Private
  <2>4. QED  BY <2>2, <2>3
<1>4. QED  BY <1>2, <1>3

\* The node of r gets the parameters l.
LEMMA ParamsWritten ==
  ASSUME NEW h, Sound(h), NEW r, Mine(h, r), NEW g, NEW Q, r \notin Q, NEW j,
         Does(h, g, Q, {h.ptr[r]}, j),
         \A f \in Live(g) \ Live(h) : g.node[f].Params = <<>>,
         NEW k, NEW F, Alters(h, k, {}, {}, F),
         NEW l \in Seq(Nodes), \A i \in DOMAIN l : l[i] \in Live(h) \ {h.ptr[r]},
         h.ptr[r] \in Live(g) => Equal(g.node[h.ptr[r]], SetAll(k, r, l).node[h.ptr[r]])
  PROVE  /\ Wrote(h, g, Q, r, Values!With(TreeAt(h, h.ptr[r]), TreesAt(h, l)))
         /\ Leaves(h, g, Q, {h.ptr[r]})
<1> DEFINE m == h.ptr[r]
<1>1. /\ r \in Handles /\ At(h, r) = m /\ m \in Live(h) /\ m \in Nodes /\ Exact(h)
  BY HandleLive DEF Mine
<1>2. m \in Live(g)
  BY <1>1, HandleKept
<1>3. Holds(SetAll(k, r, l).node[m], h.node[m], l)
  <2>1. r \in Handles \ {} /\ h.ptr[r] \in Live(h) \ {}
    BY <1>1
  <2>2. QED  BY <2>1, FilledHolds
<1>4. Holds(g.node[m], data(h, r), l)
  BY <1>1, <1>2, <1>3 DEF Holds, Equal, data
<1>5. Wrote(h, g, Q, r, TreeOf(data(h, r), TreesAt(h, l))) /\ Leaves(h, g, Q, {m})
  BY <1>4, OneWritten
<1>6. TreeOf(data(h, r), TreesAt(h, l)) = Values!With(TreeAt(h, m), TreesAt(h, l))
  BY <1>1, WithIs
<1>7. QED  BY <1>5, <1>6

\* None is made.
LEMMA NoneMade ==
  ASSUME NEW h, NEW g, NEW Q, NEW M, Does(h, g, Q, M, 0)
  PROVE  \A f \in Live(g) \ Live(h) : g.node[f].Params = <<>>
BY DEF Does, Born

\* AddParam().
LEMMA AddParamTree ==
  ASSUME NEW h, Sound(h), NEW r, Mine(h, r), NEW b \in Places(h) \ {r}, At(h, b) \in Nodes
  PROVE  Wrote(h, AddParam(h, r, b), {}, r,
               Values!With(TreeAt(h, h.ptr[r]),
                           Append(TreeAt(h, h.ptr[r]).params, TreeAt(h, At(h, b)))))
<1> DEFINE g == AddParam(h, r, b)
           m == h.ptr[r]
           n == At(h, b)
           P == Params(h, r)
           l == Append(P, n)
           k == Reserve(h, n)
<1>1. /\ r \in Handles /\ At(h, r) = m /\ Exact(h) /\ Sane(h) /\ m \in Nodes
      /\ P \in Seq(Nodes) /\ \A i \in DOMAIN P : P[i] \in Live(h) \ {m}
  BY HandleLive, ExactIs, MineApart DEF Mine, Sane, Sound
<1>2. n \in Live(h) \ {m} /\ n \in Nodes
  BY MineApart
<1>3. Does(h, g, {}, {m}, 0)
  BY <1>1, AddParamDoes
<1>4. l \in Seq(Nodes) /\ \A i \in DOMAIN l : l[i] \in Live(h) \ {m}
  <2>1. Len(P) \in Nat /\ DOMAIN P = 1..Len(P)
    BY <1>1, LenProperties
  <2>2. QED  BY <1>1, <1>2, <2>1
<1>5. g = SetAll(k, r, l)
  BY DEF AddParam
<1>6. Alters(h, k, {}, {}, {})
  BY <1>1, <1>2, ReserveAlters
<1>7. TreesAt(h, l) = Append(TreesAt(h, P), TreeAt(h, n)) /\ TreeAt(h, m).params = TreesAt(h, P)
  BY <1>1, <1>2, TreesOfLists, WithIs
<1> HIDE DEF g, k, l, P, n
<1>8. Equal(g.node[m], SetAll(k, r, l).node[m])
  BY <1>5 DEF Equal, Holds
<1>9. r \notin {} /\ \A f \in Live(g) \ Live(h) : g.node[f].Params = <<>>
  BY <1>3, NoneMade
<1>10. Wrote(h, g, {}, r, Values!With(TreeAt(h, m), TreesAt(h, l)))
  BY <1>3, <1>4, <1>6, <1>8, <1>9, ParamsWritten
<1>11. QED  BY <1>7, <1>10 DEF g, n

\* AddParams().
LEMMA AddParamsTree ==
  ASSUME NEW h, Sound(h), NEW r, Mine(h, r), NEW b \in Handles, h.ptr[b] \in Nodes
  PROVE  Wrote(h, AddParams(h, r, b), {}, r,
               Values!With(TreeAt(h, h.ptr[r]),
                           TreeAt(h, h.ptr[r]).params \o TreeAt(h, h.ptr[b]).params))
<1> DEFINE g == AddParams(h, r, b)
           m == h.ptr[r]
           P == Params(h, r)
           R == Params(h, b)
           l == P \o R
           k == ReserveAll(h, R)
<1>1. /\ r \in Handles /\ At(h, r) = m /\ Exact(h) /\ Sane(h) /\ m \in Nodes
      /\ P \in Seq(Nodes) /\ \A i \in DOMAIN P : P[i] \in Live(h) \ {m}
      /\ R \in Seq(Nodes) /\ \A i \in DOMAIN R : R[i] \in Live(h) \ {m}
  BY HandleLive, ExactIs, MineApart DEF Mine, Sane, Sound
<1>2. Does(h, g, {}, {m}, 0)
  BY <1>1, AddParamsDoes
<1>3. l \in Seq(Nodes) /\ \A i \in DOMAIN l : l[i] \in Live(h) \ {m}
  <2>1. Len(P) \in Nat /\ DOMAIN P = 1..Len(P) /\ Len(R) \in Nat /\ DOMAIN R = 1..Len(R)
    BY <1>1, LenProperties
  <2>2. QED  BY <1>1, <2>1
<1>4. g = SetAll(k, r, l)
  BY DEF AddParams
<1>5. Alters(h, k, {}, {}, {})
  BY <1>1, ReserveAllAlters
<1>6. /\ TreesAt(h, l) = TreesAt(h, P) \o TreesAt(h, R)
      /\ TreeAt(h, m).params = TreesAt(h, P) /\ TreeAt(h, h.ptr[b]).params = TreesAt(h, R)
  BY <1>1, TreesOfLists, WithIs
<1> HIDE DEF g, k, l, P, R
<1>7. Equal(g.node[m], SetAll(k, r, l).node[m])
  BY <1>4 DEF Equal, Holds
<1>8. r \notin {} /\ \A f \in Live(g) \ Live(h) : g.node[f].Params = <<>>
  BY <1>2, NoneMade
<1>9. Wrote(h, g, {}, r, Values!With(TreeAt(h, m), TreesAt(h, l)))
  BY <1>2, <1>3, <1>5, <1>7, <1>8, ParamsWritten
<1>10. QED  BY <1>6, <1>9 DEF g

\* SetParams().
LEMMA SetParamsTree ==
  ASSUME NEW h, Sound(h), NEW r, Mine(h, r), NEW b \in Handles, h.ptr[b] \in Nodes
  PROVE  Wrote(h, SetParams(h, r, b), {}, r,
               Values!With(TreeAt(h, h.ptr[r]), TreeAt(h, h.ptr[b]).params))
<1> DEFINE g == SetParams(h, r, b)
           m == h.ptr[r]
           R == Params(h, b)
           k == ReserveAll(h, R)
<1>1. /\ r \in Handles /\ At(h, r) = m /\ Exact(h) /\ Sane(h) /\ m \in Nodes
      /\ R \in Seq(Nodes) /\ \A i \in DOMAIN R : R[i] \in Live(h) \ {m}
  BY HandleLive, ExactIs, MineApart DEF Mine, Sane, Sound
<1>2. Does(h, g, {}, {m}, 0) /\ Kept(SetAll(k, r, R), g)
  BY <1>1, SetParamsDoes
<1>3. Alters(h, k, {}, {}, {})
  BY <1>1, ReserveAllAlters
<1>4. TreeAt(h, h.ptr[b]).params = TreesAt(h, R)
  BY <1>1, WithIs
<1> HIDE DEF g, k, R
<1>5. m \in Live(g) => Equal(g.node[m], SetAll(k, r, R).node[m])
  BY <1>2, KeptEqual
<1>6. r \notin {} /\ \A f \in Live(g) \ Live(h) : g.node[f].Params = <<>>
  BY <1>2, NoneMade
<1>7. Wrote(h, g, {}, r, Values!With(TreeAt(h, m), TreesAt(h, R)))
  BY <1>1, <1>2, <1>3, <1>5, <1>6, ParamsWritten
<1>8. QED  BY <1>4, <1>7 DEF g

\* DelParams() and DelParam().
LEMMA DelParamsTree ==
  ASSUME NEW h, Sound(h), NEW r, Mine(h, r)
  PROVE  /\ Wrote(h, DelParams(h, r), {}, r, Values!With(TreeAt(h, h.ptr[r]), <<>>))
         /\ \A i \in DOMAIN Params(h, r) :
              Wrote(h, DelParam(h, r, i), {}, r,
                    Values!With(TreeAt(h, h.ptr[r]), RemoveAt(TreeAt(h, h.ptr[r]).params, i)))
<1> DEFINE m == h.ptr[r]
           P == Params(h, r)
<1>1. /\ r \in Handles /\ At(h, r) = m /\ Exact(h) /\ Sane(h) /\ m \in Nodes /\ m \in Live(h)
      /\ P \in Seq(Nodes) /\ \A i \in DOMAIN P : P[i] \in Live(h) \ {m}
  BY HandleLive, ExactIs, MineApart DEF Mine, Sane, Sound
<1>2. Alters(h, h, {}, {}, {}) /\ r \notin {}
  BY <1>1, Unaltered
<1>3. Wrote(h, DelParams(h, r), {}, r, Values!With(TreeAt(h, m), <<>>))
  <2> DEFINE g == DelParams(h, r)
             l == <<>>
  <2>1. Does(h, g, {}, {m}, 0) /\ Kept(SetAll(h, r, l), g)
    BY <1>1, DelParamsDoes
  <2>2. l \in Seq(Nodes) /\ \A i \in DOMAIN l : l[i] \in Live(h) \ {m}
    BY EmptySeq
  <2>3. TreesAt(h, l) = <<>>
    BY DEF TreesAt
  <2> HIDE DEF g, l
  <2>4. m \in Live(g) => Equal(g.node[m], SetAll(h, r, l).node[m])
    BY <2>1, KeptEqual
  <2>5. \A f \in Live(g) \ Live(h) : g.node[f].Params = <<>>
    BY <2>1, NoneMade
  <2>6. Wrote(h, g, {}, r, Values!With(TreeAt(h, m), TreesAt(h, l)))
    BY <1>2, <2>1, <2>2, <2>4, <2>5, ParamsWritten
  <2>7. QED  BY <2>3, <2>6 DEF g
<1>4. ASSUME NEW i \in DOMAIN P
      PROVE  Wrote(h, DelParam(h, r, i), {}, r,
                   Values!With(TreeAt(h, m), RemoveAt(TreeAt(h, m).params, i)))
  <2> DEFINE g == DelParam(h, r, i)
             l == RemoveAt(P, i)
  <2>1. Does(h, g, {}, {m}, 0) /\ Kept(SetAll(h, r, l), g)
    BY <1>1, DelParamDoes
  <2>2. l \in Seq(Nodes) /\ \A j \in DOMAIN l : l[j] \in Live(h) \ {m}
    <3> DEFINE S == Live(h) \ {m}
    <3>1. P \in Seq(S) /\ i \in 1..Len(P) /\ S \subseteq Nodes
      BY <1>1, LenProperties DEF Live
    <3> HIDE DEF S
    <3>2. RemoveAt(P, i) \in Seq(S)
      BY <3>1, TimesRemove
    <3>3. QED  BY <3>1, <3>2 DEF S
  <2>3. TreesAt(h, l) = RemoveAt(TreesAt(h, P), i) /\ TreeAt(h, m).params = TreesAt(h, P)
    BY <1>1, TreesOfLists, WithIs
  <2> HIDE DEF g, l
  <2>4. m \in Live(g) => Equal(g.node[m], SetAll(h, r, l).node[m])
    BY <2>1, KeptEqual
  <2>5. \A f \in Live(g) \ Live(h) : g.node[f].Params = <<>>
    BY <2>1, NoneMade
  <2>6. Wrote(h, g, {}, r, Values!With(TreeAt(h, m), TreesAt(h, l)))
    BY <1>2, <2>1, <2>2, <2>4, <2>5, ParamsWritten
  <2>7. QED  BY <2>3, <2>6 DEF g
<1>5. QED  BY <1>3, <1>4

\* SetOpcode().
LEMMA SetOpcodeTree ==
  ASSUME NEW h, Sound(h), NEW r, Mine(h, r), NEW o, o # "deleted"
  PROVE  Wrote(h, SetOpcode(h, r, o), {}, r, [TreeAt(h, h.ptr[r]) EXCEPT !.opcode = o])
<1> DEFINE g == SetOpcode(h, r, o)
           m == h.ptr[r]
           c == h.node[m]
           d == WithOpcode(c, o)
           P == Params(h, r)
<1>1. /\ r \in Handles /\ At(h, r) = m /\ Exact(h) /\ Shape(h) /\ m \in Nodes
      /\ \A i \in DOMAIN P : P[i] \in Live(h) \ {m}
      /\ P = c.Params /\ data(h, r) = c
  BY HandleLive, MineApart DEF Mine, data
<1>2. Does(h, g, {}, {m}, 0) /\ data(g, r) = d
  BY <1>1, SetOpcodeDoes
<1>3. IsNode(c)
  BY <1>1 DEF Shape
<1>4. d.Params = P /\ d.Opcode = o /\ d.Value = c.Value
  BY <1>1, <1>3 DEF WithOpcode, IsNode
<1>5. g.ptr[r] = m
  BY <1>1, <1>2 DEF Does
<1>6. TreeAt(h, m) = TreeOf(c, TreesAt(h, P))
  BY <1>1, WithIs
<1> HIDE DEF g, P, d, c
<1>7. Holds(g.node[m], d, P)
  BY <1>1, <1>2, <1>4, <1>5 DEF Holds, data, At
<1>8. r \notin {} /\ \A f \in Live(g) \ Live(h) : g.node[f].Params = <<>>
  BY <1>2, NoneMade
<1>9. Wrote(h, g, {}, r, TreeOf(d, TreesAt(h, P)))
  BY <1>1, <1>2, <1>7, <1>8, OneWritten
<1>10. TreeOf(d, TreesAt(h, P)) = [TreeAt(h, m) EXCEPT !.opcode = o]
  BY <1>4, <1>6 DEF TreeOf
<1>11. QED  BY <1>9, <1>10 DEF g

\* A new node is cNop.
LEMMA NopTreeIs ==
  ASSUME NEW g, Sound(g), NEW f \in Live(g), NEW c, Equal(g.node[f], WithCount(Nop, c))
  PROVE  TreeAt(g, f) = Values!NopTree /\ g.node[f].Params = <<>>
<1>1. g.node[f].Params = <<>> /\ g.node[f].Opcode = "cNop" /\ g.node[f].Value = 0
  BY DEF Equal, Holds, WithCount, Nop, Data
<1>2. QED  BY <1>1, LeafTree DEF TreeOf, Values!NopTree, Values!Leaf

\* b's node is r's last parameter, and b has a new node in exchange.
Moved(h, g, r, b) ==
  /\ g.ptr[b] \in Nodes \ Live(h)
  /\ \A n \in Live(g) \ Live(h) : g.node[n].Params = <<>>
  /\ g.node[h.ptr[r]].Params = Append(Params(h, r), h.ptr[b])

\* AddParamMove(): b is left with cNop.
LEMMA AddParamMoveTree ==
  ASSUME NEW h, Sound(h), Free(h) >= 1, NEW r, Mine(h, r), NEW b \in Handles \ {r},
         h.ptr[b] \in Nodes
  PROVE  /\ Wrote(h, AddParamMove(h, r, b), {b}, r,
                  Values!With(TreeAt(h, h.ptr[r]),
                              Append(TreeAt(h, h.ptr[r]).params, TreeAt(h, h.ptr[b]))))
         /\ AddParamMove(h, r, b).ptr[b] \in Nodes
         /\ TreeAt(AddParamMove(h, r, b), AddParamMove(h, r, b).ptr[b]) = Values!NopTree
         /\ Moved(h, AddParamMove(h, r, b), r, b)
<1> DEFINE g == AddParamMove(h, r, b)
           f == Fresh(h)
           m == h.ptr[r]
           n == h.ptr[b]
           P == Params(h, r)
           l == Append(P, n)
           d == WithCount(Nop, 1)
           k == Put(h, f, d)
           u == SetAll(k, r, l)
<1>1. /\ r \in Handles /\ At(h, r) = m /\ Exact(h) /\ Sane(h) /\ m \in Nodes /\ m \in Live(h)
      /\ P \in Seq(Nodes) /\ \A i \in DOMAIN P : P[i] \in Live(h) \ {m}
      /\ At(h, b) = n /\ n \in Nodes
  BY HandleLive, ExactIs, MineApart DEF Mine, Sane, Sound
<1>2. n \in Live(h) \ {m}
  BY <1>1, MineApart DEF Places
<1>3. Does(h, g, {b}, {m}, 1) /\ g.ptr[b] \in Nodes
  BY <1>1, AddParamMoveDoes
<1>4. l \in Seq(Nodes) /\ \A i \in DOMAIN l : l[i] \in Live(h) \ {m}
  <2>1. Len(P) \in Nat /\ DOMAIN P = 1..Len(P)
    BY <1>1, LenProperties
  <2>2. QED  BY <1>1, <1>2, <2>1
<1>5. f \in Nodes /\ f \notin Live(h) /\ h.node[f] = Deleted
  BY FreshIsFree
<1>6. /\ IsNode(d) /\ d.RefCount = 1 /\ d.Opcode # "deleted"
      /\ [Nop EXCEPT !.RefCount = 1] = d
  BY NopCounted
<1>7. g = Point(u, b, f)
  BY <1>1, <1>6, Zenon DEF AddParamMove, Put
<1>8. TreesAt(h, l) = Append(TreesAt(h, P), TreeAt(h, n)) /\ TreeAt(h, m).params = TreesAt(h, P)
  BY <1>1, TreesOfLists, WithIs
<1> HIDE DEF g, k, l, P, n, d, f, u
<1>9. Alters(h, k, {}, {}, {f}) /\ k.node[f] = d
  <2>1. Sane(h) /\ f \in Nodes /\ h.node[f] = Deleted
    BY <1>1, <1>5
  <2>2. IsNode(d) /\ d.RefCount # 0 /\ d.Opcode # "deleted"
    BY <1>6
  <2>3. QED  BY ONLY <2>1, <2>2, FreshWritten DEF k
<1>10. /\ \A x \in Live(k) \ {m} : Equal(u.node[x], k.node[x])
       /\ Alters(h, u, {}, {} \cup {m}, {f})
       /\ Holds(u.node[m], h.node[m], l)
  <2>1. r \in Handles \ {} /\ m \in Live(h) \ {}
    BY <1>1
  <2>2. QED  BY <1>4, <1>9, <2>1, FilledHolds DEF u
<1>11. g.node = u.node /\ g.ptr[b] = f
  <2>1. Sane(u) /\ b \in Places(u)
    BY <1>10 DEF Alters, Places
  <2>2. Pointed(u, g, b, f)
    BY <1>5, <1>7, <2>1, PointAlters
  <2>3. g.ptr[b] = f
    BY <2>2 DEF Pointed, At
  <2>4. QED  BY <1>7, <2>3 DEF Point
<1>12. f \in Live(k) \ {m}
  BY <1>1, <1>5, <1>9 DEF Alters
<1>13. Equal(g.node[f], d)
  BY <1>9, <1>10, <1>11, <1>12
<1>14. g.node[f].Params = <<>> /\ Exact(g) /\ f \in Live(g)
  <2>1. Exact(g) /\ b \in Places(g) /\ At(g, b) = f
    BY <1>3, <1>11 DEF Does, Places, At
  <2>2. f \in Live(g)
    BY <1>5, <2>1, ClaimedLive
  <2>3. QED  BY <1>13, <2>1, <2>2 DEF Equal, Holds, d, WithCount, Nop, Data
<1>15. \A x \in Live(g) \ Live(h) : g.node[x].Params = <<>>
  BY <1>3, <1>5, <1>14 DEF Does, Born
<1>16. r \notin {b} /\ Equal(g.node[m], u.node[m])
  BY <1>11 DEF Equal, Holds
<1>17. Wrote(h, g, {b}, r, Values!With(TreeAt(h, m), TreesAt(h, l)))
  BY <1>3, <1>4, <1>9, <1>15, <1>16, ParamsWritten DEF u
<1>18. TreeAt(g, f) = Values!NopTree
  BY <1>13, <1>14, <1>17, NopTreeIs DEF Wrote, d
<1>19. g.node[m].Params = l
  BY <1>10, <1>11 DEF Holds
<1>20. Moved(h, g, r, b)
  BY <1>5, <1>11, <1>15, <1>19 DEF Moved, l, P, m, n
<1>21. QED  BY <1>3, <1>8, <1>11, <1>17, <1>18, <1>20 DEF g, n

\* A node that is r's own stays r's own.
LEMMA MineKept ==
  ASSUME NEW h, Sound(h), NEW r, Mine(h, r), NEW g, NEW Q, NEW M, NEW k, Does(h, g, Q, M, k),
         r \notin Q, \A q \in Q \cap Handles : g.ptr[q] # h.ptr[r],
         \A n \in Live(g) : n \notin Live(h) \/ n \in M =>
           \A i \in DOMAIN g.node[n].Params : g.node[n].Params[i] # h.ptr[r]
  PROVE  Mine(g, r)
<1> DEFINE m == h.ptr[r]
<1>1. /\ r \in Handles /\ m \in Nodes /\ Shape(g)
      /\ g.ptr[r] = m /\ At(g, r) = m
      /\ \A q \in Handles \ {r} : h.ptr[q] # m
      /\ \A n \in Nodes : \A i \in DOMAIN h.node[n].Params : h.node[n].Params[i] # m
  BY MineAlone, ExactIs DEF Mine, Does, At
<1>2. Unshared(g, r)
  <2>1. ASSUME NEW q \in Handles \ {r}
        PROVE  g.ptr[q] # m
    <3>1. CASE q \in Q
      BY <3>1
    <3>2. CASE q \notin Q
      BY <1>1, <3>2 DEF Does
    <3>3. QED  BY <3>1, <3>2
  <2>2. QED  BY <1>1, <2>1 DEF Unshared
<1>3. ASSUME NEW n \in Nodes, NEW i \in DOMAIN g.node[n].Params
      PROVE  g.node[n].Params[i] # m
  <2>1. n \in Live(g)
    BY <1>3, DeletedNode DEF Live
  <2>2. CASE n \notin Live(h) \/ n \in M
    BY <2>1, <2>2
  <2>3. CASE n \in Live(h) /\ n \notin M
    <3>1. g.node[n].Params = h.node[n].Params
      BY <2>1, <2>3 DEF Does
    <3>2. QED  BY <1>1, <3>1
  <2>4. QED  BY <2>2, <2>3
<1>4. Private(g, r)
  <2>1. ASSUME NEW q \in Slots(g) \ {r}
        PROVE  At(g, q) # m
    <3>1. At(g, q) = g.node[q[1]].Params[q[2]] /\ q[1] \in Nodes /\ q[2] \in DOMAIN g.node[q[1]].Params
      BY <1>1, PlacesTyped DEF Slots
    <3>2. QED  BY <1>3, <3>1
  <2>2. QED  BY <1>1, <2>1 DEF Private
<1>5. QED  BY <1>1, <1>2, <1>4 DEF Mine

\* No node is its own parameter.
LEMMA ParamApart ==
  ASSUME NEW h, Sound(h), NEW n \in Live(h), NEW i \in DOMAIN h.node[n].Params
  PROVE  h.node[n].Params[i] # n
<1>1. n \in Below(h, n)
  BY BelowIs DEF Live
<1>2. n \notin Below(h, h.node[n].Params[i])
  BY DEF Sound, Acyclic
<1>3. QED  BY <1>1, <1>2

\* Handles that refer to other nodes than M keep their trees.
LEMMA LeavesSpares ==
  ASSUME NEW h, NEW g, NEW Q, NEW M, Leaves(h, g, Q, M),
         NEW R, Q \subseteq R, \A q \in Handles \ R : h.ptr[q] \notin M
  PROVE  Spares(h, g, R)
BY DEF Leaves, Spares

\* The nodes m and c are written; m may keep c as a parameter.
LEMMA PairWritten ==
  ASSUME NEW h, Sound(h), NEW m, NEW c, NEW M, M = {m, c}, Enclosed(h, M),
         NEW g, NEW Q, NEW k, Does(h, g, Q, M, k),
         \A f \in Live(g) \ Live(h) : g.node[f].Params = <<>>,
         \A i \in DOMAIN g.node[m].Params : g.node[m].Params[i] # m, m # c,
         \A i \in DOMAIN g.node[c].Params : g.node[c].Params[i] \notin M
  PROVE  Leaves(h, g, Q, M)
<1>1. \A f \in Live(g) \ (Live(h) \cup M) : DOMAIN g.node[f].Params = {}
  OBVIOUS
<1>2. Layered(h, g, M, {c})
  BY <1>1 DEF Layered
<1>3. QED  BY <1>2, CallLeaves

\* The tree of a node that is known.
LEMMA HoldsTree ==
  ASSUME NEW g, Sound(g), NEW n \in Live(g), NEW d, NEW l, Holds(g.node[n], d, l)
  PROVE  TreeAt(g, n) = TreeOf(d, TreesAt(g, l))
<1>1. TreeAt(g, n) = TreeOf(g.node[n], TreesAt(g, g.node[n].Params))
  BY TreeIs
<1>2. QED  BY <1>1 DEF Holds, TreeOf

\* Only parameters of m refer to the node of b.
Lends(h, b, m) ==
  \A n \in Live(h) \ {m} : \A i \in DOMAIN h.node[n].Params : h.node[n].Params[i] # h.ptr[b]

\* The handles of the node of b.
Sharers(h, b) == {q \in Handles : h.ptr[q] = h.ptr[b]}

\* r and the handles of the node of b got the trees t and u.
Passed(h, g, r, b, t, u) ==
  /\ Sound(g)
  /\ Spares(h, g, {r} \cup Sharers(h, b))
  /\ g.ptr[r] = h.ptr[r] /\ TreeAt(g, g.ptr[r]) = t
  /\ g.ptr[b] = h.ptr[b] /\ TreeAt(g, g.ptr[b]) = u

\* The nodes of r and b are other ones, and their parameters too.
LEMMA LentApart ==
  ASSUME NEW h, Sound(h), NEW r, Mine(h, r), NEW b \in Handles \ {r}, h.ptr[b] \in Nodes,
         Lends(h, b, h.ptr[r])
  PROVE  /\ h.ptr[r] \in Live(h) /\ h.ptr[b] \in Live(h) /\ h.ptr[r] # h.ptr[b]
         /\ r \in Handles /\ h.ptr[r] \in Nodes /\ Exact(h) /\ Sane(h)
         /\ Enclosed(h, {h.ptr[r], h.ptr[b]})
         /\ Params(h, b) \in Seq(Nodes) /\ Params(h, r) \in Seq(Nodes)
         /\ \A i \in DOMAIN Params(h, b) : Params(h, b)[i] \in Live(h) \ {h.ptr[r], h.ptr[b]}
         /\ \A i \in DOMAIN Params(h, r) : Params(h, r)[i] \in Live(h) \ {h.ptr[r]}
         /\ Params(h, r) = h.node[h.ptr[r]].Params /\ Params(h, b) = h.node[h.ptr[b]].Params
<1> DEFINE m == h.ptr[r]
           c == h.ptr[b]
<1>1. /\ r \in Handles /\ m \in Live(h) /\ c \in Live(h) /\ m # c
      /\ Params(h, b) \in Seq(Nodes) /\ Params(h, r) \in Seq(Nodes)
      /\ Exact(h) /\ Sane(h) /\ m \in Nodes
      /\ Params(h, r) = h.node[m].Params /\ Params(h, b) = h.node[c].Params
  BY HandleLive, MineAlone, ExactIs DEF Mine, Sane, Sound
<1>2. /\ \A i \in DOMAIN Params(h, b) : Params(h, b)[i] \in Live(h) \ {m}
      /\ \A i \in DOMAIN Params(h, r) : Params(h, r)[i] \in Live(h) \ {m}
  BY <1>1, MineApart
<1>3. \A i \in DOMAIN h.node[c].Params : h.node[c].Params[i] # c
  BY <1>1, ParamApart
<1>4. Enclosed(h, {m, c})
  <2>1. \A n \in Nodes : \A i \in DOMAIN h.node[n].Params : h.node[n].Params[i] # m
    BY MineAlone
  <2>2. QED  BY <2>1 DEF Enclosed, Lends, Live
<1>5. QED  BY <1>1, <1>2, <1>3, <1>4

\* Other parameters of a node are another tree.
LEMMA WithNode ==
  ASSUME NEW h, Sound(h), NEW n \in Live(h)
  PROVE  \A p : TreeOf(h.node[n], p) = Values!With(TreeAt(h, n), p)
<1>1. TreeAt(h, n) = TreeOf(h.node[n], TreesAt(h, h.node[n].Params))
  BY TreeIs
<1>2. QED  BY <1>1 DEF TreeOf, Values!With

\* The nodes of two handles that are left alone live on.
LEMMA HandlesKept ==
  ASSUME NEW h, Sound(h), NEW g, NEW M, NEW k, Does(h, g, {}, M, k),
         NEW r \in Handles, h.ptr[r] \in Nodes, NEW b \in Handles, h.ptr[b] \in Nodes
  PROVE  /\ h.ptr[r] \in Live(g) /\ h.ptr[b] \in Live(g) /\ Exact(g)
         /\ g.ptr[r] = h.ptr[r] /\ g.ptr[b] = h.ptr[b]
<1>1. r \notin {} /\ b \notin {} /\ Exact(h)
  BY DEF Sound
<1>2. g.ptr[r] = h.ptr[r] /\ h.ptr[r] \in Live(g)
  BY <1>1, HandleKept
<1>3. g.ptr[b] = h.ptr[b] /\ h.ptr[b] \in Live(g)
  BY <1>1, HandleKept
<1>4. QED  BY <1>2, <1>3 DEF Does

\* The parameters of r and b are exchanged for others.
LEMMA PairPassed ==
  ASSUME NEW h, Sound(h), NEW r, Mine(h, r), NEW b \in Handles \ {r}, h.ptr[b] \in Nodes,
         Lends(h, b, h.ptr[r]), NEW g, NEW k, Does(h, g, {}, {h.ptr[r], h.ptr[b]}, k),
         \A f \in Live(g) \ Live(h) : g.node[f].Params = <<>>,
         NEW l, Holds(g.node[h.ptr[r]], h.node[h.ptr[r]], l),
         \A i \in DOMAIN l : l[i] \in Live(h) \ {h.ptr[r], h.ptr[b]},
         NEW e, Holds(g.node[h.ptr[b]], h.node[h.ptr[b]], e),
         \A i \in DOMAIN e : e[i] \notin {h.ptr[r], h.ptr[b]}
  PROVE  Passed(h, g, r, b, Values!With(TreeAt(h, h.ptr[r]), TreesAt(h, l)),
                            Values!With(TreeAt(h, h.ptr[b]), TreesAt(g, e)))
<1> DEFINE m == h.ptr[r]
           c == h.ptr[b]
<1>1. /\ m \in Live(h) /\ c \in Live(h) /\ m # c /\ Enclosed(h, {m, c})
      /\ r \in Handles /\ m \in Nodes /\ c \in Nodes /\ Exact(h)
  BY LentApart
<1>2. m \in Live(g) /\ c \in Live(g) /\ Exact(g) /\ g.ptr[r] = m /\ g.ptr[b] = c
  BY <1>1, HandlesKept
<1>3. Leaves(h, g, {}, {m, c})
  <2> DEFINE M == {m, c}
  <2>1. /\ \A i \in DOMAIN g.node[c].Params : g.node[c].Params[i] \notin M
        /\ \A i \in DOMAIN g.node[m].Params : g.node[m].Params[i] # m
    BY DEF Holds
  <2>2. Enclosed(h, M) /\ Does(h, g, {}, M, k) /\ M = {m, c}
    BY <1>1
  <2> HIDE DEF M
  <2>3. Leaves(h, g, {}, M)
    BY <1>1, <2>1, <2>2, PairWritten
  <2>4. QED  BY <2>3 DEF M
<1>4. /\ TreeAt(g, m) = TreeOf(h.node[m], TreesAt(g, l))
      /\ TreeAt(g, c) = TreeOf(h.node[c], TreesAt(g, e))
  BY <1>2, <1>3, HoldsTree DEF Leaves
<1>5. TreesAt(g, l) = TreesAt(h, l)
  <2>1. \A i \in DOMAIN l : l[i] \in (Live(h) \cap Live(g)) \ {m, c}
    <3>1. \A i \in DOMAIN g.node[m].Params : g.node[m].Params[i] \in Live(g)
      BY <1>1, <1>2, ParamsLive
    <3>2. QED  BY <3>1 DEF Holds
  <2>2. QED  BY <1>3, <2>1, TreesSame
<1>6. /\ \A p : TreeOf(h.node[m], p) = Values!With(TreeAt(h, m), p)
      /\ \A p : TreeOf(h.node[c], p) = Values!With(TreeAt(h, c), p)
  BY <1>1, WithNode
<1>7. Spares(h, g, {r} \cup Sharers(h, b))
  <2>1. \A q \in Handles \ ({r} \cup Sharers(h, b)) : h.ptr[q] \notin {m, c}
    BY MineAlone DEF Sharers
  <2>2. {} \subseteq {r} \cup Sharers(h, b)
    OBVIOUS
  <2>3. QED  BY <1>3, <2>1, <2>2, LeavesSpares
<1>8. QED  BY <1>2, <1>3, <1>5, <1>6, <1>7, <1>4 DEF Passed, Leaves

\* SetParamsMove(): b is left without parameters.
LEMMA SetParamsMoveTree ==
  ASSUME NEW h, Sound(h), NEW r, Mine(h, r), NEW b \in Handles \ {r}, h.ptr[b] \in Nodes,
         Lends(h, b, h.ptr[r])
  PROVE  Passed(h, SetParamsMove(h, r, b), r, b,
                Values!With(TreeAt(h, h.ptr[r]), TreeAt(h, h.ptr[b]).params),
                Values!With(TreeAt(h, h.ptr[b]), <<>>))
<1> DEFINE g == SetParamsMove(h, r, b)
           m == h.ptr[r]
           c == h.ptr[b]
           R == Params(h, b)
           k == SetAll(h, r, R)
           u == SetAll(k, b, <<>>)
<1>1. /\ r \in Handles /\ At(h, r) = m /\ At(h, b) = c /\ Exact(h) /\ Sane(h) /\ m # c
      /\ m \in Live(h) /\ c \in Live(h) /\ m \in Nodes
      /\ R \in Seq(Nodes) /\ \A i \in DOMAIN R : R[i] \in Live(h) \ {m, c}
  BY LentApart DEF At
<1>2. Does(h, g, {}, {m, c}, 0) /\ Kept(u, g)
  BY <1>1, SetParamsMoveDoes
<1>3. TreeAt(h, c).params = TreesAt(h, R)
  BY <1>1, WithIs
<1> HIDE DEF g, R, k, u
<1>4. Alters(h, k, {}, {} \cup {m}, {}) /\ Holds(k.node[m], h.node[m], R) /\ m \in Live(k)
  <2>1. Alters(h, h, {}, {}, {}) /\ r \in Handles \ {} /\ m \in Live(h) \ {}
    BY <1>1, Unaltered
  <2>2. /\ Alters(h, k, {}, {} \cup {m}, {}) /\ Holds(k.node[m], h.node[m], R)
    BY <1>1, <2>1, FilledHolds DEF k
  <2>3. QED  BY <1>1, <2>2 DEF Alters
<1>5. Holds(u.node[c], h.node[c], <<>>) /\ Equal(u.node[m], k.node[m])
  <2>1. b \in Handles \ {} /\ c \in Live(h) \ ({} \cup {m}) /\ <<>> \in Seq(Nodes)
    BY <1>1
  <2>2. QED  BY <1>1, <1>4, <2>1, FilledHolds DEF u
<1>6. m \in Live(g) /\ c \in Live(g)
  BY <1>1, <1>2, HandlesKept
<1>7. Equal(g.node[m], u.node[m]) /\ Equal(g.node[c], u.node[c])
  BY <1>2, <1>6, KeptEqual
<1>8. Holds(g.node[m], h.node[m], R) /\ Holds(g.node[c], h.node[c], <<>>)
  BY <1>4, <1>5, <1>7 DEF Equal, Holds
<1>9. \A f \in Live(g) \ Live(h) : g.node[f].Params = <<>>
  BY <1>2, NoneMade
<1>10. Passed(h, g, r, b, Values!With(TreeAt(h, m), TreesAt(h, R)),
                          Values!With(TreeAt(h, c), TreesAt(g, <<>>)))
  <2>1. \A i \in DOMAIN <<>> : <<>>[i] \notin {m, c}
    OBVIOUS
  <2>2. QED  BY <1>1, <1>2, <1>8, <1>9, <2>1, PairPassed
<1>11. TreesAt(g, <<>>) = <<>>
  BY DEF TreesAt
<1>12. QED  BY <1>3, <1>10, <1>11 DEF g

\* No parameter refers to the node of b.
Loose(h, b) ==
  \A n \in Live(h) : \A i \in DOMAIN h.node[n].Params : h.node[n].Params[i] # h.ptr[b]

\* What AddParamsMove() leaves.
LEMMA AddParamsMoveIs ==
  ASSUME NEW h, Sound(h), Free(h) >= 1, NEW r, Mine(h, r), NEW b \in Handles \ {r},
         h.ptr[b] \in Nodes, Loose(h, b)
  PROVE  /\ Does(h, AddParamsMove(h, r, b), {}, {h.ptr[r], h.ptr[b]}, 1)
         /\ Holds(AddParamsMove(h, r, b).node[h.ptr[r]], h.node[h.ptr[r]],
                  Params(h, r) \o Params(h, b))
         /\ Holds(AddParamsMove(h, r, b).node[h.ptr[b]], h.node[h.ptr[b]],
                  [i \in 1..Len(Params(h, b)) |-> Fresh(h)])
         /\ Params(h, b) # <<>> =>
              Equal(AddParamsMove(h, r, b).node[Fresh(h)], WithCount(Nop, Len(Params(h, b))))
         /\ Fresh(h) \in Nodes /\ Fresh(h) \notin Live(h)
<1> DEFINE g == AddParamsMove(h, r, b)
           m == h.ptr[r]
           c == h.ptr[b]
           P == Params(h, r)
           R == Params(h, b)
           f == Fresh(h)
           E == [i \in 1..Len(R) |-> f]
           l == P \o R
           k == SetAll(h, r, l)
           u == SetAll(k, b, E)
           d == WithCount(Nop, Len(R))
<1>1. /\ r \in Handles /\ At(h, r) = m /\ At(h, b) = c /\ Exact(h) /\ Sane(h) /\ m # c
      /\ m \in Live(h) /\ c \in Live(h) /\ m \in Nodes /\ c \in Nodes
      /\ R \in Seq(Nodes) /\ P \in Seq(Nodes) /\ P = h.node[m].Params /\ R = h.node[c].Params
  <2>1. Lends(h, b, m)
    BY DEF Lends, Loose
  <2>2. r \in Handles /\ At(h, r) = m /\ At(h, b) = c
    BY DEF Mine, At
  <2>3. /\ Exact(h) /\ Sane(h) /\ m # c /\ m \in Live(h) /\ c \in Live(h) /\ m \in Nodes
        /\ R \in Seq(Nodes) /\ P \in Seq(Nodes) /\ P = h.node[m].Params /\ R = h.node[c].Params
    <3> HIDE DEF g, k, u, E, l, d, f
    <3>1. Exact(h) /\ Sane(h) /\ m # c /\ m \in Live(h) /\ c \in Live(h) /\ m \in Nodes
      BY <2>1, LentApart
    <3>2. R \in Seq(Nodes) /\ P \in Seq(Nodes)
      BY <2>1, LentApart
    <3>3. P = h.node[m].Params /\ R = h.node[c].Params
      BY <2>1, LentApart
    <3>4. QED  BY <3>1, <3>2, <3>3
  <2>4. QED  BY <2>2, <2>3
<1>2. f \in Nodes /\ f \notin Live(h) /\ h.node[f] = Deleted
  BY FreshIsFree
<1>3. Does(h, g, {}, {m, c}, 1)
  BY <1>1, AddParamsMoveDoes
<1>4. Len(R) \in Nat /\ E \in Seq(Nodes) /\ l \in Seq(Nodes)
  BY <1>1, <1>2, LenProperties, TimesCopies
<1>5. [Nop EXCEPT !.RefCount = Len(R)] = d
  BY <1>4, NopCounted
<1>6. /\ Len(R) = 0 => g = h
      /\ Len(R) # 0 => g = [u EXCEPT !.node[f] = d]
  <2>1. g = IF Len(R) = 0 THEN h ELSE Put(u, f, d)
    BY <1>5, Zenon DEF AddParamsMove, Put
  <2> HIDE DEF g, u, d, f, R
  <2>2. QED  BY <2>1 DEF Put
<1>7. CASE Len(R) = 0
  <2>1. R = <<>>
    BY <1>1, <1>7, EmptySeq
  <2>2. E = <<>>
    BY <1>7
  <2>3. P \o R = P
    <3> HIDE DEF P, R
    <3>1. QED  BY <1>1, <2>1
  <2>4. QED  BY <1>1, <1>2, <1>3, <1>6, <1>7, <2>1, <2>2, <2>3 DEF Holds
<1>8. CASE Len(R) # 0
  <2> HIDE DEF g, k, u, E, l, R, P, d, f
  <2>1. Alters(h, k, {}, {} \cup {m}, {}) /\ Holds(k.node[m], h.node[m], l)
    <3>1. Alters(h, h, {}, {}, {}) /\ r \in Handles \ {} /\ m \in Live(h) \ {}
      BY <1>1, Unaltered
    <3>2. QED  BY <1>4, <3>1, FilledHolds DEF k
  <2>2. m \in Live(k)
    BY <1>1, <2>1 DEF Alters
  <2>3. /\ Holds(u.node[c], h.node[c], E) /\ Equal(u.node[m], k.node[m])
        /\ Alters(h, u, {}, ({} \cup {m}) \cup {c}, {})
    <3>1. b \in Handles \ {} /\ c \in Live(h) \ ({} \cup {m}) /\ m \in Live(k) \ {c}
      BY <1>1, <2>2
    <3>2. QED  BY <1>4, <2>1, <3>1, FilledHolds DEF u
  <2>4. /\ g.node[f] = d /\ g.node[m] = u.node[m] /\ g.node[c] = u.node[c]
    <3>1. u.node = [n \in Nodes |-> u.node[n]]
      BY <2>3 DEF Alters, Sane, Shape
    <3>2. f # m /\ f # c
      BY <1>1, <1>2
    <3>3. g = [u EXCEPT !.node[f] = d] /\ u = [node |-> u.node, ptr |-> u.ptr]
      BY <1>6, <1>8, <2>3 DEF Alters, Sane, Shape
    <3>4. QED  BY <1>1, <1>2, <3>1, <3>2, <3>3
  <2>5. Holds(g.node[m], h.node[m], l) /\ Holds(g.node[c], h.node[c], E) /\ Equal(g.node[f], d)
    BY <2>1, <2>3, <2>4 DEF Holds, Equal
  <2>6. QED  BY <1>2, <1>3, <2>5 DEF g, l, P, R, E, f, d
<1>9. QED  BY <1>7, <1>8

\* AddParamsMove(): b is left with cNop in the place of its parameters.
LEMMA AddParamsMoveTree ==
  ASSUME NEW h, Sound(h), Free(h) >= 1, NEW r, Mine(h, r), NEW b \in Handles \ {r},
         h.ptr[b] \in Nodes, Loose(h, b)
  PROVE  Passed(h, AddParamsMove(h, r, b), r, b,
                Values!With(TreeAt(h, h.ptr[r]),
                            TreeAt(h, h.ptr[r]).params \o TreeAt(h, h.ptr[b]).params),
                Values!With(TreeAt(h, h.ptr[b]),
                            [i \in DOMAIN TreeAt(h, h.ptr[b]).params |-> Values!NopTree]))
<1> DEFINE g == AddParamsMove(h, r, b)
           m == h.ptr[r]
           c == h.ptr[b]
           P == Params(h, r)
           R == Params(h, b)
           f == Fresh(h)
           E == [i \in 1..Len(R) |-> f]
           l == P \o R
<1>1. /\ r \in Handles /\ m # c /\ m \in Live(h) /\ c \in Live(h) /\ m \in Nodes /\ c \in Nodes
      /\ Lends(h, b, m) /\ P \in Seq(Nodes) /\ R \in Seq(Nodes)
      /\ \A i \in DOMAIN R : R[i] \in Live(h) \ {m, c}
      /\ \A i \in DOMAIN P : P[i] \in Live(h) \ {m} /\ P = h.node[m].Params
  <2>1. Lends(h, b, m)
    BY DEF Lends, Loose
  <2>2. QED  BY <2>1, LentApart
<1>2. \A i \in DOMAIN l : l[i] \in Live(h) \ {m, c}
  <2>1. \A i \in DOMAIN P : P[i] \in Live(h) \ {m, c}
    BY <1>1 DEF Loose
  <2>2. Len(P) \in Nat /\ DOMAIN P = 1..Len(P) /\ Len(R) \in Nat /\ DOMAIN R = 1..Len(R)
    BY <1>1, LenProperties
  <2>3. QED  BY <1>1, <2>1, <2>2
<1>3. /\ Does(h, g, {}, {m, c}, 1) /\ Holds(g.node[m], h.node[m], l)
      /\ Holds(g.node[c], h.node[c], E)
      /\ R # <<>> => Equal(g.node[f], WithCount(Nop, Len(R)))
      /\ f \in Nodes /\ f \notin Live(h)
  BY AddParamsMoveIs
<1>4. /\ TreesAt(h, l) = TreesAt(h, P) \o TreesAt(h, R)
      /\ TreeAt(h, m).params = TreesAt(h, P) /\ TreeAt(h, c).params = TreesAt(h, R)
      /\ DOMAIN TreesAt(h, R) = DOMAIN R
  BY <1>1, TreesOfLists, WithIs
<1>5. Len(R) \in Nat /\ DOMAIN R = 1..Len(R) /\ DOMAIN E = 1..Len(R)
      /\ \A i \in DOMAIN E : E[i] = f
  BY <1>1, LenProperties
<1> HIDE DEF g, P, R, f, E, l
<1>6. R # <<>> => f \in Live(g) /\ g.node[f].Params = <<>>
  <2> SUFFICES ASSUME R # <<>> PROVE f \in Live(g) /\ g.node[f].Params = <<>>
    OBVIOUS
  <2>1. 1 \in DOMAIN E
    BY <1>1, <1>5
  <2>2. g.node[c].Params[1] = f /\ 1 \in DOMAIN g.node[c].Params
    BY <1>3, <1>5, <2>1 DEF Holds
  <2>3. f \in Live(g)
    BY <1>1, <1>3, <2>2, ParamsLive DEF Does
  <2>4. QED  BY <1>3, <2>3 DEF Equal, Holds, WithCount, Nop, Data
<1>7. ASSUME NEW x \in Live(g) \ Live(h)
      PROVE  g.node[x].Params = <<>>
  <2>1. CASE R = <<>>
    <3>1. E = <<>> /\ l = P
      BY <1>1, <1>5, <2>1 DEF l
    <3>2. QED  BY <1>7, <2>1, NothingDone DEF g, AddParamsMove, R
  <2>2. CASE R # <<>>
    BY <1>3, <1>6, <1>7, <2>2 DEF Does, Born
  <2>3. QED  BY <2>1, <2>2
<1>8. Passed(h, g, r, b, Values!With(TreeAt(h, m), TreesAt(h, l)),
                         Values!With(TreeAt(h, c), TreesAt(g, E)))
  <2>1. \A i \in DOMAIN E : E[i] \notin {m, c}
    BY <1>1, <1>3, <1>5
  <2>2. QED  BY <1>1, <1>2, <1>3, <1>7, <2>1, PairPassed
<1>9. TreesAt(g, E) = [i \in DOMAIN TreesAt(h, R) |-> Values!NopTree]
  <2>1. \A i \in DOMAIN E : TreeAt(g, E[i]) = Values!NopTree
    <3> SUFFICES ASSUME NEW i \in DOMAIN E PROVE TreeAt(g, f) = Values!NopTree
      BY <1>5
    <3>1. R # <<>>
      BY <1>5
    <3>2. Sound(g)
      BY <1>8 DEF Passed
    <3>3. QED  BY <1>3, <1>6, <3>1, <3>2, NopTreeIs
  <2>2. QED  BY <1>4, <1>5, <2>1 DEF TreesAt
<1>10. QED  BY <1>4, <1>8, <1>9 DEF g

\* Handles are moved; the node of r stays r's own, with its parameters.
LEMMA MovesKeep ==
  ASSUME NEW h, Sound(h), NEW r, Mine(h, r), NEW g, NEW Q, Does(h, g, Q, {}, 0), r \notin Q,
         \A q \in Q \cap Handles : g.ptr[q] # h.ptr[r]
  PROVE  /\ Mine(g, r) /\ Leaves(h, g, Q, {}) /\ Sound(g)
         /\ g.ptr[r] = h.ptr[r] /\ Params(g, r) = Params(h, r)
         /\ TreeAt(g, h.ptr[r]) = TreeAt(h, h.ptr[r])
<1>1. Leaves(h, g, Q, {}) /\ Live(g) \subseteq Live(h)
  BY HandlesMove
<1>2. Mine(g, r)
  <2>1. \A n \in Live(g) : n \notin Live(h) \/ n \in {} =>
          \A i \in DOMAIN g.node[n].Params : g.node[n].Params[i] # h.ptr[r]
    BY <1>1
  <2>2. QED  BY <2>1, MineKept
<1>3. r \in Handles \ Q /\ h.ptr[r] \in Nodes \ {} /\ Exact(h)
  BY DEF Mine, Sound
<1>4. g.ptr[r] = h.ptr[r] /\ g.node[h.ptr[r]].Params = h.node[h.ptr[r]].Params
  BY <1>3, HandleKept
<1>5. TreeAt(g, h.ptr[r]) = TreeAt(h, h.ptr[r])
  BY <1>1, <1>3, <1>4 DEF Leaves
<1>6. Params(g, r) = Params(h, r)
  BY <1>3, <1>4 DEF Params, data, At
<1>7. QED  BY <1>1, <1>2, <1>4, <1>5, <1>6 DEF Leaves

\* A variable x is used while the node of r is written.
LEMMA WroteBetween ==
  ASSUME NEW h, NEW u, NEW w, NEW g, NEW r \in Handles, h.ptr[r] \in Nodes,
         NEW x \in Handles \ {r}, Leaves(h, u, {x}, {}),
         NEW Q, NEW t, Wrote(u, w, Q, r, t), Leaves(w, g, {x}, {})
  PROVE  Wrote(h, g, Q \cup {x}, r, t)
<1>1. Spares(h, u, {x}) /\ Spares(w, g, {x})
  BY DEF Leaves, Spares
<1>2. Spares(h, g, (Q \cup {x}) \cup {r})
  BY <1>1 DEF Wrote, Spares
<1>3. u.ptr[r] = h.ptr[r] /\ w.ptr[r] = h.ptr[r] /\ g.ptr[r] = h.ptr[r]
  BY <1>1 DEF Wrote, Spares
<1>4. TreeAt(g, g.ptr[r]) = t
  BY <1>1, <1>3 DEF Wrote, Spares
<1>5. QED  BY <1>2, <1>3, <1>4 DEF Wrote, Leaves

\* Places in the nodes are not handles.
LEMMA WroteHandles ==
  ASSUME NEW h, NEW g, NEW Q, NEW r, NEW t, Wrote(h, g, Q, r, t),
         NEW R, Q \cap Handles \subseteq R
  PROVE  Wrote(h, g, R, r, t)
BY DEF Wrote, Spares

\* A place in the node of r is given the node n.
LEMMA SlotTree ==
  ASSUME NEW h, Sound(h), NEW r, Mine(h, r), NEW i \in DOMAIN Params(h, r),
         NEW n \in Live(h) \ {h.ptr[r]}, NEW g, NEW Q, r \notin Q, Does(h, g, Q, {h.ptr[r]}, 0),
         SlotFilled(h, g, Param(h, r, i), n)
  PROVE  /\ Wrote(h, g, Q, r,
                  Values!With(TreeAt(h, h.ptr[r]),
                              [TreeAt(h, h.ptr[r]).params EXCEPT ![i] = TreeAt(h, n)]))
         /\ Leaves(h, g, Q, {h.ptr[r]})
<1> DEFINE m == h.ptr[r]
           P == Params(h, r)
           l == [P EXCEPT ![i] = n]
<1>1. /\ r \in Handles /\ At(h, r) = m /\ m \in Nodes /\ m \in Live(h) /\ P \in Seq(Nodes)
      /\ P = h.node[m].Params
  BY HandleLive DEF Mine
<1>2. \A j \in DOMAIN P : P[j] \in Live(h) \ {m}
  BY <1>1, MineApart
<1>3. Param(h, r, i) \notin Handles /\ Param(h, r, i) = <<m, i>>
  <2>1. Exact(h)
    BY DEF Sound
  <2>2. QED  BY <1>1, <2>1, HandleAnchored DEF Param
<1>4. Holds(g.node[m], h.node[m], l)
  BY <1>1, <1>3 DEF SlotFilled, Holds
<1>5. \A j \in DOMAIN l : l[j] \in Live(h) \ {m}
  BY <1>2
<1>6. TreesAt(h, l) = [TreesAt(h, P) EXCEPT ![i] = TreeAt(h, n)] /\ TreeAt(h, m).params = TreesAt(h, P)
  <2>1. n \in Nodes
    BY DEF Live
  <2>2. i \in DOMAIN P
    OBVIOUS
  <2>3. TreeAt(h, m).params = TreesAt(h, P)
    BY <1>1, WithIs
  <2> HIDE DEF P
  <2>4. TreesAt(h, [P EXCEPT ![i] = n]) = [TreesAt(h, P) EXCEPT ![i] = TreeAt(h, n)]
    <3>1. P \in Seq(Nodes)
      BY <1>1
    <3>2. \A j \in DOMAIN P : \A x \in Nodes :
            TreesAt(h, [P EXCEPT ![j] = x]) = [TreesAt(h, P) EXCEPT ![j] = TreeAt(h, x)]
      BY ONLY <3>1, TreesOfLists
    <3>3. QED  BY <2>1, <2>2, <3>2
  <2>5. QED  BY <2>3, <2>4
<1> HIDE DEF l, P
<1>7. Wrote(h, g, Q, r, TreeOf(h.node[m], TreesAt(h, l))) /\ Leaves(h, g, Q, {m})
  <2>1. \A f \in Live(g) \ Live(h) : g.node[f].Params = <<>>
    BY NoneMade
  <2>2. QED  BY <1>4, <1>5, <2>1, OneWritten
<1>8. TreeOf(h.node[m], TreesAt(h, l)) = Values!With(TreeAt(h, m), TreesAt(h, l))
  BY <1>1, WithNode
<1>9. QED  BY <1>6, <1>7, <1>8

\* slot_holder keeps the parameter i of r.
LEMMA HoldTree ==
  ASSUME NEW h, Sound(h), NEW r, Mine(h, r), r # holder, NEW i \in DOMAIN Params(h, r)
  PROVE  /\ Mine(HoldSlot(h, r, i), r) /\ Leaves(h, HoldSlot(h, r, i), {holder}, {})
         /\ Does(h, HoldSlot(h, r, i), {holder}, {}, 0) /\ Sound(HoldSlot(h, r, i))
         /\ HoldSlot(h, r, i).ptr[r] = h.ptr[r] /\ HoldSlot(h, r, i).ptr[holder] = Params(h, r)[i]
         /\ Params(HoldSlot(h, r, i), r) = Params(h, r)
         /\ TreeAt(HoldSlot(h, r, i), h.ptr[r]) = TreeAt(h, h.ptr[r])
<1> DEFINE g == HoldSlot(h, r, i)
           n == Params(h, r)[i]
<1>1. n \in Live(h) \ {h.ptr[r]} /\ r \in Handles /\ holder \in Handles
  BY MineApart, LocalsDistinct DEF Mine, Locals
<1>2. Does(h, g, {holder}, {}, 0) /\ g.ptr[holder] = n
  BY <1>1, ChangeToTree DEF HoldSlot
<1> HIDE DEF g, n
<1>3. r \notin {holder} /\ \A q \in {holder} \cap Handles : g.ptr[q] # h.ptr[r]
  BY <1>1, <1>2
<1>4. /\ Mine(g, r) /\ Leaves(h, g, {holder}, {}) /\ Sound(g)
      /\ g.ptr[r] = h.ptr[r] /\ Params(g, r) = Params(h, r)
      /\ TreeAt(g, h.ptr[r]) = TreeAt(h, h.ptr[r])
  BY <1>2, <1>3, MovesKeep
<1>5. QED  BY <1>2, <1>4 DEF g, n

\* SetParam().
LEMMA SetParamTree ==
  ASSUME NEW h, Sound(h), NEW r, Mine(h, r), r # holder, NEW i \in DOMAIN Params(h, r),
         NEW b, NEW q, Anchored(h, b, q), q # holder, b # r, At(h, b) \in Nodes
  PROVE  Wrote(h, SetParam(h, r, i, b), {holder}, r,
               Values!With(TreeAt(h, h.ptr[r]),
                           [TreeAt(h, h.ptr[r]).params EXCEPT ![i] = TreeAt(h, At(h, b))]))
<1> DEFINE s == Param(h, r, i)
           m == h.ptr[r]
           n == At(h, b)
           u == HoldSlot(h, r, i)
           w == ChangeTo(u, s, n)
           g == Drop(w, holder)
<1>1. SetParam(h, r, i, b) = g
  BY DEF SetParam
<1>2. /\ r \in Handles /\ m \in Nodes /\ At(h, r) = m /\ Exact(h) /\ holder \in Handles
      /\ n \in Live(h) \ {m}
  BY HandleLive, LocalsDistinct, MineApart DEF Mine, Locals, Anchored
<1>3. /\ Mine(u, r) /\ Leaves(h, u, {holder}, {}) /\ Does(h, u, {holder}, {}, 0) /\ Sound(u)
      /\ u.ptr[r] = m /\ Params(u, r) = Params(h, r) /\ TreeAt(u, m) = TreeAt(h, m)
  BY HoldTree
<1>4. s = Param(u, r, i) /\ Exact(u) /\ i \in DOMAIN Params(u, r)
  BY <1>2, <1>3 DEF Param, At, Sound
<1> HIDE DEF n, g, w, u, s, m
<1>5. n \in Live(u)
  <2>1. Done(h, u, {holder}, {}, 0)
    BY <1>2, <1>3, DoesDone
  <2>2. q \notin {holder} /\ Inside(b) \cap {} = {}
    OBVIOUS
  <2>3. Anchored(u, b, q) /\ At(u, b) = n
    BY ONLY <1>2, Anchored(h, b, q), <2>1, <2>2, AnchoredDone DEF n
  <2>4. QED  BY <1>2, <1>4, <2>3, AnchoredIs, Zenon DEF Live
<1>6. TreeAt(u, n) = TreeAt(h, n)
  BY <1>2, <1>3, <1>5 DEF Leaves
<1>7. Rooted(u, s) /\ Inside(s) = {m} /\ s \notin Handles
  BY <1>2, <1>3, <1>4, HandleAnchored DEF At
<1>8. Does(u, w, {s}, {m}, 0) /\ SlotFilled(u, w, s, n)
  BY <1>4, <1>5, <1>7, ChangeToDoes DEF w
<1>9. Wrote(u, w, {s}, r, Values!With(TreeAt(h, m), [TreeAt(h, m).params EXCEPT ![i] = TreeAt(h, n)]))
  <2>1. r \notin {s} /\ n \in Live(u) \ {u.ptr[r]}
    BY <1>2, <1>3, <1>5, <1>7
  <2>2. Wrote(u, w, {s}, r, Values!With(TreeAt(u, u.ptr[r]),
                                        [TreeAt(u, u.ptr[r]).params EXCEPT ![i] = TreeAt(u, n)]))
    <3>1. SlotFilled(u, w, Param(u, r, i), n) /\ Does(u, w, {s}, {u.ptr[r]}, 0)
      BY <1>3, <1>4, <1>8
    <3>2. QED  BY <1>3, <1>4, <2>1, <3>1, SlotTree
  <2>3. QED  BY <1>3, <1>6, <2>2
<1>10. Leaves(w, g, {holder}, {})
  BY <1>2, <1>9, DropTree DEF Wrote, g
<1>11. Wrote(h, g, {s} \cup {holder}, r,
             Values!With(TreeAt(h, m), [TreeAt(h, m).params EXCEPT ![i] = TreeAt(h, n)]))
  <2>1. holder \in Handles \ {r} /\ h.ptr[r] \in Nodes
    BY <1>2 DEF m
  <2>2. QED  BY <1>2, <1>3, <1>9, <1>10, <2>1, WroteBetween
<1>12. ({s} \cup {holder}) \cap Handles \subseteq {holder}
  BY <1>7
<1>13. QED  BY <1>1, <1>11, <1>12, WroteHandles DEF n, m

\* SetParamMove(), of a handle: b gets the old parameter.
LEMMA SetParamMoveTree ==
  ASSUME NEW h, Sound(h), NEW r, Mine(h, r), r # holder, NEW i \in DOMAIN Params(h, r),
         NEW b \in Handles \ {r, holder}, h.ptr[b] \in Nodes
  PROVE  /\ Wrote(h, SetParamMove(h, r, i, b), {holder, b}, r,
                  Values!With(TreeAt(h, h.ptr[r]),
                              [TreeAt(h, h.ptr[r]).params EXCEPT ![i] = TreeAt(h, h.ptr[b])]))
         /\ TreeAt(SetParamMove(h, r, i, b), SetParamMove(h, r, i, b).ptr[b])
              = TreeAt(h, h.ptr[r]).params[i]
<1> DEFINE s == Param(h, r, i)
           m == h.ptr[r]
           n == h.ptr[b]
           c == Params(h, r)[i]
           u == HoldSlot(h, r, i)
           w == Swap(u, s, b)
           g == Drop(w, holder)
<1>1. SetParamMove(h, r, i, b) = g
  BY DEF SetParamMove
<1>2. /\ r \in Handles /\ m \in Nodes /\ At(h, r) = m /\ Exact(h) /\ holder \in Handles
      /\ n \in Live(h) \ {m} /\ c \in Live(h) \ {m} /\ b \notin {holder}
  BY HandleLive, LocalsDistinct, MineApart DEF Mine, Locals, Places, At
<1>3. /\ Mine(u, r) /\ Leaves(h, u, {holder}, {}) /\ Does(h, u, {holder}, {}, 0) /\ Sound(u)
      /\ u.ptr[r] = m /\ Params(u, r) = Params(h, r) /\ TreeAt(u, m) = TreeAt(h, m)
  BY HoldTree
<1>4. s = Param(u, r, i) /\ Exact(u) /\ i \in DOMAIN Params(u, r) /\ Params(u, r)[i] = c
  BY <1>2, <1>3 DEF Param, At, Sound
<1>5. TreeAt(h, m).params[i] = TreeAt(h, c)
  <2>1. TreeAt(h, m).params = TreesAt(h, Params(h, r))
    BY <1>2, WithIs
  <2>2. QED  BY <2>1 DEF TreesAt
<1> HIDE DEF n, g, w, u, s, m, c
<1>6. u.ptr[b] = n /\ n \in Live(u) /\ TreeAt(u, n) = TreeAt(h, n)
  <2>1. u.ptr[b] = n
    BY <1>2, <1>3 DEF Does, n
  <2>2. n \in Live(u)
    BY <1>2, <1>3, <2>1, HandleLive DEF Live
  <2>3. QED  BY <1>2, <1>3, <2>1, <2>2 DEF Leaves
<1>7. /\ Rooted(u, s) /\ Inside(s) = {m} /\ s \notin Handles /\ s \in Places(u)
      /\ At(u, s) = c /\ c \in Live(u) /\ c \in Nodes
  BY <1>2, <1>3, <1>4, HandleAnchored DEF At, Rooted
<1>8. TreeAt(u, c) = TreeAt(h, c)
  BY <1>2, <1>3, <1>7 DEF Leaves
<1>9. /\ Does(u, w, {s, b}, {m}, 0) /\ SlotFilled(u, w, s, n) /\ w.ptr[b] = c
  <2>1. b \in Places(u) /\ At(u, b) = n /\ n \in Nodes /\ Inside(b) = {}
    BY <1>2, <1>6 DEF Places, At, Inside, Live
  <2>2. Swapped(u, w, s, b)
    BY <1>4, <1>7, <2>1, SwapDoes DEF w
  <2>3. Inside(s) \cup Inside(b) = {m} /\ Inside(s) \cap Inside(b) = {}
    BY <1>7, <2>1
  <2>4. At(w, b) = c
    BY <1>7, <2>2 DEF Swapped
  <2>5. QED  BY <2>1, <2>2, <2>3, <2>4 DEF Swapped, At
<1> DEFINE t == Values!With(TreeAt(h, m), [TreeAt(h, m).params EXCEPT ![i] = TreeAt(h, n)])
<1>10. Wrote(u, w, {s, b}, r, t) /\ Leaves(u, w, {s, b}, {m})
  <2>1. r \notin {s, b} /\ n \in Live(u) \ {u.ptr[r]}
    BY <1>2, <1>3, <1>6, <1>7
  <2>2. SlotFilled(u, w, Param(u, r, i), n) /\ Does(u, w, {s, b}, {u.ptr[r]}, 0)
    BY <1>3, <1>4, <1>9
  <2>3. /\ Wrote(u, w, {s, b}, r, Values!With(TreeAt(u, u.ptr[r]),
                                        [TreeAt(u, u.ptr[r]).params EXCEPT ![i] = TreeAt(u, n)]))
        /\ Leaves(u, w, {s, b}, {u.ptr[r]})
    BY <1>3, <1>4, <2>1, <2>2, SlotTree
  <2>4. QED  BY <1>3, <1>6, <2>3
<1> HIDE DEF t
<1>11. c \in Live(w) /\ TreeAt(w, c) = TreeAt(h, c)
  <2>1. c \in Live(w)
    BY <1>7, <1>9, <1>10, HandleLive DEF Wrote
  <2>2. QED  BY <1>2, <1>7, <1>8, <1>10, <2>1 DEF Leaves
<1>12. Leaves(w, g, {holder}, {})
  BY <1>2, <1>10, DropTree DEF Wrote, g
<1>13. Wrote(h, g, {s, b} \cup {holder}, r, t)
  <2>1. holder \in Handles \ {r} /\ h.ptr[r] \in Nodes
    BY <1>2 DEF m
  <2>2. QED  BY <1>2, <1>3, <1>10, <1>12, <2>1, WroteBetween
<1>14. TreeAt(g, g.ptr[b]) = TreeAt(h, c)
  BY <1>2, <1>7, <1>9, <1>11, <1>12 DEF Leaves
<1>15. ({s, b} \cup {holder}) \cap Handles \subseteq {holder, b}
  BY <1>7
<1>16. Wrote(h, g, {holder, b}, r, t)
  BY <1>13, <1>15, WroteHandles
<1>17. QED  BY <1>1, <1>5, <1>14, <1>16 DEF t, n, m

(***************************************************************************)
(* Functions that call others.                                             *)
(***************************************************************************)

\* Become(): a handle is given the node of another place.
LEMMA BecomeTree ==
  ASSUME NEW h, Sound(h), Free(h) >= 1, NEW s \in Handles \ {tmp}, h.ptr[s] \in Nodes,
         NEW b, At(h, b) \in Live(h)
  PROVE  /\ Sound(Become(h, s, b)) /\ Spares(h, Become(h, s, b), {s, tmp})
         /\ Become(h, s, b).ptr[s] = At(h, b)
         /\ TreeAt(Become(h, s, b), At(h, b)) = TreeAt(h, At(h, b))
<1> DEFINE n == At(h, b)
           u == ChangeTo(h, tmp, n)
           w == CopyOnWrite(u, s)
           x == Swap(w, s, tmp)
           y == Drop(x, tmp)
           g == Become(h, s, b)
<1>1. CASE At(h, s) = n
  <2>1. g = h /\ h.ptr[s] = n
    BY <1>1 DEF Become, At
  <2>2. QED  BY <2>1 DEF Spares
<1>2. CASE At(h, s) # n
  <2>1. g = y /\ tmp \in Handles /\ n \in Live(h) /\ n \in Nodes
    BY <1>2, LocalsDistinct DEF Become, Locals, Live
  <2> HIDE DEF y, x, w, u, n
  <2>2. /\ Leaves(h, u, {tmp}, {}) /\ Does(h, u, {tmp}, {}, 0) /\ u.ptr[tmp] = n
        /\ TreeAt(u, n) = TreeAt(h, n)
    BY <2>1, ChangeToTree DEF u
  <2>3. Sound(u) /\ Free(u) >= 1 /\ u.ptr[s] = h.ptr[s]
    BY <2>2, RoomKept DEF Leaves
  <2>4. Leaves(u, w, {s}, {}) /\ w.ptr[s] \in Live(w)
    BY <2>3, OwnTree DEF w
  <2>5. Sound(w) /\ w.ptr[tmp] = n /\ TreeAt(w, n) = TreeAt(h, n) /\ w.ptr[s] \in Nodes
    BY <2>1, <2>2, <2>4 DEF Leaves, Live
  <2>6. Leaves(w, x, {s, tmp}, {}) /\ x.ptr[s] = n /\ TreeAt(x, n) = TreeAt(w, n)
    BY <2>1, <2>5, SwapTree DEF x
  <2>7. Leaves(x, y, {tmp}, {})
    BY <2>1, <2>6, DropTree DEF y, Leaves
  <2>8. y.ptr[s] = n /\ TreeAt(y, n) = TreeAt(h, n) /\ Sound(y)
    BY <2>1, <2>5, <2>6, <2>7 DEF Leaves
  <2>9. Spares(h, y, {s, tmp})
    BY <2>2, <2>4, <2>6, <2>7 DEF Leaves, Spares
  <2>10. QED  BY <2>1, <2>8, <2>9 DEF n
<1>3. QED  BY <1>1, <1>2

\* Only parameter i of m refers to the node of b.
OnlyAt(h, b, m, i) ==
  \A n \in Live(h) : \A j \in DOMAIN h.node[n].Params :
    h.node[n].Params[j] = h.ptr[b] => n = m /\ j = i

\* GetUniqueRef(): tmp gets the tree of a parameter of r, in a node that only the
\* parameter may share.
LEMMA GetUniqueRefTree ==
  ASSUME NEW h, Sound(h), Free(h) >= 1, NEW r, Mine(h, r), r # tmp, NEW i \in DOMAIN Params(h, r)
  PROVE  /\ Sound(GetUniqueRef(h, Param(h, r, i)))
         /\ Spares(h, GetUniqueRef(h, Param(h, r, i)), {tmp})
         /\ Mine(GetUniqueRef(h, Param(h, r, i)), r)
         /\ GetUniqueRef(h, Param(h, r, i)).ptr[r] = h.ptr[r]
         /\ Params(GetUniqueRef(h, Param(h, r, i)), r) = Params(h, r)
         /\ GetUniqueRef(h, Param(h, r, i)).ptr[tmp] \in Nodes
         /\ Unshared(GetUniqueRef(h, Param(h, r, i)), tmp)
         /\ OnlyAt(GetUniqueRef(h, Param(h, r, i)), tmp, h.ptr[r], i)
         /\ TreeAt(GetUniqueRef(h, Param(h, r, i)), GetUniqueRef(h, Param(h, r, i)).ptr[tmp])
              = TreeAt(h, h.ptr[r]).params[i]
<1> DEFINE s == Param(h, r, i)
           m == h.ptr[r]
           c == Params(h, r)[i]
           u == ChangeTo(h, tmp, c)
           g == GetUniqueRef(h, s)
<1>1. /\ r \in Handles /\ m \in Nodes /\ At(h, r) = m /\ Exact(h) /\ tmp \in Handles
      /\ c \in Live(h) \ {m} /\ At(h, s) = c /\ c \in Nodes /\ s \notin Handles
      /\ Rooted(h, s) /\ s = <<m, i>> /\ s \in Places(h)
  <2>1. r \in Handles /\ m \in Nodes /\ At(h, r) = m /\ Exact(h) /\ tmp \in Handles
        /\ c \in Live(h) \ {m}
    BY HandleLive, LocalsDistinct, MineApart DEF Mine, Locals
  <2>2. At(h, s) = c /\ c \in Nodes /\ s \notin Handles /\ Rooted(h, s)
    BY <2>1, HandleAnchored
  <2>3. QED  BY <2>1, <2>2 DEF Param, Rooted
<1>2. TreeAt(h, m).params[i] = TreeAt(h, c)
  <2>1. TreeAt(h, m).params = TreesAt(h, Params(h, r))
    BY <1>1, WithIs
  <2>2. QED  BY <2>1 DEF TreesAt
<1>3. g = IF data(h, s).RefCount > 1 THEN Clone(u, tmp) ELSE u
  BY <1>1 DEF GetUniqueRef
<1> HIDE DEF g, u, s, m
<1>4. /\ Does(h, u, {tmp}, {}, 0) /\ u.ptr[tmp] = c /\ TreeAt(u, c) = TreeAt(h, c)
      /\ Leaves(h, u, {tmp}, {})
  BY <1>1, ChangeToTree DEF u
<1>5. /\ Mine(u, r) /\ Sound(u) /\ u.ptr[r] = m /\ Params(u, r) = Params(h, r)
  <2>1. r \notin {tmp} /\ \A q \in {tmp} \cap Handles : u.ptr[q] # h.ptr[r]
    BY <1>1, <1>4 DEF m
  <2>2. QED  BY <1>4, <2>1, MovesKeep DEF m
<1>6. Spares(h, u, {tmp})
  BY <1>4 DEF Leaves, Spares
<1>7. CASE ~(data(h, s).RefCount > 1)
  <2>1. g = u
    BY <1>3, <1>7
  <2>2. Unshared(h, s) /\ Private(h, s)
    BY <1>1, <1>7, OneClaim
  <2>3. Unshared(u, tmp)
    <3>1. \A q \in Handles \ {tmp} : u.ptr[q] # c
      BY <1>1, <1>4, <2>2 DEF Unshared, Does
    <3>2. QED  BY <1>1, <1>4, <3>1 DEF Unshared, At
  <2>4. OnlyAt(u, tmp, m, i)
    <3>1. ASSUME NEW n \in Live(u), NEW j \in DOMAIN u.node[n].Params, u.node[n].Params[j] = c
          PROVE  n = m /\ j = i
      <4>1. n \in Live(h) /\ u.node[n].Params = h.node[n].Params /\ n \in Nodes
        BY <1>4 DEF Does, Born, Live
      <4>2. <<n, j>> \in Slots(h) /\ At(h, <<n, j>>) = c
        <5>1. Shape(h) /\ j \in DOMAIN h.node[n].Params
          BY <1>1, <4>1, ExactIs
        <5>2. QED  BY <3>1, <4>1, <5>1, PlacesTyped
      <4>3. <<n, j>> = s
        BY <1>1, <2>2, <4>2 DEF Private
      <4>4. QED  BY <1>1, <4>3
    <3>2. QED  BY <1>4, <3>1 DEF OnlyAt
  <2>5. QED  BY <1>1, <1>2, <1>4, <1>5, <1>6, <2>1, <2>3, <2>4 DEF g, s, m
<1>8. CASE data(h, s).RefCount > 1
  <2>1. g = Clone(u, tmp)
    BY <1>3, <1>8
  <2>2. Copied(u, g, tmp)
    <3>1. Exact(u) /\ Rooted(u, tmp) /\ At(u, tmp) \in Nodes /\ Free(u) >= 1
      BY <1>1, <1>4, <1>5, HandleLive, RoomKept
    <3>2. QED  BY <2>1, <3>1, CloneDoes
  <2>3. Leaves(u, g, {tmp}, {}) /\ g.ptr[tmp] \in Live(g) /\ TreeAt(g, g.ptr[tmp]) = TreeAt(u, c)
    BY <1>1, <1>4, <1>5, <2>2, CopiedTree
  <2>4. Unshared(g, tmp) /\ Private(g, tmp) /\ Does(u, g, {tmp}, {}, 1) /\ At(g, tmp) = g.ptr[tmp]
    BY <1>1, <2>2 DEF Copied, Inside, At
  <2>5. Sound(g) /\ g.ptr[r] = m /\ r \notin {tmp}
    BY <1>1, <1>5, <2>3 DEF Leaves
  <2>6. Mine(g, r)
    <3>1. g.ptr[tmp] # m
      BY <1>1, <2>4, <2>5 DEF Unshared
    <3>2. ASSUME NEW n \in Live(g), n \notin Live(u), NEW j \in DOMAIN g.node[n].Params
          PROVE  g.node[n].Params[j] # m
      <4>1. g.ptr[tmp] \notin Live(u)
        BY <2>2, <2>4, <3>2 DEF Copied
      <4>2. n = g.ptr[tmp]
        BY <2>3, <2>4, <3>2, <4>1 DEF Does, Born
      <4>3. g.node[n].Params = Params(u, tmp)
        BY <2>2, <2>4, <4>2 DEF Copied, Params, data
      <4>4. \A k \in DOMAIN Params(u, tmp) : Params(u, tmp)[k] # m
        BY <1>1, <1>4, <1>5, MineApart
      <4>5. QED  BY <3>2, <4>3, <4>4
    <3>3. \A n \in Live(g) : n \notin Live(u) \/ n \in {} =>
            \A j \in DOMAIN g.node[n].Params : g.node[n].Params[j] # u.ptr[r]
      BY <1>5, <3>2
    <3>4. \A q \in {tmp} \cap Handles : g.ptr[q] # u.ptr[r]
      BY <1>5, <3>1
    <3>5. QED  BY <1>5, <2>4, <2>5, <3>3, <3>4, MineKept
  <2>7. OnlyAt(g, tmp, m, i)
    <3>1. ASSUME NEW n \in Live(g), NEW j \in DOMAIN g.node[n].Params
          PROVE  g.node[n].Params[j] # g.ptr[tmp]
      <4>1. Shape(g) /\ n \in Nodes
        BY <2>5, ExactIs DEF Sound, Live
      <4>2. <<n, j>> \in Slots(g) /\ At(g, <<n, j>>) = g.node[n].Params[j] /\ <<n, j>> \notin Handles
        BY <4>1, PlacesTyped
      <4>3. QED  BY <1>1, <2>4, <4>2 DEF Private
    <3>2. QED  BY <3>1 DEF OnlyAt
  <2>8. Params(g, r) = Params(u, r)
    <3>1. r \in Handles /\ r \notin {tmp} /\ u.ptr[r] \in Nodes /\ u.ptr[r] \notin {} /\ Exact(u)
      BY <1>1, <1>5 DEF Sound
    <3>2. g.node[u.ptr[r]].Params = u.node[u.ptr[r]].Params
      BY <2>4, <3>1, HandleKept
    <3>3. QED  BY <1>1, <1>5, <2>5, <3>2 DEF Params, data, At
  <2>9. Spares(h, g, {tmp})
    BY <1>6, <2>3 DEF Leaves, Spares
  <2>10. g.ptr[tmp] \in Nodes
    BY <2>3 DEF Live
  <2>11. QED  BY <1>2, <1>4, <1>5, <2>3, <2>4, <2>5, <2>6, <2>7, <2>8, <2>9, <2>10 DEF g, s, m
<1>9. QED  BY <1>7, <1>8

\* What is left when one is removed.
LEMMA RemovedFrom ==
  ASSUME NEW S, NEW l \in Seq(S), NEW i \in DOMAIN l, NEW T,
         \A j \in DOMAIN l \ {i} : l[j] \in T
  PROVE  RemoveAt(l, i) \in Seq(T)
<1> DEFINE u == SubSeq(l, 1, i - 1)
           w == SubSeq(l, i + 1, Len(l))
<1>1. Len(l) \in Nat /\ DOMAIN l = 1..Len(l)
  BY LenProperties
<1>2. u \in Seq(T) /\ w \in Seq(T)
  <2>1. \A j \in 1..(i - 1) : l[j] \in T
    BY <1>1
  <2>2. \A j \in (i + 1)..Len(l) : l[j] \in T
    BY <1>1
  <2>3. i \in Int /\ i - 1 \in Int /\ i + 1 \in Int /\ Len(l) \in Int /\ 1 \in Int
    BY <1>1
  <2>4. QED  BY <2>1, <2>2, <2>3, SubSeqProperties
<1>3. RemoveAt(l, i) = u \o w
  BY DEF RemoveAt
<1> HIDE DEF u, w
<1>4. QED  BY <1>2, <1>3, ConcatProperties

\* The parameters of tmp take the place of all.
LEMMA AdoptTree ==
  ASSUME NEW h, Sound(h), NEW r, Mine(h, r), r # tmp, NEW i, h.ptr[tmp] \in Nodes,
         Unshared(h, tmp), OnlyAt(h, tmp, h.ptr[r], i)
  PROVE  Wrote(h, Drop(SetParamsMove(h, r, tmp), tmp), {tmp}, r,
               Values!With(TreeAt(h, h.ptr[r]), TreeAt(h, h.ptr[tmp]).params))
<1> DEFINE u == SetParamsMove(h, r, tmp)
           g == Drop(u, tmp)
           t == Values!With(TreeAt(h, h.ptr[r]), TreeAt(h, h.ptr[tmp]).params)
           e == Values!With(TreeAt(h, h.ptr[tmp]), <<>>)
<1>1. tmp \in Handles \ {r} /\ r \in Handles /\ h.ptr[r] \in Nodes
  BY LocalsDistinct DEF Locals, Mine
<1>2. Lends(h, tmp, h.ptr[r])
  BY DEF OnlyAt, Lends
<1>3. Passed(h, u, r, tmp, t, e)
  BY <1>1, <1>2, SetParamsMoveTree
<1>4. Sharers(h, tmp) = {tmp}
  BY <1>1 DEF Sharers, Unshared, At
<1> HIDE DEF u, t, e
<1>5. Leaves(u, g, {tmp}, {})
  BY <1>1, <1>3, DropTree DEF Passed
<1>6. /\ Sound(u) /\ Spares(h, u, {tmp} \cup {r}) /\ u.ptr[r] = h.ptr[r] /\ TreeAt(u, u.ptr[r]) = t
  BY <1>3, <1>4 DEF Passed, Spares
<1>7. Spares(h, g, {tmp} \cup {r})
  BY <1>5, <1>6 DEF Spares, Leaves
<1>8. Sound(g) /\ g.ptr[r] = h.ptr[r] /\ TreeAt(g, g.ptr[r]) = t
  BY <1>1, <1>5, <1>6 DEF Leaves
<1>9. QED  BY <1>7, <1>8 DEF Wrote, t, u

\* A parameter is deleted; where it alone referred to the node of b, no parameter
\* does any more.
LEMMA DelParamLoosens ==
  ASSUME NEW h, Sound(h), NEW r, Mine(h, r), NEW i \in DOMAIN Params(h, r),
         NEW b \in Handles, OnlyAt(h, b, h.ptr[r], i)
  PROVE  /\ Mine(DelParam(h, r, i), r) /\ Loose(DelParam(h, r, i), b)
         /\ Does(h, DelParam(h, r, i), {}, {h.ptr[r]}, 0)
<1> DEFINE g == DelParam(h, r, i)
           m == h.ptr[r]
           P == Params(h, r)
           l == RemoveAt(P, i)
<1>1. /\ r \in Handles /\ At(h, r) = m /\ Exact(h) /\ Sane(h) /\ m \in Nodes /\ m \in Live(h)
      /\ P \in Seq(Nodes) /\ P = h.node[m].Params
  BY HandleLive, ExactIs DEF Mine, Sane, Sound
<1>2. Does(h, g, {}, {m}, 0) /\ Kept(SetAll(h, r, l), g)
  BY <1>1, DelParamDoes
<1>3. Sound(g) /\ g.ptr[r] = m
  <2>1. Wrote(h, g, {}, r, Values!With(TreeAt(h, m), RemoveAt(TreeAt(h, m).params, i)))
    BY DelParamsTree
  <2>2. QED  BY <2>1 DEF Wrote
<1>4. m \in Live(g)
  BY <1>1, <1>3, HandleLive
<1>5. g.node[m].Params = l
  <2>1. l \in Seq(Nodes) /\ Alters(h, h, {}, {}, {}) /\ r \in Handles \ {} /\ m \in Live(h) \ {}
    BY <1>1, Unaltered, TimesRemove, LenProperties
  <2> HIDE DEF l, g, P
  <2>2. Holds(SetAll(h, r, l).node[m], h.node[m], l)
    BY <2>1, FilledHolds
  <2>3. Equal(g.node[m], SetAll(h, r, l).node[m])
    BY <1>2, <1>4, KeptEqual
  <2>4. QED  BY <2>2, <2>3 DEF Holds, Equal
<1>6. Mine(g, r)
  <2>1. \A j \in DOMAIN g.node[m].Params : g.node[m].Params[j] # m
    BY <1>3, <1>4, ParamApart
  <2>2. \A n \in Live(g) : n \notin Live(h) \/ n \in {m} =>
          \A j \in DOMAIN g.node[n].Params : g.node[n].Params[j] # h.ptr[r]
    BY <1>2, <2>1 DEF Does, Born
  <2>3. r \notin {} /\ \A q \in {} \cap Handles : g.ptr[q] # h.ptr[r]
    OBVIOUS
  <2> HIDE DEF g
  <2>4. QED  BY <1>2, <2>2, <2>3, MineKept
<1>7. Loose(g, b)
  <2>1. g.ptr[b] = h.ptr[b]
    BY <1>2 DEF Does
  <2>2. ASSUME NEW j \in DOMAIN g.node[m].Params
        PROVE  g.node[m].Params[j] # h.ptr[b]
    <3> DEFINE T == Nodes \ {h.ptr[b]}
    <3>1. \A k \in DOMAIN P \ {i} : P[k] \in T
      BY <1>1 DEF OnlyAt
    <3> HIDE DEF T, P
    <3>2. l \in Seq(T)
      BY <1>1, <3>1, RemovedFrom DEF P
    <3>3. l[j] \in T
      BY <1>5, <2>2, <3>2, ElementOfSeq, LenProperties
    <3>4. QED  BY <1>5, <3>3 DEF T
  <2>3. ASSUME NEW n \in Live(g) \ {m}, NEW j \in DOMAIN g.node[n].Params
        PROVE  g.node[n].Params[j] # h.ptr[b]
    <3>1. n \in Live(h) /\ g.node[n].Params = h.node[n].Params
      BY <1>2 DEF Does, Born, Live
    <3>2. QED  BY <3>1 DEF OnlyAt
  <2>4. QED  BY <2>1, <2>2, <2>3 DEF Loose
<1>8. QED  BY <1>2, <1>6, <1>7

\* The parameters of tmp take the place of the parameter i.
LEMMA AbsorbTree ==
  ASSUME NEW h, Sound(h), Free(h) >= 1, NEW r, Mine(h, r), r \notin {tmp, holder},
         NEW i \in DOMAIN Params(h, r), h.ptr[tmp] \in Nodes,
         Unshared(h, tmp), OnlyAt(h, tmp, h.ptr[r], i)
  PROVE  Wrote(h, Drop(Drop(AddParamsMove(DelParam(HoldSlot(h, r, i), r, i), r, tmp), holder), tmp),
               {tmp, holder}, r,
               Values!With(TreeAt(h, h.ptr[r]),
                           RemoveAt(TreeAt(h, h.ptr[r]).params, i) \o TreeAt(h, h.ptr[tmp]).params))
<1> DEFINE m == h.ptr[r]
           c == h.ptr[tmp]
           u == HoldSlot(h, r, i)
           w == DelParam(u, r, i)
           x == AddParamsMove(w, r, tmp)
           y == Drop(x, holder)
           g == Drop(y, tmp)
           t == Values!With(TreeAt(h, m), RemoveAt(TreeAt(h, m).params, i) \o TreeAt(h, c).params)
<1>1. /\ tmp \in Handles /\ holder \in Handles /\ tmp # holder /\ r \in Handles /\ m \in Nodes
      /\ r # holder /\ r # tmp
  BY LocalsDistinct DEF Locals, Mine
<1> HIDE DEF u, w, x, y, g
<1>2. /\ Mine(u, r) /\ Leaves(h, u, {holder}, {}) /\ Does(h, u, {holder}, {}, 0) /\ Sound(u)
      /\ u.ptr[r] = m /\ Params(u, r) = Params(h, r) /\ TreeAt(u, m) = TreeAt(h, m)
  BY <1>1, HoldTree DEF u
<1>3. u.ptr[tmp] = c /\ TreeAt(u, c) = TreeAt(h, c) /\ Free(u) >= 1
  BY <1>1, <1>2, RoomKept DEF Leaves
<1>4. OnlyAt(u, tmp, m, i)
  <2>1. ASSUME NEW n \in Live(u), NEW j \in DOMAIN u.node[n].Params, u.node[n].Params[j] = c
        PROVE  n = m /\ j = i
    <3>1. n \in Live(h) /\ u.node[n].Params = h.node[n].Params
      BY <1>2 DEF Does, Born, Live
    <3>2. QED  BY <2>1, <3>1 DEF OnlyAt
  <2>2. QED  BY <1>3, <2>1 DEF OnlyAt
<1>5. /\ Mine(w, r) /\ Loose(w, tmp) /\ Does(u, w, {}, {m}, 0)
  BY <1>1, <1>2, <1>4, DelParamLoosens DEF w
<1>6. Wrote(u, w, {}, r, Values!With(TreeAt(h, m), RemoveAt(TreeAt(h, m).params, i)))
  BY <1>2, DelParamsTree DEF w
<1>7. /\ Sound(w) /\ w.ptr[r] = m /\ w.ptr[tmp] = c /\ TreeAt(w, c) = TreeAt(h, c)
      /\ Free(w) >= 1 /\ \A q \in Handles \ {holder} : w.ptr[q] = h.ptr[q]
      /\ TreeAt(w, m) = Values!With(TreeAt(h, m), RemoveAt(TreeAt(h, m).params, i))
  <2>1. /\ Sound(w) /\ w.ptr[r] = m
        /\ TreeAt(w, m) = Values!With(TreeAt(h, m), RemoveAt(TreeAt(h, m).params, i))
    BY <1>2, <1>6 DEF Wrote
  <2>2. w.ptr[tmp] = c /\ TreeAt(w, c) = TreeAt(h, c)
    BY <1>1, <1>3, <1>6 DEF Wrote, Spares
  <2>3. Free(w) >= 1
    BY <1>3, <1>5, RoomKept
  <2>4. \A q \in Handles \ {holder} : w.ptr[q] = h.ptr[q]
    BY <1>2, <1>5 DEF Does
  <2>5. QED  BY <2>1, <2>2, <2>3, <2>4
<1> DEFINE d == Values!With(TreeAt(w, c), [j \in DOMAIN TreeAt(w, c).params |-> Values!NopTree])
<1>8. Passed(w, x, r, tmp, t, d)
  <2>1. tmp \in Handles \ {r}
    BY <1>1
  <2>2. Values!With(TreeAt(w, m), TreeAt(w, m).params \o TreeAt(w, c).params) = t
    <3>1. TreeAt(h, m) = TreeOf(data(h, r), TreesAt(h, Params(h, r)))
      BY <1>1, WithIs
    <3>2. QED  BY <1>7, <3>1 DEF Values!With, TreeOf
  <2> HIDE DEF t
  <2>3. Passed(w, x, r, tmp, Values!With(TreeAt(w, m), TreeAt(w, m).params \o TreeAt(w, c).params), d)
    BY <1>5, <1>7, <2>1, AddParamsMoveTree DEF x
  <2>4. QED  BY <2>2, <2>3
<1>9. Sharers(w, tmp) \subseteq {tmp, holder}
  BY <1>1, <1>7 DEF Sharers, Unshared, At
<1> HIDE DEF t, d
<1>10. /\ Sound(x) /\ Spares(w, x, {tmp, holder} \cup {r}) /\ x.ptr[r] = m /\ TreeAt(x, m) = t
  BY <1>7, <1>8, <1>9 DEF Passed, Spares
<1>11. Leaves(x, y, {holder}, {})
  BY <1>1, <1>10, DropTree DEF y
<1>12. Leaves(y, g, {tmp}, {})
  BY <1>1, <1>11, DropTree DEF g, Leaves
<1>13. Spares(h, g, {tmp, holder} \cup {r})
  BY <1>2, <1>6, <1>10, <1>11, <1>12 DEF Wrote, Spares, Leaves
<1>14. Sound(g) /\ g.ptr[r] = m /\ TreeAt(g, m) = t
  BY <1>1, <1>10, <1>11, <1>12 DEF Leaves
<1>15. Wrote(h, g, {tmp, holder}, r, t)
  BY <1>13, <1>14 DEF Wrote
<1>16. QED  BY <1>15 DEF g, y, x, w, u, t

\* CopyOnWrite() of a parameter of r: the tree of r is what it was.
LEMMA CopyBelowTree ==
  ASSUME NEW h, Sound(h), Free(h) >= 1, NEW r, Mine(h, r), NEW i \in DOMAIN Params(h, r),
         NEW s, s = Param(h, r, i), NEW g, Copied(h, g, s)
  PROVE  /\ Wrote(h, g, {s}, r, TreeAt(h, h.ptr[r])) /\ Mine(g, r)
         /\ s = Param(g, r, i) /\ i \in DOMAIN Params(g, r) /\ Params(g, s) = Params(h, s)
         /\ Unshared(g, s) /\ Private(g, s)
<1> DEFINE m == h.ptr[r]
           P == Params(h, r)
           c == P[i]
           f == At(g, s)
           l == [P EXCEPT ![i] = f]
           R == h.node[c].Params
<1>1. /\ r \in Handles /\ m \in Nodes /\ m \in Live(h) /\ At(h, r) = m /\ Exact(h)
      /\ P \in Seq(Nodes) /\ P = h.node[m].Params /\ Enclosed(h, {m})
      /\ \A j \in DOMAIN P : P[j] \in Live(h) \ {m}
  <2>1. Enclosed(h, {m})
    BY MineAlone
  <2>2. \A j \in DOMAIN P : P[j] \in Live(h) \ {m}
    BY MineApart DEF Mine
  <2>3. QED  BY <2>1, <2>2, HandleLive DEF Mine
<1>2. At(h, s) = c /\ s \notin Handles /\ s = <<m, i>> /\ Inside(s) = {m} /\ c \in Nodes
  BY <1>1, HandleAnchored DEF Param
<1>3. /\ Does(h, g, {s}, {m}, 1) /\ f \in Nodes /\ Holds(g.node[f], h.node[c], R)
      /\ Params(g, s) = Params(h, s) /\ (f \in Live(h) => g = h)
      /\ Holds(g.node[m], h.node[m], l) /\ Unshared(g, s) /\ Private(g, s)
  <2>1. SlotFilled(h, g, s, f) /\ Holds(data(g, s), data(h, s), Params(h, s))
        /\ Does(h, g, {s}, Inside(s), 1) /\ f \in Nodes
        /\ Params(g, s) = Params(h, s) /\ (f \in Live(h) => g = h)
        /\ Unshared(g, s) /\ Private(g, s)
    BY DEF Copied
  <2>2. Holds(g.node[m], h.node[m], l)
    BY <1>1, <1>2, <2>1 DEF SlotFilled, Holds
  <2>3. Holds(g.node[f], h.node[c], R)
    BY <1>2, <2>1 DEF data, Params
  <2>4. QED  BY <1>2, <2>1, <2>2, <2>3
<1>4. g.ptr[r] = m /\ Exact(g) /\ r \notin {s}
  BY <1>1, <1>2, <1>3 DEF Does
<1>5. s = Param(g, r, i)
  BY <1>1, <1>2, <1>4 DEF Param, At
<1>6. i \in DOMAIN Params(g, r)
  BY <1>1, <1>3, <1>4 DEF Params, data, At, Holds
<1> HIDE DEF m, P, c, f, l, R
<1>7. CASE f \in Live(h)
  <2>1. g = h
    BY <1>3, <1>7
  <2>2. Wrote(h, h, {s}, r, TreeAt(h, m))
    BY <1>1 DEF Wrote, Spares, m
  <2>3. QED  BY <1>3, <1>5, <1>6, <2>1, <2>2 DEF m
<1>8. CASE f \notin Live(h)
  <2>1. m \in Live(g)
    <3>1. r \in Handles /\ r \notin {s} /\ h.ptr[r] \in Nodes
      BY <1>1, <1>4 DEF m
    <3>2. h.ptr[r] \in Live(g)
      BY ONLY <1>1, <1>3, <3>1, HandleKept
    <3>3. QED  BY <3>2 DEF m
  <2>2. f \in Live(g) /\ g.node[m].Params = l /\ DOMAIN l = DOMAIN P /\ l[i] = f
        /\ \A j \in DOMAIN P \ {i} : l[j] = P[j]
    <3>1. g.node[m].Params = l /\ DOMAIN l = DOMAIN P /\ l[i] = f
          /\ \A j \in DOMAIN P \ {i} : l[j] = P[j]
      BY <1>3 DEF Holds, l, P
    <3>2. \A j \in DOMAIN g.node[m].Params : g.node[m].Params[j] \in Live(g)
      BY <1>1, <1>4, ParamsLive
    <3>3. i \in DOMAIN P
      BY DEF P
    <3>4. QED  BY <3>1, <3>2, <3>3
  <2>3. \A j \in DOMAIN R : R[j] \in Live(h) \ {m}
    <3>1. \A j \in DOMAIN R : R[j] \in Live(h)
      BY <1>1, <1>2, ParamsLive DEF R
    <3>2. \A j \in DOMAIN R : R[j] # m
      BY <1>2, MineAlone DEF R, m
    <3>3. QED  BY <3>1, <3>2
  <2>4. Live(g) \ Live(h) = {f} /\ g.node[f].Params = R
    BY <1>3, <1>8, <2>2 DEF Does, Born, Holds
  <2>5. \A j \in DOMAIN l : l[j] # m
    BY <1>1, <1>8, <2>2
  <2>6. Leaves(h, g, {s}, {m}) /\ Sound(g)
    <3>1. Layered(h, g, {m}, {})
      BY <2>2, <2>3, <2>4, <2>5 DEF Layered
    <3>2. Leaves(h, g, {s}, {m})
      BY <1>1, <1>3, <3>1, CallLeaves
    <3>3. QED  BY <3>2 DEF Leaves
  <2>7. Mine(g, r)
    <3>1. \A n \in Live(g) : n \notin Live(h) \/ n \in {m} =>
            \A j \in DOMAIN g.node[n].Params : g.node[n].Params[j] # h.ptr[r]
      BY <2>2, <2>3, <2>4, <2>5 DEF m
    <3>2. \A q \in {s} \cap Handles : g.ptr[q] # h.ptr[r]
      BY <1>2
    <3>3. QED  BY <1>3, <1>4, <3>1, <3>2, MineKept
  <2>8. TreeAt(g, f) = TreeAt(h, c)
    <3>1. TreeAt(g, f) = TreeOf(h.node[c], TreesAt(g, R))
      BY <1>3, <2>2, <2>6, HoldsTree
    <3>2. TreesAt(g, R) = TreesAt(h, R)
      <4>1. \A j \in DOMAIN R : R[j] \in Live(g)
        BY <1>4, <2>2, <2>4, ParamsLive DEF Live
      <4>2. QED  BY <2>3, <2>6, <4>1, TreesSame
    <3>3. c \in Live(h)
      BY <1>1 DEF c, P
    <3>4. TreeAt(h, c) = TreeOf(h.node[c], TreesAt(h, R))
      BY <3>3, TreeIs DEF R
    <3>5. QED  BY <3>1, <3>2, <3>4
  <2>9. TreesAt(g, l) = TreesAt(h, P)
    <3>1. ASSUME NEW j \in DOMAIN P
          PROVE  TreeAt(g, l[j]) = TreeAt(h, P[j])
      <4>1. CASE j = i
        BY <2>2, <2>8, <4>1 DEF c
      <4>2. CASE j # i
        <5>1. l[j] = P[j] /\ l[j] \in Live(g)
          BY <1>1, <1>4, <2>2, <3>1, <4>2, ParamsLive
        <5>2. QED  BY <1>1, <2>6, <3>1, <5>1 DEF Leaves
      <4>3. QED  BY <4>1, <4>2
    <3>2. QED  BY <2>2, <3>1 DEF TreesAt
  <2>10. TreeAt(g, m) = TreeAt(h, m)
    <3>1. TreeAt(g, m) = TreeOf(h.node[m], TreesAt(g, l))
      BY <1>3, <2>1, <2>6, HoldsTree
    <3>2. TreeAt(h, m) = TreeOf(h.node[m], TreesAt(h, P))
      BY <1>1, TreeIs
    <3>3. QED  BY <2>9, <3>1, <3>2
  <2>11. Spares(h, g, {s} \cup {r})
    <3>1. \A q \in Handles \ ({s} \cup {r}) : h.ptr[q] \notin {m}
      BY MineAlone DEF m
    <3>2. {s} \subseteq {s} \cup {r}
      OBVIOUS
    <3>3. QED  BY <2>6, <3>1, <3>2, LeavesSpares
  <2>12. Wrote(h, g, {s}, r, TreeAt(h, m))
    BY <1>4, <2>6, <2>10, <2>11 DEF Wrote, m
  <2>13. QED  BY <1>3, <1>5, <1>6, <2>7, <2>12 DEF m
<1>9. QED  BY <1>7, <1>8

\* A parameter of a parameter of r is deleted.
LEMMA DelBelowTree ==
  ASSUME NEW h, Sound(h), NEW r, Mine(h, r), NEW i \in DOMAIN Params(h, r),
         NEW s, s = Param(h, r, i), Unshared(h, s), Private(h, s), NEW j \in DOMAIN Params(h, s)
  PROVE  Wrote(h, DelParam(h, s, j), {}, r,
               Values!With(TreeAt(h, h.ptr[r]),
                 [TreeAt(h, h.ptr[r]).params EXCEPT
                   ![i] = Values!With(TreeAt(h, h.ptr[r]).params[i],
                                      RemoveAt(TreeAt(h, h.ptr[r]).params[i].params, j))]))
<1> DEFINE g == DelParam(h, s, j)
           m == h.ptr[r]
           P == Params(h, r)
           c == P[i]
           R == h.node[c].Params
           l == RemoveAt(R, j)
           M == {m, c}
<1>1. /\ r \in Handles /\ m \in Nodes /\ m \in Live(h) /\ At(h, r) = m /\ Exact(h) /\ Sane(h)
      /\ P \in Seq(Nodes) /\ P = h.node[m].Params
      /\ \A k \in DOMAIN P : P[k] \in Live(h) \ {m}
  <2>1. \A k \in DOMAIN P : P[k] \in Live(h) \ {m}
    BY MineApart DEF Mine
  <2>2. QED  BY <2>1, HandleLive, ExactIs DEF Mine, Sane, Sound
<1>2. /\ At(h, s) = c /\ s \notin Handles /\ s = <<m, i>> /\ c \in Nodes /\ c \in Live(h)
      /\ m # c /\ Params(h, s) = R
  <2>1. At(h, s) = c /\ s \notin Handles /\ s = <<m, i>> /\ c \in Nodes
    BY <1>1, HandleAnchored DEF Param
  <2>2. QED  BY <1>1, <2>1 DEF Params, data
<1>3. /\ R \in Seq(Nodes) /\ j \in DOMAIN R
      /\ \A k \in DOMAIN R : R[k] \in Live(h) \ M
  <2>1. R \in Seq(Nodes) /\ j \in DOMAIN R
    BY <1>1, <1>2, LiveNode
  <2>2. \A k \in DOMAIN R : R[k] \in Live(h)
    BY <1>1, <1>2, ParamsLive
  <2>3. \A k \in DOMAIN R : R[k] # m
    BY <1>2, MineAlone
  <2>4. \A k \in DOMAIN R : R[k] # c
    BY <1>2, ParamApart
  <2>5. QED  BY <2>1, <2>2, <2>3, <2>4
<1>4. Does(h, g, {}, {c}, 0) /\ Kept(SetAll(h, s, l), g)
  BY <1>1, <1>2, DelParamDoes
<1>5. \A k \in DOMAIN P : P[k] = c => k = i
  <2>1. ASSUME NEW k \in DOMAIN P, P[k] = c
        PROVE  k = i
    <3>1. Shape(h)
      BY <1>1 DEF Sane
    <3>2. <<m, k>> \in Slots(h) /\ At(h, <<m, k>>) = c
      BY <1>1, <2>1, <3>1, PlacesTyped
    <3>3. QED  BY <1>2, <3>2 DEF Private
  <2>2. QED  BY <2>1
<1>6. Enclosed(h, M)
  <2>1. ASSUME NEW n \in Live(h) \ M, NEW k \in DOMAIN h.node[n].Params
        PROVE  h.node[n].Params[k] \notin M
    <3>1. n \in Nodes /\ Shape(h)
      BY <1>1 DEF Live, Sane
    <3>2. h.node[n].Params[k] # m
      BY <3>1, MineAlone
    <3>3. <<n, k>> \in Slots(h) /\ At(h, <<n, k>>) = h.node[n].Params[k]
      BY <3>1, PlacesTyped
    <3>4. QED  BY <1>2, <3>2, <3>3 DEF Private
  <2>2. QED  BY <2>1 DEF Enclosed
<1>7. l \in Seq(Nodes) /\ l \in Seq(Nodes \ M)
  <2>1. /\ \A k \in DOMAIN R \ {j} : R[k] \in Nodes
        /\ \A k \in DOMAIN R \ {j} : R[k] \in Nodes \ M
    BY <1>3 DEF Live
  <2> HIDE DEF R, M
  <2>2. l \in Seq(Nodes)
    BY <1>3, <2>1, RemovedFrom
  <2>3. l \in Seq(Nodes \ M)
    BY <1>3, <2>1, RemovedFrom
  <2>4. QED  BY <2>2, <2>3
<1>8. i \in DOMAIN P
  OBVIOUS
<1> HIDE DEF g, m, P, c, R, l
<1>9. g.ptr[r] = m /\ m \in Live(g) /\ Exact(g) /\ g.node[m].Params = P
      /\ Holds(g.node[m], h.node[m], P) /\ c \in Live(g)
  <2>1. r \in Handles /\ r \notin {} /\ h.ptr[r] \in Nodes /\ h.ptr[r] \notin {c}
    BY <1>1, <1>2 DEF m
  <2>2. /\ g.ptr[r] = h.ptr[r] /\ h.ptr[r] \in Live(g)
        /\ g.node[h.ptr[r]].Params = h.node[h.ptr[r]].Params
    BY <1>1, <1>4, <2>1, HandleKept
  <2>3. Exact(g)
    BY <1>4 DEF Does
  <2>4. Holds(g.node[m], h.node[m], P)
    BY <1>1, <1>2, <1>4, <2>2 DEF Does, Named, Holds, m
  <2>5. c \in Live(g)
    BY <1>1, <1>8, <2>2, <2>3, ParamsLive DEF m, c
  <2>6. QED  BY <1>1, <2>2, <2>3, <2>4, <2>5 DEF m
<1>10. Holds(g.node[c], h.node[c], l)
  <2>1. Holds(SetAll(h, s, l).node[c], h.node[c], l)
    BY <1>1, <1>2, <1>7, Filled
  <2>2. Equal(g.node[c], SetAll(h, s, l).node[c])
    BY <1>4, <1>9, KeptEqual
  <2>3. QED  BY <2>1, <2>2 DEF Holds, Equal
<1>11. Leaves(h, g, {}, M) /\ Sound(g)
  <2>1. Does(h, g, {}, M, 0)
    BY <1>4 DEF Does, Named
  <2>2. \A f \in Live(g) \ Live(h) : g.node[f].Params = <<>>
    BY <1>4, NoneMade
  <2>3. \A k \in DOMAIN g.node[m].Params : g.node[m].Params[k] # m
    BY <1>1, <1>9
  <2>4. \A k \in DOMAIN g.node[c].Params : g.node[c].Params[k] \notin M
    <3>1. \A k \in DOMAIN l : l[k] \in Nodes \ M
      BY <1>7, ElementOfSeq, LenProperties
    <3>2. QED  BY <1>10, <3>1 DEF Holds
  <2>5. M = {m, c}
    OBVIOUS
  <2> HIDE DEF M
  <2>6. Leaves(h, g, {}, M)
    BY <1>2, <1>6, <2>1, <2>2, <2>3, <2>4, <2>5, PairWritten
  <2>7. QED  BY <2>6 DEF Leaves
<1>12. TreeAt(g, c) = Values!With(TreeAt(h, c), RemoveAt(TreeAt(h, c).params, j))
  <2>1. TreeAt(g, c) = TreeOf(h.node[c], TreesAt(g, l))
    BY <1>9, <1>10, <1>11, HoldsTree
  <2>2. TreesAt(g, l) = TreesAt(h, l)
    <3>1. \A k \in DOMAIN l : l[k] \in Live(g)
      <4>1. \A k \in DOMAIN g.node[c].Params : g.node[c].Params[k] \in Live(g)
        BY <1>2, <1>9, ParamsLive
      <4>2. QED  BY <1>10, <4>1 DEF Holds
    <3>2. \A k \in DOMAIN l : l[k] \in Live(h) \ M
      <4>1. \A k \in DOMAIN R \ {j} : R[k] \in Live(h) \ M
        BY <1>3
      <4> HIDE DEF M
      <4>2. l \in Seq(Live(h) \ M)
        BY <1>3, <4>1, RemovedFrom DEF l
      <4>3. QED  BY <4>2, ElementOfSeq, LenProperties
    <3>3. QED  BY <1>11, <3>1, <3>2, TreesSame
  <2>3. TreesAt(h, l) = RemoveAt(TreesAt(h, R), j)
    BY <1>3, TreesOfLists DEF l
  <2>4. TreeAt(h, c) = TreeOf(h.node[c], TreesAt(h, R))
    BY <1>2, TreeIs DEF R
  <2>5. QED  BY <2>1, <2>2, <2>3, <2>4 DEF TreeOf, Values!With
<1> DEFINE t == Values!With(TreeAt(h, c), RemoveAt(TreeAt(h, c).params, j))
<1>13. TreesAt(g, P) = [TreesAt(h, P) EXCEPT ![i] = t]
  <2>1. ASSUME NEW k \in DOMAIN P, k # i
        PROVE  TreeAt(g, P[k]) = TreeAt(h, P[k])
    <3>1. P[k] \in Live(h) \ M
      BY <1>1, <1>5, <2>1
    <3>2. P[k] \in Live(g)
      BY <1>1, <1>9, <2>1, ParamsLive
    <3>3. QED  BY <1>11, <3>1, <3>2 DEF Leaves
  <2>2. TreeAt(g, P[i]) = t
    BY <1>12 DEF c
  <2> HIDE DEF t
  <2>3. QED  BY <1>8, <2>1, <2>2 DEF TreesAt
<1>14. TreeAt(g, m) = Values!With(TreeAt(h, m), [TreeAt(h, m).params EXCEPT ![i] = t])
  <2>1. TreeAt(g, m) = TreeOf(h.node[m], TreesAt(g, P))
    BY <1>9, <1>11, HoldsTree
  <2>2. TreeAt(h, m) = TreeOf(h.node[m], TreesAt(h, P))
    BY <1>1, TreeIs
  <2> HIDE DEF t
  <2>3. QED  BY <1>13, <2>1, <2>2 DEF TreeOf, Values!With
<1>15. TreeAt(h, m).params[i] = TreeAt(h, c)
  <2>1. TreeAt(h, m) = TreeOf(h.node[m], TreesAt(h, P))
    BY <1>1, TreeIs
  <2>2. QED  BY <1>8, <2>1 DEF TreeOf, TreesAt, c
<1>16. Spares(h, g, {} \cup {r})
  <2>1. \A q \in Handles \ {r} : h.ptr[q] # m
    BY MineAlone DEF m
  <2>2. \A q \in Handles : h.ptr[q] # c
    BY <1>2 DEF Unshared
  <2>3. \A q \in Handles \ ({} \cup {r}) : h.ptr[q] \notin M
    BY <2>1, <2>2
  <2>4. {} \subseteq {} \cup {r}
    OBVIOUS
  <2> HIDE DEF M
  <2>5. QED  BY <1>11, <2>3, <2>4, LeavesSpares
<1>17. Wrote(h, g, {}, r, Values!With(TreeAt(h, m), [TreeAt(h, m).params EXCEPT ![i] = t]))
  BY <1>9, <1>11, <1>14, <1>16 DEF Wrote, m
<1>18. QED  BY <1>15, <1>17 DEF g, m

(***************************************************************************)
(* DistributeFunction.                                                     *)
(***************************************************************************)

\* The nodes of g are nodes of h, with the same parameters, or have none.
Grown(h, g) ==
  \A n \in Live(g) : \/ g.node[n].Params = <<>>
                     \/ n \in Live(h) /\ g.node[n].Params = h.node[n].Params

\* One such call after another.
LEMMA GrownTwice ==
  ASSUME NEW h, NEW u, NEW g, Grown(h, u), Grown(u, g)
  PROVE  Grown(h, g)
BY DEF Grown

\* Calls that change no node that was there, and fill none.
LEMMA DoesGrown ==
  ASSUME NEW h, NEW g, NEW Q, NEW k, Does(h, g, Q, {}, k),
         \A n \in Live(g) \ Live(h) : g.node[n].Params = <<>>
  PROVE  Grown(h, g)
<1>1. ASSUME NEW n \in Live(g)
      PROVE  \/ g.node[n].Params = <<>>
             \/ n \in Live(h) /\ g.node[n].Params = h.node[n].Params
  BY <1>1 DEF Does, Live
<1>2. QED  BY <1>1 DEF Grown

\* A node that is r's own stays r's own where no other handle is given it.
LEMMA GrownMine ==
  ASSUME NEW h, Sound(h), NEW r, Mine(h, r), NEW g, Sound(g), Grown(h, g),
         \A q \in Handles \ {r} : g.ptr[q] # h.ptr[r], g.ptr[r] = h.ptr[r]
  PROVE  Mine(g, r)
<1> DEFINE m == h.ptr[r]
<1>1. /\ r \in Handles /\ m \in Nodes /\ Shape(g) /\ At(g, r) = m
      /\ \A n \in Nodes : \A i \in DOMAIN h.node[n].Params : h.node[n].Params[i] # m
  BY MineAlone, ExactIs DEF Mine, At, Sound
<1>2. ASSUME NEW q \in Slots(g) \ {r}
      PROVE  At(g, q) # m
  <2>1. /\ At(g, q) = g.node[q[1]].Params[q[2]] /\ q[1] \in Nodes
        /\ q[2] \in DOMAIN g.node[q[1]].Params
    BY <1>1, PlacesTyped DEF Slots
  <2>2. q[1] \in Live(g) /\ g.node[q[1]].Params # <<>>
    BY <2>1, DeletedNode DEF Live
  <2>3. g.node[q[1]].Params = h.node[q[1]].Params
    BY <2>2 DEF Grown
  <2>4. QED  BY <1>1, <2>1, <2>3
<1>3. QED  BY <1>1, <1>2 DEF Mine, Unshared, Private

\* Become() of a handle whose node has no parameters fills no node.
LEMMA BecomeGrown ==
  ASSUME NEW h, Sound(h), Free(h) >= 1, NEW s \in Handles \ {tmp}, h.ptr[s] \in Nodes,
         NEW b, At(h, b) \in Live(h), At(h, s) # At(h, b), Params(h, s) = <<>>
  PROVE  Grown(h, Become(h, s, b)) /\ Become(h, s, b).ptr[tmp] = NoNode
<1> DEFINE n == At(h, b)
           u == ChangeTo(h, tmp, n)
           w == CopyOnWrite(u, s)
           x == Swap(w, s, tmp)
           g == Drop(x, tmp)
<1>1. Become(h, s, b) = g /\ tmp \in Handles /\ n \in Live(h) /\ n \in Nodes
  BY LocalsDistinct DEF Become, Locals, Live
<1> HIDE DEF g, x, w, u, n
<1>2. /\ Leaves(h, u, {tmp}, {}) /\ Does(h, u, {tmp}, {}, 0) /\ u.ptr[tmp] = n
  BY <1>1, ChangeToTree DEF u
<1>3. /\ Sound(u) /\ Free(u) >= 1 /\ u.ptr[s] = h.ptr[s] /\ Grown(h, u)
      /\ h.ptr[s] \in Live(h) /\ h.ptr[s] \in Live(u) /\ Params(u, s) = <<>>
  <2>1. Sound(u) /\ Free(u) >= 1 /\ u.ptr[s] = h.ptr[s]
    BY <1>2, RoomKept DEF Leaves
  <2>2. h.ptr[s] \in Live(h) /\ h.ptr[s] \in Live(u)
    BY <2>1, HandleLive
  <2>3. u.node[h.ptr[s]].Params = h.node[h.ptr[s]].Params
    BY <1>2, <2>2 DEF Does, Live
  <2>4. Params(u, s) = <<>>
    BY <2>1, <2>3 DEF Params, data, At
  <2>5. Grown(h, u)
    BY <1>2, NoneMade, DoesGrown
  <2>6. QED  BY <2>1, <2>2, <2>4, <2>5
<1>4. Copied(u, w, s) /\ Does(u, w, {s}, {}, 1) /\ Sound(w) /\ w.ptr[s] \in Live(w)
  <2>1. Copied(u, w, s) /\ Leaves(u, w, {s}, {}) /\ w.ptr[s] \in Live(w)
    BY <1>3, OwnTree DEF w
  <2>2. QED  BY <2>1 DEF Copied, Leaves, Inside
<1>5. Grown(u, w)
  <2>1. ASSUME NEW k \in Live(w) \ Live(u)
        PROVE  w.node[k].Params = <<>>
    <3>1. CASE w = u
      BY <2>1, <3>1
    <3>2. CASE w # u
      <4>1. w.ptr[s] \notin Live(u) /\ Params(w, s) = <<>>
        BY <1>3, <1>4, <3>2 DEF Copied, At
      <4>2. k = w.ptr[s]
        BY <1>4, <2>1, <4>1 DEF Does, Born
      <4>3. QED  BY <4>1, <4>2 DEF Params, data, At
    <3>3. QED  BY <3>1, <3>2
  <2>2. QED  BY <1>4, <2>1, DoesGrown
<1>6. w.ptr[tmp] \in Nodes
  BY <1>1, <1>2, <1>4 DEF Does
<1>7. Swapped(w, x, s, tmp)
  <2>1. s \in Places(w) /\ tmp \in Places(w) /\ At(w, s) \in Nodes /\ At(w, tmp) \in Nodes
    BY <1>1, <1>4, <1>6 DEF Places, At, Live
  <2>2. QED  BY <1>4, <2>1, SwapDoes DEF x, Sound
<1>8. Does(w, x, {s, tmp}, {}, 0)
  BY <1>1, <1>7 DEF Swapped, Inside
<1>9. Does(x, g, {tmp}, {}, 0) /\ g.ptr[tmp] = NoNode
  BY <1>1, <1>8, DropDoes DEF g, Does
<1>10. Grown(w, x) /\ Grown(x, g)
  BY <1>8, <1>9, NoneMade, DoesGrown
<1>11. Grown(h, g)
  BY <1>3, <1>5, <1>10, GrownTwice
<1>12. QED  BY <1>1, <1>9, <1>11

\* mul refers, from outside the nodes alone, to the node of r's only parameter.
Grips(h, r) ==
  /\ Sound(h) /\ Good(h) /\ Mine(h, r)
  /\ h.ptr[mul] \in Nodes /\ Unshared(h, mul)
  /\ Params(h, r) = <<h.ptr[mul]>>
  /\ \A n \in Live(h) \ {h.ptr[r]} : \A i \in DOMAIN h.node[n].Params :
       h.node[n].Params[i] # h.ptr[mul]

\* mul takes the product.
LEMMA ProductTree ==
  ASSUME NEW h, Sound(h), Good(h), Free(h) >= 8, NEW r \in Objects, Len(Params(h, r)) = 1,
         data(h, r).RefCount = 1, data(h, Param(h, r, 1)).RefCount = 1,
         NEW g, g = Become(Construct(h, mul, Nop), mul, Param(h, r, 1))
  PROVE  /\ Grips(g, r) /\ Spares(h, g, {mul, tmp})
         /\ g.ptr[r] = h.ptr[r] /\ g.ptr[mul] = Params(h, r)[1]
         /\ Grouped(h, g, r, Params(h, r)[1]) /\ Free(g) >= 6
<1> DEFINE m == h.ptr[r]
           p == Param(h, r, 1)
           c == Params(h, r)[1]
           u == Construct(h, mul, Nop)
<1>1. /\ Exact(h) /\ m \in Nodes /\ r \in Handles /\ r \notin {mul, tmp} /\ Shape(h)
      /\ mul \in Handles \ {tmp} /\ tmp \in Handles /\ At(h, r) = m
      /\ Params(h, r) = h.node[m].Params
  BY LocalsDistinct, ExactIs, HandleLive DEF Good, Locals
<1>2. /\ 1 \in DOMAIN Params(h, r) /\ Params(h, r) = <<c>> /\ DOMAIN Params(h, r) = {1}
  <2>1. Params(h, r) \in Seq(Nodes)
    BY <1>1, HandleLive
  <2>2. QED  BY <2>1
<1>3. /\ p = <<m, 1>> /\ At(h, p) = c /\ p \notin Handles /\ p \in Places(h) /\ c \in Nodes
      /\ c \in Live(h)
  <2>1. Anchored(h, p, r) /\ p \notin Handles /\ At(h, p) = c /\ c \in Live(h) /\ c \in Nodes
    BY <1>1, <1>2, HandleAnchored
  <2>2. QED  BY <1>1, <2>1 DEF Param, Anchored
<1> HIDE DEF c, u, p, m
<1>4. Mine(h, r) /\ Unshared(h, p) /\ Private(h, p)
  <2>1. r \in Places(h) /\ At(h, r) \in Nodes /\ ~(data(h, r).RefCount > 1)
    BY <1>1 DEF Places
  <2>2. At(h, p) \in Nodes /\ ~(data(h, p).RefCount > 1)
    BY <1>3 DEF p
  <2>3. Unshared(h, r) /\ Private(h, r)
    BY <1>1, <2>1, OneClaim
  <2>4. Unshared(h, p) /\ Private(h, p)
    BY <1>1, <1>3, <2>2, OneClaim
  <2>5. QED  BY <1>1, <2>3, <2>4 DEF Mine, m
<1>5. m # c
  <2>1. m \in Live(h)
    BY <1>1, HandleLive DEF m
  <2>2. QED  BY <1>1, <1>2, <2>1, ParamApart DEF c
<1>6. Free(h) >= 1 /\ Free(h) >= 2 /\ Free(h) >= 2 + 6
  <2>1. Free(h) \in Nat
    BY FreeType
  <2>2. QED  BY <2>1
<1>7. Renewed(h, u, mul, Nop) /\ Does(h, u, {mul}, {}, 1) /\ u.ptr[mul] \in Nodes
  <2>1. "cNop" # "deleted" /\ Nop = Data("cNop", 0, <<>>)
    BY DEF Nop
  <2>2. mul \in Handles
    BY <1>1
  <2>3. QED  BY <1>1, <1>6, <2>1, <2>2, NodeConstructed DEF u
<1>8. Leaves(h, u, {mul}, {}) /\ u.ptr[mul] \in Live(u) \ Live(h) /\ Sound(u)
  <2>1. \A i \in DOMAIN Nop.Params : Nop.Params[i] \in Live(h)
    BY NopNode
  <2>2. QED  BY <1>1, <1>7, <2>1, RenewedTree DEF Leaves
<1>9. Params(u, mul) = <<>> /\ At(u, mul) = u.ptr[mul]
  BY <1>1, <1>7, NopNode DEF Renewed, Holds, Params, At
<1>10. Grown(h, u)
  <2>1. ASSUME NEW k \in Live(u) \ Live(h)
        PROVE  u.node[k].Params = <<>>
    <3>1. k = u.ptr[mul]
      BY <1>7, <1>8, <2>1 DEF Does, Born
    <3>2. QED  BY <1>9, <3>1 DEF Params, data
  <2>2. QED  BY <1>7, <2>1, DoesGrown
<1>11. Free(u) >= 1
  BY <1>6, <1>7, RoomUsed
<1>12. At(u, p) = c /\ c \in Live(u)
  <2>1. u.ptr[r] = m /\ m \in Live(u) /\ m \in Live(h)
    BY <1>1, <1>8, HandleLive DEF Leaves, m
  <2>2. u.node[m].Params = h.node[m].Params
    BY <1>7, <2>1 DEF Does, Live
  <2>3. At(u, p) = c
    BY <1>1, <1>2, <1>3, <2>2 DEF At
  <2>4. c \in Live(u)
    BY <1>1, <1>2, <1>7, <2>1, <2>2, ParamsLive DEF Does
  <2>5. QED  BY <2>3, <2>4
<1>13. /\ Sound(g) /\ Spares(u, g, {mul, tmp}) /\ g.ptr[mul] = c
       /\ Grown(u, g) /\ g.ptr[tmp] = NoNode
  <2>1. At(u, mul) # At(u, p)
    BY <1>3, <1>8, <1>9, <1>12
  <2>2. g = Become(u, mul, p)
    BY DEF u, p
  <2>3. Sound(g) /\ Spares(u, g, {mul, tmp}) /\ g.ptr[mul] = c
    BY <1>1, <1>7, <1>8, <1>11, <1>12, <2>2, BecomeTree
  <2>4. Grown(u, g) /\ g.ptr[tmp] = NoNode
    BY <1>1, <1>7, <1>8, <1>9, <1>11, <1>12, <2>1, <2>2, BecomeGrown
  <2>5. QED  BY <2>3, <2>4
<1>14. Grown(h, g) /\ Spares(h, g, {mul, tmp})
  <2>1. Grown(h, g)
    BY <1>10, <1>13, GrownTwice
  <2>2. Spares(h, u, {mul})
    BY <1>8 DEF Leaves, Spares
  <2>3. {mul} \cup {mul, tmp} = {mul, tmp}
    OBVIOUS
  <2>4. QED  BY <1>13, <2>1, <2>2, <2>3, SparesTwice
<1>15. Grouped(h, g, r, c) /\ Done(h, g, {mul, tmp}, {}, 2)
  BY <1>2, <1>6, ProductTaken DEF c
<1>16. Free(g) >= 6
  <2>1. 2 \in Nat /\ 6 \in Nat
    OBVIOUS
  <2>2. QED  BY ONLY <1>6, <1>15, <2>1, RoomLeft
<1>17. \A q \in Handles \ {mul, tmp} : g.ptr[q] = h.ptr[q]
  BY <1>14 DEF Spares
<1>18. g.ptr[r] = m /\ Mine(g, r)
  <2>1. g.ptr[r] = m
    BY <1>1, <1>17 DEF m
  <2>2. \A q \in Handles \ {r} : h.ptr[q] # m
    BY <1>1, <1>4, MineAlone DEF m
  <2>3. \A q \in Handles \ {r} : g.ptr[q] # m
    BY <1>1, <1>5, <1>13, <1>17, <2>2, NodesAssumption
  <2>4. QED  BY <1>4, <1>13, <1>14, <2>1, <2>3, GrownMine DEF m
<1>19. Unshared(g, mul)
  <2>1. ASSUME NEW q \in Handles \ {mul}
        PROVE  g.ptr[q] # c
    <3>1. CASE q = tmp
      BY <1>3, <1>13, <3>1, NodesAssumption
    <3>2. CASE q # tmp
      BY <1>3, <1>4, <1>17, <3>2 DEF Unshared
    <3>3. QED  BY <3>1, <3>2
  <2>2. QED  BY <1>1, <1>13, <2>1 DEF Unshared, At
<1>20. ASSUME NEW n \in Live(g) \ {m}, NEW i \in DOMAIN g.node[n].Params
       PROVE  g.node[n].Params[i] # c
  <2>1. g.node[n].Params = h.node[n].Params /\ n \in Nodes
    BY <1>14, <1>20 DEF Grown, Live
  <2>2. <<n, i>> \in Slots(h) /\ At(h, <<n, i>>) = h.node[n].Params[i]
    BY <1>1, <1>20, <2>1, PlacesTyped
  <2>3. <<n, i>> # p
    BY <1>3, <1>20
  <2>4. QED  BY <1>3, <1>4, <2>1, <2>2, <2>3 DEF Private
<1>21. Params(g, r) = <<c>>
  BY <1>2, <1>15 DEF Grouped
<1>22. Grips(g, r)
  BY <1>3, <1>13, <1>15, <1>18, <1>19, <1>20, <1>21 DEF Grips, Grouped
<1>23. QED  BY <1>13, <1>14, <1>15, <1>16, <1>18, <1>22 DEF c, m

\* Two calls in a row that make no node.
LEMMA DoesTwice ==
  ASSUME NEW h, NEW u, NEW g, NEW Q, NEW M, NEW R, NEW N,
         Does(h, u, Q, M, 0), Does(u, g, R, N, 0)
  PROVE  Does(h, g, Q \cup R, M \cup N, 0)
<1>1. Exact(g) /\ \A q \in Handles \ (Q \cup R) : g.ptr[q] = h.ptr[q]
  BY DEF Does
<1>2. Live(u) \subseteq Live(h) /\ Live(g) \subseteq Live(u)
  BY DEF Does, Born
<1>3. \A m \in Nodes \ (M \cup N) : m \in Live(h) /\ m \in Live(g) =>
        /\ g.node[m].Params = h.node[m].Params
        /\ g.node[m].Opcode = h.node[m].Opcode /\ g.node[m].Value = h.node[m].Value
  BY <1>2 DEF Does, Named
<1>4. Free(h) <= Free(g) + 0
  <2>1. Free(h) \in Nat /\ Free(u) \in Nat /\ Free(g) \in Nat
    BY FreeType
  <2>2. Free(h) <= Free(u) + 0 /\ Free(u) <= Free(g) + 0
    BY DEF Does
  <2>3. QED  BY <2>1, <2>2
<1>5. QED  BY <1>1, <1>2, <1>3, <1>4 DEF Does, Named, Born

\* A place of a list that is overwritten and then removed.
LEMMA RemovedChanged ==
  ASSUME NEW S, NEW l \in Seq(S), NEW i \in DOMAIN l, NEW x \in S
  PROVE  /\ [l EXCEPT ![i] = x] \in Seq(S) /\ DOMAIN [l EXCEPT ![i] = x] = DOMAIN l
         /\ RemoveAt([l EXCEPT ![i] = x], i) = RemoveAt(l, i)
<1> DEFINE e == [l EXCEPT ![i] = x]
<1>1. e \in Seq(S) /\ Len(e) = Len(l) /\ DOMAIN e = DOMAIN l /\ DOMAIN l = 1..Len(l)
  OBVIOUS
<1>2. SubSeq(e, 1, i - 1) = SubSeq(l, 1, i - 1)
  OBVIOUS
<1>3. SubSeq(e, i + 1, Len(e)) = SubSeq(l, i + 1, Len(l))
  OBVIOUS
<1>4. QED  BY <1>1, <1>2, <1>3 DEF RemoveAt

\* What taking a factor x from the product c, to be the parameter of m, does to the
\* nodes.
FactorMoved(h, g, m, c, n) ==
  /\ \E Q : Q \cap Handles = {holder} /\ Does(h, g, Q, {m, c}, 0)
  /\ g.ptr[holder] \notin Nodes
  /\ Holds(g.node[m], h.node[m], <<h.node[c].Params[n]>>)
  /\ Holds(g.node[c], h.node[c], RemoveAt(h.node[c].Params, n))

\* The calls that take the factor do that.
LEMMA FactorNodes ==
  ASSUME NEW h, NEW r \in Objects, Grips(h, r), NEW n \in DOMAIN Params(h, mul),
         NEW g, g = DelParam(SetParamMove(h, r, 1, Param(h, mul, n)), mul, n)
  PROVE  FactorMoved(h, g, h.ptr[r], h.ptr[mul], n)
<1> DEFINE m == h.ptr[r]
           c == h.ptr[mul]
           R == h.node[c].Params
           x == R[n]
           s == Param(h, r, 1)
           p == Param(h, mul, n)
           u == HoldSlot(h, r, 1)
           w == Swap(u, s, p)
           v == Drop(w, holder)
           Z == [R EXCEPT ![n] = c]
           l == RemoveAt(R, n)
<1>1. g = DelParam(v, mul, n)
  BY DEF SetParamMove
<1>2. /\ r \in Handles \ {holder} /\ mul \in Handles \ {holder} /\ holder \in Handles
      /\ Sound(h) /\ Mine(h, r) /\ Exact(h) /\ m \in Nodes /\ c \in Nodes
      /\ m \in Live(h) /\ c \in Live(h) /\ r # mul
      /\ At(h, r) = m /\ At(h, mul) = c
      /\ Params(h, r) = <<c>> /\ h.node[m].Params = <<c>> /\ Params(h, mul) = R
      /\ R \in Seq(Nodes)
  <2>1. /\ r \in Handles \ {holder} /\ mul \in Handles \ {holder} /\ holder \in Handles
        /\ r # mul
    BY LocalsDistinct DEF Locals
  <2>2. /\ Sound(h) /\ Mine(h, r) /\ m \in Nodes /\ c \in Nodes /\ Params(h, r) = <<c>>
    BY DEF Grips, Mine
  <2>3. QED  BY <2>1, <2>2, HandleLive
<1>3. m # c /\ x \in Live(h) \ {m}
  BY <1>2, MineApart, MineAlone
<1>4. 1 \in DOMAIN Params(h, r) /\ n \in DOMAIN R
  BY <1>2
<1>5. s = <<m, 1>> /\ p = <<c, n>>
  BY <1>2 DEF Param
<1> HIDE DEF l, Z, v, w, u, x, R, s, p, m, c
<1>6. /\ Mine(u, r) /\ Does(h, u, {holder}, {}, 0) /\ Sound(u) /\ Exact(u)
      /\ u.ptr[r] = m /\ u.ptr[mul] = c
  <2>1. /\ Mine(u, r) /\ Does(h, u, {holder}, {}, 0) /\ Sound(u) /\ u.ptr[r] = h.ptr[r]
    BY <1>2, <1>4, HoldTree DEF u
  <2>2. QED  BY <1>2, <2>1 DEF Does, m, c
<1>7. /\ Holds(u.node[m], h.node[m], <<c>>) /\ Holds(u.node[c], h.node[c], R)
  <2>1. m \in Live(u) /\ c \in Live(u)
    BY <1>2, <1>6, HandleLive
  <2>2. QED  BY <1>2, <1>6, <2>1 DEF Does, Named, Holds, R
<1>8. /\ s \in Places(u) /\ At(u, s) = c /\ Inside(s) = {m} /\ s \notin Handles
      /\ p \in Places(u) /\ At(u, p) = x /\ Inside(p) = {c} /\ p \notin Handles
      /\ x \in Nodes
  <2>1. s = Param(u, r, 1) /\ p = Param(u, mul, n) /\ At(u, r) = m /\ At(u, mul) = c
    BY <1>2, <1>5, <1>6 DEF Param, At
  <2>2. Params(u, r) = <<c>> /\ Params(u, mul) = R
    BY <1>7, <2>1 DEF Params, data, Holds
  <2>3. 1 \in DOMAIN Params(u, r) /\ Params(u, r)[1] = c
    BY <2>2
  <2>4. n \in DOMAIN Params(u, mul) /\ Params(u, mul)[n] = x
    BY <1>4, <2>2 DEF x
  <2>5. s \in Places(u) /\ At(u, s) = c /\ Inside(s) = {m} /\ s \notin Handles
    BY <1>2, <1>6, <2>1, <2>3, HandleAnchored DEF Anchored
  <2>6. p \in Places(u) /\ At(u, p) = x /\ Inside(p) = {c} /\ p \notin Handles /\ x \in Nodes
    BY <1>2, <1>6, <2>1, <2>4, HandleAnchored DEF Anchored
  <2>7. QED  BY <2>5, <2>6
<1>9. /\ Does(u, w, {s, p}, {m, c}, 0) /\ SlotFilled(u, w, s, x) /\ SlotFilled(u, w, p, c)
  <2>1. Swapped(u, w, s, p)
    BY <1>2, <1>6, <1>8, SwapDoes DEF w
  <2>2. Inside(s) \cup Inside(p) = {m, c} /\ Inside(s) \cap Inside(p) = {}
    BY <1>3, <1>8
  <2>3. QED  BY <1>8, <2>1, <2>2 DEF Swapped
<1>10. /\ Holds(w.node[m], h.node[m], <<x>>) /\ Holds(w.node[c], h.node[c], Z)
       /\ w.ptr[r] = m /\ w.ptr[mul] = c /\ Exact(w)
  <2>1. /\ w.node[m].Params = [u.node[m].Params EXCEPT ![1] = x]
        /\ w.node[m].Opcode = u.node[m].Opcode /\ w.node[m].Value = u.node[m].Value
    BY <1>5, <1>8, <1>9 DEF SlotFilled
  <2>2. /\ w.node[c].Params = [u.node[c].Params EXCEPT ![n] = c]
        /\ w.node[c].Opcode = u.node[c].Opcode /\ w.node[c].Value = u.node[c].Value
    BY <1>5, <1>8, <1>9 DEF SlotFilled
  <2>3. [<<c>> EXCEPT ![1] = x] = <<x>>
    OBVIOUS
  <2>4. Holds(w.node[m], h.node[m], <<x>>)
    BY <1>7, <2>1, <2>3 DEF Holds
  <2>5. Holds(w.node[c], h.node[c], Z)
    BY <1>7, <2>2 DEF Holds, Z
  <2>6. w.ptr[r] = m /\ w.ptr[mul] = c /\ Exact(w)
    BY <1>2, <1>6, <1>8, <1>9 DEF Does
  <2>7. QED  BY <2>4, <2>5, <2>6
<1>11. /\ Does(w, v, {holder}, {}, 0) /\ v.ptr[holder] = NoNode /\ Exact(v)
       /\ v.ptr[mul] = c /\ v.ptr[r] = m /\ m \in Live(v) /\ c \in Live(v)
  <2>1. Does(w, v, {holder}, {}, 0) /\ v.ptr[holder] = NoNode
    BY <1>2, <1>10, DropDoes DEF v
  <2>2. Exact(v) /\ v.ptr[mul] = c /\ v.ptr[r] = m
    BY <1>2, <1>10, <2>1 DEF Does
  <2>3. At(v, mul) \in Live(v) /\ At(v, r) \in Live(v) /\ At(v, mul) = c /\ At(v, r) = m
    BY <1>2, <2>2, HandleAnchored
  <2>4. QED  BY <2>1, <2>2, <2>3
<1>12. /\ Holds(v.node[m], h.node[m], <<x>>) /\ Holds(v.node[c], h.node[c], Z)
       /\ Params(v, mul) = Z /\ At(v, mul) = c
  <2>1. m \in Live(w) /\ c \in Live(w)
    BY <1>11 DEF Does, Born
  <2>2. Holds(v.node[m], h.node[m], <<x>>) /\ Holds(v.node[c], h.node[c], Z)
    BY <1>2, <1>10, <1>11, <2>1 DEF Does, Named, Holds
  <2>3. QED  BY <1>2, <1>11, <2>2 DEF Params, data, Holds, At
<1>13. RemoveAt(Z, n) = l /\ DOMAIN Z = DOMAIN R /\ l \in Seq(Nodes)
  <2>1. RemoveAt(Z, n) = l /\ DOMAIN Z = DOMAIN R
    BY <1>2, <1>4, RemovedChanged DEF Z, l
  <2>2. \A k \in DOMAIN R \ {n} : R[k] \in Nodes
    BY <1>2
  <2>3. l \in Seq(Nodes)
    BY <1>2, <1>4, <2>2, RemovedFrom DEF l
  <2>4. QED  BY <2>1, <2>3
<1>14. Does(v, g, {}, {c}, 0) /\ Kept(SetAll(v, mul, l), g)
  <2>1. n \in DOMAIN Params(v, mul) /\ At(v, mul) \in Live(v) /\ RemoveAt(Params(v, mul), n) = l
    BY <1>4, <1>11, <1>12, <1>13
  <2>2. QED  BY <1>1, <1>11, <1>12, <2>1, DelParamDoes
<1>15. m \in Live(g) /\ c \in Live(g) /\ g.ptr[holder] = NoNode
  <2>1. g.ptr[mul] = c /\ g.ptr[r] = m /\ g.ptr[holder] = NoNode /\ Exact(g)
    BY <1>2, <1>11, <1>14 DEF Does
  <2>2. At(g, mul) \in Live(g) /\ At(g, r) \in Live(g) /\ At(g, mul) = c /\ At(g, r) = m
    BY <1>2, <2>1, HandleAnchored
  <2>3. QED  BY <2>1, <2>2
<1>16. Holds(g.node[m], h.node[m], <<x>>)
  BY <1>2, <1>3, <1>11, <1>12, <1>14, <1>15 DEF Does, Named, Holds
<1>17. Holds(g.node[c], h.node[c], l)
  <2>1. Holds(SetAll(v, mul, l).node[c], v.node[c], l)
    BY <1>11, <1>12, <1>13, Filled, ExactIs DEF Sane
  <2>2. Equal(g.node[c], SetAll(v, mul, l).node[c])
    BY <1>14, <1>15, KeptEqual
  <2>3. QED  BY <1>12, <2>1, <2>2 DEF Holds, Equal
<1>18. Does(h, g, {holder, s, p}, {m, c}, 0)
  <2>1. Does(h, w, {holder} \cup {s, p}, {} \cup {m, c}, 0)
    BY <1>6, <1>9, DoesTwice
  <2>2. Does(h, v, ({holder} \cup {s, p}) \cup {holder}, ({} \cup {m, c}) \cup {}, 0)
    BY <1>11, <2>1, DoesTwice
  <2>3. Does(h, g, (({holder} \cup {s, p}) \cup {holder}) \cup {},
                   (({} \cup {m, c}) \cup {}) \cup {c}, 0)
    BY <1>14, <2>2, DoesTwice
  <2>4. /\ (({holder} \cup {s, p}) \cup {holder}) \cup {} = {holder, s, p}
        /\ (({} \cup {m, c}) \cup {}) \cup {c} = {m, c}
    OBVIOUS
  <2>5. QED  BY <2>3, <2>4
<1>19. {holder, s, p} \cap Handles = {holder} /\ g.ptr[holder] \notin Nodes
  BY <1>2, <1>8, <1>15, NodesAssumption
<1>20. QED  BY <1>16, <1>17, <1>18, <1>19 DEF FactorMoved, m, c, x, R, l

\* Taking the factor does to the trees what it does to the nodes.
LEMMA FactorTree ==
  ASSUME NEW h, NEW r \in Objects, Grips(h, r), NEW n \in DOMAIN Params(h, mul),
         NEW g, FactorMoved(h, g, h.ptr[r], h.ptr[mul], n)
  PROVE  /\ Sound(g) /\ Mine(g, r) /\ Spares(h, g, {holder, r, mul})
         /\ g.ptr[r] = h.ptr[r] /\ g.ptr[mul] = h.ptr[mul]
         /\ TreeAt(g, g.ptr[r])
              = Values!With(TreeAt(h, h.ptr[r]), <<TreeAt(h, h.ptr[mul]).params[n]>>)
         /\ TreeAt(g, g.ptr[mul])
              = Values!With(TreeAt(h, h.ptr[mul]), RemoveAt(TreeAt(h, h.ptr[mul]).params, n))
<1> DEFINE m == h.ptr[r]
           c == h.ptr[mul]
           R == h.node[c].Params
           x == R[n]
           l == RemoveAt(R, n)
           M == {m, c}
<1>1. /\ r \in Handles \ {holder} /\ mul \in Handles \ {holder} /\ r # mul
      /\ Sound(h) /\ Mine(h, r) /\ Exact(h) /\ m \in Nodes /\ c \in Nodes
      /\ m \in Live(h) /\ c \in Live(h) /\ R \in Seq(Nodes) /\ n \in DOMAIN R
      /\ \A k \in DOMAIN R : R[k] \in Live(h)
  <2>1. r \in Handles \ {holder} /\ mul \in Handles \ {holder} /\ r # mul
    BY LocalsDistinct DEF Locals
  <2>2. Sound(h) /\ Mine(h, r) /\ m \in Nodes /\ c \in Nodes
    BY DEF Grips, Mine
  <2>3. QED  BY <2>1, <2>2, HandleLive
<1>2. m # c /\ \A k \in DOMAIN R : R[k] \in Live(h) \ M
  <2>1. m # c
    BY <1>1, MineAlone
  <2>2. \A k \in DOMAIN R : R[k] # m
    BY <1>1, MineAlone
  <2>3. \A k \in DOMAIN R : R[k] # c
    BY <1>1, ParamApart
  <2>4. QED  BY <1>1, <2>1, <2>2, <2>3
<1>3. Enclosed(h, M)
  <2>1. \A k \in Nodes : \A i \in DOMAIN h.node[k].Params : h.node[k].Params[i] # m
    BY <1>1, MineAlone
  <2>2. QED  BY <2>1 DEF Grips, Enclosed, Live
<1>4. PICK Q : Q \cap Handles = {holder} /\ Does(h, g, Q, M, 0)
  BY DEF FactorMoved
<1>5. Holds(g.node[m], h.node[m], <<x>>) /\ Holds(g.node[c], h.node[c], l)
      /\ g.ptr[holder] \notin Nodes
  BY DEF FactorMoved
<1>6. l \in Seq(Live(h) \ M)
  <2>1. \A k \in DOMAIN R \ {n} : R[k] \in Live(h) \ M
    BY <1>2
  <2> HIDE DEF R, M
  <2>2. QED  BY <1>1, <2>1, RemovedFrom
<1>7. \A k \in DOMAIN l : l[k] \in Live(h) \ M
  <2> HIDE DEF l, M
  <2>1. QED  BY <1>6, ElementOfSeq, LenProperties
<1>8. x \in Live(h) \ M
  BY <1>1, <1>2
<1>9. M = {m, c}
  OBVIOUS
<1>10. TreeAt(h, c).params = TreesAt(h, R) /\ TreeAt(h, c).params[n] = TreeAt(h, x)
  <2>1. TreeAt(h, c) = TreeOf(h.node[c], TreesAt(h, R))
    BY <1>1, TreeIs
  <2>2. TreeAt(h, c).params = TreesAt(h, R)
    BY <2>1 DEF TreeOf
  <2>3. TreesAt(h, R)[n] = TreeAt(h, x)
    BY <1>1 DEF TreesAt
  <2>4. QED  BY <2>2, <2>3
<1>11. TreesAt(h, l) = RemoveAt(TreesAt(h, R), n)
  BY <1>1, TreesOfLists
<1>12. /\ \A p : TreeOf(h.node[m], p) = Values!With(TreeAt(h, m), p)
       /\ \A p : TreeOf(h.node[c], p) = Values!With(TreeAt(h, c), p)
  BY <1>1, WithNode
<1> HIDE DEF m, c, R, x, l, M
<1>13. Leaves(h, g, Q, M) /\ Sound(g)
  <2>1. \A f \in Live(g) \ Live(h) : g.node[f].Params = <<>>
    BY <1>4, NoneMade
  <2>2. \A i \in DOMAIN g.node[m].Params : g.node[m].Params[i] # m
    BY <1>5, <1>8, <1>9 DEF Holds
  <2>3. \A i \in DOMAIN g.node[c].Params : g.node[c].Params[i] \notin M
    BY <1>5, <1>7 DEF Holds
  <2>4. Leaves(h, g, Q, M)
    BY <1>1, <1>2, <1>3, <1>4, <1>9, <2>1, <2>2, <2>3, PairWritten
  <2>5. QED  BY <2>4 DEF Leaves
<1>14. /\ g.ptr[r] = m /\ g.ptr[mul] = c /\ Exact(g)
       /\ m \in Live(g) /\ c \in Live(g)
  <2>1. g.ptr[r] = m /\ g.ptr[mul] = c /\ Exact(g)
    BY <1>1, <1>4 DEF Does, m, c
  <2>2. QED  BY <1>1, <1>13, <2>1, HandleLive
<1>15. Mine(g, r)
  <2>1. r \notin Q /\ \A q \in Q \cap Handles : g.ptr[q] # m
    BY <1>1, <1>4, <1>5
  <2>2. ASSUME NEW k \in Live(g), k \notin Live(h) \/ k \in M, NEW i \in DOMAIN g.node[k].Params
        PROVE  g.node[k].Params[i] # m
    <3>1. k \in Live(h)
      BY <1>4, <2>2 DEF Does, Born
    <3>2. CASE k = m
      BY <1>5, <1>8, <1>9, <2>2, <3>2 DEF Holds
    <3>3. CASE k = c
      BY <1>5, <1>7, <1>9, <2>2, <3>3 DEF Holds
    <3>4. QED  BY <1>9, <2>2, <3>1, <3>2, <3>3
  <2>3. QED  BY <1>1, <1>4, <2>1, <2>2, MineKept DEF m
<1>16. TreesAt(g, <<x>>) = <<TreeAt(h, x)>> /\ TreesAt(g, l) = TreesAt(h, l)
  <2>1. x \in Live(g) /\ \A k \in DOMAIN l : l[k] \in Live(g)
    <3>1. /\ \A k \in DOMAIN g.node[m].Params : g.node[m].Params[k] \in Live(g)
          /\ \A k \in DOMAIN g.node[c].Params : g.node[c].Params[k] \in Live(g)
      BY <1>1, <1>14, ParamsLive
    <3>2. 1 \in DOMAIN <<x>> /\ <<x>>[1] = x
      OBVIOUS
    <3>3. QED  BY <1>5, <3>1, <3>2 DEF Holds
  <2>2. TreeAt(g, x) = TreeAt(h, x)
    BY <1>8, <1>13, <2>1 DEF Leaves
  <2>3. TreesAt(g, <<x>>) = <<TreeAt(g, x)>>
    BY DEF TreesAt
  <2>4. TreesAt(g, l) = TreesAt(h, l)
    BY <1>7, <1>13, <2>1, TreesSame
  <2>5. QED  BY <2>2, <2>3, <2>4
<1>17. /\ TreeAt(g, m) = Values!With(TreeAt(h, m), <<TreeAt(h, x)>>)
       /\ TreeAt(g, c) = Values!With(TreeAt(h, c), RemoveAt(TreesAt(h, R), n))
  <2>1. TreeAt(g, m) = TreeOf(h.node[m], TreesAt(g, <<x>>))
    BY <1>5, <1>13, <1>14, HoldsTree
  <2>2. TreeAt(g, c) = TreeOf(h.node[c], TreesAt(g, l))
    BY <1>5, <1>13, <1>14, HoldsTree
  <2>3. QED  BY <1>11, <1>12, <1>16, <2>1, <2>2
<1>18. Spares(h, g, {holder, r, mul})
  <2>1. \A q \in Handles \ {r} : h.ptr[q] # m
    BY <1>1, MineAlone DEF m
  <2>2. \A q \in Handles \ {mul} : h.ptr[q] # c
    BY <1>1 DEF Grips, Unshared, At, c
  <2>3. \A q \in Handles \ (Q \cup {r, mul}) : h.ptr[q] \notin M
    BY <1>9, <2>1, <2>2
  <2>4. Q \subseteq Q \cup {r, mul}
    OBVIOUS
  <2>5. Spares(h, g, Q \cup {r, mul})
    BY <1>13, <2>3, <2>4, LeavesSpares
  <2>6. QED  BY <1>4, <2>5 DEF Spares
<1>19. QED  BY <1>10, <1>13, <1>14, <1>15, <1>17, <1>18 DEF m, c

\* g has constructed b, a leaf: its node is its own, and what was another's own still is.
Made(h, g, b, o, v) ==
  /\ Sound(g) /\ Spares(h, g, {b}) /\ Mine(g, b)
  /\ TreeAt(g, g.ptr[b]) = Values!Leaf(o, v)
  /\ \A r \in Handles \ {b} : Mine(h, r) => Mine(g, r)

\* A variable is constructed: it has a node of its own.
LEMMA VariableTree ==
  ASSUME NEW h, Sound(h), Free(h) >= 1, NEW b \in Handles, NEW o, o # "deleted", NEW v
  PROVE  Made(h, Construct(h, b, Data(o, v, <<>>)), b, o, v)
<1> DEFINE d == Data(o, v, <<>>)
           g == Construct(h, b, d)
<1> HIDE DEF g
<1>1. /\ Does(h, g, {b}, {}, 1) /\ g.ptr[b] \in Nodes /\ Renewed(h, g, b, d)
      /\ Exact(h) /\ Rooted(h, b) /\ At(g, b) = g.ptr[b] /\ <<>> \in Seq(Nodes)
  <2>1. Exact(h) /\ Rooted(h, b) /\ At(g, b) = g.ptr[b]
    BY DEF Sound, Rooted, Places, At
  <2>2. Does(h, g, {b}, {}, 1) /\ g.ptr[b] \in Nodes /\ Renewed(h, g, b, d)
    BY <2>1, NodeConstructed DEF g
  <2>3. QED  BY <2>1, <2>2
<1>2. d.Params = <<>> /\ \A i \in DOMAIN d.Params : d.Params[i] \in Live(h)
  BY DEF Data
<1>3. /\ Leaves(h, g, {b}, {}) /\ g.ptr[b] \in Live(g) \ Live(h)
      /\ TreeAt(g, g.ptr[b]) = TreeOf(d, TreesAt(h, d.Params))
  BY <1>1, <1>2, RenewedTree
<1>4. Sound(g) /\ Spares(h, g, {b})
  BY <1>3 DEF Leaves, Spares
<1>5. Mine(g, b)
  BY <1>1, <1>2, NewUnshared DEF Mine
<1>6. TreeAt(g, g.ptr[b]) = Values!Leaf(o, v)
  <2>1. TreesAt(h, <<>>) = <<>>
    BY DEF TreesAt
  <2>2. d.Opcode = o /\ d.Value = v
    BY DEF Data
  <2> HIDE DEF d
  <2>3. QED  BY <1>2, <1>3, <2>1, <2>2 DEF TreeOf, Values!Leaf
<1>7. ASSUME NEW r \in Handles \ {b}, Mine(h, r)
      PROVE  Mine(g, r)
  <2>1. h.ptr[r] \in Live(h)
    BY <1>7, MineAlone
  <2>2. ASSUME NEW k \in Live(g), k \notin Live(h) \/ k \in {}, NEW i \in DOMAIN g.node[k].Params
        PROVE  g.node[k].Params[i] # h.ptr[r]
    <3>1. k = g.ptr[b]
      BY <1>1, <1>3, <2>2 DEF Does, Born
    <3>2. g.node[k].Params = <<>>
      BY <1>1, <1>2, <3>1 DEF Renewed, Holds, data
    <3>3. QED  BY <2>2, <3>2
  <2>3. r \notin {b} /\ \A q \in {b} \cap Handles : g.ptr[q] # h.ptr[r]
    BY <1>3, <2>1
  <2>4. QED  BY <1>1, <1>7, <2>2, <2>3, MineKept
<1>8. QED  BY <1>4, <1>5, <1>6, <1>7 DEF Made, g

\* The node of a variable becomes a parameter: it is no other handle's node.
LEMMA MovedMine ==
  ASSUME NEW h, Sound(h), Free(h) >= 1, NEW s, Mine(h, s), NEW b \in Handles \ {s},
         h.ptr[b] \in Nodes, NEW r \in Handles \ {b}, Mine(h, r),
         NEW g, g = AddParamMove(h, s, b)
  PROVE  Mine(g, r)
<1> DEFINE m == h.ptr[s]
           P == Params(h, s)
<1>1. /\ Exact(h) /\ s \in Handles /\ m \in Nodes /\ At(h, s) = m /\ h.ptr[r] \in Live(h)
      /\ P \in Seq(Nodes) /\ h.ptr[b] # h.ptr[r]
      /\ \A i \in DOMAIN P : P[i] # h.ptr[r]
  <2>1. s \in Handles /\ m \in Nodes /\ h.ptr[r] \in Nodes
    BY DEF Mine
  <2>2. Exact(h) /\ At(h, s) = m /\ P \in Seq(Nodes) /\ P = h.node[m].Params
    BY <2>1, HandleLive
  <2>3. /\ h.ptr[b] # h.ptr[r] /\ h.ptr[r] \in Live(h)
        /\ \A i \in DOMAIN h.node[m].Params : h.node[m].Params[i] # h.ptr[r]
    BY <2>1, MineAlone
  <2>4. QED  BY <2>1, <2>2, <2>3
<1>2. Does(h, g, {b}, {m}, 1)
  BY <1>1, AddParamMoveDoes
<1>3. /\ g.ptr[b] \notin Live(h)
      /\ \A x \in Live(g) \ Live(h) : g.node[x].Params = <<>>
      /\ g.node[m].Params = Append(P, h.ptr[b])
  <2>1. Moved(h, AddParamMove(h, s, b), s, b)
    BY AddParamMoveTree
  <2>2. QED  BY <2>1 DEF Moved
<1> HIDE DEF P, m
<1>4. ASSUME NEW k \in Live(g), k \notin Live(h) \/ k \in {m}, NEW i \in DOMAIN g.node[k].Params
      PROVE  g.node[k].Params[i] # h.ptr[r]
  <2>1. CASE k \notin Live(h)
    BY <1>3, <1>4, <2>1
  <2>2. CASE k = m
    BY <1>1, <1>3, <1>4, <2>2
  <2>3. QED  BY <1>4, <2>1, <2>2
<1>5. r \notin {b} /\ \A q \in {b} \cap Handles : g.ptr[q] # h.ptr[r]
  BY <1>1, <1>3
<1>6. QED  BY <1>2, <1>4, <1>5, MineKept

\* The opcode of a node that is r's own is set.
LEMMA RenamedMine ==
  ASSUME NEW h, Sound(h), NEW r, Mine(h, r), NEW o, o # "deleted", NEW g, g = SetOpcode(h, r, o)
  PROVE  Mine(g, r)
<1>1. /\ Exact(h) /\ r \in Handles /\ h.ptr[r] \in Nodes /\ At(h, r) = h.ptr[r]
      /\ \A n \in Nodes : \A i \in DOMAIN h.node[n].Params : h.node[n].Params[i] # h.ptr[r]
      /\ IsNode(data(h, r)) /\ data(h, r) = h.node[h.ptr[r]]
  <2>1. r \in Handles /\ h.ptr[r] \in Nodes
    BY DEF Mine
  <2>2. Exact(h) /\ At(h, r) = h.ptr[r] /\ Shape(h)
    BY <2>1, HandleLive
  <2>3. \A n \in Nodes : \A i \in DOMAIN h.node[n].Params : h.node[n].Params[i] # h.ptr[r]
    BY MineAlone
  <2>4. IsNode(h.node[h.ptr[r]])
    BY <2>1, <2>2, ParamsTyped
  <2>5. QED  BY <2>1, <2>2, <2>3, <2>4 DEF data
<1>2. Does(h, g, {}, {h.ptr[r]}, 0) /\ data(g, r) = WithOpcode(data(h, r), o)
  BY <1>1, SetOpcodeDoes
<1>3. g.node[h.ptr[r]].Params = h.node[h.ptr[r]].Params
  <2>1. At(g, r) = h.ptr[r]
    BY <1>1, <1>2 DEF Does, At
  <2>2. data(g, r).Params = data(h, r).Params
    BY <1>1, <1>2, NodeNamed
  <2>3. QED  BY <1>1, <2>1, <2>2 DEF data
<1>4. ASSUME NEW k \in Live(g), k \notin Live(h) \/ k \in {h.ptr[r]},
             NEW i \in DOMAIN g.node[k].Params
      PROVE  g.node[k].Params[i] # h.ptr[r]
  <2>1. k = h.ptr[r]
    BY <1>2, <1>4 DEF Does, Born
  <2>2. QED  BY <1>1, <1>3, <1>4, <2>1
<1>5. r \notin {} /\ \A q \in {} \cap Handles : g.ptr[q] # h.ptr[r]
  OBVIOUS
<1>6. QED  BY <1>2, <1>4, <1>5, MineKept

\* What DistributeFunction makes of h when mul has lost the factor.
Rebuilt(h, r) ==
  LET h3 == AddParamMove(Construct(h, func, Data(data(h, r).Opcode, data(h, r).Value, <<>>)),
                         func, mul)
      h4 == AddParamMove(SetOpcode(h3, r, "cIf"), r, func)
      h5 == AddParamMove(Construct(h4, p2, Data("cImmed", 0, <<>>)), r, p2)
  IN Drop(Drop(Drop(h5, p2), func), mul)

\* The end of a variable's life.
LEMMA VariableDropped ==
  ASSUME NEW h, Sound(h), NEW r \in Handles, h.ptr[r] \in Nodes, NEW b \in Handles \ {r}
  PROVE  /\ Sound(Drop(h, b)) /\ Spares(h, Drop(h, b), {b})
         /\ Drop(h, b).ptr[r] = h.ptr[r]
         /\ TreeAt(Drop(h, b), h.ptr[r]) = TreeAt(h, h.ptr[r])
<1>1. Leaves(h, Drop(h, b), {b}, {})
  BY DropTree
<1>2. QED  BY <1>1 DEF Leaves, Spares

\* func gets the tree of r with the rest of the product for its parameter.
LEMMA FunctionMade ==
  ASSUME NEW h, Sound(h), Good(h), Free(h) >= 6, NEW r \in Objects, Mine(h, r),
         h.ptr[mul] \in Nodes, NEW k,
         k = Construct(h, func, Data(data(h, r).Opcode, data(h, r).Value, <<>>)),
         NEW g, g = AddParamMove(k, func, mul)
  PROVE  /\ Sound(g) /\ Good(g) /\ Free(g) >= 4 /\ Mine(g, r) /\ Spares(h, g, {func, mul})
         /\ g.ptr[func] \in Nodes
         /\ TreeAt(g, g.ptr[func])
              = Values!With(TreeAt(h, h.ptr[r]), <<TreeAt(h, h.ptr[mul])>>)
<1> DEFINE o == data(h, r).Opcode
           v == data(h, r).Value
           y == TreeAt(h, h.ptr[mul])
<1>1. /\ func \in Locals /\ mul \in Locals /\ func \in Handles /\ mul \in Handles \ {func}
      /\ r \in Handles \ {func} /\ r \in Handles \ {mul} /\ Exact(h) /\ h.ptr[r] \in Nodes
      /\ Free(h) >= 1
  <2>1. Free(h) \in Nat
    BY FreeType
  <2>2. Free(h) >= 1
    BY <2>1
  <2>3. QED  BY <2>2, LocalsDistinct DEF Locals, Good
<1>2. o # "deleted"
  BY <1>1, OpcodeLives
<1>3. Given(h, k, func, 5)
  <2>1. 6 = 5 + 1 /\ 6 \in Nat /\ 5 \in Nat
    OBVIOUS
  <2> HIDE DEF o, v
  <2>2. k = Construct(h, func, Data(o, v, <<>>))
    BY DEF o, v
  <2>3. QED  BY <1>1, <1>2, <2>1, <2>2, VariableConstructed
<1>4. \A p : TreeOf(data(h, r), p) = Values!With(TreeAt(h, h.ptr[r]), p)
  BY <1>1, WithIs
<1> DEFINE T(p) == [opcode |-> o, value |-> v, params |-> p]
<1>5. \A p : T(p) = Values!With(TreeAt(h, h.ptr[r]), p)
  BY <1>4 DEF TreeOf
<1> HIDE DEF o, v, y
<1>6. /\ Sound(k) /\ Spares(h, k, {func}) /\ Mine(k, func) /\ Mine(k, r)
      /\ TreeAt(k, k.ptr[func]) = T(<<>>)
  <2>1. k = Construct(h, func, Data(o, v, <<>>))
    BY DEF o, v
  <2>2. /\ Sound(k) /\ Spares(h, k, {func}) /\ Mine(k, func)
        /\ TreeAt(k, k.ptr[func]) = Values!Leaf(o, v)
        /\ \A q \in Handles \ {func} : Mine(h, q) => Mine(k, q)
    <3>1. Made(h, k, func, o, v)
      BY <1>1, <1>2, <2>1, VariableTree
    <3>2. QED  BY <3>1 DEF Made
  <2>3. QED  BY <1>1, <2>2 DEF Values!Leaf
<1>7. /\ Good(k) /\ Free(k) >= 5 /\ k.ptr[mul] = h.ptr[mul] /\ k.ptr[func] \in Nodes
      /\ k.ptr[mul] \in Nodes /\ TreeAt(k, k.ptr[mul]) = y
  BY <1>1, <1>3, <1>6 DEF Given, Spares, y
<1>8. Free(k) >= 1
  <2>1. Free(k) \in Nat
    BY FreeType
  <2>2. QED  BY <1>7, <2>1
<1>9. Given(k, g, mul, 4)
  <2>1. 5 = 4 + 1 /\ 5 \in Nat /\ 4 \in Nat
    OBVIOUS
  <2>2. QED  BY <1>1, <1>7, <2>1, ParamMoved
<1>10. Wrote(k, g, {mul}, func, Values!With(TreeAt(k, k.ptr[func]),
                                  Append(TreeAt(k, k.ptr[func]).params, TreeAt(k, k.ptr[mul]))))
  BY <1>1, <1>6, <1>7, <1>8, AddParamMoveTree
<1>11. Values!With(TreeAt(k, k.ptr[func]),
                   Append(TreeAt(k, k.ptr[func]).params, TreeAt(k, k.ptr[mul])))
         = Values!With(TreeAt(h, h.ptr[r]), <<y>>)
  <2>1. Append(<<>>, y) = <<y>>
    OBVIOUS
  <2>2. Values!With(T(<<>>), <<y>>) = T(<<y>>) /\ T(<<>>).params = <<>>
    BY DEF Values!With
  <2>3. QED  BY <1>5, <1>6, <1>7, <2>1, <2>2
<1>12. /\ Sound(g) /\ Spares(k, g, {mul} \cup {func}) /\ g.ptr[func] = k.ptr[func]
       /\ TreeAt(g, g.ptr[func]) = Values!With(TreeAt(h, h.ptr[r]), <<y>>)
  BY <1>10, <1>11 DEF Wrote
<1>13. Mine(g, r)
  BY <1>1, <1>6, <1>7, <1>8, MovedMine
<1>14. Spares(h, g, {func, mul})
  <2>1. {func} \cup ({mul} \cup {func}) = {func, mul}
    OBVIOUS
  <2>2. QED  BY <1>6, <1>12, <2>1, SparesTwice
<1>15. QED  BY <1>7, <1>9, <1>12, <1>13, <1>14 DEF Given, y

\* Lists of two and of three.
LEMMA AppendedTwo ==
  ASSUME NEW x, NEW z, NEW w
  PROVE  Append(<<x>>, z) = <<x, z>> /\ Append(<<x, z>>, w) = <<x, z, w>>
<1> DEFINE S == {x, z, w}
           a == Append(<<x>>, z)
           b == <<x, z>>
           c == Append(b, w)
           d == <<x, z, w>>
<1>1. <<x>> \in Seq(S) /\ b \in Seq(S) /\ d \in Seq(S) /\ z \in S /\ w \in S
  OBVIOUS
<1> HIDE DEF S
<1>2. a \in Seq(S) /\ Len(a) = Len(b) /\ Len(a) = 2 /\ a[1] = b[1] /\ a[2] = b[2]
  BY <1>1, AppendProperties
<1>3. c \in Seq(S) /\ Len(c) = Len(d) /\ Len(c) = 3 /\ c[1] = d[1] /\ c[2] = d[2] /\ c[3] = d[3]
  BY <1>1, AppendProperties
<1> HIDE DEF a, b, c, d
<1>4. a = b
  <2>1. \A i \in 1..Len(a) : a[i] = b[i]
    BY <1>2
  <2>2. QED  BY <1>1, <1>2, <2>1, SeqEqual
<1>5. c = d
  <2>1. \A i \in 1..Len(c) : c[i] = d[i]
    BY <1>3
  <2>2. QED  BY <1>1, <1>3, <2>1, SeqEqual
<1>6. QED  BY <1>4, <1>5 DEF a, b, c, d

\* The tree t as a condition: x decides between t of y and zero.
Conditional(t, x, y) ==
  [t EXCEPT !.opcode = "cIf",
            !.params = <<x, Values!With(t, <<y>>), Values!Leaf("cImmed", 0)>>]

\* A tree with one parameter becomes one with three.
LEMMA RebuiltTree ==
  ASSUME NEW h, Sound(h), Good(h), Free(h) >= 6, NEW r \in Objects, Mine(h, r),
         h.ptr[mul] \in Nodes, NEW t, t = TreeAt(h, h.ptr[r]),
         NEW x, t.params = <<x>>, NEW y, y = TreeAt(h, h.ptr[mul]), NEW g, g = Rebuilt(h, r)
  PROVE  /\ Sound(g) /\ Spares(h, g, {r, mul, func, p2})
         /\ g.ptr[r] = h.ptr[r]
         /\ TreeAt(g, g.ptr[r]) = Conditional(t, x, y)
<1> DEFINE k3 == Construct(h, func, Data(data(h, r).Opcode, data(h, r).Value, <<>>))
           h3 == AddParamMove(k3, func, mul)
           k4 == SetOpcode(h3, r, "cIf")
           h4 == AddParamMove(k4, r, func)
           k5 == Construct(h4, p2, Data("cImmed", 0, <<>>))
           h5 == AddParamMove(k5, r, p2)
           d6 == Drop(h5, p2)
           d7 == Drop(d6, func)
           d8 == Drop(d7, mul)
           z  == Values!With(t, <<y>>)
           w  == Values!Leaf("cImmed", 0)
           T(p) == [t EXCEPT !.opcode = "cIf", !.params = p]
<1>1. g = d8
  BY Zenon DEF Rebuilt
<1>2. /\ func \in Locals /\ p2 \in Locals /\ func \in Handles /\ p2 \in Handles
      /\ mul \in Handles /\ r \in Handles
      /\ func # r /\ p2 # r /\ mul # r /\ mul # func /\ mul # p2 /\ func # p2
  BY LocalsDistinct DEF Locals
<1>3. Exact(h) /\ h.ptr[r] \in Nodes /\ t = TreeOf(data(h, r), <<x>>)
  <2>1. Exact(h) /\ h.ptr[r] \in Nodes
    BY DEF Good
  <2>2. t = TreeOf(data(h, r), TreesAt(h, Params(h, r))) /\ t.params = TreesAt(h, Params(h, r))
    BY <1>2, <2>1, WithIs
  <2>3. QED  BY <2>1, <2>2
<1>4. /\ T(<<x>>) = [t EXCEPT !.opcode = "cIf"] /\ \A p : T(p).params = p
      /\ \A p, q : Values!With(T(p), q) = T(q)
  BY <1>3 DEF TreeOf, Values!With
<1> HIDE DEF T, z, w, d8, d7, d6, h5, k5, h4, k4, h3
<1>5. /\ Sound(h3) /\ Good(h3) /\ Free(h3) >= 4 /\ Mine(h3, r) /\ Spares(h, h3, {func, mul})
      /\ h3.ptr[func] \in Nodes /\ TreeAt(h3, h3.ptr[func]) = z
  BY FunctionMade DEF h3, z
<1> HIDE DEF k3
<1>6. h3.ptr[r] = h.ptr[r] /\ TreeAt(h3, h3.ptr[r]) = t
  BY <1>2, <1>3, <1>5 DEF Spares
<1>7. Wrote(h3, k4, {}, r, T(<<x>>)) /\ Mine(k4, r)
  <2>1. "cIf" # "deleted"
    OBVIOUS
  <2>2. Wrote(h3, k4, {}, r, [TreeAt(h3, h3.ptr[r]) EXCEPT !.opcode = "cIf"])
    BY <1>5, <2>1, SetOpcodeTree DEF k4
  <2>3. Mine(k4, r)
    BY <1>5, <2>1, RenamedMine DEF k4
  <2>4. QED  BY <1>4, <1>6, <2>2, <2>3
<1>8. Good(k4) /\ Free(k4) >= 4 /\ Free(k4) >= 1
  <2>1. Exact(h3) /\ h3.ptr[r] \in Nodes /\ "cIf" # "deleted"
    BY <1>5 DEF Good
  <2>2. Does(h3, k4, {}, {At(h3, r)}, 0)
    BY <1>2, <2>1, SetOpcodeDoes DEF k4
  <2>3. Good(k4) /\ Free(k4) >= 4
    BY <1>5, <2>2, GoodDoes, RoomKept
  <2>4. Free(k4) \in Nat
    BY FreeType
  <2>5. QED  BY <2>3, <2>4
<1>9. /\ Sound(k4) /\ Spares(h3, k4, {r}) /\ k4.ptr[r] = h.ptr[r]
      /\ TreeAt(k4, k4.ptr[r]) = T(<<x>>)
      /\ k4.ptr[func] \in Nodes /\ TreeAt(k4, k4.ptr[func]) = z
  <2>1. Sound(k4) /\ Spares(h3, k4, {} \cup {r}) /\ k4.ptr[r] = h3.ptr[r]
        /\ TreeAt(k4, k4.ptr[r]) = T(<<x>>)
    BY <1>7 DEF Wrote
  <2>2. Spares(h3, k4, {r})
    BY <2>1 DEF Spares
  <2>3. QED  BY <1>2, <1>5, <1>6, <2>1, <2>2 DEF Spares
<1>10. /\ Wrote(k4, h4, {func}, r, T(<<x, z>>)) /\ Mine(h4, r)
  <2>1. Wrote(k4, h4, {func}, r, Values!With(TreeAt(k4, k4.ptr[r]),
                               Append(TreeAt(k4, k4.ptr[r]).params, TreeAt(k4, k4.ptr[func]))))
    BY <1>2, <1>7, <1>8, <1>9, AddParamMoveTree DEF h4
  <2>2. Mine(h4, r)
    BY <1>2, <1>7, <1>8, <1>9, MovedMine DEF h4
  <2>3. Append(TreeAt(k4, k4.ptr[r]).params, TreeAt(k4, k4.ptr[func])) = <<x, z>>
    <3>1. Append(<<x>>, z) = <<x, z>>
      BY AppendedTwo
    <3>2. TreeAt(k4, k4.ptr[r]).params = <<x>>
      BY <1>4, <1>9
    <3>3. QED  BY <1>9, <3>1, <3>2
  <2>4. Values!With(TreeAt(k4, k4.ptr[r]), <<x, z>>) = T(<<x, z>>)
    BY <1>4, <1>9
  <2>5. QED  BY <2>1, <2>2, <2>3, <2>4
<1>11. Good(h4) /\ Free(h4) >= 3 /\ Free(h4) >= 1
  <2>1. 4 = 3 + 1 /\ 4 \in Nat /\ 3 \in Nat /\ k4.ptr[r] \in Nodes
    BY <1>3, <1>9
  <2>2. Given(k4, h4, func, 3)
    BY <1>2, <1>8, <1>9, <2>1, ParamMoved DEF h4
  <2>3. Free(h4) \in Nat
    BY FreeType
  <2>4. QED  BY <2>2, <2>3 DEF Given
<1>12. /\ Sound(h4) /\ Spares(k4, h4, {func} \cup {r}) /\ h4.ptr[r] = h.ptr[r]
       /\ TreeAt(h4, h4.ptr[r]) = T(<<x, z>>)
  BY <1>9, <1>10 DEF Wrote
<1>13. /\ Sound(k5) /\ Spares(h4, k5, {p2}) /\ Mine(k5, r) /\ TreeAt(k5, k5.ptr[p2]) = w
  <2> DEFINE o == "cImmed"
             v == 0
  <2>1. o # "deleted" /\ r \in Handles \ {p2}
    BY <1>2
  <2>2. Sound(h4) /\ Free(h4) >= 1 /\ p2 \in Handles /\ k5 = Construct(h4, p2, Data(o, v, <<>>))
    BY <1>2, <1>11, <1>12 DEF k5
  <2>3. w = Values!Leaf(o, v)
    BY DEF w
  <2> HIDE DEF o, v
  <2>4. /\ Sound(k5) /\ Spares(h4, k5, {p2}) /\ TreeAt(k5, k5.ptr[p2]) = Values!Leaf(o, v)
        /\ \A q \in Handles \ {p2} : Mine(h4, q) => Mine(k5, q)
    <3>1. Made(h4, k5, p2, o, v)
      BY <2>1, <2>2, VariableTree
    <3>2. QED  BY <3>1 DEF Made
  <2>5. QED  BY <1>10, <2>1, <2>3, <2>4
<1>14. Good(k5) /\ Free(k5) >= 1 /\ k5.ptr[p2] \in Nodes
  <2>1. 3 = 2 + 1 /\ 3 \in Nat /\ 2 \in Nat /\ "cImmed" # "deleted"
    OBVIOUS
  <2>2. Given(h4, k5, p2, 2)
    BY <1>2, <1>11, <2>1, VariableConstructed DEF k5
  <2>3. Free(k5) \in Nat
    BY FreeType
  <2>4. QED  BY <2>2, <2>3 DEF Given
<1>15. k5.ptr[r] = h.ptr[r] /\ TreeAt(k5, k5.ptr[r]) = T(<<x, z>>)
  BY <1>2, <1>3, <1>12, <1>13 DEF Spares
<1>16. Wrote(k5, h5, {p2}, r, T(<<x, z, w>>))
  <2>1. Wrote(k5, h5, {p2}, r, Values!With(TreeAt(k5, k5.ptr[r]),
                               Append(TreeAt(k5, k5.ptr[r]).params, TreeAt(k5, k5.ptr[p2]))))
    BY <1>2, <1>13, <1>14, AddParamMoveTree DEF h5
  <2>2. Append(TreeAt(k5, k5.ptr[r]).params, TreeAt(k5, k5.ptr[p2])) = <<x, z, w>>
    <3>1. Append(<<x, z>>, w) = <<x, z, w>>
      BY AppendedTwo
    <3>2. TreeAt(k5, k5.ptr[r]).params = <<x, z>>
      BY <1>4, <1>15
    <3>3. QED  BY <1>13, <3>1, <3>2
  <2>3. Values!With(TreeAt(k5, k5.ptr[r]), <<x, z, w>>) = T(<<x, z, w>>)
    BY <1>4, <1>15
  <2>4. QED  BY <2>1, <2>2, <2>3
<1>17. /\ Sound(h5) /\ Spares(k5, h5, {p2} \cup {r}) /\ h5.ptr[r] = h.ptr[r]
       /\ TreeAt(h5, h.ptr[r]) = T(<<x, z, w>>)
  BY <1>15, <1>16 DEF Wrote
<1>18. /\ Sound(d6) /\ Spares(h5, d6, {p2}) /\ d6.ptr[r] = h.ptr[r]
       /\ TreeAt(d6, h.ptr[r]) = T(<<x, z, w>>)
  <2>1. /\ Sound(h5) /\ r \in Handles /\ h5.ptr[r] \in Nodes /\ p2 \in Handles \ {r}
        /\ d6 = Drop(h5, p2)
    BY <1>2, <1>3, <1>17 DEF d6
  <2>2. /\ Sound(d6) /\ Spares(h5, d6, {p2}) /\ d6.ptr[r] = h5.ptr[r]
        /\ TreeAt(d6, h5.ptr[r]) = TreeAt(h5, h5.ptr[r])
    BY ONLY <2>1, VariableDropped
  <2>3. QED  BY <1>17, <2>2
<1>19. /\ Sound(d7) /\ Spares(d6, d7, {func}) /\ d7.ptr[r] = h.ptr[r]
       /\ TreeAt(d7, h.ptr[r]) = T(<<x, z, w>>)
  <2>1. /\ Sound(d6) /\ r \in Handles /\ d6.ptr[r] \in Nodes /\ func \in Handles \ {r}
        /\ d7 = Drop(d6, func)
    BY <1>2, <1>3, <1>18 DEF d7
  <2>2. /\ Sound(d7) /\ Spares(d6, d7, {func}) /\ d7.ptr[r] = d6.ptr[r]
        /\ TreeAt(d7, d6.ptr[r]) = TreeAt(d6, d6.ptr[r])
    BY ONLY <2>1, VariableDropped
  <2>3. QED  BY <1>18, <2>2
<1>20. /\ Sound(d8) /\ Spares(d7, d8, {mul}) /\ d8.ptr[r] = h.ptr[r]
       /\ TreeAt(d8, h.ptr[r]) = T(<<x, z, w>>)
  <2>1. /\ Sound(d7) /\ r \in Handles /\ d7.ptr[r] \in Nodes /\ mul \in Handles \ {r}
        /\ d8 = Drop(d7, mul)
    BY <1>2, <1>3, <1>19 DEF d8
  <2>2. /\ Sound(d8) /\ Spares(d7, d8, {mul}) /\ d8.ptr[r] = d7.ptr[r]
        /\ TreeAt(d8, d7.ptr[r]) = TreeAt(d7, d7.ptr[r])
    BY ONLY <2>1, VariableDropped
  <2>3. QED  BY <1>19, <2>2
<1>21. Spares(h, d8, {r, mul, func, p2})
  <2>1. Spares(h, k4, {func, mul} \cup {r})
    BY <1>5, <1>9, SparesTwice
  <2>2. Spares(h, h4, ({func, mul} \cup {r}) \cup ({func} \cup {r}))
    BY <1>12, <2>1, SparesTwice
  <2>3. Spares(h, h4, {r, mul, func, p2})
    BY <2>2 DEF Spares
  <2>4. Spares(h4, h5, {p2} \cup ({p2} \cup {r}))
    BY <1>13, <1>17, SparesTwice
  <2>5. Spares(h4, d6, ({p2} \cup ({p2} \cup {r})) \cup {p2})
    BY <1>18, <2>4, SparesTwice
  <2>6. Spares(h4, d6, {r, mul, func, p2})
    BY <2>5 DEF Spares
  <2>7. Spares(d6, d8, {func} \cup {mul})
    BY <1>19, <1>20, SparesTwice
  <2>8. Spares(d6, d8, {r, mul, func, p2})
    BY <2>7 DEF Spares
  <2>9. QED  BY <2>3, <2>6, <2>8, SparesTwice
<1>22. QED  BY <1>1, <1>20, <1>21 DEF T, z, w, Conditional

(***************************************************************************)
(* What the callers see.                                                   *)
(***************************************************************************)

\* The trees of the objects.
View(h) == [r \in Objects |-> Tree(h, r)]

\* Between calls every object has a node.
Orderly(h) == Sound(h) /\ Good(h)

\* An object's tree is that of its node.
LEMMA ViewIs ==
  ASSUME NEW h, NEW r \in Objects
  PROVE  View(h)[r] = TreeAt(h, h.ptr[r]) /\ r \in Handles /\ r \notin Locals
<1>1. r \in Handles /\ r \notin Locals
  BY ObjectsAssumption DEF Handles
<1>2. QED  BY <1>1 DEF View, Tree, TreeAt, At

\* Views that agree on every object.
LEMMA ViewsEqual ==
  ASSUME NEW g, NEW v, v = [r \in Objects |-> v[r]], \A r \in Objects : TreeAt(g, g.ptr[r]) = v[r]
  PROVE  View(g) = v
<1>1. \A r \in Objects : View(g)[r] = v[r]
  BY ViewIs
<1>2. View(g) = [r \in Objects |-> View(g)[r]]
  BY DEF View
<1>3. QED  BY <1>1, <1>2

\* Two objects and variables of the functions got other trees.
LEMMA ViewTwo ==
  ASSUME NEW h, Good(h), NEW r \in Objects, NEW b \in Objects, NEW g, NEW Q, Spares(h, g, Q),
         Q \cap Objects \subseteq {r, b}
  PROVE  View(g) = [View(h) EXCEPT ![r] = TreeAt(g, g.ptr[r]), ![b] = TreeAt(g, g.ptr[b])]
<1> DEFINE v == [View(h) EXCEPT ![r] = TreeAt(g, g.ptr[r]), ![b] = TreeAt(g, g.ptr[b])]
<1>1. v = [q \in Objects |-> v[q]]
  BY DEF View
<1>2. ASSUME NEW q \in Objects
      PROVE  TreeAt(g, g.ptr[q]) = v[q]
  <2>1. CASE q = b
    BY <1>2, <2>1 DEF View
  <2>2. CASE q = r /\ q # b
    BY <1>2, <2>2 DEF View
  <2>3. CASE q # r /\ q # b
    <3>1. q \in Handles \ Q /\ h.ptr[q] \in Nodes
      BY <1>2, <2>3, ViewIs DEF Good
    <3>2. TreeAt(g, g.ptr[q]) = View(h)[q]
      BY <1>2, <3>1, ViewIs DEF Spares
    <3>3. QED  BY <1>2, <2>3, <3>2 DEF View
  <2>4. QED  BY <2>1, <2>2, <2>3
<1> HIDE DEF v
<1>3. View(g) = v
  BY <1>1, <1>2, ViewsEqual
<1>4. QED  BY <1>3 DEF v

\* One object did.
LEMMA ViewOne ==
  ASSUME NEW h, Good(h), NEW r \in Objects, NEW g, NEW Q, Spares(h, g, Q),
         Q \cap Objects \subseteq {r}
  PROVE  View(g) = [View(h) EXCEPT ![r] = TreeAt(g, g.ptr[r])]
<1>1. Q \cap Objects \subseteq {r, r}
  OBVIOUS
<1>2. View(g) = [View(h) EXCEPT ![r] = TreeAt(g, g.ptr[r]), ![r] = TreeAt(g, g.ptr[r])]
  BY <1>1, ViewTwo
<1>3. QED  BY <1>2 DEF View

\* A call that wrote the node of an object.
LEMMA ViewWrote ==
  ASSUME NEW h, Good(h), NEW r \in Objects, NEW g, NEW Q, NEW t, Wrote(h, g, Q, r, t),
         Q \cap Objects = {}
  PROVE  View(g) = [View(h) EXCEPT ![r] = t] /\ Sound(g)
<1>1. Spares(h, g, Q \cup {r}) /\ (Q \cup {r}) \cap Objects \subseteq {r}
  BY DEF Wrote
<1>2. View(g) = [View(h) EXCEPT ![r] = TreeAt(g, g.ptr[r])]
  BY ONLY <1>1, ViewOne, Good(h), r \in Objects
<1>3. QED  BY <1>2 DEF Wrote

\* Nothing that the objects see changed.
LEMMA ViewSame ==
  ASSUME NEW h, Good(h), NEW r \in Objects, NEW g, NEW Q, Spares(h, g, Q),
         Q \cap Objects \subseteq {r}, TreeAt(g, g.ptr[r]) = TreeAt(h, h.ptr[r])
  PROVE  View(g) = View(h)
<1>1. View(g) = [View(h) EXCEPT ![r] = TreeAt(h, h.ptr[r])]
  BY ViewOne
<1>2. View(h)[r] = TreeAt(h, h.ptr[r])
  BY ViewIs
<1>3. QED  BY <1>1, <1>2 DEF View

\* The call for r has made r the only owner of its node, which nobody sees.
Prepared(g, r) ==
  /\ Sound(g) /\ Good(g)
  /\ Mine(g, r)
  /\ Free(g) >= 2
  /\ View(g) = View(heap)
  /\ Params(g, r) = Params(heap, r)
  /\ Owned(heap, g, r)

\* CopyOnWrite() of the object that a call is for.
LEMMA OwnPrepared ==
  ASSUME Good(heap), Acyclic(heap), Room(heap, CallNodes), NEW r \in Objects
  PROVE  Prepared(Own(r), r)
<1> DEFINE g == Own(r)
<1>1. /\ r \in Handles /\ heap.ptr[r] \in Nodes /\ Sound(heap)
  BY ViewIs DEF Good, Sound
<1>2. /\ Owned(heap, g, r) /\ Good(g) /\ Free(g) >= 2 /\ Free(heap) >= 8
      /\ Params(g, r) = Params(heap, r)
  BY CallReady
<1>3. Free(heap) >= 1
  <2>1. Free(heap) \in Nat
    BY FreeType
  <2> HIDE DEF g
  <2>2. QED  BY <1>2, <2>1
<1>4. /\ Leaves(heap, g, {r}, {}) /\ TreeAt(g, g.ptr[r]) = TreeAt(heap, heap.ptr[r])
      /\ Unshared(g, r) /\ Private(g, r)
  BY <1>1, <1>3, OwnTree DEF Own
<1>5. Spares(heap, g, {r}) /\ Sound(g)
  BY <1>4 DEF Leaves, Spares
<1>6. {r} \cap Objects \subseteq {r}
  OBVIOUS
<1> HIDE DEF g
<1>7. View(g) = View(heap)
  BY <1>4, <1>5, <1>6, ViewSame
<1>8. Mine(g, r)
  BY <1>1, <1>2, <1>4 DEF Mine, Good
<1>9. QED  BY <1>2, <1>5, <1>7, <1>8 DEF Prepared, g

\* The trees that r can take a copy from.
Source(r) == {View(heap)[b] : b \in Objects \ {r}} \cup ToSet(View(heap)[r].params)

\* The trees of parameters are parameters of the tree.
LEMMA ParamTree ==
  ASSUME NEW h, Sound(h), Good(h), NEW r \in Objects
  PROVE  /\ DOMAIN View(h)[r].params = DOMAIN Params(h, r)
         /\ \A i \in DOMAIN Params(h, r) :
              /\ View(h)[r].params[i] = TreeAt(h, Params(h, r)[i])
              /\ View(h)[r].params[i] \in ToSet(View(h)[r].params)
<1>1. View(h)[r].params = TreesAt(h, Params(h, r))
  BY ViewIs, WithIs DEF Good
<1>2. QED  BY <1>1 DEF TreesAt, ToSet

\* What r takes a copy from.
LEMMA SourceTree ==
  ASSUME Good(heap), NEW r \in Objects, NEW g, Prepared(g, r), NEW b \in Sources(r)
  PROVE  /\ Now(g, r, b) \in Places(g) \ {r} /\ At(g, Now(g, r, b)) \in Nodes
         /\ TreeAt(g, At(g, Now(g, r, b))) \in Source(r)
         /\ \E q \in Objects : Anchored(g, Now(g, r, b), q)
<1>1. /\ Now(g, r, b) \in Places(g) /\ At(g, Now(g, r, b)) \in Live(g)
      /\ \E q \in Objects : Anchored(g, Now(g, r, b), q)
  BY NowHeld DEF Prepared
<1>2. At(g, Now(g, r, b)) \in Nodes
  BY <1>1 DEF Live
<1>3. CASE b \in Objects \ {r}
  <2>1. Now(g, r, b) = b /\ b # r /\ At(g, b) = g.ptr[b]
    BY <1>3, ViewIs DEF Now, At
  <2>2. TreeAt(g, g.ptr[b]) = View(heap)[b]
    BY <1>3, ViewIs DEF Prepared
  <2>3. QED  BY <1>1, <1>2, <1>3, <2>1, <2>2 DEF Source
<1>4. CASE b \notin Objects \ {r}
  <2>1. PICK i \in DOMAIN Params(heap, r) : b = <<heap.ptr[r], i>>
    BY <1>4, ViewIs DEF Sources, Param, At
  <2>2. i \in DOMAIN Params(g, r) /\ heap.ptr[r] \in Nodes
    BY <2>1 DEF Prepared, Owned, Good
  <2>3. b \notin Handles
    <3>1. Shape(heap) /\ Params(heap, r) = heap.node[heap.ptr[r]].Params
      BY ViewIs, ExactIs DEF Good, Params, data, At
    <3>2. <<heap.ptr[r], i>> \in Slots(heap)
      BY <2>1, <2>2, <3>1, PlacesTyped
    <3>3. QED  BY <2>1, <3>1, <3>2, PlacesTyped
  <2>4. Now(g, r, b) = <<g.ptr[r], i>> /\ r \in Handles
    BY <2>1, <2>3, ViewIs DEF Now, At
  <2>5. At(g, Now(g, r, b)) = Params(g, r)[i] /\ Now(g, r, b) # r
    <3>1. Shape(g) /\ g.ptr[r] \in Nodes /\ Params(g, r) = g.node[g.ptr[r]].Params
      BY <2>4, ExactIs DEF Prepared, Good, Params, data, At
    <3>2. QED  BY <2>2, <2>4, <3>1, PlacesTyped
  <2>6. TreeAt(g, Params(g, r)[i]) \in Source(r)
    BY <2>2, ParamTree DEF Prepared, Source
  <2>7. QED  BY <1>1, <1>2, <2>5, <2>6
<1>5. QED  BY <1>3, <1>4

(***************************************************************************)
(* Every step.                                                             *)
(***************************************************************************)

\* The lists of trees are lists as others.
LEMMA SameLists ==
  ASSUME NEW l
  PROVE  Values!ToSet(l) = ToSet(l) /\ \A i : Values!RemoveAt(l, i) = RemoveAt(l, i)
BY DEF Values!RemoveAt, RemoveAt, Values!ToSet, ToSet

\* What Added() has.
LEMMA AddedHas ==
  ASSUME NEW v, v = [q \in Objects |-> v[q]], NEW r \in Objects, NEW S
  PROVE  /\ \A t \in S :
              [v EXCEPT ![r] = Values!With(v[r], Append(v[r].params, t))] \in Values!Added(r, v, S)
         /\ \A b \in Objects \ {r} :
              /\ [v EXCEPT ![r] = Values!With(v[r], Append(v[r].params, v[b])),
                           ![b] = Values!NopTree] \in Values!Added(r, v, S)
              /\ [v EXCEPT ![r] = Values!With(v[r], v[r].params \o v[b].params)]
                   \in Values!Added(r, v, S)
              /\ [v EXCEPT ![r] = Values!With(v[r], v[r].params \o v[b].params),
                           ![b] = Values!With(v[b], [i \in DOMAIN v[b].params |-> Values!NopTree])]
                   \in Values!Added(r, v, S)
<1> DEFINE W(l) == [v EXCEPT ![r] = Values!With(v[r], l)]
           p == v[r].params
           A == {W(Append(p, t)) : t \in S}
           B(b) == {[v EXCEPT ![r] = Values!With(v[r], Append(p, v[b])), ![b] = Values!NopTree],
                    W(p \o v[b].params),
                    [v EXCEPT ![r] = Values!With(v[r], p \o v[b].params),
                              ![b] = Values!With(@, [i \in DOMAIN v[b].params |-> Values!NopTree])]}
<1>1. Values!Added(r, v, S) = A \cup UNION {B(b) : b \in Objects \ {r}}
  BY DEF Values!Added
<1>2. ASSUME NEW b \in Objects \ {r}
      PROVE  [v EXCEPT ![r] = Values!With(v[r], p \o v[b].params),
                       ![b] = Values!With(v[b], [i \in DOMAIN v[b].params |-> Values!NopTree])]
               \in B(b)
  BY DEF B
<1>3. QED  BY <1>1, <1>2

\* What Changed() has.
LEMMA ChangedHas ==
  ASSUME NEW v, v = [q \in Objects |-> v[q]], NEW r \in Objects, NEW S
  PROVE  /\ \A t \in S : \A i \in DOMAIN v[r].params :
              [v EXCEPT ![r] = Values!With(v[r], [v[r].params EXCEPT ![i] = t])]
                \in Values!Changed(r, v, S)
         /\ \A b \in Objects \ {r} :
              /\ \A i \in DOMAIN v[r].params :
                   [v EXCEPT ![r] = Values!With(v[r], [v[r].params EXCEPT ![i] = v[b]]),
                             ![b] = v[r].params[i]] \in Values!Changed(r, v, S)
              /\ [v EXCEPT ![r] = Values!With(v[r], v[b].params)] \in Values!Changed(r, v, S)
              /\ [v EXCEPT ![r] = Values!With(v[r], v[b].params), ![b] = Values!With(v[b], <<>>)]
                   \in Values!Changed(r, v, S)
<1> DEFINE W(l) == [v EXCEPT ![r] = Values!With(v[r], l)]
           p == v[r].params
           X(t, i) == W([p EXCEPT ![i] = t])
           A == {X(t, i) : t \in S, i \in DOMAIN p}
           C(b) == {[v EXCEPT ![r] = Values!With(v[r], [p EXCEPT ![i] = v[b]]),
                              ![b] = p[i]] : i \in DOMAIN p}
           D(b) == {W(v[b].params),
                    [v EXCEPT ![r] = Values!With(v[r], v[b].params), ![b] = Values!With(@, <<>>)]}
<1>1. Values!Changed(r, v, S) = A \cup UNION {C(b) \cup D(b) : b \in Objects \ {r}}
  BY DEF Values!Changed
<1>2. ASSUME NEW b \in Objects \ {r}
      PROVE  [v EXCEPT ![r] = Values!With(v[r], v[b].params), ![b] = Values!With(v[b], <<>>)] \in D(b)
  BY DEF D
<1>3. ASSUME NEW b \in Objects \ {r}
      PROVE  /\ \A i \in DOMAIN p : [v EXCEPT ![r] = Values!With(v[r], [p EXCEPT ![i] = v[b]]),
                                            ![b] = p[i]] \in C(b)
             /\ W(v[b].params) \in D(b)
  OBVIOUS
<1>4. ASSUME NEW t \in S, NEW i \in DOMAIN p
      PROVE  X(t, i) \in A
  <2> HIDE DEF X
  <2>1. QED  OBVIOUS
<1> HIDE DEF A, C, D
<1>5. \A b \in Objects \ {r} : C(b) \subseteq Values!Changed(r, v, S) /\ D(b) \subseteq Values!Changed(r, v, S)
  BY <1>1
<1>6. A \subseteq Values!Changed(r, v, S)
  BY <1>1
<1>7. QED  BY <1>2, <1>3, <1>4, <1>5, <1>6

\* What Adopted() and ShortenedBelow() have.
LEMMA AdoptedHas ==
  ASSUME NEW v, v = [q \in Objects |-> v[q]], NEW r \in Objects, NEW i \in DOMAIN v[r].params
  PROVE  /\ [v EXCEPT ![r] = Values!With(v[r], RemoveAt(v[r].params, i) \o v[r].params[i].params)]
              \in Values!Adopted(r, v)
         /\ [v EXCEPT ![r] = Values!With(v[r], v[r].params[i].params)] \in Values!Adopted(r, v)
         /\ \A j \in DOMAIN v[r].params[i].params :
              [v EXCEPT ![r] = Values!With(v[r],
                 [v[r].params EXCEPT ![i] = Values!With(v[r].params[i],
                                                        RemoveAt(v[r].params[i].params, j))])]
                \in Values!ShortenedBelow(r, v)
<1> DEFINE p == v[r].params
           A(k) == {[v EXCEPT ![r] = Values!With(v[r], RemoveAt(p, k) \o p[k].params)],
                    [v EXCEPT ![r] = Values!With(v[r], p[k].params)]}
           B(k) == {[v EXCEPT ![r].params[k].params = Values!RemoveAt(@, j)] : j \in DOMAIN p[k].params}
<1>1. Values!Adopted(r, v) = UNION {A(k) : k \in DOMAIN p}
  BY SameLists DEF Values!Adopted
<1>2. Values!ShortenedBelow(r, v) = UNION {B(k) : k \in DOMAIN p}
  BY DEF Values!ShortenedBelow
<1>3. ASSUME NEW j \in DOMAIN p[i].params
      PROVE  [v EXCEPT ![r].params[i].params = Values!RemoveAt(@, j)]
               = [v EXCEPT ![r] = Values!With(v[r],
                    [p EXCEPT ![i] = Values!With(p[i], RemoveAt(p[i].params, j))])]
  BY SameLists DEF Values!With
<1>4. ASSUME NEW j \in DOMAIN p[i].params
      PROVE  [v EXCEPT ![r] = Values!With(v[r],
                [p EXCEPT ![i] = Values!With(p[i], RemoveAt(p[i].params, j))])] \in B(i)
  BY <1>3
<1>5. A(i) \subseteq Values!Adopted(r, v)
  BY <1>1
<1> HIDE DEF B
<1>6. B(i) \subseteq Values!ShortenedBelow(r, v)
  BY <1>2
<1>7. QED  BY <1>4, <1>5, <1>6

\* A call may end with the heap g: the objects see one of the results V.
Yields(g, V) == Sound(g) /\ View(g) \in V

\* Assign() and BecomeStep().
LEMMA AssignView ==
  ASSUME Orderly(heap), Free(heap) >= 1, NEW r \in Objects
  PROVE  /\ \A d \in LeafData :
              Yields(Construct(heap, r, d), Values!Assigned(r, View(heap), Source(r)))
         /\ \A b \in Sources(r) :
              /\ Yields(ChangeTo(heap, r, At(heap, b)), Values!Assigned(r, View(heap), Source(r)))
              /\ Yields(Become(heap, r, b), Values!Assigned(r, View(heap), Source(r)))
<1> DEFINE V == Values!Assigned(r, View(heap), Source(r))
<1>1. /\ r \in Handles /\ heap.ptr[r] \in Nodes /\ Sound(heap) /\ Good(heap) /\ Exact(heap)
      /\ r \notin {tmp} /\ {tmp} \cap Objects = {}
  BY ViewIs DEF Orderly, Good, Locals
<1>2. \A t \in LeafTrees \cup Source(r) : [View(heap) EXCEPT ![r] = t] \in V
  BY DEF Values!Assigned
<1> HIDE DEF V
<1>3. ASSUME NEW d \in LeafData
      PROVE  Yields(Construct(heap, r, d), V)
  <2> DEFINE g == Construct(heap, r, d)
  <2>1. d = Data(d.Opcode, d.Value, <<>>) /\ d.Opcode # "deleted" /\ d.Params = <<>>
    <3>1. d = Data(d.Opcode, d.Value, <<>>) /\ d.Opcode # "deleted"
      BY LeavesAssumption
    <3>2. Data(d.Opcode, d.Value, <<>>).Params = <<>>
      BY DEF Data
    <3>3. QED  BY <3>1, <3>2
  <2>2. Renewed(heap, g, r, d)
    BY <1>1, <2>1, NodeConstructed
  <2>3. \A i \in DOMAIN d.Params : d.Params[i] \in Live(heap)
    BY <2>1
  <2> HIDE DEF g
  <2>4. Leaves(heap, g, {r}, {}) /\ TreeAt(g, g.ptr[r]) = TreeOf(d, TreesAt(heap, d.Params))
    BY <1>1, <2>2, <2>3, RenewedTree
  <2>5. TreeOf(d, TreesAt(heap, d.Params)) \in LeafTrees
    <3>1. TreesAt(heap, d.Params) = <<>>
      BY <2>1 DEF TreesAt
    <3>2. QED  BY <3>1 DEF LeafTrees, TreeOf
  <2>6. Spares(heap, g, {r}) /\ {r} \cap Objects \subseteq {r} /\ Sound(g)
    BY <2>4 DEF Leaves, Spares
  <2>7. View(g) = [View(heap) EXCEPT ![r] = TreeAt(g, g.ptr[r])]
    BY <1>1, <2>6, ViewOne
  <2>8. QED  BY <1>2, <2>4, <2>5, <2>6, <2>7 DEF Yields, g
<1>4. ASSUME NEW b \in Sources(r)
      PROVE  At(heap, b) \in Live(heap) /\ TreeAt(heap, At(heap, b)) \in Source(r)
  <2>1. At(heap, b) \in Live(heap)
    BY <1>1, SourcesHeld
  <2>2. CASE b \in Objects \ {r}
    <3>1. View(heap)[b] = TreeAt(heap, heap.ptr[b]) /\ At(heap, b) = heap.ptr[b]
      BY <2>2, ViewIs DEF At
    <3>2. View(heap)[b] \in Source(r)
      BY <2>2 DEF Source
    <3>3. QED  BY <2>1, <3>1, <3>2
  <2>3. CASE b \notin Objects \ {r}
    <3>1. PICK i \in DOMAIN Params(heap, r) : b = <<heap.ptr[r], i>>
      BY <1>1, <2>3 DEF Sources, Param, At
    <3>2. Shape(heap) /\ Params(heap, r) = heap.node[heap.ptr[r]].Params
      BY <1>1, ExactIs DEF Params, data, At
    <3>3. At(heap, b) = Params(heap, r)[i]
      BY <1>1, <3>1, <3>2, PlacesTyped
    <3>4. View(heap)[r].params[i] = TreeAt(heap, Params(heap, r)[i])
          /\ View(heap)[r].params[i] \in ToSet(View(heap)[r].params)
      BY <1>1, <3>1, ParamTree
    <3>5. QED  BY <2>1, <3>3, <3>4 DEF Source
  <2>4. QED  BY <2>1, <2>2, <2>3
<1>5. ASSUME NEW b \in Sources(r)
      PROVE  Yields(ChangeTo(heap, r, At(heap, b)), V)
  <2> DEFINE n == At(heap, b)
             g == ChangeTo(heap, r, n)
  <2>1. n \in Live(heap)
    BY <1>4
  <2> HIDE DEF n
  <2>2. Leaves(heap, g, {r}, {}) /\ g.ptr[r] = n /\ TreeAt(g, n) = TreeAt(heap, n)
    BY <1>1, <2>1, ChangeToTree
  <2> HIDE DEF g
  <2>3. Spares(heap, g, {r}) /\ {r} \cap Objects \subseteq {r} /\ Sound(g)
    BY <2>2 DEF Leaves, Spares
  <2>4. View(g) = [View(heap) EXCEPT ![r] = TreeAt(heap, n)]
    BY <1>1, <2>2, <2>3, ViewOne
  <2>5. QED  BY <1>2, <1>4, <2>3, <2>4 DEF Yields, g, n
<1>6. ASSUME NEW b \in Sources(r)
      PROVE  Yields(Become(heap, r, b), V)
  <2> DEFINE n == At(heap, b)
             g == Become(heap, r, b)
  <2>1. n \in Live(heap)
    BY <1>4
  <2>2. /\ Sound(g) /\ Spares(heap, g, {r, tmp}) /\ g.ptr[r] = n
        /\ TreeAt(g, n) = TreeAt(heap, n)
    BY <1>1, <2>1, BecomeTree
  <2> HIDE DEF g, n
  <2>3. {r, tmp} \cap Objects \subseteq {r}
    BY <1>1
  <2>4. View(g) = [View(heap) EXCEPT ![r] = TreeAt(heap, n)]
    BY <1>1, <2>2, <2>3, ViewOne
  <2>5. QED  BY <1>2, <1>4, <2>2, <2>4 DEF Yields, g, n
<1>7. QED  BY <1>3, <1>5, <1>6 DEF V

\* Exchange().
LEMMA ExchangeView ==
  ASSUME Orderly(heap), NEW r \in Objects, NEW b \in Objects \ {r}
  PROVE  Yields(Swap(heap, r, b), Values!Exchanged(r, View(heap)))
<1> DEFINE g == Swap(heap, r, b)
<1>1. /\ r \in Handles /\ heap.ptr[r] \in Nodes /\ Sound(heap) /\ Good(heap)
      /\ b \in Handles /\ heap.ptr[b] \in Nodes
  BY ViewIs DEF Orderly, Good
<1>2. /\ Leaves(heap, g, {r, b}, {}) /\ g.ptr[r] = heap.ptr[b] /\ g.ptr[b] = heap.ptr[r]
      /\ TreeAt(g, heap.ptr[r]) = TreeAt(heap, heap.ptr[r])
      /\ TreeAt(g, heap.ptr[b]) = TreeAt(heap, heap.ptr[b])
  BY <1>1, SwapTree
<1> HIDE DEF g
<1>3. Spares(heap, g, {r, b}) /\ {r, b} \cap Objects \subseteq {r, b} /\ Sound(g)
  BY <1>2 DEF Leaves, Spares
<1>4. View(g) = [View(heap) EXCEPT ![r] = TreeAt(heap, heap.ptr[b]),
                                   ![b] = TreeAt(heap, heap.ptr[r])]
  BY <1>1, <1>2, <1>3, ViewTwo
<1>5. View(g) = [View(heap) EXCEPT ![r] = View(heap)[b], ![b] = View(heap)[r]]
  BY <1>4, ViewIs
<1>6. QED  BY <1>3, <1>5 DEF Yields, Values!Exchanged, g

\* SetOpcodeStep().
LEMMA OpcodeView ==
  ASSUME NEW r \in Objects, NEW h, Prepared(h, r), NEW o \in Opcodes
  PROVE  Yields(SetOpcode(h, r, o), Values!Renamed(r, View(heap)))
<1> DEFINE g == SetOpcode(h, r, o)
           t == [TreeAt(h, h.ptr[r]) EXCEPT !.opcode = o]
<1>1. o # "deleted"
  BY OpcodesAssumption
<1>2. Wrote(h, g, {}, r, t) /\ {} \cap Objects = {} /\ Good(h)
  BY <1>1, SetOpcodeTree DEF Prepared
<1> HIDE DEF g
<1>3. View(g) = [View(heap) EXCEPT ![r] = t] /\ Sound(g)
  BY <1>2, ViewWrote DEF Prepared
<1>4. t = [View(heap)[r] EXCEPT !.opcode = o]
  BY ViewIs DEF Prepared
<1>5. View(g) = [View(heap) EXCEPT ![r].opcode = o]
  BY <1>3, <1>4
<1>6. QED  BY <1>3, <1>5 DEF Yields, Values!Renamed, g

\* Delete().
LEMMA DeleteView ==
  ASSUME NEW r \in Objects, NEW h, Prepared(h, r)
  PROVE  /\ Yields(DelParams(h, r), Values!Shortened(r, View(heap)))
         /\ \A i \in DOMAIN Params(h, r) :
              Yields(DelParam(h, r, i), Values!Shortened(r, View(heap)))
<1> DEFINE t == View(heap)[r]
<1>1. Sound(h) /\ Mine(h, r) /\ Good(h) /\ {} \cap Objects = {} /\ TreeAt(h, h.ptr[r]) = t
      /\ DOMAIN t.params = DOMAIN Params(h, r)
  BY ViewIs, ParamTree DEF Prepared
<1>2. /\ Wrote(h, DelParams(h, r), {}, r, Values!With(t, <<>>))
      /\ \A i \in DOMAIN Params(h, r) :
           Wrote(h, DelParam(h, r, i), {}, r, Values!With(t, RemoveAt(t.params, i)))
  BY <1>1, DelParamsTree
<1>3. /\ View(h) = View(heap)
      /\ [View(heap) EXCEPT ![r] = Values!With(t, <<>>)] \in Values!Shortened(r, View(heap))
      /\ \A i \in DOMAIN Params(h, r) :
           [View(heap) EXCEPT ![r] = Values!With(t, RemoveAt(t.params, i))]
             \in Values!Shortened(r, View(heap))
  <2>1. \A q \in {<<>>} \cup {RemoveAt(t.params, i) : i \in DOMAIN t.params} :
          [View(heap) EXCEPT ![r] = Values!With(t, q)] \in Values!Shortened(r, View(heap))
    BY SameLists DEF Values!Shortened
  <2>2. <<>> \in {<<>>} \cup {RemoveAt(t.params, i) : i \in DOMAIN t.params}
    OBVIOUS
  <2>3. \A i \in DOMAIN Params(h, r) :
          RemoveAt(t.params, i) \in {<<>>} \cup {RemoveAt(t.params, j) : j \in DOMAIN t.params}
    BY <1>1
  <2> HIDE DEF t
  <2>4. QED  BY <2>1, <2>2, <2>3 DEF Prepared
<1> HIDE DEF t
<1>4. Yields(DelParams(h, r), Values!Shortened(r, View(heap)))
  BY <1>1, <1>2, <1>3, ViewWrote DEF Yields
<1>5. ASSUME NEW i \in DOMAIN Params(h, r)
      PROVE  Yields(DelParam(h, r, i), Values!Shortened(r, View(heap)))
  <2>1. Wrote(h, DelParam(h, r, i), {}, r, Values!With(t, RemoveAt(t.params, i)))
    BY <1>2
  <2>2. View(DelParam(h, r, i)) = [View(h) EXCEPT ![r] = Values!With(t, RemoveAt(t.params, i))]
        /\ Sound(DelParam(h, r, i))
    BY <1>1, <2>1, ViewWrote
  <2>3. QED  BY <1>3, <2>2 DEF Yields
<1>6. QED  BY <1>4, <1>5

\* Add(), of copies and of what is left alone.
LEMMA AddView ==
  ASSUME Good(heap), NEW r \in Objects, NEW h, Prepared(h, r)
  PROVE  /\ \A b \in Sources(r) :
              Yields(AddParam(h, r, Now(h, r, b)), Values!Added(r, View(heap), Source(r)))
         /\ \A b \in Objects \ {r} :
              /\ Yields(AddParamMove(h, r, b), Values!Added(r, View(heap), Source(r)))
              /\ Yields(AddParams(h, r, b), Values!Added(r, View(heap), Source(r)))
<1> DEFINE v == View(heap)
           p == v[r].params
           V == Values!Added(r, v, Source(r))
<1>1. Sound(h) /\ Mine(h, r) /\ Good(h) /\ {} \cap Objects = {} /\ TreeAt(h, h.ptr[r]) = v[r]
      /\ View(h) = v /\ Free(h) >= 1 /\ r \in Handles
  <2>1. Free(h) \in Nat
    BY FreeType
  <2>2. Free(h) >= 1
    BY <2>1 DEF Prepared
  <2>3. QED  BY <2>2, ViewIs DEF Prepared
<1>2. /\ \A t \in Source(r) : [v EXCEPT ![r] = Values!With(v[r], Append(p, t))] \in V
      /\ \A b \in Objects \ {r} :
           /\ [v EXCEPT ![r] = Values!With(v[r], Append(p, v[b])), ![b] = Values!NopTree] \in V
           /\ [v EXCEPT ![r] = Values!With(v[r], p \o v[b].params)] \in V
  <2>1. v = [q \in Objects |-> v[q]]
    BY DEF View
  <2> HIDE DEF v
  <2>2. QED  BY <2>1, AddedHas
<1> HIDE DEF v, p, V
<1>3. ASSUME NEW b \in Sources(r)
      PROVE  Yields(AddParam(h, r, Now(h, r, b)), V)
  <2> DEFINE c == Now(h, r, b)
             g == AddParam(h, r, c)
             t == TreeAt(h, At(h, c))
  <2>1. c \in Places(h) \ {r} /\ At(h, c) \in Nodes /\ t \in Source(r)
    BY SourceTree
  <2> HIDE DEF c
  <2>2. Wrote(h, g, {}, r, Values!With(TreeAt(h, h.ptr[r]), Append(TreeAt(h, h.ptr[r]).params, t)))
    BY <1>1, <2>1, AddParamTree
  <2> HIDE DEF g, t
  <2>3. Wrote(h, g, {}, r, Values!With(v[r], Append(p, t)))
    BY <1>1, <2>2 DEF p
  <2>4. View(g) = [View(h) EXCEPT ![r] = Values!With(v[r], Append(p, t))] /\ Sound(g)
    BY <1>1, <2>3, ViewWrote
  <2>5. QED  BY <1>1, <1>2, <2>1, <2>4 DEF Yields, g, c
<1>4. ASSUME NEW b \in Objects \ {r}
      PROVE  b \in Handles \ {r} /\ b \in Handles /\ h.ptr[b] \in Nodes /\ TreeAt(h, h.ptr[b]) = v[b]
  BY <1>1, ViewIs DEF Good
<1>5. ASSUME NEW b \in Objects \ {r}
      PROVE  Yields(AddParamMove(h, r, b), V)
  <2> DEFINE g == AddParamMove(h, r, b)
  <2>1. /\ Wrote(h, g, {b}, r,
                 Values!With(TreeAt(h, h.ptr[r]), Append(TreeAt(h, h.ptr[r]).params, TreeAt(h, h.ptr[b]))))
        /\ TreeAt(g, g.ptr[b]) = Values!NopTree
    BY <1>1, <1>4, AddParamMoveTree
  <2> HIDE DEF g
  <2>2. Wrote(h, g, {b}, r, Values!With(v[r], Append(p, v[b])))
    BY <1>1, <1>4, <2>1 DEF p
  <2>3. Spares(h, g, {b} \cup {r}) /\ Sound(g) /\ TreeAt(g, g.ptr[r]) = Values!With(v[r], Append(p, v[b]))
    BY <2>2 DEF Wrote
  <2>4. ({b} \cup {r}) \cap Objects \subseteq {r, b} /\ b \in Objects
    OBVIOUS
  <2>5. View(g) = [View(h) EXCEPT ![r] = TreeAt(g, g.ptr[r]), ![b] = TreeAt(g, g.ptr[b])]
    BY ONLY <1>1, <2>3, <2>4, ViewTwo, r \in Objects
  <2>6. QED  BY <1>1, <1>2, <2>1, <2>3, <2>5 DEF Yields, g
<1>6. ASSUME NEW b \in Objects \ {r}
      PROVE  Yields(AddParams(h, r, b), V)
  <2> DEFINE g == AddParams(h, r, b)
  <2>1. Wrote(h, g, {}, r,
              Values!With(TreeAt(h, h.ptr[r]), TreeAt(h, h.ptr[r]).params \o TreeAt(h, h.ptr[b]).params))
    BY <1>1, <1>4, AddParamsTree
  <2> HIDE DEF g
  <2>2. Wrote(h, g, {}, r, Values!With(v[r], p \o v[b].params))
    BY <1>1, <1>4, <2>1 DEF p
  <2>3. View(g) = [View(h) EXCEPT ![r] = Values!With(v[r], p \o v[b].params)] /\ Sound(g)
    BY <1>1, <2>2, ViewWrote
  <2>4. QED  BY <1>1, <1>2, <2>3 DEF Yields, g
<1>7. QED  BY <1>3, <1>5, <1>6 DEF V, v

\* The node of b is b's own too, or a copy: r keeps its own.
LEMMA BothOwned ==
  ASSUME NEW r \in Objects, NEW h, Prepared(h, r), NEW b \in Objects \ {r}, NEW g, g = CopyOnWrite(h, b)
  PROVE  /\ Sound(g) /\ Good(g) /\ Mine(g, r) /\ Free(g) >= 1
         /\ b \in Handles \ {r} /\ g.ptr[b] \in Nodes
         /\ Loose(g, b) /\ Lends(g, b, g.ptr[r]) /\ Sharers(g, b) = {b}
         /\ View(g) = View(heap)
<1>1. /\ Sound(h) /\ Good(h) /\ Mine(h, r) /\ r \in Handles /\ Free(h) \in Nat /\ Free(g) \in Nat
      /\ b \in Handles /\ h.ptr[b] \in Nodes /\ h.ptr[r] \in Nodes /\ b # r
  BY ViewIs, FreeType DEF Prepared, Good
<1>2. Free(h) >= 1 /\ Free(h) >= 2
  BY <1>1 DEF Prepared
<1>3. /\ Leaves(h, g, {b}, {}) /\ Copied(h, g, b) /\ TreeAt(g, g.ptr[b]) = TreeAt(h, h.ptr[b])
      /\ g.ptr[b] \in Live(g) /\ Unshared(g, b) /\ Private(g, b) /\ Params(g, b) = Params(h, b)
  BY <1>1, <1>2, OwnTree
<1>4. Does(h, g, {b}, {}, 1) /\ At(g, b) = g.ptr[b] /\ (g.ptr[b] \in Live(h) => g = h)
      /\ Params(g, b) = g.node[g.ptr[b]].Params
  BY <1>1, <1>3 DEF Copied, Inside, At, Params, data
<1>5. Good(g)
  BY <1>1, <1>2, ObjectOwned DEF Owned
<1>6. Free(g) >= 1
  BY <1>1, <1>2, <1>4 DEF Does
<1>7. Mine(g, r)
  <2>1. \A q \in {b} \cap Handles : g.ptr[q] # h.ptr[r]
    <3>1. g.ptr[r] = h.ptr[r]
      BY <1>1, <1>4 DEF Does
    <3>2. QED  BY <1>1, <1>3, <1>4, <3>1 DEF Unshared
  <2>2. ASSUME NEW n \in Live(g), n \notin Live(h), NEW i \in DOMAIN g.node[n].Params
        PROVE  g.node[n].Params[i] # h.ptr[r]
    <3>1. g.ptr[b] \notin Live(h)
      BY <1>4, <2>2
    <3>2. n = g.ptr[b]
      BY <1>3, <1>4, <2>2, <3>1 DEF Does, Born
    <3>3. g.node[n].Params = Params(h, b)
      BY <1>3, <1>4, <3>2
    <3>4. QED  BY <1>1, <2>2, <3>3, MineApart
  <2>3. \A n \in Live(g) : n \notin Live(h) \/ n \in {} =>
          \A i \in DOMAIN g.node[n].Params : g.node[n].Params[i] # h.ptr[r]
    BY <2>2
  <2>4. r \notin {b}
    BY <1>1
  <2>5. QED  BY <1>1, <1>4, <2>1, <2>3, <2>4, MineKept
<1>8. Loose(g, b)
  <2>1. Shape(g)
    BY <1>5, ExactIs DEF Good
  <2>2. ASSUME NEW n \in Live(g), NEW i \in DOMAIN g.node[n].Params
        PROVE  g.node[n].Params[i] # g.ptr[b]
    <3>1. <<n, i>> \in Slots(g) /\ At(g, <<n, i>>) = g.node[n].Params[i] /\ <<n, i>> \notin Handles
      BY <2>1, <2>2, PlacesTyped DEF Live
    <3>2. QED  BY <1>1, <1>3, <1>4, <3>1 DEF Private
  <2>3. QED  BY <2>2 DEF Loose
<1>9. Lends(g, b, g.ptr[r]) /\ Sharers(g, b) = {b} /\ b \in Handles \ {r} /\ g.ptr[b] \in Nodes /\ Sound(g)
  BY <1>1, <1>3, <1>4, <1>8 DEF Lends, Loose, Sharers, Unshared, Leaves, Live
<1>10. View(g) = View(heap)
  <2>1. Spares(h, g, {b}) /\ {b} \cap Objects \subseteq {b} /\ b \in Objects
    BY <1>3 DEF Leaves, Spares
  <2>2. View(g) = View(h)
    BY <1>1, <1>3, <2>1, ViewSame
  <2>3. QED  BY <2>2 DEF Prepared
<1>11. QED  BY <1>5, <1>6, <1>7, <1>8, <1>9, <1>10

\* r and b got other trees.
LEMMA ViewPassed ==
  ASSUME NEW h, Good(h), NEW r \in Objects, NEW b \in Objects \ {r}, Sharers(h, b) = {b},
         NEW g, NEW t, NEW u, Passed(h, g, r, b, t, u)
  PROVE  View(g) = [View(h) EXCEPT ![r] = t, ![b] = u] /\ Sound(g)
<1>1. /\ Spares(h, g, {r} \cup {b}) /\ TreeAt(g, g.ptr[r]) = t /\ TreeAt(g, g.ptr[b]) = u
      /\ Sound(g) /\ ({r} \cup {b}) \cap Objects \subseteq {r, b} /\ b \in Objects
  BY DEF Passed
<1>2. View(g) = [View(h) EXCEPT ![r] = TreeAt(g, g.ptr[r]), ![b] = TreeAt(g, g.ptr[b])]
  BY ONLY <1>1, ViewTwo, Good(h), r \in Objects
<1>3. QED  BY <1>1, <1>2

\* AddParamsMove() and SetParamsMove(), in Add() and Set().
LEMMA MoveView ==
  ASSUME NEW r \in Objects, NEW h, Prepared(h, r), NEW b \in Objects \ {r}
  PROVE  /\ Yields(AddParamsMove(CopyOnWrite(h, b), r, b),
                   Values!Added(r, View(heap), Source(r)))
         /\ Yields(SetParamsMove(CopyOnWrite(h, b), r, b),
                   Values!Changed(r, View(heap), Source(r)))
<1> DEFINE u == CopyOnWrite(h, b)
           v == View(heap)
           x == AddParamsMove(u, r, b)
           y == SetParamsMove(u, r, b)
<1>1. v = [q \in Objects |-> v[q]]
  BY DEF View
<1>2. /\ Sound(u) /\ Good(u) /\ Mine(u, r) /\ Free(u) >= 1
      /\ b \in Handles \ {r} /\ u.ptr[b] \in Nodes
      /\ Loose(u, b) /\ Lends(u, b, u.ptr[r]) /\ Sharers(u, b) = {b} /\ View(u) = v
  BY BothOwned
<1> HIDE DEF u, v
<1>3. TreeAt(u, u.ptr[r]) = v[r] /\ TreeAt(u, u.ptr[b]) = v[b]
  BY <1>2, ViewIs
<1>4. Yields(x, Values!Added(r, v, Source(r)))
  <2>1. Passed(u, x, r, b, Values!With(v[r], v[r].params \o v[b].params),
               Values!With(v[b], [i \in DOMAIN v[b].params |-> Values!NopTree]))
    BY <1>2, <1>3, AddParamsMoveTree
  <2> HIDE DEF x
  <2>2. View(x) = [v EXCEPT ![r] = Values!With(v[r], v[r].params \o v[b].params),
                            ![b] = Values!With(v[b], [i \in DOMAIN v[b].params |-> Values!NopTree])]
        /\ Sound(x)
    BY <1>2, <2>1, ViewPassed
  <2>3. [v EXCEPT ![r] = Values!With(v[r], v[r].params \o v[b].params),
                  ![b] = Values!With(v[b], [i \in DOMAIN v[b].params |-> Values!NopTree])]
          \in Values!Added(r, v, Source(r))
    BY <1>1, AddedHas
  <2>4. QED  BY <2>2, <2>3 DEF Yields
<1>5. Yields(y, Values!Changed(r, v, Source(r)))
  <2>1. Passed(u, y, r, b, Values!With(v[r], v[b].params), Values!With(v[b], <<>>))
    BY <1>2, <1>3, SetParamsMoveTree
  <2> HIDE DEF y
  <2>2. View(y) = [v EXCEPT ![r] = Values!With(v[r], v[b].params), ![b] = Values!With(v[b], <<>>)]
        /\ Sound(y)
    BY <1>2, <2>1, ViewPassed
  <2>3. [v EXCEPT ![r] = Values!With(v[r], v[b].params), ![b] = Values!With(v[b], <<>>)]
          \in Values!Changed(r, v, Source(r))
    BY <1>1, ChangedHas
  <2>4. QED  BY <2>2, <2>3 DEF Yields
<1>6. QED  BY <1>4, <1>5 DEF u, v

\* Set().
LEMMA SetView ==
  ASSUME Good(heap), NEW r \in Objects, NEW h, Prepared(h, r)
  PROVE  /\ \A i \in DOMAIN Params(h, r) :
              /\ \A b \in Sources(r) :
                   Yields(SetParam(h, r, i, Now(h, r, b)), Values!Changed(r, View(heap), Source(r)))
              /\ \A b \in Objects \ {r} :
                   Yields(SetParamMove(h, r, i, b), Values!Changed(r, View(heap), Source(r)))
         /\ \A b \in Objects \ {r} :
              Yields(SetParams(h, r, b), Values!Changed(r, View(heap), Source(r)))
<1> DEFINE v == View(heap)
           p == v[r].params
           V == Values!Changed(r, v, Source(r))
<1>1. Sound(h) /\ Mine(h, r) /\ Good(h) /\ {} \cap Objects = {} /\ TreeAt(h, h.ptr[r]) = v[r]
      /\ View(h) = v /\ r \in Handles /\ r # holder /\ {holder} \cap Objects = {}
      /\ DOMAIN Params(h, r) = DOMAIN p
  BY ViewIs, ParamTree DEF Prepared, Locals
<1>2. v = [q \in Objects |-> v[q]]
  BY DEF View
<1> HIDE DEF v
<1>3. /\ \A t \in Source(r) : \A i \in DOMAIN p :
           [v EXCEPT ![r] = Values!With(v[r], [p EXCEPT ![i] = t])] \in V
      /\ \A b \in Objects \ {r} :
           /\ \A i \in DOMAIN p :
                [v EXCEPT ![r] = Values!With(v[r], [p EXCEPT ![i] = v[b]]), ![b] = p[i]] \in V
           /\ [v EXCEPT ![r] = Values!With(v[r], v[b].params)] \in V
  BY <1>2, ChangedHas
<1> HIDE DEF p, V
<1>4. ASSUME NEW b \in Objects \ {r}
      PROVE  /\ b \in Handles \ {r, holder} /\ b \in Handles /\ h.ptr[b] \in Nodes
             /\ TreeAt(h, h.ptr[b]) = v[b]
  BY <1>1, ViewIs DEF Good, Locals
<1>5. ASSUME NEW i \in DOMAIN Params(h, r), NEW b \in Sources(r)
      PROVE  Yields(SetParam(h, r, i, Now(h, r, b)), V)
  <2> DEFINE c == Now(h, r, b)
             g == SetParam(h, r, i, c)
             t == TreeAt(h, At(h, c))
             l == [p EXCEPT ![i] = t]
  <2>1. c # r /\ At(h, c) \in Nodes /\ t \in Source(r) /\ \E q \in Objects : Anchored(h, c, q)
    BY SourceTree
  <2> HIDE DEF c
  <2>2. PICK q \in Objects : Anchored(h, c, q)
    BY <2>1
  <2>3. q # holder
    BY <1>1
  <2>4. Wrote(h, g, {holder}, r, Values!With(TreeAt(h, h.ptr[r]), [TreeAt(h, h.ptr[r]).params EXCEPT ![i] = t]))
    BY <1>1, <2>1, <2>2, <2>3, SetParamTree
  <2> HIDE DEF g, t
  <2>5. Wrote(h, g, {holder}, r, Values!With(v[r], l))
    BY <1>1, <2>4 DEF p
  <2>6. [v EXCEPT ![r] = Values!With(v[r], l)] \in V
    BY <1>1, <1>3, <2>1
  <2> HIDE DEF l
  <2>7. View(g) = [View(h) EXCEPT ![r] = Values!With(v[r], l)] /\ Sound(g)
    BY <1>1, <2>5, ViewWrote
  <2>8. QED  BY <1>1, <2>6, <2>7 DEF Yields, g, c
<1>6. ASSUME NEW i \in DOMAIN Params(h, r), NEW b \in Objects \ {r}
      PROVE  Yields(SetParamMove(h, r, i, b), V)
  <2> DEFINE g == SetParamMove(h, r, i, b)
             l == [p EXCEPT ![i] = v[b]]
  <2>1. /\ Wrote(h, g, {holder, b}, r,
                 Values!With(TreeAt(h, h.ptr[r]), [TreeAt(h, h.ptr[r]).params EXCEPT ![i] = TreeAt(h, h.ptr[b])]))
        /\ TreeAt(g, g.ptr[b]) = TreeAt(h, h.ptr[r]).params[i]
    <3>1. /\ Sound(h) /\ Mine(h, r) /\ r # holder /\ i \in DOMAIN Params(h, r)
          /\ b \in Handles \ {r, holder} /\ h.ptr[b] \in Nodes
      BY <1>1, <1>4
    <3>2. QED  BY ONLY <3>1, SetParamMoveTree
  <2> HIDE DEF g
  <2>2. Wrote(h, g, {holder, b}, r, Values!With(v[r], l)) /\ TreeAt(g, g.ptr[b]) = p[i]
    BY <1>1, <1>4, <2>1 DEF p
  <2>3. [v EXCEPT ![r] = Values!With(v[r], l), ![b] = p[i]] \in V
    BY <1>1, <1>3
  <2> HIDE DEF l
  <2>4. Spares(h, g, {holder, b} \cup {r}) /\ Sound(g) /\ TreeAt(g, g.ptr[r]) = Values!With(v[r], l)
    BY <2>2 DEF Wrote
  <2>5. ({holder, b} \cup {r}) \cap Objects \subseteq {r, b} /\ b \in Objects
    BY <1>1
  <2>6. View(g) = [View(h) EXCEPT ![r] = TreeAt(g, g.ptr[r]), ![b] = TreeAt(g, g.ptr[b])]
    BY ONLY <1>1, <2>4, <2>5, ViewTwo, r \in Objects
  <2>7. QED  BY <1>1, <2>2, <2>3, <2>4, <2>6 DEF Yields, g
<1>7. ASSUME NEW b \in Objects \ {r}
      PROVE  Yields(SetParams(h, r, b), V)
  <2> DEFINE g == SetParams(h, r, b)
  <2>1. Wrote(h, g, {}, r, Values!With(TreeAt(h, h.ptr[r]), TreeAt(h, h.ptr[b]).params))
    BY <1>1, <1>4, SetParamsTree
  <2> HIDE DEF g
  <2>2. Wrote(h, g, {}, r, Values!With(v[r], v[b].params))
    BY <1>1, <1>4, <2>1
  <2>3. View(g) = [View(h) EXCEPT ![r] = Values!With(v[r], v[b].params)] /\ Sound(g)
    BY <1>1, <2>2, ViewWrote
  <2>4. QED  BY <1>1, <1>3, <2>3 DEF Yields, g
<1>8. QED  BY <1>5, <1>6, <1>7 DEF V, v

\* Adopt().
LEMMA AdoptView ==
  ASSUME NEW r \in Objects, NEW h, Prepared(h, r), NEW i \in DOMAIN Params(h, r),
         NEW u, u = GetUniqueRef(h, Param(h, r, i))
  PROVE  /\ Yields(Drop(Drop(AddParamsMove(DelParam(HoldSlot(u, r, i), r, i), r, tmp), holder), tmp),
                   Values!Adopted(r, View(heap)))
         /\ Yields(Drop(SetParamsMove(u, r, tmp), tmp), Values!Adopted(r, View(heap)))
<1> DEFINE v == View(heap)
           p == v[r].params
           x == Drop(Drop(AddParamsMove(DelParam(HoldSlot(u, r, i), r, i), r, tmp), holder), tmp)
           y == Drop(SetParamsMove(u, r, tmp), tmp)
<1>1. /\ Sound(h) /\ Mine(h, r) /\ Good(h) /\ TreeAt(h, h.ptr[r]) = v[r] /\ View(h) = v
      /\ r \in Handles /\ r \notin {tmp, holder} /\ {tmp} \cap Objects \subseteq {r}
      /\ {tmp, holder} \cap Objects = {} /\ {tmp} \cap Objects = {}
      /\ DOMAIN Params(h, r) = DOMAIN p /\ Free(h) \in Nat /\ Free(u) \in Nat /\ h.ptr[r] \in Nodes
  BY ViewIs, ParamTree, FreeType DEF Prepared, Locals, Good
<1>2. v = [q \in Objects |-> v[q]]
  BY DEF View
<1> HIDE DEF v, x, y
<1>3. Free(h) >= 2 /\ Free(h) >= 1
  BY <1>1 DEF Prepared
<1>4. /\ Sound(u) /\ Spares(h, u, {tmp}) /\ Mine(u, r) /\ u.ptr[r] = h.ptr[r]
      /\ Params(u, r) = Params(h, r) /\ u.ptr[tmp] \in Nodes
      /\ Unshared(u, tmp) /\ OnlyAt(u, tmp, h.ptr[r], i)
      /\ TreeAt(u, u.ptr[tmp]) = TreeAt(h, h.ptr[r]).params[i]
  <2>1. Sound(h) /\ Free(h) >= 1 /\ Mine(h, r) /\ r # tmp /\ i \in DOMAIN Params(h, r)
    BY <1>1, <1>3
  <2>2. QED  BY ONLY <2>1, GetUniqueRefTree, u = GetUniqueRef(h, Param(h, r, i))
<1>5. Good(u) /\ Free(u) >= 1
  BY <1>1, <1>3, ParamLent DEF Lent, Done
<1>6. TreeAt(u, u.ptr[r]) = v[r] /\ TreeAt(u, u.ptr[tmp]) = p[i] /\ OnlyAt(u, tmp, u.ptr[r], i)
  BY <1>1, <1>4 DEF Spares, p
<1>7. View(u) = v
  BY <1>1, <1>4, <1>6, ViewSame
<1>8. /\ Wrote(u, x, {tmp, holder}, r, Values!With(v[r], RemoveAt(p, i) \o p[i].params))
      /\ Wrote(u, y, {tmp}, r, Values!With(v[r], p[i].params))
  <2>1. Wrote(u, x, {tmp, holder}, r, Values!With(v[r], RemoveAt(v[r].params, i) \o p[i].params))
    BY <1>1, <1>4, <1>5, <1>6, AbsorbTree DEF x
  <2>2. Wrote(u, y, {tmp}, r, Values!With(v[r], p[i].params))
    BY <1>1, <1>4, <1>6, AdoptTree DEF y
  <2>3. QED  BY <2>1, <2>2
<1>9. /\ View(x) = [v EXCEPT ![r] = Values!With(v[r], RemoveAt(p, i) \o p[i].params)] /\ Sound(x)
      /\ View(y) = [v EXCEPT ![r] = Values!With(v[r], p[i].params)] /\ Sound(y)
  BY <1>1, <1>5, <1>7, <1>8, ViewWrote
<1>10. /\ [v EXCEPT ![r] = Values!With(v[r], RemoveAt(p, i) \o p[i].params)] \in Values!Adopted(r, v)
       /\ [v EXCEPT ![r] = Values!With(v[r], p[i].params)] \in Values!Adopted(r, v)
  BY <1>1, <1>2, AdoptedHas
<1>11. QED  BY <1>9, <1>10 DEF Yields, x, y, v

\* DeleteBelowStep().
LEMMA DeleteBelowView ==
  ASSUME NEW r \in Objects, NEW h, Prepared(h, r), NEW i \in DOMAIN Params(h, r),
         NEW j \in DOMAIN Params(h, Param(h, r, i))
  PROVE  Yields(DeleteBelowOwn(h, r, i, j), Values!ShortenedBelow(r, View(heap)))
<1> DEFINE v == View(heap)
           p == v[r].params
           s == Param(h, r, i)
           u == CopyOnWrite(h, s)
           g == DelParam(u, s, j)
<1>1. /\ Sound(h) /\ Mine(h, r) /\ Good(h) /\ TreeAt(h, h.ptr[r]) = v[r] /\ View(h) = v
      /\ r \in Handles /\ {} \cap Objects = {}
      /\ DOMAIN Params(h, r) = DOMAIN p /\ Free(h) \in Nat /\ h.ptr[r] \in Nodes /\ Exact(h)
  BY ViewIs, ParamTree, FreeType DEF Prepared, Good
<1>2. v = [q \in Objects |-> v[q]]
  BY DEF View
<1> HIDE DEF v
<1>3. Free(h) >= 2 /\ Free(h) >= 1
  BY <1>1 DEF Prepared
<1>4. Rooted(h, s) /\ Inside(s) = {h.ptr[r]} /\ At(h, s) \in Nodes /\ s \notin Handles
  BY <1>1, HandleAnchored DEF Param
<1> HIDE DEF s
<1>5. Copied(h, u, s)
  BY <1>1, <1>3, <1>4, CopyOnWriteDoes
<1> HIDE DEF u
<1>6. /\ Wrote(h, u, {s}, r, v[r]) /\ Mine(u, r) /\ s = Param(u, r, i) /\ i \in DOMAIN Params(u, r)
      /\ Params(u, s) = Params(h, s) /\ Unshared(u, s) /\ Private(u, s)
  BY <1>1, <1>3, <1>5, CopyBelowTree DEF s
<1>7. {s} \cap Objects = {}
  BY <1>4, ViewIs
<1>8. Good(u) /\ Sound(u) /\ TreeAt(u, u.ptr[r]) = v[r] /\ j \in DOMAIN Params(u, s)
      /\ u.ptr[r] \in Nodes /\ Exact(u)
  <2>1. Does(h, u, {s}, {h.ptr[r]}, 1)
    BY <1>4, <1>5 DEF Copied
  <2>2. Good(u)
    BY <1>1, <1>7, <2>1, GoodDoes
  <2>3. QED  BY <1>6, <2>2 DEF Wrote, Good, s
<1>9. View(u) = v
  <2>1. View(u) = [View(h) EXCEPT ![r] = v[r]]
    BY <1>1, <1>6, <1>7, ViewWrote
  <2>2. QED  BY <1>1, <1>2, <2>1
<1>10. Wrote(u, g, {}, r, Values!With(v[r], [p EXCEPT ![i] = Values!With(p[i], RemoveAt(p[i].params, j))]))
  BY <1>6, <1>8, DelBelowTree
<1>11. j \in DOMAIN p[i].params
  <2>1. At(u, s) = Params(u, r)[i] /\ Params(u, r)[i] \in Live(u)
    BY <1>1, <1>6, <1>8, HandleAnchored
  <2>2. p[i] = TreeAt(u, Params(u, r)[i])
    BY <1>6, <1>8, <1>9, ParamTree
  <2>3. p[i].params = TreesAt(u, Params(u, s))
    BY <1>8, <2>1, <2>2, TreeIs DEF TreeOf, Params, data
  <2>4. QED  BY <1>8, <2>3 DEF TreesAt
<1> HIDE DEF g
<1>12. View(g) = [v EXCEPT ![r] = Values!With(v[r], [p EXCEPT ![i] = Values!With(p[i], RemoveAt(p[i].params, j))])]
       /\ Sound(g)
  BY <1>1, <1>8, <1>9, <1>10, ViewWrote
<1>13. [v EXCEPT ![r] = Values!With(v[r], [p EXCEPT ![i] = Values!With(p[i], RemoveAt(p[i].params, j))])]
         \in Values!ShortenedBelow(r, v)
  BY <1>1, <1>2, <1>11, AdoptedHas
<1>14. QED  BY <1>12, <1>13 DEF Yields, DeleteBelowOwn, g, u, s, v

\* What Distributed() has.
LEMMA DistributedHas ==
  ASSUME NEW v, v = [q \in Objects |-> v[q]], NEW r \in Objects, Len(v[r].params) = 1,
         NEW t, t = v[r].params[1], NEW n \in DOMAIN t.params
  PROVE  [v EXCEPT ![r] = Conditional(v[r], t.params[n], Values!With(t, RemoveAt(t.params, n)))]
           \in Values!Distributed(r, v)
<1> DEFINE P(k) == <<t.params[k], Values!With(v[r], <<Values!With(t, Values!RemoveAt(t.params, k))>>),
                     Values!Leaf("cImmed", 0)>>
<1>1. Values!Distributed(r, v)
        = {[v EXCEPT ![r].opcode = "cIf", ![r].params = P(k)] : k \in DOMAIN t.params}
  BY DEF Values!Distributed
<1> HIDE DEF P
<1>2. [v EXCEPT ![r].opcode = "cIf", ![r].params = P(n)] \in Values!Distributed(r, v)
  BY <1>1
<1>3. [v EXCEPT ![r].opcode = "cIf", ![r].params = P(n)]
        = [v EXCEPT ![r] = [v[r] EXCEPT !.opcode = "cIf", !.params = P(n)]]
  OBVIOUS
<1>4. Values!RemoveAt(t.params, n) = RemoveAt(t.params, n)
  BY SameLists
<1>5. P(n) = <<t.params[n], Values!With(v[r], <<Values!With(t, RemoveAt(t.params, n))>>),
               Values!Leaf("cImmed", 0)>>
  BY <1>4 DEF P
<1>6. QED  BY <1>2, <1>3, <1>5 DEF Conditional

\* The call in three parts.
LEMMA DistributedTrees ==
  ASSUME Orderly(heap), Room(heap, CallNodes), NEW r \in Objects,
         Len(Params(heap, r)) = 1, data(heap, r).RefCount = 1,
         data(heap, Param(heap, r, 1)).RefCount = 1,
         NEW n \in DOMAIN Params(heap, Param(heap, r, 1)),
         NEW v, v = View(heap), NEW t, t = v[r].params[1],
         NEW g, g = DistributeFunction(r, n)
  PROVE  /\ Sound(g) /\ Spares(heap, g, {mul, tmp, holder, r, func, p2})
         /\ n \in DOMAIN t.params
         /\ TreeAt(g, g.ptr[r]) = Conditional(v[r], t.params[n], Values!With(t, RemoveAt(t.params, n)))
<1> DEFINE c  == Params(heap, r)[1]
           h1 == Become(Construct(heap, mul, Nop), mul, Param(heap, r, 1))
           h2 == DelParam(SetParamMove(h1, r, 1, Param(h1, mul, n)), mul, n)
           x  == t.params[n]
           y  == Values!With(t, RemoveAt(t.params, n))
           w  == Values!With(v[r], <<x>>)
<1>1. g = Rebuilt(h2, r)
  BY Zenon DEF DistributeFunction, Rebuilt
<1>2. /\ Sound(heap) /\ Good(heap) /\ Free(heap) >= 8 /\ 1 \in DOMAIN Params(heap, r)
      /\ Exact(heap) /\ heap.ptr[r] \in Nodes /\ r \in Handles
      /\ r \notin {mul, tmp, holder, func, p2}
  <2>1. Free(heap) >= 8
    BY CallReady DEF Orderly
  <2>2. 1 \in DOMAIN Params(heap, r)
    BY CallReady DEF Orderly
  <2>3. QED  BY <2>1, <2>2, LocalsDistinct DEF Orderly, Good, Locals
<1>3. /\ c \in Nodes /\ c \in Live(heap) /\ n \in DOMAIN heap.node[c].Params
      /\ At(heap, Param(heap, r, 1)) = c
  <2>1. At(heap, Param(heap, r, 1)) = c /\ c \in Nodes /\ c \in Live(heap)
    BY <1>2, HandleAnchored
  <2>2. QED  BY <2>1 DEF Params, data
<1>4. v[r] = TreeAt(heap, heap.ptr[r]) /\ t = TreeAt(heap, c)
  BY <1>2, ViewIs, ParamTree
<1> HIDE DEF h1, h2, c, x, y, w
<1>5. /\ Grips(h1, r) /\ Spares(heap, h1, {mul, tmp})
      /\ h1.ptr[r] = heap.ptr[r] /\ h1.ptr[mul] = c
      /\ Grouped(heap, h1, r, c) /\ Free(h1) >= 6
  BY <1>2, ProductTree DEF h1, c
<1>6. n \in DOMAIN Params(h1, mul) /\ 6 \in Nat
  BY <1>3, <1>5 DEF Grouped
<1>7. FactorMoved(h1, h2, h1.ptr[r], h1.ptr[mul], n)
  BY <1>5, <1>6, FactorNodes DEF h2
<1>8. Good(h2) /\ Free(h2) >= 6 /\ h2.ptr[mul] \in Nodes
  BY <1>2, <1>3, <1>5, <1>6, FactorTaken DEF h2
<1>9. TreeAt(h1, h1.ptr[r]) = v[r] /\ TreeAt(h1, h1.ptr[mul]) = t /\ n \in DOMAIN t.params
  <2>1. Sound(h1) /\ h1.ptr[r] \in Nodes /\ h1.ptr[mul] \in Nodes /\ mul \in Handles
        /\ Params(h1, r) = <<c>>
    BY <1>2, <1>3, <1>5, LocalsDistinct DEF Grips, Locals
  <2>2. TreeAt(h1, h1.ptr[r]) = v[r]
    BY <1>2, <1>4, <1>5 DEF Spares
  <2>3. v[r].params = TreesAt(h1, <<c>>)
    BY <1>2, <2>1, <2>2, WithIs
  <2>4. TreesAt(h1, <<c>>)[1] = TreeAt(h1, c)
    BY DEF TreesAt
  <2>5. TreeAt(h1, h1.ptr[mul]) = t
    BY <1>5, <2>3, <2>4
  <2>6. t.params = TreesAt(h1, Params(h1, mul))
    BY <2>1, <2>5, WithIs
  <2>7. DOMAIN t.params = DOMAIN Params(h1, mul)
    BY <2>6 DEF TreesAt
  <2>8. QED  BY <1>6, <2>2, <2>5, <2>7
<1>10. /\ Sound(h2) /\ Mine(h2, r) /\ Spares(h1, h2, {holder, r, mul})
       /\ h2.ptr[r] = heap.ptr[r]
       /\ TreeAt(h2, h2.ptr[r]) = w /\ TreeAt(h2, h2.ptr[mul]) = y
  BY <1>5, <1>6, <1>7, <1>9, FactorTree DEF w, x, y
<1>11. w.params = <<x>> /\ Conditional(w, x, y) = Conditional(v[r], x, y)
  <2>1. v[r] = TreeOf(data(heap, r), TreesAt(heap, Params(heap, r)))
    BY <1>2, <1>4, WithIs
  <2>2. QED  BY <2>1 DEF TreeOf, Values!With, w, Conditional
<1>12. /\ Sound(g) /\ Spares(h2, g, {r, mul, func, p2})
       /\ TreeAt(g, g.ptr[r]) = Conditional(w, x, y)
  <2>1. /\ Sound(h2) /\ Good(h2) /\ Free(h2) >= 6 /\ Mine(h2, r) /\ h2.ptr[mul] \in Nodes
        /\ w = TreeAt(h2, h2.ptr[r]) /\ w.params = <<x>> /\ y = TreeAt(h2, h2.ptr[mul])
        /\ g = Rebuilt(h2, r)
    BY <1>1, <1>8, <1>10, <1>11
  <2>2. QED  BY ONLY <2>1, r \in Objects, RebuiltTree
<1>13. Spares(heap, g, {mul, tmp, holder, r, func, p2})
  <2>1. Spares(heap, h2, {mul, tmp} \cup {holder, r, mul})
    BY <1>5, <1>10, SparesTwice
  <2>2. Spares(heap, g, ({mul, tmp} \cup {holder, r, mul}) \cup {r, mul, func, p2})
    BY <1>12, <2>1, SparesTwice
  <2>3. QED  BY <2>2 DEF Spares
<1>14. QED  BY <1>9, <1>11, <1>12, <1>13 DEF x, y

\* Distribute(), of a product that nobody shares.
LEMMA DistributeView ==
  ASSUME Orderly(heap), Room(heap, CallNodes), NEW r \in Objects,
         Len(Params(heap, r)) = 1, data(heap, r).RefCount = 1,
         data(heap, Param(heap, r, 1)).RefCount = 1,
         NEW n \in DOMAIN Params(heap, Param(heap, r, 1))
  PROVE  Yields(DistributeFunction(r, n), Values!Distributed(r, View(heap)))
<1> DEFINE v == View(heap)
           t == v[r].params[1]
           g == DistributeFunction(r, n)
           Q == {mul, tmp, holder, r, func, p2}
<1>1. /\ Good(heap) /\ Sound(heap) /\ Q \cap Objects \subseteq {r} /\ v = [q \in Objects |-> v[q]]
  <2>1. Q \cap Objects \subseteq {r}
    BY LocalsDistinct DEF Locals
  <2>2. v = [q \in Objects |-> v[q]]
    BY DEF View
  <2>3. QED  BY <2>1, <2>2 DEF Orderly
<1>2. Len(v[r].params) = 1
  <2>1. v[r].params = TreesAt(heap, Params(heap, r))
    BY <1>1, ViewIs, WithIs DEF Good
  <2>2. Len(Params(heap, r)) = 1
    OBVIOUS
  <2>3. Params(heap, r) \in Seq(Nodes)
    BY <1>1, ViewIs, HandleLive, HandleAnchored, ParamsTyped DEF Good
  <2>4. QED  BY <2>1, <2>2, <2>3 DEF TreesAt
<1> DEFINE T == Conditional(v[r], t.params[n], Values!With(t, RemoveAt(t.params, n)))
<1> HIDE DEF v, t, g
<1>3. /\ Sound(g) /\ Spares(heap, g, Q) /\ n \in DOMAIN t.params /\ TreeAt(g, g.ptr[r]) = T
  BY DistributedTrees DEF v, t, g
<1>4. [v EXCEPT ![r] = T] \in Values!Distributed(r, v)
  BY <1>1, <1>2, <1>3, DistributedHas DEF t
<1> HIDE DEF T, Q
<1>5. View(g) = [v EXCEPT ![r] = T]
  BY <1>1, <1>3, ViewOne DEF v
<1>6. QED  BY <1>3, <1>4, <1>5 DEF Yields, v, g

\* The results of the calls are those of the trees.
LEMMA ResultsHave ==
  ASSUME NEW r \in Objects
  PROVE  \A V \in {Values!Assigned(r, View(heap), Source(r)), Values!Renamed(r, View(heap)),
                   Values!Added(r, View(heap), Source(r)), Values!Changed(r, View(heap), Source(r)),
                   Values!Shortened(r, View(heap)), Values!Exchanged(r, View(heap)),
                   Values!Adopted(r, View(heap)), Values!ShortenedBelow(r, View(heap)),
                   Values!Distributed(r, View(heap))} :
           V \subseteq Values!Results(r, View(heap))
<1> DEFINE v == View(heap)
           S == Source(r)
           U == {Values!Assigned(r, v, S), Values!Renamed(r, v), Values!Added(r, v, S),
                 Values!Changed(r, v, S), Values!Shortened(r, v), Values!Exchanged(r, v),
                 Values!Adopted(r, v), Values!ShortenedBelow(r, v), Values!Distributed(r, v)}
<1>1. Values!Results(r, v) = UNION U
  BY SameLists DEF Values!Results, Source
<1> HIDE DEF U
<1>2. \A V \in U : V \subseteq Values!Results(r, v)
  BY <1>1
<1>3. QED  BY <1>2 DEF U

\* The call of a step is one of the trees.
LEMMA BecomesView ==
  ASSUME NEW r \in Objects, NEW g, NEW V, Becomes(g), Yields(g, V),
         V \subseteq Values!Results(r, View(heap))
  PROVE  Sound(heap') /\ View(heap') \in Values!Results(r, View(heap))
<1>1. heap' = g
  BY DEF Becomes
<1>2. QED  BY <1>1 DEF Yields

\* Add(), Set() and Delete().
LEMMA ChangeView ==
  ASSUME Orderly(heap), Room(heap, CallNodes), NEW r \in Objects, Add(r) \/ Set(r) \/ Delete(r)
  PROVE  Sound(heap') /\ View(heap') \in Values!Results(r, View(heap))
<1> DEFINE h == Own(r)
           A == Values!Added(r, View(heap), Source(r))
           C == Values!Changed(r, View(heap), Source(r))
           S == Values!Shortened(r, View(heap))
           R == Values!Results(r, View(heap))
<1>1. Good(heap) /\ Prepared(h, r)
  BY OwnPrepared DEF Orderly, Sound
<1>2. A \subseteq R /\ C \subseteq R /\ S \subseteq R
  BY ResultsHave
<1>3. /\ \A b \in Sources(r) : Yields(AddParam(h, r, Now(h, r, b)), A)
      /\ \A b \in Objects \ {r} : /\ Yields(AddParamMove(h, r, b), A)
                                  /\ Yields(AddParams(h, r, b), A)
  BY <1>1, AddView
<1>4. /\ \A i \in DOMAIN Params(h, r) :
           /\ \A b \in Sources(r) : Yields(SetParam(h, r, i, Now(h, r, b)), C)
           /\ \A b \in Objects \ {r} : Yields(SetParamMove(h, r, i, b), C)
      /\ \A b \in Objects \ {r} : Yields(SetParams(h, r, b), C)
  BY <1>1, SetView
<1>5. \A b \in Objects \ {r} : /\ Yields(AddParamsMove(CopyOnWrite(h, b), r, b), A)
                               /\ Yields(SetParamsMove(CopyOnWrite(h, b), r, b), C)
  BY <1>1, MoveView
<1>6. /\ Yields(DelParams(h, r), S)
      /\ \A i \in DOMAIN Params(h, r) : Yields(DelParam(h, r, i), S)
  BY <1>1, DeleteView
<1>7. \E g, V : Becomes(g) /\ Yields(g, V) /\ V \in {A, C, S}
  <2> HIDE DEF A, C, S
  <2>1. CASE Add(r)
    BY <1>3, <1>5, <2>1, Zenon DEF Add
  <2>2. CASE Set(r)
    BY <1>4, <1>5, <2>2, Zenon DEF Set
  <2>3. CASE Delete(r)
    BY <1>6, <2>3, Zenon DEF Delete
  <2>4. QED  BY <2>1, <2>2, <2>3
<1> HIDE DEF A, C, S, R
<1>8. PICK g, V : Becomes(g) /\ Yields(g, V) /\ V \subseteq R
  BY <1>2, <1>7
<1>9. QED  BY <1>8, BecomesView DEF R

\* Adopt(), DeleteBelowStep() and SetOpcodeStep().
LEMMA BelowView ==
  ASSUME Orderly(heap), Room(heap, CallNodes), NEW r \in Objects,
         Adopt(r) \/ DeleteBelowStep(r) \/ SetOpcodeStep(r)
  PROVE  Sound(heap') /\ View(heap') \in Values!Results(r, View(heap))
<1> DEFINE h == Own(r)
           A == Values!Adopted(r, View(heap))
           B == Values!ShortenedBelow(r, View(heap))
           C == Values!Renamed(r, View(heap))
           R == Values!Results(r, View(heap))
<1>1. Good(heap) /\ Prepared(h, r) /\ Params(h, r) = Params(heap, r)
  BY OwnPrepared DEF Orderly, Sound, Prepared
<1>2. A \subseteq R /\ B \subseteq R /\ C \subseteq R
  BY ResultsHave
<1> HIDE DEF A, B, C, R
<1>3. ASSUME Adopt(r)
      PROVE  \E g, V : Becomes(g) /\ Yields(g, V) /\ V \subseteq R
  <2>1. PICK i \in DOMAIN Params(heap, r) : \/ Becomes(Assimilate(r, i))
                                            \/ Becomes(AdoptParams(r, i))
    BY <1>3 DEF Adopt
  <2>2. Yields(Assimilate(r, i), A) /\ Yields(AdoptParams(r, i), A)
    BY <1>1, AdoptView DEF Assimilate, AdoptParams, A
  <2>3. QED  BY <1>2, <2>1, <2>2
<1>4. ASSUME DeleteBelowStep(r)
      PROVE  \E g, V : Becomes(g) /\ Yields(g, V) /\ V \subseteq R
  <2>1. PICK i \in DOMAIN Params(heap, r) :
          \E j \in DOMAIN Params(heap, Param(heap, r, i)) : Becomes(DeleteBelow(r, i, j))
    BY <1>4 DEF DeleteBelowStep
  <2>2. PICK j \in DOMAIN Params(heap, Param(heap, r, i)) : Becomes(DeleteBelow(r, i, j))
    BY <2>1
  <2>3. Params(h, Param(h, r, i)) = Params(heap, Param(heap, r, i))
    <3> DEFINE n == Params(heap, r)[i]
    <3>1. /\ r \in Handles /\ Exact(heap) /\ heap.ptr[r] \in Nodes
          /\ Exact(h) /\ h.ptr[r] \in Nodes /\ i \in DOMAIN Params(h, r) /\ Owned(heap, h, r)
      BY <1>1, <2>1, ViewIs DEF Good, Prepared
    <3> HIDE DEF h
    <3>2. n \in Live(heap) /\ At(heap, Param(heap, r, i)) = n
      BY <2>1, <3>1, HandleAnchored
    <3>3. n \in Live(h) /\ At(h, Param(h, r, i)) = n
      BY <1>1, <3>1, HandleAnchored
    <3> HIDE DEF n
    <3>4. h.node[n].Params = heap.node[n].Params
      BY <3>1, <3>2, <3>3 DEF Owned
    <3>5. QED  BY <3>2, <3>3, <3>4 DEF Params, data
  <2>4. Yields(DeleteBelow(r, i, j), B)
    BY <1>1, <2>1, <2>2, <2>3, DeleteBelowView DEF DeleteBelow, B
  <2>5. QED  BY <1>2, <2>2, <2>4
<1>5. ASSUME SetOpcodeStep(r)
      PROVE  \E g, V : Becomes(g) /\ Yields(g, V) /\ V \subseteq R
  <2>1. PICK o \in Opcodes : Becomes(SetOpcode(Own(r), r, o))
    BY <1>5 DEF SetOpcodeStep
  <2>2. Yields(SetOpcode(Own(r), r, o), C)
    BY <1>1, OpcodeView DEF C
  <2>3. QED  BY <1>2, <2>1, <2>2
<1>6. PICK g, V : Becomes(g) /\ Yields(g, V) /\ V \subseteq R
  BY <1>3, <1>4, <1>5
<1>7. QED  BY <1>6, BecomesView DEF R

\* Assign(), BecomeStep(), Exchange() and Distribute().
LEMMA HandlesView ==
  ASSUME Orderly(heap), NEW r \in Objects,
         \/ Room(heap, 1) /\ (Assign(r) \/ BecomeStep(r))
         \/ Room(heap, CallNodes) /\ (Exchange(r) \/ (Distribute(r) /\ ~SharedProducts))
  PROVE  Sound(heap') /\ View(heap') \in Values!Results(r, View(heap))
<1> DEFINE A == Values!Assigned(r, View(heap), Source(r))
           E == Values!Exchanged(r, View(heap))
           D == Values!Distributed(r, View(heap))
           R == Values!Results(r, View(heap))
<1>1. A \subseteq R /\ E \subseteq R /\ D \subseteq R
  BY ResultsHave
<1> HIDE DEF A, E, D, R
<1>2. ASSUME Room(heap, 1), Assign(r) \/ BecomeStep(r)
      PROVE  \E g, V : Becomes(g) /\ Yields(g, V) /\ V \subseteq R
  <2>1. Free(heap) >= 1
    BY <1>2, FreeType
  <2>2. /\ \A d \in LeafData : Yields(Construct(heap, r, d), A)
        /\ \A b \in Sources(r) : /\ Yields(ChangeTo(heap, r, At(heap, b)), A)
                                 /\ Yields(Become(heap, r, b), A)
    BY <2>1, AssignView DEF A
  <2>3. \E g : Becomes(g) /\ Yields(g, A)
    BY <1>2, <2>2, Zenon DEF Assign, BecomeStep
  <2>4. QED  BY <1>1, <2>3
<1>3. ASSUME Exchange(r)
      PROVE  \E g, V : Becomes(g) /\ Yields(g, V) /\ V \subseteq R
  <2>1. PICK b \in Objects \ {r} : Becomes(Swap(heap, r, b))
    BY <1>3 DEF Exchange
  <2>2. Yields(Swap(heap, r, b), E)
    BY ExchangeView DEF E
  <2>3. QED  BY <1>1, <2>1, <2>2
<1>4. ASSUME Room(heap, CallNodes), Distribute(r), ~SharedProducts
      PROVE  \E g, V : Becomes(g) /\ Yields(g, V) /\ V \subseteq R
  <2>1. PICK n \in DOMAIN Params(heap, Param(heap, r, 1)) : Becomes(DistributeFunction(r, n))
    BY <1>4 DEF Distribute
  <2>2. Yields(DistributeFunction(r, n), D)
    BY <1>4, <2>1, DistributeView DEF Distribute, D
  <2>3. QED  BY <1>1, <2>1, <2>2
<1>5. PICK g, V : Becomes(g) /\ Yields(g, V) /\ V \subseteq R
  BY <1>2, <1>3, <1>4
<1>6. QED  BY <1>5, BecomesView DEF R

\* At first every object has its own cNop.
LEMMA InitView ==
  ASSUME Init
  PROVE  Orderly(heap) /\ Values!Init
<1>1. Good(heap)
  BY InitGood
<1>2. \A n \in Nodes : /\ heap.node[n].Params = <<>>
                       /\ heap.node[n].Opcode = "deleted" \/ Equal(heap.node[n], Nop)
  <2>1. PICK at, ptr :
          heap = [node |-> [n \in Nodes |-> IF \E r \in Objects : at[r] = n
                                            THEN [Nop EXCEPT !.RefCount = 1] ELSE Deleted],
                  ptr  |-> ptr]
    BY DEF Init
  <2>2. \A n \in Nodes : heap.node[n] \in {WithCount(Nop, 1), Deleted}
    BY <2>1, NopCounted
  <2>3. /\ Deleted.Params = <<>> /\ Deleted.Opcode = "deleted"
        /\ WithCount(Nop, 1).Params = <<>> /\ Equal(WithCount(Nop, 1), Nop)
    BY DeletedNode, NopNode, NodeCounted DEF Equal, Holds
  <2>4. QED  BY <2>2, <2>3
<1>3. Sound(heap)
  BY <1>1, <1>2 DEF Sound, Good, Acyclic, Live
<1>4. ASSUME NEW r \in Objects
      PROVE  TreeAt(heap, heap.ptr[r]) = Values!NopTree
  <2>1. heap.ptr[r] \in Live(heap)
    BY <1>1, <1>3, <1>4, ViewIs, HandleLive DEF Good
  <2>2. heap.node[heap.ptr[r]].Opcode # "deleted" /\ heap.ptr[r] \in Nodes
    BY <1>1, <2>1, LiveNode, ExactIs DEF Good, Sane
  <2>3. Equal(heap.node[heap.ptr[r]], Nop)
    BY <1>2, <2>2
  <2>4. TreeAt(heap, heap.ptr[r]) = TreeOf(heap.node[heap.ptr[r]], <<>>)
    BY <1>2, <1>3, <2>1, <2>2, LeafTree
  <2>5. QED  BY <2>3, <2>4, NopNode DEF Equal, Holds, TreeOf, Values!NopTree, Values!Leaf, Nop, Data
<1>5. View(heap) = [r \in Objects |-> Values!NopTree]
  <2> DEFINE v == [r \in Objects |-> Values!NopTree]
  <2>1. v = [q \in Objects |-> v[q]] /\ \A r \in Objects : TreeAt(heap, heap.ptr[r]) = v[r]
    BY <1>4
  <2> HIDE DEF v
  <2>2. View(heap) = v
    BY <2>1, ViewsEqual
  <2>3. QED  BY <2>2 DEF v
<1>6. QED  BY <1>1, <1>3, <1>5 DEF Orderly, Values!Init, View

\* Every step is a step of the trees.
LEMMA NextView ==
  ASSUME Orderly(heap), ~SharedProducts, Next
  PROVE  Orderly(heap)' /\ Values!Next
<1>1. Good(heap')
  BY NextGood DEF Orderly
<1>2. PICK r \in Objects : Sound(heap') /\ View(heap') \in Values!Results(r, View(heap))
  BY ChangeView, BelowView, HandlesView DEF Next
<1>3. QED  BY <1>1, <1>2 DEF Orderly, Values!Next, View

\* Although handles share nodes, every call works as on trees that each object has
\* for itself, however many objects and nodes there are: CopyOnWrite(), GetUniqueRef(),
\* Become() and the functions that change Params never let another object see a
\* change, and make of the trees what their callers expect.
THEOREM TreesIndependentHolds == ~SharedProducts => (Spec => TreesIndependent)
<1> SUFFICES ASSUME ~SharedProducts
             PROVE  Spec => TreesIndependent
  OBVIOUS
<1>1. Init => Orderly(heap) /\ Values!Init
  BY InitView
<1>2. Orderly(heap) /\ [Next]_heap => Orderly(heap)' /\ [Values!Next]_([r \in Objects |-> Tree(heap, r)])
  BY NextView DEF View
<1>3. QED  BY <1>1, <1>2, PTL DEF Spec, TreesIndependent, Values!Spec
=============================================================================
