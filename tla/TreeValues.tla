------------------------------ MODULE TreeValues ------------------------------
(***************************************************************************)
(* What the optimizer's functions rely on when they work with CodeTrees:   *)
(* each object holds a tree of its own, a call changes the trees of the    *)
(* objects it is given and no other, and what it does to them is this.     *)
(***************************************************************************)
EXTENDS Integers, SequencesExt

CONSTANTS
  Objects,      (* Addresses of CodeTree objects.                          *)
  Opcodes,      (* Of trees with parameters.                               *)
  Leaves        (* The trees that callers start from.                      *)

VARIABLE value

Leaf(opcode, v) == [opcode |-> opcode, value |-> v, params |-> <<>>]

NopTree == Leaf("cNop", 0)

With(t, params) == [t EXCEPT !.params = params]

Init == value = [r \in Objects |-> NopTree]

\* Copies of other objects' trees, or of parameters of the tree itself.
Assigned(r, v, source) == {[v EXCEPT ![r] = t] : t \in Leaves \cup source}

Renamed(r, v) == {[v EXCEPT ![r].opcode = o] : o \in Opcodes}

\* AddParam and AddParams copy; AddParamMove and AddParamsMove leave the other
\* object with cNop in the place of what moved.
Added(r, v, source) ==
  LET p == v[r].params IN
  {[v EXCEPT ![r] = With(@, Append(p, t))] : t \in source}
    \cup UNION {
      {[v EXCEPT ![r] = With(@, Append(p, v[b])), ![b] = NopTree],
       [v EXCEPT ![r] = With(@, p \o v[b].params)],
       [v EXCEPT ![r] = With(@, p \o v[b].params),
                 ![b] = With(@, [i \in DOMAIN v[b].params |-> NopTree])]} : b \in Objects \ {r}}

\* SetParam and SetParams copy; SetParamMove exchanges, SetParamsMove empties.
Changed(r, v, source) ==
  LET p == v[r].params IN
  {[v EXCEPT ![r] = With(@, [p EXCEPT ![i] = t])] : t \in source, i \in DOMAIN p}
    \cup UNION {
      {[v EXCEPT ![r] = With(@, [p EXCEPT ![i] = v[b]]), ![b] = p[i]] : i \in DOMAIN p}
        \cup {[v EXCEPT ![r] = With(@, v[b].params)],
              [v EXCEPT ![r] = With(@, v[b].params), ![b] = With(@, <<>>)]} : b \in Objects \ {r}}

Shortened(r, v) ==
  LET p == v[r].params
  IN {[v EXCEPT ![r] = With(@, q)] : q \in {<<>>} \cup {RemoveAt(p, i) : i \in DOMAIN p}}

Exchanged(r, v) == {[v EXCEPT ![r] = v[b], ![b] = v[r]] : b \in Objects}

\* A parameter's own parameters take its place, or that of all.
Adopted(r, v) ==
  LET p == v[r].params
  IN UNION {{[v EXCEPT ![r] = With(@, RemoveAt(p, i) \o p[i].params)],
             [v EXCEPT ![r] = With(@, p[i].params)]} : i \in DOMAIN p}

\* A parameter loses one of its own.
ShortenedBelow(r, v) ==
  UNION {{[v EXCEPT ![r].params[i].params = RemoveAt(@, j)] :
            j \in DOMAIN v[r].params[i].params} : i \in DOMAIN v[r].params}

\* f(c * u) becomes if(c, f(u), f(0)) for a condition c.
Distributed(r, v) ==
  LET t == v[r].params[1] IN
  IF Len(v[r].params) # 1 THEN {}
  ELSE {[v EXCEPT ![r].opcode = "cIf",
                  ![r].params = <<t.params[n], With(v[r], <<With(t, RemoveAt(t.params, n))>>),
                                  Leaf("cImmed", 0)>>] : n \in DOMAIN t.params}

\* What a call for the object r may make of the trees v.
Results(r, v) ==
  LET source == {v[b] : b \in Objects \ {r}} \cup ToSet(v[r].params)
  IN UNION {Assigned(r, v, source), Renamed(r, v), Added(r, v, source), Changed(r, v, source),
            Shortened(r, v), Exchanged(r, v), Adopted(r, v), ShortenedBelow(r, v), Distributed(r, v)}

Next == \E v \in {value}, r \in Objects : value' \in Results(r, v)

Spec == Init /\ [][Next]_value
===============================================================================
