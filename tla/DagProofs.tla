----------------------------- MODULE DagProofs -----------------------------
(***************************************************************************)
(* The graph of every block, of any length and over any symbols, has the   *)
(* values of the block, no expression twice, and is generated in order.    *)
(***************************************************************************)
EXTENDS Dag, NumberFacts, FiniteSetTheorems

Node == [cate : {"SYMBOLNODE", "OPERNODE"}, op : Computing \cup {"ADD_OP"},
         lhs : Nat, rhs : Nat, syment : Symbol \cup {0}]

\* A list of nodes each of which works on earlier ones only.
Acyclic(ns) ==
  /\ ns \in Seq(Node)
  /\ \A n \in 1..Len(ns) : ns[n].lhs \in 0..n - 1 /\ ns[n].rhs \in 0..n - 1

-----------------------------------------------------------------------------
(* Terms                                                                   *)

\* What Terms says of node n when t has the terms of the nodes before it.
Term(ns, copies, t, n) ==
  IF n = 0 THEN Nothing
  ELSE IF ns[n].cate = "SYMBOLNODE" THEN Held(ns[n].syment)
  ELSE Result(copies, ns[n].op, t[ns[n].lhs], t[ns[n].rhs])

\* The terms of the first k nodes exist.
LEMMA TermsUpTo ==
  ASSUME NEW ns, Acyclic(ns), NEW copies
  PROVE  \A k \in 0..Len(ns) : \E t : t = [n \in 0..k |-> Term(ns, copies, t, n)]
<1>. DEFINE Bad == {k \in 0..Len(ns) : ~ \E t : t = [n \in 0..k |-> Term(ns, copies, t, n)]}
<1>1. SUFFICES ASSUME Bad # {} PROVE FALSE
  OBVIOUS
<1>2. Len(ns) \in Nat
  BY DEF Acyclic
<1>3. Bad \subseteq Nat
  BY <1>2
<1>4. PICK k \in Bad : \A l \in Bad : k <= l
  BY <1>1, <1>3, LeastNat
<1>5. k # 0
  <2>1. SUFFICES ASSUME k = 0 PROVE FALSE
    OBVIOUS
  <2>. DEFINE t == [n \in 0..0 |-> Nothing]
  <2>2. t = [n \in 0..0 |-> Term(ns, copies, t, n)]
    BY DEF Term
  <2>. QED BY <2>1, <2>2, <1>4
<1>6. k - 1 \in 0..Len(ns) /\ k - 1 \notin Bad
  BY <1>2, <1>4, <1>5
<1>7. PICK u : u = [n \in 0..k - 1 |-> Term(ns, copies, u, n)]
  BY <1>6
<1>. DEFINE t == [n \in 0..k |-> IF n < k THEN u[n] ELSE Term(ns, copies, u, n)]
<1>8. \A n \in 0..k : n = 0 \/ (n \in 1..Len(ns) /\ ns[n].lhs \in 0..k - 1 /\ ns[n].rhs \in 0..k - 1)
  BY <1>2, <1>4 DEF Acyclic
<1>9. \A n \in 0..k - 1 : t[n] = u[n]
  BY <1>2, <1>4
<1>10. \A n \in 0..k : Term(ns, copies, u, n) = Term(ns, copies, t, n)
  BY <1>8, <1>9 DEF Term
<1>11. \A n \in 0..k : t[n] = Term(ns, copies, u, n)
  <2>1. \A n \in 0..k - 1 : u[n] = Term(ns, copies, u, n)
    BY <1>7
  <2>2. \A n \in 0..k : n \in 0..k - 1 \/ (n = k /\ ~ (n < k))
    BY <1>2, <1>4
  <2>3. \A n \in 0..k : t[n] = IF n < k THEN u[n] ELSE Term(ns, copies, u, n)
    OBVIOUS
  <2>. HIDE DEF t
  <2>. QED BY <2>1, <2>2, <2>3
<1>12. t = [n \in 0..k |-> Term(ns, copies, t, n)]
  BY <1>10, <1>11
<1>. QED BY <1>4, <1>12

LEMMA TermsAre ==
  ASSUME NEW ns, Acyclic(ns), NEW copies, NEW n \in 0..Len(ns)
  PROVE  Terms(ns, copies)[n] = Term(ns, copies, Terms(ns, copies), n)
<1>1. Len(ns) \in 0..Len(ns)
  BY DEF Acyclic
<1>2. \E t : t = [m \in 0..Len(ns) |-> Term(ns, copies, t, m)]
  BY <1>1, TermsUpTo
<1>3. Terms(ns, copies) = CHOOSE t : t = [m \in 0..Len(ns) |-> Term(ns, copies, t, m)]
  BY Zenon DEF Terms, Term
<1>. HIDE DEF Terms
<1>4. Terms(ns, copies) = [m \in 0..Len(ns) |-> Term(ns, copies, Terms(ns, copies), m)]
  BY <1>2, <1>3
<1>. QED BY <1>4

\* Longer lists, or such with symbols at the operations, have the same terms.
Grown(ns, ms) ==
  /\ Len(ns) <= Len(ms)
  /\ \A n \in 1..Len(ns) :
       /\ ms[n].cate = ns[n].cate /\ ms[n].op = ns[n].op
       /\ ms[n].lhs = ns[n].lhs /\ ms[n].rhs = ns[n].rhs
       /\ ns[n].cate = "SYMBOLNODE" => ms[n].syment = ns[n].syment

LEMMA TermsKept ==
  ASSUME NEW ns, Acyclic(ns), NEW ms, Acyclic(ms), Grown(ns, ms), NEW copies
  PROVE  \A n \in 0..Len(ns) : Terms(ms, copies)[n] = Terms(ns, copies)[n]
<1>. DEFINE Bad == {n \in 0..Len(ns) : Terms(ms, copies)[n] # Terms(ns, copies)[n]}
<1>1. SUFFICES ASSUME Bad # {} PROVE FALSE
  OBVIOUS
<1>2. Len(ns) \in Nat /\ Len(ms) \in Nat
  BY DEF Acyclic
<1>3. Bad \subseteq Nat
  BY <1>2
<1>4. PICK n \in Bad : \A l \in Bad : n <= l
  BY <1>1, <1>3, LeastNat
<1>5. n \in 0..Len(ns) /\ n \in 0..Len(ms)
  BY <1>2, <1>4 DEF Grown
<1>6. Terms(ns, copies)[n] = Term(ns, copies, Terms(ns, copies), n)
  BY <1>5, TermsAre
<1>7. Terms(ms, copies)[n] = Term(ms, copies, Terms(ms, copies), n)
  BY <1>5, TermsAre
<1>8. CASE n = 0
  BY <1>4, <1>6, <1>7, <1>8 DEF Term
<1>9. CASE n # 0
  <2>1. n \in 1..Len(ns)
    BY <1>2, <1>5, <1>9
  <2>2. ns[n].lhs \in 0..n - 1 /\ ns[n].rhs \in 0..n - 1
    BY <2>1 DEF Acyclic
  <2>3. \A m \in 0..n - 1 : Terms(ms, copies)[m] = Terms(ns, copies)[m]
    BY <1>2, <1>4, <1>5
  <2>. QED BY <1>4, <1>6, <1>7, <2>1, <2>2, <2>3 DEF Term, Grown
<1>. QED BY <1>8, <1>9

-----------------------------------------------------------------------------
(* The steps a graph is built in                                           *)

Opering(ns) == {n \in 1..Len(ns) : ns[n].cate = "OPERNODE"}

\* No leaf and no operation is there twice, and a symbol that has a leaf is
\* mapped to a node: to its leaf, or to an operation.
Shape(ns, sm) ==
  /\ Acyclic(ns) /\ sm \in [Symbol -> 0..Len(ns)]
  /\ \A n \in 1..Len(ns) : ns[n].cate = "SYMBOLNODE" =>
       /\ ns[n].lhs = 0 /\ ns[n].syment \in Symbol /\ sm[ns[n].syment] # 0
       /\ \A m \in 1..Len(ns) :
            ns[m].cate = "SYMBOLNODE" /\ ns[m].syment = ns[n].syment => m = n
  /\ \A n \in Opering(ns) :
       /\ ns[n].lhs # 0
       /\ \A m \in Opering(ns) : Same(ns[m], ns[n].op, ns[n].lhs, ns[n].rhs) => m = n
  /\ \A e \in Symbol : sm[e] # 0 /\ ns[sm[e]].cate = "SYMBOLNODE" => ns[sm[e]].syment = e

\* The first graph and the second: the same, or with a leaf for e.
Leafed(ns, sm, ms, tm, e) ==
  \/ ms = ns /\ tm = sm /\ (e # 0 => sm[e] # 0)
  \/ /\ e # 0 /\ sm[e] = 0
     /\ ms = Append(ns, Leaf(e)) /\ tm = [sm EXCEPT ![e] = Len(ns) + 1]

LEMMA GraphFields ==
  ASSUME NEW a, NEW b, NEW c, NEW h, h = [nodes |-> a, symmap |-> b, out |-> c]
  PROVE  /\ h.nodes = a /\ h.symmap = b /\ h.out = c
         /\ h = [nodes |-> h.nodes, symmap |-> h.symmap, out |-> h.out]
OBVIOUS

LEMMA FindLeaf ==
  ASSUME NEW ns, NEW sm, NEW o, NEW e, NEW g, NEW h,
         g = [nodes |-> ns, symmap |-> sm, out |-> o], h = find_leaf(g, e),
         sm \in [Symbol -> 0..Len(ns)], e \in Symbol \cup {0}, ns \in Seq(Node)
  PROVE  /\ h = [nodes |-> h.nodes, symmap |-> h.symmap, out |-> h.out]
         /\ Leafed(ns, sm, h.nodes, h.symmap, e)
         /\ h.out = IF e = 0 THEN 0 ELSE h.symmap[e]
<1>1. CASE e = 0
  BY <1>1 DEF find_leaf, Leafed
<1>2. CASE e # 0 /\ sm[e] # 0
  BY <1>2 DEF find_leaf, Leafed
<1>3. CASE e # 0 /\ sm[e] = 0
  <2>1. h = [nodes |-> Append(ns, Leaf(e)), symmap |-> [sm EXCEPT ![e] = Len(ns) + 1],
             out |-> Len(ns) + 1]
    <3>1. g.nodes = ns /\ g.symmap = sm
      OBVIOUS
    <3>2. find_leaf(g, e) = [nodes |-> Append(g.nodes, Leaf(e)),
                             symmap |-> [g.symmap EXCEPT ![e] = Len(g.nodes) + 1],
                             out |-> Len(g.nodes) + 1]
      BY <1>3, <3>1, Zenon DEF find_leaf
    <3>. QED BY <3>1, <3>2
  <2>. DEFINE ms == Append(ns, Leaf(e))
              tm == [sm EXCEPT ![e] = Len(ns) + 1]
              n == Len(ns) + 1
  <2>2. h = [nodes |-> ms, symmap |-> tm, out |-> n]
    BY <2>1
  <2>3. tm[e] = n
    BY <1>3
  <2>. HIDE DEF ms, tm, n
  <2>4. /\ h.nodes = ms /\ h.symmap = tm /\ h.out = n
        /\ h = [nodes |-> h.nodes, symmap |-> h.symmap, out |-> h.out]
    BY <2>2, GraphFields
  <2>. QED BY <1>3, <2>3, <2>4 DEF Leafed, ms, tm, n
<1>. QED BY <1>1, <1>2, <1>3

LEMMA LeafNode ==
  ASSUME NEW e \in Symbol
  PROVE  Leaf(e) \in Node /\ Leaf(e).lhs = 0 /\ Leaf(e).rhs = 0 /\ Leaf(e).syment = e
         /\ Leaf(e).cate = "SYMBOLNODE"
BY DEF Leaf, Node

LEMMA OperNode ==
  ASSUME NEW op \in Computing, NEW l \in Nat, NEW r \in Nat
  PROVE  Oper(op, l, r) \in Node /\ Oper(op, l, r).op = op /\ Oper(op, l, r).lhs = l
         /\ Oper(op, l, r).rhs = r /\ Oper(op, l, r).cate = "OPERNODE" /\ Oper(op, l, r).syment = 0
BY DEF Oper, Node

LEMMA Appended ==
  ASSUME NEW ns \in Seq(Node), NEW x \in Node
  PROVE  /\ Append(ns, x) \in Seq(Node) /\ Len(Append(ns, x)) = Len(ns) + 1
         /\ Append(ns, x)[Len(ns) + 1] = x
         /\ \A n \in 1..Len(ns) : Append(ns, x)[n] = ns[n]
         /\ \A n \in 1..Len(ns) + 1 : n = Len(ns) + 1 \/ n \in 1..Len(ns)
OBVIOUS

LEMMA LeafShape ==
  ASSUME NEW ns, NEW sm, Shape(ns, sm), NEW ms, NEW tm, NEW e \in Symbol \cup {0},
         Leafed(ns, sm, ms, tm, e)
  PROVE  /\ Shape(ms, tm) /\ Grown(ns, ms) /\ Opering(ms) = Opering(ns)
         /\ e # 0 => tm[e] # 0
<1>0. Len(ns) \in Nat /\ ns \in Seq(Node)
  BY DEF Shape, Acyclic
<1>1. CASE ms = ns /\ tm = sm /\ (e # 0 => sm[e] # 0)
  BY <1>0, <1>1 DEF Grown
<1>2. CASE /\ e # 0 /\ sm[e] = 0
           /\ ms = Append(ns, Leaf(e)) /\ tm = [sm EXCEPT ![e] = Len(ns) + 1]
  <2>. DEFINE N == Len(ns) + 1
  <2>1. /\ ms \in Seq(Node) /\ Len(ms) = N /\ ms[N] = Leaf(e)
        /\ \A n \in 1..Len(ns) : ms[n] = ns[n]
        /\ \A n \in 1..N : n = N \/ n \in 1..Len(ns)
    BY <1>0, <1>2, LeafNode, Appended
  <2>2. /\ ms[N].lhs = 0 /\ ms[N].rhs = 0 /\ ms[N].syment = e /\ ms[N].cate = "SYMBOLNODE"
    BY <1>2, <2>1, LeafNode
  <2>3. e \in Symbol /\ sm \in [Symbol -> 0..Len(ns)]
    BY <1>2 DEF Shape
  <2>4. tm \in [Symbol -> 0..N] /\ tm[e] = N /\ \A f \in Symbol : f # e => tm[f] = sm[f]
    BY <1>0, <1>2, <2>3
  <2>5. Acyclic(ms)
    BY <1>0, <2>1, <2>2 DEF Shape, Acyclic
  <2>6. Opering(ms) = Opering(ns)
    BY <1>0, <2>1, <2>2 DEF Opering
  <2>7. Grown(ns, ms)
    BY <1>0, <2>1 DEF Grown
  <2>8. \A n \in 1..Len(ns) : ns[n].cate = "SYMBOLNODE" => ns[n].syment # e
    BY <1>2 DEF Shape
  <2>9. \A n \in 1..Len(ms) : ms[n].cate = "SYMBOLNODE" =>
          /\ ms[n].lhs = 0 /\ ms[n].syment \in Symbol /\ tm[ms[n].syment] # 0
          /\ \A m \in 1..Len(ms) :
               ms[m].cate = "SYMBOLNODE" /\ ms[m].syment = ms[n].syment => m = n
    BY <1>0, <2>1, <2>2, <2>3, <2>4, <2>8, SMTT(30) DEF Shape
  <2>10. \A n \in Opering(ms) :
          /\ ms[n].lhs # 0
          /\ \A m \in Opering(ms) : Same(ms[m], ms[n].op, ms[n].lhs, ms[n].rhs) => m = n
    <3>1. \A n \in Opering(ns) : ms[n] = ns[n]
      BY <2>1 DEF Opering
    <3>. QED BY <2>6, <3>1 DEF Shape
  <2>11. \A f \in Symbol : tm[f] # 0 /\ ms[tm[f]].cate = "SYMBOLNODE" => ms[tm[f]].syment = f
    <3>1. TAKE f \in Symbol
    <3>2. CASE f = e
      BY <2>2, <2>4, <3>2
    <3>3. CASE f # e
      <4>1. tm[f] = sm[f] /\ sm[f] \in 0..Len(ns)
        BY <2>3, <2>4, <3>3
      <4>2. sm[f] # 0 => ms[sm[f]] = ns[sm[f]]
        BY <1>0, <2>1, <4>1
      <4>. QED BY <4>1, <4>2 DEF Shape
    <3>. QED BY <3>2, <3>3
  <2>12. e # 0 => tm[e] # 0
    BY <1>0, <2>4
  <2>. QED BY <2>1, <2>4, <2>5, <2>6, <2>7, <2>9, <2>10, <2>11, <2>12 DEF Shape
<1>. QED BY <1>1, <1>2 DEF Leafed

\* The graph behind an operation: shared, or a node more, and d mapped to it.
Opered(ns, sm, ms, tm, op, d, l, r) ==
  \E n \in Opering(ms) :
    /\ ms = ns \/ (n = Len(ns) + 1 /\ ms = Append(ns, Oper(op, l, r)))
    /\ ms[n].op = op /\ ms[n].lhs = l /\ ms[n].rhs = r
    /\ ms # ns => \A m \in Opering(ns) : ~ Same(ns[m], op, l, r)
    /\ tm = [sm EXCEPT ![d] = n]

LEMMA FindNonleaf ==
  ASSUME NEW ns, NEW sm, NEW o, NEW op, NEW l, NEW r, NEW g, NEW h,
         g = [nodes |-> ns, symmap |-> sm, out |-> o], h = find_nonleaf(g, op, l, r),
         Shape(ns, sm), l \in 1..Len(ns), r \in 0..Len(ns), op \in Computing
  PROVE  /\ h.symmap = sm
         /\ h = [nodes |-> h.nodes, symmap |-> h.symmap, out |-> h.out]
         /\ \A d : Opered(ns, sm, h.nodes, [sm EXCEPT ![d] = h.out], op, d, l, r)
<1>. DEFINE found == {n \in DOMAIN ns : Same(ns[n], op, l, r)}
<1>0. Len(ns) \in Nat /\ ns \in Seq(Node) /\ DOMAIN ns = 1..Len(ns)
  BY DEF Shape, Acyclic
<1>1. \A n \in found : n \in 1..Len(ns) /\ n \in Opering(ns)
  <2>1. TAKE n \in found
  <2>2. n \in 1..Len(ns) /\ ns[n].lhs = l /\ l # 0
    BY <1>0 DEF Same
  <2>3. ns[n] \in Node
    BY <1>0, <2>2
  <2>4. ns[n].cate # "SYMBOLNODE"
    BY <2>2 DEF Shape
  <2>. QED BY <2>2, <2>3, <2>4 DEF Opering, Node
<1>2. g.nodes = ns /\ g.symmap = sm
  OBVIOUS
<1>3. CASE found # {}
  <2>. DEFINE n == CHOOSE n \in found : \A m \in found : n <= m
  <2>1. \E k \in found : \A m \in found : k <= m
    <3>1. found \subseteq Nat
      BY <1>1
    <3>. HIDE DEF found
    <3>. QED BY <1>3, <3>1, LeastNat
  <2>2. n \in found
    BY <2>1
  <2>3. h = [nodes |-> ns, symmap |-> sm, out |-> n]
    BY <1>2, <1>3 DEF find_nonleaf
  <2>. HIDE DEF n
  <2>4. n \in Opering(ns) /\ ns[n].op = op /\ ns[n].lhs = l /\ ns[n].rhs = r
    BY <1>1, <2>2 DEF Same
  <2>. QED BY <2>3, <2>4 DEF Opered
<1>4. CASE found = {}
  <2>1. h = [nodes |-> Append(ns, Oper(op, l, r)), symmap |-> sm, out |-> Len(ns) + 1]
    BY <1>2, <1>4 DEF find_nonleaf
  <2>. DEFINE y == Oper(op, l, r)
              ms == Append(ns, y)
              n == Len(ns) + 1
  <2>2. /\ y \in Node /\ y.op = op /\ y.lhs = l /\ y.rhs = r /\ y.cate = "OPERNODE"
    BY <1>0, OperNode
  <2>. HIDE DEF y
  <2>3. Len(ms) = n /\ ms[n] = y
    BY <1>0, <2>2, Appended
  <2>4. n \in Opering(ms) /\ ms[n].op = op /\ ms[n].lhs = l /\ ms[n].rhs = r
    BY <1>0, <2>2, <2>3 DEF Opering
  <2>5. \A m \in Opering(ns) : ~ Same(ns[m], op, l, r)
    BY <1>0, <1>4 DEF Opering
  <2>6. h.nodes = ms /\ h.symmap = sm /\ h.out = n
    BY <2>1 DEF y
  <2>7. ms = Append(ns, Oper(op, l, r))
    BY DEF y
  <2>. HIDE DEF ms, n
  <2>8. \A d : Opered(ns, sm, ms, [sm EXCEPT ![d] = n], op, d, l, r)
    BY <2>4, <2>5, <2>7 DEF Opered, n
  <2>. QED BY <2>1, <2>6, <2>8
<1>. QED BY <1>3, <1>4

LEMMA OperShape ==
  ASSUME NEW ns, NEW sm, Shape(ns, sm), NEW ms, NEW tm, NEW op, NEW d, NEW l, NEW r,
         Opered(ns, sm, ms, tm, op, d, l, r), op \in Computing, d \in Symbol,
         l \in 1..Len(ns), r \in 0..Len(ns)
  PROVE  Shape(ms, tm) /\ Grown(ns, ms)
<1>0. Len(ns) \in Nat /\ ns \in Seq(Node)
  BY DEF Shape, Acyclic
<1>1. PICK n \in Opering(ms) :
    /\ ms = ns \/ (n = Len(ns) + 1 /\ ms = Append(ns, Oper(op, l, r)))
    /\ ms[n].op = op /\ ms[n].lhs = l /\ ms[n].rhs = r
    /\ ms # ns => \A m \in Opering(ns) : ~ Same(ns[m], op, l, r)
    /\ tm = [sm EXCEPT ![d] = n]
  BY DEF Opered
<1>2. sm \in [Symbol -> 0..Len(ns)]
  BY DEF Shape
<1>3. /\ Acyclic(ms) /\ Grown(ns, ms)
      /\ \A m \in 1..Len(ns) : ms[m] = ns[m]
      /\ \A m \in 1..Len(ms) : m \in 1..Len(ns) \/ m = n
      /\ ms # ns => n \notin 1..Len(ns)
  <2>1. CASE ms = ns
    BY <1>0, <2>1 DEF Grown, Shape
  <2>2. CASE ms # ns
    <3>1. n = Len(ns) + 1 /\ ms = Append(ns, Oper(op, l, r))
      BY <1>1, <2>2
    <3>2. Oper(op, l, r) \in Node
      BY <1>0, OperNode
    <3>3. /\ ms \in Seq(Node) /\ Len(ms) = n /\ \A m \in 1..Len(ns) : ms[m] = ns[m]
          /\ \A m \in 1..n : m = n \/ m \in 1..Len(ns)
      BY <1>0, <3>1, <3>2, Appended
    <3>. HIDE DEF Oper
    <3>4. Grown(ns, ms)
      BY <1>0, <3>1, <3>3 DEF Grown
    <3>5. Acyclic(ms)
      BY <1>0, <1>1, <3>1, <3>3 DEF Shape, Acyclic
    <3>. QED BY <1>0, <3>1, <3>3, <3>4, <3>5
  <2>. QED BY <2>1, <2>2
<1>4. n \in 1..Len(ms) /\ ms[n].cate = "OPERNODE"
  BY <1>1 DEF Opering
<1>5. Len(ns) <= Len(ms) /\ Len(ms) \in Nat
  BY <1>3 DEF Grown, Acyclic
<1>6. /\ tm \in [Symbol -> 0..Len(ms)] /\ tm[d] = n
      /\ \A f \in Symbol : f # d => tm[f] = sm[f]
  BY <1>0, <1>1, <1>2, <1>4, <1>5
<1>7. \A f \in Symbol : sm[f] # 0 => tm[f] # 0
  BY <1>4, <1>6
<1>8. \A m \in 1..Len(ms) : ms[m].cate = "SYMBOLNODE" => m \in 1..Len(ns) /\ ms[m] = ns[m]
  BY <1>3, <1>4
<1>9. \A m \in Opering(ms) : m = n \/ (m \in Opering(ns) /\ ms[m] = ns[m])
  BY <1>3 DEF Opering
<1>10. \A m \in 1..Len(ms) : ms[m].cate = "SYMBOLNODE" =>
         /\ ms[m].lhs = 0 /\ ms[m].syment \in Symbol /\ tm[ms[m].syment] # 0
         /\ \A k \in 1..Len(ms) :
              ms[k].cate = "SYMBOLNODE" /\ ms[k].syment = ms[m].syment => k = m
  BY <1>7, <1>8 DEF Shape
<1>11. \A m \in Opering(ms) :
         /\ ms[m].lhs # 0
         /\ \A k \in Opering(ms) : Same(ms[k], ms[m].op, ms[m].lhs, ms[m].rhs) => k = m
  <2>1. CASE ms = ns
    BY <2>1 DEF Shape
  <2>2. CASE ms # ns
    <3>1. \A m \in Opering(ns) : ~ Same(ms[m], op, l, r)
      BY <1>1, <1>3, <2>2 DEF Opering
    <3>2. \A m \in Opering(ns) : ~ Same(ms[n], ms[m].op, ms[m].lhs, ms[m].rhs)
      BY <1>1, <3>1 DEF Same
    <3>3. \A m, k \in Opering(ns) : Same(ms[k], ms[m].op, ms[m].lhs, ms[m].rhs) => k = m
      BY <1>3 DEF Shape, Opering
    <3>4. \A m \in Opering(ns) : ms[m].lhs # 0
      BY <1>3 DEF Shape, Opering
    <3>. QED BY <1>1, <1>9, <3>1, <3>2, <3>3, <3>4
  <2>. QED BY <2>1, <2>2
<1>12. \A f \in Symbol : tm[f] # 0 /\ ms[tm[f]].cate = "SYMBOLNODE" => ms[tm[f]].syment = f
  <2>1. TAKE f \in Symbol
  <2>2. CASE f = d
    BY <1>4, <1>6, <2>2
  <2>3. CASE f # d
    <3>1. tm[f] = sm[f] /\ sm[f] \in 0..Len(ns)
      BY <1>2, <1>6, <2>3
    <3>2. sm[f] # 0 => ms[sm[f]] = ns[sm[f]]
      BY <1>0, <1>3, <3>1
    <3>. QED BY <3>1, <3>2 DEF Shape
  <2>. QED BY <2>2, <2>3
<1>. QED BY <1>3, <1>6, <1>10, <1>11, <1>12 DEF Shape

\* The three graphs of Extended.
Start(ns, sm) == [nodes |-> ns, symmap |-> sm, out |-> 0]
Left(ns, sm, x) == find_leaf(Start(ns, sm), First(x))
Right(ns, sm, x) == find_leaf(Left(ns, sm, x), x.s)

LEMMA LeafMaps ==
  ASSUME NEW ns, NEW sm, NEW ms, NEW tm, NEW e,
         sm \in [Symbol -> 0..Len(ns)], Leafed(ns, sm, ms, tm, e)
  PROVE  \A a \in Symbol : sm[a] # 0 => tm[a] = sm[a]
BY DEF Leafed

LEMMA Operands ==
  ASSUME NEW x \in Inst, x.op \in Computing
  PROVE  /\ First(x) \in Symbol /\ x.s \in Symbol \cup {0} /\ x.d \in Symbol
         /\ x.r \in Symbol \cup {0}
<1>1. "CALL_OP" \notin Computing /\ "JUMP_OP" \notin Computing
  BY DagAssumption DEF Computing
<1>2. "NEG_OP" \notin Update /\ "STORE_VAR_OP" \notin Update /\ Binary \cap Update = {}
  BY DagAssumption
<1>3. CASE x \in [op : Binary, d : Temp, r : Symbol, s : Symbol]
  BY <1>2, <1>3 DEF First, Symbol
<1>4. CASE x \in [op : {"NEG_OP"}, d : Temp, r : Symbol, s : {0}]
  BY <1>2, <1>4 DEF First, Symbol
<1>5. CASE x \in [op : {"STORE_VAR_OP"}, d : Var, r : Symbol, s : {0}]
  BY <1>2, <1>5 DEF First, Symbol
<1>6. CASE x \in [op : Update, d : Var, r : {0}, s : {0}]
  BY <1>6 DEF First, Symbol
<1>7. CASE x \in {[op |-> o, d |-> 0, r |-> 0, s |-> 0] : o \in {"CALL_OP", "JUMP_OP"}}
  BY <1>1, <1>7
<1>. QED BY <1>3, <1>4, <1>5, <1>6, <1>7 DEF Inst

LEMMA NotZero == 0 \notin Symbol
BY DagAssumption

\* The steps of Extended.
LEMMA ExtendedSteps ==
  ASSUME NEW ns, NEW sm, Shape(ns, sm), NEW x \in Inst, x.op \in Computing,
         NEW g, g = Extended([nodes |-> ns, symmap |-> sm, out |-> 0], x),
         NEW l, l = Left(ns, sm, x), NEW r, r = Right(ns, sm, x)
  PROVE  /\ Leafed(ns, sm, l.nodes, l.symmap, First(x)) /\ Shape(l.nodes, l.symmap)
         /\ Leafed(l.nodes, l.symmap, r.nodes, r.symmap, x.s) /\ Shape(r.nodes, r.symmap)
         /\ Opered(r.nodes, r.symmap, g.nodes, g.symmap, x.op, x.d, l.out, r.out)
         /\ Shape(g.nodes, g.symmap)
         /\ l.out \in 1..Len(r.nodes) /\ r.out \in 0..Len(r.nodes)
         /\ l.out = r.symmap[First(x)] /\ l.symmap[First(x)] = l.out
         /\ r.out = IF x.s = 0 THEN 0 ELSE r.symmap[x.s]
<1>0. First(x) \in Symbol /\ x.s \in Symbol \cup {0} /\ x.d \in Symbol /\ First(x) # 0
  BY Operands, NotZero
<1>1. /\ l = [nodes |-> l.nodes, symmap |-> l.symmap, out |-> l.out]
      /\ Leafed(ns, sm, l.nodes, l.symmap, First(x))
      /\ l.out = IF First(x) = 0 THEN 0 ELSE l.symmap[First(x)]
  <2>. DEFINE s == Start(ns, sm)
              e == First(x)
  <2>1. s = [nodes |-> ns, symmap |-> sm, out |-> 0] /\ l = find_leaf(s, e)
    BY DEF Left, Start
  <2>2. sm \in [Symbol -> 0..Len(ns)] /\ ns \in Seq(Node)
    BY DEF Shape, Acyclic
  <2>3. e \in Symbol \cup {0}
    BY <1>0
  <2>. HIDE DEF s, e
  <2>4. /\ l = [nodes |-> l.nodes, symmap |-> l.symmap, out |-> l.out]
        /\ Leafed(ns, sm, l.nodes, l.symmap, e)
        /\ l.out = IF e = 0 THEN 0 ELSE l.symmap[e]
    BY <2>1, <2>2, <2>3, FindLeaf
  <2>. QED BY <2>4 DEF e
<1>2. Shape(l.nodes, l.symmap) /\ l.symmap[First(x)] # 0
  BY <1>0, <1>1, LeafShape
<1>3. l.symmap \in [Symbol -> 0..Len(l.nodes)] /\ l.nodes \in Seq(Node)
  BY <1>2 DEF Shape, Acyclic
<1>4. /\ r = [nodes |-> r.nodes, symmap |-> r.symmap, out |-> r.out]
      /\ Leafed(l.nodes, l.symmap, r.nodes, r.symmap, x.s)
      /\ r.out = IF x.s = 0 THEN 0 ELSE r.symmap[x.s]
  <2>. DEFINE ns1 == l.nodes
              sm1 == l.symmap
              o1 == l.out
  <2>1. l = [nodes |-> ns1, symmap |-> sm1, out |-> o1] /\ r = find_leaf(l, x.s)
    BY <1>1 DEF Right
  <2>2. sm1 \in [Symbol -> 0..Len(ns1)] /\ ns1 \in Seq(Node) /\ x.s \in Symbol \cup {0}
    BY <1>0, <1>3
  <2>. HIDE DEF ns1, sm1, o1
  <2>3. /\ r = [nodes |-> r.nodes, symmap |-> r.symmap, out |-> r.out]
        /\ Leafed(ns1, sm1, r.nodes, r.symmap, x.s)
        /\ r.out = IF x.s = 0 THEN 0 ELSE r.symmap[x.s]
    BY <2>1, <2>2, FindLeaf
  <2>. QED BY <2>3 DEF ns1, sm1
<1>5. Shape(r.nodes, r.symmap) /\ (x.s # 0 => r.symmap[x.s] # 0)
  BY <1>0, <1>2, <1>4, LeafShape
<1>6. r.symmap[First(x)] = l.symmap[First(x)]
  <2>. DEFINE e == First(x)
              ns1 == l.nodes
              sm1 == l.symmap
              ms == r.nodes
              tm == r.symmap
              s == x.s
  <2>1. e \in Symbol /\ sm1[e] # 0 /\ sm1 \in [Symbol -> 0..Len(ns1)]
    BY <1>0, <1>2, <1>3
  <2>2. Leafed(ns1, sm1, ms, tm, s)
    BY <1>4
  <2>. HIDE DEF e, ns1, sm1, ms, tm, s
  <2>3. tm[e] = sm1[e]
    BY <2>1, <2>2, LeafMaps
  <2>. QED BY <2>3 DEF e, sm1, tm
<1>7. r.symmap \in [Symbol -> 0..Len(r.nodes)] /\ Len(r.nodes) \in Nat
  BY <1>5 DEF Shape, Acyclic
<1>8. l.out \in 1..Len(r.nodes) /\ l.out = r.symmap[First(x)] /\ l.symmap[First(x)] = l.out
  BY <1>0, <1>1, <1>2, <1>6, <1>7
<1>9. r.out \in 0..Len(r.nodes)
  BY <1>0, <1>4, <1>7
<1>. DEFINE o == find_nonleaf(r, x.op, l.out, r.out)
<1>10. /\ o.symmap = r.symmap
       /\ o = [nodes |-> o.nodes, symmap |-> o.symmap, out |-> o.out]
       /\ Opered(r.nodes, r.symmap, o.nodes, [r.symmap EXCEPT ![x.d] = o.out], x.op, x.d, l.out, r.out)
  <2>. DEFINE ns2 == r.nodes
              sm2 == r.symmap
              o2 == r.out
              lo == l.out
              op == x.op
              d == x.d
  <2>1. r = [nodes |-> ns2, symmap |-> sm2, out |-> o2]
    BY <1>4
  <2>2. Shape(ns2, sm2) /\ lo \in 1..Len(ns2) /\ o2 \in 0..Len(ns2) /\ op \in Computing
    BY <1>5, <1>8, <1>9
  <2>. HIDE DEF ns2, sm2, o2, lo, op, d
  <2>3. PICK h : h = find_nonleaf(r, op, lo, o2)
    OBVIOUS
  <2>4. h.symmap = sm2
    BY <2>1, <2>2, <2>3, FindNonleaf
  <2>5. h = [nodes |-> h.nodes, symmap |-> h.symmap, out |-> h.out]
    BY <2>1, <2>2, <2>3, FindNonleaf
  <2>6. \A y : Opered(ns2, sm2, h.nodes, [sm2 EXCEPT ![y] = h.out], op, y, lo, o2)
    BY <2>1, <2>2, <2>3, FindNonleaf
  <2>7. Opered(ns2, sm2, h.nodes, [sm2 EXCEPT ![d] = h.out], op, d, lo, o2)
    BY <2>6
  <2>. QED BY <2>3, <2>4, <2>5, <2>7 DEF ns2, sm2, o2, lo, op, d
<1>11. g = [o EXCEPT !.symmap[x.d] = o.out]
  BY DEF Extended, Left, Right, Start
<1>. HIDE DEF o
<1>12. g.nodes = o.nodes /\ g.symmap = [o.symmap EXCEPT ![x.d] = o.out]
  BY <1>10, <1>11
<1>13. Opered(r.nodes, r.symmap, g.nodes, g.symmap, x.op, x.d, l.out, r.out)
  BY <1>10, <1>12
<1>14. Shape(g.nodes, g.symmap)
  BY <1>0, <1>5, <1>8, <1>9, <1>13, OperShape
<1>. QED BY <1>1, <1>2, <1>4, <1>5, <1>8, <1>9, <1>13, <1>14

-----------------------------------------------------------------------------
(* Values                                                                  *)

LEMMA ValuesUpTo ==
  ASSUME NEW list, Len(list) \in Nat
  PROVE  \A k \in 0..Len(list) : \E v : v = [i \in 0..k |->
           IF i = 0 THEN [e \in Symbol |-> Held(e)] ELSE Behind(v[i - 1], list[i])]
<1>. DEFINE Next1(v, i) == IF i = 0 THEN [e \in Symbol |-> Held(e)] ELSE Behind(v[i - 1], list[i])
<1>. DEFINE Bad == {k \in 0..Len(list) : ~ \E v : v = [i \in 0..k |-> Next1(v, i)]}
<1>1. SUFFICES ASSUME Bad # {} PROVE FALSE
  OBVIOUS
<1>2. PICK k \in Bad : \A l \in Bad : k <= l
  <2>1. Bad \subseteq Nat
    OBVIOUS
  <2>. HIDE DEF Bad
  <2>. QED BY <1>1, <2>1, LeastNat
<1>3. k \in Nat /\ k <= Len(list)
  OBVIOUS
<1>4. k # 0
  <2>1. SUFFICES ASSUME k = 0 PROVE FALSE
    OBVIOUS
  <2>. DEFINE v == [i \in 0..0 |-> [e \in Symbol |-> Held(e)]]
  <2>2. v = [i \in 0..0 |-> Next1(v, i)]
    OBVIOUS
  <2>. QED BY <2>1, <2>2, <1>2
<1>5. k - 1 \in 0..Len(list) /\ k - 1 \notin Bad
  <2>1. k - 1 \in 0..Len(list) /\ ~ (k <= k - 1)
    BY <1>3, <1>4
  <2>. HIDE DEF Bad
  <2>. QED BY <1>2, <2>1
<1>6. PICK u : u = [i \in 0..k - 1 |-> Next1(u, i)]
  BY <1>5
<1>. DEFINE v == [i \in 0..k |-> IF i < k THEN u[i] ELSE Next1(u, i)]
<1>7. \A i \in 0..k - 1 : v[i] = u[i]
  BY <1>3
<1>8. \A i \in 0..k : i = 0 \/ i - 1 \in 0..k - 1
  BY <1>3
<1>9. \A i \in 0..k : Next1(u, i) = Next1(v, i)
  BY <1>7, <1>8
<1>10. \A i \in 0..k : v[i] = Next1(u, i)
  <2>1. \A i \in 0..k - 1 : u[i] = Next1(u, i)
    BY <1>6
  <2>2. \A i \in 0..k : i \in 0..k - 1 \/ (i = k /\ ~ (i < k))
    BY <1>3
  <2>3. \A i \in 0..k : v[i] = IF i < k THEN u[i] ELSE Next1(u, i)
    OBVIOUS
  <2>. HIDE DEF v, Next1
  <2>. QED BY <2>1, <2>2, <2>3
<1>11. v = [i \in 0..k |-> Next1(v, i)]
  <2>1. v = [i \in 0..k |-> v[i]]
    OBVIOUS
  <2>. HIDE DEF v, Next1
  <2>. QED BY <1>9, <1>10, <2>1
<1>. QED BY <1>2, <1>11

LEMMA ValuesAre ==
  ASSUME NEW list, Len(list) \in Nat, NEW k \in 0..Len(list)
  PROVE  Values(list, k) = IF k = 0 THEN [e \in Symbol |-> Held(e)]
                           ELSE Behind(Values(list, k - 1), list[k])
<1>. DEFINE Env == CHOOSE v : v = [i \in 0..Len(list) |->
              IF i = 0 THEN [e \in Symbol |-> Held(e)] ELSE Behind(v[i - 1], list[i])]
<1>1. Env = [i \in 0..Len(list) |->
              IF i = 0 THEN [e \in Symbol |-> Held(e)] ELSE Behind(Env[i - 1], list[i])]
  <2>1. Len(list) \in 0..Len(list)
    OBVIOUS
  <2>. QED BY <2>1, ValuesUpTo
<1>2. \A i : Values(list, i) = Env[i]
  BY DEF Values
<1>. HIDE DEF Env
<1>. QED BY <1>1, <1>2

\* symmap and the nodes' terms are the symbols' values.
Agrees(ns, sm, env) ==
  env = [e \in Symbol |-> IF sm[e] = 0 THEN Held(e) ELSE Terms(ns, Copies)[sm[e]]]

LEMMA LeafAgrees ==
  ASSUME NEW ns, NEW sm, NEW ms, NEW tm, NEW e \in Symbol \cup {0}, NEW env,
         Shape(ns, sm), Leafed(ns, sm, ms, tm, e), Agrees(ns, sm, env)
  PROVE  /\ Agrees(ms, tm, env)
         /\ Operand(env, e) = Terms(ms, Copies)[IF e = 0 THEN 0 ELSE tm[e]]
<1>0. Shape(ms, tm) /\ Grown(ns, ms) /\ (e # 0 => tm[e] # 0)
  BY LeafShape
<1>1. Acyclic(ns) /\ Acyclic(ms) /\ sm \in [Symbol -> 0..Len(ns)] /\ tm \in [Symbol -> 0..Len(ms)]
  BY <1>0 DEF Shape
<1>2. Len(ns) \in Nat /\ Len(ms) \in Nat
  BY <1>1 DEF Acyclic
<1>3. \A n \in 0..Len(ns) : Terms(ms, Copies)[n] = Terms(ns, Copies)[n]
  BY <1>0, <1>1, TermsKept
<1>4. \A f \in Symbol : env[f] = IF tm[f] = 0 THEN Held(f) ELSE Terms(ms, Copies)[tm[f]]
  <2>1. TAKE f \in Symbol
  <2>2. env[f] = IF sm[f] = 0 THEN Held(f) ELSE Terms(ns, Copies)[sm[f]]
    BY DEF Agrees
  <2>3. sm[f] \in 0..Len(ns)
    BY <1>1
  <2>4. CASE tm[f] = sm[f]
    BY <1>3, <2>2, <2>3, <2>4
  <2>5. CASE tm[f] # sm[f]
    <3>1. f = e /\ e # 0 /\ sm[e] = 0 /\ ms = Append(ns, Leaf(e)) /\ tm[e] = Len(ns) + 1
      BY <1>1, <2>5 DEF Leafed
    <3>2. ms[Len(ns) + 1] = Leaf(e) /\ Len(ms) = Len(ns) + 1
      BY <1>1, <3>1, LeafNode, Appended DEF Acyclic
    <3>3. Len(ns) + 1 \in 0..Len(ms) /\ Len(ns) + 1 # 0
      BY <1>2, <3>2
    <3>4. Terms(ms, Copies)[Len(ns) + 1] = Term(ms, Copies, Terms(ms, Copies), Len(ns) + 1)
      BY <1>1, <3>3, TermsAre
    <3>5. Leaf(e).cate = "SYMBOLNODE" /\ Leaf(e).syment = e
      BY <3>1, LeafNode
    <3>6. Terms(ms, Copies)[Len(ns) + 1] = Held(e)
      BY <3>2, <3>3, <3>4, <3>5 DEF Term
    <3>. QED BY <2>2, <3>1, <3>3, <3>6
  <2>. QED BY <2>4, <2>5
<1>5. Agrees(ms, tm, env)
  <2>1. env = [f \in Symbol |-> env[f]]
    BY DEF Agrees
  <2>. QED BY <1>4, <2>1 DEF Agrees
<1>6. CASE e = 0
  <2>1. Terms(ms, Copies)[0] = Term(ms, Copies, Terms(ms, Copies), 0)
    BY <1>1, <1>2, TermsAre
  <2>. QED BY <1>5, <1>6, <2>1 DEF Term, Operand
<1>7. CASE e # 0
  BY <1>0, <1>4, <1>5, <1>7 DEF Operand
<1>. QED BY <1>6, <1>7

LEMMA OperAgrees ==
  ASSUME NEW ns, NEW sm, NEW ms, NEW tm, NEW x, NEW l, NEW r, NEW env,
         Shape(ns, sm), Agrees(ns, sm, env), x.op \in Computing, x.d \in Symbol,
         Opered(ns, sm, ms, tm, x.op, x.d, l, r), l \in 1..Len(ns), r \in 0..Len(ns),
         Operand(env, First(x)) = Terms(ns, Copies)[l], Operand(env, x.s) = Terms(ns, Copies)[r]
  PROVE  Agrees(ms, tm, Behind(env, x))
<1>. DEFINE op == x.op
            d == x.d
            v == Operand(env, First(x))
            w == Operand(env, x.s)
<1>1. Behind(env, x) = [env EXCEPT ![d] = Result(Copies, op, v, w)]
  BY NotZero DEF Behind
<1>2. op \in Computing /\ d \in Symbol /\ v = Terms(ns, Copies)[l] /\ w = Terms(ns, Copies)[r]
  OBVIOUS
<1>3. Opered(ns, sm, ms, tm, op, d, l, r)
  OBVIOUS
<1>. HIDE DEF op, d, v, w
<1>4. Shape(ms, tm) /\ Grown(ns, ms)
  BY <1>2, <1>3, OperShape
<1>5. Acyclic(ns) /\ Acyclic(ms) /\ sm \in [Symbol -> 0..Len(ns)]
  BY <1>4 DEF Shape
<1>6. Len(ns) \in Nat /\ Len(ms) \in Nat /\ Len(ns) <= Len(ms)
  BY <1>4, <1>5 DEF Acyclic, Grown
<1>7. \A n \in 0..Len(ns) : Terms(ms, Copies)[n] = Terms(ns, Copies)[n]
  BY <1>4, <1>5, TermsKept
<1>8. PICK n \in Opering(ms) : /\ ms[n].op = op /\ ms[n].lhs = l /\ ms[n].rhs = r
                               /\ tm = [sm EXCEPT ![d] = n]
  BY <1>3 DEF Opered
<1>9. n \in 0..Len(ms) /\ n # 0 /\ ms[n].cate # "SYMBOLNODE"
  BY <1>6, <1>8 DEF Opering
<1>10. Terms(ms, Copies)[n] = Term(ms, Copies, Terms(ms, Copies), n)
  BY <1>5, <1>9, TermsAre
<1>11. Terms(ms, Copies)[n] = Result(Copies, op, v, w)
  <2>1. Terms(ms, Copies)[l] = v /\ Terms(ms, Copies)[r] = w
    BY <1>2, <1>6, <1>7
  <2>2. Terms(ms, Copies)[n] = Result(Copies, ms[n].op, Terms(ms, Copies)[ms[n].lhs],
                                     Terms(ms, Copies)[ms[n].rhs])
    BY <1>9, <1>10 DEF Term
  <2>. QED BY <1>8, <2>1, <2>2
<1>12. \A e \in Symbol : [env EXCEPT ![d] = Result(Copies, op, v, w)][e] =
         IF tm[e] = 0 THEN Held(e) ELSE Terms(ms, Copies)[tm[e]]
  <2>1. TAKE e \in Symbol
  <2>2. env = [f \in Symbol |-> IF sm[f] = 0 THEN Held(f) ELSE Terms(ns, Copies)[sm[f]]]
    BY DEF Agrees
  <2>3. CASE e = d
    <3>1. tm[e] = n
      BY <1>5, <1>8, <2>3
    <3>2. [env EXCEPT ![d] = Result(Copies, op, v, w)][e] = Result(Copies, op, v, w)
      BY <2>2, <2>3
    <3>. QED BY <1>9, <1>11, <3>1, <3>2
  <2>4. CASE e # d
    <3>1. tm[e] = sm[e] /\ sm[e] \in 0..Len(ns)
      BY <1>5, <1>8, <2>4
    <3>2. [env EXCEPT ![d] = Result(Copies, op, v, w)][e] = env[e]
      BY <2>2, <2>4
    <3>3. env[e] = IF sm[e] = 0 THEN Held(e) ELSE Terms(ns, Copies)[sm[e]]
      BY <2>2
    <3>. QED BY <1>7, <3>1, <3>2, <3>3
  <2>. QED BY <2>3, <2>4
<1>13. [env EXCEPT ![d] = Result(Copies, op, v, w)] =
         [e \in Symbol |-> [env EXCEPT ![d] = Result(Copies, op, v, w)][e]]
  BY DEF Agrees
<1>. QED BY <1>1, <1>12, <1>13 DEF Agrees

-----------------------------------------------------------------------------
(* The instructions the operations were made for                           *)

Ops(is, k) == {i \in 1..k : is[i].op \in Computing}

LEMMA Cates ==
  ASSUME NEW ns \in Seq(Node)
  PROVE  \A m \in 1..Len(ns) : ns[m].cate # "SYMBOLNODE" => m \in Opering(ns)
<1>1. \A m \in 1..Len(ns) : ns[m] \in Node
  OBVIOUS
<1>. QED BY <1>1 DEF Opering, Node

\* Each of the first k instructions has an operation of its own.
Own(ns, f, is, k) == \A i \in Ops(is, k) : \E n \in Opering(ns) : f[n] = i

\* Node m is the operand a, when f has each operation's instruction.
Tied(ns, is, f, m, a) ==
  IF m = 0 THEN a = 0
  ELSE IF ns[m].cate = "SYMBOLNODE" THEN ns[m].syment = a
  ELSE is[f[m]].d = a

\* f has the instruction each operation was made for; when none is shared,
\* symmap leads to an operation from its target only.
Made(ns, sm, is, k, f) ==
  /\ f \in [Opering(ns) -> Ops(is, k)]
  /\ \A n, m \in Opering(ns) : n < m => f[n] < f[m]
  /\ \A n \in Opering(ns) : ns[n].op = is[f[n]].op
  /\ Own(ns, f, is, k) =>
       /\ \A e \in Symbol : sm[e] \in Opering(ns) => is[f[sm[e]]].d = e
       /\ \A n \in Opering(ns) : /\ Tied(ns, is, f, ns[n].lhs, First(is[f[n]]))
                                 /\ Tied(ns, is, f, ns[n].rhs, is[f[n]].s)

LEMMA LeafMade ==
  ASSUME NEW ns, NEW sm, NEW ms, NEW tm, NEW e \in Symbol \cup {0}, NEW is, NEW k, NEW f,
         Shape(ns, sm), Leafed(ns, sm, ms, tm, e), Made(ns, sm, is, k, f)
  PROVE  Made(ms, tm, is, k, f)
<1>0. /\ Shape(ms, tm) /\ Grown(ns, ms) /\ Opering(ms) = Opering(ns)
  BY LeafShape
<1>1. Len(ns) \in Nat /\ sm \in [Symbol -> 0..Len(ns)]
  BY DEF Shape, Acyclic
<1>2. \A g \in Symbol : tm[g] \in Opering(ns) => tm[g] = sm[g]
  BY <1>1 DEF Leafed, Opering
<1>3. \A m \in 0..Len(ns) : \A a : Tied(ns, is, f, m, a) => Tied(ms, is, f, m, a)
  BY <1>0, <1>1 DEF Grown, Tied
<1>4. \A n \in Opering(ns) : /\ ms[n].lhs = ns[n].lhs /\ ms[n].rhs = ns[n].rhs /\ ms[n].op = ns[n].op
                             /\ ns[n].lhs \in 0..Len(ns) /\ ns[n].rhs \in 0..Len(ns)
  BY <1>0, <1>1 DEF Grown, Opering, Shape, Acyclic
<1>5. Own(ms, f, is, k) => Own(ns, f, is, k)
  BY <1>0 DEF Own
<1>. QED BY <1>0, <1>2, <1>3, <1>4, <1>5 DEF Made

LEMMA SkipMade ==
  ASSUME NEW ns, NEW sm, NEW is, NEW k \in Nat, NEW f, Made(ns, sm, is, k, f),
         is[k + 1].op \notin Computing
  PROVE  Made(ns, sm, is, k + 1, f)
<1>1. Ops(is, k + 1) = Ops(is, k)
  BY DEF Ops
<1>. QED BY <1>1 DEF Made, Own

LEMMA OperMade ==
  ASSUME NEW ns, NEW sm, NEW ms, NEW tm, NEW is, NEW k \in Nat, NEW f, NEW x, NEW l, NEW r,
         NEW op, NEW d, NEW a, NEW b,
         Shape(ns, sm), Made(ns, sm, is, k, f), x = is[k + 1], op = x.op, d = x.d,
         a = First(x), b = x.s, op \in Computing, d \in Symbol, a \in Symbol, b \in Symbol \cup {0},
         Opered(ns, sm, ms, tm, op, d, l, r), l \in 1..Len(ns), r \in 0..Len(ns),
         l = sm[a], r = IF b = 0 THEN 0 ELSE sm[b], b # 0 => sm[b] # 0
  PROVE  \E h : Made(ms, tm, is, k + 1, h)
<1>1. PICK n \in Opering(ms) :
    /\ ms = ns \/ (n = Len(ns) + 1 /\ ms = Append(ns, Oper(op, l, r)))
    /\ ms[n].op = op /\ ms[n].lhs = l /\ ms[n].rhs = r
    /\ ms # ns => \A m \in Opering(ns) : ~ Same(ns[m], op, l, r)
    /\ tm = [sm EXCEPT ![d] = n]
  BY DEF Opered
<1>2. Len(ns) \in Nat /\ ns \in Seq(Node) /\ sm \in [Symbol -> 0..Len(ns)]
  BY DEF Shape, Acyclic
<1>3. Ops(is, k + 1) = Ops(is, k) \cup {k + 1} /\ k + 1 \notin Ops(is, k)
  BY DEF Ops
<1>4. CASE ms = ns
  <2>1. ~ Own(ms, f, is, k + 1)
    BY <1>3, <1>4 DEF Own, Made
  <2>2. f \in [Opering(ms) -> Ops(is, k + 1)]
    BY <1>3, <1>4 DEF Made
  <2>3. Made(ms, tm, is, k + 1, f)
    BY <1>4, <2>1, <2>2 DEF Made
  <2>. QED BY <2>3
<1>5. CASE ms # ns
  <2>1. n = Len(ns) + 1 /\ ms = Append(ns, Oper(op, l, r))
    BY <1>1, <1>5
  <2>2. Oper(op, l, r) \in Node
    BY <1>2, OperNode
  <2>3. /\ Len(ms) = n /\ \A m \in 1..Len(ns) : ms[m] = ns[m]
        /\ \A m \in 1..n : m = n \/ m \in 1..Len(ns)
    BY <1>2, <2>1, <2>2, Appended
  <2>4. Opering(ms) = Opering(ns) \cup {n} /\ n \notin Opering(ns) /\ \A m \in Opering(ns) : m < n
    BY <1>1, <1>2, <2>1, <2>3 DEF Opering
  <2>. DEFINE h == [m \in Opering(ms) |-> IF m = n THEN k + 1 ELSE f[m]]
  <2>5. h[n] = k + 1 /\ \A m \in Opering(ns) : h[m] = f[m]
    BY <2>4
  <2>6. h \in [Opering(ms) -> Ops(is, k + 1)]
    <3>1. \A m \in Opering(ns) : f[m] \in Ops(is, k)
      BY DEF Made
    <3>. QED BY <1>3, <2>4, <3>1
  <2>. HIDE DEF h
  <2>7. \A p, q \in Opering(ms) : p < q => h[p] < h[q]
    <3>1. TAKE p \in Opering(ms), q \in Opering(ms)
    <3>2. HAVE p < q
    <3>3. p \in Opering(ns) /\ h[p] = f[p] /\ f[p] \in 1..k
      BY <1>2, <2>1, <2>3, <2>4, <2>5, <3>2 DEF Made, Ops, Opering
    <3>4. CASE q = n
      BY <2>5, <3>3, <3>4
    <3>5. CASE q # n
      BY <2>4, <2>5, <3>2, <3>3, <3>5 DEF Made
    <3>. QED BY <3>4, <3>5
  <2>8. \A m \in Opering(ms) : ms[m].op = is[h[m]].op
    <3>1. TAKE m \in Opering(ms)
    <3>2. CASE m = n
      BY <1>1, <2>5, <3>2
    <3>3. CASE m # n
      <4>1. m \in Opering(ns) /\ ms[m] = ns[m] /\ h[m] = f[m]
        BY <2>3, <2>4, <2>5, <3>3 DEF Opering
      <4>. QED BY <4>1 DEF Made
    <3>. QED BY <3>2, <3>3
  <2>9. Own(ms, h, is, k + 1) => Own(ns, f, is, k)
    BY <1>3, <2>4, <2>5 DEF Own
  <2>10. ASSUME Own(ns, f, is, k)
         PROVE  \A e \in Symbol : tm[e] \in Opering(ms) => is[h[tm[e]]].d = e
    <3>1. TAKE e \in Symbol
    <3>2. HAVE tm[e] \in Opering(ms)
    <3>3. CASE e = d
      BY <1>1, <1>2, <2>5, <3>3
    <3>4. CASE e # d
      <4>1. tm[e] = sm[e] /\ sm[e] \in 0..Len(ns)
        BY <1>1, <1>2, <3>4
      <4>2. sm[e] \in Opering(ns)
        BY <1>2, <2>1, <2>4, <3>2, <4>1
      <4>. QED BY <2>5, <2>10, <4>1, <4>2 DEF Made
    <3>. QED BY <3>3, <3>4
  <2>11. \A m \in 0..Len(ns) : \A y : Tied(ns, is, f, m, y) => Tied(ms, is, h, m, y)
    <3>1. \A m \in 1..Len(ns) : ms[m] = ns[m] /\ (ns[m].cate # "SYMBOLNODE" => h[m] = f[m])
      <4>1. \A m \in 1..Len(ns) : ns[m].cate # "SYMBOLNODE" => m \in Opering(ns)
        BY <1>2, Cates
      <4>. QED BY <2>3, <2>5, <4>1
    <3>. QED BY <1>2, <3>1 DEF Tied
  <2>12. ASSUME Own(ns, f, is, k)
         PROVE  Tied(ns, is, f, l, a) /\ Tied(ns, is, f, r, b)
    <3>1. \A e \in Symbol : sm[e] # 0 => Tied(ns, is, f, sm[e], e)
      <4>1. TAKE e \in Symbol
      <4>2. HAVE sm[e] # 0
      <4>3. sm[e] \in 1..Len(ns)
        BY <1>2, <4>2
      <4>4. CASE ns[sm[e]].cate = "SYMBOLNODE"
        BY <4>2, <4>4 DEF Tied, Shape
      <4>5. CASE ns[sm[e]].cate # "SYMBOLNODE"
        <5>1. sm[e] \in Opering(ns)
          BY <1>2, <4>3, <4>5, Cates
        <5>. QED BY <2>12, <4>2, <4>5, <5>1 DEF Made, Tied
      <4>. QED BY <4>4, <4>5
    <3>2. l # 0
      OBVIOUS
    <3>3. Tied(ns, is, f, l, a)
      BY <3>1, <3>2
    <3>4. Tied(ns, is, f, 0, 0)
      BY DEF Tied
    <3>. QED BY <3>1, <3>3, <3>4
  <2>13. ASSUME Own(ns, f, is, k)
         PROVE  \A m \in Opering(ms) : /\ Tied(ms, is, h, ms[m].lhs, First(is[h[m]]))
                                       /\ Tied(ms, is, h, ms[m].rhs, is[h[m]].s)
    <3>1. TAKE m \in Opering(ms)
    <3>2. CASE m = n
      <4>1. ms[m].lhs = l /\ ms[m].rhs = r /\ is[h[m]] = x /\ First(x) = a /\ x.s = b
        BY <1>1, <2>5, <3>2
      <4>2. Tied(ms, is, h, l, a) /\ Tied(ms, is, h, r, b)
        BY <1>2, <2>11, <2>12, <2>13
      <4>. QED BY <4>1, <4>2
    <3>3. CASE m # n
      <4>1. m \in Opering(ns) /\ ms[m] = ns[m] /\ h[m] = f[m] /\ m \in 1..Len(ns)
        BY <2>3, <2>4, <2>5, <3>3 DEF Opering
      <4>2. ns[m].lhs \in 0..Len(ns) /\ ns[m].rhs \in 0..Len(ns)
        BY <1>2, <4>1 DEF Shape, Acyclic
      <4>3. /\ Tied(ns, is, f, ns[m].lhs, First(is[f[m]]))
            /\ Tied(ns, is, f, ns[m].rhs, is[f[m]].s)
        BY <2>13, <4>1 DEF Made
      <4>. QED BY <2>11, <4>1, <4>2, <4>3
    <3>. QED BY <3>2, <3>3
  <2>14. Made(ms, tm, is, k + 1, h)
    BY <2>6, <2>7, <2>8, <2>9, <2>10, <2>13 DEF Made
  <2>. QED BY <2>14
<1>. QED BY <1>4, <1>5

\* The symbols of the leaves are those of the first k instructions, and an
\* operation has none yet.
Mentions(ns, is, k) ==
  /\ \A n \in 1..Len(ns) : ns[n].cate = "SYMBOLNODE" =>
       \E i \in Ops(is, k) : ns[n].syment \in {is[i].d, is[i].r, is[i].s}
  /\ \A n \in Opering(ns) : ns[n].syment = 0

LEMMA LeafMentions ==
  ASSUME NEW ns, NEW sm, NEW ms, NEW tm, NEW e, NEW is, NEW k,
         ns \in Seq(Node), Mentions(ns, is, k), Leafed(ns, sm, ms, tm, e), e \in Symbol \cup {0},
         e # 0 => \E i \in Ops(is, k) : e \in {is[i].d, is[i].r, is[i].s}
  PROVE  Mentions(ms, is, k)
<1>1. CASE ms = ns
  BY <1>1
<1>2. CASE ms # ns
  <2>. DEFINE x == Leaf(e)
  <2>0. e # 0 /\ e \in Symbol
    BY <1>2 DEF Leafed
  <2>1. x \in Node /\ x.cate = "SYMBOLNODE" /\ x.syment = e /\ ms = Append(ns, x)
    BY <1>2, <2>0, LeafNode DEF Leafed
  <2>. HIDE DEF x
  <2>2. /\ Len(ms) = Len(ns) + 1 /\ ms[Len(ns) + 1] = x
        /\ \A n \in 1..Len(ns) : ms[n] = ns[n]
        /\ \A n \in 1..Len(ns) + 1 : n = Len(ns) + 1 \/ n \in 1..Len(ns)
    BY <2>1, Appended
  <2>3. \A n \in Opering(ms) : n \in Opering(ns) /\ ms[n] = ns[n]
    BY <2>1, <2>2 DEF Opering
  <2>. QED BY <2>0, <2>1, <2>2, <2>3 DEF Mentions
<1>. QED BY <1>1, <1>2

LEMMA OperMentions ==
  ASSUME NEW ns, NEW sm, NEW ms, NEW tm, NEW op \in Computing, NEW d, NEW l \in Nat, NEW r \in Nat,
         NEW is, NEW k,
         ns \in Seq(Node), Mentions(ns, is, k), Opered(ns, sm, ms, tm, op, d, l, r)
  PROVE  Mentions(ms, is, k)
<1>1. CASE ms = ns
  BY <1>1
<1>2. CASE ms # ns
  <2>. DEFINE x == Oper(op, l, r)
  <2>1. x \in Node /\ x.cate = "OPERNODE" /\ x.syment = 0 /\ ms = Append(ns, x)
    BY <1>2, OperNode DEF Opered
  <2>. HIDE DEF x
  <2>2. /\ Len(ms) = Len(ns) + 1 /\ ms[Len(ns) + 1] = x
        /\ \A n \in 1..Len(ns) : ms[n] = ns[n]
        /\ \A n \in 1..Len(ns) + 1 : n = Len(ns) + 1 \/ n \in 1..Len(ns)
    BY <2>1, Appended
  <2>3. \A n \in Opering(ms) : n = Len(ns) + 1 \/ (n \in Opering(ns) /\ ms[n] = ns[n])
    BY <2>1, <2>2, SMTT(30) DEF Opering
  <2>. QED BY <2>1, <2>2, <2>3 DEF Mentions
<1>. QED BY <1>1, <1>2

\* The graph of the first k instructions.
Built(is, ns, sm, k) ==
  /\ Shape(ns, sm)
  /\ Agrees(ns, sm, Values(is, k))
  /\ \E f : Made(ns, sm, is, k, f)
  /\ Mentions(ns, is, k)

LEMMA ExtendedBuilt ==
  ASSUME NEW is \in Seq(Inst), NEW k \in Nat, k < Len(is), is[k + 1].op \in Computing,
         NEW ns, NEW sm, Built(is, ns, sm, k),
         NEW g, g = Extended([nodes |-> ns, symmap |-> sm, out |-> 0], is[k + 1])
  PROVE  Built(is, g.nodes, g.symmap, k + 1)
<1>. DEFINE x == is[k + 1]
<1>1. x \in Inst /\ x.op \in Computing
  OBVIOUS
<1>. HIDE DEF x
<1>2. /\ First(x) \in Symbol /\ x.s \in Symbol \cup {0} /\ x.d \in Symbol /\ First(x) # 0
      /\ First(x) \in {x.d, x.r, x.s}
  BY <1>1, Operands, NotZero DEF First
<1>. DEFINE l == Left(ns, sm, x)
            r == Right(ns, sm, x)
<1>3. Shape(ns, sm) /\ g = Extended([nodes |-> ns, symmap |-> sm, out |-> 0], x)
  BY DEF Built, x
<1>. HIDE DEF l, r
<1>4. PICK a : a = Left(ns, sm, x)
  OBVIOUS
<1>5. PICK b : b = Right(ns, sm, x)
  OBVIOUS
<1>6. /\ Leafed(ns, sm, a.nodes, a.symmap, First(x)) /\ Shape(a.nodes, a.symmap)
      /\ Leafed(a.nodes, a.symmap, b.nodes, b.symmap, x.s) /\ Shape(b.nodes, b.symmap)
      /\ Opered(b.nodes, b.symmap, g.nodes, g.symmap, x.op, x.d, a.out, b.out)
      /\ Shape(g.nodes, g.symmap)
      /\ a.out \in 1..Len(b.nodes) /\ b.out \in 0..Len(b.nodes)
      /\ a.out = b.symmap[First(x)] /\ a.symmap[First(x)] = a.out
      /\ b.out = IF x.s = 0 THEN 0 ELSE b.symmap[x.s]
  BY <1>1, <1>3, <1>4, <1>5, ExtendedSteps
<1>. DEFINE ns1 == a.nodes
            sm1 == a.symmap
            ns2 == b.nodes
            sm2 == b.symmap
            ms == g.nodes
            tm == g.symmap
            op == x.op
            d == x.d
            e == First(x)
            c == x.s
            lo == a.out
            ro == b.out
<1>7. /\ Leafed(ns, sm, ns1, sm1, e) /\ Shape(ns1, sm1)
      /\ Leafed(ns1, sm1, ns2, sm2, c) /\ Shape(ns2, sm2)
      /\ Opered(ns2, sm2, ms, tm, op, d, lo, ro)
      /\ Shape(ms, tm)
      /\ lo \in 1..Len(ns2) /\ ro \in 0..Len(ns2)
      /\ lo = sm2[e] /\ sm1[e] = lo
      /\ ro = IF c = 0 THEN 0 ELSE sm2[c]
  BY <1>6
<1>8. /\ op \in Computing /\ d \in Symbol /\ e \in Symbol /\ c \in Symbol \cup {0}
      /\ e # 0 /\ e \in {x.d, x.r, x.s}
  BY <1>1, <1>2
<1>9. /\ d = x.d /\ e = First(x) /\ c = x.s /\ op = x.op
  OBVIOUS
<1>. HIDE DEF ns1, sm1, ns2, sm2, ms, tm, op, d, e, c, lo, ro
<1>10. Len(ns) \in Nat /\ ns \in Seq(Node) /\ ns1 \in Seq(Node) /\ ns2 \in Seq(Node) /\ Len(ns2) \in Nat
  BY <1>3, <1>7 DEF Shape, Acyclic
<1>11. c # 0 => sm2[c] # 0
  BY <1>7, <1>8, LeafShape
<1>12. \E h : Made(ms, tm, is, k + 1, h)
  <2>1. PICK f : Made(ns, sm, is, k, f)
    BY DEF Built
  <2>2. Made(ns1, sm1, is, k, f)
    BY <1>3, <1>7, <1>8, <2>1, LeafMade
  <2>3. Made(ns2, sm2, is, k, f)
    BY <1>7, <1>8, <2>2, LeafMade
  <2>4. x = is[k + 1]
    BY DEF x
  <2>. QED BY <1>7, <1>8, <1>9, <1>11, <2>3, <2>4, OperMade
<1>13. Mentions(ms, is, k + 1)
  <2>1. k + 1 \in Ops(is, k + 1) /\ x = is[k + 1] /\ Ops(is, k) \subseteq Ops(is, k + 1)
    BY <1>1 DEF Ops, x
  <2>2. Mentions(ns, is, k + 1)
    BY <2>1 DEF Built, Mentions
  <2>3. \E i \in Ops(is, k + 1) : e \in {is[i].d, is[i].r, is[i].s}
    BY <1>8, <2>1
  <2>4. \E i \in Ops(is, k + 1) : c \in {is[i].d, is[i].r, is[i].s}
    BY <1>9, <2>1
  <2>5. Mentions(ns1, is, k + 1)
    BY <1>7, <1>8, <1>10, <2>2, <2>3, LeafMentions
  <2>6. Mentions(ns2, is, k + 1)
    BY <1>7, <1>8, <1>10, <2>4, <2>5, LeafMentions
  <2>. QED BY <1>7, <1>8, <1>10, <2>6, OperMentions
<1>14. Agrees(ms, tm, Values(is, k + 1))
  <2>. DEFINE env == Values(is, k)
  <2>1. Agrees(ns, sm, env)
    BY DEF Built
  <2>2. Values(is, k + 1) = Behind(env, x)
    <3>1. Len(is) \in Nat /\ k + 1 \in 0..Len(is) /\ k + 1 # 0 /\ (k + 1) - 1 = k
      OBVIOUS
    <3>2. Values(is, k + 1) = IF k + 1 = 0 THEN [f \in Symbol |-> Held(f)]
                              ELSE Behind(Values(is, (k + 1) - 1), is[k + 1])
      BY <3>1, ValuesAre
    <3>. QED BY <3>1, <3>2 DEF x
  <2>. HIDE DEF env
  <2>3. Agrees(ns1, sm1, env) /\ Operand(env, e) = Terms(ns1, Copies)[sm1[e]]
    BY <1>3, <1>7, <1>8, <2>1, LeafAgrees
  <2>4. Agrees(ns2, sm2, env) /\ Operand(env, c) = Terms(ns2, Copies)[ro]
    BY <1>7, <1>8, <2>3, LeafAgrees
  <2>5. Operand(env, e) = Terms(ns2, Copies)[lo]
    BY <1>7, <1>8, <2>4 DEF Agrees, Operand
  <2>. QED BY <1>7, <1>8, <1>9, <2>2, <2>4, <2>5, OperAgrees
<1>. QED BY <1>7, <1>12, <1>13, <1>14 DEF Built, ms, tm

-----------------------------------------------------------------------------
(* Sizes                                                                   *)

LEMMA IntervalSize ==
  \A n \in Nat : IsFiniteSet(1..n) /\ Cardinality(1..n) = n
<1>1. TAKE n \in Nat
<1>2. IsFiniteSet(1..n) /\ Cardinality(1..n) = IF 1 > n THEN 0 ELSE n - 1 + 1
  BY FS_Interval
<1>. QED BY <1>2

LEMMA OneForEach ==
  ASSUME NEW S, NEW T, IsFiniteSet(T), NEW f, f \in [S -> T],
         \A a, b \in S : f[a] = f[b] => a = b
  PROVE  /\ IsFiniteSet(S) /\ Cardinality(S) <= Cardinality(T)
         /\ Cardinality(S) = Cardinality(T) => \A t \in T : \E s \in S : f[s] = t
<1>1. f \in Injection(S, T)
  BY DEF Injection, IsInjective
<1>2. f \in Surjection(S, T) => \A t \in T : \E s \in S : f[s] = t
  BY DEF Surjection
<1>. QED BY <1>1, <1>2, FS_Injection

\* There are no more operations than instructions they were made for, and no
\* more leaves than symbols in these.
LEMMA Sizes ==
  ASSUME NEW is \in Seq(Inst), NEW k \in 0..Len(is), NEW ns, NEW sm, Built(is, ns, sm, k),
         NEW S, S = Ops(is, Len(is)),
         NEW T, T = (UNION {{is[i].d, is[i].r, is[i].s} : i \in S}) \ {0}
  PROVE  /\ Len(ns) <= Cardinality(S) + Cardinality(T)
         /\ Len(ns) \in Nat /\ Cardinality(S) \in Nat /\ Cardinality(T) \in Nat
<1>1. Len(is) \in Nat /\ k \in Nat /\ Len(ns) \in Nat /\ ns \in Seq(Node)
  BY DEF Built, Shape, Acyclic
<1>. DEFINE L == {n \in 1..Len(ns) : ns[n].cate = "SYMBOLNODE"}
            O == Opering(ns)
<1>2. IsFiniteSet(1..Len(is)) /\ IsFiniteSet(1..Len(ns)) /\ Cardinality(1..Len(ns)) = Len(ns)
  BY <1>1, IntervalSize
<1>3. S \subseteq 1..Len(is) /\ Ops(is, k) \subseteq S
  BY <1>1 DEF Ops
<1>4. IsFiniteSet(S)
  BY <1>2, <1>3, FS_Subset
<1>5. T \subseteq Symbol
  <2>1. \A i \in S : {is[i].d, is[i].r, is[i].s} \subseteq Symbol \cup {0}
    <3>1. TAKE i \in S
    <3>2. is[i] \in Inst /\ is[i].op \in Computing
      BY <1>1 DEF Ops
    <3>. QED BY <3>2, Operands
  <2>2. \A t \in T : t # 0 /\ \E i \in S : t \in {is[i].d, is[i].r, is[i].s}
    OBVIOUS
  <2>. HIDE DEF O
  <2>. QED BY <2>1, <2>2
<1>6. IsFiniteSet(T)
  BY <1>5, FS_Subset, DagAssumption
<1>7. IsFiniteSet(O) /\ Cardinality(O) <= Cardinality(S)
  <2>1. PICK f : Made(ns, sm, is, k, f)
    BY DEF Built
  <2>2. f \in [O -> S]
    BY <1>3, <2>1 DEF Made
  <2>3. \A a, b \in O : f[a] = f[b] => a = b
    <3>1. \A n \in O : f[n] \in Nat /\ n \in Nat
      BY <1>3, <2>2 DEF Opering
    <3>. QED BY <2>1, <3>1 DEF Made
  <2>. HIDE DEF O
  <2>. QED BY <1>4, <2>2, <2>3, OneForEach
<1>8. IsFiniteSet(L) /\ Cardinality(L) <= Cardinality(T)
  <2>. DEFINE f == [n \in L |-> ns[n].syment]
  <2>1. \A n \in L : ns[n].syment \in T
    <3>1. TAKE n \in L
    <3>2. ns[n].syment # 0
      BY NotZero DEF Built, Shape
    <3>3. PICK i \in Ops(is, k) : ns[n].syment \in {is[i].d, is[i].r, is[i].s}
      BY DEF Built, Mentions
    <3>4. i \in S
      BY <1>3
    <3>. QED BY <3>2, <3>3, <3>4
  <2>2. f \in [L -> T]
    BY <2>1
  <2>3. \A a, b \in L : f[a] = f[b] => a = b
    BY DEF Built, Shape
  <2>. HIDE DEF f, L
  <2>4. Cardinality(L) <= Cardinality(T)
    BY <1>6, <2>2, <2>3, OneForEach
  <2>. QED BY <1>2, <2>4, FS_Subset DEF L
<1>9. 1..Len(ns) = L \cup O
  BY <1>1, Cates DEF Opering
<1>10. Cardinality(1..Len(ns)) = Cardinality(L) + Cardinality(O) - Cardinality(L \cap O)
  <2>. HIDE DEF L, O
  <2>. QED BY <1>7, <1>8, <1>9, FS_Union
<1>11. IsFiniteSet(L \cap O)
  <2>. HIDE DEF L, O
  <2>. QED BY <1>7, FS_Intersection
<1>12. /\ Cardinality(L \cap O) \in Nat /\ Cardinality(L) \in Nat /\ Cardinality(O) \in Nat
       /\ Cardinality(S) \in Nat /\ Cardinality(T) \in Nat
  BY <1>4, <1>6, <1>7, <1>8, <1>11, FS_CardinalityType
<1>. HIDE DEF L, O
<1>. QED BY <1>1, <1>2, <1>7, <1>8, <1>10, <1>12

-----------------------------------------------------------------------------
(* Expressions                                                             *)

LEMMA ExpressionsDiffer ==
  ASSUME NEW ns, NEW sm, Shape(ns, sm)
  PROVE  \A n, m \in 0..Len(ns) : Terms(ns, {})[n] = Terms(ns, {})[m] => n = m
<1>. DEFINE t == Terms(ns, {})
            Bad == {n \in 0..Len(ns) : \E m \in 0..Len(ns) : t[n] = t[m] /\ n # m}
<1>1. Acyclic(ns) /\ Len(ns) \in Nat /\ ns \in Seq(Node)
  BY DEF Shape, Acyclic
<1>2. SUFFICES ASSUME Bad # {} PROVE FALSE
  OBVIOUS
<1>3. PICK n \in Bad : \A m \in Bad : n <= m
  <2>1. Bad \subseteq Nat
    BY <1>1
  <2>. HIDE DEF Bad
  <2>. QED BY <1>2, <2>1, LeastNat
<1>4. PICK m \in 0..Len(ns) : t[n] = t[m] /\ n # m
  OBVIOUS
<1>5. n \in 0..Len(ns) /\ m \in Bad
  BY <1>4
<1>6. n < m
  BY <1>1, <1>3, <1>4, <1>5
<1>7. \A p \in 0..Len(ns) : t[p] = Term(ns, {}, t, p)
  BY <1>1, TermsAre
<1>8. \A p, q \in 0..Len(ns) : p < n /\ t[p] = t[q] => p = q
  BY <1>1, <1>3, <1>5
<1>. HIDE DEF t, Bad
<1>9. \A p \in 1..Len(ns) :
        /\ ns[p].cate = "SYMBOLNODE" => t[p] = <<"held", ns[p].syment>>
        /\ ns[p].cate # "SYMBOLNODE" => t[p] = <<ns[p].op, t[ns[p].lhs], t[ns[p].rhs]>>
        /\ ns[p].lhs \in 0..p - 1 /\ ns[p].rhs \in 0..p - 1
  <2>1. TAKE p \in 1..Len(ns)
  <2>2. p # 0 /\ p \in 0..Len(ns)
    BY <1>1
  <2>3. t[p] = IF ns[p].cate = "SYMBOLNODE" THEN Held(ns[p].syment)
               ELSE Result({}, ns[p].op, t[ns[p].lhs], t[ns[p].rhs])
    BY <1>7, <2>2, Zenon DEF Term
  <2>4. ns[p].lhs \in 0..p - 1 /\ ns[p].rhs \in 0..p - 1
    BY <1>1 DEF Acyclic
  <2>5. \A op, v, w : Result({}, op, v, w) = <<op, v, w>>
    BY DEF Result
  <2>. QED BY <2>3, <2>4, <2>5, Zenon DEF Held
<1>18. \A a, b, c, d, e : <<a, b>> # <<c, d, e>>
  OBVIOUS
<1>19. \A p \in 1..Len(ns) :
         /\ ns[p].cate = "SYMBOLNODE" => \E a, b : t[p] = <<a, b>>
         /\ ns[p].cate # "SYMBOLNODE" => \E a, b, c : t[p] = <<a, b, c>>
  <2>1. TAKE p \in 1..Len(ns)
  <2>2. ns[p].cate = "SYMBOLNODE" => \E a, b : t[p] = <<a, b>>
    BY <1>9, Zenon
  <2>3. ns[p].cate # "SYMBOLNODE" => \E a, b, c : t[p] = <<a, b, c>>
    <3>1. HAVE ns[p].cate # "SYMBOLNODE"
    <3>2. t[p] = <<ns[p].op, t[ns[p].lhs], t[ns[p].rhs]>>
      BY <1>9, <3>1
    <3>. QED BY <3>2, Zenon
  <2>. QED BY <2>2, <2>3
<1>10. t[0] = <<>>
  BY <1>1, <1>7 DEF Term, Nothing
<1>11. m \in 1..Len(ns)
  BY <1>1, <1>4, <1>5, <1>6
<1>12. n # 0
  <2>1. \A a, b, c : <<a, b>> # <<>> /\ <<a, b, c>> # <<>>
    OBVIOUS
  <2>2. t[m] # <<>>
    BY <1>11, <1>19, <2>1
  <2>. QED BY <1>4, <1>10, <2>2
<1>13. n \in 1..Len(ns)
  BY <1>1, <1>5, <1>12
<1>14. CASE ns[n].cate = "SYMBOLNODE" /\ ns[m].cate = "SYMBOLNODE"
  <2>1. ns[n].syment = ns[m].syment
    BY <1>4, <1>9, <1>11, <1>13, <1>14
  <2>. QED BY <1>4, <1>11, <1>13, <1>14, <2>1 DEF Shape
<1>15. CASE ns[n].cate = "SYMBOLNODE" /\ ns[m].cate # "SYMBOLNODE"
  <2>1. (\E a, b : t[n] = <<a, b>>) /\ (\E a, b, c : t[m] = <<a, b, c>>)
    BY <1>11, <1>13, <1>15, <1>19, Zenon
  <2>. QED BY <1>4, <1>18, <2>1, Zenon
<1>16. CASE ns[n].cate # "SYMBOLNODE" /\ ns[m].cate = "SYMBOLNODE"
  <2>1. (\E a, b : t[m] = <<a, b>>) /\ (\E a, b, c : t[n] = <<a, b, c>>)
    BY <1>11, <1>13, <1>16, <1>19, Zenon
  <2>. QED BY <1>4, <1>18, <2>1, Zenon
<1>17. CASE ns[n].cate # "SYMBOLNODE" /\ ns[m].cate # "SYMBOLNODE"
  <2>1. ns[n].op = ns[m].op /\ t[ns[n].lhs] = t[ns[m].lhs] /\ t[ns[n].rhs] = t[ns[m].rhs]
    BY <1>4, <1>9, <1>11, <1>13, <1>17
  <2>2. /\ ns[n].lhs \in 0..n - 1 /\ ns[n].rhs \in 0..n - 1
        /\ ns[m].lhs \in 0..m - 1 /\ ns[m].rhs \in 0..m - 1
    BY <1>9, <1>11, <1>13
  <2>3. ns[n].lhs = ns[m].lhs /\ ns[n].rhs = ns[m].rhs
    BY <1>1, <1>8, <1>11, <1>13, <2>1, <2>2
  <2>4. n \in Opering(ns) /\ m \in Opering(ns)
    BY <1>1, <1>11, <1>13, <1>17, Cates
  <2>. QED BY <1>4, <2>1, <2>3, <2>4 DEF Shape, Same
<1>. QED BY <1>14, <1>15, <1>16, <1>17

-----------------------------------------------------------------------------
(* Generating                                                              *)

\* What gen_curr_node says of node m when g has the lists of the nodes before it.
Gen(g, m) ==
  [l \in Seq(DOMAIN nodes) |->
     IF m = 0 \/ Has(l, m) \/ nodes[m].cate = "SYMBOLNODE" THEN l
     ELSE Append(g[nodes[m].rhs][g[nodes[m].lhs][l]], m)]

LEMMA GenUpTo ==
  ASSUME Acyclic(nodes)
  PROVE  \A k \in 0..Len(nodes) : \E g : g = [m \in 0..k |-> Gen(g, m)]
<1>. DEFINE Bad == {k \in 0..Len(nodes) : ~ \E g : g = [m \in 0..k |-> Gen(g, m)]}
<1>1. SUFFICES ASSUME Bad # {} PROVE FALSE
  OBVIOUS
<1>2. Len(nodes) \in Nat
  BY DEF Acyclic
<1>3. PICK k \in Bad : \A l \in Bad : k <= l
  <2>1. Bad \subseteq Nat
    BY <1>2
  <2>. HIDE DEF Bad
  <2>. QED BY <1>1, <2>1, LeastNat
<1>4. k \in Nat /\ k <= Len(nodes)
  BY <1>2
<1>5. k # 0
  <2>1. SUFFICES ASSUME k = 0 PROVE FALSE
    OBVIOUS
  <2>. DEFINE g == [m \in 0..0 |-> [l \in Seq(DOMAIN nodes) |-> l]]
  <2>2. \A m \in 0..0 : Gen(g, m) = [l \in Seq(DOMAIN nodes) |-> l]
    <3>. HIDE DEF g
    <3>1. Gen(g, 0) = [l \in Seq(DOMAIN nodes) |-> l]
      BY DEF Gen
    <3>2. \A m \in 0..0 : m = 0
      OBVIOUS
    <3>. QED BY <3>1, <3>2
  <2>3. g = [m \in 0..0 |-> Gen(g, m)]
    BY <2>2
  <2>. QED BY <2>1, <2>3, <1>3
<1>6. k - 1 \in 0..Len(nodes) /\ k - 1 \notin Bad
  <2>1. k - 1 \in 0..Len(nodes) /\ ~ (k <= k - 1)
    BY <1>2, <1>4, <1>5
  <2>. HIDE DEF Bad
  <2>. QED BY <1>3, <2>1
<1>7. PICK u : u = [m \in 0..k - 1 |-> Gen(u, m)]
  BY <1>6
<1>. DEFINE g == [m \in 0..k |-> IF m < k THEN u[m] ELSE Gen(u, m)]
<1>8. \A m \in 0..k : m = 0 \/ (nodes[m].lhs \in 0..k - 1 /\ nodes[m].rhs \in 0..k - 1)
  <2>1. TAKE m \in 0..k
  <2>2. m = 0 \/ (m \in 1..Len(nodes) /\ m <= k)
    BY <1>2, <1>4
  <2>. QED BY <1>4, <2>2 DEF Acyclic
<1>9. \A m \in 0..k - 1 : g[m] = u[m]
  BY <1>4
<1>10. \A m \in 0..k : Gen(u, m) = Gen(g, m)
  <2>. HIDE DEF g
  <2>. QED BY <1>8, <1>9 DEF Gen
<1>11. \A m \in 0..k : g[m] = Gen(u, m)
  <2>1. \A m \in 0..k - 1 : u[m] = Gen(u, m)
    BY <1>7
  <2>2. \A m \in 0..k : m \in 0..k - 1 \/ (m = k /\ ~ (m < k))
    BY <1>4
  <2>3. \A m \in 0..k : g[m] = IF m < k THEN u[m] ELSE Gen(u, m)
    OBVIOUS
  <2>. HIDE DEF g
  <2>. QED BY <2>1, <2>2, <2>3
<1>12. g = [m \in 0..k |-> Gen(g, m)]
  <2>1. g = [m \in 0..k |-> g[m]]
    OBVIOUS
  <2>. HIDE DEF g
  <2>. QED BY <1>10, <1>11, <2>1
<1>. QED BY <1>3, <1>12

\* When all operations before n are in the list, gen_curr_node adds n alone.
LEMMA GenCurrNode ==
  ASSUME Acyclic(nodes), NEW n \in 1..Len(nodes), NEW list \in Seq(DOMAIN nodes),
         \A m \in Opering(nodes) : m < n => Has(list, m),
         n \in Opering(nodes) => ~ Has(list, n)
  PROVE  gen_curr_node(list, n) = IF n \in Opering(nodes) THEN Append(list, n) ELSE list
<1>1. Len(nodes) \in Nat /\ nodes \in Seq(Node)
  BY DEF Acyclic
<1>. DEFINE g == CHOOSE g : g = [m \in 0..n |-> Gen(g, m)]
<1>2. g = [m \in 0..n |-> Gen(g, m)]
  <2>1. n \in 0..Len(nodes)
    BY <1>1
  <2>. QED BY <2>1, GenUpTo
<1>3. gen_curr_node(list, n) = g[n][list]
  BY Zenon DEF gen_curr_node, Gen
<1>. HIDE DEF g
<1>4. \A m \in 0..n : g[m][list] =
        IF m = 0 \/ Has(list, m) \/ nodes[m].cate = "SYMBOLNODE" THEN list
        ELSE Append(g[nodes[m].rhs][g[nodes[m].lhs][list]], m)
  <2>1. TAKE m \in 0..n
  <2>2. g[m] = Gen(g, m)
    BY <1>2
  <2>. QED BY <2>2 DEF Gen
<1>5. \A m \in 0..n - 1 : g[m][list] = list
  <2>1. TAKE m \in 0..n - 1
  <2>2. m \in 0..n /\ m < n /\ (m = 0 \/ m \in 1..Len(nodes))
    BY <1>1
  <2>3. m = 0 \/ Has(list, m) \/ nodes[m].cate = "SYMBOLNODE"
    BY <1>1, <2>2, Cates
  <2>. QED BY <1>4, <2>2, <2>3
<1>6. n \in 0..n /\ n # 0
  BY <1>1
<1>7. CASE n \in Opering(nodes)
  <2>1. ~ Has(list, n) /\ nodes[n].cate # "SYMBOLNODE"
    BY <1>7 DEF Opering
  <2>2. nodes[n].lhs \in 0..n - 1 /\ nodes[n].rhs \in 0..n - 1
    BY DEF Acyclic
  <2>. QED BY <1>3, <1>4, <1>5, <1>6, <1>7, <2>1, <2>2
<1>8. CASE n \notin Opering(nodes)
  <2>1. nodes[n].cate = "SYMBOLNODE"
    BY <1>1, <1>8, Cates
  <2>. QED BY <1>3, <1>4, <1>6, <1>8, <2>1
<1>. QED BY <1>7, <1>8

\* The list of the operations before k.
Generated(ns, list, k) ==
  /\ list \in Seq(Opering(ns))
  /\ \A i, j \in 1..Len(list) : i < j => list[i] < list[j]
  /\ \A i \in 1..Len(list) : list[i] < k
  /\ \A n \in Opering(ns) : n < k => Has(list, n)

LEMMA GeneratedNext ==
  ASSUME Acyclic(nodes), NEW list, NEW n \in 1..Len(nodes), Generated(nodes, list, n)
  PROVE  Generated(nodes, gen_curr_node(list, n), n + 1)
<1>1. Len(nodes) \in Nat /\ Opering(nodes) \subseteq 1..Len(nodes) /\ DOMAIN nodes = 1..Len(nodes)
  BY DEF Acyclic, Opering
<1>2. list \in Seq(Opering(nodes)) /\ Len(list) \in Nat /\ DOMAIN list = 1..Len(list)
  BY DEF Generated
<1>3. list \in Seq(DOMAIN nodes)
  BY <1>1, <1>2
<1>4. ~ Has(list, n)
  BY <1>1, <1>2 DEF Generated, Has
<1>5. gen_curr_node(list, n) = IF n \in Opering(nodes) THEN Append(list, n) ELSE list
  BY <1>3, <1>4, GenCurrNode DEF Generated
<1>6. \A i \in 1..Len(list) : list[i] \in Nat
  BY <1>1, <1>2
<1>7. CASE n \in Opering(nodes)
  <2>. DEFINE l == Append(list, n)
  <2>1. /\ l \in Seq(Opering(nodes)) /\ Len(l) = Len(list) + 1
        /\ \A i \in 1..Len(list) : l[i] = list[i]
        /\ l[Len(list) + 1] = n
    BY <1>2, <1>7
  <2>2. DOMAIN l = 1..Len(l)
    BY <2>1
  <2>. HIDE DEF l
  <2>3. \A i \in 1..Len(l) : i \in 1..Len(list) \/ i = Len(list) + 1
    BY <1>2, <2>1
  <2>4. \A i \in 1..Len(l) : l[i] < n + 1
    BY <1>6, <2>1, <2>3 DEF Generated
  <2>5. \A i, j \in 1..Len(l) : i < j => l[i] < l[j]
    BY <1>2, <1>6, <2>1, <2>3 DEF Generated
  <2>6. \A m \in Opering(nodes) : m < n + 1 => Has(l, m)
    <3>1. TAKE m \in Opering(nodes)
    <3>2. HAVE m < n + 1
    <3>3. CASE m = n
      BY <1>2, <2>1, <2>2, <3>3 DEF Has
    <3>4. CASE m # n
      <4>1. Has(list, m)
        BY <1>1, <3>2, <3>4 DEF Generated
      <4>. QED BY <1>2, <2>1, <2>2, <4>1 DEF Has
    <3>. QED BY <3>3, <3>4
  <2>. QED BY <1>5, <1>7, <2>1, <2>4, <2>5, <2>6 DEF Generated, l
<1>8. CASE n \notin Opering(nodes)
  <2>1. \A m \in Opering(nodes) : m < n + 1 => m < n
    BY <1>1, <1>8
  <2>2. \A i \in 1..Len(list) : list[i] < n + 1
    BY <1>1, <1>6 DEF Generated
  <2>. QED BY <1>5, <1>8, <2>1, <2>2 DEF Generated
<1>. QED BY <1>7, <1>8

\* insts2 is not longer than the block.
LEMMA GeneratedLen ==
  ASSUME NEW is, Len(is) \in Nat, NEW ns, NEW sm, NEW f, Made(ns, sm, is, Len(is), f),
         NEW list, NEW k, Generated(ns, list, k), Len(ns) \in Nat
  PROVE  Len(list) <= Len(is)
<1>. DEFINE S == 1..Len(list)
            T == 1..Len(is)
            p == [i \in S |-> f[list[i]]]
<1>1. list \in Seq(Opering(ns)) /\ Len(list) \in Nat
  BY DEF Generated
<1>2. \A i \in S : list[i] \in Opering(ns) /\ list[i] \in Nat
  BY <1>1 DEF Opering
<1>3. \A n \in Opering(ns) : f[n] \in T /\ f[n] \in Nat
  BY DEF Made, Ops
<1>4. p \in [S -> T]
  BY <1>2, <1>3
<1>5. \A i, j \in S : i < j => p[i] < p[j]
  <2>1. TAKE i \in S, j \in S
  <2>2. HAVE i < j
  <2>3. list[i] < list[j] /\ list[i] \in Opering(ns) /\ list[j] \in Opering(ns)
    BY <1>2, <2>2 DEF Generated
  <2>4. f[list[i]] < f[list[j]]
    BY <2>3 DEF Made
  <2>. QED BY <2>4
<1>6. \A i, j \in S : p[i] = p[j] => i = j
  <2>1. \A i \in S : i \in Nat /\ p[i] \in Nat
    BY <1>2, <1>3
  <2>2. \A i, j \in S : i < j \/ j < i \/ i = j
    BY <1>1
  <2>. HIDE DEF p, S
  <2>. QED BY <1>5, <2>1, <2>2
<1>8. IsFiniteSet(T) /\ Cardinality(T) = Len(is) /\ Cardinality(S) = Len(list)
  BY <1>1, IntervalSize
<1>. HIDE DEF p, S, T
<1>9. Cardinality(S) <= Cardinality(T)
  BY <1>4, <1>6, <1>8, OneForEach
<1>. QED BY <1>8, <1>9

-----------------------------------------------------------------------------
(* Referring                                                               *)

\* Symbols at the operations change nothing a graph is built for.
LEMMA ReferKeeps ==
  ASSUME NEW ns, NEW sm, NEW ms, NEW is, NEW k, NEW f, Shape(ns, sm), Made(ns, sm, is, k, f),
         ms \in Seq(Node), Len(ms) = Len(ns), Grown(ns, ms)
  PROVE  Shape(ms, sm) /\ Opering(ms) = Opering(ns) /\ Made(ms, sm, is, k, f)
<1>1. Len(ns) \in Nat /\ Acyclic(ns) /\ sm \in [Symbol -> 0..Len(ns)]
  BY DEF Shape, Acyclic
<1>2. \A n \in 1..Len(ns) :
       /\ ms[n].cate = ns[n].cate /\ ms[n].op = ns[n].op
       /\ ms[n].lhs = ns[n].lhs /\ ms[n].rhs = ns[n].rhs
       /\ ns[n].cate = "SYMBOLNODE" => ms[n].syment = ns[n].syment
  BY DEF Grown
<1>3. Acyclic(ms)
  BY <1>1, <1>2 DEF Acyclic
<1>4. Opering(ms) = Opering(ns) /\ Opering(ns) \subseteq 1..Len(ns)
  BY <1>2 DEF Opering
<1>5. \A n \in 1..Len(ms) : ms[n].cate = "SYMBOLNODE" =>
       /\ ms[n].lhs = 0 /\ ms[n].syment \in Symbol /\ sm[ms[n].syment] # 0
       /\ \A m \in 1..Len(ms) :
            ms[m].cate = "SYMBOLNODE" /\ ms[m].syment = ms[n].syment => m = n
  BY <1>2 DEF Shape
<1>6. \A n \in Opering(ms) :
       /\ ms[n].lhs # 0
       /\ \A m \in Opering(ms) : Same(ms[m], ms[n].op, ms[n].lhs, ms[n].rhs) => m = n
  BY <1>2, <1>4 DEF Shape, Same
<1>7. \A e \in Symbol : sm[e] # 0 /\ ms[sm[e]].cate = "SYMBOLNODE" => ms[sm[e]].syment = e
  <2>1. TAKE e \in Symbol
  <2>2. HAVE sm[e] # 0 /\ ms[sm[e]].cate = "SYMBOLNODE"
  <2>3. sm[e] \in 1..Len(ns)
    BY <1>1, <2>2
  <2>. QED BY <1>2, <2>2, <2>3 DEF Shape
<1>8. Shape(ms, sm)
  BY <1>1, <1>3, <1>5, <1>6, <1>7 DEF Shape
<1>9. \A m \in 0..Len(ns) : \A a : Tied(ns, is, f, m, a) => Tied(ms, is, f, m, a)
  BY <1>1, <1>2 DEF Tied
<1>10. \A n \in Opering(ns) : ns[n].lhs \in 0..Len(ns) /\ ns[n].rhs \in 0..Len(ns)
  BY <1>1, <1>4 DEF Acyclic
<1>11. Own(ms, f, is, k) => Own(ns, f, is, k)
  BY <1>4 DEF Own
<1>12. Made(ms, sm, is, k, f)
  <2>1. Own(ms, f, is, k) =>
          \A n \in Opering(ms) : /\ Tied(ms, is, f, ms[n].lhs, First(is[f[n]]))
                                 /\ Tied(ms, is, f, ms[n].rhs, is[f[n]].s)
    <3>1. HAVE Own(ms, f, is, k)
    <3>2. TAKE n \in Opering(ms)
    <3>3. /\ Tied(ns, is, f, ns[n].lhs, First(is[f[n]]))
          /\ Tied(ns, is, f, ns[n].rhs, is[f[n]].s)
      BY <1>4, <1>11, <3>1 DEF Made
    <3>. QED BY <1>2, <1>4, <1>9, <1>10, <3>3
  <2>2. \A n \in Opering(ms) : ms[n].op = is[f[n]].op
    BY <1>2, <1>4 DEF Made
  <2>. QED BY <1>4, <1>11, <2>1, <2>2 DEF Made
<1>. QED BY <1>4, <1>8, <1>12

\* An operation with a name has one of its names.
Named(ns) == \A n \in Opering(ns) : Names(n) # {} => ns[n].syment \in Names(n)

LEMMA Referred ==
  ASSUME NEW is, NEW k, Built(is, nodes, symmap, k), build_referred_info
  PROVE  /\ Shape(nodes', symmap') /\ (\E f : Made(nodes', symmap', is, k, f))
         /\ Named(nodes)' /\ Len(nodes') = Len(nodes)
<1>. DEFINE Least(n) == CHOOSE e \in Names(n) : \A f \in Names(n) : e <= f
            ms == [n \in DOMAIN nodes |-> IF nodes[n].syment = 0 /\ Names(n) # {}
                                           THEN [nodes[n] EXCEPT !.syment = Least(n)]
                                           ELSE nodes[n]]
<1>1. nodes' = ms /\ symmap' = symmap
  BY DEF build_referred_info
<1>2. Len(nodes) \in Nat /\ nodes \in Seq(Node) /\ DOMAIN nodes = 1..Len(nodes)
  BY DEF Built, Shape, Acyclic
<1>3. \A n : Names(n) # {} => Least(n) \in Names(n) /\ Least(n) \in Symbol
  <2>1. TAKE n
  <2>2. HAVE Names(n) # {}
  <2>. DEFINE S == Names(n)
  <2>3. S \subseteq Symbol /\ S \subseteq Nat
    BY DagAssumption DEF Names
  <2>. HIDE DEF S
  <2>4. \E e \in S : \A f \in S : e <= f
    BY <2>2, <2>3, LeastNat DEF S
  <2>. QED BY <2>3, <2>4 DEF S
<1>. HIDE DEF Least
<1>4. \A n \in 1..Len(nodes) :
        /\ nodes[n] \in Node /\ ms[n] \in Node
        /\ ms[n].cate = nodes[n].cate /\ ms[n].op = nodes[n].op
        /\ ms[n].lhs = nodes[n].lhs /\ ms[n].rhs = nodes[n].rhs
        /\ ms[n].syment = IF nodes[n].syment = 0 /\ Names(n) # {} THEN Least(n)
                          ELSE nodes[n].syment
  <2>1. TAKE n \in 1..Len(nodes)
  <2>. DEFINE x == nodes[n]
  <2>2. x \in Node
    BY <1>2
  <2>3. ms[n] = IF x.syment = 0 /\ Names(n) # {} THEN [x EXCEPT !.syment = Least(n)] ELSE x
    BY <1>2
  <2>. HIDE DEF x, ms
  <2>4. CASE x.syment = 0 /\ Names(n) # {}
    <3>1. Least(n) \in Symbol
      BY <1>3, <2>4
    <3>. QED BY <2>2, <2>3, <2>4, <3>1 DEF Node, x
  <2>5. CASE ~ (x.syment = 0 /\ Names(n) # {})
    BY <2>2, <2>3, <2>5 DEF x
  <2>. QED BY <2>4, <2>5
<1>5. ms \in Seq(Node) /\ Len(ms) = Len(nodes)
  <2>. DEFINE N == Len(nodes)
  <2>1. ms \in [1..N -> Node] /\ N \in Nat
    BY <1>2, <1>4
  <2>. HIDE DEF ms, N
  <2>2. ms \in Seq(Node) /\ Len(ms) = N
    BY <2>1
  <2>. QED BY <2>2 DEF N
<1>. HIDE DEF ms
<1>6. Grown(nodes, ms)
  <2>1. \A n \in 1..Len(nodes) : nodes[n].cate = "SYMBOLNODE" => nodes[n].syment # 0
    BY NotZero DEF Built, Shape
  <2>. QED BY <1>2, <1>4, <1>5, <2>1 DEF Grown
<1>7. PICK f : Made(nodes, symmap, is, k, f)
  BY DEF Built
<1>8. Shape(ms, symmap) /\ Opering(ms) = Opering(nodes) /\ Made(ms, symmap, is, k, f)
  BY <1>5, <1>6, <1>7, ReferKeeps DEF Built
<1>9. \A n \in Opering(ms) : Names(n) # {} => ms[n].syment \in Names(n)
  <2>1. \A n \in Opering(nodes) : n \in 1..Len(nodes) /\ nodes[n].syment = 0
    BY DEF Built, Mentions, Opering
  <2>. QED BY <1>3, <1>4, <1>8, <2>1
<1>10. \A n : Names(n)' = Names(n)
  BY <1>1 DEF Names
<1>11. Named(nodes)'
  BY <1>1, <1>9, <1>10 DEF Named
<1>. QED BY <1>1, <1>5, <1>8, <1>11

-----------------------------------------------------------------------------
(* The inductive invariant                                                 *)

Constructing(k) ==
  /\ k \in 0..Len(insts) /\ Len(nodes) <= MAXDAGNODES
  /\ Built(insts, nodes, symmap, k)
  /\ order = <<>>

Regenerating ==
  /\ at \in 1..Len(nodes) + 1 /\ Len(nodes) <= MAXDAGNODES
  /\ Shape(nodes, symmap) /\ (\E f : Made(nodes, symmap, insts, Len(insts), f))
  /\ Named(nodes)
  /\ Generated(nodes, order, at)

DagInv ==
  /\ insts \in Block /\ at \in Nat
  /\ pc \in {"check", "construct", "refer", "regen", "done", "skipped", "undefined"}
  /\ pc \in {"check", "skipped"} => Constructing(0) /\ at = 1
  /\ pc \in {"construct", "undefined"} => at # 0 /\ Constructing(at - 1)
  /\ pc = "undefined" => OutgrownIfLarge
  /\ pc = "refer" => Constructing(Len(insts))
  /\ pc \in {"regen", "done"} => Regenerating
  /\ pc = "done" => at > Len(nodes)

LEMMA BlockFacts ==
  ASSUME insts \in Block
  PROVE  insts \in Seq(Inst) /\ Len(insts) \in Nat /\ Len(insts) <= MAXBBINST
BY DagAssumption

LEMMA DagInit == Init => DagInv
<1>1. SUFFICES ASSUME Init PROVE DagInv
  OBVIOUS
<1>2. insts \in Block /\ insts \in Seq(Inst) /\ Len(insts) \in Nat
  BY <1>1, BlockFacts DEF Init
<1>3. nodes = <<>> /\ symmap = [e \in Symbol |-> 0] /\ order = <<>> /\ at = 1 /\ pc = "check"
  BY <1>1 DEF Init
<1>. DEFINE ns == nodes
            sm == symmap
            is == insts
<1>4. Len(ns) = 0 /\ ns \in Seq(Node) /\ sm = [e \in Symbol |-> 0]
  BY <1>3
<1>5. Len(is) \in Nat
  BY <1>2
<1>. HIDE DEF ns, sm, is
<1>6. \A n : n \notin Opering(ns) /\ n \notin 1..Len(ns)
  BY <1>4 DEF Opering
<1>7. Shape(ns, sm)
  BY <1>4, <1>6 DEF Shape, Acyclic
<1>8. Agrees(ns, sm, Values(is, 0))
  <2>1. Values(is, 0) = [e \in Symbol |-> Held(e)]
    <3>1. 0 \in 0..Len(is)
      BY <1>5
    <3>2. Values(is, 0) = IF 0 = 0 THEN [e \in Symbol |-> Held(e)]
                          ELSE Behind(Values(is, 0 - 1), is[0])
      BY <1>5, <3>1, ValuesAre
    <3>. QED BY <3>2
  <2>. QED BY <1>4, <2>1 DEF Agrees
<1>9. \E f : Made(ns, sm, is, 0, f)
  <2>. DEFINE f == [n \in Opering(ns) |-> 0]
  <2>1. f \in [Opering(ns) -> Ops(is, 0)]
    BY <1>6
  <2>2. \A e \in Symbol : sm[e] \notin Opering(ns)
    BY <1>6
  <2>. HIDE DEF f
  <2>3. Made(ns, sm, is, 0, f)
    BY <1>6, <2>1, <2>2 DEF Made
  <2>. QED BY <2>3
<1>10. Mentions(ns, is, 0)
  BY <1>6 DEF Mentions
<1>11. Built(is, ns, sm, 0)
  BY <1>7, <1>8, <1>9, <1>10 DEF Built
<1>12. Constructing(0)
  <2>1. Len(nodes) <= MAXDAGNODES
    BY <1>3, DagAssumption
  <2>. QED BY <1>2, <1>3, <1>11, <2>1 DEF Constructing, is, ns, sm
<1>. QED BY <1>2, <1>3, <1>12 DEF DagInv

LEMMA ConstructStep ==
  ASSUME DagInv, construct_graph
  PROVE  DagInv'
<1>1. /\ pc = "construct" /\ at \in Nat /\ at # 0 /\ at <= Len(insts) /\ Constructing(at - 1)
      /\ insts \in Block /\ UNCHANGED <<insts, order>>
  BY DEF DagInv, construct_graph
<1>2. insts \in Seq(Inst) /\ Len(insts) \in Nat
  BY <1>1, BlockFacts
<1>3. PICK k \in Nat : k = at - 1 /\ k + 1 = at /\ k < Len(insts)
  BY <1>1, <1>2
<1>4. Built(insts, nodes, symmap, k) /\ order = <<>> /\ Len(nodes) <= MAXDAGNODES
  BY <1>1, <1>3 DEF Constructing
<1>5. insts[at] \in Inst
  BY <1>1, <1>2
<1>6. CASE insts[at].op \notin Computing
  <2>1. at' = at + 1 /\ UNCHANGED <<nodes, symmap, pc>>
    BY <1>6 DEF construct_graph
  <2>2. Built(insts, nodes, symmap, k + 1)
    <3>1. PICK f : Made(nodes, symmap, insts, k, f)
      BY <1>4 DEF Built
    <3>2. Made(nodes, symmap, insts, k + 1, f)
      BY <1>3, <1>6, <3>1, SkipMade
    <3>3. Mentions(nodes, insts, k + 1)
      <4>1. Ops(insts, k + 1) = Ops(insts, k)
        BY <1>3, <1>6 DEF Ops
      <4>. QED BY <1>4, <4>1 DEF Built, Mentions
    <3>4. Values(insts, k + 1) = Values(insts, k)
      <4>1. k + 1 \in 0..Len(insts) /\ k + 1 # 0 /\ (k + 1) - 1 = k
        BY <1>2, <1>3
      <4>2. Values(insts, k + 1) = IF k + 1 = 0 THEN [e \in Symbol |-> Held(e)]
                                   ELSE Behind(Values(insts, (k + 1) - 1), insts[k + 1])
        BY <1>2, <4>1, ValuesAre
      <4>. QED BY <1>3, <1>6, <4>1, <4>2 DEF Behind
    <3>. QED BY <1>4, <3>2, <3>3, <3>4 DEF Built
  <2>3. Built(insts, nodes, symmap, at' - 1) /\ at' - 1 \in 0..Len(insts) /\ at' # 0 /\ at' \in Nat
    BY <1>1, <1>2, <1>3, <2>1, <2>2
  <2>. QED BY <1>1, <1>4, <2>1, <2>3 DEF DagInv, Constructing
<1>7. CASE insts[at].op \in Computing
  <2>. DEFINE s == [nodes |-> nodes, symmap |-> symmap, out |-> 0]
  <2>1. PICK g : g = Extended(s, insts[at])
    OBVIOUS
  <2>2. Built(insts, g.nodes, g.symmap, k + 1)
    BY <1>2, <1>3, <1>4, <1>7, <2>1, ExtendedBuilt
  <2>3. CASE Len(g.nodes) > MAXDAGNODES
    <3>1. pc' = "undefined" /\ UNCHANGED <<nodes, symmap, at>>
      BY <1>7, <2>1, <2>3 DEF construct_graph
    <3>2. OutgrownIfLarge'
      <4>. DEFINE S == Operations
                  T == (UNION {{insts[i].d, insts[i].r, insts[i].s} : i \in S}) \ {0}
      <4>1. S = Ops(insts, Len(insts))
        BY <1>2 DEF Operations, Ops
      <4>2. k + 1 \in 0..Len(insts)
        BY <1>2, <1>3
      <4>3. T = (UNION {{insts[i].d, insts[i].r, insts[i].s} : i \in S}) \ {0}
        OBVIOUS
      <4>4. Operations' = S
        BY <1>1 DEF Operations
      <4>. HIDE DEF S
      <4>5. (Cardinality(S) + Cardinality(T) > MAXDAGNODES) => OutgrownIfLarge'
        BY <1>1, <4>4 DEF OutgrownIfLarge
      <4>. HIDE DEF T
      <4>6. \A ns, sm : Built(insts, ns, sm, k + 1) =>
              /\ Len(ns) <= Cardinality(S) + Cardinality(T)
              /\ Len(ns) \in Nat /\ Cardinality(S) \in Nat /\ Cardinality(T) \in Nat
        BY <1>2, <4>1, <4>2, <4>3, Sizes
      <4>7. /\ Len(g.nodes) <= Cardinality(S) + Cardinality(T)
            /\ Len(g.nodes) \in Nat /\ Cardinality(S) \in Nat /\ Cardinality(T) \in Nat
        BY <2>2, <4>6
      <4>. QED BY <2>3, <4>5, <4>7, DagAssumption
    <3>. QED BY <1>1, <1>4, <3>1, <3>2 DEF DagInv, Constructing
  <2>4. CASE ~ (Len(g.nodes) > MAXDAGNODES)
    <3>1. nodes' = g.nodes /\ symmap' = g.symmap /\ at' = at + 1 /\ UNCHANGED pc
      BY <1>7, <2>1, <2>4 DEF construct_graph
    <3>2. Len(nodes') <= MAXDAGNODES
      BY <2>2, <2>4, <3>1, DagAssumption DEF Built, Shape, Acyclic
    <3>3. Built(insts, nodes', symmap', at' - 1) /\ at' - 1 \in 0..Len(insts) /\ at' # 0 /\ at' \in Nat
      BY <1>1, <1>2, <1>3, <2>2, <3>1
    <3>. QED BY <1>1, <1>4, <3>1, <3>2, <3>3 DEF DagInv, Constructing
  <2>. QED BY <2>3, <2>4
<1>. QED BY <1>6, <1>7

LEMMA ReferStep ==
  ASSUME DagInv, build_referred_info
  PROVE  DagInv'
<1>1. /\ pc = "refer" /\ pc' = "regen" /\ at' = 1 /\ UNCHANGED <<insts, symmap, order>>
      /\ insts \in Block /\ Constructing(Len(insts))
  BY DEF DagInv, build_referred_info
<1>2. Built(insts, nodes, symmap, Len(insts)) /\ order = <<>> /\ Len(nodes) <= MAXDAGNODES
  BY <1>1 DEF Constructing
<1>3. /\ Shape(nodes', symmap') /\ (\E f : Made(nodes', symmap', insts, Len(insts), f))
      /\ Named(nodes)' /\ Len(nodes') = Len(nodes)
  BY <1>2, Referred
<1>4. Len(nodes') \in Nat /\ Opering(nodes') \subseteq 1..Len(nodes')
  BY <1>3 DEF Shape, Acyclic, Opering
<1>5. Generated(nodes', <<>>, 1)
  <2>1. \A n \in Opering(nodes') : ~ (n < 1)
    BY <1>4
  <2>. QED BY <2>1 DEF Generated
<1>6. Regenerating'
  BY <1>1, <1>2, <1>3, <1>4, <1>5 DEF Regenerating
<1>. QED BY <1>1, <1>6 DEF DagInv

LEMMA RegenStep ==
  ASSUME DagInv, regen_instructions
  PROVE  DagInv'
<1>1. /\ pc = "regen" /\ UNCHANGED <<insts, nodes, symmap>>
      /\ insts \in Block /\ at \in Nat /\ Regenerating
  BY DEF DagInv, regen_instructions
<1>2. insts \in Seq(Inst) /\ Len(insts) \in Nat /\ Len(insts) <= MAXBBINST
  BY <1>1, BlockFacts
<1>3. /\ at \in 1..Len(nodes) + 1 /\ Shape(nodes, symmap) /\ Generated(nodes, order, at)
      /\ Acyclic(nodes) /\ Len(nodes) \in Nat
  <2>1. at \in 1..Len(nodes) + 1 /\ Shape(nodes, symmap) /\ Generated(nodes, order, at)
    BY <1>1 DEF Regenerating
  <2>2. Acyclic(nodes)
    BY <2>1 DEF Shape
  <2>3. Len(nodes) \in Nat
    BY <2>2 DEF Acyclic
  <2>. QED BY <2>1, <2>2, <2>3
<1>4. UNCHANGED Named(nodes)
  BY <1>1 DEF Named, Names
<1>5. CASE at > Len(nodes)
  <2>1. pc' = "done" /\ UNCHANGED <<at, order>>
    BY <1>5 DEF regen_instructions
  <2>. QED BY <1>1, <1>4, <1>5, <2>1 DEF DagInv, Regenerating
<1>6. CASE ~ (at > Len(nodes))
  <2>. DEFINE list == gen_curr_node(order, at)
  <2>1. at \in 1..Len(nodes)
    BY <1>3, <1>6
  <2>2. Generated(nodes, list, at + 1)
    BY <1>3, <2>1, GeneratedNext
  <2>3. PICK f : Made(nodes, symmap, insts, Len(insts), f)
    BY <1>1 DEF Regenerating
  <2>4. /\ Len(list) > MAXBBINST => FALSE
        /\ order' = list /\ at' = at + 1 /\ UNCHANGED pc
    <3>1. Len(list) <= Len(insts)
      <4>. HIDE DEF list
      <4>. QED BY <1>2, <1>3, <2>2, <2>3, GeneratedLen
    <3>2. Len(list) \in Nat
      BY <2>2 DEF Generated
    <3>3. ~ (Len(list) > MAXBBINST)
      BY <1>2, <3>1, <3>2, DagAssumption
    <3>. QED BY <1>6, <3>3 DEF regen_instructions
  <2>5. at' \in 1..Len(nodes) + 1
    BY <1>3, <2>1, <2>4
  <2>. HIDE DEF list
  <2>6. Regenerating'
    BY <1>1, <1>4, <2>2, <2>4, <2>5 DEF Regenerating
  <2>. QED BY <1>1, <1>3, <2>4, <2>6 DEF DagInv
<1>. QED BY <1>5, <1>6

LEMMA DagStep == DagInv /\ [Next]_vars => DagInv'
<1>1. SUFFICES ASSUME DagInv, [Next]_vars PROVE DagInv'
  OBVIOUS
<1>2. CASE check_dagable
  <2>1. /\ pc = "check" /\ pc' \in {"skipped", "construct"}
        /\ UNCHANGED <<insts, at, nodes, symmap, order>>
    BY <1>2 DEF check_dagable
  <2>2. Constructing(0) /\ at = 1 /\ insts \in Block
    BY <1>1, <2>1 DEF DagInv
  <2>3. Constructing(0)' /\ Constructing(at - 1)'
    BY <2>1, <2>2 DEF Constructing
  <2>. QED BY <2>1, <2>2, <2>3 DEF DagInv
<1>3. CASE construct_graph
  BY <1>1, <1>3, ConstructStep
<1>4. CASE construct_done
  <2>1. /\ pc = "construct" /\ at > Len(insts) /\ pc' = "refer"
        /\ UNCHANGED <<insts, at, nodes, symmap, order>>
    BY <1>4 DEF construct_done
  <2>2. Constructing(at - 1) /\ at \in Nat /\ insts \in Block
    BY <1>1, <2>1 DEF DagInv
  <2>3. at - 1 = Len(insts)
    BY <2>1, <2>2, BlockFacts DEF Constructing
  <2>4. Constructing(Len(insts))'
    BY <2>1, <2>2, <2>3 DEF Constructing
  <2>. QED BY <2>1, <2>2, <2>4 DEF DagInv
<1>5. CASE build_referred_info
  BY <1>1, <1>5, ReferStep
<1>6. CASE regen_instructions
  BY <1>1, <1>6, RegenStep
<1>7. CASE UNCHANGED vars
  <2>1. UNCHANGED <<insts, at, nodes, symmap, order, pc>>
    BY <1>7 DEF vars
  <2>2. /\ UNCHANGED Regenerating /\ UNCHANGED OutgrownIfLarge
        /\ \A k : UNCHANGED Constructing(k)
    BY <2>1 DEF Regenerating, Named, Names, OutgrownIfLarge, Operations, Constructing
  <2>. QED BY <1>1, <2>1, <2>2 DEF DagInv
<1>. QED BY <1>1, <1>2, <1>3, <1>4, <1>5, <1>6, <1>7 DEF Next

LEMMA DagInvariant == Spec => []DagInv
BY DagInit, DagStep, PTL DEF Spec

-----------------------------------------------------------------------------
(* What follows from it                                                    *)

LEMMA ShapeFacts ==
  ASSUME DagInv
  PROVE  /\ Shape(nodes, symmap) /\ Len(nodes) <= MAXDAGNODES /\ Len(nodes) \in Nat
         /\ DOMAIN nodes = 1..Len(nodes) /\ Opers = Opering(nodes)
         /\ order \in Seq(Opering(nodes)) /\ DOMAIN order = 1..Len(order)
<1>1. CASE pc \in {"check", "skipped", "construct", "undefined", "refer"}
  <2>1. \E k : Constructing(k)
    BY <1>1 DEF DagInv
  <2>2. Shape(nodes, symmap) /\ Len(nodes) <= MAXDAGNODES /\ order = <<>>
    BY <2>1 DEF Constructing, Built
  <2>. QED BY <2>2 DEF Shape, Acyclic, Opers, Opering
<1>2. CASE pc \in {"regen", "done"}
  <2>1. Regenerating
    BY <1>2 DEF DagInv
  <2>2. Shape(nodes, symmap) /\ Len(nodes) <= MAXDAGNODES /\ order \in Seq(Opering(nodes))
    BY <2>1 DEF Regenerating, Generated
  <2>. QED BY <2>2 DEF Shape, Acyclic, Opers, Opering
<1>. QED BY <1>1, <1>2 DEF DagInv

\* construct_graph: the graph of any block stays one whose nodes work on
\* earlier ones, and symmap and the generated list refer to nodes of it.
THEOREM GraphIsSound == Spec => []TypeOK
<1>1. DagInv => TypeOK
  <2>1. SUFFICES ASSUME DagInv PROVE TypeOK
    OBVIOUS
  <2>2. /\ Shape(nodes, symmap) /\ Len(nodes) <= MAXDAGNODES /\ Len(nodes) \in Nat
        /\ DOMAIN nodes = 1..Len(nodes)
        /\ order \in Seq(Opering(nodes)) /\ DOMAIN order = 1..Len(order)
    BY <2>1, ShapeFacts
  <2>3. \A n \in DOMAIN nodes :
       /\ nodes[n].cate \in {"SYMBOLNODE", "OPERNODE"} /\ nodes[n].op \in Computing \cup {"ADD_OP"}
       /\ nodes[n].lhs \in 0..n - 1 /\ nodes[n].rhs \in 0..n - 1
       /\ nodes[n].syment \in Symbol \cup {0}
    <3>1. TAKE n \in DOMAIN nodes
    <3>2. nodes[n] \in Node /\ nodes[n].lhs \in 0..n - 1 /\ nodes[n].rhs \in 0..n - 1
      BY <2>2 DEF Shape, Acyclic
    <3>. QED BY <3>2 DEF Node
  <2>4. symmap \in [Symbol -> 0..Len(nodes)]
    BY <2>2 DEF Shape
  <2>5. \A i \in DOMAIN order : order[i] \in DOMAIN nodes
    BY <2>2 DEF Opering
  <2>6. at \in Nat /\ pc \in {"check", "construct", "refer", "regen", "done", "skipped",
                              "panic", "undefined"}
    BY <2>1 DEF DagInv
  <2>. QED BY <2>2, <2>3, <2>4, <2>5, <2>6 DEF TypeOK
<1>. QED BY <1>1, DagInvariant, PTL

\* construct_graph: wherever it stands in the block, symmap leads from every
\* symbol to a node of the value the instructions so far have given it.
THEOREM GraphHasTheValues == Spec => []ValuesRight
<1>1. DagInv => ValuesRight
  <2>1. SUFFICES ASSUME DagInv, pc = "construct", NEW e \in Symbol
                 PROVE  Values(insts, at - 1)[e] = IF symmap[e] = 0 THEN Held(e)
                                                   ELSE NodeValue(symmap[e])
    BY DEF ValuesRight
  <2>2. Agrees(nodes, symmap, Values(insts, at - 1))
    BY <2>1 DEF DagInv, Constructing, Built
  <2>. QED BY <2>2 DEF Agrees, NodeValue
<1>. QED BY <1>1, DagInvariant, PTL

\* find_leaf and find_nonleaf: no two nodes of a graph are of one expression.
THEOREM OneNodeForEach == Spec => []NoExpressionTwice
<1>1. DagInv => NoExpressionTwice
  <2>1. SUFFICES ASSUME DagInv, NEW n \in DOMAIN nodes, NEW m \in DOMAIN nodes,
                        Expression(n) = Expression(m)
                 PROVE  n = m
    BY DEF NoExpressionTwice
  <2>2. Shape(nodes, symmap) /\ n \in 0..Len(nodes) /\ m \in 0..Len(nodes)
    BY <2>1, ShapeFacts
  <2>. QED BY <2>1, <2>2, ExpressionsDiffer DEF Expression
<1>. QED BY <1>1, DagInvariant, PTL

\* The nodes array: it is outgrown by no block with at most MAXDAGNODES
\* instructions and symbols.
THEOREM SmallBlocksFit == Spec => []OutgrownIfLarge
<1>1. DagInv => OutgrownIfLarge
  BY DEF DagInv, OutgrownIfLarge
<1>. QED BY <1>1, DagInvariant, PTL

\* regen_instructions: of every block each operation is generated once, behind
\* those it works on, and insts2 never overflows.
THEOREM EachOnceInOrder == Spec => []GeneratedOnce
<1>1. DagInv => GeneratedOnce
  <2>1. SUFFICES ASSUME DagInv PROVE GeneratedOnce
    OBVIOUS
  <2>2. pc # "panic"
    BY <2>1 DEF DagInv
  <2>3. CASE order = <<>> /\ pc # "done"
    BY <2>2, <2>3 DEF GeneratedOnce
  <2>4. CASE pc \in {"regen", "done"}
    <3>1. Regenerating /\ (pc = "done" => at > Len(nodes))
      BY <2>1, <2>4 DEF DagInv
    <3>2. /\ Opers = Opering(nodes) /\ DOMAIN order = 1..Len(order) /\ Len(nodes) \in Nat
          /\ order \in Seq(Opering(nodes)) /\ DOMAIN nodes = 1..Len(nodes)
      BY <2>1, ShapeFacts
    <3>3. /\ \A i, j \in 1..Len(order) : i < j => order[i] < order[j]
          /\ \A i \in 1..Len(order) : order[i] < at
          /\ \A n \in Opers : n < at => Has(order, n)
          /\ at \in Nat
      BY <3>1, <3>2 DEF Regenerating, Generated
    <3>4. Len(order) \in Nat /\ Opers \subseteq Nat /\ Opers \subseteq 1..Len(nodes)
      BY <3>2 DEF Opering
    <3>5. \A i \in 1..Len(order) : order[i] \in Opers /\ order[i] \in Nat
      BY <3>2, <3>4
    <3>6. \A i, j \in 1..Len(order) : order[i] = order[j] => i = j
      <4>1. TAKE i \in 1..Len(order), j \in 1..Len(order)
      <4>2. i < j \/ j < i \/ i = j
        BY <3>4
      <4>3. order[i] \in Nat /\ order[j] \in Nat
        BY <3>5
      <4>. QED BY <3>3, <4>2, <4>3
    <3>7. \A i \in 1..Len(order) :
            \A n \in {nodes[order[i]].lhs, nodes[order[i]].rhs} \cap Opers :
              \E j \in 1..i - 1 : order[j] = n
      <4>1. TAKE i \in 1..Len(order)
      <4>2. TAKE n \in {nodes[order[i]].lhs, nodes[order[i]].rhs} \cap Opers
      <4>3. order[i] \in 1..Len(nodes) /\ n \in Nat
        BY <3>4, <3>5
      <4>4. Acyclic(nodes)
        BY <3>1 DEF Regenerating, Shape
      <4>5. n < order[i]
        BY <4>3, <4>4 DEF Acyclic
      <4>6. n < at
        BY <3>3, <4>3, <4>5
      <4>7. PICK j \in 1..Len(order) : order[j] = n
        BY <3>2, <3>3, <4>6 DEF Has
      <4>8. ~ (i < j) /\ i # j
        BY <3>3, <4>3, <4>5, <4>7
      <4>9. j \in 1..i - 1
        BY <3>4, <4>8
      <4>. QED BY <4>7, <4>9
    <3>8. pc = "done" => Opers \subseteq {order[i] : i \in DOMAIN order}
      <4>1. HAVE pc = "done"
      <4>2. \A n \in Opers : n < at
        BY <3>1, <3>3, <3>4, <4>1
      <4>. QED BY <3>3, <4>2 DEF Has
    <3>. QED BY <2>2, <3>2, <3>6, <3>7, <3>8 DEF GeneratedOnce
  <2>. QED BY <2>1, <2>3, <2>4 DEF DagInv, Constructing
<1>. QED BY <1>1, DagInvariant, PTL

LEMMA Copied ==
  ASSUME NEW x \in Inst, NEW v
  PROVE  [x EXCEPT !.r = v] = [op |-> x.op, d |-> x.d, r |-> v, s |-> x.s]
<1>1. x = [op |-> x.op, d |-> x.d, r |-> x.r, s |-> x.s]
  BY DEF Inst
<1>. DEFINE o == x.op
            d == x.d
            r == x.r
            s == x.s
<1>2. x = [op |-> o, d |-> d, r |-> r, s |-> s]
  BY <1>1
<1>. HIDE DEF o, d, r, s
<1>3. [x EXCEPT !.r = v] = [op |-> o, d |-> d, r |-> v, s |-> s]
  BY <1>2
<1>. QED BY <1>3 DEF o, d, s

\* A node's symbol is the operand it was made for, when none is shared and
\* every operation has kept a name.
LEMMA SymbolTied ==
  ASSUME NEW f, NEW m, NEW a,
         Shape(nodes, symmap), Made(nodes, symmap, insts, Len(insts), f), Named(nodes),
         Own(nodes, f, insts, Len(insts)), \A n \in Opering(nodes) : Names(n) # {},
         m \in 0..Len(nodes), Tied(nodes, insts, f, m, a)
  PROVE  SymbolOf(m) = a
<1>0. Len(nodes) \in Nat /\ nodes \in Seq(Node)
  BY DEF Shape, Acyclic
<1>1. CASE m = 0
  BY <1>1 DEF Tied, SymbolOf
<1>2. CASE m # 0 /\ nodes[m].cate = "SYMBOLNODE"
  BY <1>2 DEF Tied, SymbolOf
<1>3. CASE m # 0 /\ nodes[m].cate # "SYMBOLNODE"
  <2>1. m \in Opering(nodes)
    <3>1. m \in 1..Len(nodes)
      BY <1>0, <1>3
    <3>. QED BY <1>0, <1>3, <3>1, Cates
  <2>. DEFINE e == nodes[m].syment
  <2>2. e \in Names(m)
    BY <2>1 DEF Named
  <2>3. e \in Symbol /\ symmap[e] = m
    BY <2>2 DEF Names
  <2>4. insts[f[m]].d = e
    BY <2>1, <2>3 DEF Made
  <2>5. insts[f[m]].d = a
    BY <1>3 DEF Tied
  <2>. QED BY <1>3, <2>4, <2>5 DEF SymbolOf
<1>. QED BY <1>1, <1>2, <1>3

\* A block of operations each with a node and a name of its own: insts2 is the
\* block's operations, in their order, an update with its target as an operand.
THEOREM UnsharedIsKept == Spec => []UnsharedUnchanged
<1>1. DagInv => UnsharedUnchanged
  <2>1. SUFFICES ASSUME DagInv, pc = "done", Cardinality(Opers) = Cardinality(Operations),
                        \A n \in Opers : Names(n) # {}
                 PROVE  \E place \in [DOMAIN insts2 -> Operations] :
                          /\ \A i, j \in DOMAIN insts2 : i < j => place[i] < place[j]
                          /\ \A p \in Operations : \E i \in DOMAIN insts2 : place[i] = p
                          /\ \A i \in DOMAIN insts2 :
                               insts2[i] = [insts[place[i]] EXCEPT !.r = First(insts[place[i]])]
    BY DEF UnsharedUnchanged
  <2>2. /\ Regenerating /\ at > Len(nodes) /\ insts \in Seq(Inst) /\ Len(insts) \in Nat
    BY <2>1, BlockFacts DEF DagInv
  <2>3. /\ Shape(nodes, symmap) /\ Named(nodes) /\ Generated(nodes, order, at) /\ at \in Nat
    BY <2>1, <2>2 DEF Regenerating, DagInv
  <2>4. PICK f : Made(nodes, symmap, insts, Len(insts), f)
    BY <2>2 DEF Regenerating
  <2>5. /\ Opers = Opering(nodes) /\ DOMAIN order = 1..Len(order) /\ Len(nodes) \in Nat
        /\ order \in Seq(Opering(nodes))
    BY <2>1, ShapeFacts
  <2>6. Operations = Ops(insts, Len(insts)) /\ Operations \subseteq 1..Len(insts)
    BY <2>2 DEF Operations, Ops
  <2>7. IsFiniteSet(Operations)
    BY <2>2, <2>6, IntervalSize, FS_Subset
  <2>8. f \in [Opers -> Operations]
    BY <2>4, <2>5, <2>6 DEF Made
  <2>9. \A a, b \in Opers : f[a] = f[b] => a = b
    <3>1. \A n \in Opers : f[n] \in Nat /\ n \in Nat
      BY <2>5, <2>6, <2>8 DEF Opering
    <3>. QED BY <2>4, <2>5, <3>1 DEF Made
  <2>10. \A p \in Operations : \E n \in Opers : f[n] = p
    BY <2>1, <2>7, <2>8, <2>9, OneForEach
  <2>11. Own(nodes, f, insts, Len(insts))
    BY <2>5, <2>6, <2>10 DEF Own
  <2>12. DOMAIN insts2 = 1..Len(order) /\ \A i \in 1..Len(order) : insts2[i] = dupinst(order[i])
    BY <2>5 DEF insts2
  <2>13. \A i \in 1..Len(order) : order[i] \in Opers
    BY <2>5
  <2>. DEFINE place == [i \in DOMAIN insts2 |-> f[order[i]]]
  <2>14. /\ place \in [DOMAIN insts2 -> Operations]
         /\ \A i \in 1..Len(order) : place[i] = f[order[i]]
    BY <2>8, <2>12, <2>13
  <2>. HIDE DEF place
  <2>15. \A i, j \in DOMAIN insts2 : i < j => place[i] < place[j]
    <3>1. TAKE i \in DOMAIN insts2, j \in DOMAIN insts2
    <3>2. HAVE i < j
    <3>3. order[i] < order[j]
      BY <2>3, <2>12, <3>2 DEF Generated
    <3>. QED BY <2>4, <2>5, <2>12, <2>13, <2>14, <3>3 DEF Made
  <2>16. \A p \in Operations : \E i \in DOMAIN insts2 : place[i] = p
    <3>1. TAKE p \in Operations
    <3>2. PICK n \in Opers : f[n] = p
      BY <2>10
    <3>3. n < at
      BY <2>2, <2>3, <2>5, <3>2 DEF Opering
    <3>4. Has(order, n)
      BY <2>3, <2>5, <3>3 DEF Generated
    <3>. QED BY <2>5, <2>12, <2>14, <3>2, <3>4 DEF Has
  <2>17. \A i \in DOMAIN insts2 :
           insts2[i] = [insts[place[i]] EXCEPT !.r = First(insts[place[i]])]
    <3>1. TAKE i \in DOMAIN insts2
    <3>2. PICK n \in Opers : n = order[i] /\ insts2[i] = dupinst(n) /\ place[i] = f[n]
      BY <2>12, <2>13, <2>14
    <3>3. PICK x \in Inst : x = insts[f[n]]
      BY <2>2, <2>6, <2>8
    <3>4. nodes[n].op = x.op
      BY <2>4, <2>5, <3>3 DEF Made
    <3>5. SymbolOf(n) = x.d
      <4>1. n \in 0..Len(nodes) /\ n # 0 /\ nodes[n].cate # "SYMBOLNODE"
        BY <2>5 DEF Opering
      <4>2. Tied(nodes, insts, f, n, x.d)
        BY <3>3, <4>1 DEF Tied
      <4>3. \A a : Tied(nodes, insts, f, n, a) => SymbolOf(n) = a
        BY <2>1, <2>3, <2>4, <2>5, <2>11, <4>1, SymbolTied
      <4>. QED BY <4>2, <4>3
    <3>6. SymbolOf(nodes[n].lhs) = First(x) /\ SymbolOf(nodes[n].rhs) = x.s
      <4>. DEFINE l == nodes[n].lhs
                  r == nodes[n].rhs
      <4>1. l \in 0..Len(nodes) /\ r \in 0..Len(nodes)
        BY <2>3, <2>5 DEF Shape, Acyclic, Opering
      <4>2. Tied(nodes, insts, f, l, First(x)) /\ Tied(nodes, insts, f, r, x.s)
        BY <2>4, <2>5, <2>11, <3>3 DEF Made
      <4>. HIDE DEF l, r
      <4>3. \A a, m : m \in 0..Len(nodes) /\ Tied(nodes, insts, f, m, a) => SymbolOf(m) = a
        BY <2>1, <2>3, <2>4, <2>5, <2>11, SymbolTied
      <4>4. SymbolOf(l) = First(x) /\ SymbolOf(r) = x.s
        BY <4>1, <4>2, <4>3
      <4>. QED BY <4>4 DEF l, r
    <3>7. dupinst(n) = [op |-> x.op, d |-> x.d, r |-> First(x), s |-> x.s]
      BY <3>4, <3>5, <3>6, Zenon DEF dupinst
    <3>8. [x EXCEPT !.r = First(x)] = [op |-> x.op, d |-> x.d, r |-> First(x), s |-> x.s]
      BY Copied
    <3>. QED BY <3>2, <3>3, <3>7, <3>8
  <2>. QED BY <2>14, <2>15, <2>16, <2>17
<1>. QED BY <1>1, DagInvariant, PTL
=============================================================================
