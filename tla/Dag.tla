-------------------------------- MODULE Dag --------------------------------
(***************************************************************************)
(* The DAG optimization of a basic block (optimize_dag.c): a node for each *)
(* value the block computes, shared by the instructions that compute the   *)
(* same, and the instructions generated again from the nodes.              *)
(*                                                                         *)
(* dag_optim treats one block after the other and keeps nothing between    *)
(* them but the counters of ids, so the model has one block, chosen once.  *)
(* A symbol is its sid, a node the place in nodes it was put at, 0 stands  *)
(* for NULL.  CALL_OP stands for all operations that no graph is built     *)
(* for, JUMP_OP for all that have no part in it.  symmap has a place for   *)
(* each sid: MAXDAGNODES and MAXSYMENT are one number (limits.h).          *)
(***************************************************************************)
EXTENDS Naturals, Sequences, FiniteSets

CONSTANTS
  Binary,       \* the operations on two operands, LOAD_ARRAY_OP included
  Update,       \* the operations on their target: INC_OP, DEC_OP
  Var,          \* the sids of variables,
  Constant,     \* of named constants,
  Literal,      \* of literals,
  Temp,         \* of temporaries
  Block,        \* the instruction lists of blocks
  MAXDAGNODES,  \* the nodes a graph holds
  MAXBBINST     \* the instructions a block holds

Symbol == Var \cup Constant \cup Literal \cup Temp
Computing == Binary \cup Update \cup {"NEG_OP", "STORE_VAR_OP"}

Inst == [op : Binary, d : Temp, r : Symbol, s : Symbol]
          \cup [op : {"NEG_OP"}, d : Temp, r : Symbol, s : {0}]
          \cup [op : {"STORE_VAR_OP"}, d : Var, r : Symbol, s : {0}]
          \cup [op : Update, d : Var, r : {0}, s : {0}]
          \cup {[op |-> o, d |-> 0, r |-> 0, s |-> 0] : o \in {"CALL_OP", "JUMP_OP"}}

\* What generate.c emits.  A temporary is computed once, before it is read, and
\* gen_factor makes a symbol of its own for each literal of the text: each of
\* the two is an operand in one place.
Emitted(b) ==
  \A i \in DOMAIN b :
    /\ b[i].d \in Temp => \A j \in DOMAIN b : j # i => b[j].d # b[i].d
    /\ \A t \in {b[i].r, b[i].s} \cap Temp : \E j \in 1..i - 1 : b[j].d = t
    /\ \A e \in {b[i].r, b[i].s} \cap (Temp \cup Literal) :
         /\ b[i].r # b[i].s
         /\ \A j \in DOMAIN b : j # i => e \notin {b[j].r, b[j].s}

ASSUME DagAssumption ==
  /\ Binary \subseteq {"ADD_OP", "SUB_OP", "MUL_OP", "DIV_OP", "LOAD_ARRAY_OP"}
  /\ Update \subseteq {"INC_OP", "DEC_OP"}
  /\ Symbol \subseteq Nat \ {0} /\ IsFiniteSet(Symbol)
  /\ MAXDAGNODES \in Nat \ {0} /\ MAXBBINST \in Nat \ {0}
  /\ \A b \in Block : b \in Seq(Inst) /\ Len(b) <= MAXBBINST /\ Emitted(b)

VARIABLES
  insts,   \* the block's instructions
  at,      \* construct_graph: the place in them; regen: the place in nodes
  nodes,   \* [cate, op, lhs, rhs, syment]
  symmap,  \* symbol -> the node of its value
  order,   \* the generated nodes, in the order of insts2
  pc       \* "check", "construct", "refer", "regen", "done", "skipped",
           \* "panic", "undefined"

vars == <<insts, at, nodes, symmap, order, pc>>

Init ==
  /\ insts \in Block
  /\ at = 1
  /\ nodes = <<>> /\ symmap = [e \in Symbol |-> 0]
  /\ order = <<>>
  /\ pc = "check"

check_dagable ==
  /\ pc = "check"
  /\ pc' = IF \E i \in DOMAIN insts : insts[i].op = "CALL_OP"
           THEN "skipped" ELSE "construct"
  /\ UNCHANGED <<insts, at, nodes, symmap, order>>

-----------------------------------------------------------------------------
(* construct_graph                                                         *)

Leaf(e) == [cate |-> "SYMBOLNODE", op |-> "ADD_OP", lhs |-> 0, rhs |-> 0, syment |-> e]
Oper(op, lhs, rhs) ==
  [cate |-> "OPERNODE", op |-> op, lhs |-> lhs, rhs |-> rhs, syment |-> 0]

\* Variant: the new leaf is not entered in symmap.
find_leaf_lost(g, e) ==
  IF e = 0 THEN [g EXCEPT !.out = 0]
  ELSE IF g.symmap[e] # 0 THEN [g EXCEPT !.out = g.symmap[e]]
  ELSE [nodes |-> Append(g.nodes, Leaf(e)), symmap |-> g.symmap,
        out |-> Len(g.nodes) + 1]

\* Variant: the new leaf is counted before it is entered.
find_leaf_next(g, e) ==
  IF e = 0 THEN [g EXCEPT !.out = 0]
  ELSE IF g.symmap[e] # 0 THEN [g EXCEPT !.out = g.symmap[e]]
  ELSE [nodes |-> Append(g.nodes, Leaf(e)),
        symmap |-> [g.symmap EXCEPT ![e] = Len(g.nodes) + 2],
        out |-> Len(g.nodes) + 2]

\* The graph with a node for the symbol, and that node.
find_leaf(g, e) ==
  IF e = 0 THEN [g EXCEPT !.out = 0]
  ELSE IF g.symmap[e] # 0 THEN [g EXCEPT !.out = g.symmap[e]]
  ELSE [nodes |-> Append(g.nodes, Leaf(e)),
        symmap |-> [g.symmap EXCEPT ![e] = Len(g.nodes) + 1],
        out |-> Len(g.nodes) + 1]

\* Variant: the operation is not compared.
Same_operands(n, op, lhs, rhs) == n.lhs = lhs /\ n.rhs = rhs

Same(n, op, lhs, rhs) == n.lhs = lhs /\ n.rhs = rhs /\ n.op = op

\* Variant: the last node is not looked at.
find_nonleaf_last(g, op, lhs, rhs) ==
  LET found == {n \in 1..Len(g.nodes) - 1 : Same(g.nodes[n], op, lhs, rhs)}
  IN  IF found # {}
      THEN [g EXCEPT !.out = CHOOSE n \in found : \A m \in found : n <= m]
      ELSE [g EXCEPT !.nodes = Append(@, Oper(op, lhs, rhs)),
                     !.out = Len(g.nodes) + 1]

find_nonleaf(g, op, lhs, rhs) ==
  LET found == {n \in DOMAIN g.nodes : Same(g.nodes[n], op, lhs, rhs)}
  IN  IF found # {}
      THEN [g EXCEPT !.out = CHOOSE n \in found : \A m \in found : n <= m]
      ELSE [g EXCEPT !.nodes = Append(@, Oper(op, lhs, rhs)),
                     !.out = Len(g.nodes) + 1]

\* The first operand: the target's own value for an update.
First(x) == IF x.op \in Update THEN x.d ELSE x.r

\* The graph behind instruction x: its operands' nodes, its node, and the
\* target mapped to it.
Extended(g, x) ==
  LET l == find_leaf(g, First(x))
      r == find_leaf(l, x.s)
      o == find_nonleaf(r, x.op, l.out, r.out)
  IN  [o EXCEPT !.symmap[x.d] = o.out]

construct_graph ==
  /\ pc = "construct" /\ at <= Len(insts)
  /\ IF insts[at].op \notin Computing
     THEN at' = at + 1 /\ UNCHANGED <<nodes, symmap, pc>>
     ELSE LET g == Extended([nodes |-> nodes, symmap |-> symmap, out |-> 0], insts[at])
          IN  IF Len(g.nodes) > MAXDAGNODES
              THEN pc' = "undefined" /\ UNCHANGED <<nodes, symmap, at>>
              ELSE /\ nodes' = g.nodes /\ symmap' = g.symmap
                   /\ at' = at + 1
                   /\ UNCHANGED pc
  /\ UNCHANGED <<insts, order>>

construct_done ==
  /\ pc = "construct" /\ at > Len(insts)
  /\ pc' = "refer"
  /\ UNCHANGED <<insts, at, nodes, symmap, order>>

-----------------------------------------------------------------------------
(* build_referred_info and regen_instructions                              *)

Names(n) == {e \in Symbol : symmap[e] = n}

\* Every node without a symbol gets the first that refers to it.
build_referred_info ==
  /\ pc = "refer"
  /\ nodes' = [n \in DOMAIN nodes |->
       IF nodes[n].syment = 0 /\ Names(n) # {}
       THEN [nodes[n] EXCEPT !.syment =
               CHOOSE e \in Names(n) : \A f \in Names(n) : e <= f]
       ELSE nodes[n]]
  /\ at' = 1
  /\ pc' = "regen"
  /\ UNCHANGED <<insts, symmap, order>>

Has(list, n) == \E i \in DOMAIN list : list[i] = n

\* Variant: nothing marks a node as generated.
gen_curr_node_again(list, n) ==
  LET gen[m \in 0..n] ==
        [l \in Seq(DOMAIN nodes) |->
           IF m = 0 \/ nodes[m].cate = "SYMBOLNODE" THEN l
           ELSE Append(gen[nodes[m].rhs][gen[nodes[m].lhs][l]], m)]
  IN  gen[n][list]

\* The list behind gen_curr_node(n): n behind its operands.
gen_curr_node(list, n) ==
  LET gen[m \in 0..n] ==
        [l \in Seq(DOMAIN nodes) |->
           IF m = 0 \/ Has(l, m) \/ nodes[m].cate = "SYMBOLNODE" THEN l
           ELSE Append(gen[nodes[m].rhs][gen[nodes[m].lhs][l]], m)]
  IN  gen[n][list]

regen_instructions ==
  /\ pc = "regen"
  /\ IF at > Len(nodes)
     THEN pc' = "done" /\ UNCHANGED <<at, order>>
     ELSE LET list == gen_curr_node(order, at)
          IN  IF Len(list) > MAXBBINST
              THEN pc' = "panic" /\ UNCHANGED <<at, order>>
              ELSE order' = list /\ at' = at + 1 /\ UNCHANGED pc
  /\ UNCHANGED <<insts, nodes, symmap>>

SymbolOf(n) == IF n = 0 THEN 0 ELSE nodes[n].syment

\* Variant: the operands change places.
dupinst_swap(n) == [op |-> nodes[n].op, d |-> SymbolOf(n),
                    r |-> SymbolOf(nodes[n].rhs), s |-> SymbolOf(nodes[n].lhs)]

dupinst(n) == [op |-> nodes[n].op, d |-> SymbolOf(n),
               r |-> SymbolOf(nodes[n].lhs), s |-> SymbolOf(nodes[n].rhs)]

insts2 == [i \in DOMAIN order |-> dupinst(order[i])]

Next ==
  \/ check_dagable
  \/ construct_graph \/ construct_done
  \/ build_referred_info \/ regen_instructions

Spec == Init /\ [][Next]_vars

-----------------------------------------------------------------------------
(* Values, as terms over what the symbols hold when the block begins       *)

Nothing == <<>>
Held(e) == <<"held", e>>

\* What an operation makes of its operands' values: a copy hands its own on.
Copies == {"STORE_VAR_OP"}
Result(copies, op, v, w) == IF op \in copies THEN v ELSE <<op, v, w>>

Operand(env, e) == IF e = 0 THEN Nothing ELSE env[e]

\* The symbols' values behind an instruction.
Behind(env, x) ==
  IF x.op \notin Computing \/ x.d = 0 THEN env
  ELSE [env EXCEPT ![x.d] = Result(Copies, x.op, Operand(env, First(x)), Operand(env, x.s))]

\* The symbols' values behind the first k instructions of a list.
Values(list, k) ==
  LET env[i \in 0..Len(list)] ==
        IF i = 0 THEN [e \in Symbol |-> Held(e)] ELSE Behind(env[i - 1], list[i])
  IN  env[k]

\* The terms of the nodes of a list.
Terms(ns, copies) ==
  LET term[n \in 0..Len(ns)] ==
        IF n = 0 THEN Nothing
        ELSE IF ns[n].cate = "SYMBOLNODE" THEN Held(ns[n].syment)
        ELSE Result(copies, ns[n].op, term[ns[n].lhs], term[ns[n].rhs])
  IN  term
NodeValue(n) == Terms(nodes, Copies)[n]
\* The node's expression, stores included.
Expression(n) == Terms(nodes, {})[n]

Opers == {n \in DOMAIN nodes : nodes[n].cate = "OPERNODE"}
Operations == {i \in DOMAIN insts : insts[i].op \in Computing}

-----------------------------------------------------------------------------
(* Properties                                                              *)

\* The graph has no cycle: a node works on earlier ones only, whatever
\* symmap and the generated list refer to is there, and nodes is not outgrown.
TypeOK ==
  /\ at \in Nat
  /\ Len(nodes) <= MAXDAGNODES
  /\ \A n \in DOMAIN nodes :
       /\ nodes[n].cate \in {"SYMBOLNODE", "OPERNODE"} /\ nodes[n].op \in Computing \cup {"ADD_OP"}
       /\ nodes[n].lhs \in 0..n - 1 /\ nodes[n].rhs \in 0..n - 1
       /\ nodes[n].syment \in Symbol \cup {0}
  /\ symmap \in [Symbol -> 0..Len(nodes)]
  /\ \A i \in DOMAIN order : order[i] \in DOMAIN nodes
  /\ pc \in {"check", "construct", "refer", "regen", "done", "skipped",
             "panic", "undefined"}

\* While construct_graph goes through the block, symmap leads from every
\* symbol to a node of the very value the instructions so far have given
\* it; a symbol it leads nowhere has the value it came with.
ValuesRight ==
  pc = "construct" =>
    \A e \in Symbol :
      Values(insts, at - 1)[e] = IF symmap[e] = 0 THEN Held(e)
                                 ELSE NodeValue(symmap[e])

\* find_leaf and find_nonleaf never make a second node for an expression.
NoExpressionTwice ==
  pc \in {"construct", "refer"} =>
    \A n, m \in DOMAIN nodes : Expression(n) = Expression(m) => n = m

\* The unchecked array of nodes is outgrown only by a block with more
\* instructions and symbols than it has places.
OutgrownIfLarge ==
  pc = "undefined" =>
    LET used == UNION {{insts[i].d, insts[i].r, insts[i].s} : i \in Operations}
    IN  Cardinality(Operations) + Cardinality(used \ {0}) > MAXDAGNODES

\* Every operation is generated once, behind the operations on whose results
\* it works, and insts2, of the size of insts, never overflows.
GeneratedOnce ==
  /\ pc # "panic"
  /\ \A i, j \in DOMAIN order : order[i] = order[j] => i = j
  /\ \A i \in DOMAIN order :
       \A n \in {nodes[order[i]].lhs, nodes[order[i]].rhs} \cap Opers :
         \E j \in 1..i - 1 : order[j] = n
  /\ pc = "done" => Opers \subseteq {order[i] : i \in DOMAIN order}

\* A block in which every operation is a node of its own, and a node that
\* keeps its symbol, is generated again as it was: operation for operation in
\* their order (an update with its target as an operand).
UnsharedUnchanged ==
  pc = "done" /\ Cardinality(Opers) = Cardinality(Operations)
              /\ (\A n \in Opers : Names(n) # {}) =>
    \E place \in [DOMAIN insts2 -> Operations] :
      /\ \A i, j \in DOMAIN insts2 : i < j => place[i] < place[j]
      /\ \A p \in Operations : \E i \in DOMAIN insts2 : place[i] = p
      /\ \A i \in DOMAIN insts2 :
           insts2[i] = [insts[place[i]] EXCEPT !.r = First(insts[place[i]])]

\* "Instructions after DAG optim" (insts2 in optimize.h): they leave in every
\* variable what the block's instructions leave there.
SameResults ==
  pc = "done" =>
    \A e \in Var : Values(insts2, Len(insts2))[e] = Values(insts, Len(insts))[e]
=============================================================================
