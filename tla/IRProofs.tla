------------------------------ MODULE IRProofs ------------------------------
(***************************************************************************)
(* The code of every program, of any size, and its text.                   *)
(*                                                                         *)
(* First: the operand symbols are there when they are asked for, and every *)
(* call finds its arguments on top of a stack that is empty between        *)
(* statements.  Then: the code is what the flow graph is built from, each  *)
(* routine between its two marks, each label marked once and jumped to     *)
(* once from its own routine, and each temporary computed by one           *)
(* instruction in front of the one that reads it.  Last: what the text of  *)
(* the IR assembler names is declared in it, or is a number or a constant  *)
(* that is printed in place.                                               *)
(*                                                                         *)
(* The invariant of the second part is about the list as it will be: the   *)
(* code, and behind it the marks that the entries of work are going to     *)
(* add.  A step of the walk puts some marks in the place of one (Spliced). *)
(* DeclInv, of the last part, says what may stand in the code, in vals and *)
(* in work: symbols known in the routine they are read in.  Printed says   *)
(* of the text that each of its lines is the one of the instruction at its *)
(* place.                                                                  *)
(***************************************************************************)
EXTENDS IRAsm, NumberFacts, SequenceTheorems, FiniteSetTheorems

-----------------------------------------------------------------------------
(* The parameters of a routine                                             *)

\* The list that phead collects, for any set of sids: they are all in it.
LEMMA Collected ==
  ASSUME NEW S, NEW N \in Nat
  PROVE  LET first[n \in 0..N] == IF n = 0 THEN <<>>
                                  ELSE IF n \in S THEN Append(first[n - 1], n)
                                  ELSE first[n - 1]
         IN  first[N] \in Seq(S) /\ \A e \in S \cap 1..N : e \in ToSet(first[N])
<1>. DEFINE Body(g, n) == IF n = 0 THEN <<>>
                          ELSE IF n \in S THEN Append(g[n - 1], n) ELSE g[n - 1]
            Good(m) == \E g : g = [n \in 0..m |-> Body(g, n)]
            Bad == {m \in Nat : ~Good(m)}
<1>1. Good(0)
  <2>. DEFINE g == [n \in 0..0 |-> <<>>]
  <2>1. g = [n \in 0..0 |-> Body(g, n)]
    OBVIOUS
  <2>. QED BY <2>1
<1>2. ASSUME NEW m \in Nat, Good(m) PROVE Good(m + 1)
  <2>1. PICK f : f = [n \in 0..m |-> Body(f, n)]
    BY <1>2
  <2>. DEFINE g == [n \in 0..m + 1 |-> IF n = m + 1 THEN Body(f, n) ELSE f[n]]
  <2>2. \A n \in 0..m + 1 : g[n] = Body(g, n)
    <3>. SUFFICES ASSUME NEW n \in 0..m + 1 PROVE g[n] = Body(g, n)
      OBVIOUS
    <3>1. n # 0 => n - 1 \in 0..m /\ g[n - 1] = f[n - 1]
      OBVIOUS
    <3>2. n \in 0..m => g[n] = f[n] /\ f[n] = Body(f, n)
      BY <2>1
    <3>3. n = m + 1 => g[n] = Body(f, n)
      OBVIOUS
    <3>. QED BY <3>1, <3>2, <3>3
  <2>3. g = [n \in 0..m + 1 |-> Body(g, n)]
    BY <2>2
  <2>. QED BY <2>3
<1>. HIDE DEF Good
<1>3. Bad = {}
  <2>. SUFFICES ASSUME Bad # {} PROVE FALSE
    OBVIOUS
  <2>1. PICK m \in Bad : \A j \in Bad : m <= j
    BY LeastNat
  <2>2. m # 0
    BY <1>1, <2>1
  <2>3. m - 1 \in Nat /\ ~(m <= m - 1) /\ (m - 1) + 1 = m
    BY <2>2
  <2>4. Good(m - 1)
    BY <2>1, <2>3
  <2>5. Good((m - 1) + 1)
    BY <1>2, <2>3, <2>4
  <2>. QED BY <2>1, <2>3, <2>5
<1>4. PICK g : g = [n \in 0..N |-> Body(g, n)]
  BY <1>3 DEF Good
<1>. DEFINE first == CHOOSE f : f = [n \in 0..N |-> Body(f, n)]
<1>5. first = [n \in 0..N |-> Body(first, n)]
  BY <1>4
<1>. DEFINE Right(n) == first[n] \in Seq(S) /\ \A e \in S \cap 1..n : e \in ToSet(first[n])
<1>6. \A n \in 0..N : Right(n)
  <2>. DEFINE Off == {n \in 0..N : ~Right(n)}
  <2>. HIDE DEF first
  <2>. SUFFICES ASSUME Off # {} PROVE FALSE
    OBVIOUS
  <2>1. PICK n \in Off : \A j \in Off : n <= j
    <3>1. Off \subseteq Nat
      OBVIOUS
    <3>. HIDE DEF Off
    <3>. QED BY <3>1, LeastNat
  <2>2. n \in 0..N /\ first[n] = Body(first, n)
    BY <1>5
  <2>3. n # 0 => n - 1 \in 0..N /\ n - 1 \notin Off
    BY <2>1
  <2>4. CASE n = 0
    <3>1. first[n] = <<>> /\ \A e \in 1..n : FALSE
      BY <2>2, <2>4
    <3>. QED BY <2>1, <3>1, EmptySeq
  <2>5. CASE n # 0
    <3>1. first[n - 1] \in Seq(S) /\ \A e \in S \cap 1..n - 1 : e \in ToSet(first[n - 1])
      BY <2>3, <2>5
    <3>. DEFINE f == first[n - 1]
    <3>2. n \notin S => first[n] = f
      BY <2>2, <2>5
    <3>3. n \in S => first[n] = Append(f, n)
      BY <2>2, <2>5
    <3>4. \A e \in 1..n : e = n \/ e \in 1..n - 1
      BY <2>2
    <3>. f \in Seq(S) /\ \A e \in S \cap 1..n - 1 : e \in ToSet(f)
      BY <3>1
    <3>. HIDE DEF f
    <3>5. CASE n \notin S
      BY <2>1, <3>2, <3>4, <3>5
    <3>6. CASE n \in S
      <4>1. /\ Append(f, n) \in Seq(S) /\ Len(f) \in Nat /\ Len(Append(f, n)) = Len(f) + 1
            /\ Append(f, n)[Len(f) + 1] = n /\ \A i \in 1..Len(f) : Append(f, n)[i] = f[i]
            /\ DOMAIN f = 1..Len(f) /\ DOMAIN Append(f, n) = 1..Len(f) + 1
        BY <3>6, AppendProperties
      <4>2. \A e : e \in ToSet(f) \/ e = n => e \in ToSet(Append(f, n))
        BY <4>1 DEF ToSet
      <4>. QED BY <2>1, <3>3, <3>4, <3>6, <4>1, <4>2
    <3>. QED BY <3>5, <3>6
  <2>. QED BY <2>4, <2>5
<1>7. N \in 0..N
  OBVIOUS
<1>. HIDE DEF first
<1>8. first[N] \in Seq(S) /\ \A e \in S \cap 1..N : e \in ToSet(first[N])
  BY <1>6, <1>7
<1>. QED BY <1>8, Zenon DEF first

LEMMA SymbolFacts ==
  /\ Len(Declared) \in Nat /\ DOMAIN Declared = 1..Len(Declared)
  /\ \A e \in DOMAIN Declared :
       /\ Declared[e].cate \in {"CONSTANT", "PROC", "FUNCTION", "ARRAY"} \cup Variables
       /\ Declared[e].type \in {"VOID", "INT", "UINT", "CHAR"}
       /\ Declared[e].stab \in Routine
       /\ Declared[e].type = "VOID" <=> Declared[e].cate = "PROC"
  /\ Main \in Routine
<1>. DEFINE Declaration ==
              [cate : {"CONSTANT", "PROC", "FUNCTION", "ARRAY"} \cup Variables,
               type : {"VOID", "INT", "UINT", "CHAR"}, stab : Routine]
<1>1. Declared \in Seq(Declaration)
  BY ConstAssumption
<1>. HIDE DEF Declaration
<1>2. Len(Declared) \in Nat /\ DOMAIN Declared = 1..Len(Declared)
  BY <1>1
<1>3. \A e \in DOMAIN Declared : Declared[e] \in Declaration
  BY <1>1, <1>2, ElementOfSeq
<1>. QED BY <1>2, <1>3, ConstAssumption DEF Declaration

\* What phead returns are the sids of parameters.
LEMMA ParamsType == Params \in [Routine -> Seq(Parameter)]
<1>. SUFFICES ASSUME NEW p \in Routine
              PROVE  [i \in DOMAIN phead(p) |-> Declared[phead(p)[i]].cate] \in Seq(Parameter)
  BY DEF Params
<1>1. phead(p) \in Seq(InTable(p, Parameter))
  BY SymbolFacts, Collected DEF phead
<1>2. \A i \in DOMAIN phead(p) : Declared[phead(p)[i]].cate \in Parameter
  BY <1>1 DEF InTable
<1>3. DOMAIN phead(p) = 1..Len(phead(p)) /\ Len(phead(p)) \in Nat
  BY <1>1
<1>. QED BY <1>2, <1>3

-----------------------------------------------------------------------------
(* Where the generator is                                                  *)

\* The operations of the instructions, and of each entry of work.
Calculate == {"ADD", "SUB", "MUL", "DIV"}
CodeOp == Outside \cup Calculate \cup
            {"PUSH_VAL", "PUSH_ADDR", "POP", "CALL", "NEG", "LOAD_ARRAY"}
Line == [op : CodeOp, d : Nat, r : Nat, s : Nat]

Emitted == {"FN_START", "FN_END", "JUMP", "LABEL", "INC", "DEC", "READ_INT", "READ_UINT",
            "READ_CHAR", "WRITE_STRING", "PUSH_ADDR"}
Plain == {"gen_pf_dec_list", "gen_comp_stmt", "gen_stmt", "gen_expr", "gen_term",
          "gen_factor", "terms", "factors"}
Tasks == Plain \cup {"emit1", "store_var", "store_array", "branch", "for", "write", "sign",
                     "binary", "load_array", "gen_arg", "push", "call"}
TaskOp(f) ==
  CASE f \in Plain -> {""}
    [] f = "emit1" -> Emitted
    [] f = "store_var" -> {"STORE_VAR"}
    [] f = "store_array" -> {"STORE_ARRAY"}
    [] f = "branch" -> Branches
    [] f = "for" -> {"INC", "DEC"}
    [] f = "write" -> {"ID_WRITE", "STRID_WRITE"}
    [] f = "sign" -> {"NEG", "ADD"}
    [] f = "binary" -> Calculate
    [] f = "load_array" -> {"LOAD_ARRAY"}
    [] f = "gen_arg" -> Parameter
    [] f = "push" -> {"PUSH_VAL", "PUSH_ADDR"}
    [] OTHER -> {"CALL"}
Item == [do : Tasks, op : UNION {TaskOp(f) : f \in Tasks},
         d : Nat, r : Nat, inarg : BOOLEAN]

\* A symbol that holds a value, among the symbols s.
Valued(s, e) ==
  /\ e \in DOMAIN s /\ s[e].cate \in Value_cates
  /\ s[e].type \notin {"VOID", "STRING"}

\* An entry of work whose operands are among the symbols s.
Fits(s, w) ==
  /\ w \in Item /\ w.op \in TaskOp(w.do)
  /\ w.d \in DOMAIN s \cup {NULL} /\ w.r \in DOMAIN s \cup {NULL}
  /\ w.do = "gen_pf_dec_list" \/ w.op = "FN_START" => w.d \in Routine
  /\ w.do = "for" => w.d \in DOMAIN s
  /\ w.do = "load_array" => w.r \in DOMAIN s /\ s[w.r].type \notin {"VOID", "STRING"}
  /\ w.do = "call" => w.r \in Routine /\ (w.d # NULL => Valued(s, w.d))

Tag == {"PUSH_VAL", "PUSH_ADDR"}
TagOf(cate) == IF cate = "BY_VALUE" THEN "PUSH_VAL" ELSE "PUSH_ADDR"

\* A place between two entries of work: how many returned symbols wait to be
\* used, the arguments that are pushed and not popped, and whether a routine
\* has certainly begun.
Place == [n : Nat, args : Seq(Tag), body : BOOLEAN]
Spot(n, args, body) == [n |-> n, args |-> args, body |-> body]

\* The arguments of a call of e lie on top.
OnTop(e, args) ==
  /\ Len(args) >= Len(Params[e])
  /\ \A j \in 1..Len(Params[e]) : args[Len(args) + 1 - j] = TagOf(Params[e][j])
Popped(e, args) == SubSeq(args, 1, Len(args) - Len(Params[e]))

\* An entry of work leads from place a to place b.
Goes(w, a, b) ==
  CASE w.do = "gen_pf_dec_list" -> a.n = 0 /\ a.args = <<>> /\ b = Spot(a.n, <<>>, FALSE)
    [] w.do \in {"gen_comp_stmt", "gen_stmt"} -> a.body /\ a.n = 0 /\ a.args = <<>> /\ b = a
    [] w.do = "emit1" ->
         IF w.op = "PUSH_ADDR" THEN a.body /\ b = Spot(a.n, Append(a.args, w.op), TRUE)
         ELSE /\ a.n = 0 /\ a.args = <<>> /\ b = Spot(a.n, <<>>, TRUE)
              /\ w.op = "FN_START" \/ a.body
    [] w.do \in {"gen_expr", "gen_term", "gen_factor"} ->
         a.body /\ b = Spot(a.n + 1, a.args, TRUE)
    [] w.do \in {"terms", "factors", "sign", "load_array"} -> a.body /\ a.n >= 1 /\ b = a
    [] w.do \in {"store_var", "write"} ->
         a.body /\ a.n = 1 /\ a.args = <<>> /\ b = Spot(a.n - 1, <<>>, TRUE)
    [] w.do \in {"store_array", "branch", "for"} ->
         a.body /\ a.n = 2 /\ a.args = <<>> /\ b = Spot(a.n - 2, <<>>, TRUE)
    [] w.do = "binary" -> a.body /\ a.n >= 2 /\ b = Spot(a.n - 1, a.args, TRUE)
    [] w.do = "gen_arg" -> a.body /\ b = Spot(a.n, Append(a.args, TagOf(w.op)), TRUE)
    [] w.do = "push" -> a.body /\ a.n >= 1 /\ b = Spot(a.n - 1, Append(a.args, w.op), TRUE)
    [] w.do = "call" -> /\ a.body /\ OnTop(w.r, a.args)
                        /\ b = Spot(IF w.d = NULL THEN a.n ELSE a.n + 1,
                                    Popped(w.r, a.args), TRUE)
    [] OTHER -> FALSE

\* An entry that the symbols s have operands for, from a to b.
Step(s, w, a, b) == Fits(s, w) /\ Goes(w, a, b)

\* A list of entries leads from a to b.
Leads(s, w, h) ==
  /\ w \in Seq(Item) /\ h \in Seq(Place) /\ Len(h) = Len(w) + 1
  /\ \A i \in 1..Len(w) : Step(s, w[i], h[i], h[i + 1])
Chain(s, w, a, b) == \E h : Leads(s, w, h) /\ h[1] = a /\ h[Len(w) + 1] = b

LEMMA ChainNone ==
  ASSUME NEW s, NEW a \in Place
  PROVE  Chain(s, <<>>, a, a)
<1>1. /\ <<a>> \in Seq(Place) /\ Len(<<a>>) = 1 /\ <<a>>[1] = a /\ Len(<<>>) = 0
  OBVIOUS
<1>2. Leads(s, <<>>, <<a>>)
  BY <1>1 DEF Leads
<1>. QED BY <1>1, <1>2 DEF Chain

LEMMA ChainJoin ==
  ASSUME NEW s, NEW u, NEW v, NEW a, NEW b, NEW c, Chain(s, u, a, b), Chain(s, v, b, c)
  PROVE  Chain(s, u \o v, a, c)
<1>0. u \in Seq(Item) /\ v \in Seq(Item)
  BY DEF Chain, Leads
<1>1. PICK g : Leads(s, u, g) /\ g[1] = a /\ g[Len(u) + 1] = b
  BY DEF Chain
<1>2. PICK h : Leads(s, v, h) /\ h[1] = b /\ h[Len(v) + 1] = c
  BY DEF Chain
<1>3. /\ Len(u) \in Nat /\ Len(v) \in Nat /\ Len(u \o v) = Len(u) + Len(v)
      /\ \A i \in 1..Len(u \o v) :
           (u \o v)[i] = IF i <= Len(u) THEN u[i] ELSE v[i - Len(u)]
      /\ u \o v \in Seq(Item)
  BY <1>0, ConcatProperties
<1>4. /\ \A i \in 1..Len(u) + 1 : g[i] \in Place
      /\ \A i \in 1..Len(v) + 1 : h[i] \in Place
  BY <1>1, <1>2, <1>3, ElementOfSeq DEF Leads
<1>. DEFINE m == Len(u) + Len(v) + 1
            k == [i \in 1..m |-> IF i <= Len(u) THEN g[i] ELSE h[i - Len(u)]]
<1>5. \A i \in 1..m : k[i] \in Place
  <2>. SUFFICES ASSUME NEW i \in 1..m PROVE k[i] \in Place
    OBVIOUS
  <2>1. CASE i <= Len(u)
    BY <1>3, <1>4, <2>1
  <2>2. CASE i > Len(u)
    <3>1. i - Len(u) \in 1..Len(v) + 1
      BY <1>3, <2>2
    <3>. QED BY <1>3, <1>4, <2>2, <3>1
  <2>. QED BY <1>3, <2>1, <2>2
<1>6. k \in Seq(Place) /\ Len(k) = m
  BY <1>3, <1>5
<1>7. \A i \in 1..Len(u \o v) : Step(s, (u \o v)[i], k[i], k[i + 1])
  <2>. SUFFICES ASSUME NEW i \in 1..Len(u \o v) PROVE Step(s, (u \o v)[i], k[i], k[i + 1])
    OBVIOUS
  <2>1. CASE i < Len(u)
    <3>1. i \in 1..Len(u) /\ k[i] = g[i] /\ k[i + 1] = g[i + 1] /\ (u \o v)[i] = u[i]
      BY <1>3, <2>1
    <3>. QED BY <1>1, <3>1 DEF Leads
  <2>2. CASE i = Len(u)
    <3>1. /\ i \in 1..Len(u) /\ k[i] = g[i] /\ k[i + 1] = h[1] /\ (u \o v)[i] = u[i]
          /\ h[1] = g[i + 1]
      BY <1>1, <1>2, <1>3, <2>2
    <3>. QED BY <1>1, <3>1 DEF Leads
  <2>3. CASE i > Len(u)
    <3>1. /\ i - Len(u) \in 1..Len(v) /\ k[i] = h[i - Len(u)] /\ (u \o v)[i] = v[i - Len(u)]
          /\ k[i + 1] = h[i - Len(u) + 1]
      BY <1>3, <2>3
    <3>. QED BY <1>2, <3>1 DEF Leads
  <2>. QED BY <1>3, <2>1, <2>2, <2>3
<1>8. k[1] = a
  <2>1. CASE Len(u) = 0
    BY <1>1, <1>2, <1>3, <2>1
  <2>2. CASE Len(u) > 0
    BY <1>1, <1>3, <2>2
  <2>. QED BY <1>3, <2>1, <2>2
<1>9. k[m] = c
  BY <1>2, <1>3
<1>10. Leads(s, u \o v, k)
  BY <1>3, <1>6, <1>7 DEF Leads
<1>. QED BY <1>3, <1>8, <1>9, <1>10 DEF Chain

LEMMA ChainOne ==
  ASSUME NEW s, NEW w, NEW a \in Place, NEW b \in Place, Step(s, w, a, b)
  PROVE  Chain(s, <<w>>, a, b)
<1>1. /\ <<a, b>> \in Seq(Place) /\ Len(<<a, b>>) = 2 /\ Len(<<w>>) = 1 /\ <<w>>[1] = w
      /\ <<a, b>>[1] = a /\ <<a, b>>[2] = b /\ <<w>> \in Seq(Item)
  BY DEF Step, Fits
<1>2. Leads(s, <<w>>, <<a, b>>)
  BY <1>1 DEF Leads
<1>. QED BY <1>1, <1>2 DEF Chain

LEMMA ChainTwo ==
  ASSUME NEW s, NEW u, NEW v, NEW a \in Place, NEW b \in Place, NEW c \in Place,
         Step(s, u, a, b), Step(s, v, b, c)
  PROVE  Chain(s, <<u, v>>, a, c)
<1>. DEFINE w == <<u, v>>
            h == <<a, b, c>>
<1>1. /\ h \in Seq(Place) /\ Len(h) = 3 /\ h[1] = a /\ h[2] = b /\ h[3] = c
      /\ Len(w) = 2 /\ w[1] = u /\ w[2] = v
  OBVIOUS
<1>. w \in Seq(Item)
  BY DEF Step, Fits
<1>2. \A i \in 1..2 : i = 1 \/ i = 2
  OBVIOUS
<1>. HIDE DEF w, h
<1>3. \A i \in 1..2 : Step(s, w[i], h[i], h[i + 1])
  BY <1>1, <1>2
<1>4. Chain(s, w, a, c)
  BY <1>1, <1>3 DEF Chain, Leads
<1>. QED BY <1>4 DEF w

LEMMA ChainThree ==
  ASSUME NEW s, NEW u, NEW v, NEW w,
         NEW a \in Place, NEW b \in Place, NEW c \in Place, NEW d \in Place,
         Step(s, u, a, b), Step(s, v, b, c), Step(s, w, c, d)
  PROVE  Chain(s, <<u, v, w>>, a, d)
<1>. DEFINE l == <<u, v, w>>
            h == <<a, b, c, d>>
<1>1. /\ h \in Seq(Place) /\ Len(h) = 4 /\ h[1] = a /\ h[2] = b /\ h[3] = c /\ h[4] = d
      /\ Len(l) = 3 /\ l[1] = u /\ l[2] = v /\ l[3] = w
  OBVIOUS
<1>. l \in Seq(Item)
  BY DEF Step, Fits
<1>2. \A i \in 1..3 : i = 1 \/ i = 2 \/ i = 3
  OBVIOUS
<1>. HIDE DEF l, h
<1>3. \A i \in 1..3 : Step(s, l[i], h[i], h[i + 1])
  BY <1>1, <1>2
<1>4. Chain(s, l, a, d)
  BY <1>1, <1>3 DEF Chain, Leads
<1>. QED BY <1>4 DEF l

\* The first entry, and what the others lead to.
LEMMA ChainHead ==
  ASSUME NEW s, NEW w, w # <<>>, NEW a, NEW c, Chain(s, w, a, c)
  PROVE  /\ Head(w) \in Item /\ Tail(w) \in Seq(Item)
         /\ a \in Place /\ c \in Place
         /\ \E b \in Place : Step(s, Head(w), a, b) /\ Chain(s, Tail(w), b, c)
<1>1. PICK h : Leads(s, w, h) /\ h[1] = a /\ h[Len(w) + 1] = c
  BY DEF Chain
<1>. w \in Seq(Item)
  BY <1>1 DEF Leads
<1>2. /\ Len(w) \in Nat \ {0} /\ Head(w) = w[1] /\ Tail(w) \in Seq(Item)
      /\ Len(Tail(w)) = Len(w) - 1
      /\ \A i \in 1..Len(w) - 1 : Tail(w)[i] = w[i + 1]
  BY HeadTailProperties
<1>3. \A i \in 1..Len(w) + 1 : h[i] \in Place
  BY <1>1, <1>2, ElementOfSeq DEF Leads
<1>. DEFINE k == [i \in 1..Len(w) |-> h[i + 1]]
<1>4. k \in Seq(Place) /\ Len(k) = Len(w) /\ Len(w) = Len(Tail(w)) + 1
  BY <1>2, <1>3
<1>5. \A i \in 1..Len(w) - 1 : Step(s, Tail(w)[i], k[i], k[i + 1])
  <2>. SUFFICES ASSUME NEW i \in 1..Len(w) - 1 PROVE Step(s, Tail(w)[i], k[i], k[i + 1])
    OBVIOUS
  <2>1. /\ i + 1 \in 1..Len(w) /\ Tail(w)[i] = w[i + 1]
        /\ k[i] = h[i + 1] /\ k[i + 1] = h[i + 1 + 1]
    BY <1>2
  <2>. QED BY <1>1, <2>1 DEF Leads
<1>6. Leads(s, Tail(w), k)
  BY <1>2, <1>4, <1>5 DEF Leads
<1>7. k[1] = h[2] /\ k[Len(Tail(w)) + 1] = c
  BY <1>1, <1>2
<1>8. Chain(s, Tail(w), h[2], c)
  BY <1>6, <1>7 DEF Chain
<1>9. Step(s, Head(w), a, h[2])
  BY <1>1, <1>2 DEF Leads
<1>10. Head(w) \in Item
  BY <1>9 DEF Step, Fits
<1>. QED BY <1>1, <1>2, <1>3, <1>8, <1>9, <1>10

-----------------------------------------------------------------------------
(* The stack of arguments in front of an instruction                       *)

After(before, op) ==
  CASE op \in Tag -> Append(before, op)
    [] op = "POP" /\ before # <<>> -> Front(before)
    [] OTHER -> before

\* What StackBalanced and ArgumentsOnTop ask of an instruction.
Lawful(x, before) ==
  /\ x.op \in Outside => before = <<>>
  /\ x.op = "CALL" => OnTop(x.r, before)

Stacks(c, p) ==
  /\ p \in Seq(Seq(Tag)) /\ Len(p) = Len(c) + 1 /\ p[1] = <<>>
  /\ \A i \in 1..Len(c) : Lawful(c[i], p[i]) /\ p[i + 1] = After(p[i], c[i].op)

\* The instructions c are lawful and leave s on the stack.
Leaves(c, s) == \E p : Stacks(c, p) /\ p[Len(c) + 1] = s

LEMMA LeavesNone == Leaves(<<>>, <<>>)
<1>1. /\ << <<>> >> \in Seq(Seq(Tag)) /\ Len(<< <<>> >>) = 1 /\ << <<>> >>[1] = <<>>
      /\ Len(<<>>) = 0
  OBVIOUS
<1>2. Stacks(<<>>, << <<>> >>)
  BY <1>1 DEF Stacks
<1>. QED BY <1>1, <1>2 DEF Leaves

LEMMA LeavesType ==
  ASSUME NEW c \in Seq(Line), NEW s, Leaves(c, s)
  PROVE  s \in Seq(Tag)
BY ElementOfSeq DEF Leaves, Stacks

LEMMA LeavesAppend ==
  ASSUME NEW c \in Seq(Line), NEW x \in Line, NEW s, NEW t \in Seq(Tag),
         Leaves(c, s), Lawful(x, s), t = After(s, x.op)
  PROVE  Leaves(Append(c, x), t)
<1>1. PICK p : Stacks(c, p) /\ p[Len(c) + 1] = s
  BY DEF Leaves
<1>2. /\ Len(c) \in Nat /\ Len(Append(c, x)) = Len(c) + 1
      /\ \A i \in 1..Len(c) : Append(c, x)[i] = c[i]
      /\ Append(c, x)[Len(c) + 1] = x
  BY AppendProperties
<1>. DEFINE q == Append(p, t)
<1>3. /\ q \in Seq(Seq(Tag)) /\ Len(q) = Len(c) + 2
      /\ \A i \in 1..Len(c) + 1 : q[i] = p[i]
      /\ q[Len(c) + 2] = t
  BY <1>1, <1>2, AppendProperties DEF Stacks
<1>. HIDE DEF q
<1>4. \A i \in 1..Len(c) + 1 : /\ Lawful(Append(c, x)[i], q[i])
                               /\ q[i + 1] = After(q[i], Append(c, x)[i].op)
  <2>. SUFFICES ASSUME NEW i \in 1..Len(c) + 1
                PROVE  /\ Lawful(Append(c, x)[i], q[i])
                       /\ q[i + 1] = After(q[i], Append(c, x)[i].op)
    OBVIOUS
  <2>1. CASE i \in 1..Len(c)
    <3>0. i \in 1..Len(c) + 1 /\ i + 1 \in 1..Len(c) + 1
      BY <1>2, <2>1
    <3>1. q[i] = p[i] /\ q[i + 1] = p[i + 1] /\ Append(c, x)[i] = c[i]
      BY <1>2, <1>3, <2>1, <3>0
    <3>. QED BY <1>1, <2>1, <3>1 DEF Stacks
  <2>2. CASE i = Len(c) + 1
    <3>1. q[i] = p[i] /\ p[i] = s
      BY <1>1, <1>3, <2>2
    <3>2. i + 1 = Len(c) + 2
      BY <1>2, <2>2
    <3>3. q[i + 1] = t
      BY <1>3, <3>2
    <3>4. Append(c, x)[i] = x
      BY <1>2, <2>2
    <3>. QED BY <3>1, <3>3, <3>4
  <2>. QED BY <1>2, <2>1, <2>2
<1>5. q[1] = <<>>
  BY <1>1, <1>2, <1>3 DEF Stacks
<1>6. Stacks(Append(c, x), q)
  BY <1>2, <1>3, <1>4, <1>5 DEF Stacks
<1>. QED BY <1>2, <1>3, <1>6 DEF Leaves

\* The POPs behind a call.
LEMMA LeavesPops ==
  ASSUME NEW c \in Seq(Line), NEW s, NEW k \in Nat, Leaves(c, s), k <= Len(s)
  PROVE  Leaves(c \o [i \in 1..k |-> Inst("POP", NULL, NULL, NULL)],
                SubSeq(s, 1, Len(s) - k))
<1>. DEFINE pops == [i \in 1..k |-> Inst("POP", NULL, NULL, NULL)]
            all == c \o pops
<1>1. PICK p : Stacks(c, p) /\ p[Len(c) + 1] = s
  BY DEF Leaves
<1>2. s \in Seq(Tag) /\ Len(s) \in Nat /\ Len(c) \in Nat
  BY LeavesType
<1>3. pops \in Seq(Line) /\ Len(pops) = k /\ \A i \in 1..k : pops[i].op = "POP"
  <2>1. Inst("POP", NULL, NULL, NULL) \in Line /\ Inst("POP", NULL, NULL, NULL).op = "POP"
      BY DEF Line, CodeOp, Inst, NULL
  <2>. QED BY <2>1
<1>4. /\ Len(all) = Len(c) + k
      /\ \A i \in 1..Len(c) : all[i] = c[i]
      /\ \A i \in Len(c) + 1..Len(c) + k : all[i].op = "POP"
  <2>1. /\ Len(all) = Len(c) + k
        /\ \A i \in 1..Len(c) + k : all[i] = IF i <= Len(c) THEN c[i] ELSE pops[i - Len(c)]
    BY <1>2, <1>3, ConcatProperties
  <2>2. \A i \in Len(c) + 1..Len(c) + k : i - Len(c) \in 1..k /\ ~(i <= Len(c))
    BY <1>2
  <2>. HIDE DEF all, pops
  <2>. QED BY <1>2, <1>3, <2>1, <2>2
<1>. HIDE DEF all, pops
<1>. DEFINE Left_(j) == SubSeq(s, 1, Len(s) - j)
            q == [i \in 1..Len(c) + k + 1 |->
                    IF i <= Len(c) + 1 THEN p[i] ELSE Left_(i - Len(c) - 1)]
<1>5. \A j \in 0..k : /\ Left_(j) \in Seq(Tag) /\ Len(Left_(j)) = Len(s) - j
                      /\ \A i \in 1..Len(s) - j : Left_(j)[i] = s[i]
  BY <1>2, SubSeqProperties
<1>6. Left_(0) = s
  BY <1>2, <1>5, SeqEqual
<1>7. \A j \in 0..k - 1 : Left_(j + 1) = After(Left_(j), "POP")
  <2>. SUFFICES ASSUME NEW j \in 0..k - 1 PROVE Left_(j + 1) = After(Left_(j), "POP")
    OBVIOUS
  <2>1. /\ Left_(j) \in Seq(Tag) /\ Len(Left_(j)) = Len(s) - j /\ Len(s) - j >= 1
        /\ Left_(j + 1) \in Seq(Tag) /\ Len(Left_(j + 1)) = Len(s) - j - 1
        /\ \A i \in 1..Len(s) - j - 1 : Left_(j + 1)[i] = s[i] /\ Left_(j)[i] = s[i]
    BY <1>2, <1>5
  <2>. HIDE DEF Left_
  <2>2. /\ Front(Left_(j)) \in Seq(Tag) /\ Len(Front(Left_(j))) = Len(s) - j - 1
        /\ \A i \in 1..Len(s) - j - 1 : Front(Left_(j))[i] = Left_(j)[i]
    BY <1>2, <2>1, SubSeqProperties DEF Front
  <2>3. Front(Left_(j)) = Left_(j + 1)
    <3>. DEFINE u == Front(Left_(j))
                v == Left_(j + 1)
    <3>1. u \in Seq(Tag) /\ v \in Seq(Tag) /\ Len(u) = Len(v)
      BY <2>1, <2>2
    <3>2. \A i \in 1..Len(u) : u[i] = v[i]
      BY <2>1, <2>2
    <3>. HIDE DEF u, v
    <3>3. u = v
      BY <3>1, <3>2, SeqEqual
    <3>. QED BY <3>3 DEF u, v
  <2>4. Left_(j) # <<>>
    BY <1>2, <2>1
  <2>. QED BY <2>3, <2>4 DEF After, Tag
<1>8. \A i \in 1..Len(c) + 1 : q[i] = p[i] /\ p[i] \in Seq(Tag)
  BY <1>1, <1>2, ElementOfSeq DEF Stacks
<1>9. \A j \in 0..k : q[Len(c) + 1 + j] = Left_(j)
  <2>. SUFFICES ASSUME NEW j \in 0..k PROVE q[Len(c) + 1 + j] = Left_(j)
    OBVIOUS
  <2>1. CASE j = 0
    BY <1>1, <1>2, <1>6, <2>1
  <2>2. CASE j # 0
    <3>1. Len(c) + 1 + j \in 1..Len(c) + k + 1 /\ ~(Len(c) + 1 + j <= Len(c) + 1)
          /\ Len(c) + 1 + j - Len(c) - 1 = j
      BY <1>2, <2>2
    <3>. HIDE DEF Left_
    <3>. QED BY <3>1
  <2>. QED BY <2>1, <2>2
<1>10. \A i \in 1..Len(c) + k + 1 : \/ i \in 1..Len(c) + 1
                                    \/ \E j \in 0..k : i = Len(c) + 1 + j
  <2>. SUFFICES ASSUME NEW i \in 1..Len(c) + k + 1, i \notin 1..Len(c) + 1
                PROVE  \E j \in 0..k : i = Len(c) + 1 + j
    OBVIOUS
  <2>1. i - Len(c) - 1 \in 0..k /\ i = Len(c) + 1 + (i - Len(c) - 1)
    BY <1>2
  <2>. QED BY <2>1
<1>11. q \in Seq(Seq(Tag)) /\ Len(q) = Len(c) + k + 1
  <2>0. DOMAIN q = 1..Len(c) + k + 1 /\ Len(c) + k + 1 \in Nat
    BY <1>2
  <2>. HIDE DEF q, Left_
  <2>1. \A i \in 1..Len(c) + k + 1 : q[i] \in Seq(Tag)
    BY <1>5, <1>8, <1>9, <1>10
  <2>2. q = [i \in 1..Len(c) + k + 1 |-> q[i]]
    <3>1. q = [i \in DOMAIN q |-> q[i]]
      BY DEF q
    <3>. QED BY <2>0, <3>1
  <2>3. q \in [1..Len(c) + k + 1 -> Seq(Tag)]
    BY <2>1, <2>2
  <2>4. Len(c) + k + 1 \in Nat
    BY <2>0
  <2>. QED BY <2>3, <2>4
<1>. HIDE DEF q, Left_
<1>12. \A i \in 1..Len(c) + k : Lawful(all[i], q[i]) /\ q[i + 1] = After(q[i], all[i].op)
  <2>. SUFFICES ASSUME NEW i \in 1..Len(c) + k
                PROVE  Lawful(all[i], q[i]) /\ q[i + 1] = After(q[i], all[i].op)
    OBVIOUS
  <2>1. CASE i \in 1..Len(c)
    <3>1. q[i] = p[i] /\ q[i + 1] = p[i + 1] /\ all[i] = c[i]
      <4>1. i \in 1..Len(c) + 1 /\ i + 1 \in 1..Len(c) + 1
        BY <1>2, <2>1
      <4>2. q[i] = p[i] /\ q[i + 1] = p[i + 1]
        BY <1>8, <4>1
      <4>3. all[i] = c[i]
        BY <1>4, <2>1
      <4>. QED BY <4>2, <4>3
    <3>. QED BY <1>1, <2>1, <3>1 DEF Stacks
  <2>2. CASE i \notin 1..Len(c)
    <3>1. i - Len(c) - 1 \in 0..k - 1 /\ i = Len(c) + 1 + (i - Len(c) - 1)
          /\ i + 1 = Len(c) + 1 + (i - Len(c) - 1 + 1)
          /\ i - Len(c) - 1 \in 0..k /\ i - Len(c) - 1 + 1 \in 0..k
      BY <1>2, <2>2
    <3>2. q[i] = Left_(i - Len(c) - 1) /\ q[i + 1] = Left_(i - Len(c) - 1 + 1)
      BY <1>9, <3>1
    <3>3. all[i].op = "POP"
      BY <1>2, <1>4, <2>2
    <3>. QED BY <1>7, <3>1, <3>2, <3>3 DEF Lawful, Outside, Branches
  <2>. QED BY <2>1, <2>2
<1>13. q[1] = <<>> /\ q[Len(all) + 1] = Left_(k)
  <2>1. 1 \in 1..Len(c) + 1 /\ k \in 0..k /\ Len(all) + 1 = Len(c) + 1 + k
    BY <1>2, <1>4
  <2>. QED BY <1>1, <1>8, <1>9, <2>1 DEF Stacks
<1>14. Stacks(all, q)
  BY <1>2, <1>4, <1>11, <1>12, <1>13 DEF Stacks
<1>15. Leaves(all, Left_(k))
  BY <1>13, <1>14 DEF Leaves
<1>. QED BY <1>15 DEF all, pops, Left_

\* Pushed is the stack that Stacks says.
LEMMA PushedRight ==
  ASSUME code \in Seq(Line), NEW p, Stacks(code, p)
  PROVE  \A i \in 1..Len(code) + 1 : Pushed[i] = p[i]
<1>. DEFINE D == 1..Len(code) + 1
            Body(f, i) == IF i = 1 THEN <<>>
                          ELSE LET before == f[i - 1]  op == code[i - 1].op
                               IN  CASE op \in {"PUSH_VAL", "PUSH_ADDR"} -> Append(before, op)
                                     [] op = "POP" /\ before # <<>> -> Front(before)
                                     [] OTHER -> before
<1>1. Len(code) \in Nat
  OBVIOUS
<1>2. \A f : \A i \in D : Body(f, i) = IF i = 1 THEN <<>> ELSE After(f[i - 1], code[i - 1].op)
  BY DEF After, Tag
<1>3. p = [i \in D |-> p[i]]
  BY <1>1 DEF Stacks
<1>4. \A i \in D : p[i] = Body(p, i)
  <2>. SUFFICES ASSUME NEW i \in D PROVE p[i] = Body(p, i)
    OBVIOUS
  <2>1. i # 1 => i - 1 \in 1..Len(code) /\ (i - 1) + 1 = i
    BY <1>1
  <2>. HIDE DEF Body
  <2>. QED BY <1>2, <2>1 DEF Stacks
<1>5. p = [i \in D |-> Body(p, i)]
  <2>. HIDE DEF Body
  <2>. QED BY <1>3, <1>4
<1>6. Pushed = [i \in D |-> Body(Pushed, i)]
  BY <1>5 DEF Pushed
<1>. DEFINE Off == {i \in D : Pushed[i] # p[i]}
<1>. HIDE DEF Body
<1>. SUFFICES ASSUME Off # {} PROVE FALSE
  OBVIOUS
<1>7. PICK i \in Off : \A j \in Off : i <= j
  <2>1. Off \subseteq Nat
    BY <1>1
  <2>. HIDE DEF Off
  <2>. QED BY <2>1, LeastNat
<1>8. i \in D /\ Pushed[i] = Body(Pushed, i) /\ p[i] = Body(p, i)
  BY <1>4, <1>6, <1>7
<1>9. CASE i = 1
  BY <1>2, <1>7, <1>8, <1>9
<1>10. CASE i # 1
  <2>1. i - 1 \in D /\ i - 1 \notin Off
    BY <1>1, <1>7, <1>10
  <2>2. Pushed[i - 1] = p[i - 1]
    BY <2>1
  <2>. QED BY <1>2, <1>7, <1>8, <1>10, <2>2
<1>. QED BY <1>9, <1>10

-----------------------------------------------------------------------------
(* The invariant                                                           *)

Sym == [cate : Value_cates \cup {"PROC", "FUNCTION", "ARRAY", "LABEL", "STRING"},
        type : {"VOID", "INT", "UINT", "CHAR", "LITERAL", "STRING"},
        stab : Routine, initval : {"0", "written"}]

\* The declared symbols, and the allocated ones behind them.
Table(s) ==
  /\ s \in Seq(Sym) /\ Len(s) >= Len(Declared)
  /\ \A e \in DOMAIN Declared : s[e].cate = Declared[e].cate /\ s[e].type = Declared[e].type

\* Those of s, and new ones behind them.
Extends(s2, s) ==
  /\ Table(s) /\ Table(s2) /\ Len(s2) >= Len(s)
  /\ \A e \in DOMAIN s : s2[e] = s[e]

\* Instructions, or returned values, of the symbols s.
OperandsIn(s, x) ==
  /\ x.d \in DOMAIN s \cup {NULL} /\ x.r \in DOMAIN s \cup {NULL}
  /\ x.s \in DOMAIN s \cup {NULL} /\ (x.op = "FN_START" => x.d \in Routine)
Lines(s, c) == c \in Seq(Line) /\ \A i \in 1..Len(c) : OperandsIn(s, c[i])
Values(s, v) == v \in Seq(Nat) /\ \A i \in 1..Len(v) : Valued(s, v[i])

Begun(c) == \E i \in 1..Len(c) : c[i].op = "FN_START"
End == Spot(0, <<>>, TRUE)

\* The generator is at the place a.
Standing(a, v, c) ==
  /\ a \in Place /\ a.n = Len(v) /\ Leaves(c, a.args)
  /\ a.body => Begun(c)

WorkInv ==
  /\ Table(syms) /\ Lines(syms, code) /\ Values(syms, vals)
  /\ budget \in 0..Budget
  /\ pc \in {"genir", "done", "unlikely_plus", "unlikely_write"}
  /\ pc = "done" => work = <<>>
  /\ \E a \in Place : Standing(a, vals, code) /\ Chain(syms, work, a, End)

LEMMA SymsExtend ==
  ASSUME NEW s, NEW s2, Extends(s2, s)
  PROVE  /\ DOMAIN s \subseteq DOMAIN s2
         /\ \A e : Valued(s, e) => Valued(s2, e)
         /\ \A w : Fits(s, w) => Fits(s2, w)
         /\ \A w, a, b : Chain(s, w, a, b) => Chain(s2, w, a, b)
         /\ \A c : Lines(s, c) => Lines(s2, c)
         /\ \A v : Values(s, v) => Values(s2, v)
<1>1. /\ s \in Seq(Sym) /\ s2 \in Seq(Sym) /\ Len(s) \in Nat /\ Len(s2) \in Nat
      /\ Len(s2) >= Len(s) /\ DOMAIN s = 1..Len(s) /\ DOMAIN s2 = 1..Len(s2)
      /\ \A e \in DOMAIN s : s2[e] = s[e]
  BY DEF Extends, Table
<1>2. \A e \in DOMAIN s : e \in DOMAIN s2
  BY <1>1
<1>3. \A e : Valued(s, e) => Valued(s2, e)
  BY <1>1, <1>2 DEF Valued
<1>4. \A w : Fits(s, w) => Fits(s2, w)
  BY <1>1, <1>2, <1>3 DEF Fits
<1>5. \A w, a, b : Chain(s, w, a, b) => Chain(s2, w, a, b)
  BY <1>4 DEF Chain, Leads, Step
<1>6. \A c : Lines(s, c) => Lines(s2, c)
  BY <1>2 DEF Lines, OperandsIn
<1>7. \A v : Values(s, v) => Values(s2, v)
  BY <1>3 DEF Values
<1>. QED BY <1>2, <1>3, <1>4, <1>5, <1>6, <1>7

LEMMA SymsSame ==
  ASSUME NEW s, Table(s)
  PROVE  Extends(s, s)
BY DEF Extends, Table

\* A new symbol.
LEMMA SymsAppend ==
  ASSUME NEW s, NEW x \in Sym, Table(s)
  PROVE  /\ Extends(Append(s, x), s)
         /\ Len(s) + 1 \in DOMAIN Append(s, x) /\ Append(s, x)[Len(s) + 1] = x
         /\ Len(Append(s, x)) = Len(s) + 1
<1>1. /\ s \in Seq(Sym) /\ Len(s) \in Nat /\ DOMAIN s = 1..Len(s)
      /\ Append(s, x) \in Seq(Sym) /\ Len(Append(s, x)) = Len(s) + 1
      /\ DOMAIN Append(s, x) = 1..Len(s) + 1
      /\ \A e \in 1..Len(s) : Append(s, x)[e] = s[e]
      /\ Append(s, x)[Len(s) + 1] = x
  BY AppendProperties DEF Table
<1>2. Table(Append(s, x))
  BY <1>1, SymbolFacts DEF Table
<1>. QED BY <1>1, <1>2 DEF Extends

LEMMA ExtendsTwice ==
  ASSUME NEW r, NEW s, NEW t, Extends(s, r), Extends(t, s)
  PROVE  Extends(t, r)
<1>1. \A e \in DOMAIN r : e \in DOMAIN s
  BY SymsExtend
<1>2. Len(r) \in Nat /\ Len(s) \in Nat /\ Len(t) \in Nat
  BY DEF Extends, Table
<1>. QED BY <1>1, <1>2 DEF Extends

\* The table of the symbols that are allocated.
LEMMA HereRoutine ==
  ASSUME Lines(syms, code), Begun(code)
  PROVE  Here \in Routine
<1>. DEFINE Starts == {i \in 1..Len(code) : code[i].op = "FN_START"}
<1>1. code \in Seq(Line) /\ Len(code) \in Nat /\ DOMAIN code = 1..Len(code)
  BY DEF Lines
<1>2. Starts # {}
  BY DEF Begun
<1>3. PICK m \in Starts : \A i \in Starts : i <= m
  <2>1. Starts \subseteq 1..Len(code)
    BY <1>1
  <2>. HIDE DEF Starts
  <2>. QED BY <1>1, <1>2, <2>1, GreatestNat
<1>4. /\ m \in DOMAIN code /\ code[m].op = "FN_START"
      /\ \A j \in m + 1..Len(code) : code[j].op # "FN_START"
  <2>. SUFFICES ASSUME NEW j \in m + 1..Len(code), code[j].op = "FN_START" PROVE FALSE
    BY <1>1, <1>3
  <2>. QED BY <1>1, <1>3
<1>. DEFINE last == CHOOSE i \in DOMAIN code :
                      /\ code[i].op = "FN_START"
                      /\ \A j \in i + 1..Len(code) : code[j].op # "FN_START"
<1>5. last \in DOMAIN code /\ code[last].op = "FN_START"
  BY <1>4
<1>. HIDE DEF last
<1>6. OperandsIn(syms, code[last])
  BY <1>1, <1>5 DEF Lines
<1>7. code[last].d \in Routine
  BY <1>5, <1>6 DEF OperandsIn
<1>. QED BY <1>7 DEF Here, last

\* The symbols that a statement or an expression finds.
LEMMA SidsDeclared ==
  ASSUME NEW cates, NEW e \in Sids(cates), NEW s, Table(s)
  PROVE  /\ e \in DOMAIN Declared /\ Declared[e].cate \in cates
         /\ e \in DOMAIN s /\ s[e].cate \in cates
         /\ e \in 1..Len(Declared) /\ e # NULL /\ e \in Nat
         /\ s[e].type = Declared[e].type /\ s[e].type \in {"VOID", "INT", "UINT", "CHAR"}
         /\ s[e].type = "VOID" <=> s[e].cate = "PROC"
<1>1. e \in DOMAIN Declared /\ Declared[e].cate \in cates
  BY DEF Sids, InTable
<1>2. e \in 1..Len(Declared) /\ e \in DOMAIN s /\ e # NULL /\ e \in Nat
  BY <1>1, SymbolFacts DEF Table, NULL
<1>. QED BY <1>1, <1>2, SymbolFacts DEF Table

-----------------------------------------------------------------------------
(* Entries of work                                                         *)

LEMMA DoItem ==
  ASSUME NEW f \in Tasks, NEW op \in TaskOp(f), NEW d \in Nat, NEW r \in Nat,
         NEW q \in BOOLEAN
  PROVE  /\ Do(f, op, d, r, q) \in Item
         /\ Do(f, op, d, r, q).do = f /\ Do(f, op, d, r, q).op = op
         /\ Do(f, op, d, r, q).d = d /\ Do(f, op, d, r, q).r = r
         /\ Do(f, op, d, r, q).inarg = q
<1>. DEFINE ops == UNION {TaskOp(g) : g \in Tasks}
<1>1. op \in ops
  OBVIOUS
<1>. HIDE DEF ops
<1>2. Do(f, op, d, r, q) \in [do : Tasks, op : ops, d : Nat, r : Nat, inarg : BOOLEAN]
  BY <1>1 DEF Do
<1>. QED BY <1>2 DEF Do, Item, ops

\* The operations of each function, as sets.
LEMMA PlainOps ==
  ASSUME NEW f \in Plain
  PROVE  f \in Tasks /\ TaskOp(f) = {""}
BY DEF TaskOp, Tasks, Plain

LEMMA TaskOps ==
  /\ "emit1" \in Tasks /\ TaskOp("emit1") = Emitted
  /\ "store_var" \in Tasks /\ TaskOp("store_var") = {"STORE_VAR"}
  /\ "store_array" \in Tasks /\ TaskOp("store_array") = {"STORE_ARRAY"}
  /\ "branch" \in Tasks /\ TaskOp("branch") = Branches
  /\ "for" \in Tasks /\ TaskOp("for") = {"INC", "DEC"}
  /\ "write" \in Tasks /\ TaskOp("write") = {"ID_WRITE", "STRID_WRITE"}
  /\ "sign" \in Tasks /\ TaskOp("sign") = {"NEG", "ADD"}
  /\ "binary" \in Tasks /\ TaskOp("binary") = Calculate
  /\ "load_array" \in Tasks /\ TaskOp("load_array") = {"LOAD_ARRAY"}
  /\ "gen_arg" \in Tasks /\ TaskOp("gen_arg") = Parameter
  /\ "push" \in Tasks /\ TaskOp("push") = {"PUSH_VAL", "PUSH_ADDR"}
  /\ "call" \in Tasks /\ TaskOp("call") = {"CALL"}
BY DEF TaskOp, Tasks, Plain

LEMMA SpotPlace ==
  /\ \A n \in Nat, args \in Seq(Tag), body \in BOOLEAN :
       /\ Spot(n, args, body) \in Place /\ Spot(n, args, body).n = n
       /\ Spot(n, args, body).args = args /\ Spot(n, args, body).body = body
  /\ \A a \in Place : /\ a.n \in Nat /\ a.args \in Seq(Tag) /\ a.body \in BOOLEAN
                      /\ a = Spot(a.n, a.args, a.body)
  /\ <<>> \in Seq(Tag)
BY DEF Spot, Place

\* Entries that carry no operand.
LEMMA StepPlain ==
  ASSUME NEW s, NEW a \in Place, a.body, NEW q \in BOOLEAN
  PROVE  /\ \A f \in {"gen_expr", "gen_term", "gen_factor"} :
              Step(s, Expr(f, q), a, Spot(a.n + 1, a.args, TRUE))
         /\ a.n >= 1 => \A f \in {"terms", "factors"} : Step(s, Expr(f, q), a, a)
         /\ a.n = 0 /\ a.args = <<>> =>
              \A f \in {"gen_comp_stmt", "gen_stmt"} : Step(s, Gen(f), a, a)
<1>1. ASSUME NEW f \in {"gen_comp_stmt", "gen_stmt", "gen_expr", "gen_term", "gen_factor",
                        "terms", "factors"}
      PROVE  Fits(s, Expr(f, q)) /\ Expr(f, q).do = f
  <2>0. NULL \in Nat
    BY DEF NULL
  <2>1. f \in Tasks /\ TaskOp(f) = {""}
    BY PlainOps DEF Plain
  <2>2. /\ Expr(f, q) \in Item /\ Expr(f, q).do = f /\ Expr(f, q).op = ""
        /\ Expr(f, q).d = NULL /\ Expr(f, q).r = NULL
    BY <2>0, <2>1, DoItem DEF Expr, Do
  <2>. QED BY <2>1, <2>2 DEF Fits
<1>2. \A f \in {"gen_expr", "gen_term", "gen_factor"} :
        Step(s, Expr(f, q), a, Spot(a.n + 1, a.args, TRUE))
  BY <1>1 DEF Step, Goes
<1>3. a.n >= 1 => \A f \in {"terms", "factors"} : Step(s, Expr(f, q), a, a)
  BY <1>1 DEF Step, Goes
<1>4. ASSUME a.n = 0, a.args = <<>>, NEW f \in {"gen_comp_stmt", "gen_stmt"}
      PROVE  Step(s, Gen(f), a, a)
  <2>0. NULL \in Nat
    BY DEF NULL
  <2>1. f \in Tasks /\ TaskOp(f) = {""}
    BY PlainOps DEF Plain
  <2>2. /\ Gen(f) \in Item /\ Gen(f).do = f /\ Gen(f).op = ""
        /\ Gen(f).d = NULL /\ Gen(f).r = NULL
    BY <2>0, <2>1, DoItem DEF Gen, Do
  <2>3. Fits(s, Gen(f))
    BY <2>1, <2>2 DEF Fits
  <2>. QED BY <1>4, <2>2, <2>3 DEF Step, Goes
<1>. QED BY <1>2, <1>3, <1>4

\* Entries that emit one instruction outside of an expression.
LEMMA StepEmit ==
  ASSUME NEW s, NEW a \in Place, a.n = 0, a.args = <<>>, NEW op \in Emitted, op # "PUSH_ADDR",
         NEW d \in Nat, d \in DOMAIN s, op = "FN_START" => d \in Routine,
         op = "FN_START" \/ a.body
  PROVE  Step(s, Emit(op, d), a, Spot(a.n, <<>>, TRUE))
<1>1. "emit1" \in Tasks /\ op \in TaskOp("emit1") /\ NULL \in Nat
  BY TaskOps DEF NULL
<1>2. /\ Emit(op, d) \in Item /\ Emit(op, d).do = "emit1" /\ Emit(op, d).op = op
      /\ Emit(op, d).d = d /\ Emit(op, d).r = NULL
  BY <1>1, DoItem DEF Emit, Do
<1>3. Fits(s, Emit(op, d))
  BY <1>1, <1>2 DEF Fits
<1>. QED BY <1>2, <1>3 DEF Step, Goes

\* Entries that use what has been returned.
LEMMA ThenItem ==
  ASSUME NEW f \in Tasks, NEW op \in TaskOp(f), NEW d \in Nat, NEW r \in Nat
  PROVE  /\ Then(f, op, d, r) \in Item
         /\ Then(f, op, d, r).do = f /\ Then(f, op, d, r).op = op
         /\ Then(f, op, d, r).d = d /\ Then(f, op, d, r).r = r
BY DoItem DEF Then, Do

-----------------------------------------------------------------------------
(* Every step keeps the invariant                                          *)

LEMMA Entering ==
  ASSUME WorkInv, work # <<>>
  PROVE  \E a \in Place, b \in Place :
           /\ Standing(a, vals, code) /\ Step(syms, Now, a, b)
           /\ Chain(syms, Tail(work), b, End)
<1>1. PICK a \in Place : Standing(a, vals, code) /\ Chain(syms, work, a, End)
  BY DEF WorkInv
<1>2. PICK b \in Place : Step(syms, Head(work), a, b) /\ Chain(syms, Tail(work), b, End)
  BY <1>1, ChainHead
<1>. QED BY <1>1, <1>2 DEF Now

LEMMA Advance ==
  ASSUME WorkInv, pc = "genir", pc' = pc, budget' \in 0..Budget,
         NEW items, Walk(items), NEW a \in Place, NEW b,
         Extends(syms', syms), Lines(syms', code'), Values(syms', vals'),
         Standing(a, vals', code'), Chain(syms', items, a, b),
         Chain(syms, Tail(work), b, End)
  PROVE  WorkInv'
<1>1. Table(syms')
  BY DEF Extends
<1>2. Chain(syms', Tail(work), b, End)
  BY SymsExtend
<1>3. Chain(syms', items \o Tail(work), a, End)
  BY <1>2, ChainJoin
<1>4. Chain(syms', work', a, End)
  BY <1>3 DEF Walk
<1>. QED BY <1>1, <1>4 DEF WorkInv

LEMMA BudgetType ==
  ASSUME budget \in 0..Budget, Spend \/ Free
  PROVE  budget' \in 0..Budget
BY ConstAssumption DEF Spend, Free

\* A step that only walks, and one that allocates symbols too.
LEMMA AdvanceWalk ==
  ASSUME WorkInv, pc = "genir", UNCHANGED <<vals, code, pc>>, Spend \/ Free,
         NEW items, Walk(items), NEW a \in Place, NEW b,
         Extends(syms', syms), Standing(a, vals, code), Chain(syms', items, a, b),
         Chain(syms, Tail(work), b, End)
  PROVE  WorkInv'
<1>1. Lines(syms', code) /\ Values(syms', vals)
  BY SymsExtend DEF WorkInv
<1>2. budget' \in 0..Budget
  BY BudgetType DEF WorkInv
<1>. QED BY <1>1, <1>2, Advance

LEMMA SymbolNew ==
  ASSUME Table(syms), Here \in Routine,
         NEW cate \in Value_cates \cup {"LABEL", "STRING"},
         NEW type \in {"VOID", "INT", "UINT", "CHAR", "LITERAL", "STRING"},
         NEW initval \in {"0", "written"}
  PROVE  /\ Extends(New(cate, type, initval), syms)
         /\ NewSid \in DOMAIN New(cate, type, initval) /\ NewSid \in Nat /\ NewSid # NULL
         /\ New(cate, type, initval)[NewSid].cate = cate
         /\ New(cate, type, initval)[NewSid].type = type
<1>1. Symbol(cate, type, Here, initval) \in Sym
  BY DEF Symbol, Sym
<1>2. /\ Symbol(cate, type, Here, initval).cate = cate
      /\ Symbol(cate, type, Here, initval).type = type
  BY DEF Symbol
<1>3. NewSid \in Nat /\ NewSid # NULL
  BY DEF Table, NewSid, NULL
<1>. QED BY <1>1, <1>2, <1>3, SymsAppend DEF New, NewSid

\* A temporary, whose type the value it stands for has.
LEMMA TempNew ==
  ASSUME Table(syms), Here \in Routine, NEW type \in {"INT", "UINT", "CHAR", "LITERAL"}
  PROVE  /\ Extends(symalloc("TEMP", type), syms)
         /\ Valued(symalloc("TEMP", type), NewSid)
         /\ NewSid \in DOMAIN symalloc("TEMP", type) /\ NewSid \in Nat /\ NewSid # NULL
<1>1. /\ "TEMP" \in Value_cates /\ "TEMP" \in Value_cates \cup {"LABEL", "STRING"}
      /\ type \in {"VOID", "INT", "UINT", "CHAR", "LITERAL", "STRING"}
      /\ "0" \in {"0", "written"} /\ type \notin {"VOID", "STRING"}
  BY DEF Value_cates
<1>. QED BY <1>1, SymbolNew DEF symalloc, Valued

LEMMA LabelsNew ==
  ASSUME Table(syms), Here \in Routine
  PROVE  /\ Extends(TwoLabels, syms)
         /\ NewSid \in DOMAIN TwoLabels /\ NewSid + 1 \in DOMAIN TwoLabels
         /\ NewSid \in Nat /\ NewSid + 1 \in Nat
<1>. DEFINE s == symalloc("LABEL", "VOID")
            x == Symbol("LABEL", "VOID", Here, "0")
<1>1. /\ Extends(s, syms) /\ NewSid \in DOMAIN s /\ NewSid \in Nat
  BY SymbolNew DEF symalloc
<1>2. x \in Sym
  BY DEF Symbol, Sym
<1>3. Len(s) = NewSid
  BY SymsAppend, <1>2 DEF symalloc, New, NewSid
<1>. HIDE DEF s, x
<1>4. Table(s)
  BY <1>1 DEF Extends
<1>5. s \o <<x>> = Append(s, x)
  BY <1>2, <1>4 DEF Table
<1>6. Extends(Append(s, x), s) /\ NewSid + 1 \in DOMAIN Append(s, x)
  BY <1>2, <1>3, <1>4, SymsAppend
<1>7. Extends(Append(s, x), syms) /\ NewSid \in DOMAIN Append(s, x)
  BY <1>1, <1>6, ExtendsTwice, SymsExtend
<1>8. TwoLabels = Append(s, x)
  BY <1>5 DEF TwoLabels, s, x
<1>. QED BY <1>1, <1>6, <1>7, <1>8

\* What a statement and an expression find.
LEMMA AtStatement ==
  ASSUME WorkInv, At("gen_stmt")
  PROVE  /\ pc = "genir" /\ Table(syms) /\ Here \in Routine
         /\ \E a \in Place : /\ Standing(a, vals, code) /\ a.body /\ a.n = 0 /\ a.args = <<>>
                             /\ Chain(syms, Tail(work), a, End)
<1>1. PICK a \in Place, b \in Place : /\ Standing(a, vals, code) /\ Step(syms, Now, a, b)
                                      /\ Chain(syms, Tail(work), b, End)
  BY Entering DEF At
<1>2. Now.do = "gen_stmt"
  BY DEF At, Now
<1>3. a.body /\ a.n = 0 /\ a.args = <<>> /\ b = a
  BY <1>1, <1>2 DEF Step, Goes
<1>4. Here \in Routine
  BY <1>1, <1>3, HereRoutine DEF WorkInv, Standing
<1>. QED BY <1>1, <1>3, <1>4 DEF At, WorkInv

LEMMA AtExpression ==
  ASSUME WorkInv, NEW f \in {"gen_expr", "gen_term", "gen_factor"}, At(f)
  PROVE  /\ pc = "genir" /\ Table(syms) /\ Here \in Routine /\ Now.inarg \in BOOLEAN
         /\ \E a \in Place : /\ Standing(a, vals, code) /\ a.body
                             /\ Chain(syms, Tail(work), Spot(a.n + 1, a.args, TRUE), End)
<1>1. PICK a \in Place, b \in Place : /\ Standing(a, vals, code) /\ Step(syms, Now, a, b)
                                      /\ Chain(syms, Tail(work), b, End)
  BY Entering DEF At
<1>2. Now.do = f
  BY DEF At, Now
<1>3. a.body /\ b = Spot(a.n + 1, a.args, TRUE)
  BY <1>1, <1>2 DEF Step, Goes
<1>4. Here \in Routine
  BY <1>1, <1>3, HereRoutine DEF WorkInv, Standing
<1>5. Now.inarg \in BOOLEAN
  BY <1>1 DEF Step, Fits, Item
<1>. QED BY <1>1, <1>3, <1>4, <1>5 DEF At, WorkInv

\* Entries that use one or two values and end a statement.
LEMMA StepUse ==
  ASSUME NEW s, NEW a \in Place, a.body, a.args = <<>>, a.n = 1,
         NEW f \in {"store_var", "write"}, NEW op \in TaskOp(f), NEW d \in Nat,
         d \in DOMAIN s \cup {NULL}
  PROVE  Step(s, Then(f, op, d, NULL), a, Spot(a.n - 1, <<>>, TRUE))
<1>0. NULL \in Nat
  BY DEF NULL
<1>1. f \in Tasks
  BY TaskOps
<1>2. /\ Then(f, op, d, NULL) \in Item
      /\ Then(f, op, d, NULL).do = f /\ Then(f, op, d, NULL).op = op
      /\ Then(f, op, d, NULL).d = d /\ Then(f, op, d, NULL).r = NULL
  BY <1>0, <1>1, ThenItem
<1>3. op # "FN_START"
  BY TaskOps
<1>4. Fits(s, Then(f, op, d, NULL))
  BY <1>2, <1>3 DEF Fits
<1>. QED BY <1>2, <1>4 DEF Step, Goes

LEMMA StepUseTwo ==
  ASSUME NEW s, NEW a \in Place, a.body, a.args = <<>>, a.n = 2,
         NEW f \in {"store_array", "branch", "for"}, NEW op \in TaskOp(f), NEW d \in Nat,
         d \in DOMAIN s
  PROVE  Step(s, Then(f, op, d, NULL), a, Spot(a.n - 2, <<>>, TRUE))
<1>0. NULL \in Nat
  BY DEF NULL
<1>1. f \in Tasks
  BY TaskOps
<1>2. /\ Then(f, op, d, NULL) \in Item
      /\ Then(f, op, d, NULL).do = f /\ Then(f, op, d, NULL).op = op
      /\ Then(f, op, d, NULL).d = d /\ Then(f, op, d, NULL).r = NULL
  BY <1>0, <1>1, ThenItem
<1>3. op # "FN_START"
  BY TaskOps DEF Branches
<1>4. Fits(s, Then(f, op, d, NULL))
  BY <1>2, <1>3 DEF Fits
<1>. QED BY <1>2, <1>4 DEF Step, Goes

\* An expression, or two, and what uses the values.
LEMMA ChainUse ==
  ASSUME NEW s, NEW a \in Place, a.body, a.n = 0, a.args = <<>>,
         NEW f \in {"store_var", "write"}, NEW op \in TaskOp(f), NEW d \in Nat,
         d \in DOMAIN s \cup {NULL}
  PROVE  Chain(s, <<Gen("gen_expr"), Then(f, op, d, NULL)>>, a, a)
<1>. DEFINE b == Spot(a.n + 1, a.args, TRUE)
<1>0. a.n \in Nat /\ a.args \in Seq(Tag) /\ a = Spot(a.n, a.args, a.body)
  BY SpotPlace
<1>1. b \in Place /\ b.n = a.n + 1 /\ b.args = <<>> /\ b.body /\ b.n = 1
      /\ Spot(b.n - 1, <<>>, TRUE) = a
  BY <1>0 DEF Spot, Place
<1>2. Step(s, Gen("gen_expr"), a, b)
  <2>1. Gen("gen_expr") = Expr("gen_expr", FALSE)
    BY DEF Gen, Expr
  <2>. QED BY <2>1, StepPlain
<1>. HIDE DEF b
<1>3. Step(s, Then(f, op, d, NULL), b, a)
  BY <1>1, StepUse
<1>. QED BY <1>1, <1>2, <1>3, ChainTwo

LEMMA ChainUseTwo ==
  ASSUME NEW s, NEW a \in Place, a.body, a.n = 0, a.args = <<>>,
         NEW f \in {"store_array", "branch", "for"}, NEW op \in TaskOp(f), NEW d \in Nat,
         d \in DOMAIN s
  PROVE  Chain(s, <<Gen("gen_expr"), Gen("gen_expr"), Then(f, op, d, NULL)>>, a, a)
<1>. DEFINE b == Spot(a.n + 1, a.args, TRUE)
            c == Spot(b.n + 1, b.args, TRUE)
<1>0. a.n \in Nat /\ a.args \in Seq(Tag) /\ a = Spot(a.n, a.args, a.body)
  BY SpotPlace
<1>1. b \in Place /\ b.n = a.n + 1 /\ b.args = <<>> /\ b.body
  BY <1>0 DEF Spot, Place
<1>2. \A e \in Place : e.body => Step(s, Gen("gen_expr"), e, Spot(e.n + 1, e.args, TRUE))
  <2>1. Gen("gen_expr") = Expr("gen_expr", FALSE)
    BY DEF Gen, Expr
  <2>. QED BY <2>1, StepPlain
<1>3. Step(s, Gen("gen_expr"), a, b)
  BY <1>2
<1>. HIDE DEF b
<1>4. c \in Place /\ c.n = a.n + 2 /\ c.args = <<>> /\ c.body /\ c.n = 2
      /\ Spot(c.n - 2, <<>>, TRUE) = a
  BY <1>0, <1>1 DEF Spot, Place
<1>5. Step(s, Gen("gen_expr"), b, c)
  BY <1>1, <1>2
<1>. HIDE DEF c
<1>6. Step(s, Then(f, op, d, NULL), c, a)
  BY <1>4, StepUseTwo
<1>. QED BY <1>1, <1>3, <1>4, <1>5, <1>6, ChainThree

-----------------------------------------------------------------------------
(* The statements                                                          *)

LEMMA KeepsNull ==
  ASSUME WorkInv, null_stmt
  PROVE  WorkInv'
<1>1. PICK a \in Place : Standing(a, vals, code) /\ Chain(syms, Tail(work), a, End)
  BY AtStatement DEF null_stmt
<1>2. Chain(syms, <<>>, a, a) /\ Extends(syms, syms)
  BY ChainNone, SymsSame DEF WorkInv
<1>. QED BY <1>1, <1>2, AtStatement, AdvanceWalk DEF null_stmt, Free

LEMMA KeepsAssign ==
  ASSUME WorkInv, gen_assign_stmt
  PROVE  WorkInv'
<1>0. At("gen_stmt") /\ Spend /\ UNCHANGED <<vals, code, syms, pc>>
  BY DEF gen_assign_stmt
<1>1. PICK a \in Place : /\ Standing(a, vals, code) /\ a.body /\ a.n = 0 /\ a.args = <<>>
                         /\ Chain(syms, Tail(work), a, End)
  BY <1>0, AtStatement
<1>2. pc = "genir" /\ Extends(syms', syms) /\ Table(syms)
  BY <1>0, AtStatement, SymsSame
<1>3. PICK items : Walk(items) /\ Chain(syms, items, a, a)
  <2>1. CASE \E d \in Sids(Variables \cup {"FUNCTION"}) :
                Walk(<<Gen("gen_expr"), Then("store_var", "STORE_VAR", d, NULL)>>)
    <3>1. PICK d \in Sids(Variables \cup {"FUNCTION"}) :
                Walk(<<Gen("gen_expr"), Then("store_var", "STORE_VAR", d, NULL)>>)
      BY <2>1
    <3>2. d \in Nat /\ d \in DOMAIN syms
      BY <1>2, SidsDeclared
    <3>. QED BY <1>1, <3>1, <3>2, ChainUse, TaskOps
  <2>2. CASE \E d \in Sids({"ARRAY"}) :
                Walk(<<Gen("gen_expr"), Gen("gen_expr"),
                       Then("store_array", "STORE_ARRAY", d, NULL)>>)
    <3>1. PICK d \in Sids({"ARRAY"}) :
                Walk(<<Gen("gen_expr"), Gen("gen_expr"),
                       Then("store_array", "STORE_ARRAY", d, NULL)>>)
      BY <2>2
    <3>2. d \in Nat /\ d \in DOMAIN syms
      BY <1>2, SidsDeclared
    <3>. QED BY <1>1, <3>1, <3>2, ChainUseTwo, TaskOps
  <2>. QED BY <2>1, <2>2 DEF gen_assign_stmt
<1>. QED BY <1>0, <1>1, <1>2, <1>3, AdvanceWalk

\* A condition, and an else-part.
LEMMA ChainCond ==
  ASSUME NEW s, NEW a \in Place, a.body, a.n = 0, a.args = <<>>,
         NEW label \in Nat, label \in DOMAIN s,
         NEW cond \in gen_cond(label)
  PROVE  Chain(s, cond, a, a)
<1>1. PICK op \in Relations :
        cond = <<Gen("gen_expr"), Gen("gen_expr"), Then("branch", op, label, NULL)>>
  BY DEF gen_cond
<1>2. op \in TaskOp("branch")
  BY ConstAssumption, TaskOps
<1>. QED BY <1>1, <1>2, ChainUseTwo

LEMMA ChainStatement ==
  ASSUME NEW s, NEW a \in Place, a.body, a.n = 0, a.args = <<>>
  PROVE  Chain(s, <<Gen("gen_stmt")>>, a, a) /\ Step(s, Gen("gen_stmt"), a, a)
BY StepPlain, ChainOne

LEMMA StepEmitSame ==
  ASSUME NEW s, NEW a \in Place, a.body, a.n = 0, a.args = <<>>, NEW d \in Nat, d \in DOMAIN s,
         NEW op \in Emitted \ {"FN_START", "PUSH_ADDR"}
  PROVE  Step(s, Emit(op, d), a, a)
<1>1. a = Spot(a.n, <<>>, TRUE)
  BY DEF Place, Spot
<1>. QED BY <1>1, StepEmit

LEMMA KeepsIf ==
  ASSUME WorkInv, gen_if_stmt
  PROVE  WorkInv'
<1>. DEFINE ifthen == NewSid
            ifdone == NewSid + 1
            rest == <<Emit("JUMP", ifdone), Emit("LABEL", ifthen),
                      Gen("gen_stmt"), Emit("LABEL", ifdone)>>
<1>0. /\ At("gen_stmt") /\ Spend /\ UNCHANGED <<vals, code, pc>> /\ syms' = TwoLabels
      /\ \E cond \in gen_cond(ifthen), else \in {<<>>, <<Gen("gen_stmt")>>} :
           Walk(cond \o else \o rest)
  BY DEF gen_if_stmt
<1>1. PICK a \in Place : /\ Standing(a, vals, code) /\ a.body /\ a.n = 0 /\ a.args = <<>>
                         /\ Chain(syms, Tail(work), a, End)
  BY <1>0, AtStatement
<1>2. /\ pc = "genir" /\ Extends(syms',
                                 syms) /\ ifthen \in DOMAIN syms' /\ ifdone \in DOMAIN syms'
      /\ ifthen \in Nat /\ ifdone \in Nat
  BY <1>0, AtStatement, LabelsNew
<1>3. PICK cond \in gen_cond(ifthen), else \in {<<>>, <<Gen("gen_stmt")>>} :
           Walk(cond \o else \o rest)
  BY <1>0
<1>4. Chain(syms', cond, a, a)
  BY <1>1, <1>2, ChainCond
<1>5. Chain(syms', else, a, a)
  BY <1>1, ChainStatement, ChainNone
<1>6. Chain(syms', rest, a, a)
  <2>1. /\ Step(syms', Emit("JUMP", ifdone), a, a) /\ Step(syms', Emit("LABEL", ifthen), a, a)
        /\ Step(syms', Gen("gen_stmt"), a, a) /\ Step(syms', Emit("LABEL", ifdone), a, a)
    BY <1>1, <1>2, StepEmitSame, ChainStatement DEF Emitted
  <2>. HIDE DEF ifthen, ifdone
  <2>2. /\ Chain(syms', <<Emit("JUMP", ifdone), Emit("LABEL", ifthen)>>, a, a)
        /\ Chain(syms', <<Gen("gen_stmt"), Emit("LABEL", ifdone)>>, a, a)
    BY <2>1, ChainTwo
  <2>3. rest = <<Emit("JUMP", ifdone), Emit("LABEL", ifthen)>> \o
                 <<Gen("gen_stmt"), Emit("LABEL", ifdone)>>
    OBVIOUS
  <2>. QED BY <2>2, <2>3, ChainJoin
<1>. HIDE DEF rest
<1>7. Chain(syms', (cond \o else) \o rest, a, a)
  BY <1>4, <1>5, <1>6, ChainJoin
<1>. QED BY <1>0, <1>1, <1>2, <1>3, <1>7, AdvanceWalk

LEMMA KeepsRepeat ==
  ASSUME WorkInv, gen_repe_stmt
  PROVE  WorkInv'
<1>. DEFINE loopstart == NewSid
            loopdone == NewSid + 1
            first == <<Emit("LABEL", loopstart), Gen("gen_stmt")>>
            last == <<Emit("JUMP", loopstart), Emit("LABEL", loopdone)>>
<1>0. /\ At("gen_stmt") /\ Spend /\ UNCHANGED <<vals, code, pc>> /\ syms' = TwoLabels
      /\ \E cond \in gen_cond(loopdone) : Walk(first \o cond \o last)
  BY DEF gen_repe_stmt
<1>1. PICK a \in Place : /\ Standing(a, vals, code) /\ a.body /\ a.n = 0 /\ a.args = <<>>
                         /\ Chain(syms, Tail(work), a, End)
  BY <1>0, AtStatement
<1>2. /\ pc = "genir" /\ Extends(syms', syms)
      /\ loopstart \in DOMAIN syms' /\ loopdone \in DOMAIN syms'
      /\ loopstart \in Nat /\ loopdone \in Nat
  BY <1>0, AtStatement, LabelsNew
<1>3. PICK cond \in gen_cond(loopdone) : Walk(first \o cond \o last)
  BY <1>0
<1>4. Chain(syms', cond, a, a)
  BY <1>1, <1>2, ChainCond
<1>5. Chain(syms', first, a, a) /\ Chain(syms', last, a, a)
  <2>1. /\ Step(syms', Emit("LABEL", loopstart), a, a) /\ Step(syms', Gen("gen_stmt"), a, a)
        /\ Step(syms', Emit("JUMP", loopstart), a, a) /\ Step(syms', Emit("LABEL", loopdone),
                                                              a, a)
    BY <1>1, <1>2, StepEmitSame, ChainStatement DEF Emitted
  <2>. QED BY <2>1, ChainTwo
<1>. HIDE DEF first, last
<1>6. Chain(syms', (first \o cond) \o last, a, a)
  BY <1>4, <1>5, ChainJoin
<1>. QED BY <1>0, <1>1, <1>2, <1>3, <1>6, AdvanceWalk

LEMMA KeepsFor ==
  ASSUME WorkInv, gen_for_stmt
  PROVE  WorkInv'
<1>0. At("gen_stmt") /\ Spend /\ UNCHANGED <<vals, code, syms, pc>>
  BY DEF gen_for_stmt
<1>1. PICK a \in Place : /\ Standing(a, vals, code) /\ a.body /\ a.n = 0 /\ a.args = <<>>
                         /\ Chain(syms, Tail(work), a, End)
  BY <1>0, AtStatement
<1>2. pc = "genir" /\ Extends(syms', syms) /\ Table(syms)
  BY <1>0, AtStatement, SymsSame
<1>3. PICK d \in Sids(Variables), step \in {"INC", "DEC"} :
        Walk(<<Gen("gen_expr"), Gen("gen_expr"), Then("for", step, d, NULL)>>)
  BY DEF gen_for_stmt
<1>4. d \in Nat /\ d \in DOMAIN syms /\ step \in TaskOp("for")
  BY <1>2, SidsDeclared, TaskOps
<1>5. Chain(syms, <<Gen("gen_expr"), Gen("gen_expr"), Then("for", step, d, NULL)>>, a, a)
  BY <1>1, <1>4, ChainUseTwo
<1>. QED BY <1>0, <1>1, <1>2, <1>3, <1>5, AdvanceWalk

LEMMA KeepsRead ==
  ASSUME WorkInv, gen_read_stmt
  PROVE  WorkInv'
<1>0. At("gen_stmt") /\ Spend /\ UNCHANGED <<vals, code, syms, pc>>
  BY DEF gen_read_stmt
<1>1. PICK a \in Place : /\ Standing(a, vals, code) /\ a.body /\ a.n = 0 /\ a.args = <<>>
                         /\ Chain(syms, Tail(work), a, End)
  BY <1>0, AtStatement
<1>2. pc = "genir" /\ Extends(syms', syms) /\ Table(syms)
  BY <1>0, AtStatement, SymsSame
<1>3. PICK d \in Sids(Variables) : Walk(<<Emit(READ_OP[Declared[d].type], d)>>)
  BY DEF gen_read_stmt
<1>4. d \in Nat /\ d \in DOMAIN syms /\ Declared[d].type \in {"INT", "UINT", "CHAR"}
  BY <1>2, SidsDeclared DEF Variables, Parameter
<1>5. READ_OP[Declared[d].type] \in {"READ_INT", "READ_UINT", "READ_CHAR"}
  BY <1>4 DEF READ_OP
<1>. DEFINE op == READ_OP[Declared[d].type]
<1>. HIDE DEF op
<1>6. op \in Emitted \ {"FN_START", "PUSH_ADDR"}
  BY <1>5 DEF Emitted, op
<1>7. Chain(syms, <<Emit(op, d)>>, a, a)
  BY <1>1, <1>4, <1>6, StepEmitSame, ChainOne
<1>. QED BY <1>0, <1>1, <1>2, <1>3, <1>7, AdvanceWalk DEF op

LEMMA ConsTwo ==
  ASSUME NEW x, NEW y, NEW z
  PROVE  <<x>> \o <<y, z>> = <<x, y, z>>
<1>. DEFINE u == <<x>> \o <<y, z>>
            v == <<x, y, z>>
<1>1. u \in Seq({x, y, z}) /\ v \in Seq({x, y, z}) /\ Len(u) = 3 /\ Len(v) = 3
  OBVIOUS
<1>2. u[1] = x /\ u[2] = y /\ u[3] = z /\ v[1] = x /\ v[2] = y /\ v[3] = z
  OBVIOUS
<1>3. \A i \in 1..3 : i = 1 \/ i = 2 \/ i = 3
  OBVIOUS
<1>. HIDE DEF u, v
<1>4. \A i \in 1..3 : u[i] = v[i]
  BY <1>2, <1>3
<1>5. u = v
  BY <1>1, <1>4, SeqEqual
<1>. QED BY <1>5 DEF u, v

LEMMA KeepsWrite ==
  ASSUME WorkInv, gen_write_stmt
  PROVE  WorkInv'
<1>0. At("gen_stmt") /\ Spend /\ UNCHANGED <<vals, code, pc>>
  BY DEF gen_write_stmt
<1>1. PICK a \in Place : /\ Standing(a, vals, code) /\ a.body /\ a.n = 0 /\ a.args = <<>>
                         /\ Chain(syms, Tail(work), a, End)
  BY <1>0, AtStatement
<1>2. pc = "genir" /\ Table(syms) /\ Here \in Routine
  BY <1>0, AtStatement
<1>. DEFINE string == Emit("WRITE_STRING", NewSid)
            id == <<Gen("gen_expr"), Then("write", "ID_WRITE", NULL, NULL)>>
            strid == <<Gen("gen_expr"), Then("write", "STRID_WRITE", NULL, NULL)>>
<1>3. Chain(syms', id, a, a) /\ Chain(syms', strid, a, a)
  <2>1. /\ NULL \in Nat /\ NULL \in DOMAIN syms' \cup {NULL} /\ "write" \in {"store_var", "write"}
        /\ "ID_WRITE" \in TaskOp("write") /\ "STRID_WRITE" \in TaskOp("write")
    BY TaskOps DEF NULL
  <2>. QED BY <1>1, <2>1, ChainUse
<1>4. CASE syms' = symalloc("STRING", "STRING")
  <2>1. /\ Extends(syms', syms) /\ NewSid \in DOMAIN syms' /\ NewSid \in Nat
    BY <1>2, <1>4, SymbolNew DEF symalloc
  <2>2. Chain(syms', <<string>>, a, a)
    <3>1. Step(syms', string, a, a)
      BY <1>1, <2>1, StepEmitSame DEF Emitted
    <3>. HIDE DEF string
    <3>. QED BY <3>1, ChainOne
  <2>3. Chain(syms', <<string>> \o strid, a, a)
    <3>. HIDE DEF string, strid
    <3>. QED BY <1>3, <2>2, ChainJoin
  <2>4. <<string>> \o strid =
          <<string, Gen("gen_expr"), Then("write", "STRID_WRITE", NULL, NULL)>>
    <3>. HIDE DEF string
    <3>. QED BY ConsTwo
  <2>5. \/ Walk(id) \/ Walk(<<string>>) \/ Walk(<<string>> \o strid)
    BY <2>4 DEF gen_write_stmt
  <2>. HIDE DEF string, strid, id
  <2>. QED BY <1>0, <1>1, <1>2, <1>3, <2>1, <2>2, <2>3, <2>5, AdvanceWalk
<1>5. CASE Walk(id) /\ UNCHANGED syms
  <2>1. Extends(syms', syms)
    BY <1>2, <1>5, SymsSame
  <2>. QED BY <1>0, <1>1, <1>2, <1>3, <1>5, <2>1, AdvanceWalk
<1>. QED BY <1>4, <1>5 DEF gen_write_stmt

-----------------------------------------------------------------------------
(* Emitting                                                                *)

LEMMA InstLine ==
  ASSUME NEW s, NEW op \in CodeOp, NEW d \in Nat, NEW r \in Nat, NEW t \in Nat,
         d \in DOMAIN s \cup {NULL}, r \in DOMAIN s \cup {NULL}, t \in DOMAIN s \cup {NULL},
         op = "FN_START" => d \in Routine
  PROVE  /\ Inst(op, d, r, t) \in Line /\ OperandsIn(s, Inst(op, d, r, t))
         /\ Inst(op, d, r, t).op = op
BY DEF Inst, Line, OperandsIn

LEMMA LineAppend ==
  ASSUME NEW s, NEW c, NEW x \in Line, NEW t, Lines(s, c), OperandsIn(s, x),
         Leaves(c, t), Lawful(x, t)
  PROVE  /\ Lines(s, Append(c, x)) /\ Leaves(Append(c, x), After(t, x.op))
         /\ Begun(c) \/ x.op = "FN_START" => Begun(Append(c, x))
<1>1. /\ c \in Seq(Line) /\ Len(c) \in Nat
      /\ Append(c, x) \in Seq(Line) /\ Len(Append(c, x)) = Len(c) + 1
      /\ \A i \in 1..Len(c) : Append(c, x)[i] = c[i]
      /\ Append(c, x)[Len(c) + 1] = x
  BY AppendProperties DEF Lines
<1>2. t \in Seq(Tag)
  BY <1>1, LeavesType
<1>3. After(t, x.op) \in Seq(Tag)
  <2>1. CASE x.op \in Tag
    <3>1. Append(t, x.op) \in Seq(Tag)
      BY <1>2, <2>1, AppendProperties
    <3>2. After(t, x.op) = Append(t, x.op)
      BY <2>1 DEF After, Tag
    <3>. QED BY <3>1, <3>2
  <2>2. CASE x.op = "POP" /\ t # <<>>
    <3>1. Front(t) \in Seq(Tag)
      BY <1>2, <2>2, SubSeqProperties DEF Front
    <3>. QED BY <2>2, <3>1 DEF After, Tag
  <2>. QED BY <1>2, <2>1, <2>2 DEF After
<1>4. Leaves(Append(c, x), After(t, x.op))
  BY <1>1, <1>3, LeavesAppend
<1>5. ASSUME NEW i \in 1..Len(c) + 1 PROVE OperandsIn(s, Append(c, x)[i])
  <2>1. i \in 1..Len(c) \/ i = Len(c) + 1
    BY <1>1
  <2>. QED BY <1>1, <2>1 DEF Lines
<1>6. Lines(s, Append(c, x))
  BY <1>1, <1>5 DEF Lines
<1>7. Begun(c) => Begun(Append(c, x))
  BY <1>1 DEF Begun
<1>8. x.op = "FN_START" => Begun(Append(c, x))
  <2>1. Len(c) + 1 \in 1..Len(Append(c, x))
    BY <1>1
  <2>. QED BY <1>1, <2>1 DEF Begun
<1>. QED BY <1>4, <1>6, <1>7, <1>8

\* The i-th last value.
LEMMA ValueTop ==
  ASSUME NEW s, Values(s, vals), NEW i \in 1..Len(vals)
  PROVE  /\ Valued(s, Value(i)) /\ Value(i) \in Nat /\ Value(i) \in DOMAIN s
         /\ s[Value(i)].type \notin {"VOID", "STRING"}
<1>1. Len(vals) + 1 - i \in 1..Len(vals)
  BY DEF Values
<1>2. Valued(s, Value(i)) /\ Value(i) \in Nat
  BY <1>1, ElementOfSeq DEF Values, Value
<1>. QED BY <1>2 DEF Valued

LEMMA Returning ==
  ASSUME NEW s, Values(s, vals), NEW n \in 0..Len(vals), NEW ds \in Seq(Nat),
         \A i \in 1..Len(ds) : Valued(s, ds[i]), Returns(n, ds)
  PROVE  Values(s, vals') /\ Len(vals') = Len(vals) - n + Len(ds)
<1>. DEFINE kept == SubSeq(vals, 1, Len(vals) - n)
<1>1. vals \in Seq(Nat) /\ Len(vals) \in Nat /\ Len(ds) \in Nat
  BY DEF Values
<1>2. /\ kept \in Seq(Nat) /\ Len(kept) = Len(vals) - n
      /\ \A i \in 1..Len(kept) : kept[i] = vals[i]
  BY <1>1, SubSeqProperties
<1>3. vals' = kept \o ds
  BY DEF Returns
<1>. HIDE DEF kept
<1>4. /\ kept \o ds \in Seq(Nat) /\ Len(kept \o ds) = Len(kept) + Len(ds)
      /\ \A i \in 1..Len(kept) + Len(ds) :
           (kept \o ds)[i] = IF i <= Len(kept) THEN kept[i] ELSE ds[i - Len(kept)]
  BY <1>2, ConcatProperties
<1>5. ASSUME NEW i \in 1..Len(kept) PROVE Valued(s, kept[i])
  <2>1. i \in 1..Len(vals)
    BY <1>1, <1>2
  <2>. QED BY <1>2, <2>1 DEF Values
<1>6. ASSUME NEW i \in 1..Len(kept) + Len(ds) PROVE Valued(s, (kept \o ds)[i])
  <2>1. CASE i <= Len(kept)
    <3>1. i \in 1..Len(kept)
      BY <2>1, <1>2
    <3>. QED BY <1>4, <1>5, <2>1, <3>1
  <2>2. CASE ~(i <= Len(kept))
    <3>1. i - Len(kept) \in 1..Len(ds)
      BY <1>1, <1>2, <1>4, <2>2
    <3>. QED BY <1>4, <2>2, <3>1
  <2>. QED BY <2>1, <2>2
<1>7. Values(s, kept \o ds)
  BY <1>4, <1>6 DEF Values
<1>. QED BY <1>2, <1>3, <1>4, <1>7

\* Returning one symbol, or none.
LEMMA ReturnsOne ==
  ASSUME NEW s, Values(s, vals), NEW n \in 0..Len(vals), NEW d, Valued(s, d), d \in Nat,
         Returns(n, <<d>>)
  PROVE  Values(s, vals') /\ Len(vals') = Len(vals) - n + 1
<1>1. <<d>> \in Seq(Nat) /\ Len(<<d>>) = 1 /\ \A i \in 1..1 : i = 1 /\ <<d>>[i] = d
  OBVIOUS
<1>. QED BY <1>1, Returning

LEMMA ReturnsNone ==
  ASSUME NEW s, Values(s, vals), NEW n \in 0..Len(vals), Returns(n, <<>>)
  PROVE  Values(s, vals') /\ Len(vals') = Len(vals) - n
<1>1. <<>> \in Seq(Nat) /\ Len(<<>>) = 0
  OBVIOUS
<1>2. \A i \in 1..Len(<<>>) : Valued(s, <<>>[i])
  OBVIOUS
<1>3. Values(s, vals') /\ Len(vals') = Len(vals) - n + Len(<<>>)
  BY <1>1, <1>2, Returning
<1>4. Len(vals) \in Nat
  BY DEF Values
<1>. QED BY <1>1, <1>3, <1>4

\* A step that ends one entry of work with one instruction.
LEMMA AdvanceEmit ==
  ASSUME WorkInv, pc = "genir", UNCHANGED <<budget, pc>>, Walk(<<>>),
         NEW a \in Place, NEW b \in Place, Standing(a, vals, code),
         Chain(syms, Tail(work), b, End), Extends(syms', syms),
         NEW x \in Line, OperandsIn(syms', x), Lawful(x, a.args), code' = Append(code, x),
         b.args = After(a.args, x.op), b.body => a.body \/ x.op = "FN_START",
         Values(syms', vals'), b.n = Len(vals')
  PROVE  WorkInv'
<1>1. Lines(syms', code)
  BY SymsExtend DEF WorkInv
<1>2. /\ Lines(syms', code') /\ Leaves(code', b.args) /\ (b.body => Begun(code'))
  BY <1>1, LineAppend DEF Standing
<1>3. Standing(b, vals', code')
  BY <1>2 DEF Standing
<1>4. Chain(syms', <<>>, b, b)
  BY ChainNone
<1>. QED BY <1>2, <1>3, <1>4, Advance DEF WorkInv

\* Where the generator is when it enters an entry that is not a function
\* with statements or expressions of its own.
LEMMA AtEntry ==
  ASSUME WorkInv, NEW f, At(f)
  PROVE  /\ pc = "genir" /\ Table(syms) /\ Values(syms, vals) /\ Lines(syms, code)
         /\ Now.do = f /\ Fits(syms, Now) /\ Now.d \in Nat /\ Now.r \in Nat
         /\ \E a \in Place, b \in Place :
              /\ Standing(a, vals, code) /\ Goes(Now, a, b) /\ Chain(syms, Tail(work), b, End)
              /\ a.n \in Nat /\ a.n = Len(vals) /\ a.args \in Seq(Tag)
              /\ a.body => Here \in Routine
<1>1. PICK a \in Place, b \in Place : /\ Standing(a, vals, code) /\ Step(syms, Now, a, b)
                                      /\ Chain(syms, Tail(work), b, End)
  BY Entering DEF At
<1>2. Fits(syms, Now) /\ Goes(Now, a, b) /\ Now.d \in Nat /\ Now.r \in Nat
  BY <1>1 DEF Step, Fits, Item
<1>3. a.body => Here \in Routine
  BY <1>1, HereRoutine DEF WorkInv, Standing
<1>4. a.n \in Nat /\ a.n = Len(vals) /\ a.args \in Seq(Tag)
  BY <1>1, SpotPlace DEF Standing
<1>5. Now.do = f /\ pc = "genir"
  BY DEF At, Now
<1>. QED BY <1>1, <1>2, <1>3, <1>4, <1>5 DEF WorkInv

LEMMA TypeOf ==
  ASSUME NEW s, Table(s), NEW e, Valued(s, e)
  PROVE  /\ s[e].type \in {"INT", "UINT", "CHAR", "LITERAL"} /\ e \in DOMAIN s
         /\ s[e].initval \in {"0", "written"}
<1>1. s[e] \in Sym
  BY ElementOfSeq DEF Table, Valued
<1>. QED BY <1>1 DEF Sym, Valued

LEMMA KeepsEmit1 ==
  ASSUME WorkInv, emit1
  PROVE  WorkInv'
<1>0. At("emit1") /\ UNCHANGED <<vals, syms, budget, pc>> /\ Walk(<<>>)
      /\ code' = Append(code, Inst(Now.op, Now.d, NULL, NULL))
  BY DEF emit1
<1>1. PICK a \in Place, b \in Place :
        /\ Standing(a, vals, code) /\ Goes(Now, a, b) /\ Chain(syms, Tail(work), b, End)
        /\ a.n = Len(vals)
  BY <1>0, AtEntry
<1>2. /\ pc = "genir" /\ Values(syms, vals) /\ Now.do = "emit1" /\ Now.op \in Emitted
      /\ Now.d \in Nat /\ Now.d \in DOMAIN syms \cup {NULL}
      /\ Now.op = "FN_START" => Now.d \in Routine
      /\ Extends(syms', syms)
  <2>1. /\ pc = "genir" /\ Values(syms, vals) /\ Now.do = "emit1" /\ Now.d \in Nat
        /\ Fits(syms, Now) /\ Table(syms)
    BY <1>0, AtEntry
  <2>. QED BY <1>0, <2>1, TaskOps, SymsSame DEF Fits
<1>. DEFINE x == Inst(Now.op, Now.d, NULL, NULL)
<1>3. x \in Line /\ OperandsIn(syms, x) /\ x.op = Now.op
  <2>1. Now.op \in CodeOp /\ NULL \in Nat
    BY <1>2 DEF Emitted, CodeOp, Outside, NULL
  <2>. QED BY <1>2, <2>1, InstLine
<1>. HIDE DEF x
<1>4. CASE Now.op = "PUSH_ADDR"
  <2>1. a.body /\ b = Spot(a.n, Append(a.args, Now.op), TRUE)
    BY <1>1, <1>2, <1>4 DEF Goes
  <2>2. b.n = a.n /\ b.args = Append(a.args, Now.op)
    BY <2>1 DEF Spot
  <2>3. Lawful(x, a.args) /\ After(a.args, x.op) = Append(a.args, Now.op)
    BY <1>3, <1>4 DEF Lawful, After, Tag, Outside, Branches
  <2>. QED BY <1>0, <1>1, <1>2, <1>3, <2>1, <2>2, <2>3, AdvanceEmit DEF x
<1>5. CASE Now.op # "PUSH_ADDR"
  <2>1. a.n = 0 /\ a.args = <<>> /\ b = Spot(a.n, <<>>, TRUE) /\ (Now.op = "FN_START" \/ a.body)
    BY <1>1, <1>2, <1>5 DEF Goes
  <2>2. b.n = a.n /\ b.args = <<>>
    BY <2>1 DEF Spot
  <2>3. Lawful(x, a.args) /\ After(a.args, x.op) = <<>>
    BY <1>2, <1>3, <1>5, <2>1 DEF Lawful, After, Tag, Emitted
  <2>. QED BY <1>0, <1>1, <1>2, <1>3, <2>1, <2>2, <2>3, AdvanceEmit DEF x
<1>. QED BY <1>4, <1>5

LEMMA KeepsStoreVar ==
  ASSUME WorkInv, store_var
  PROVE  WorkInv'
<1>. DEFINE x == Inst(Now.op, Now.d, Value(1), NULL)
<1>0. /\ At("store_var") /\ UNCHANGED <<syms, budget, pc>> /\ Walk(<<>>)
      /\ code' = Append(code, x) /\ Returns(1, <<>>)
  BY DEF store_var
<1>1. PICK a \in Place, b \in Place :
        /\ Standing(a, vals, code) /\ Goes(Now, a, b) /\ Chain(syms, Tail(work), b, End)
        /\ a.n = Len(vals) /\ a.n \in Nat
  BY <1>0, AtEntry
<1>2. /\ pc = "genir" /\ Values(syms, vals) /\ Table(syms) /\ Now.do = "store_var"
      /\ Now.d \in Nat /\ Fits(syms, Now) /\ Extends(syms', syms)
  BY <1>0, AtEntry, SymsSame
<1>3. Now.op = "STORE_VAR" /\ Now.d \in DOMAIN syms \cup {NULL}
  BY <1>2, TaskOps DEF Fits
<1>4. a.body /\ a.n = 1 /\ a.args = <<>> /\ b.n = a.n - 1 /\ b.args = <<>>
  BY <1>1, <1>2 DEF Goes, Spot
<1>5. 1 \in 1..Len(vals) /\ 1 \in 0..Len(vals)
  BY <1>1, <1>4
<1>6. x \in Line /\ OperandsIn(syms, x) /\ x.op = Now.op
  <2>1. Value(1) \in Nat /\ Value(1) \in DOMAIN syms
    BY <1>2, <1>5, ValueTop
  <2>2. Now.op \in CodeOp /\ NULL \in Nat
    BY <1>3 DEF CodeOp, Outside, NULL
  <2>. QED BY <1>2, <1>3, <2>1, <2>2, InstLine
<1>7. Values(syms, vals') /\ Len(vals') = Len(vals) - 1
  BY <1>0, <1>2, <1>5, ReturnsNone
<1>. HIDE DEF x
<1>8. Lawful(x, a.args) /\ After(a.args, x.op) = <<>>
  BY <1>3, <1>4, <1>6 DEF Lawful, After, Tag
<1>. QED BY <1>0, <1>1, <1>2, <1>4, <1>6, <1>7, <1>8, AdvanceEmit

\* Two values, whichever is read first.
LEMMA KeepsTwo ==
  ASSUME WorkInv, NEW f \in {"store_array", "branch"}, At(f),
         UNCHANGED <<syms, budget, pc>>, Walk(<<>>), Returns(2, <<>>),
         NEW i \in {1, 2}, NEW j \in {1, 2},
         code' = Append(code, Inst(Now.op, Now.d, Value(i), Value(j)))
  PROVE  WorkInv'
<1>. DEFINE x == Inst(Now.op, Now.d, Value(i), Value(j))
<1>1. PICK a \in Place, b \in Place :
        /\ Standing(a, vals, code) /\ Goes(Now, a, b) /\ Chain(syms, Tail(work), b, End)
        /\ a.n = Len(vals) /\ a.n \in Nat
  BY AtEntry
<1>2. /\ pc = "genir" /\ Values(syms, vals) /\ Table(syms) /\ Now.do = f
      /\ Now.d \in Nat /\ Fits(syms, Now) /\ Extends(syms', syms)
  BY AtEntry, SymsSame
<1>3. Now.op \in {"STORE_ARRAY"} \cup Branches /\ Now.d \in DOMAIN syms \cup {NULL}
  BY <1>2, TaskOps DEF Fits
<1>4. a.body /\ a.n = 2 /\ a.args = <<>> /\ b.n = a.n - 2 /\ b.args = <<>>
  BY <1>1, <1>2 DEF Goes, Spot
<1>5. i \in 1..Len(vals) /\ j \in 1..Len(vals) /\ 2 \in 0..Len(vals)
  BY <1>1, <1>4
<1>6. x \in Line /\ OperandsIn(syms, x) /\ x.op = Now.op
  <2>1. /\ Value(i) \in Nat /\ Value(i) \in DOMAIN syms
        /\ Value(j) \in Nat /\ Value(j) \in DOMAIN syms
    BY <1>2, <1>5, ValueTop
  <2>2. Now.op \in CodeOp /\ Now.op # "FN_START"
    BY <1>3 DEF CodeOp, Outside, Branches
  <2>. QED BY <1>2, <1>3, <2>1, <2>2, InstLine
<1>7. Values(syms, vals') /\ Len(vals') = Len(vals) - 2
  BY <1>2, <1>5, ReturnsNone
<1>. HIDE DEF x
<1>8. Lawful(x, a.args) /\ After(a.args, x.op) = <<>>
  BY <1>3, <1>4, <1>6 DEF Lawful, After, Tag, Branches
<1>. QED BY <1>1, <1>2, <1>4, <1>6, <1>7, <1>8, AdvanceEmit DEF x

LEMMA KeepsStoreArray ==
  ASSUME WorkInv, store_array
  PROVE  WorkInv'
BY KeepsTwo DEF store_array

LEMMA KeepsBranch ==
  ASSUME WorkInv, branch
  PROVE  WorkInv'
BY KeepsTwo DEF branch

\* The unlikely() ends.
LEMMA KeepsUnlikely ==
  ASSUME WorkInv, NEW where \in {"unlikely_plus", "unlikely_write"}, unlikely(where)
  PROVE  WorkInv'
BY DEF unlikely, WorkInv, Standing, Begun, Lines, Values

LEMMA KeepsWriteValue ==
  ASSUME WorkInv, write
  PROVE  WorkInv'
<1>. DEFINE type == syms[Value(1)].type
            x == Inst(WRITE_OP[type], Value(1), NULL, NULL)
<1>0. At("write")
  BY DEF write
<1>1. PICK a \in Place, b \in Place :
        /\ Standing(a, vals, code) /\ Goes(Now, a, b) /\ Chain(syms, Tail(work), b, End)
        /\ a.n = Len(vals) /\ a.n \in Nat
  BY <1>0, AtEntry
<1>2. pc = "genir" /\ Values(syms, vals) /\ Table(syms) /\ Now.do = "write"
  BY <1>0, AtEntry
<1>3. a.body /\ a.n = 1 /\ a.args = <<>> /\ b.n = a.n - 1 /\ b.args = <<>>
  BY <1>1, <1>2 DEF Goes, Spot
<1>4. 1 \in 1..Len(vals) /\ 1 \in 0..Len(vals)
  BY <1>1, <1>3
<1>5. Value(1) \in Nat /\ Value(1) \in DOMAIN syms /\ type \in {"INT", "UINT", "CHAR", "LITERAL"}
  BY <1>2, <1>4, ValueTop, TypeOf
<1>6. CASE unlikely("unlikely_write")
  BY <1>6, KeepsUnlikely
<1>7. CASE ~unlikely("unlikely_write")
  <2>1. /\ UNCHANGED <<syms, budget, pc>> /\ Walk(<<>>)
        /\ code' = Append(code, x) /\ Returns(1, <<>>)
    BY <1>7 DEF write
  <2>2. WRITE_OP[type] \in {"WRITE_INT", "WRITE_UINT", "WRITE_CHAR"}
    <3>. HIDE DEF type
    <3>. QED BY <1>5 DEF WRITE_OP
  <2>3. Extends(syms', syms) /\ Values(syms', vals') /\ Len(vals') = Len(vals) - 1
    BY <1>2, <1>4, <2>1, ReturnsNone, SymsSame
  <2>4. x \in Line /\ OperandsIn(syms', x) /\ x.op = WRITE_OP[type]
    <3>1. WRITE_OP[type] \in CodeOp /\ WRITE_OP[type] # "FN_START" /\ NULL \in Nat
      BY <2>2 DEF CodeOp, Outside, NULL
    <3>. QED BY <1>5, <2>1, <3>1, InstLine
  <2>. HIDE DEF x, type
  <2>5. Lawful(x, a.args) /\ After(a.args, x.op) = <<>>
    BY <1>3, <2>2, <2>4 DEF Lawful, After, Tag
  <2>. QED BY <1>1, <1>2, <1>3, <2>1, <2>3, <2>4, <2>5, AdvanceEmit
<1>. QED BY <1>6, <1>7

LEMMA KeepsSign ==
  ASSUME WorkInv, sign
  PROVE  WorkInv'
<1>. DEFINE type == syms[Value(1)].type
<1>0. At("sign")
  BY DEF sign
<1>1. PICK a \in Place, b \in Place :
        /\ Standing(a, vals, code) /\ Goes(Now, a, b) /\ Chain(syms, Tail(work), b, End)
        /\ a.n = Len(vals) /\ a.n \in Nat /\ (a.body => Here \in Routine)
  BY <1>0, AtEntry
<1>2. /\ pc = "genir" /\ Values(syms, vals) /\ Table(syms) /\ Now.do = "sign"
      /\ Lines(syms, code)
  BY <1>0, AtEntry
<1>3. a.body /\ a.n >= 1 /\ b = a /\ Here \in Routine
  BY <1>1, <1>2 DEF Goes
<1>4. 1 \in 1..Len(vals) /\ 1 \in 0..Len(vals)
  BY <1>1, <1>3
<1>5. /\ Value(1) \in Nat /\ Value(1) \in DOMAIN syms
      /\ type \in {"INT", "UINT", "CHAR", "LITERAL"}
      /\ syms[Value(1)].initval \in {"0", "written"}
  BY <1>2, <1>4, ValueTop, TypeOf
<1>6. CASE unlikely("unlikely_plus")
  BY <1>6, KeepsUnlikely
<1>7. CASE Now.op # "ADD"
  <2>1. /\ Returns(1, <<NewSid>>) /\ Walk(<<>>) /\ UNCHANGED <<budget, pc>>
        /\ IF type = "LITERAL"
           THEN syms' = New("NUMBER", "LITERAL", syms[Value(1)].initval) /\ UNCHANGED code
           ELSE /\ syms' = symalloc("TEMP", type)
                /\ code' = Append(code, Inst("NEG", NewSid, Value(1), NULL))
    BY <1>7 DEF sign
  <2>. HIDE DEF type
  <2>2. CASE type = "LITERAL"
    <3>1. syms' = New("NUMBER", "LITERAL", syms[Value(1)].initval) /\ UNCHANGED code
      BY <2>1, <2>2
    <3>2. "NUMBER" \in Value_cates \cup {"LABEL", "STRING"} /\ "NUMBER" \in Value_cates
      BY DEF Value_cates
    <3>3. Extends(syms', syms) /\ Valued(syms', NewSid) /\ NewSid \in Nat
      BY <1>2, <1>3, <1>5, <3>1, <3>2, SymbolNew DEF Valued
    <3>4. Values(syms', vals) /\ Lines(syms', code)
      BY <1>2, <3>3, SymsExtend
    <3>5. Values(syms', vals') /\ Len(vals') = Len(vals)
      BY <1>1, <1>4, <2>1, <3>3, <3>4, ReturnsOne
    <3>6. Standing(a, vals', code')
      BY <1>1, <3>1, <3>5 DEF Standing
    <3>7. Chain(syms', <<>>, a, a) /\ budget' \in 0..Budget
      BY <2>1, ChainNone DEF WorkInv
    <3>. QED BY <1>1, <1>2, <1>3, <2>1, <3>1, <3>3, <3>4, <3>5, <3>6, <3>7, Advance
  <2>3. CASE type # "LITERAL"
    <3>. DEFINE x == Inst("NEG", NewSid, Value(1), NULL)
    <3>1. syms' = symalloc("TEMP", type) /\ code' = Append(code, x)
      BY <2>1, <2>3
    <3>2. /\ Extends(syms', syms) /\ Valued(syms', NewSid) /\ NewSid \in Nat
          /\ NewSid \in DOMAIN syms'
      BY <1>2, <1>3, <1>5, <3>1, TempNew
    <3>3. Values(syms', vals) /\ Value(1) \in DOMAIN syms'
      BY <1>2, <1>5, <3>2, SymsExtend
    <3>4. Values(syms', vals') /\ Len(vals') = Len(vals)
      BY <1>1, <1>4, <2>1, <3>2, <3>3, ReturnsOne
    <3>5. x \in Line /\ OperandsIn(syms', x) /\ x.op = "NEG"
      <4>1. "NEG" \in CodeOp /\ "NEG" # "FN_START" /\ NULL \in Nat
        BY DEF CodeOp, NULL
      <4>. QED BY <1>5, <3>2, <3>3, <4>1, InstLine
    <3>. HIDE DEF x
    <3>6. Lawful(x, a.args) /\ After(a.args, x.op) = a.args
      BY <3>5 DEF Lawful, After, Tag, Outside, Branches
    <3>. QED BY <1>1, <1>2, <1>3, <2>1, <3>1, <3>2, <3>4, <3>5, <3>6, AdvanceEmit
  <2>. QED BY <2>2, <2>3
<1>. QED BY <1>6, <1>7 DEF sign

LEMMA KeepsBinary ==
  ASSUME WorkInv, binary
  PROVE  WorkInv'
<1>. DEFINE type == syms[Value(2)].type
            x == Inst(Now.op, NewSid, Value(2), Value(1))
<1>0. /\ At("binary") /\ UNCHANGED <<budget, pc>> /\ Walk(<<>>) /\ Returns(2, <<NewSid>>)
      /\ syms' = symalloc("TEMP", type) /\ code' = Append(code, x)
  BY DEF binary
<1>1. PICK a \in Place, b \in Place :
        /\ Standing(a, vals, code) /\ Goes(Now, a, b) /\ Chain(syms, Tail(work), b, End)
        /\ a.n = Len(vals) /\ a.n \in Nat /\ (a.body => Here \in Routine)
  BY <1>0, AtEntry
<1>2. /\ pc = "genir" /\ Values(syms, vals) /\ Table(syms) /\ Now.do = "binary"
      /\ Fits(syms, Now)
  BY <1>0, AtEntry
<1>3. a.body /\ a.n >= 2 /\ b.n = a.n - 1 /\ b.args = a.args /\ Here \in Routine
  BY <1>1, <1>2 DEF Goes, Spot
<1>4. 1 \in 1..Len(vals) /\ 2 \in 1..Len(vals) /\ 2 \in 0..Len(vals)
  BY <1>1, <1>3
<1>5. /\ Value(1) \in Nat /\ Value(1) \in DOMAIN syms
      /\ Value(2) \in Nat /\ Value(2) \in DOMAIN syms
      /\ type \in {"INT", "UINT", "CHAR", "LITERAL"}
  BY <1>2, <1>4, ValueTop, TypeOf
<1>. HIDE DEF type
<1>6. /\ Extends(syms', syms) /\ Valued(syms', NewSid) /\ NewSid \in Nat
      /\ NewSid \in DOMAIN syms'
  BY <1>0, <1>2, <1>3, <1>5, TempNew
<1>7. Values(syms', vals) /\ Value(1) \in DOMAIN syms' /\ Value(2) \in DOMAIN syms'
  BY <1>2, <1>5, <1>6, SymsExtend
<1>8. Values(syms', vals') /\ Len(vals') = Len(vals) - 1
  <2>1. Len(vals') = Len(vals) - 2 + 1 /\ Values(syms', vals')
    BY <1>0, <1>4, <1>6, <1>7, ReturnsOne
  <2>. QED BY <1>1, <2>1
<1>9. Now.op \in Calculate
  BY <1>2, TaskOps DEF Fits
<1>10. x \in Line /\ OperandsIn(syms', x) /\ x.op = Now.op
  <2>1. Now.op \in CodeOp /\ Now.op # "FN_START"
    BY <1>9 DEF CodeOp, Calculate
  <2>. QED BY <1>5, <1>6, <1>7, <2>1, InstLine
<1>. HIDE DEF x
<1>11. Lawful(x, a.args) /\ After(a.args, x.op) = a.args
  BY <1>9, <1>10 DEF Lawful, After, Tag, Calculate, Outside, Branches
<1>. QED BY <1>0, <1>1, <1>2, <1>3, <1>6, <1>8, <1>10, <1>11, AdvanceEmit

LEMMA KeepsLoadArray ==
  ASSUME WorkInv, load_array
  PROVE  WorkInv'
<1>. DEFINE type == syms[Now.r].type
            x == Inst(Now.op, NewSid, Now.r, Value(1))
<1>0. /\ At("load_array") /\ UNCHANGED <<budget, pc>> /\ Walk(<<>>) /\ Returns(1, <<NewSid>>)
      /\ syms' = symalloc("TEMP", type) /\ code' = Append(code, x)
  BY DEF load_array
<1>1. PICK a \in Place, b \in Place :
        /\ Standing(a, vals, code) /\ Goes(Now, a, b) /\ Chain(syms, Tail(work), b, End)
        /\ a.n = Len(vals) /\ a.n \in Nat /\ (a.body => Here \in Routine)
  BY <1>0, AtEntry
<1>2. /\ pc = "genir" /\ Values(syms, vals) /\ Table(syms) /\ Now.do = "load_array"
      /\ Fits(syms, Now) /\ Now.r \in Nat
  BY <1>0, AtEntry
<1>3. a.body /\ a.n >= 1 /\ b = a /\ Here \in Routine
  BY <1>1, <1>2 DEF Goes
<1>4. 1 \in 1..Len(vals) /\ 1 \in 0..Len(vals)
  BY <1>1, <1>3
<1>5. /\ Value(1) \in Nat /\ Value(1) \in DOMAIN syms /\ Now.r \in DOMAIN syms
      /\ type \in {"INT", "UINT", "CHAR", "LITERAL"}
  <2>1. Now.r \in DOMAIN syms /\ type \notin {"VOID", "STRING"}
    BY <1>2 DEF Fits
  <2>2. syms[Now.r] \in Sym
    BY <1>2, <2>1, ElementOfSeq DEF Table
  <2>3. type \in {"VOID", "INT", "UINT", "CHAR", "LITERAL", "STRING"}
    BY <2>2 DEF Sym
  <2>. QED BY <1>2, <1>4, <2>1, <2>3, ValueTop
<1>. HIDE DEF type
<1>6. /\ Extends(syms', syms) /\ Valued(syms', NewSid) /\ NewSid \in Nat
      /\ NewSid \in DOMAIN syms'
  BY <1>0, <1>2, <1>3, <1>5, TempNew
<1>7. Values(syms', vals) /\ Value(1) \in DOMAIN syms' /\ Now.r \in DOMAIN syms'
  BY <1>2, <1>5, <1>6, SymsExtend
<1>8. Values(syms', vals') /\ Len(vals') = Len(vals)
  BY <1>0, <1>1, <1>4, <1>6, <1>7, ReturnsOne
<1>9. Now.op = "LOAD_ARRAY"
  BY <1>2, TaskOps DEF Fits
<1>10. x \in Line /\ OperandsIn(syms', x) /\ x.op = Now.op
  <2>1. Now.op \in CodeOp /\ Now.op # "FN_START"
    BY <1>9 DEF CodeOp
  <2>. QED BY <1>2, <1>5, <1>6, <1>7, <2>1, InstLine
<1>. HIDE DEF x
<1>11. Lawful(x, a.args) /\ After(a.args, x.op) = a.args
  BY <1>9, <1>10 DEF Lawful, After, Tag, Outside, Branches
<1>. QED BY <1>0, <1>1, <1>2, <1>3, <1>6, <1>8, <1>10, <1>11, AdvanceEmit

LEMMA KeepsPush ==
  ASSUME WorkInv, push
  PROVE  WorkInv'
<1>. DEFINE x == IF Now.op = "PUSH_VAL" THEN Inst(Now.op, Value(1), NULL, NULL)
                 ELSE Inst(Now.op, Now.d, Value(1), NULL)
<1>0. /\ At("push") /\ UNCHANGED <<syms, budget, pc>> /\ Walk(<<>>) /\ Returns(1, <<>>)
      /\ code' = Append(code, x)
  BY DEF push
<1>1. PICK a \in Place, b \in Place :
        /\ Standing(a, vals, code) /\ Goes(Now, a, b) /\ Chain(syms, Tail(work), b, End)
        /\ a.n = Len(vals) /\ a.n \in Nat
  BY <1>0, AtEntry
<1>2. /\ pc = "genir" /\ Values(syms, vals) /\ Table(syms) /\ Now.do = "push"
      /\ Fits(syms, Now) /\ Now.d \in Nat /\ Extends(syms', syms)
  BY <1>0, AtEntry, SymsSame
<1>3. Now.op \in Tag /\ Now.d \in DOMAIN syms \cup {NULL}
  BY <1>2, TaskOps DEF Fits, Tag
<1>4. a.body /\ a.n >= 1 /\ b.n = a.n - 1 /\ b.args = Append(a.args, Now.op)
  BY <1>1, <1>2 DEF Goes, Spot
<1>5. 1 \in 1..Len(vals) /\ 1 \in 0..Len(vals)
  BY <1>1, <1>4
<1>6. x \in Line /\ OperandsIn(syms, x) /\ x.op = Now.op
  <2>1. Value(1) \in Nat /\ Value(1) \in DOMAIN syms
    BY <1>2, <1>5, ValueTop
  <2>2. Now.op \in CodeOp /\ Now.op # "FN_START" /\ NULL \in Nat
    BY <1>3 DEF CodeOp, Tag, NULL
  <2>3. /\ Inst(Now.op, Value(1), NULL, NULL) \in Line
        /\ OperandsIn(syms, Inst(Now.op, Value(1), NULL, NULL))
        /\ Inst(Now.op, Value(1), NULL, NULL).op = Now.op
        /\ Inst(Now.op, Now.d, Value(1), NULL) \in Line
        /\ OperandsIn(syms, Inst(Now.op, Now.d, Value(1), NULL))
        /\ Inst(Now.op, Now.d, Value(1), NULL).op = Now.op
    BY <1>2, <1>3, <2>1, <2>2, InstLine
  <2>. QED BY <2>3
<1>7. Values(syms, vals') /\ Len(vals') = Len(vals) - 1
  BY <1>0, <1>2, <1>5, ReturnsNone
<1>. HIDE DEF x
<1>8. Lawful(x, a.args) /\ After(a.args, x.op) = Append(a.args, Now.op)
  BY <1>3, <1>6 DEF Lawful, After, Tag, Outside, Branches
<1>. QED BY <1>0, <1>1, <1>2, <1>4, <1>6, <1>7, <1>8, AdvanceEmit

-----------------------------------------------------------------------------
(* The expressions                                                         *)

\* A place behind one more value.
LEMMA SpotMore ==
  ASSUME NEW a \in Place
  PROVE  /\ Spot(a.n + 1, a.args, TRUE) \in Place /\ Spot(a.n + 1, a.args, TRUE).n = a.n + 1
         /\ Spot(a.n + 1, a.args, TRUE).n >= 1 /\ a.n + 1 \in Nat /\ a.n \in Nat
         /\ Spot(a.n + 1, a.args, TRUE).args = a.args /\ Spot(a.n + 1, a.args, TRUE).body
         /\ a.args \in Seq(Tag)
BY DEF Place, Spot

LEMMA StepSign ==
  ASSUME NEW s, NEW a \in Place, a.body, a.n >= 1, NEW op \in {"NEG", "ADD"}
  PROVE  Step(s, Then("sign", op, NULL, NULL), a, a)
<1>1. "sign" \in Tasks /\ op \in TaskOp("sign") /\ NULL \in Nat
  BY TaskOps DEF NULL
<1>. DEFINE w == Then("sign", op, NULL, NULL)
<1>2. w \in Item /\ w.do = "sign" /\ w.op = op /\ w.d = NULL /\ w.r = NULL
  BY <1>1, ThenItem
<1>. HIDE DEF w
<1>3. Step(s, w, a, a)
  BY <1>1, <1>2 DEF Step, Fits, Goes
<1>. QED BY <1>3 DEF w

LEMMA StepBinary ==
  ASSUME NEW s, NEW a \in Place, a.body, NEW op \in Calculate
  PROVE  Step(s, Then("binary", op, NULL, NULL), Spot(a.n + 2, a.args, TRUE),
              Spot(a.n + 1, a.args, TRUE))
<1>1. "binary" \in Tasks /\ op \in TaskOp("binary") /\ NULL \in Nat
  BY TaskOps DEF NULL
<1>. DEFINE w == Then("binary", op, NULL, NULL)
            b == Spot(a.n + 2, a.args, TRUE)
<1>2. w \in Item /\ w.do = "binary" /\ w.op = op /\ w.d = NULL /\ w.r = NULL
  BY <1>1, ThenItem
<1>3. b.n >= 2 /\ b.n - 1 = a.n + 1 /\ b.args = a.args /\ b.body
  BY DEF Spot, Place
<1>. HIDE DEF w, b
<1>4. op # "FN_START"
  BY DEF Calculate
<1>5. Step(s, w, b, Spot(a.n + 1, a.args, TRUE))
  BY <1>1, <1>2, <1>3, <1>4 DEF Step, Fits, Goes
<1>. QED BY <1>5 DEF w, b

LEMMA KeepsExpr ==
  ASSUME WorkInv, gen_expr
  PROVE  WorkInv'
<1>0. At("gen_expr") /\ UNCHANGED <<vals, code, syms, pc>> /\ (Spend \/ Free)
  BY DEF gen_expr
<1>1. PICK a \in Place : /\ Standing(a, vals, code) /\ a.body
                         /\ Chain(syms, Tail(work), Spot(a.n + 1, a.args, TRUE), End)
  BY <1>0, AtExpression
<1>2. pc = "genir" /\ Table(syms) /\ Now.inarg \in BOOLEAN /\ Extends(syms', syms)
  BY <1>0, AtExpression, SymsSame
<1>. DEFINE c == Spot(a.n + 1, a.args, TRUE)
            t == Expr("gen_term", Now.inarg)
            ts == Expr("terms", Now.inarg)
<1>3. c \in Place /\ c.body /\ c.n >= 1
  BY SpotMore
<1>4. Step(syms, t, a, c) /\ Step(syms, ts, c, c)
  <2>1. Step(syms, t, a, c)
    BY <1>1, <1>2, StepPlain
  <2>2. Step(syms, ts, c, c)
    <3>. HIDE DEF c
    <3>. QED BY <1>2, <1>3, StepPlain
  <2>. QED BY <2>1, <2>2
<1>5. \A op \in {"NEG", "ADD"} : Step(syms, Then("sign", op, NULL, NULL), c, c)
  <2>. HIDE DEF c
  <2>. QED BY <1>3, StepSign
<1>. HIDE DEF c, t, ts
<1>6. /\ Chain(syms, <<t, ts>>, a, c)
      /\ \A op \in {"NEG", "ADD"} : Chain(syms, <<t, Then("sign", op, NULL, NULL), ts>>, a, c)
  BY <1>1, <1>3, <1>4, <1>5, ChainTwo, ChainThree
<1>7. PICK items : Walk(items) /\ Chain(syms, items, a, c)
  <2>1. Walk(<<t, ts>>) \/ \E op \in {"NEG", "ADD"} : Walk(<<t, Then("sign", op, NULL, NULL),
                                                             ts>>)
    BY DEF gen_expr, t, ts
  <2>. QED BY <1>6, <2>1
<1>. QED BY <1>0, <1>1, <1>2, <1>7, AdvanceWalk DEF c

LEMMA KeepsTerm ==
  ASSUME WorkInv, gen_term
  PROVE  WorkInv'
<1>. DEFINE t == Expr("gen_factor", Now.inarg)
            ts == Expr("factors", Now.inarg)
<1>0. At("gen_term") /\ UNCHANGED <<vals, code, syms, pc>> /\ Free /\ Walk(<<t, ts>>)
  BY DEF gen_term, Free
<1>1. PICK a \in Place : /\ Standing(a, vals, code) /\ a.body
                         /\ Chain(syms, Tail(work), Spot(a.n + 1, a.args, TRUE), End)
  BY <1>0, AtExpression
<1>2. pc = "genir" /\ Table(syms) /\ Now.inarg \in BOOLEAN /\ Extends(syms', syms)
  BY <1>0, AtExpression, SymsSame
<1>. DEFINE c == Spot(a.n + 1, a.args, TRUE)
<1>3. c \in Place /\ c.body /\ c.n >= 1
  BY SpotMore
<1>4. Step(syms, t, a, c)
  BY <1>1, <1>2, StepPlain
<1>. HIDE DEF c
<1>5. Step(syms, ts, c, c)
  BY <1>2, <1>3, StepPlain
<1>. HIDE DEF t, ts
<1>6. Chain(syms, <<t, ts>>, a, c)
  BY <1>1, <1>3, <1>4, <1>5, ChainTwo
<1>. QED BY <1>0, <1>1, <1>2, <1>6, AdvanceWalk DEF c

\* The loops: what follows is an operand, the operation, and the loop.
LEMMA KeepsLoop ==
  ASSUME WorkInv, NEW f \in {"terms", "factors"}, At(f), Spend \/ Free,
         UNCHANGED <<vals, code, syms, pc>>,
         NEW g \in {"gen_term", "gen_factor"},
         \/ Walk(<<>>)
         \/ \E op \in Calculate :
              Walk(<<Expr(g, Now.inarg), Then("binary", op, NULL, NULL), Now>>)
  PROVE  WorkInv'
<1>1. PICK a \in Place, b \in Place :
        /\ Standing(a, vals, code) /\ Goes(Now, a, b) /\ Chain(syms, Tail(work), b, End)
  BY AtEntry
<1>2. pc = "genir" /\ Table(syms) /\ Fits(syms, Now) /\ Now.do = f /\ Extends(syms', syms)
  BY AtEntry, SymsSame
<1>3. a.body /\ a.n >= 1 /\ b = a /\ Now.inarg \in BOOLEAN
  BY <1>1, <1>2 DEF Goes, Fits, Item
<1>. DEFINE c == Spot(a.n + 1, a.args, TRUE)
            e == Spot(a.n - 1, a.args, TRUE)
            t == Expr(g, Now.inarg)
<1>4. /\ c \in Place /\ e \in Place /\ e.body /\ c = Spot(e.n + 2, e.args, TRUE)
      /\ a = Spot(e.n + 1, e.args, TRUE)
  <2>0. a.n \in Nat /\ a.args \in Seq(Tag)
    BY SpotMore
  <2>1. a = Spot(a.n, a.args, TRUE)
    BY <1>3, SpotPlace
  <2>. DEFINE n == a.n - 1
  <2>2. n \in Nat /\ n + 1 = a.n /\ n + 2 = a.n + 1
    BY <1>3, <2>0
  <2>. HIDE DEF n
  <2>3. e = Spot(n, a.args, TRUE)
    BY DEF n
  <2>. HIDE DEF e
  <2>4. e \in Place /\ e.n = n /\ e.args = a.args /\ e.body
    BY <2>0, <2>2, <2>3 DEF Spot, Place
  <2>. QED BY <2>1, <2>2, <2>4, SpotMore
<1>5. Step(syms, t, a, c) /\ Step(syms, Now, a, a)
  BY <1>1, <1>2, <1>3, StepPlain DEF Step
<1>. HIDE DEF c, e, t
<1>6. \A op \in Calculate : Step(syms, Then("binary", op, NULL, NULL), c, a)
  BY <1>4, StepBinary
<1>7. /\ Chain(syms, <<>>, a, a)
      /\ \A op \in Calculate : Chain(syms, <<t, Then("binary", op, NULL, NULL), Now>>, a, a)
  BY <1>1, <1>4, <1>5, <1>6, ChainNone, ChainThree
<1>8. PICK items : Walk(items) /\ Chain(syms, items, a, a)
  BY <1>7 DEF t
<1>. QED BY <1>1, <1>2, <1>3, <1>8, AdvanceWalk

LEMMA KeepsTerms ==
  ASSUME WorkInv, terms
  PROVE  WorkInv'
<1>1. \A op \in {"ADD", "SUB"} \cap Ops : op \in Calculate
  BY DEF Calculate
<1>2. /\ At("terms") /\ (Spend \/ Free) /\ UNCHANGED <<vals, code, syms, pc>>
      /\ \/ Walk(<<>>)
         \/ \E op \in Calculate :
              Walk(<<Expr("gen_term", Now.inarg), Then("binary", op, NULL, NULL), Now>>)
  BY <1>1 DEF terms
<1>. QED BY <1>2, KeepsLoop

LEMMA KeepsFactors ==
  ASSUME WorkInv, factors
  PROVE  WorkInv'
<1>1. \A op \in {"MUL", "DIV"} \cap Ops : op \in Calculate
  BY DEF Calculate
<1>2. /\ At("factors") /\ (Spend \/ Free) /\ UNCHANGED <<vals, code, syms, pc>>
      /\ \/ Walk(<<>>)
         \/ \E op \in Calculate :
              Walk(<<Expr("gen_factor", Now.inarg), Then("binary", op, NULL, NULL), Now>>)
  BY <1>1 DEF factors
<1>. QED BY <1>2, KeepsLoop

\* A factor that is a symbol.
LEMMA KeepsSymbol ==
  ASSUME WorkInv, At("gen_factor"), Walk(<<>>), UNCHANGED <<code, pc>>, Spend \/ Free,
         Extends(syms', syms), NEW d \in Nat, Valued(syms', d), Returns(0, <<d>>)
  PROVE  WorkInv'
<1>1. PICK a \in Place : /\ Standing(a, vals, code) /\ a.body
                         /\ Chain(syms, Tail(work), Spot(a.n + 1, a.args, TRUE), End)
  BY AtExpression
<1>2. pc = "genir" /\ budget' \in 0..Budget
  BY BudgetType DEF At, WorkInv
<1>3. Lines(syms', code) /\ Values(syms', vals)
  BY SymsExtend DEF WorkInv
<1>. DEFINE c == Spot(a.n + 1, a.args, TRUE)
<1>4. c \in Place /\ c.n = a.n + 1 /\ c.args = a.args /\ a.n = Len(vals) /\ a.n \in Nat
  BY <1>1, SpotMore DEF Standing
<1>. HIDE DEF c
<1>5. Values(syms', vals') /\ Len(vals') = Len(vals) + 1
  BY <1>3, <1>4, ReturnsOne
<1>6. Standing(c, vals', code')
  BY <1>1, <1>4, <1>5 DEF Standing
<1>7. Chain(syms', <<>>, c, c)
  BY <1>4, ChainNone
<1>. QED BY <1>1, <1>2, <1>3, <1>4, <1>5, <1>6, <1>7, Advance DEF c

LEMMA KeepsId ==
  ASSUME WorkInv, id_factor
  PROVE  WorkInv'
<1>1. /\ At("gen_factor") /\ Spend /\ Walk(<<>>) /\ UNCHANGED <<code, syms, pc>>
  BY DEF id_factor
<1>2. PICK d \in Sids(Variables \cup {"CONSTANT"}) : Returns(0, <<d>>)
  BY DEF id_factor
<1>3. Table(syms) /\ Extends(syms', syms)
  BY <1>1, SymsSame DEF WorkInv
<1>4. /\ d \in Nat /\ d \in DOMAIN syms /\ syms[d].cate \in Variables \cup {"CONSTANT"}
      /\ syms[d].type \in {"VOID", "INT", "UINT", "CHAR"}
      /\ syms[d].type = "VOID" <=> syms[d].cate = "PROC"
  BY <1>3, SidsDeclared
<1>5. Valued(syms', d)
  BY <1>1, <1>4 DEF Valued, Value_cates, Variables, Parameter
<1>. QED BY <1>1, <1>2, <1>3, <1>4, <1>5, KeepsSymbol

LEMMA KeepsNumber ==
  ASSUME WorkInv, number_factor
  PROVE  WorkInv'
<1>1. /\ At("gen_factor") /\ (Spend \/ Free) /\ Walk(<<>>) /\ UNCHANGED <<code, pc>>
      /\ Returns(0, <<NewSid>>)
  BY DEF number_factor
<1>2. PICK type \in {"LITERAL", "CHAR"} : syms' = New("NUMBER", type, "written")
  BY DEF number_factor
<1>3. Table(syms) /\ Here \in Routine
  BY <1>1, AtExpression
<1>4. /\ "NUMBER" \in Value_cates \cup {"LABEL", "STRING"} /\ "NUMBER" \in Value_cates
      /\ type \in {"VOID", "INT", "UINT", "CHAR", "LITERAL", "STRING"}
      /\ "written" \in {"0", "written"} /\ type \notin {"VOID", "STRING"}
  BY DEF Value_cates
<1>5. Extends(syms', syms) /\ Valued(syms', NewSid) /\ NewSid \in Nat
  BY <1>2, <1>3, <1>4, SymbolNew DEF Valued
<1>. QED BY <1>1, <1>5, KeepsSymbol

LEMMA KeepsNested ==
  ASSUME WorkInv, expr_factor
  PROVE  WorkInv'
<1>0. /\ At("gen_factor") /\ UNCHANGED <<vals, code, syms, pc>> /\ Spend
      /\ Walk(<<Expr("gen_expr", Now.inarg)>>)
  BY DEF expr_factor
<1>1. PICK a \in Place : /\ Standing(a, vals, code) /\ a.body
                         /\ Chain(syms, Tail(work), Spot(a.n + 1, a.args, TRUE), End)
  BY <1>0, AtExpression
<1>2. pc = "genir" /\ Table(syms) /\ Now.inarg \in BOOLEAN /\ Extends(syms', syms)
  BY <1>0, AtExpression, SymsSame
<1>3. Step(syms, Expr("gen_expr", Now.inarg), a, Spot(a.n + 1, a.args, TRUE))
  BY <1>1, <1>2, StepPlain
<1>4. Chain(syms, <<Expr("gen_expr", Now.inarg)>>, a, Spot(a.n + 1, a.args, TRUE))
  BY <1>3, SpotMore, ChainOne
<1>. QED BY <1>0, <1>1, <1>2, <1>4, AdvanceWalk

LEMMA KeepsArray ==
  ASSUME WorkInv, array_factor
  PROVE  WorkInv'
<1>0. /\ At("gen_factor") /\ UNCHANGED <<vals, code, syms, pc>> /\ Spend
  BY DEF array_factor
<1>1. PICK a \in Place : /\ Standing(a, vals, code) /\ a.body
                         /\ Chain(syms, Tail(work), Spot(a.n + 1, a.args, TRUE), End)
  BY <1>0, AtExpression
<1>2. pc = "genir" /\ Table(syms) /\ Extends(syms', syms)
  BY <1>0, AtExpression, SymsSame
<1>3. PICK r \in Sids({"ARRAY"}) :
        Walk(<<Gen("gen_expr"), Then("load_array", "LOAD_ARRAY", NULL, r)>>)
  BY DEF array_factor
<1>. DEFINE c == Spot(a.n + 1, a.args, TRUE)
            w == Then("load_array", "LOAD_ARRAY", NULL, r)
<1>4. c \in Place /\ c.body /\ c.n >= 1
  BY SpotMore
<1>5. Step(syms, Gen("gen_expr"), a, c)
  <2>1. Gen("gen_expr") = Expr("gen_expr", FALSE)
    BY DEF Gen, Expr
  <2>. QED BY <1>1, <2>1, StepPlain
<1>6. /\ r \in Nat /\ r \in DOMAIN syms /\ syms[r].type \notin {"VOID", "STRING"}
  <2>1. /\ r \in Nat /\ r \in DOMAIN syms /\ syms[r].cate \in {"ARRAY"}
        /\ syms[r].type \in {"VOID", "INT", "UINT", "CHAR"}
        /\ syms[r].type = "VOID" <=> syms[r].cate = "PROC"
    BY <1>2, SidsDeclared
  <2>. QED BY <2>1
<1>7. /\ w \in Item /\ w.do = "load_array" /\ w.op = "LOAD_ARRAY" /\ w.d = NULL /\ w.r = r
      /\ w.op \in TaskOp(w.do)
  <2>1. "load_array" \in Tasks /\ "LOAD_ARRAY" \in TaskOp("load_array") /\ NULL \in Nat
    BY TaskOps DEF NULL
  <2>. QED BY <1>6, <2>1, ThenItem
<1>. HIDE DEF c, w
<1>8. Step(syms, w, c, c)
  BY <1>4, <1>6, <1>7 DEF Step, Fits, Goes
<1>9. Chain(syms, <<Gen("gen_expr"), w>>, a, c)
  BY <1>4, <1>5, <1>8, ChainTwo
<1>. QED BY <1>0, <1>1, <1>2, <1>3, <1>9, AdvanceWalk DEF c, w

-----------------------------------------------------------------------------
(* The calls                                                               *)

\* What gen_arg_list leaves: the last parameter's argument first.
Argued(e, args) ==
  args \o [j \in 1..Len(Params[e]) |-> TagOf(Params[e][Len(Params[e]) + 1 - j])]

LEMMA ArgsType ==
  ASSUME NEW e \in Routine
  PROVE  /\ Params[e] \in Seq(Parameter) /\ Len(Params[e]) \in Nat
         /\ DOMAIN Params[e] = 1..Len(Params[e])
         /\ \A i \in 1..Len(Params[e]) : Params[e][i] \in Parameter
<1>1. Params[e] \in Seq(Parameter)
  BY ParamsType
<1>. QED BY <1>1, ElementOfSeq

LEMMA ArguedOnTop ==
  ASSUME NEW e \in Routine, NEW args \in Seq(Tag)
  PROVE  /\ Argued(e, args) \in Seq(Tag) /\ OnTop(e, Argued(e, args))
         /\ Popped(e, Argued(e, args)) = args
         /\ Len(Argued(e, args)) = Len(args) + Len(Params[e])
         /\ \A j \in 1..Len(args) : Argued(e, args)[j] = args[j]
         /\ \A j \in 1..Len(Params[e]) :
              Argued(e, args)[Len(args) + j] = TagOf(Params[e][Len(Params[e]) + 1 - j])
<1>. DEFINE n == Len(Params[e])
            pushed == [j \in 1..n |-> TagOf(Params[e][n + 1 - j])]
            all == args \o pushed
<1>1. n \in Nat /\ Len(args) \in Nat
  BY ArgsType
<1>. HIDE DEF n
<1>2. \A j \in 1..n : n + 1 - j \in 1..n /\ n + 1 - (n + 1 - j) = j
  BY <1>1
<1>3. \A j \in 1..n : TagOf(Params[e][n + 1 - j]) \in Tag
  BY DEF TagOf, Tag
<1>4. pushed \in Seq(Tag) /\ Len(pushed) = n
  BY <1>1, <1>3
<1>5. \A j \in 1..n : pushed[j] = TagOf(Params[e][n + 1 - j])
  OBVIOUS
<1>. HIDE DEF pushed
<1>6. /\ all \in Seq(Tag) /\ Len(all) = Len(args) + n
      /\ \A j \in 1..Len(args) + n :
           all[j] = IF j <= Len(args) THEN args[j] ELSE pushed[j - Len(args)]
  BY <1>4, ConcatProperties
<1>. HIDE DEF all
<1>7. \A j \in 1..Len(args) : all[j] = args[j]
  BY <1>1, <1>6
<1>8. ASSUME NEW j \in 1..n PROVE all[Len(args) + j] = TagOf(Params[e][n + 1 - j])
  <2>1. /\ Len(args) + j \in 1..Len(args) + n /\ ~(Len(args) + j <= Len(args))
        /\ Len(args) + j - Len(args) = j
    BY <1>1
  <2>. QED BY <1>5, <1>6, <2>1
<1>9. ASSUME NEW j \in 1..n PROVE all[Len(all) + 1 - j] = TagOf(Params[e][j])
  <2>1. Len(all) + 1 - j = Len(args) + (n + 1 - j)
    BY <1>1, <1>6
  <2>2. n + 1 - j \in 1..n /\ n + 1 - (n + 1 - j) = j
    BY <1>2
  <2>. QED BY <1>8, <2>1, <2>2
<1>10. OnTop(e, all)
  BY <1>1, <1>6, <1>9 DEF OnTop, n
<1>11. Popped(e, all) = args
  <2>1. Len(all) - n = Len(args)
    BY <1>1, <1>6
  <2>2. /\ SubSeq(all, 1, Len(args)) \in Seq(Tag)
        /\ Len(SubSeq(all, 1, Len(args))) = Len(args)
        /\ \A j \in 1..Len(args) : SubSeq(all, 1, Len(args))[j] = all[j]
    BY <1>1, <1>6, SubSeqProperties
  <2>3. SubSeq(all, 1, Len(args)) = args
    BY <1>7, <2>2, SeqEqual
  <2>. QED BY <2>1, <2>3 DEF Popped, n
<1>. QED BY <1>6, <1>7, <1>8, <1>10, <1>11 DEF Argued, all, pushed, n

LEMMA StepArg ==
  ASSUME NEW s, NEW a \in Place, a.body, NEW cate \in Parameter
  PROVE  /\ Do("gen_arg", cate, NULL, NULL, TRUE) \in Item
         /\ Step(s, Do("gen_arg", cate, NULL, NULL, TRUE), a,
                 Spot(a.n, Append(a.args, TagOf(cate)), TRUE))
<1>1. "gen_arg" \in Tasks /\ cate \in TaskOp("gen_arg") /\ NULL \in Nat
  BY TaskOps DEF NULL
<1>. DEFINE w == Do("gen_arg", cate, NULL, NULL, TRUE)
<1>2. w \in Item /\ w.do = "gen_arg" /\ w.op = cate /\ w.d = NULL /\ w.r = NULL
  BY <1>1, DoItem DEF Do
<1>. HIDE DEF w
<1>3. cate # "FN_START"
  BY DEF Parameter
<1>4. Step(s, w, a, Spot(a.n, Append(a.args, TagOf(cate)), TRUE))
  BY <1>1, <1>2, <1>3 DEF Step, Fits, Goes
<1>. QED BY <1>2, <1>4 DEF w

LEMMA ChainArgs ==
  ASSUME NEW s, NEW a \in Place, a.body, NEW e \in Routine
  PROVE  Chain(s, gen_arg_list(e), a, Spot(a.n, Argued(e, a.args), TRUE))
<1>. DEFINE n == Len(Params[e])
            m == Len(a.args)
            w == gen_arg_list(e)
            all == Argued(e, a.args)
            h == [i \in 1..n + 1 |-> Spot(a.n, SubSeq(all, 1, m + i - 1), TRUE)]
<1>1. /\ n \in Nat /\ m \in Nat /\ a.args \in Seq(Tag) /\ a.n \in Nat /\ a = Spot(a.n, a.args,
                                                                                  TRUE)
      /\ DOMAIN Params[e] = 1..n /\ \A i \in 1..n : Params[e][i] \in Parameter
  <2>1. a.args \in Seq(Tag) /\ a.n \in Nat /\ a = Spot(a.n, a.args, TRUE)
    BY SpotPlace
  <2>2. m \in Nat
    BY <2>1
  <2>. HIDE DEF m
  <2>. QED BY <2>1, <2>2, ArgsType
<1>2. /\ all \in Seq(Tag) /\ Len(all) = m + n
      /\ \A j \in 1..m : all[j] = a.args[j]
      /\ \A j \in 1..n : all[m + j] = TagOf(Params[e][n + 1 - j])
  BY <1>1, ArguedOnTop
<1>3. /\ Len(w) = n /\ w \in Seq(Item)
      /\ \A i \in 1..n : w[i] = Do("gen_arg", Params[e][n + 1 - i], NULL, NULL, TRUE)
  <2>. DEFINE l == [i \in DOMAIN Params[e] |-> Do("gen_arg", Params[e][i], NULL, NULL, TRUE)]
  <2>1. \A i \in 1..n : n - i + 1 = n + 1 - i /\ n + 1 - i \in 1..n
    BY <1>1
  <2>2. Len(l) = n
    BY <1>1
  <2>3. w = [i \in 1..n |-> l[n - i + 1]]
    <3>1. w = Reverse(l)
      BY DEF gen_arg_list
    <3>. HIDE DEF w, l, n
    <3>. QED BY <2>2, <3>1 DEF Reverse
  <2>4. \A i \in 1..n : w[i] = Do("gen_arg", Params[e][n + 1 - i], NULL, NULL, TRUE)
    BY <1>1, <2>1, <2>3
  <2>5. \A i \in 1..n : w[i] \in Item
    BY <1>1, <2>1, <2>4, StepArg
  <2>6. DOMAIN w = 1..n /\ w = [i \in 1..n |-> w[i]]
    BY <2>3
  <2>. HIDE DEF w, l, n
  <2>7. w \in [1..n -> Item]
    BY <2>5, <2>6
  <2>8. n \in Nat
    BY <1>1
  <2>9. Len(w) = n /\ w \in Seq(Item)
    BY <2>7, <2>8
  <2>. QED BY <2>4, <2>9
<1>. HIDE DEF w, all, n, m
<1>4. ASSUME NEW i \in 1..n + 1
      PROVE  /\ SubSeq(all, 1, m + i - 1) \in Seq(Tag) /\ Len(SubSeq(all, 1,
                                                                     m + i - 1)) = m + i - 1
             /\ \A j \in 1..m + i - 1 : SubSeq(all, 1, m + i - 1)[j] = all[j]
  <2>1. m + i - 1 \in 0..Len(all) /\ m + i - 1 \in Nat
    BY <1>1, <1>2
  <2>. QED BY <1>2, <2>1, SubSeqProperties
<1>5. ASSUME NEW i \in 1..n + 1
      PROVE  /\ h[i] \in Place /\ h[i].n = a.n /\ h[i].args = SubSeq(all, 1, m + i - 1)
             /\ h[i].body
  <2>. DEFINE p == SubSeq(all, 1, m + i - 1)
  <2>1. h[i] = Spot(a.n, p, TRUE)
    OBVIOUS
  <2>2. p \in Seq(Tag) /\ a.n \in Nat
    BY <1>1, <1>4
  <2>. HIDE DEF h, p
  <2>3. h[i] \in Place /\ h[i].n = a.n /\ h[i].args = p /\ h[i].body
    BY <2>1, <2>2 DEF Spot, Place
  <2>. QED BY <2>3 DEF p
<1>6. h \in Seq(Place) /\ Len(h) = n + 1
  <2>1. DOMAIN h = 1..n + 1 /\ h = [i \in 1..n + 1 |-> h[i]]
    OBVIOUS
  <2>. HIDE DEF h
  <2>2. h \in [1..n + 1 -> Place] /\ n + 1 \in Nat
    BY <1>1, <1>5, <2>1
  <2>. QED BY <2>2
<1>7. \A i \in 1..n + 1 : h[i] = Spot(a.n, SubSeq(all, 1, m + i - 1), TRUE)
  OBVIOUS
<1>. HIDE DEF h
<1>8. ASSUME NEW i \in 1..n PROVE Step(s, w[i], h[i], h[i + 1])
  <2>. DEFINE p == SubSeq(all, 1, m + i - 1)
              q == SubSeq(all, 1, m + (i + 1) - 1)
              cate == Params[e][n + 1 - i]
  <2>1. i \in 1..n + 1 /\ i + 1 \in 1..n + 1 /\ m + (i + 1) - 1 = m + i /\ n + 1 - i \in 1..n
    BY <1>1
  <2>2. /\ p \in Seq(Tag) /\ Len(p) = m + i - 1 /\ \A j \in 1..m + i - 1 : p[j] = all[j]
        /\ q \in Seq(Tag) /\ Len(q) = m + i /\ \A j \in 1..m + i : q[j] = all[j]
    BY <1>4, <2>1
  <2>3. all[m + i] = TagOf(cate) /\ TagOf(cate) \in Tag /\ cate \in Parameter
    BY <1>1, <1>2, <2>1 DEF TagOf, Tag
  <2>. HIDE DEF p, q, cate
  <2>4. /\ Append(p, TagOf(cate)) \in Seq(Tag) /\ Len(Append(p, TagOf(cate))) = m + i
        /\ \A j \in 1..m + i - 1 : Append(p, TagOf(cate))[j] = p[j]
        /\ Append(p, TagOf(cate))[m + i] = TagOf(cate)
    <3>1. m + i - 1 + 1 = m + i
      BY <1>1
    <3>. QED BY <2>2, <2>3, <3>1, AppendProperties
  <2>5. \A j \in 1..m + i : j \in 1..m + i - 1 \/ j = m + i
    BY <1>1
  <2>6. Append(p, TagOf(cate)) = q
    <3>1. \A j \in 1..m + i : Append(p, TagOf(cate))[j] = q[j]
      BY <2>2, <2>3, <2>4, <2>5
    <3>. QED BY <2>2, <2>4, <3>1, SeqEqual
  <2>7. h[i] \in Place /\ h[i].n = a.n /\ h[i].args = p /\ h[i].body
    BY <1>5, <2>1 DEF p
  <2>8. h[i + 1] = Spot(h[i].n, Append(h[i].args, TagOf(cate)), TRUE)
    BY <1>7, <2>1, <2>6, <2>7 DEF q
  <2>. QED BY <1>3, <2>3, <2>7, <2>8, StepArg DEF cate
<1>9. h[1] = a
  <2>1. m + 1 - 1 = m
    BY <1>1
  <2>2. SubSeq(all, 1, m) = a.args
    <3>1. 1 \in 1..n + 1
      BY <1>1
    <3>2. /\ SubSeq(all, 1, m) \in Seq(Tag) /\ Len(SubSeq(all, 1, m)) = m
          /\ \A j \in 1..m : SubSeq(all, 1, m)[j] = all[j]
      BY <1>4, <2>1, <3>1
    <3>. DEFINE k == SubSeq(all, 1, m)
    <3>3. Len(k) = Len(a.args)
      BY <3>2 DEF m
    <3>4. \A j \in 1..Len(k) : k[j] = a.args[j]
      BY <1>2, <3>2
    <3>5. k \in Seq(Tag) /\ a.args \in Seq(Tag)
      BY <1>1, <3>2
    <3>. HIDE DEF k
    <3>6. k = a.args
      BY <3>3, <3>4, <3>5, SeqEqual
    <3>. QED BY <3>6 DEF k
  <2>3. h[1] = Spot(a.n, SubSeq(all, 1, m), TRUE)
    <3>1. 1 \in 1..n + 1
      BY <1>1
    <3>. QED BY <1>7, <2>1, <3>1
  <2>. QED BY <1>1, <2>2, <2>3
<1>10. h[n + 1] = Spot(a.n, all, TRUE)
  <2>1. n + 1 \in 1..n + 1 /\ m + (n + 1) - 1 = m + n
    BY <1>1
  <2>2. /\ SubSeq(all, 1, m + n) \in Seq(Tag) /\ Len(SubSeq(all, 1, m + n)) = m + n
        /\ \A j \in 1..m + n : SubSeq(all, 1, m + n)[j] = all[j]
    BY <1>4, <2>1
  <2>3. SubSeq(all, 1, m + n) = all
    BY <1>2, <2>2, SeqEqual
  <2>. QED BY <1>7, <2>1, <2>3
<1>11. Leads(s, w, h)
  BY <1>3, <1>6, <1>8 DEF Leads
<1>. QED BY <1>3, <1>9, <1>10, <1>11 DEF Chain, w, all, n, m

\* The call itself.
LEMMA StepCall ==
  ASSUME NEW s, NEW a \in Place, a.body, NEW e \in Routine, e \in DOMAIN s, NEW d \in Nat,
         d # NULL => Valued(s, d), OnTop(e, a.args)
  PROVE  Step(s, Then("call", "CALL", d, e), a,
              Spot(IF d = NULL THEN a.n ELSE a.n + 1, Popped(e, a.args), TRUE))
<1>1. "call" \in Tasks /\ "CALL" \in TaskOp("call")
  BY TaskOps
<1>2. e \in Nat
  BY SymbolFacts DEF Routine
<1>. DEFINE w == Then("call", "CALL", d, e)
<1>3. w \in Item /\ w.do = "call" /\ w.op = "CALL" /\ w.d = d /\ w.r = e
  BY <1>1, <1>2, ThenItem
<1>. HIDE DEF w
<1>4. d \in DOMAIN s \cup {NULL}
  BY DEF Valued
<1>5. Fits(s, w)
  BY <1>1, <1>3, <1>4 DEF Fits
<1>6. Goes(w, a, Spot(IF d = NULL THEN a.n ELSE a.n + 1, Popped(e, a.args), TRUE))
  BY <1>3 DEF Goes
<1>. QED BY <1>5, <1>6 DEF Step, w

\* The arguments and the call.
LEMMA ChainCall ==
  ASSUME NEW s, NEW a \in Place, a.body, NEW e \in Routine, e \in DOMAIN s, NEW d \in Nat,
         d # NULL => Valued(s, d)
  PROVE  Chain(s, gen_arg_list(e) \o <<Then("call", "CALL", d, e)>>, a,
               Spot(IF d = NULL THEN a.n ELSE a.n + 1, a.args, TRUE))
<1>. DEFINE c == Spot(a.n, Argued(e, a.args), TRUE)
            b == Spot(IF d = NULL THEN a.n ELSE a.n + 1, a.args, TRUE)
<1>1. a.n \in Nat /\ a.args \in Seq(Tag) /\ a.n + 1 \in Nat
  BY SpotMore
<1>2. /\ Argued(e, a.args) \in Seq(Tag) /\ OnTop(e, Argued(e, a.args))
      /\ Popped(e, Argued(e, a.args)) = a.args
  BY <1>1, ArguedOnTop
<1>3. c \in Place /\ c.n = a.n /\ c.args = Argued(e, a.args) /\ c.body
  BY <1>1, <1>2 DEF Spot, Place
<1>4. b \in Place
  BY <1>1, SpotPlace
<1>5. Chain(s, gen_arg_list(e), a, c)
  BY ChainArgs
<1>. HIDE DEF c
<1>6. Step(s, Then("call", "CALL", d, e), c, b)
  <2>1. b = Spot(IF d = NULL THEN c.n ELSE c.n + 1, Popped(e, c.args), TRUE)
    BY <1>2, <1>3
  <2>. HIDE DEF b
  <2>. QED BY <1>2, <1>3, <2>1, StepCall
<1>. HIDE DEF b
<1>7. Chain(s, <<Then("call", "CALL", d, e)>>, c, b)
  BY <1>3, <1>4, <1>6, ChainOne
<1>8. Chain(s, gen_arg_list(e) \o <<Then("call", "CALL", d, e)>>, a, b)
  BY <1>5, <1>7, ChainJoin
<1>. QED BY <1>8 DEF b

LEMMA KeepsPcall ==
  ASSUME WorkInv, gen_pcall_stmt
  PROVE  WorkInv'
<1>0. At("gen_stmt") /\ Spend /\ UNCHANGED <<vals, code, syms, pc>>
  BY DEF gen_pcall_stmt
<1>1. PICK a \in Place : /\ Standing(a, vals, code) /\ a.body /\ a.n = 0 /\ a.args = <<>>
                         /\ Chain(syms, Tail(work), a, End)
  BY <1>0, AtStatement
<1>2. pc = "genir" /\ Extends(syms', syms) /\ Table(syms)
  BY <1>0, AtStatement, SymsSame
<1>3. PICK e \in Sids({"PROC"}) : Walk(gen_arg_list(e) \o <<Then("call", "CALL", NULL, e)>>)
  BY DEF gen_pcall_stmt
<1>4. e \in Routine /\ e \in DOMAIN syms
  <2>1. e \in DOMAIN Declared /\ Declared[e].cate \in {"PROC"} /\ e \in DOMAIN syms
    BY <1>2, SidsDeclared
  <2>. QED BY <2>1 DEF Routine
<1>5. NULL \in Nat /\ a = Spot(a.n, a.args, TRUE)
  BY <1>1, SpotPlace DEF NULL
<1>6. Chain(syms, gen_arg_list(e) \o <<Then("call", "CALL", NULL, e)>>, a, a)
  BY <1>1, <1>4, <1>5, ChainCall
<1>. QED BY <1>0, <1>1, <1>2, <1>3, <1>6, AdvanceWalk

LEMMA KeepsFcall ==
  ASSUME WorkInv, gen_fcall_stmt
  PROVE  WorkInv'
<1>0. At("gen_factor") /\ Spend /\ UNCHANGED <<vals, code, pc>>
  BY DEF gen_fcall_stmt
<1>1. PICK a \in Place : /\ Standing(a, vals, code) /\ a.body
                         /\ Chain(syms, Tail(work), Spot(a.n + 1, a.args, TRUE), End)
  BY <1>0, AtExpression
<1>2. pc = "genir" /\ Table(syms) /\ Here \in Routine
  BY <1>0, AtExpression
<1>3. PICK e \in Sids({"FUNCTION"}) :
        /\ syms' = symalloc("TEMP", syms[e].type)
        /\ Walk(gen_arg_list(e) \o <<Then("call", "CALL", NewSid, e)>>)
  BY DEF gen_fcall_stmt
<1>4. e \in Routine /\ e \in DOMAIN syms /\ syms[e].type \in {"INT", "UINT", "CHAR", "LITERAL"}
  <2>1. /\ e \in DOMAIN Declared /\ Declared[e].cate \in {"FUNCTION"} /\ e \in DOMAIN syms
        /\ syms[e].cate \in {"FUNCTION"} /\ syms[e].type \in {"VOID", "INT", "UINT", "CHAR"}
        /\ syms[e].type = "VOID" <=> syms[e].cate = "PROC"
    BY <1>2, SidsDeclared
  <2>. QED BY <2>1 DEF Routine
<1>5. /\ Extends(syms', syms) /\ Valued(syms', NewSid) /\ NewSid \in Nat /\ NewSid # NULL
  BY <1>2, <1>3, <1>4, TempNew
<1>6. e \in DOMAIN syms'
  BY <1>4, <1>5, SymsExtend
<1>7. Chain(syms', gen_arg_list(e) \o <<Then("call", "CALL", NewSid, e)>>, a,
            Spot(a.n + 1, a.args, TRUE))
  <2>1. Chain(syms', gen_arg_list(e) \o <<Then("call", "CALL", NewSid, e)>>, a,
              Spot(IF NewSid = NULL THEN a.n ELSE a.n + 1, a.args, TRUE))
    BY <1>1, <1>4, <1>5, <1>6, ChainCall
  <2>. QED BY <1>5, <2>1
<1>. QED BY <1>0, <1>1, <1>2, <1>3, <1>5, <1>7, AdvanceWalk

LEMMA KeepsCall ==
  ASSUME WorkInv, call
  PROVE  WorkInv'
<1>. DEFINE x == Inst("CALL", Now.d, Now.r, NULL)
            n == Len(Params[Now.r])
            pop == Inst("POP", NULL, NULL, NULL)
            pops == [i \in 1..n |-> pop]
<1>0. /\ At("call") /\ UNCHANGED <<syms, budget, pc>> /\ Walk(<<>>)
      /\ code' = code \o <<x>> \o pops
      /\ Returns(0, IF Now.d = NULL THEN <<>> ELSE <<Now.d>>)
  BY DEF call, Pops
<1>1. PICK a \in Place, b \in Place :
        /\ Standing(a, vals, code) /\ Goes(Now, a, b) /\ Chain(syms, Tail(work), b, End)
        /\ a.n = Len(vals) /\ a.n \in Nat /\ a.args \in Seq(Tag)
  BY <1>0, AtEntry
<1>2. /\ pc = "genir" /\ Values(syms, vals) /\ Table(syms) /\ Lines(syms, code)
      /\ Now.do = "call" /\ Fits(syms, Now) /\ Now.d \in Nat /\ Now.r \in Nat
  BY <1>0, AtEntry
<1>3. /\ a.body /\ OnTop(Now.r, a.args) /\ b.args = Popped(Now.r, a.args)
      /\ b.n = IF Now.d = NULL THEN a.n ELSE a.n + 1
  BY <1>1, <1>2 DEF Goes, Spot
<1>4. /\ Now.r \in Routine /\ (Now.d # NULL => Valued(syms, Now.d))
      /\ Now.d \in DOMAIN syms \cup {NULL} /\ Now.r \in DOMAIN syms \cup {NULL}
  BY <1>2 DEF Fits
<1>5. n \in Nat /\ n <= Len(a.args)
  BY <1>3, <1>4, ArgsType DEF OnTop
<1>6. x \in Line /\ OperandsIn(syms, x) /\ x.op = "CALL" /\ x.r = Now.r
  <2>1. "CALL" \in CodeOp /\ "CALL" # "FN_START" /\ NULL \in Nat
    BY DEF CodeOp, NULL
  <2>2. x.r = Now.r
    BY DEF Inst
  <2>. QED BY <1>2, <1>4, <2>1, <2>2, InstLine
<1>7. pop \in Line /\ OperandsIn(syms, pop)
  <2>1. "POP" \in CodeOp /\ "POP" # "FN_START" /\ NULL \in Nat
    BY DEF CodeOp, NULL
  <2>. QED BY <2>1, InstLine
<1>. DEFINE c == Append(code, x)
<1>. HIDE DEF x, n
<1>8. /\ Lines(syms, c) /\ Leaves(c, a.args) /\ Begun(c)
  <2>1. Lawful(x, a.args) /\ After(a.args, x.op) = a.args
    BY <1>3, <1>6 DEF Lawful, After, Tag, Outside, Branches
  <2>. QED BY <1>1, <1>2, <1>3, <1>6, <2>1, LineAppend DEF Standing
<1>9. code' = c \o pops
  <2>1. code \o <<x>> = Append(code, x)
    BY <1>2, <1>6 DEF Lines
  <2>. QED BY <1>0, <2>1
<1>. HIDE DEF c
<1>10. Leaves(code', b.args)
  <2>1. Leaves(c \o pops, SubSeq(a.args, 1, Len(a.args) - n))
    BY <1>1, <1>5, <1>8, LeavesPops DEF Lines
  <2>. QED BY <1>3, <1>9, <2>1 DEF Popped, n
<1>. HIDE DEF pop
<1>11. Lines(syms, code') /\ Begun(code')
  <2>1. pops \in Seq(Line) /\ Len(pops) = n /\ \A i \in 1..n : pops[i] = pop
    BY <1>5, <1>7
  <2>. HIDE DEF pops
  <2>. DEFINE all == c \o pops
  <2>2. /\ all \in Seq(Line) /\ Len(all) = Len(c) + n /\ Len(c) \in Nat
        /\ \A i \in 1..Len(c) + n :
             all[i] = IF i <= Len(c) THEN c[i] ELSE pops[i - Len(c)]
    <3>1. c \in Seq(Line)
      BY <1>8 DEF Lines
    <3>2. pops \in Seq(Line) /\ Len(pops) = n
      BY <2>1
    <3>. HIDE DEF c, pops, n
    <3>3. /\ all \in Seq(Line) /\ Len(all) = Len(c) + Len(pops)
          /\ \A i \in 1..Len(all) :
               all[i] = IF i <= Len(c) THEN c[i] ELSE pops[i - Len(c)]
      BY <3>1, <3>2, ConcatProperties
    <3>4. Len(c) \in Nat
      BY <3>1
    <3>. HIDE DEF all
    <3>. QED BY <3>2, <3>3, <3>4
  <2>. HIDE DEF all
  <2>3. ASSUME NEW i \in 1..Len(all) PROVE OperandsIn(syms, all[i])
    <3>1. CASE i <= Len(c)
      <4>1. i \in 1..Len(c) /\ all[i] = c[i]
        BY <2>2, <3>1
      <4>. QED BY <1>8, <4>1 DEF Lines
    <3>2. CASE ~(i <= Len(c))
      <4>1. i - Len(c) \in 1..n /\ all[i] = pops[i - Len(c)]
        BY <1>5, <2>2, <3>2
      <4>. QED BY <1>7, <2>1, <4>1
    <3>. QED BY <3>1, <3>2
  <2>4. Begun(all)
    <3>1. PICK i \in 1..Len(c) : c[i].op = "FN_START"
      BY <1>8 DEF Begun
    <3>2. i \in 1..Len(all) /\ all[i] = c[i]
      BY <1>5, <2>2, <3>1
    <3>. QED BY <3>1, <3>2 DEF Begun
  <2>. QED BY <1>9, <2>2, <2>3, <2>4 DEF Lines, all
<1>12. Values(syms, vals') /\ Len(vals') = b.n
  <2>1. CASE Now.d = NULL
    <3>1. Returns(0, <<>>)
      BY <1>0, <2>1
    <3>2. Values(syms, vals') /\ Len(vals') = Len(vals) - 0
      BY <1>1, <1>2, <3>1, ReturnsNone
    <3>. QED BY <1>1, <1>3, <2>1, <3>2
  <2>2. CASE Now.d # NULL
    <3>1. Returns(0, <<Now.d>>)
      BY <1>0, <2>2
    <3>2. Values(syms, vals') /\ Len(vals') = Len(vals) - 0 + 1
      BY <1>1, <1>2, <1>4, <2>2, <3>1, ReturnsOne
    <3>. QED BY <1>1, <1>3, <2>2, <3>2
  <2>. QED BY <2>1, <2>2
<1>13. Standing(b, vals', code')
  BY <1>10, <1>11, <1>12 DEF Standing
<1>14. Extends(syms', syms) /\ Chain(syms', <<>>, b, b) /\ budget' \in 0..Budget
  BY <1>0, <1>2, SymsSame, ChainNone DEF WorkInv
<1>. QED BY <1>0, <1>1, <1>2, <1>11, <1>12, <1>13, <1>14, Advance

LEMMA StepPush ==
  ASSUME NEW s, NEW a \in Place, a.body, NEW op \in Tag, NEW d \in Nat, d \in DOMAIN s \cup {NULL}
  PROVE  Step(s, Then("push", op, d, NULL), Spot(a.n + 1, a.args, TRUE),
              Spot(a.n, Append(a.args, op), TRUE))
<1>1. "push" \in Tasks /\ op \in TaskOp("push") /\ NULL \in Nat
  BY TaskOps DEF NULL, Tag
<1>. DEFINE w == Then("push", op, d, NULL)
            c == Spot(a.n + 1, a.args, TRUE)
<1>2. w \in Item /\ w.do = "push" /\ w.op = op /\ w.d = d /\ w.r = NULL
  BY <1>1, ThenItem
<1>3. c.n >= 1 /\ c.n - 1 = a.n /\ c.args = a.args /\ c.body
  <2>1. c.n = a.n + 1 /\ c.args = a.args /\ c.body /\ a.n \in Nat
    BY SpotMore
  <2>. HIDE DEF c
  <2>. QED BY <2>1
<1>. HIDE DEF w, c
<1>4. op # "FN_START"
  BY DEF Tag
<1>5. Fits(s, w)
  BY <1>1, <1>2, <1>4 DEF Fits
<1>6. Goes(w, c, Spot(a.n, Append(a.args, op), TRUE))
  BY <1>2, <1>3 DEF Goes
<1>. QED BY <1>5, <1>6 DEF Step, w, c

LEMMA KeepsArg ==
  ASSUME WorkInv, gen_arg
  PROVE  WorkInv'
<1>0. At("gen_arg") /\ UNCHANGED <<vals, code, syms, pc>> /\ Free
  BY DEF gen_arg, Free
<1>1. PICK a \in Place, b \in Place :
        /\ Standing(a, vals, code) /\ Goes(Now, a, b) /\ Chain(syms, Tail(work), b, End)
  BY <1>0, AtEntry
<1>2. pc = "genir" /\ Table(syms) /\ Now.do = "gen_arg" /\ Fits(syms, Now) /\ Extends(syms', syms)
  BY <1>0, AtEntry, SymsSame
<1>3. a.body /\ b = Spot(a.n, Append(a.args, TagOf(Now.op)), TRUE)
  BY <1>1, <1>2 DEF Goes
<1>4. Now.op \in Parameter
  BY <1>2, TaskOps DEF Fits
<1>. DEFINE c == Spot(a.n + 1, a.args, TRUE)
<1>5. /\ c \in Place /\ Step(syms, Expr("gen_expr", TRUE), a, c)
      /\ Step(syms, Gen("gen_expr"), a, c)
  <2>1. Gen("gen_expr") = Expr("gen_expr", FALSE)
    BY DEF Gen, Expr
  <2>2. c \in Place
    BY SpotMore
  <2>3. /\ Step(syms, Expr("gen_expr", TRUE), a, c) /\ Step(syms, Expr("gen_expr", FALSE), a, c)
    BY <1>3, StepPlain
  <2>. QED BY <2>1, <2>2, <2>3
<1>6. \A op \in Tag, d \in Nat : d \in DOMAIN syms \cup {NULL} /\ TagOf(Now.op) = op =>
        Step(syms, Then("push", op, d, NULL), c, b)
  BY <1>3, StepPush
<1>. HIDE DEF c
<1>7. PICK items : Walk(items) /\ Chain(syms, items, a, b)
  <2>1. CASE Now.op = "BY_VALUE"
    <3>1. Walk(<<Expr("gen_expr", TRUE), Then("push", "PUSH_VAL", NULL, NULL)>>)
      BY <2>1 DEF gen_arg
    <3>2. "PUSH_VAL" \in Tag /\ TagOf(Now.op) = "PUSH_VAL" /\ NULL \in Nat
      BY <2>1 DEF Tag, TagOf, NULL
    <3>3. Chain(syms, <<Expr("gen_expr", TRUE), Then("push", "PUSH_VAL", NULL, NULL)>>, a, b)
      BY <1>1, <1>5, <1>6, <3>2, ChainTwo
    <3>. QED BY <3>1, <3>3
  <2>2. CASE Now.op = "BY_REFERENCE"
    <3>1. "PUSH_ADDR" \in Tag /\ TagOf(Now.op) = "PUSH_ADDR"
      BY <2>2 DEF Tag, TagOf
    <3>2. CASE \E d \in Sids({"VARIABLE"}) : Walk(<<Emit("PUSH_ADDR", d)>>)
      <4>1. PICK d \in Sids({"VARIABLE"}) : Walk(<<Emit("PUSH_ADDR", d)>>)
        BY <3>2
      <4>2. d \in Nat /\ d \in DOMAIN syms
        BY <1>2, SidsDeclared
      <4>3. "emit1" \in Tasks /\ "PUSH_ADDR" \in TaskOp("emit1") /\ NULL \in Nat
        BY TaskOps DEF NULL, Emitted
      <4>. DEFINE w == Emit("PUSH_ADDR", d)
      <4>4. w \in Item /\ w.do = "emit1" /\ w.op = "PUSH_ADDR" /\ w.d = d /\ w.r = NULL
        BY <4>2, <4>3, DoItem DEF Emit, Do
      <4>. HIDE DEF w
      <4>5. Fits(syms, w)
        BY <4>2, <4>3, <4>4 DEF Fits
      <4>6. Goes(w, a, b)
        BY <1>3, <3>1, <4>4 DEF Goes
      <4>7. Chain(syms, <<w>>, a, b)
        BY <1>1, <4>5, <4>6, ChainOne DEF Step
      <4>. QED BY <4>1, <4>7 DEF w
    <3>3. CASE \E d \in Sids({"ARRAY"}) :
                 Walk(<<Gen("gen_expr"), Then("push", "PUSH_ADDR", d, NULL)>>)
      <4>1. PICK d \in Sids({"ARRAY"}) :
                 Walk(<<Gen("gen_expr"), Then("push", "PUSH_ADDR", d, NULL)>>)
        BY <3>3
      <4>2. d \in Nat /\ d \in DOMAIN syms
        BY <1>2, SidsDeclared
      <4>3. Chain(syms, <<Gen("gen_expr"), Then("push", "PUSH_ADDR", d, NULL)>>, a, b)
        BY <1>1, <1>5, <1>6, <3>1, <4>2, ChainTwo
      <4>. QED BY <4>1, <4>3
    <3>. QED BY <2>2, <3>2, <3>3 DEF gen_arg
  <2>. QED BY <1>4, <2>1, <2>2 DEF Parameter
<1>. QED BY <1>0, <1>1, <1>2, <1>7, AdvanceWalk

-----------------------------------------------------------------------------
(* Loops and routines                                                      *)

LEMMA ChainFive ==
  ASSUME NEW s, NEW u, NEW v, NEW w, NEW x, NEW y,
         NEW a \in Place, NEW b \in Place, NEW c \in Place, NEW d \in Place,
         NEW e \in Place, NEW f \in Place,
         Step(s, u, a, b), Step(s, v, b, c), Step(s, w, c, d), Step(s, x, d, e), Step(s, y, e, f)
  PROVE  Chain(s, <<u, v, w, x, y>>, a, f)
<1>. DEFINE l == <<u, v, w, x, y>>
            h == <<a, b, c, d, e, f>>
<1>1. /\ h \in Seq(Place) /\ Len(h) = 6
      /\ h[1] = a /\ h[2] = b /\ h[3] = c /\ h[4] = d /\ h[5] = e /\ h[6] = f
      /\ Len(l) = 5 /\ l[1] = u /\ l[2] = v /\ l[3] = w /\ l[4] = x /\ l[5] = y
  OBVIOUS
<1>. l \in Seq(Item)
  BY DEF Step, Fits
<1>2. \A i \in 1..5 : i = 1 \/ i = 2 \/ i = 3 \/ i = 4 \/ i = 5
  OBVIOUS
<1>. HIDE DEF l, h
<1>3. \A i \in 1..5 : Step(s, l[i], h[i], h[i + 1])
  BY <1>1, <1>2
<1>4. Chain(s, l, a, f)
  BY <1>1, <1>3 DEF Chain, Leads
<1>. QED BY <1>4 DEF l

LEMMA KeepsForBody ==
  ASSUME WorkInv, for_body
  PROVE  WorkInv'
<1>. DEFINE forstart == NewSid
            fordone == NewSid + 1
            up == Now.op = "INC"
            x == Inst("STORE_VAR", Now.d, Value(2), NULL)
            y == Inst("LABEL", forstart, NULL, NULL)
            test == IF up THEN "BRANCH_GTT" ELSE "BRANCH_LST"
            back == IF up THEN "DEC" ELSE "INC"
            z == Inst(test, fordone, Now.d, Value(1))
            items == <<Gen("gen_stmt"), Emit(Now.op, Now.d), Emit("JUMP", forstart),
                       Emit("LABEL", fordone), Emit(back, Now.d)>>
<1>0. /\ At("for") /\ UNCHANGED <<budget, pc>> /\ syms' = TwoLabels /\ Returns(2, <<>>)
      /\ code' = code \o <<x, y, z>> /\ Walk(items)
  BY DEF for_body
<1>1. PICK a \in Place, b \in Place :
        /\ Standing(a, vals, code) /\ Goes(Now, a, b) /\ Chain(syms, Tail(work), b, End)
        /\ a.n = Len(vals) /\ a.n \in Nat /\ (a.body => Here \in Routine)
  BY <1>0, AtEntry
<1>2. /\ pc = "genir" /\ Values(syms, vals) /\ Table(syms) /\ Lines(syms, code)
      /\ Now.do = "for" /\ Fits(syms, Now) /\ Now.d \in Nat
  BY <1>0, AtEntry
<1>3. /\ a.body /\ a.n = 2 /\ a.args = <<>> /\ b.n = a.n - 2 /\ b.args = <<>> /\ b.body
      /\ Here \in Routine
  BY <1>1, <1>2 DEF Goes, Spot
<1>4. Now.op \in {"INC", "DEC"} /\ Now.d \in DOMAIN syms \cup {NULL}
  BY <1>2, TaskOps DEF Fits
<1>5. /\ Extends(syms', syms) /\ forstart \in DOMAIN syms' /\ fordone \in DOMAIN syms'
      /\ forstart \in Nat /\ fordone \in Nat
  BY <1>0, <1>2, <1>3, LabelsNew
<1>6. 1 \in 1..Len(vals) /\ 2 \in 1..Len(vals) /\ 2 \in 0..Len(vals)
  BY <1>1, <1>3
<1>7. /\ Value(1) \in Nat /\ Value(1) \in DOMAIN syms'
      /\ Value(2) \in Nat /\ Value(2) \in DOMAIN syms'
      /\ Now.d \in DOMAIN syms' \cup {NULL}
  <2>1. /\ Value(1) \in Nat /\ Value(1) \in DOMAIN syms
        /\ Value(2) \in Nat /\ Value(2) \in DOMAIN syms
    BY <1>2, <1>6, ValueTop
  <2>. QED BY <1>4, <1>5, <2>1, SymsExtend
<1>8. Values(syms', vals') /\ Len(vals') = Len(vals) - 2
  <2>1. Values(syms', vals)
    BY <1>2, <1>5, SymsExtend
  <2>. QED BY <1>0, <1>6, <2>1, ReturnsNone
<1>9. /\ x \in Line /\ OperandsIn(syms', x) /\ x.op = "STORE_VAR"
      /\ y \in Line /\ OperandsIn(syms', y) /\ y.op = "LABEL"
      /\ z \in Line /\ OperandsIn(syms', z) /\ z.op = test
  <2>1. /\ "STORE_VAR" \in CodeOp /\ "LABEL" \in CodeOp /\ test \in CodeOp /\ test # "FN_START"
        /\ "STORE_VAR" # "FN_START" /\ "LABEL" # "FN_START" /\ NULL \in Nat
    BY DEF CodeOp, Outside, Branches, NULL
  <2>. HIDE DEF test, forstart, fordone
  <2>2. x \in Line /\ OperandsIn(syms', x) /\ x.op = "STORE_VAR"
    <3>1. Now.d \in Nat
      BY <1>2
    <3>2. "STORE_VAR" \in CodeOp /\ "STORE_VAR" # "FN_START"
      BY <2>1
    <3>3. NULL \in Nat
      BY <2>1
    <3>. QED BY <1>7, <3>1, <3>2, <3>3, InstLine
  <2>3. y \in Line /\ OperandsIn(syms', y) /\ y.op = "LABEL"
    BY <1>5, <2>1, InstLine
  <2>4. z \in Line /\ OperandsIn(syms', z) /\ z.op = test
    <3>1. Now.d \in Nat
      BY <1>2
    <3>2. test \in CodeOp /\ test # "FN_START"
      BY <2>1
    <3>3. fordone \in Nat /\ fordone \in DOMAIN syms' \cup {NULL}
      BY <1>5
    <3>. QED BY <1>7, <3>1, <3>2, <3>3, InstLine
  <2>. QED BY <2>2, <2>3, <2>4
<1>10. test \in {"BRANCH_GTT", "BRANCH_LST"} /\ back \in {"INC", "DEC"}
  OBVIOUS
<1>. HIDE DEF test, back, x, y, z, forstart, fordone, up
<1>. DEFINE c1 == Append(code, x)
            c2 == Append(c1, y)
            c3 == Append(c2, z)
<1>11. /\ Lines(syms', c3) /\ Leaves(c3, <<>>) /\ Begun(c3)
  <2>1. /\ Lawful(x, <<>>) /\ After(<<>>, x.op) = <<>>
        /\ Lawful(y, <<>>) /\ After(<<>>, y.op) = <<>>
        /\ Lawful(z, <<>>) /\ After(<<>>, z.op) = <<>>
    BY <1>9, <1>10 DEF Lawful, After, Tag
  <2>2. Lines(syms', code) /\ Leaves(code, <<>>) /\ Begun(code)
    BY <1>1, <1>2, <1>3, <1>5, SymsExtend DEF Standing
  <2>3. Lines(syms', c1) /\ Leaves(c1, <<>>) /\ Begun(c1)
    BY <1>9, <2>1, <2>2, LineAppend
  <2>. HIDE DEF c1
  <2>4. Lines(syms', c2) /\ Leaves(c2, <<>>) /\ Begun(c2)
    BY <1>9, <2>1, <2>3, LineAppend
  <2>. HIDE DEF c2
  <2>. QED BY <1>9, <2>1, <2>4, LineAppend
<1>12. code' = c3
  <2>. DEFINE l == code \o <<x, y, z>>
  <2>1. code \in Seq(Line) /\ Len(code) \in Nat /\ <<x, y, z>> \in Seq(Line) /\ Len(<<x, y,
                                                                                      z>>) = 3
        /\ <<x, y, z>>[1] = x /\ <<x, y, z>>[2] = y /\ <<x, y, z>>[3] = z
    BY <1>2, <1>9 DEF Lines
  <2>2. /\ l \in Seq(Line) /\ Len(l) = Len(code) + 3
        /\ \A i \in 1..Len(code) + 3 :
             l[i] = IF i <= Len(code) THEN code[i] ELSE <<x, y, z>>[i - Len(code)]
    BY <2>1, ConcatProperties
  <2>3. /\ c1 \in Seq(Line) /\ Len(c1) = Len(code) + 1 /\ c1[Len(code) + 1] = x
        /\ \A i \in 1..Len(code) : c1[i] = code[i]
    BY <1>9, <2>1, AppendProperties
  <2>. HIDE DEF c1
  <2>4. /\ c2 \in Seq(Line) /\ Len(c2) = Len(code) + 2 /\ c2[Len(code) + 2] = y
        /\ \A i \in 1..Len(code) + 1 : c2[i] = c1[i]
    <3>1. Len(code) + 1 + 1 = Len(code) + 2
      BY <2>1
    <3>. QED BY <1>9, <2>3, <3>1, AppendProperties
  <2>. HIDE DEF c2
  <2>5. /\ c3 \in Seq(Line) /\ Len(c3) = Len(code) + 3 /\ c3[Len(code) + 3] = z
        /\ \A i \in 1..Len(code) + 2 : c3[i] = c2[i]
    <3>1. Len(code) + 2 + 1 = Len(code) + 3
      BY <2>1
    <3>. QED BY <1>9, <2>4, <3>1, AppendProperties
  <2>. HIDE DEF c3, l
  <2>6. ASSUME NEW i \in 1..Len(code) + 3 PROVE l[i] = c3[i]
    <3>1. CASE i \in 1..Len(code)
      <4>1. i <= Len(code) /\ i \in 1..Len(code) + 1 /\ i \in 1..Len(code) + 2
        BY <2>1, <3>1
      <4>. QED BY <2>2, <2>3, <2>4, <2>5, <3>1, <4>1
    <3>2. CASE i = Len(code) + 1
      <4>1. /\ ~(i <= Len(code)) /\ i - Len(code) = 1 /\ i \in 1..Len(code) + 1
            /\ i \in 1..Len(code) + 2
        BY <2>1, <3>2
      <4>. QED BY <2>1, <2>2, <2>3, <2>4, <2>5, <3>2, <4>1
    <3>3. CASE i = Len(code) + 2
      <4>1. ~(i <= Len(code)) /\ i - Len(code) = 2 /\ i \in 1..Len(code) + 2
        BY <2>1, <3>3
      <4>. QED BY <2>1, <2>2, <2>4, <2>5, <3>3, <4>1
    <3>4. CASE i = Len(code) + 3
      <4>1. ~(i <= Len(code)) /\ i - Len(code) = 3
        BY <2>1, <3>4
      <4>. QED BY <2>1, <2>2, <2>5, <3>4, <4>1
    <3>. QED BY <2>1, <3>1, <3>2, <3>3, <3>4
  <2>7. l = c3
    BY <2>2, <2>5, <2>6, SeqEqual
  <2>. QED BY <1>0, <2>7 DEF l
<1>. HIDE DEF c3
<1>13. Standing(b, vals', code')
  BY <1>1, <1>3, <1>8, <1>11, <1>12 DEF Standing
<1>14. Chain(syms', items, b, b)
  <2>0. Now.d \in DOMAIN syms'
    BY <1>2, <1>5, SymsExtend DEF Fits
  <2>1. Now.op \in Emitted \ {"FN_START", "PUSH_ADDR"} /\ back \in Emitted \ {"FN_START",
                                                                              "PUSH_ADDR"}
    BY <1>4, <1>10 DEF Emitted
  <2>2. "JUMP" \in Emitted \ {"FN_START", "PUSH_ADDR"} /\ "LABEL" \in Emitted \ {"FN_START",
                                                                                 "PUSH_ADDR"}
    BY DEF Emitted
  <2>3. /\ Step(syms', Gen("gen_stmt"), b, b) /\ Step(syms', Emit(Now.op, Now.d), b, b)
        /\ Step(syms', Emit("JUMP", forstart), b, b) /\ Step(syms', Emit("LABEL", fordone), b, b)
        /\ Step(syms', Emit(back, Now.d), b, b)
    BY <1>2, <1>3, <1>5, <2>0, <2>1, <2>2, StepEmitSame, ChainStatement
  <2>. QED BY <2>3, ChainFive
<1>15. budget' \in 0..Budget
  BY <1>0 DEF WorkInv
<1>. QED BY <1>0, <1>1, <1>2, <1>5, <1>8, <1>11, <1>12, <1>13, <1>14, <1>15, Advance

LEMMA KeepsComp ==
  ASSUME WorkInv, gen_comp_stmt
  PROVE  WorkInv'
<1>0. At("gen_comp_stmt") /\ UNCHANGED <<vals, code, syms, pc>> /\ (Spend \/ Free)
  BY DEF gen_comp_stmt
<1>1. PICK a \in Place, b \in Place :
        /\ Standing(a, vals, code) /\ Goes(Now, a, b) /\ Chain(syms, Tail(work), b, End)
  BY <1>0, AtEntry
<1>2. pc = "genir" /\ Table(syms) /\ Now.do = "gen_comp_stmt" /\ Extends(syms', syms)
  BY <1>0, AtEntry, SymsSame
<1>3. a.body /\ a.n = 0 /\ a.args = <<>> /\ b = a
  BY <1>1, <1>2 DEF Goes
<1>4. Step(syms, Gen("gen_stmt"), a, a) /\ Step(syms, Gen("gen_comp_stmt"), a, a)
  BY <1>3, StepPlain
<1>5. /\ Chain(syms, <<Gen("gen_stmt")>>, a, a)
      /\ Chain(syms, <<Gen("gen_stmt"), Gen("gen_comp_stmt")>>, a, a)
  BY <1>4, ChainOne, ChainTwo
<1>6. PICK items : Walk(items) /\ Chain(syms, items, a, a)
  BY <1>5 DEF gen_comp_stmt
<1>. QED BY <1>0, <1>1, <1>2, <1>3, <1>6, AdvanceWalk

LEMMA StepDecs ==
  ASSUME NEW s, NEW a \in Place, a.n = 0, a.args = <<>>, NEW p \in Routine, Table(s)
  PROVE  Step(s, Decs(p), a, Spot(a.n, <<>>, FALSE))
<1>1. "gen_pf_dec_list" \in Tasks /\ "" \in TaskOp("gen_pf_dec_list") /\ NULL \in Nat
  BY PlainOps DEF NULL, Plain
<1>2. p \in Nat /\ p \in DOMAIN s
  BY SymbolFacts DEF Routine, Table
<1>. DEFINE w == Decs(p)
<1>3. w \in Item /\ w.do = "gen_pf_dec_list" /\ w.op = "" /\ w.d = p /\ w.r = NULL
  BY <1>1, <1>2, DoItem DEF Decs, Do
<1>. HIDE DEF w
<1>4. Fits(s, w) /\ Goes(w, a, Spot(a.n, <<>>, FALSE))
  BY <1>1, <1>2, <1>3 DEF Fits, Goes
<1>. QED BY <1>4 DEF w, Step

\* FN_START, the statements, FN_END.
LEMMA StepRoutine ==
  ASSUME NEW s, NEW a \in Place, a.n = 0, a.args = <<>>, NEW p \in Routine, Table(s)
  PROVE  /\ Step(s, Emit("FN_START", p), a, Spot(a.n, <<>>, TRUE))
         /\ Step(s, Gen("gen_comp_stmt"), Spot(a.n, <<>>, TRUE), Spot(a.n, <<>>, TRUE))
         /\ Step(s, Emit("FN_END", p), Spot(a.n, <<>>, TRUE), Spot(a.n, <<>>, TRUE))
<1>1. p \in Nat /\ p \in DOMAIN s
  BY SymbolFacts DEF Routine, Table
<1>2. "FN_START" \in Emitted /\ "FN_END" \in Emitted \ {"FN_START", "PUSH_ADDR"}
  BY DEF Emitted
<1>3. Step(s, Emit("FN_START", p), a, Spot(a.n, <<>>, TRUE))
  BY <1>1, <1>2, StepEmit
<1>. DEFINE t == Spot(a.n, <<>>, TRUE)
<1>0. a.n \in Nat /\ <<>> \in Seq(Tag)
  BY SpotPlace
<1>4. t \in Place /\ t.n = 0 /\ t.args = <<>> /\ t.body
  BY <1>0 DEF Spot, Place
<1>. HIDE DEF t
<1>5. Step(s, Gen("gen_comp_stmt"), t, t)
  BY <1>4, StepPlain
<1>6. Step(s, Emit("FN_END", p), t, t)
  BY <1>1, <1>2, <1>4, StepEmitSame
<1>. QED BY <1>3, <1>5, <1>6 DEF t

LEMMA KeepsRoutines ==
  ASSUME WorkInv, gen_pf_dec_list
  PROVE  WorkInv'
<1>0. At("gen_pf_dec_list") /\ UNCHANGED <<vals, code, syms, pc>> /\ Free
  BY DEF gen_pf_dec_list, Free
<1>1. PICK a \in Place, b \in Place :
        /\ Standing(a, vals, code) /\ Goes(Now, a, b) /\ Chain(syms, Tail(work), b, End)
  BY <1>0, AtEntry
<1>2. /\ pc = "genir" /\ Table(syms) /\ Now.do = "gen_pf_dec_list" /\ Fits(syms, Now)
      /\ Extends(syms', syms)
  BY <1>0, AtEntry, SymsSame
<1>3. a.n = 0 /\ a.args = <<>> /\ b = Spot(a.n, <<>>, FALSE)
  BY <1>1, <1>2 DEF Goes
<1>4. a.n \in Nat /\ b.n = a.n /\ b.args = <<>> /\ ~b.body
  <2>1. a.n \in Nat
    BY SpotPlace
  <2>. QED BY <1>3, <2>1 DEF Spot
<1>. b.n = 0
  BY <1>3, <1>4
<1>5. CASE Left(Now.d) = {} /\ Walk(<<>>)
  <2>1. Standing(b, vals, code)
    BY <1>1, <1>3, <1>4 DEF Standing
  <2>. QED BY <1>0, <1>1, <1>2, <1>5, <2>1, ChainNone, AdvanceWalk
<1>6. CASE \E p \in Left(Now.d) :
             /\ \A q \in Left(Now.d) : p <= q
             /\ Walk(<<Decs(p), Emit("FN_START", p), Gen("gen_comp_stmt"), Emit("FN_END", p),
                       Now>>)
  <2>1. PICK p \in Left(Now.d) :
          Walk(<<Decs(p), Emit("FN_START", p), Gen("gen_comp_stmt"), Emit("FN_END", p), Now>>)
    BY <1>6
  <2>2. p \in Routine
    BY DEF Left, InTable, Routine
  <2>. DEFINE t == Spot(b.n, <<>>, TRUE)
  <2>3. Step(syms, Decs(p), a, b)
    BY <1>2, <1>3, <2>2, StepDecs
  <2>4. /\ Step(syms, Emit("FN_START", p), b, t) /\ Step(syms, Gen("gen_comp_stmt"), t, t)
        /\ Step(syms, Emit("FN_END", p), t, t)
    BY <1>2, <1>4, <2>2, StepRoutine
  <2>5. t \in Place /\ t.n = a.n /\ t.args = <<>>
    <3>1. <<>> \in Seq(Tag)
      BY SpotPlace
    <3>. QED BY <1>4, <3>1 DEF Spot, Place
  <2>. HIDE DEF t
  <2>6. Step(syms, Now, t, b)
    BY <1>2, <1>3, <2>5 DEF Step, Goes
  <2>7. Chain(syms, <<Decs(p), Emit("FN_START", p), Gen("gen_comp_stmt"), Emit("FN_END", p),
                      Now>>,
              a, b)
    BY <1>1, <2>3, <2>4, <2>5, <2>6, ChainFive
  <2>. QED BY <1>0, <1>1, <1>2, <2>1, <2>7, AdvanceWalk
<1>. QED BY <1>5, <1>6 DEF gen_pf_dec_list

-----------------------------------------------------------------------------
(* The theorems                                                            *)

LEMMA InitSyms ==
  ASSUME Init
  PROVE  Table(syms)
<1>1. syms = [e \in DOMAIN Declared |->
               Symbol(Declared[e].cate, Declared[e].type, Declared[e].stab,
                      IF Declared[e].cate = "CONSTANT" THEN "written" ELSE "0")]
  BY DEF Init
<1>2. \A e \in DOMAIN Declared :
        Declared[e].cate \in Value_cates \cup {"PROC", "FUNCTION", "ARRAY", "LABEL", "STRING"}
  BY SymbolFacts DEF Value_cates
<1>3. \A e \in DOMAIN Declared :
        /\ syms[e] \in Sym
        /\ syms[e].cate = Declared[e].cate /\ syms[e].type = Declared[e].type
  BY <1>1, <1>2, SymbolFacts DEF Symbol, Sym
<1>4. syms \in [1..Len(Declared) -> Sym] /\ Len(Declared) \in Nat
  BY <1>1, <1>3, SymbolFacts
<1>5. syms \in Seq(Sym) /\ Len(syms) = Len(Declared)
  BY <1>4
<1>. QED BY <1>3, <1>4, <1>5 DEF Table

LEMMA InitWork ==
  ASSUME Init
  PROVE  WorkInv
<1>1. /\ vals = <<>> /\ code = <<>> /\ budget = Budget /\ pc = "genir"
      /\ work = <<Decs(Main), Emit("FN_START", Main), Gen("gen_comp_stmt"), Emit("FN_END", Main)>>
  BY DEF Init
<1>2. Table(syms) /\ Main \in Routine
  BY InitSyms, SymbolFacts
<1>. DEFINE a == Spot(0, <<>>, FALSE)
<1>3. a \in Place /\ a.args = <<>> /\ a.n = 0 /\ ~a.body /\ End \in Place
  <2>1. <<>> \in Seq(Tag)
    BY SpotPlace
  <2>. QED BY <2>1 DEF Spot, Place, End
<1>4. a = Spot(a.n, <<>>, FALSE) /\ End = Spot(a.n, <<>>, TRUE)
  BY <1>3 DEF End
<1>. HIDE DEF a
<1>5. /\ Step(syms, Decs(Main), a, a) /\ Step(syms, Emit("FN_START", Main), a, End)
      /\ Step(syms, Gen("gen_comp_stmt"), End, End) /\ Step(syms, Emit("FN_END", Main), End, End)
  BY <1>2, <1>3, <1>4, StepDecs, StepRoutine
<1>6. /\ Chain(syms, <<Decs(Main), Emit("FN_START", Main)>>, a, End)
      /\ Chain(syms, <<Gen("gen_comp_stmt"), Emit("FN_END", Main)>>, End, End)
  BY <1>3, <1>5, ChainTwo
<1>7. work = <<Decs(Main), Emit("FN_START", Main)>> \o <<Gen("gen_comp_stmt"), Emit("FN_END",
                                                                                    Main)>>
  BY <1>1
<1>8. Chain(syms, work, a, End)
  BY <1>6, <1>7, ChainJoin
<1>9. Standing(a, vals, code)
  BY <1>1, <1>3, LeavesNone DEF Standing
<1>10. Lines(syms, code) /\ Values(syms, vals)
  BY <1>1 DEF Lines, Values
<1>. QED BY <1>1, <1>2, <1>3, <1>8, <1>9, <1>10, ConstAssumption DEF WorkInv

LEMMA NextWork ==
  ASSUME WorkInv, [Next]_vars
  PROVE  WorkInv'
<1>1. CASE gen_pf_dec_list \/ gen_comp_stmt \/ emit1
  BY <1>1, KeepsRoutines, KeepsComp, KeepsEmit1
<1>2. CASE Statement
  <2>1. CASE \/ null_stmt \/ gen_assign_stmt \/ gen_if_stmt \/ gen_repe_stmt \/ gen_for_stmt
             \/ gen_pcall_stmt \/ gen_read_stmt \/ gen_write_stmt
    BY <2>1, KeepsNull, KeepsAssign, KeepsIf, KeepsRepeat, KeepsFor, KeepsPcall, KeepsRead,
       KeepsWrite
  <2>2. CASE store_var \/ store_array \/ branch \/ for_body \/ write
    BY <2>2, KeepsStoreVar, KeepsStoreArray, KeepsBranch, KeepsForBody, KeepsWriteValue
  <2>. QED BY <1>2, <2>1, <2>2 DEF Statement
<1>3. CASE Expression
  <2>1. CASE gen_expr \/ sign \/ terms \/ gen_term \/ factors \/ binary
    BY <2>1, KeepsExpr, KeepsSign, KeepsTerms, KeepsTerm, KeepsFactors, KeepsBinary
  <2>2. CASE id_factor \/ number_factor \/ array_factor \/ load_array \/ expr_factor
    BY <2>2, KeepsId, KeepsNumber, KeepsArray, KeepsLoadArray, KeepsNested
  <2>3. CASE gen_fcall_stmt \/ gen_arg \/ push \/ call
    BY <2>3, KeepsFcall, KeepsArg, KeepsPush, KeepsCall
  <2>. QED BY <1>3, <2>1, <2>2, <2>3 DEF Expression
<1>4. CASE genir
  BY <1>4 DEF genir, WorkInv, Standing, Lines, Values, Begun
<1>5. CASE UNCHANGED vars
  BY <1>5 DEF vars, WorkInv, Standing, Lines, Values, Begun
<1>. QED BY <1>1, <1>2, <1>3, <1>4, <1>5 DEF Next

\* What is left to do always leads from what has been pushed to the end of
\* the code, whatever tree the recursion of generate.c walks.
THEOREM WorkKept == Spec => []WorkInv
<1>1. Init => WorkInv
  BY InitWork
<1>2. WorkInv /\ [Next]_vars => WorkInv'
  BY NextWork
<1>. QED BY <1>1, <1>2, PTL DEF Spec

\* What the generator returns is a symbol that holds a value, of a type
\* that has one, and when it ends nothing is left over (gen_factor,
\* gen_expr, genir).
THEOREM TypeCorrect == Spec => []TypeOK
<1>1. ASSUME WorkInv PROVE TypeOK
  <2>1. /\ Table(syms) /\ Lines(syms, code) /\ Values(syms, vals)
        /\ budget \in 0..Budget /\ pc \in {"genir", "done", "unlikely_plus", "unlikely_write"}
    BY <1>1 DEF WorkInv
  <2>2. \A i \in DOMAIN vals : Valued(syms, vals[i])
    BY <2>1 DEF Values
  <2>3. \A i \in DOMAIN code : {code[i].d, code[i].r, code[i].s} \subseteq DOMAIN syms \cup {NULL}
    BY <2>1 DEF Lines, OperandsIn
  <2>4. ASSUME pc = "done" PROVE work = <<>> /\ vals = <<>>
    <3>1. PICK a \in Place : Standing(a, vals, code) /\ Chain(syms, work, a, End)
      BY <1>1 DEF WorkInv
    <3>2. work = <<>>
      BY <1>1, <2>4 DEF WorkInv
    <3>3. a = End
      BY <3>1, <3>2 DEF Chain
    <3>4. Len(vals) = 0
      BY <3>1, <3>3 DEF Standing, End, Spot
    <3>. QED BY <2>1, <3>2, <3>4 DEF Values
  <2>. QED BY <2>1, <2>2, <2>3, <2>4 DEF TypeOK, Table, Sym, Valued
<1>. QED BY <1>1, WorkKept, PTL

\* Every instruction is lawful where it stands.
LEMMA CodeLawful ==
  ASSUME WorkInv, NEW i \in DOMAIN code
  PROVE  Lawful(code[i], Pushed[i])
<1>1. PICK a \in Place : Standing(a, vals, code)
  BY DEF WorkInv
<1>2. PICK p : Stacks(code, p)
  BY <1>1 DEF Standing, Leaves
<1>3. code \in Seq(Line) /\ DOMAIN code = 1..Len(code) /\ Len(code) \in Nat
  BY DEF WorkInv, Lines
<1>4. Pushed[i] = p[i]
  BY <1>2, <1>3, PushedRight
<1>. QED BY <1>2, <1>3, <1>4 DEF Stacks

\* No jump, label, store or routine's end is reached with an argument still
\* pushed (gen_arg_list, gen_pcall_stmt, gen_fcall_stmt).
THEOREM Balanced == Spec => []StackBalanced
<1>1. WorkInv => StackBalanced
  BY CodeLawful DEF StackBalanced, Lawful
<1>. QED BY <1>1, WorkKept, PTL

\* A call finds its arguments on top of the stack, the first parameter's on
\* the very top, each as the parameter's category says (gen_arg_list).
THEOREM OnTopOfStack == Spec => []ArgumentsOnTop
<1>1. ASSUME WorkInv PROVE ArgumentsOnTop
  <2>. SUFFICES ASSUME NEW i \in DOMAIN code, code[i].op = "CALL"
                PROVE  LET n == Len(Params[code[i].r])
                           stack == Pushed[i]
                       IN  /\ Len(stack) >= n
                           /\ \A k \in 1..n :
                                stack[Len(stack) + 1 - k] =
                                  IF Params[code[i].r][k] = "BY_VALUE" THEN "PUSH_VAL"
                                  ELSE "PUSH_ADDR"
    BY DEF ArgumentsOnTop
  <2>1. OnTop(code[i].r, Pushed[i])
    BY <1>1, CodeLawful DEF Lawful
  <2>. QED BY <2>1 DEF OnTop, TagOf
<1>. QED BY <1>1, WorkKept, PTL

-----------------------------------------------------------------------------
(* The shape of the code                                                   *)

(* The code and what is left to emit of it                                 *)

\* What the flow graph sees of an instruction, as in Skeleton, and of an
\* entry of work: the instruction it is to emit, or the routines to come.
Mark(op, d) ==
  CASE op \in Branches -> [op |-> "BRANCH", d |-> d]
    [] op \in {"JUMP", "LABEL", "FN_START", "FN_END"} -> [op |-> op, d |-> d]
    [] OTHER -> [op |-> "OTHER"]
MarkOf(w) ==
  CASE w.do = "gen_pf_dec_list" -> [op |-> "DECS"]
    [] w.do \in {"emit1", "branch"} -> Mark(w.op, w.d)
    [] OTHER -> [op |-> "OTHER"]

\* The code as it will be, as far as the walk has come.
Plan(c, w) ==
  [i \in 1..Len(c) + Len(w) |->
     IF i <= Len(c) THEN Mark(c[i].op, c[i].d) ELSE MarkOf(w[i - Len(c)])]

\* A routine ends here, or begins: the routines to come stand outside.
Closes(L, n, i) == i = 0 \/ (i \in 1..n /\ L[i].op \in {"FN_END", "DECS"})
Opens(L, n, i) == i = n + 1 \/ (i \in 1..n /\ L[i].op \in {"FN_START", "DECS"})
Bounds == {"FN_START", "FN_END", "DECS"}

\* From i to j no routine begins or ends.
Clear(L, i, j) == \A k \in Nat : (i < k /\ k < j) \/ (j < k /\ k < i) => L[k].op \notin Bounds

\* Each routine's end has its beginning, each jump its label.
Tied(L, n, i) ==
  /\ L[i].op = "FN_END" =>
       \E j \in 1..n : /\ L[j].op = "FN_START" /\ L[j].d = L[i].d /\ j < i
                       /\ Clear(L, i, j)
  /\ L[i].op \in Jumps =>
       \E j \in 1..n : L[j].op = "LABEL" /\ L[j].d = L[i].d /\ Clear(L, i, j)

\* No label is marked twice, none is jumped to twice.
Once(L, n) ==
  \A i, j \in 1..n :
    /\ i # j /\ L[i].op = "LABEL" /\ L[j].op = "LABEL" => L[i].d # L[j].d
    /\ i # j /\ L[i].op \in Jumps /\ L[j].op \in Jumps => L[i].d # L[j].d

Shaped(L, n) ==
  /\ \A i \in 0..n : Closes(L, n, i) <=> Opens(L, n, i + 1)
  /\ \A i \in 1..n : Tied(L, n, i)
  /\ Once(L, n)

ShapeInv == Shaped(Plan(code, work), Len(code) + Len(work))

\* What the walk may put in the place of one mark: it is well formed by
\* itself, its labels are new, and it begins and ends as that mark did.
LEMMA Spliced ==
  ASSUME NEW L, NEW n \in Nat, NEW p \in 1..n, NEW E, NEW m \in Nat, NEW M,
         Shaped(L, n), L[p].op \in {"OTHER", "DECS"},
         \A i \in 1..p - 1 : M[i] = L[i],
         \A i \in 1..m : M[p - 1 + i] = E[i],
         \A i \in p + 1..n : M[i + m - 1] = L[i],
         \A i \in 1..m : Tied(E, m, i),
         Once(E, m),
         \A i \in 1..m, j \in 1..n :
           E[i].op \in Jumps \cup {"LABEL"} /\ L[j].op \in Jumps \cup {"LABEL"} => E[i].d # L[j].d,
         \/ L[p].op = "OTHER" /\ \A i \in 1..m : E[i].op \notin Bounds
         \/ L[p].op = "DECS" /\ \A i \in 0..m : Closes(E, m, i) <=> Opens(E, m, i + 1)
  PROVE  Shaped(M, n + m - 1)
<1>. DEFINE q == n + m - 1
            up(i) == IF i < p THEN i ELSE i + m - 1
            in(i) == p - 1 + i
<1>0. p \in Nat /\ p >= 1 /\ p <= n /\ q \in Nat
  OBVIOUS
<1>1. \A i \in 1..n \ {p} : /\ up(i) \in 1..q /\ M[up(i)] = L[i]
                            /\ up(i) < p \/ up(i) > p - 1 + m
  <2>. SUFFICES ASSUME NEW i \in 1..n \ {p}
                PROVE  /\ up(i) \in 1..q /\ M[up(i)] = L[i]
                       /\ up(i) < p \/ up(i) > p - 1 + m
    OBVIOUS
  <2>1. CASE i < p
    BY <1>0, <2>1
  <2>2. CASE i > p
    <3>1. i \in p + 1..n /\ up(i) = i + m - 1
      BY <1>0, <2>2
    <3>. QED BY <1>0, <2>2, <3>1
  <2>. QED BY <1>0, <2>1, <2>2
<1>2. \A i, j \in 1..n \ {p} : i < j <=> up(i) < up(j)
  BY <1>0
<1>3. \A i \in 1..m : in(i) \in 1..q /\ M[in(i)] = E[i] /\ p <= in(i) /\ in(i) <= p - 1 + m
  BY <1>0
<1>4. \A k \in 1..q : (\E i \in 1..n \ {p} : k = up(i)) \/ (\E i \in 1..m : k = in(i))
  <2>. SUFFICES ASSUME NEW k \in 1..q
                PROVE  (\E i \in 1..n \ {p} : k = up(i)) \/ (\E i \in 1..m : k = in(i))
    OBVIOUS
  <2>1. CASE k < p
    <3>1. k \in 1..n \ {p} /\ k = up(k)
      BY <1>0, <2>1
    <3>. QED BY <3>1
  <2>2. CASE k >= p /\ k <= p - 1 + m
    <3>1. k - (p - 1) \in 1..m /\ k = in(k - (p - 1))
      BY <1>0, <2>2
    <3>. QED BY <3>1
  <2>3. CASE k > p - 1 + m
    <3>1. k - m + 1 \in 1..n \ {p} /\ k = up(k - m + 1)
      BY <1>0, <2>3
    <3>. QED BY <3>1
  <2>. QED BY <1>0, <2>1, <2>2, <2>3
<1>5. ASSUME NEW i \in 1..n \ {p}, NEW j \in 1..n \ {p}, Clear(L, i, j)
      PROVE  Clear(M, up(i), up(j))
  <2>. SUFFICES ASSUME NEW k \in Nat, (up(i) < k /\ k < up(j)) \/ (up(j) < k /\ k < up(i))
                PROVE  M[k].op \notin Bounds
    BY DEF Clear
  <2>1. k \in 1..q
    BY <1>1
  <2>2. CASE \E e \in 1..n \ {p} : k = up(e)
    <3>1. PICK e \in 1..n \ {p} : k = up(e)
      BY <2>2
    <3>2. e \in Nat /\ ((i < e /\ e < j) \/ (j < e /\ e < i))
      BY <1>2, <3>1
    <3>3. L[e].op \notin Bounds
      BY <1>5, <3>2, Zenon DEF Clear
    <3>. QED BY <1>1, <3>1, <3>3
  <2>3. CASE \E e \in 1..m : k = in(e)
    <3>1. PICK e \in 1..m : k = in(e)
      BY <2>3
    <3>2. p <= k /\ k <= p - 1 + m
      BY <1>3, <3>1
    <3>3. p \in Nat /\ ((i < p /\ p < j) \/ (j < p /\ p < i))
      BY <1>0, <3>2
    <3>4. L[p].op \notin Bounds
      BY <1>5, <3>3, Zenon DEF Clear
    <3>5. E[e].op \notin Bounds
      BY <3>4 DEF Bounds
    <3>. QED BY <1>3, <3>1, <3>5
  <2>. QED BY <1>4, <2>1, <2>2, <2>3
<1>6. ASSUME NEW i \in 1..m, NEW j \in 1..m, Clear(E, i, j)
      PROVE  Clear(M, in(i), in(j))
  <2>. SUFFICES ASSUME NEW k \in Nat, (in(i) < k /\ k < in(j)) \/ (in(j) < k /\ k < in(i))
                PROVE  M[k].op \notin Bounds
    BY DEF Clear
  <2>. DEFINE e == k - (p - 1)
  <2>1. e \in 1..m /\ e \in Nat /\ ((i < e /\ e < j) \/ (j < e /\ e < i)) /\ k = in(e)
    BY <1>0
  <2>. HIDE DEF e
  <2>2. E[e].op \notin Bounds
    BY <1>6, <2>1, Zenon DEF Clear
  <2>. QED BY <1>3, <2>1, <2>2
<1>. HIDE DEF up, in
<1>7. ASSUME NEW k \in 1..q PROVE Tied(M, q, k)
  <2>1. CASE \E i \in 1..n \ {p} : k = up(i)
    <3>1. PICK i \in 1..n \ {p} : k = up(i)
      BY <2>1
    <3>2. Tied(L, n, i) /\ M[k] = L[i] /\ i \in 1..n
      BY <1>1, <3>1 DEF Shaped
    <3>3. ASSUME L[i].op = "FN_END"
          PROVE  \E j \in 1..q : /\ M[j].op = "FN_START" /\ M[j].d = L[i].d /\ j < k
                                 /\ Clear(M, k, j)
      <4>1. PICK j \in 1..n : /\ L[j].op = "FN_START" /\ L[j].d = L[i].d /\ j < i
                              /\ Clear(L, i, j)
        BY <3>2, <3>3 DEF Tied
      <4>2. j \in 1..n \ {p}
        BY <4>1
      <4>3. up(j) \in 1..q /\ M[up(j)] = L[j] /\ up(j) < up(i) /\ Clear(M, up(i), up(j))
        BY <1>1, <1>2, <1>5, <4>1, <4>2
      <4>. QED BY <3>1, <4>1, <4>3
    <3>4. ASSUME L[i].op \in Jumps
          PROVE  \E j \in 1..q : M[j].op = "LABEL" /\ M[j].d = L[i].d /\ Clear(M, k, j)
      <4>1. PICK j \in 1..n : L[j].op = "LABEL" /\ L[j].d = L[i].d /\ Clear(L, i, j)
        BY <3>2, <3>4 DEF Tied
      <4>2. j \in 1..n \ {p}
        BY <4>1
      <4>3. up(j) \in 1..q /\ M[up(j)] = L[j] /\ Clear(M, up(i), up(j))
        BY <1>1, <1>5, <4>1, <4>2
      <4>. QED BY <3>1, <4>1, <4>3
    <3>. QED BY <3>2, <3>3, <3>4 DEF Tied
  <2>2. CASE \E i \in 1..m : k = in(i)
    <3>1. PICK i \in 1..m : k = in(i)
      BY <2>2
    <3>2. Tied(E, m, i) /\ M[k] = E[i]
      BY <1>3, <3>1
    <3>3. ASSUME E[i].op = "FN_END"
          PROVE  \E j \in 1..q : /\ M[j].op = "FN_START" /\ M[j].d = E[i].d /\ j < k
                                 /\ Clear(M, k, j)
      <4>1. PICK j \in 1..m : /\ E[j].op = "FN_START" /\ E[j].d = E[i].d /\ j < i
                              /\ Clear(E, i, j)
        BY <3>2, <3>3 DEF Tied
      <4>2. in(j) \in 1..q /\ M[in(j)] = E[j] /\ in(j) < in(i) /\ Clear(M, in(i), in(j))
        BY <1>0, <1>3, <1>6, <4>1 DEF in
      <4>. QED BY <3>1, <4>1, <4>2
    <3>4. ASSUME E[i].op \in Jumps
          PROVE  \E j \in 1..q : M[j].op = "LABEL" /\ M[j].d = E[i].d /\ Clear(M, k, j)
      <4>1. PICK j \in 1..m : E[j].op = "LABEL" /\ E[j].d = E[i].d /\ Clear(E, i, j)
        BY <3>2, <3>4 DEF Tied
      <4>2. in(j) \in 1..q /\ M[in(j)] = E[j] /\ Clear(M, in(i), in(j))
        BY <1>3, <1>6, <4>1
      <4>. QED BY <3>1, <4>1, <4>2
    <3>. QED BY <3>2, <3>3, <3>4 DEF Tied
  <2>. QED BY <1>4, <2>1, <2>2
<1>8. Once(M, q)
  <2>. DEFINE Same(x, y) == \/ x.op = "LABEL" /\ y.op = "LABEL"
                            \/ x.op \in Jumps /\ y.op \in Jumps
  <2>. SUFFICES ASSUME NEW i \in 1..q, NEW j \in 1..q, i # j, Same(M[i], M[j])
                PROVE  M[i].d # M[j].d
    BY DEF Once
  <2>1. \A a, b \in 1..n : a # b /\ Same(L[a], L[b]) => L[a].d # L[b].d
    BY DEF Shaped, Once
  <2>2. \A a, b \in 1..m : a # b /\ Same(E[a], E[b]) => E[a].d # E[b].d
    BY DEF Once
  <2>3. \A a \in 1..m, b \in 1..n :
          Same(E[a], L[b]) \/ Same(L[b], E[a]) => E[a].d # L[b].d
    OBVIOUS
  <2>. HIDE DEF Same
  <2>4. CASE \E a \in 1..n \ {p} : i = up(a)
    <3>1. PICK a \in 1..n \ {p} : i = up(a)
      BY <2>4
    <3>2. CASE \E b \in 1..n \ {p} : j = up(b)
      BY <1>1, <2>1, <3>1, <3>2
    <3>3. CASE \E b \in 1..m : j = in(b)
      BY <1>1, <1>3, <2>3, <3>1, <3>3
    <3>. QED BY <1>4, <3>2, <3>3
  <2>5. CASE \E a \in 1..m : i = in(a)
    <3>1. PICK a \in 1..m : i = in(a)
      BY <2>5
    <3>2. CASE \E b \in 1..n \ {p} : j = up(b)
      BY <1>1, <1>3, <2>3, <3>1, <3>2
    <3>3. CASE \E b \in 1..m : j = in(b)
      BY <1>3, <2>2, <3>1, <3>3
    <3>. QED BY <1>4, <3>2, <3>3
  <2>. QED BY <1>4, <2>4, <2>5
<1>9. ASSUME NEW k \in 0..q PROVE Closes(M, q, k) <=> Opens(M, q, k + 1)
  <2>1. \A i \in 0..n : Closes(L, n, i) <=> Opens(L, n, i + 1)
    BY DEF Shaped
  <2>2. \A i \in 0..p - 1 : Closes(M, q, i) <=> Closes(L, n, i)
    <3>. SUFFICES ASSUME NEW i \in 0..p - 1 PROVE Closes(M, q, i) <=> Closes(L, n, i)
      OBVIOUS
    <3>1. i # 0 => i \in 1..n /\ i \in 1..q /\ M[i] = L[i]
      BY <1>0
    <3>. QED BY <3>1 DEF Closes
  <2>3. \A i \in 1..p - 1 : Opens(M, q, i) <=> Opens(L, n, i)
    <3>. SUFFICES ASSUME NEW i \in 1..p - 1 PROVE Opens(M, q, i) <=> Opens(L, n, i)
      OBVIOUS
    <3>1. i \in 1..n /\ i \in 1..q /\ M[i] = L[i] /\ i # n + 1 /\ i # q + 1
      BY <1>0
    <3>. QED BY <3>1 DEF Opens
  <2>4. \A i \in p + 1..n : Closes(M, q, i + m - 1) <=> Closes(L, n, i)
    <3>. SUFFICES ASSUME NEW i \in p + 1..n PROVE Closes(M, q, i + m - 1) <=> Closes(L, n, i)
      OBVIOUS
    <3>1. /\ i \in 1..n /\ i + m - 1 \in 1..q /\ M[i + m - 1] = L[i] /\ i # 0
          /\ i + m - 1 # 0
      BY <1>0
    <3>. QED BY <3>1 DEF Closes
  <2>5. \A i \in p + 1..n + 1 : Opens(M, q, i + m - 1) <=> Opens(L, n, i)
    <3>. SUFFICES ASSUME NEW i \in p + 1..n + 1 PROVE Opens(M, q, i + m - 1) <=> Opens(L, n, i)
      OBVIOUS
    <3>1. CASE i = n + 1
      BY <1>0, <3>1 DEF Opens
    <3>2. CASE i # n + 1
      <4>1. /\ i \in 1..n /\ i + m - 1 \in 1..q /\ M[i + m - 1] = L[i] /\ i # n + 1
            /\ i + m - 1 # q + 1
        BY <1>0, <3>2
      <4>. QED BY <4>1 DEF Opens
    <3>. QED BY <3>1, <3>2
  <2>6. \A i \in 1..m : /\ Closes(M, q, p - 1 + i) <=> E[i].op \in {"FN_END", "DECS"}
                        /\ Opens(M, q, p - 1 + i) <=> E[i].op \in {"FN_START", "DECS"}
    <3>. SUFFICES ASSUME NEW i \in 1..m
                  PROVE  /\ Closes(M, q, p - 1 + i) <=> E[i].op \in {"FN_END", "DECS"}
                         /\ Opens(M, q, p - 1 + i) <=> E[i].op \in {"FN_START", "DECS"}
      OBVIOUS
    <3>1. p - 1 + i \in 1..q /\ M[p - 1 + i] = E[i] /\ p - 1 + i # q + 1 /\ p - 1 + i # 0
      BY <1>0
    <3>. QED BY <3>1 DEF Opens, Closes
  <2>7. \A i \in 1..m : /\ Closes(E, m, i) <=> E[i].op \in {"FN_END", "DECS"}
                        /\ Opens(E, m, i) <=> E[i].op \in {"FN_START", "DECS"}
    <3>. SUFFICES ASSUME NEW i \in 1..m
                  PROVE  /\ Closes(E, m, i) <=> E[i].op \in {"FN_END", "DECS"}
                         /\ Opens(E, m, i) <=> E[i].op \in {"FN_START", "DECS"}
      OBVIOUS
    <3>1. i # 0 /\ i # m + 1
      OBVIOUS
    <3>. QED BY <3>1 DEF Opens, Closes
  \* What surrounds the place, and what the new marks begin and end with.
  <2>8. /\ Closes(L, n, p - 1) <=> L[p].op = "DECS"
        /\ Opens(L, n, p + 1) <=> L[p].op = "DECS"
    <3>1. Opens(L, n, p) <=> L[p].op = "DECS"
      BY <1>0 DEF Opens
    <3>2. Closes(L, n, p) <=> L[p].op = "DECS"
      BY <1>0 DEF Closes
    <3>3. p - 1 \in 0..n /\ p \in 0..n /\ p - 1 + 1 = p
      BY <1>0
    <3>. QED BY <2>1, <3>1, <3>2, <3>3
  <2>9. m > 0 => /\ E[1].op \in {"FN_START", "DECS"} <=> L[p].op = "DECS"
                 /\ E[m].op \in {"FN_END", "DECS"} <=> L[p].op = "DECS"
    <3>. SUFFICES ASSUME m > 0
                  PROVE  /\ E[1].op \in {"FN_START", "DECS"} <=> L[p].op = "DECS"
                         /\ E[m].op \in {"FN_END", "DECS"} <=> L[p].op = "DECS"
      OBVIOUS
    <3>1. 1 \in 1..m /\ m \in 1..m /\ 0 \in 0..m /\ m \in 0..m
      OBVIOUS
    <3>2. CASE L[p].op = "OTHER"
      BY <3>1, <3>2 DEF Bounds
    <3>3. CASE L[p].op = "DECS"
      <4>1. \A i \in 0..m : Closes(E, m, i) <=> Opens(E, m, i + 1)
        BY <3>3
      <4>2. Closes(E, m, 0) /\ Opens(E, m, m + 1)
        BY DEF Closes, Opens
      <4>3. Opens(E, m, 1) /\ Closes(E, m, m)
        BY <3>1, <4>1, <4>2
      <4>. QED BY <2>7, <3>1, <3>3, <4>3
    <3>. QED BY <3>2, <3>3
  <2>10. CASE k < p - 1
    <3>1. k \in 0..p - 1 /\ k + 1 \in 1..p - 1 /\ k \in 0..n
      BY <1>0, <2>10
    <3>. QED BY <2>1, <2>2, <2>3, <3>1
  <2>11. CASE k = p - 1 /\ m = 0
    <3>1. Opens(M, q, k + 1) <=> Opens(L, n, p + 1)
      <4>1. p + 1 \in p + 1..n + 1 /\ p + 1 + m - 1 = k + 1
        BY <1>0, <2>11
      <4>. QED BY <2>5, <4>1
    <3>2. Closes(M, q, k) <=> Closes(L, n, p - 1)
      <4>1. k \in 0..p - 1
        BY <1>0, <2>11
      <4>. QED BY <2>2, <2>11, <4>1
    <3>. QED BY <2>8, <3>1, <3>2
  <2>12. CASE k = p - 1 /\ m > 0
    <3>1. Closes(M, q, k) <=> Closes(L, n, p - 1)
      <4>1. k \in 0..p - 1
        BY <1>0, <2>12
      <4>. QED BY <2>2, <2>12, <4>1
    <3>2. Opens(M, q, k + 1) <=> E[1].op \in {"FN_START", "DECS"}
      <4>1. 1 \in 1..m /\ p - 1 + 1 = k + 1
        BY <2>12
      <4>. QED BY <2>6, <4>1
    <3>. QED BY <2>8, <2>9, <2>12, <3>1, <3>2
  <2>13. CASE k > p - 1 /\ k < p - 1 + m
    <3>. DEFINE i == k - (p - 1)
    <3>1. /\ i \in 1..m /\ i + 1 \in 1..m /\ k = p - 1 + i /\ k + 1 = p - 1 + (i + 1)
          /\ i \in 0..m
      BY <1>0, <2>13
    <3>. HIDE DEF i
    <3>2. /\ Closes(M, q, k) <=> E[i].op \in {"FN_END", "DECS"}
          /\ Opens(M, q, k + 1) <=> E[i + 1].op \in {"FN_START", "DECS"}
      BY <2>6, <3>1
    <3>3. CASE L[p].op = "OTHER"
      BY <3>1, <3>2, <3>3 DEF Bounds
    <3>4. CASE L[p].op = "DECS"
      <4>1. Closes(E, m, i) <=> Opens(E, m, i + 1)
        BY <3>1, <3>4
      <4>. QED BY <2>7, <3>1, <3>2, <4>1
    <3>. QED BY <3>3, <3>4
  <2>14. CASE k = p - 1 + m /\ m > 0
    <3>1. Opens(M, q, k + 1) <=> Opens(L, n, p + 1)
      <4>1. p + 1 \in p + 1..n + 1 /\ p + 1 + m - 1 = k + 1
        BY <1>0, <2>14
      <4>. QED BY <2>5, <4>1
    <3>2. Closes(M, q, k) <=> E[m].op \in {"FN_END", "DECS"}
      <4>1. m \in 1..m
        BY <2>14
      <4>. QED BY <2>6, <2>14, <4>1
    <3>. QED BY <2>8, <2>9, <2>14, <3>1, <3>2
  <2>15. CASE k > p - 1 + m
    <3>. DEFINE i == k - m + 1
    <3>1. /\ i \in p + 1..n /\ i + 1 \in p + 1..n + 1 /\ i \in 0..n
          /\ k = i + m - 1 /\ k + 1 = i + 1 + m - 1
      BY <1>0, <2>15
    <3>. HIDE DEF i
    <3>. QED BY <2>1, <2>4, <2>5, <3>1
  <2>. QED BY <1>0, <2>10, <2>11, <2>12, <2>13, <2>14, <2>15
<1>. QED BY <1>7, <1>8, <1>9 DEF Shaped

-----------------------------------------------------------------------------
(* One step of the walk                                                    *)

\* A list, of whatever.
Listed(w) == \E S : w \in Seq(S)

\* M has E, m marks long, in the place of the p-th of the n of L.
Replaces(L, n, p, E, m, M) ==
  /\ n \in Nat /\ p \in 1..n /\ m \in Nat
  /\ \A i \in 1..p - 1 : M[i] = L[i]
  /\ \A i \in 1..m : M[p - 1 + i] = E[i]
  /\ \A i \in p + 1..n : M[i + m - 1] = L[i]

\* What a step puts in the place of the entry it takes: lines of code, then
\* entries of work.
LEMMA PlanStep ==
  ASSUME NEW c, NEW w, NEW ls, NEW is, Listed(c), Listed(w), Listed(ls), Listed(is), w # <<>>
  PROVE  /\ Replaces(Plan(c, w), Len(c) + Len(w), Len(c) + 1,
                     Plan(ls, is), Len(ls) + Len(is), Plan(c \o ls, is \o Tail(w)))
         /\ Plan(c, w)[Len(c) + 1] = MarkOf(Head(w))
         /\ Len(c \o ls) + Len(is \o Tail(w)) = Len(c) + Len(w) + (Len(ls) + Len(is)) - 1
<1>. DEFINE n == Len(c) + Len(w)
            p == Len(c) + 1
            m == Len(ls) + Len(is)
            c2 == c \o ls
            w2 == is \o Tail(w)
<1>1. /\ Len(c) \in Nat /\ Len(w) \in Nat /\ Len(w) >= 1
      /\ Len(ls) \in Nat /\ Len(is) \in Nat /\ Head(w) = w[1]
      /\ Len(Tail(w)) = Len(w) - 1
      /\ \A i \in 1..Len(w) - 1 : Tail(w)[i] = w[i + 1]
  BY HeadTailProperties DEF Listed
<1>2. /\ Len(c2) = Len(c) + Len(ls)
      /\ \A i \in 1..Len(c) : c2[i] = c[i]
      /\ \A i \in 1..Len(ls) : c2[Len(c) + i] = ls[i]
  <2>1. PICK S, T : c \in Seq(S) /\ ls \in Seq(T)
    BY DEF Listed
  <2>2. c \in Seq(S \cup T) /\ ls \in Seq(S \cup T)
    BY <2>1
  <2>. QED BY <1>1, <2>2, ConcatProperties
<1>3. /\ Len(w2) = Len(is) + Len(w) - 1
      /\ \A i \in 1..Len(is) : w2[i] = is[i]
      /\ \A i \in 1..Len(w) - 1 : w2[Len(is) + i] = w[i + 1]
  <2>1. PICK S, T : w \in Seq(S) /\ is \in Seq(T)
    BY DEF Listed
  <2>2. Tail(w) \in Seq(S)
    BY <2>1, HeadTailProperties
  <2>3. Tail(w) \in Seq(S \cup T) /\ is \in Seq(S \cup T)
    BY <2>1, <2>2
  <2>4. /\ Len(w2) = Len(is) + Len(Tail(w))
        /\ \A i \in 1..Len(is) + Len(Tail(w)) :
             w2[i] = IF i <= Len(is) THEN is[i] ELSE Tail(w)[i - Len(is)]
    BY <2>3, ConcatProperties
  <2>. HIDE DEF w2
  <2>5. ASSUME NEW i \in 1..Len(is) PROVE w2[i] = is[i]
    BY <1>1, <2>4
  <2>6. ASSUME NEW i \in 1..Len(w) - 1 PROVE w2[Len(is) + i] = w[i + 1]
    <3>. DEFINE k == Len(is) + i
    <3>1. k \in 1..Len(is) + Len(Tail(w)) /\ ~(k <= Len(is)) /\ k - Len(is) = i
      BY <1>1
    <3>2. Tail(w)[i] = w[i + 1]
      BY <1>1
    <3>. HIDE DEF k
    <3>3. w2[k] = Tail(w)[k - Len(is)]
      BY <2>4, <3>1
    <3>4. w2[k] = Tail(w)[i]
      BY <3>1, <3>3
    <3>. QED BY <3>2, <3>4 DEF k
  <2>. QED BY <1>1, <2>4, <2>5, <2>6
<1>. HIDE DEF c2, w2
<1>4. /\ n \in Nat /\ p \in 1..n /\ m \in Nat /\ Len(c2) + Len(w2) = n + m - 1
  BY <1>1, <1>2, <1>3
<1>5. Plan(c, w)[p] = MarkOf(Head(w))
  BY <1>1 DEF Plan
<1>6. ASSUME NEW i \in 1..p - 1 PROVE Plan(c2, w2)[i] = Plan(c, w)[i]
  <2>1. i <= Len(c) /\ i <= Len(c2) /\ i \in 1..n /\ i \in 1..Len(c2) + Len(w2) /\ c2[i] = c[i]
    BY <1>1, <1>2, <1>3
  <2>. QED BY <2>1 DEF Plan
<1>7. ASSUME NEW i \in 1..m PROVE Plan(c2, w2)[p - 1 + i] = Plan(ls, is)[i]
  <2>1. CASE i <= Len(ls)
    <3>1. /\ p - 1 + i \in 1..Len(c2) + Len(w2) /\ p - 1 + i <= Len(c2) /\ i \in 1..m
          /\ c2[p - 1 + i] = ls[i]
      BY <1>1, <1>2, <1>3, <2>1
    <3>. QED BY <2>1, <3>1 DEF Plan
  <2>2. CASE i > Len(ls)
    <3>1. /\ p - 1 + i \in 1..Len(c2) + Len(w2) /\ ~(p - 1 + i <= Len(c2)) /\ ~(i <= Len(ls))
          /\ p - 1 + i - Len(c2) = i - Len(ls) /\ i - Len(ls) \in 1..Len(is)
      BY <1>1, <1>2, <1>3, <2>2
    <3>2. w2[i - Len(ls)] = is[i - Len(ls)]
      BY <1>3, <3>1
    <3>. QED BY <3>1, <3>2 DEF Plan
  <2>. QED BY <1>1, <2>1, <2>2
<1>8. ASSUME NEW i \in p + 1..n PROVE Plan(c2, w2)[i + m - 1] = Plan(c, w)[i]
  <2>. DEFINE j == i - Len(c)
  <2>1. /\ j \in 2..Len(w) /\ i \in 1..n /\ ~(i <= Len(c)) /\ ~(i + m - 1 <= Len(c2))
        /\ i + m - 1 \in 1..Len(c2) + Len(w2) /\ i + m - 1 - Len(c2) = Len(is) + (j - 1)
        /\ j - 1 \in 1..Len(w) - 1 /\ j - 1 + 1 = j
    BY <1>1, <1>2, <1>3
  <2>2. w2[Len(is) + (j - 1)] = w[j]
    BY <1>3, <2>1
  <2>. QED BY <2>1, <2>2 DEF Plan
<1>. QED BY <1>4, <1>5, <1>6, <1>7, <1>8 DEF Replaces, c2, w2

\* The symbols of the labels so far are symbols.
LEMMA OldLabels ==
  ASSUME WorkInv, NEW j \in 1..Len(code) + Len(work),
         Plan(code, work)[j].op \in Jumps \cup {"LABEL"}
  PROVE  Plan(code, work)[j].d \in DOMAIN syms \cup {NULL}
<1>1. /\ code \in Seq(Line) /\ Len(code) \in Nat
      /\ \A i \in 1..Len(code) : code[i].d \in DOMAIN syms \cup {NULL}
  BY DEF WorkInv, Lines, OperandsIn
<1>2. /\ work \in Seq(Item) /\ Len(work) \in Nat
      /\ \A i \in 1..Len(work) : work[i].d \in DOMAIN syms \cup {NULL}
  BY DEF WorkInv, Chain, Leads, Step, Fits
<1>3. \A op, d : Mark(op, d).op \in Jumps \cup {"LABEL"} => Mark(op, d).d = d
  BY DEF Mark, Jumps
<1>4. \A w : MarkOf(w).op \in Jumps \cup {"LABEL"} => MarkOf(w).d = w.d
  <2>. SUFFICES ASSUME NEW w, MarkOf(w).op \in Jumps \cup {"LABEL"} PROVE MarkOf(w).d = w.d
    OBVIOUS
  <2>1. MarkOf(w) = Mark(w.op, w.d)
    BY DEF MarkOf, Jumps
  <2>. QED BY <1>3, <2>1
<1>5. CASE j <= Len(code)
  <2>1. Plan(code, work)[j] = Mark(code[j].op, code[j].d) /\ j \in 1..Len(code)
    BY <1>1, <1>5 DEF Plan
  <2>. QED BY <1>1, <1>3, <2>1
<1>6. CASE j > Len(code)
  <2>1. Plan(code, work)[j] = MarkOf(work[j - Len(code)]) /\ j - Len(code) \in 1..Len(work)
    BY <1>1, <1>2, <1>6 DEF Plan
  <2>. QED BY <1>2, <1>4, <2>1
<1>. QED BY <1>1, <1>5, <1>6

LEMMA PlanNow ==
  ASSUME WorkInv, work # <<>>, NEW ls, NEW is, Listed(ls), Listed(is)
  PROVE  /\ Replaces(Plan(code, work), Len(code) + Len(work), Len(code) + 1,
                     Plan(ls, is), Len(ls) + Len(is), Plan(code \o ls, is \o Tail(work)))
         /\ Plan(code, work)[Len(code) + 1] = MarkOf(Head(work))
         /\ Len(code \o ls) + Len(is \o Tail(work)) =
              Len(code) + Len(work) + (Len(ls) + Len(is)) - 1
<1>1. Listed(code) /\ Listed(work)
  BY DEF Listed, WorkInv, Lines, Chain, Leads
<1>2. Plan(code, work)[Len(code) + 1] = MarkOf(Head(work))
  BY <1>1, PlanStep, Zenon
<1>3. Len(code \o ls) + Len(is \o Tail(work)) =
           Len(code) + Len(work) + (Len(ls) + Len(is)) - 1
  BY <1>1, PlanStep
<1>4. Replaces(Plan(code, work), Len(code) + Len(work), Len(code) + 1,
               Plan(ls, is), Len(ls) + Len(is), Plan(code \o ls, is \o Tail(work)))
  BY <1>1, PlanStep
<1>. QED BY <1>2, <1>3, <1>4

LEMMA ShapeStep ==
  ASSUME WorkInv, ShapeInv, work # <<>>, NEW ls, NEW is, Listed(ls), Listed(is),
         code' = code \o ls, work' = is \o Tail(work), NEW m, m = Len(ls) + Len(is),
         \A i \in 1..m : Tied(Plan(ls, is), m, i),
         Once(Plan(ls, is), m),
         \A i \in 1..m : Plan(ls, is)[i].op \in Jumps \cup {"LABEL"} =>
                           Plan(ls, is)[i].d \notin DOMAIN syms \cup {NULL},
         \/ /\ MarkOf(Now).op = "OTHER"
            /\ \A i \in 1..m : Plan(ls, is)[i].op \notin Bounds
         \/ /\ MarkOf(Now).op = "DECS"
            /\ \A i \in 0..m : Closes(Plan(ls, is), m, i) <=> Opens(Plan(ls, is), m, i + 1)
  PROVE  ShapeInv'
<1>. DEFINE n == Len(code) + Len(work)
            p == Len(code) + 1
            L == Plan(code, work)
            M == Plan(code \o ls, is \o Tail(work))
            E == Plan(ls, is)
<1>0. /\ Replaces(Plan(code, work), Len(code) + Len(work), Len(code) + 1,
                  Plan(ls, is), Len(ls) + Len(is), Plan(code \o ls, is \o Tail(work)))
      /\ Plan(code, work)[Len(code) + 1] = MarkOf(Head(work))
      /\ Len(code \o ls) + Len(is \o Tail(work)) =
           Len(code) + Len(work) + (Len(ls) + Len(is)) - 1
  BY PlanNow, Zenon
<1>2. /\ Replaces(L, n, p, E, m, M) /\ L[p] = MarkOf(Now)
      /\ Len(code \o ls) + Len(is \o Tail(work)) = n + m - 1
  BY <1>0 DEF Now
<1>3. \A i \in 1..m, j \in 1..n :
        E[i].op \in Jumps \cup {"LABEL"} /\ L[j].op \in Jumps \cup {"LABEL"} => E[i].d # L[j].d
  BY OldLabels
<1>4. Shaped(L, n)
  BY DEF ShapeInv
<1>5. \/ L[p].op = "OTHER" /\ \A i \in 1..m : E[i].op \notin Bounds
      \/ L[p].op = "DECS" /\ \A i \in 0..m : Closes(E, m, i) <=> Opens(E, m, i + 1)
  BY <1>2
<1>6. (\A i \in 1..m : Tied(E, m, i)) /\ Once(E, m)
  OBVIOUS
<1>7. ShapeInv' <=> Shaped(M, n + m - 1)
  BY <1>2 DEF ShapeInv
<1>. HIDE DEF n, p, L, M, E
<1>8. L[p].op \in {"OTHER", "DECS"}
  BY <1>5
<1>9. Shaped(M, n + m - 1)
  BY <1>2, <1>3, <1>4, <1>5, <1>6, <1>8, Spliced DEF Replaces
<1>. QED BY <1>7, <1>9

\* Marks that the flow graph does not see.
Quiet(w) == \E S : w \in Seq(S) /\ \A x \in S : MarkOf(x).op = "OTHER"
QuietLines(c) == \E S : c \in Seq(S) /\ \A x \in S : Mark(x.op, x.d).op = "OTHER"

LEMMA ShapeQuiet ==
  ASSUME WorkInv, ShapeInv, work # <<>>, MarkOf(Now).op = "OTHER",
         NEW ls, NEW is, QuietLines(ls), Quiet(is), code' = code \o ls, Walk(is)
  PROVE  ShapeInv'
<1>1. Listed(ls) /\ Listed(is) /\ work' = is \o Tail(work)
  BY DEF QuietLines, Quiet, Listed, Walk
<1>2. Len(ls) \in Nat /\ Len(is) \in Nat
  BY <1>1 DEF Listed
<1>3. /\ \A i \in 1..Len(ls) : Mark(ls[i].op, ls[i].d).op = "OTHER"
      /\ \A i \in 1..Len(is) : MarkOf(is[i]).op = "OTHER"
  BY ElementOfSeq DEF QuietLines, Quiet
<1>. DEFINE m == Len(ls) + Len(is)
<1>4. ASSUME NEW i \in 1..m PROVE Plan(ls, is)[i].op = "OTHER"
  <2>1. CASE i <= Len(ls)
    <3>1. i \in 1..Len(ls) /\ Plan(ls, is)[i] = Mark(ls[i].op, ls[i].d)
      BY <1>2, <2>1 DEF Plan
    <3>. QED BY <1>3, <3>1
  <2>2. CASE i > Len(ls)
    <3>1. i - Len(ls) \in 1..Len(is) /\ Plan(ls, is)[i] = MarkOf(is[i - Len(ls)])
      BY <1>2, <2>2 DEF Plan
    <3>. QED BY <1>3, <3>1
  <2>. QED BY <1>2, <2>1, <2>2
<1>5. \A i \in 1..m : Tied(Plan(ls, is), m, i)
  BY <1>4 DEF Tied, Jumps
<1>6. Once(Plan(ls, is), m)
  BY <1>4 DEF Once, Jumps
<1>7. \A i \in 1..m : Plan(ls, is)[i].op \notin Jumps \cup {"LABEL"} \cup Bounds
  BY <1>4 DEF Jumps, Bounds
<1>. HIDE DEF m
<1>. QED BY <1>1, <1>5, <1>6, <1>7, ShapeStep DEF m

\* An entry that is emitted.
LEMMA ShapeEmit ==
  ASSUME WorkInv, ShapeInv, work # <<>>, NEW x, code' = Append(code, x), Walk(<<>>),
         Mark(x.op, x.d) = MarkOf(Now)
  PROVE  ShapeInv'
<1>1. /\ code \in Seq(Line) /\ Len(code) \in Nat /\ work \in Seq(Item) /\ Len(work) \in Nat
      /\ Len(work) >= 1
  BY DEF WorkInv, Lines, Chain, Leads
<1>2. /\ Head(work) = work[1] /\ Tail(work) \in Seq(Item) /\ Len(Tail(work)) = Len(work) - 1
      /\ \A i \in 1..Len(work) - 1 : Tail(work)[i] = work[i + 1]
  BY <1>1, HeadTailProperties
<1>3. work' = Tail(work)
  BY <1>2 DEF Walk
<1>4. /\ Len(code') = Len(code) + 1 /\ code'[Len(code) + 1] = x
      /\ \A i \in 1..Len(code) : code'[i] = code[i]
  <2>1. code \in Seq(Line \cup {x}) /\ x \in Line \cup {x}
    BY <1>1
  <2>. QED BY <1>1, <2>1, AppendProperties
<1>. DEFINE n == Len(code) + Len(work)
<1>5. Len(code') + Len(work') = n
  BY <1>1, <1>2, <1>3, <1>4
<1>6. ASSUME NEW i \in 1..n
      PROVE  Plan(code', work')[i] = Plan(code, work)[i]
  <2>1. CASE i <= Len(code)
    BY <1>1, <1>4, <1>5, <2>1 DEF Plan
  <2>2. CASE i = Len(code) + 1
    <3>1. Plan(code, work)[i] = MarkOf(work[1])
      BY <1>1, <2>2 DEF Plan
    <3>2. Plan(code', work')[i] = Mark(x.op, x.d)
      BY <1>1, <1>4, <1>5, <2>2 DEF Plan
    <3>. QED BY <1>2, <3>1, <3>2 DEF Now
  <2>3. CASE i > Len(code) + 1
    <3>. DEFINE j == i - Len(code) - 1
    <3>1. j \in 1..Len(work) - 1 /\ i - Len(code) = j + 1 /\ i - Len(code') = j
      BY <1>1, <1>4, <2>3
    <3>2. work'[j] = work[j + 1]
      BY <1>2, <1>3, <3>1
    <3>3. ~(i <= Len(code)) /\ ~(i <= Len(code'))
      BY <1>1, <1>4, <2>3
    <3>. QED BY <1>5, <3>1, <3>2, <3>3 DEF Plan
  <2>. QED BY <1>1, <2>1, <2>2, <2>3
<1>7. Plan(code', work') = Plan(code, work)
  BY <1>5, <1>6 DEF Plan
<1>. QED BY <1>5, <1>7 DEF ShapeInv

-----------------------------------------------------------------------------
(* The steps that the flow graph does not see                              *)

LEMMA MarkQuiet ==
  ASSUME NEW f, f \notin {"gen_pf_dec_list", "emit1", "branch"},
         NEW op, NEW d, NEW r, NEW q
  PROVE  MarkOf(Do(f, op, d, r, q)).op = "OTHER"
BY DEF MarkOf, Do

LEMMA MarkEmit ==
  ASSUME NEW op, NEW d
  PROVE  MarkOf(Emit(op, d)) = Mark(op, d)
BY DEF MarkOf, Emit, Do

LEMMA MarkBranch ==
  ASSUME NEW op, NEW d, NEW r
  PROVE  MarkOf(Then("branch", op, d, r)) = Mark(op, d)
BY DEF MarkOf, Then, Do

LEMMA MarkOther ==
  ASSUME NEW op, op \notin Branches, op \notin {"JUMP", "LABEL", "FN_START", "FN_END"}, NEW d
  PROVE  Mark(op, d).op = "OTHER"
BY DEF Mark

LEMMA MarkSame ==
  ASSUME NEW op \in {"JUMP", "LABEL", "FN_START", "FN_END"}, NEW d
  PROVE  Mark(op, d) = [op |-> op, d |-> d]
BY DEF Mark, Branches

\* Entries the flow graph does not see the code of.
LEMMA MarkPlain ==
  ASSUME NEW f, f \notin {"gen_pf_dec_list", "emit1", "branch"}
  PROVE  /\ MarkOf(Gen(f)).op = "OTHER"
         /\ \A q : MarkOf(Expr(f, q)).op = "OTHER"
         /\ \A op, d, r : MarkOf(Then(f, op, d, r)).op = "OTHER"
BY MarkQuiet DEF Gen, Expr, Then

LEMMA QuietOf ==
  ASSUME NEW S, NEW w, w \in Seq(S), \A x \in S : MarkOf(x).op = "OTHER"
  PROVE  Quiet(w)
BY DEF Quiet

LEMMA QuietNone == Quiet(<<>>) /\ QuietLines(<<>>)
<1>. DEFINE S == {}
<1>1. /\ <<>> \in Seq(S)
      /\ \A x \in S : MarkOf(x).op = "OTHER" /\ Mark(x.op, x.d).op = "OTHER"
  OBVIOUS
<1>. HIDE DEF S
<1>. QED BY <1>1 DEF Quiet, QuietLines

LEMMA QuietOne ==
  ASSUME NEW u, MarkOf(u).op = "OTHER"
  PROVE  Quiet(<<u>>)
<1>. DEFINE S == {u}
<1>1. <<u>> \in Seq(S) /\ \A x \in S : MarkOf(x).op = "OTHER"
  OBVIOUS
<1>. HIDE DEF S
<1>. QED BY <1>1, QuietOf

LEMMA QuietTwo ==
  ASSUME NEW u, MarkOf(u).op = "OTHER", NEW v, MarkOf(v).op = "OTHER"
  PROVE  Quiet(<<u, v>>)
<1>. DEFINE S == {u, v}
<1>1. <<u, v>> \in Seq(S) /\ \A x \in S : MarkOf(x).op = "OTHER"
  OBVIOUS
<1>. HIDE DEF S
<1>. QED BY <1>1, QuietOf

LEMMA QuietThree ==
  ASSUME NEW u, MarkOf(u).op = "OTHER", NEW v, MarkOf(v).op = "OTHER",
         NEW w, MarkOf(w).op = "OTHER"
  PROVE  Quiet(<<u, v, w>>)
<1>. DEFINE S == {u, v, w}
<1>1. <<u, v, w>> \in Seq(S) /\ \A x \in S : MarkOf(x).op = "OTHER"
  OBVIOUS
<1>. HIDE DEF S
<1>. QED BY <1>1, QuietOf

LEMMA QuietJoin ==
  ASSUME NEW u, NEW v, Quiet(u), Quiet(v)
  PROVE  Quiet(u \o v)
<1>1. PICK S : u \in Seq(S) /\ \A x \in S : MarkOf(x).op = "OTHER"
  BY DEF Quiet
<1>2. PICK T : v \in Seq(T) /\ \A x \in T : MarkOf(x).op = "OTHER"
  BY DEF Quiet
<1>3. u \in Seq(S \cup T) /\ v \in Seq(S \cup T)
  BY <1>1, <1>2
<1>4. u \o v \in Seq(S \cup T) /\ \A x \in S \cup T : MarkOf(x).op = "OTHER"
  BY <1>1, <1>2, <1>3, ConcatProperties
<1>. QED BY <1>4 DEF Quiet

\* No code, or one instruction.
LEMMA ShapeWalk ==
  ASSUME WorkInv, ShapeInv, NEW f, At(f), f \notin {"gen_pf_dec_list", "emit1", "branch"},
         NEW is, Quiet(is), UNCHANGED code, Walk(is)
  PROVE  ShapeInv'
<1>1. work # <<>> /\ MarkOf(Now).op = "OTHER"
  BY DEF At, Now, MarkOf
<1>2. code' = code \o <<>>
  BY DEF WorkInv, Lines
<1>. QED BY <1>1, <1>2, QuietNone, ShapeQuiet

LEMMA ShapeLine ==
  ASSUME WorkInv, ShapeInv, NEW f, At(f), f \notin {"gen_pf_dec_list", "emit1", "branch"},
         NEW x, Mark(x.op, x.d).op = "OTHER", code' = Append(code, x), Walk(<<>>)
  PROVE  ShapeInv'
<1>1. work # <<>> /\ MarkOf(Now) = [op |-> "OTHER"]
  BY DEF At, Now, MarkOf
<1>2. Mark(x.op, x.d) = [op |-> "OTHER"]
  BY DEF Mark, Branches
<1>. QED BY <1>1, <1>2, ShapeEmit

LEMMA AtQuiet ==
  ASSUME NEW f, At(f), f \notin {"gen_pf_dec_list", "emit1", "branch"}
  PROVE  work # <<>> /\ MarkOf(Now).op = "OTHER" /\ Now.do = f
BY DEF At, Now, MarkOf

LEMMA ShapeStatement ==
  ASSUME WorkInv, ShapeInv,
         null_stmt \/ gen_comp_stmt \/ gen_assign_stmt \/ gen_for_stmt
  PROVE  ShapeInv'
<1>1. CASE null_stmt
  BY <1>1, QuietNone, ShapeWalk DEF null_stmt
<1>2. CASE gen_comp_stmt
  <2>1. Quiet(<<Gen("gen_stmt")>>) /\ Quiet(<<Gen("gen_stmt"), Gen("gen_comp_stmt")>>)
    BY MarkPlain, QuietOne, QuietTwo
  <2>. QED BY <1>2, <2>1, ShapeWalk DEF gen_comp_stmt
<1>3. CASE gen_assign_stmt
  <2>1. \A d : /\ Quiet(<<Gen("gen_expr"), Then("store_var", "STORE_VAR", d, NULL)>>)
               /\ Quiet(<<Gen("gen_expr"), Gen("gen_expr"),
                          Then("store_array", "STORE_ARRAY", d, NULL)>>)
    BY MarkPlain, QuietTwo, QuietThree
  <2>. QED BY <1>3, <2>1, ShapeWalk DEF gen_assign_stmt
<1>4. CASE gen_for_stmt
  <2>1. \A d, step : Quiet(<<Gen("gen_expr"), Gen("gen_expr"), Then("for", step, d, NULL)>>)
    BY MarkPlain, QuietThree
  <2>. QED BY <1>4, <2>1, ShapeWalk DEF gen_for_stmt
<1>. QED BY <1>1, <1>2, <1>3, <1>4

LEMMA ShapeExpression ==
  ASSUME WorkInv, ShapeInv,
         \/ gen_expr \/ terms \/ gen_term \/ factors
         \/ id_factor \/ number_factor \/ array_factor \/ expr_factor
  PROVE  ShapeInv'
<1>1. CASE gen_expr
  <2>1. \A q, op : /\ Quiet(<<Expr("gen_term", q), Expr("terms", q)>>)
                   /\ Quiet(<<Expr("gen_term", q), Then("sign", op, NULL, NULL),
                              Expr("terms", q)>>)
    BY MarkPlain, QuietTwo, QuietThree
  <2>. QED BY <1>1, <2>1, ShapeWalk DEF gen_expr
<1>2. CASE terms
  <2>1. \A q, op : Quiet(<<Expr("gen_term", q), Then("binary", op, NULL, NULL), Now>>)
    BY <1>2, AtQuiet, MarkPlain, QuietThree DEF terms
  <2>. QED BY <1>2, <2>1, QuietNone, ShapeWalk DEF terms
<1>3. CASE gen_term
  <2>1. \A q : Quiet(<<Expr("gen_factor", q), Expr("factors", q)>>)
    BY MarkPlain, QuietTwo
  <2>. QED BY <1>3, <2>1, ShapeWalk DEF gen_term
<1>4. CASE factors
  <2>1. \A q, op : Quiet(<<Expr("gen_factor", q), Then("binary", op, NULL, NULL), Now>>)
    BY <1>4, AtQuiet, MarkPlain, QuietThree DEF factors
  <2>. QED BY <1>4, <2>1, QuietNone, ShapeWalk DEF factors
<1>5. CASE id_factor
  BY <1>5, QuietNone, ShapeWalk DEF id_factor
<1>6. CASE number_factor
  BY <1>6, QuietNone, ShapeWalk DEF number_factor
<1>7. CASE array_factor
  <2>1. \A r : Quiet(<<Gen("gen_expr"), Then("load_array", "LOAD_ARRAY", NULL, r)>>)
    BY MarkPlain, QuietTwo
  <2>. QED BY <1>7, <2>1, ShapeWalk DEF array_factor
<1>8. CASE expr_factor
  <2>1. \A q : Quiet(<<Expr("gen_expr", q)>>)
    BY MarkPlain, QuietOne
  <2>. QED BY <1>8, <2>1, ShapeWalk DEF expr_factor
<1>. QED BY <1>1, <1>2, <1>3, <1>4, <1>5, <1>6, <1>7, <1>8

LEMMA ShapeRead ==
  ASSUME WorkInv, ShapeInv, gen_read_stmt
  PROVE  ShapeInv'
<1>0. At("gen_stmt") /\ UNCHANGED code
  BY DEF gen_read_stmt
<1>1. PICK d \in Sids(Variables) : Walk(<<Emit(READ_OP[Declared[d].type], d)>>)
  BY DEF gen_read_stmt
<1>2. Declared[d].type \in {"INT", "UINT", "CHAR"}
  BY SidsDeclared DEF WorkInv, Variables, Parameter
<1>3. READ_OP[Declared[d].type] \in {"READ_INT", "READ_UINT", "READ_CHAR"}
  BY <1>2 DEF READ_OP
<1>. DEFINE op == READ_OP[Declared[d].type]
<1>. HIDE DEF op
<1>4. op \notin Branches /\ op \notin {"JUMP", "LABEL", "FN_START", "FN_END"}
  BY <1>3 DEF Branches, op
<1>5. Quiet(<<Emit(op, d)>>)
  BY <1>4, MarkEmit, MarkOther, QuietOne
<1>. QED BY <1>0, <1>1, <1>5, ShapeWalk DEF op

LEMMA ShapeWrite ==
  ASSUME WorkInv, ShapeInv, gen_write_stmt
  PROVE  ShapeInv'
<1>0. At("gen_stmt") /\ UNCHANGED code
  BY DEF gen_write_stmt
<1>1. MarkOf(Emit("WRITE_STRING", NewSid)).op = "OTHER"
  BY MarkEmit, MarkOther DEF Branches
<1>2. /\ Quiet(<<Gen("gen_expr"), Then("write", "ID_WRITE", NULL, NULL)>>)
      /\ Quiet(<<Emit("WRITE_STRING", NewSid)>>)
      /\ Quiet(<<Emit("WRITE_STRING", NewSid), Gen("gen_expr"),
                 Then("write", "STRID_WRITE", NULL, NULL)>>)
  BY <1>1, MarkPlain, QuietOne, QuietTwo, QuietThree
<1>. QED BY <1>0, <1>2, ShapeWalk DEF gen_write_stmt

\* The arguments, whatever they are.
LEMMA QuietArgs ==
  ASSUME NEW e \in Routine
  PROVE  Quiet(gen_arg_list(e))
<1>. DEFINE S == {Do("gen_arg", op, NULL, NULL, TRUE) : op \in Parameter}
            l == [i \in DOMAIN Params[e] |-> Do("gen_arg", Params[e][i], NULL, NULL, TRUE)]
<1>1. Params[e] \in Seq(Parameter)
  BY ParamsType
<1>2. /\ DOMAIN Params[e] = 1..Len(Params[e]) /\ Len(Params[e]) \in Nat
      /\ \A i \in DOMAIN Params[e] : Params[e][i] \in Parameter
  BY <1>1, ElementOfSeq
<1>3. l \in Seq(S) /\ DOMAIN l = 1..Len(l) /\ Len(l) \in Nat
  <2>1. \A i \in 1..Len(Params[e]) : l[i] \in S
    BY <1>2
  <2>. HIDE DEF S
  <2>2. l \in [1..Len(Params[e]) -> S]
    BY <1>2, <2>1
  <2>. HIDE DEF l
  <2>. QED BY <1>2, <2>2
<1>4. \A x \in S : MarkOf(x).op = "OTHER"
  <2>1. \A op : MarkOf(Do("gen_arg", op, NULL, NULL, TRUE)).op = "OTHER"
    BY MarkQuiet
  <2>. QED BY <2>1
<1>. HIDE DEF S, l
<1>5. Reverse(l) \in Seq(S)
  BY <1>3 DEF Reverse
<1>. QED BY <1>4, <1>5, QuietOf DEF gen_arg_list, l

LEMMA ShapeCalls ==
  ASSUME WorkInv, ShapeInv, gen_pcall_stmt \/ gen_fcall_stmt
  PROVE  ShapeInv'
<1>1. \A e \in Routine : \A d, r : Quiet(gen_arg_list(e) \o <<Then("call", "CALL", d, r)>>)
  BY MarkPlain, QuietOne, QuietArgs, QuietJoin
<1>2. \A e \in Sids({"PROC"}) \cup Sids({"FUNCTION"}) : e \in Routine
  BY DEF Sids, InTable, Routine
<1>3. CASE gen_pcall_stmt
  BY <1>1, <1>2, <1>3, ShapeWalk DEF gen_pcall_stmt
<1>4. CASE gen_fcall_stmt
  BY <1>1, <1>2, <1>4, ShapeWalk DEF gen_fcall_stmt
<1>. QED BY <1>3, <1>4

LEMMA ShapeArg ==
  ASSUME WorkInv, ShapeInv, gen_arg
  PROVE  ShapeInv'
<1>1. At("gen_arg") /\ UNCHANGED code /\ Fits(syms, Now) /\ Now.do = "gen_arg"
  BY AtEntry DEF gen_arg
<1>2. Now.op \in Parameter
  BY <1>1, TaskOps DEF Fits
<1>3. \A d : MarkOf(Emit("PUSH_ADDR", d)).op = "OTHER"
  BY MarkEmit, MarkOther DEF Branches
<1>4. \A d : /\ Quiet(<<Expr("gen_expr", TRUE), Then("push", "PUSH_VAL", NULL, NULL)>>)
             /\ Quiet(<<Emit("PUSH_ADDR", d)>>)
             /\ Quiet(<<Gen("gen_expr"), Then("push", "PUSH_ADDR", d, NULL)>>)
  BY <1>3, MarkPlain, QuietOne, QuietTwo
<1>5. PICK items : Walk(items) /\ Quiet(items)
  BY <1>2, <1>4 DEF gen_arg, Parameter
<1>. QED BY <1>1, <1>5, ShapeWalk

LEMMA MarkInst ==
  ASSUME NEW op, NEW d, NEW r, NEW t
  PROVE  Mark(Inst(op, d, r, t).op, Inst(op, d, r, t).d) = Mark(op, d)
BY DEF Inst

\* One instruction that is none of the flow graph's.
LEMMA ShapeInst ==
  ASSUME WorkInv, ShapeInv, NEW f, At(f), f \notin {"gen_pf_dec_list", "emit1", "branch"},
         NEW op, op \notin Branches, op \notin {"JUMP", "LABEL", "FN_START", "FN_END"},
         NEW d, NEW r, NEW t, code' = Append(code, Inst(op, d, r, t)), Walk(<<>>)
  PROVE  ShapeInv'
<1>. DEFINE x == Inst(op, d, r, t)
<1>1. Mark(x.op, x.d).op = "OTHER"
  BY MarkInst, MarkOther
<1>. HIDE DEF x
<1>. QED BY <1>1, ShapeLine DEF x

LEMMA ShapeStore ==
  ASSUME WorkInv, ShapeInv, store_var \/ store_array \/ load_array \/ push
  PROVE  ShapeInv'
<1>1. \A op : op \in {"STORE_VAR", "STORE_ARRAY", "LOAD_ARRAY", "PUSH_VAL", "PUSH_ADDR"} =>
        op \notin Branches /\ op \notin {"JUMP", "LABEL", "FN_START", "FN_END"}
  BY DEF Branches
<1>2. CASE store_var
  <2>1. Fits(syms, Now) /\ Now.do = "store_var"
    BY <1>2, AtEntry DEF store_var
  <2>2. Now.op = "STORE_VAR"
    BY <2>1, TaskOps DEF Fits
  <2>. QED BY <1>1, <1>2, <2>2, ShapeInst DEF store_var
<1>3. CASE store_array
  <2>1. Fits(syms, Now) /\ Now.do = "store_array"
    BY <1>3, AtEntry DEF store_array
  <2>2. Now.op = "STORE_ARRAY"
    BY <2>1, TaskOps DEF Fits
  <2>. QED BY <1>1, <1>3, <2>2, ShapeInst DEF store_array
<1>4. CASE load_array
  <2>1. Fits(syms, Now) /\ Now.do = "load_array"
    BY <1>4, AtEntry DEF load_array
  <2>2. Now.op = "LOAD_ARRAY"
    BY <2>1, TaskOps DEF Fits
  <2>. QED BY <1>1, <1>4, <2>2, ShapeInst DEF load_array
<1>5. CASE push
  <2>1. Fits(syms, Now) /\ Now.do = "push"
    BY <1>5, AtEntry DEF push
  <2>2. Now.op \in {"PUSH_VAL", "PUSH_ADDR"}
    BY <2>1, TaskOps DEF Fits
  <2>3. At("push") /\ Walk(<<>>)
    BY <1>5 DEF push
  <2>4. CASE Now.op = "PUSH_VAL"
    <3>1. code' = Append(code, Inst(Now.op, Value(1), NULL, NULL))
      BY <1>5, <2>4 DEF push
    <3>. QED BY <1>1, <2>2, <2>3, <3>1, ShapeInst
  <2>5. CASE Now.op # "PUSH_VAL"
    <3>1. code' = Append(code, Inst(Now.op, Now.d, Value(1), NULL))
      BY <1>5, <2>5 DEF push
    <3>. QED BY <1>1, <2>2, <2>3, <3>1, ShapeInst
  <2>. QED BY <2>4, <2>5
<1>. QED BY <1>2, <1>3, <1>4, <1>5

LEMMA ShapeCalculate ==
  ASSUME WorkInv, ShapeInv, binary
  PROVE  ShapeInv'
<1>1. Fits(syms, Now) /\ Now.do = "binary"
  BY AtEntry DEF binary
<1>2. Now.op \in Calculate
  BY <1>1, TaskOps DEF Fits
<1>3. Now.op \notin Branches /\ Now.op \notin {"JUMP", "LABEL", "FN_START", "FN_END"}
  BY <1>2 DEF Calculate, Branches
<1>. QED BY <1>3, ShapeInst DEF binary

LEMMA ShapeSign ==
  ASSUME WorkInv, ShapeInv, sign
  PROVE  ShapeInv'
<1>1. At("sign")
  BY DEF sign
<1>2. CASE unlikely("unlikely_plus")
  BY <1>2 DEF unlikely, ShapeInv
<1>3. CASE ~unlikely("unlikely_plus")
  <2>1. /\ Walk(<<>>)
        /\ UNCHANGED code \/ code' = Append(code, Inst("NEG", NewSid, Value(1), NULL))
    BY <1>3 DEF sign
  <2>2. "NEG" \notin Branches
    BY DEF Branches
  <2>. QED BY <1>1, <2>1, <2>2, QuietNone, ShapeWalk, ShapeInst
<1>. QED BY <1>2, <1>3

LEMMA ShapeWriteValue ==
  ASSUME WorkInv, ShapeInv, write
  PROVE  ShapeInv'
<1>. DEFINE type == syms[Value(1)].type
<1>0. At("write")
  BY DEF write
<1>1. CASE unlikely("unlikely_write")
  BY <1>1 DEF unlikely, ShapeInv
<1>2. CASE ~unlikely("unlikely_write")
  <2>1. PICK a \in Place, b \in Place : Goes(Now, a, b) /\ a.n = Len(vals) /\ a.n \in Nat
    BY <1>0, AtEntry
  <2>2. Values(syms, vals) /\ Table(syms) /\ Now.do = "write"
    BY <1>0, AtEntry
  <2>8. a.n = 1
    BY <2>1, <2>2 DEF Goes
  <2>3. 1 \in 1..Len(vals)
    BY <2>1, <2>8
  <2>4. type \in {"INT", "UINT", "CHAR", "LITERAL"}
    BY <2>2, <2>3, ValueTop, TypeOf
  <2>5. code' = Append(code, Inst(WRITE_OP[type], Value(1), NULL, NULL)) /\ Walk(<<>>)
    BY <1>2 DEF write
  <2>. HIDE DEF type
  <2>6. WRITE_OP[type] \in {"WRITE_INT", "WRITE_UINT", "WRITE_CHAR"}
    BY <2>4 DEF WRITE_OP
  <2>7. /\ WRITE_OP[type] \notin Branches
        /\ WRITE_OP[type] \notin {"JUMP", "LABEL", "FN_START", "FN_END"}
    BY <2>6 DEF Branches
  <2>. QED BY <1>0, <2>5, <2>7, ShapeInst
<1>. QED BY <1>1, <1>2

\* The call, and a POP for each argument.
LEMMA ShapeCall ==
  ASSUME WorkInv, ShapeInv, call
  PROVE  ShapeInv'
<1>. DEFINE x == Inst("CALL", Now.d, Now.r, NULL)
            pop == Inst("POP", NULL, NULL, NULL)
            n == Len(Params[Now.r])
            pops == [i \in 1..n |-> pop]
            S == {x, pop}
<1>0. At("call") /\ Walk(<<>>) /\ code' = code \o <<x>> \o pops
  BY DEF call, Pops
<1>1. Fits(syms, Now) /\ Now.do = "call" /\ Lines(syms, code)
  BY <1>0, AtEntry
<1>2. n \in Nat
  BY <1>1, ArgsType DEF Fits
<1>3. \A y \in S : Mark(y.op, y.d).op = "OTHER"
  <2>1. "CALL" \notin Branches /\ "POP" \notin Branches
    BY DEF Branches
  <2>. QED BY <2>1, MarkInst, MarkOther
<1>4. <<x>> \in Seq(S) /\ pops \in Seq(S)
  BY <1>2
<1>. HIDE DEF S, x, pops
<1>5. <<x>> \o pops \in Seq(S)
  BY <1>4, ConcatProperties
<1>6. code' = code \o (<<x>> \o pops)
  <2>. DEFINE T == Line \cup S
  <2>1. code \in Seq(T) /\ <<x>> \in Seq(T) /\ pops \in Seq(T)
    BY <1>1, <1>4 DEF Lines
  <2>. HIDE DEF T
  <2>2. (code \o <<x>>) \o pops = code \o (<<x>> \o pops)
    BY <2>1, ConcatAssociative
  <2>. QED BY <1>0, <2>2
<1>7. QuietLines(<<x>> \o pops)
  BY <1>3, <1>5 DEF QuietLines
<1>8. work # <<>> /\ MarkOf(Now).op = "OTHER"
  BY <1>0, AtQuiet
<1>. QED BY <1>0, <1>6, <1>7, <1>8, QuietNone, ShapeQuiet

\* An instruction that was announced.
LEMMA ShapeAnnounced ==
  ASSUME WorkInv, ShapeInv, emit1 \/ branch
  PROVE  ShapeInv'
<1>1. CASE emit1
  <2>1. At("emit1") /\ code' = Append(code, Inst(Now.op, Now.d, NULL, NULL)) /\ Walk(<<>>)
    BY <1>1 DEF emit1
  <2>2. work # <<>> /\ MarkOf(Now) = Mark(Now.op, Now.d)
    BY <2>1 DEF At, Now, MarkOf
  <2>. QED BY <2>1, <2>2, MarkInst, ShapeEmit
<1>2. CASE branch
  <2>1. At("branch") /\ code' = Append(code, Inst(Now.op, Now.d, Value(2), Value(1)))
        /\ Walk(<<>>)
    BY <1>2 DEF branch
  <2>2. work # <<>> /\ MarkOf(Now) = Mark(Now.op, Now.d)
    BY <2>1 DEF At, Now, MarkOf
  <2>. QED BY <2>1, <2>2, MarkInst, ShapeEmit
<1>. QED BY <1>1, <1>2

-----------------------------------------------------------------------------
(* The steps that bring two labels                                         *)

LEMMA FreshLabels ==
  ASSUME WorkInv
  PROVE  /\ NewSid \notin DOMAIN syms \cup {NULL} /\ NewSid + 1 \notin DOMAIN syms \cup {NULL}
         /\ NewSid # NewSid + 1
BY DEF WorkInv, Table, NewSid, NULL

\* The labels x and y are marked at l1 and l2, and jumped to from j1 and j2.
Pairs(E, m, x, y, j1, l1, j2, l2) ==
  /\ j1 \in 1..m /\ l1 \in 1..m /\ j2 \in 1..m /\ l2 \in 1..m /\ l1 # l2 /\ j1 # j2
  /\ E[j1].op \in Jumps /\ E[j1].d = x /\ E[j2].op \in Jumps /\ E[j2].d = y
  /\ E[l1].op = "LABEL" /\ E[l1].d = x /\ E[l2].op = "LABEL" /\ E[l2].d = y
  /\ \A i \in 1..m : i \notin {j1, j2, l1, l2} => E[i].op = "OTHER"

LEMMA ShapeLabels ==
  ASSUME WorkInv, ShapeInv, NEW f, At(f), f \notin {"gen_pf_dec_list", "emit1", "branch"},
         NEW ls, NEW is, Listed(ls), Listed(is), code' = code \o ls, Walk(is),
         NEW j1, NEW l1, NEW j2, NEW l2,
         Pairs(Plan(ls, is), Len(ls) + Len(is), NewSid, NewSid + 1, j1, l1, j2, l2)
  PROVE  ShapeInv'
<1>. DEFINE E == Plan(ls, is)
            m == Len(ls) + Len(is)
<1>0. /\ j1 \in 1..m /\ l1 \in 1..m /\ j2 \in 1..m /\ l2 \in 1..m /\ l1 # l2 /\ j1 # j2
      /\ E[j1].op \in Jumps /\ E[j1].d = NewSid /\ E[j2].op \in Jumps /\ E[j2].d = NewSid + 1
      /\ E[l1].op = "LABEL" /\ E[l1].d = NewSid /\ E[l2].op = "LABEL" /\ E[l2].d = NewSid + 1
      /\ \A i \in 1..m : i \notin {j1, j2, l1, l2} => E[i].op = "OTHER"
  BY DEF Pairs
<1>1. work # <<>> /\ MarkOf(Now).op = "OTHER" /\ work' = is \o Tail(work)
  BY AtQuiet DEF Walk
<1>2. m \in Nat
  BY DEF Listed
<1>. HIDE DEF E, m
<1>3. "LABEL" \notin Jumps /\ "OTHER" \notin Jumps /\ "FN_END" \notin Jumps
      /\ "OTHER" \notin Bounds /\ "LABEL" \notin Bounds /\ (\A op \in Jumps : op \notin Bounds)
  BY DEF Jumps, Bounds
<1>4. \A i \in 1..m : E[i].op \notin Bounds
  BY <1>0, <1>3
<1>5. \A i, j \in 1..m : Clear(E, i, j)
  BY <1>2, <1>4 DEF Clear
<1>6. \A i \in 1..m : Tied(E, m, i)
  <2>. SUFFICES ASSUME NEW i \in 1..m PROVE Tied(E, m, i)
    OBVIOUS
  <2>1. E[i].op # "FN_END"
    BY <1>4 DEF Bounds
  <2>2. E[i].op \in Jumps => i \in {j1, j2}
    BY <1>0, <1>3
  <2>3. E[i].op \in Jumps => \E j \in 1..m : E[j].op = "LABEL" /\ E[j].d = E[i].d /\ Clear(E,
                                                                                           i, j)
    BY <1>0, <1>5, <2>2
  <2>. QED BY <2>1, <2>3 DEF Tied
<1>7. Once(E, m)
  <2>. SUFFICES ASSUME NEW i \in 1..m, NEW j \in 1..m, i # j
                PROVE  /\ E[i].op = "LABEL" /\ E[j].op = "LABEL" => E[i].d # E[j].d
                       /\ E[i].op \in Jumps /\ E[j].op \in Jumps => E[i].d # E[j].d
    BY DEF Once
  <2>1. E[i].op = "LABEL" /\ E[j].op = "LABEL" => i \in {l1, l2} /\ j \in {l1, l2}
    BY <1>0, <1>3
  <2>2. E[i].op \in Jumps /\ E[j].op \in Jumps => i \in {j1, j2} /\ j \in {j1, j2}
    BY <1>0, <1>3
  <2>. QED BY <1>0, <2>1, <2>2, FreshLabels
<1>8. \A i \in 1..m : E[i].op \in Jumps \cup {"LABEL"} => E[i].d \notin DOMAIN syms \cup {NULL}
  BY <1>0, <1>3, FreshLabels
<1>. QED BY <1>1, <1>4, <1>6, <1>7, <1>8, ShapeStep DEF E, m

\* Entries of work only.
LEMMA ShapeLabelled ==
  ASSUME WorkInv, ShapeInv, NEW f, At(f), f \notin {"gen_pf_dec_list", "emit1", "branch"},
         NEW is, Listed(is), UNCHANGED code, Walk(is),
         NEW j1, NEW l1, NEW j2, NEW l2,
         Pairs([i \in 1..Len(is) |-> MarkOf(is[i])], Len(is), NewSid, NewSid + 1,
               j1, l1, j2, l2)
  PROVE  ShapeInv'
<1>1. code' = code \o <<>> /\ Listed(<<>>)
  <2>1. <<>> \in Seq({})
    OBVIOUS
  <2>. QED BY <2>1 DEF WorkInv, Lines, Listed
<1>2. Len(is) \in Nat /\ Len(<<>>) + Len(is) = Len(is)
  BY DEF Listed
<1>3. Plan(<<>>, is) = [i \in 1..Len(is) |-> MarkOf(is[i])]
  <2>1. \A i \in 1..Len(is) : ~(i <= Len(<<>>)) /\ i - Len(<<>>) = i
    BY <1>2
  <2>. QED BY <1>2, <2>1 DEF Plan
<1>4. Pairs(Plan(<<>>, is), Len(<<>>) + Len(is), NewSid, NewSid + 1, j1, l1, j2, l2)
  BY <1>2, <1>3, Zenon
<1>. QED BY <1>1, <1>4, ShapeLabels

LEMMA ConsIf ==
  ASSUME NEW a, NEW b, NEW c, NEW p, NEW q, NEW r, NEW s
  PROVE  <<a, b, c>> \o <<>> \o <<p, q, r, s>> = <<a, b, c, p, q, r, s>>
<1>. DEFINE S == {a, b, c, p, q, r, s}
            k == <<a, b, c>> \o <<>> \o <<p, q, r, s>>
            l == <<a, b, c, p, q, r, s>>
<1>1. k \in Seq(S) /\ Len(k) = 7 /\ l \in Seq(S) /\ Len(l) = 7
  OBVIOUS
<1>2. k[1] = a /\ k[2] = b /\ k[3] = c /\ k[4] = p /\ k[5] = q /\ k[6] = r /\ k[7] = s
  OBVIOUS
<1>3. l[1] = a /\ l[2] = b /\ l[3] = c /\ l[4] = p /\ l[5] = q /\ l[6] = r /\ l[7] = s
  OBVIOUS
<1>4. \A i \in 1..7 : i = 1 \/ i = 2 \/ i = 3 \/ i = 4 \/ i = 5 \/ i = 6 \/ i = 7
  OBVIOUS
<1>. HIDE DEF k, l, S
<1>5. \A i \in 1..7 : k[i] = l[i]
  BY <1>2, <1>3, <1>4
<1>6. k = l
  BY <1>1, <1>5, SeqEqual
<1>. QED BY <1>6 DEF k, l

LEMMA ConsIfElse ==
  ASSUME NEW a, NEW b, NEW c, NEW e, NEW p, NEW q, NEW r, NEW s
  PROVE  <<a, b, c>> \o <<e>> \o <<p, q, r, s>> = <<a, b, c, e, p, q, r, s>>
<1>. DEFINE S == {a, b, c, e, p, q, r, s}
            k == <<a, b, c>> \o <<e>> \o <<p, q, r, s>>
            l == <<a, b, c, e, p, q, r, s>>
<1>1. k \in Seq(S) /\ Len(k) = 8 /\ l \in Seq(S) /\ Len(l) = 8
  OBVIOUS
<1>2. k[1] = a /\ k[2] = b /\ k[3] = c /\ k[4] = e /\ k[5] = p /\ k[6] = q /\ k[7] = r /\ k[8] = s
  OBVIOUS
<1>3. l[1] = a /\ l[2] = b /\ l[3] = c /\ l[4] = e /\ l[5] = p /\ l[6] = q /\ l[7] = r /\ l[8] = s
  OBVIOUS
<1>4. \A i \in 1..8 : i = 1 \/ i = 2 \/ i = 3 \/ i = 4 \/ i = 5 \/ i = 6 \/ i = 7 \/ i = 8
  OBVIOUS
<1>. HIDE DEF k, l, S
<1>5. \A i \in 1..8 : k[i] = l[i]
  BY <1>2, <1>3, <1>4
<1>6. k = l
  BY <1>1, <1>5, SeqEqual
<1>. QED BY <1>6 DEF k, l

LEMMA ConsRepeat ==
  ASSUME NEW p, NEW q, NEW a, NEW b, NEW c, NEW r, NEW s
  PROVE  <<p, q>> \o <<a, b, c>> \o <<r, s>> = <<p, q, a, b, c, r, s>>
<1>. DEFINE S == {p, q, a, b, c, r, s}
            k == <<p, q>> \o <<a, b, c>> \o <<r, s>>
            l == <<p, q, a, b, c, r, s>>
<1>1. k \in Seq(S) /\ Len(k) = 7 /\ l \in Seq(S) /\ Len(l) = 7
  OBVIOUS
<1>2. k[1] = p /\ k[2] = q /\ k[3] = a /\ k[4] = b /\ k[5] = c /\ k[6] = r /\ k[7] = s
  OBVIOUS
<1>3. l[1] = p /\ l[2] = q /\ l[3] = a /\ l[4] = b /\ l[5] = c /\ l[6] = r /\ l[7] = s
  OBVIOUS
<1>4. \A i \in 1..7 : i = 1 \/ i = 2 \/ i = 3 \/ i = 4 \/ i = 5 \/ i = 6 \/ i = 7
  OBVIOUS
<1>. HIDE DEF k, l, S
<1>5. \A i \in 1..7 : k[i] = l[i]
  BY <1>2, <1>3, <1>4
<1>6. k = l
  BY <1>1, <1>5, SeqEqual
<1>. QED BY <1>6 DEF k, l

\* A condition is two expressions and the branch to its label.
LEMMA ShapeCond ==
  ASSUME NEW label, NEW cond \in gen_cond(label)
  PROVE  \E op \in Branches :
           /\ cond = <<Gen("gen_expr"), Gen("gen_expr"), Then("branch", op, label, NULL)>>
           /\ MarkOf(Then("branch", op, label, NULL)) = [op |-> "BRANCH", d |-> label]
<1>1. PICK op \in Branches :
        cond = <<Gen("gen_expr"), Gen("gen_expr"), Then("branch", op, label, NULL)>>
  BY ConstAssumption DEF gen_cond
<1>2. Mark(op, label) = [op |-> "BRANCH", d |-> label]
  BY <1>1 DEF Mark, Branches
<1>. QED BY <1>1, <1>2, MarkBranch

LEMMA MarkLabel ==
  ASSUME NEW d
  PROVE  /\ MarkOf(Emit("LABEL", d)) = [op |-> "LABEL", d |-> d]
         /\ MarkOf(Emit("JUMP", d)) = [op |-> "JUMP", d |-> d]
BY MarkEmit, MarkSame

\* The marks of an if, without an else-part and with one, and of a repeat.
LEMMA PairsIf ==
  ASSUME NEW L, NEW x, NEW y, x # y,
         NEW n \in {7, 8}, NEW k \in {4, 5}, n = k + 3,
         L[3] = [op |-> "BRANCH", d |-> x], L[k] = [op |-> "JUMP", d |-> y],
         L[k + 1] = [op |-> "LABEL", d |-> x], L[n] = [op |-> "LABEL", d |-> y],
         L[1].op = "OTHER", L[2].op = "OTHER", L[k + 2].op = "OTHER",
         n = 8 => L[4].op = "OTHER"
  PROVE  Pairs(L, n, x, y, 3, k + 1, k, n)
<1>1. /\ 3 \in 1..n /\ k + 1 \in 1..n /\ k \in 1..n /\ n \in 1..n
      /\ k + 1 # n /\ 3 # k
  OBVIOUS
<1>2. /\ L[3].op \in Jumps /\ L[3].d = x /\ L[k].op \in Jumps /\ L[k].d = y
      /\ L[k + 1].op = "LABEL" /\ L[k + 1].d = x /\ L[n].op = "LABEL" /\ L[n].d = y
  BY DEF Jumps
<1>3. ASSUME NEW i \in 1..n, i \notin {3, k, k + 1, n} PROVE L[i].op = "OTHER"
  <2>1. i = 1 \/ i = 2 \/ i = k + 2 \/ (n = 8 /\ i = 4)
    BY <1>3
  <2>. QED BY <2>1
<1>. QED BY <1>1, <1>2, <1>3 DEF Pairs

LEMMA PairsRepeat ==
  ASSUME NEW L, NEW x, NEW y, x # y,
         L[1] = [op |-> "LABEL", d |-> x], L[5] = [op |-> "BRANCH", d |-> y],
         L[6] = [op |-> "JUMP", d |-> x], L[7] = [op |-> "LABEL", d |-> y],
         L[2].op = "OTHER", L[3].op = "OTHER", L[4].op = "OTHER"
  PROVE  Pairs(L, 7, x, y, 6, 1, 5, 7)
<1>1. /\ 1 \in 1..7 /\ 5 \in 1..7 /\ 6 \in 1..7 /\ 7 \in 1..7
      /\ L[6].op \in Jumps /\ L[6].d = x /\ L[5].op \in Jumps /\ L[5].d = y
      /\ L[1].op = "LABEL" /\ L[1].d = x /\ L[7].op = "LABEL" /\ L[7].d = y
  BY DEF Jumps
<1>2. ASSUME NEW i \in 1..7, i \notin {6, 1, 5, 7} PROVE L[i].op = "OTHER"
  <2>1. i = 2 \/ i = 3 \/ i = 4
    BY <1>2
  <2>. QED BY <2>1
<1>. QED BY <1>1, <1>2 DEF Pairs

LEMMA ShapeIf ==
  ASSUME WorkInv, ShapeInv, gen_if_stmt
  PROVE  ShapeInv'
<1>. DEFINE ifthen == NewSid
            ifdone == NewSid + 1
            x == Gen("gen_expr")
            j == Emit("JUMP", ifdone)
            l == Emit("LABEL", ifthen)
            g == Gen("gen_stmt")
            e == Emit("LABEL", ifdone)
<1>0. At("gen_stmt") /\ UNCHANGED code
  BY DEF gen_if_stmt
<1>1. PICK cond \in gen_cond(ifthen), else \in {<<>>, <<g>>} : Walk(cond \o else \o <<j, l, g,
                                                                                      e>>)
  BY DEF gen_if_stmt
<1>2. PICK op \in Branches :
        /\ cond = <<x, x, Then("branch", op, ifthen, NULL)>>
        /\ MarkOf(Then("branch", op, ifthen, NULL)) = [op |-> "BRANCH", d |-> ifthen]
  BY ShapeCond
<1>. DEFINE b == Then("branch", op, ifthen, NULL)
<1>3. /\ MarkOf(b) = [op |-> "BRANCH", d |-> ifthen]
      /\ MarkOf(j) = [op |-> "JUMP", d |-> ifdone] /\ MarkOf(l) = [op |-> "LABEL", d |-> ifthen]
      /\ MarkOf(e) = [op |-> "LABEL", d |-> ifdone]
      /\ MarkOf(x).op = "OTHER" /\ MarkOf(g).op = "OTHER"
  BY <1>2, MarkLabel, MarkPlain
<1>4. cond = <<x, x, b>> /\ NewSid # NewSid + 1
  BY <1>2, FreshLabels
<1>5. ifthen = NewSid /\ ifdone = NewSid + 1
  OBVIOUS
<1>. HIDE DEF ifthen, ifdone, x, j, l, g, e, b
<1>6. CASE else = <<>>
  <2>. DEFINE is == <<x, x, b, j, l, g, e>>
              L == [i \in 1..Len(is) |-> MarkOf(is[i])]
  <2>1. cond \o else \o <<j, l, g, e>> = is
    BY <1>4, <1>6, ConsIf
  <2>2. /\ Len(is) = 7 /\ L[1] = MarkOf(x) /\ L[2] = MarkOf(x) /\ L[3] = MarkOf(b)
        /\ L[4] = MarkOf(j) /\ L[4 + 1] = MarkOf(l) /\ L[4 + 2] = MarkOf(g) /\ L[7] = MarkOf(e)
    OBVIOUS
  <2>3. Listed(is)
    <3>. DEFINE S == {x, b, j, l, g, e}
    <3>1. is \in Seq(S)
      OBVIOUS
    <3>. HIDE DEF S, is
    <3>. QED BY <3>1 DEF Listed
  <2>. HIDE DEF is, L
  <2>4. Pairs(L, 7, ifthen, ifdone, 3, 4 + 1, 4, 7)
    <3>1. /\ L[3] = [op |-> "BRANCH", d |-> ifthen] /\ L[4] = [op |-> "JUMP", d |-> ifdone]
          /\ L[4 + 1] = [op |-> "LABEL", d |-> ifthen] /\ L[7] = [op |-> "LABEL", d |-> ifdone]
          /\ L[1].op = "OTHER" /\ L[2].op = "OTHER" /\ L[4 + 2].op = "OTHER"
      BY <1>3, <2>2
    <3>2. /\ 7 \in {7, 8} /\ 4 \in {4, 5} /\ 7 = 4 + 3 /\ ifthen # ifdone
          /\ (7 = 8 => L[4].op = "OTHER")
      BY <1>4, <1>5
    <3>. QED BY <3>1, <3>2, PairsIf
  <2>5. Pairs(L, Len(is), NewSid, NewSid + 1, 3, 4 + 1, 4, 7)
    BY <1>5, <2>2, <2>4
  <2>. QED BY <1>0, <1>1, <2>1, <2>3, <2>5, ShapeLabelled DEF L
<1>7. CASE else = <<g>>
  <2>. DEFINE is == <<x, x, b, g, j, l, g, e>>
              L == [i \in 1..Len(is) |-> MarkOf(is[i])]
  <2>1. cond \o else \o <<j, l, g, e>> = is
    BY <1>4, <1>7, ConsIfElse
  <2>2. /\ Len(is) = 8 /\ L[1] = MarkOf(x) /\ L[2] = MarkOf(x) /\ L[3] = MarkOf(b)
        /\ L[4] = MarkOf(g) /\ L[5] = MarkOf(j) /\ L[5 + 1] = MarkOf(l) /\ L[5 + 2] = MarkOf(g)
        /\ L[8] = MarkOf(e)
    OBVIOUS
  <2>3. Listed(is)
    <3>. DEFINE S == {x, b, j, l, g, e}
    <3>1. is \in Seq(S)
      OBVIOUS
    <3>. HIDE DEF S, is
    <3>. QED BY <3>1 DEF Listed
  <2>. HIDE DEF is, L
  <2>4. Pairs(L, 8, ifthen, ifdone, 3, 5 + 1, 5, 8)
    <3>1. /\ L[3] = [op |-> "BRANCH", d |-> ifthen] /\ L[5] = [op |-> "JUMP", d |-> ifdone]
          /\ L[5 + 1] = [op |-> "LABEL", d |-> ifthen] /\ L[8] = [op |-> "LABEL", d |-> ifdone]
          /\ L[1].op = "OTHER" /\ L[2].op = "OTHER" /\ L[5 + 2].op = "OTHER"
      BY <1>3, <2>2
    <3>2. /\ 8 \in {7, 8} /\ 5 \in {4, 5} /\ 8 = 5 + 3 /\ ifthen # ifdone
          /\ (8 = 8 => L[4].op = "OTHER")
      BY <1>3, <1>4, <1>5, <2>2
    <3>. QED BY <3>1, <3>2, PairsIf
  <2>5. Pairs(L, Len(is), NewSid, NewSid + 1, 3, 5 + 1, 5, 8)
    BY <1>5, <2>2, <2>4
  <2>. QED BY <1>0, <1>1, <2>1, <2>3, <2>5, ShapeLabelled DEF L
<1>. QED BY <1>1, <1>6, <1>7

LEMMA ShapeRepeat ==
  ASSUME WorkInv, ShapeInv, gen_repe_stmt
  PROVE  ShapeInv'
<1>. DEFINE loopstart == NewSid
            loopdone == NewSid + 1
            x == Gen("gen_expr")
            s == Emit("LABEL", loopstart)
            g == Gen("gen_stmt")
            j == Emit("JUMP", loopstart)
            e == Emit("LABEL", loopdone)
<1>0. At("gen_stmt") /\ UNCHANGED code
  BY DEF gen_repe_stmt
<1>1. PICK cond \in gen_cond(loopdone) : Walk(<<s, g>> \o cond \o <<j, e>>)
  BY DEF gen_repe_stmt
<1>2. PICK op \in Branches :
        /\ cond = <<x, x, Then("branch", op, loopdone, NULL)>>
        /\ MarkOf(Then("branch", op, loopdone, NULL)) = [op |-> "BRANCH", d |-> loopdone]
  BY ShapeCond
<1>. DEFINE b == Then("branch", op, loopdone, NULL)
<1>3. /\ MarkOf(b) = [op |-> "BRANCH", d |-> loopdone]
      /\ MarkOf(s) = [op |-> "LABEL", d |-> loopstart]
      /\ MarkOf(j) = [op |-> "JUMP", d |-> loopstart]
      /\ MarkOf(e) = [op |-> "LABEL", d |-> loopdone]
      /\ MarkOf(x).op = "OTHER" /\ MarkOf(g).op = "OTHER"
  BY <1>2, MarkLabel, MarkPlain
<1>4. cond = <<x, x, b>> /\ NewSid # NewSid + 1
  BY <1>2, FreshLabels
<1>5. loopstart = NewSid /\ loopdone = NewSid + 1
  OBVIOUS
<1>. HIDE DEF loopstart, loopdone, x, j, s, g, e, b
<1>. DEFINE is == <<s, g, x, x, b, j, e>>
            L == [i \in 1..Len(is) |-> MarkOf(is[i])]
<1>6. <<s, g>> \o cond \o <<j, e>> = is
  BY <1>4, ConsRepeat
<1>7. /\ Len(is) = 7 /\ L[1] = MarkOf(s) /\ L[2] = MarkOf(g) /\ L[3] = MarkOf(x)
      /\ L[4] = MarkOf(x) /\ L[5] = MarkOf(b) /\ L[6] = MarkOf(j) /\ L[7] = MarkOf(e)
  OBVIOUS
<1>8. Listed(is)
  <2>. DEFINE S == {s, g, x, b, j, e}
  <2>1. is \in Seq(S)
    OBVIOUS
  <2>. HIDE DEF S, is
  <2>. QED BY <2>1 DEF Listed
<1>. HIDE DEF is, L
<1>9. Pairs(L, 7, loopstart, loopdone, 6, 1, 5, 7)
  BY <1>3, <1>4, <1>5, <1>7, PairsRepeat
<1>10. Pairs(L, Len(is), NewSid, NewSid + 1, 6, 1, 5, 7)
  BY <1>5, <1>7, <1>9
<1>. QED BY <1>0, <1>1, <1>6, <1>8, <1>10, ShapeLabelled DEF L

\* The marks of a for loop.
LEMMA PairsFor ==
  ASSUME NEW L, NEW x, NEW y, x # y,
         L[2] = [op |-> "LABEL", d |-> x], L[3] = [op |-> "BRANCH", d |-> y],
         L[6] = [op |-> "JUMP", d |-> x], L[7] = [op |-> "LABEL", d |-> y],
         L[1].op = "OTHER", L[4].op = "OTHER", L[5].op = "OTHER", L[8].op = "OTHER"
  PROVE  Pairs(L, 8, x, y, 6, 2, 3, 7)
<1>1. /\ 2 \in 1..8 /\ 3 \in 1..8 /\ 6 \in 1..8 /\ 7 \in 1..8
      /\ L[6].op \in Jumps /\ L[6].d = x /\ L[3].op \in Jumps /\ L[3].d = y
      /\ L[2].op = "LABEL" /\ L[2].d = x /\ L[7].op = "LABEL" /\ L[7].d = y
  BY DEF Jumps
<1>2. ASSUME NEW i \in 1..8, i \notin {6, 2, 3, 7} PROVE L[i].op = "OTHER"
  <2>1. i = 1 \/ i = 4 \/ i = 5 \/ i = 8
    BY <1>2
  <2>. QED BY <2>1
<1>. QED BY <1>1, <1>2 DEF Pairs

LEMMA ShapeForBody ==
  ASSUME WorkInv, ShapeInv, for_body
  PROVE  ShapeInv'
<1>. DEFINE forstart == NewSid
            fordone == NewSid + 1
            up == Now.op = "INC"
            test == IF up THEN "BRANCH_GTT" ELSE "BRANCH_LST"
            back == IF up THEN "DEC" ELSE "INC"
            x == Inst("STORE_VAR", Now.d, Value(2), NULL)
            y == Inst("LABEL", forstart, NULL, NULL)
            z == Inst(test, fordone, Now.d, Value(1))
            g == Gen("gen_stmt")
            u == Emit(Now.op, Now.d)
            j == Emit("JUMP", forstart)
            e == Emit("LABEL", fordone)
            v == Emit(back, Now.d)
            ls == <<x, y, z>>
            is == <<g, u, j, e, v>>
            L == Plan(ls, is)
<1>0. At("for") /\ code' = code \o ls /\ Walk(is)
  BY DEF for_body
<1>1. Fits(syms, Now) /\ Now.do = "for"
  BY <1>0, AtEntry
<1>2. /\ Now.op \in {"INC", "DEC"} /\ back \in {"INC", "DEC"}
      /\ test \in {"BRANCH_GTT", "BRANCH_LST"}
  BY <1>1, TaskOps DEF Fits
<1>3. forstart = NewSid /\ fordone = NewSid + 1
  OBVIOUS
<1>. HIDE DEF forstart, fordone, up, test, back
<1>4. /\ Mark(x.op, x.d).op = "OTHER"
      /\ Mark(y.op, y.d) = [op |-> "LABEL", d |-> forstart]
      /\ Mark(z.op, z.d) = [op |-> "BRANCH", d |-> fordone]
  <2>1. Mark("STORE_VAR", Now.d).op = "OTHER"
    BY MarkOther DEF Branches
  <2>2. Mark("LABEL", forstart) = [op |-> "LABEL", d |-> forstart]
    BY MarkSame
  <2>3. Mark(test, fordone) = [op |-> "BRANCH", d |-> fordone]
    BY <1>2 DEF Mark, Branches
  <2>. QED BY <2>1, <2>2, <2>3, MarkInst
<1>5. /\ MarkOf(u).op = "OTHER" /\ MarkOf(v).op = "OTHER"
  <2>1. \A op, d : op \in {"INC", "DEC"} => Mark(op, d).op = "OTHER"
    BY MarkOther DEF Branches
  <2>. QED BY <1>2, <2>1, MarkEmit
<1>6. /\ MarkOf(g).op = "OTHER" /\ MarkOf(j) = [op |-> "JUMP", d |-> forstart]
      /\ MarkOf(e) = [op |-> "LABEL", d |-> fordone]
  BY MarkPlain, MarkLabel
<1>. HIDE DEF x, y, z, g, u, j, e, v
<1>7. Listed(ls) /\ Listed(is) /\ Len(ls) = 3 /\ Len(is) = 5
  <2>. DEFINE S == {x, y, z}
              T == {g, u, j, e, v}
  <2>1. ls \in Seq(S) /\ is \in Seq(T) /\ Len(ls) = 3 /\ Len(is) = 5
    OBVIOUS
  <2>. HIDE DEF S, T, ls, is
  <2>. QED BY <2>1 DEF Listed
<1>8. /\ L[1] = Mark(x.op, x.d) /\ L[2] = Mark(y.op, y.d) /\ L[3] = Mark(z.op, z.d)
      /\ L[4] = MarkOf(g) /\ L[5] = MarkOf(u) /\ L[6] = MarkOf(j) /\ L[7] = MarkOf(e)
      /\ L[8] = MarkOf(v)
  <2>1. /\ ls[1] = x /\ ls[2] = y /\ ls[3] = z
        /\ is[1] = g /\ is[2] = u /\ is[3] = j /\ is[4] = e /\ is[5] = v
    OBVIOUS
  <2>. HIDE DEF ls, is
  <2>. QED BY <1>7, <2>1 DEF Plan
<1>. HIDE DEF ls, is
<1>9. NewSid # NewSid + 1
  BY FreshLabels
<1>10. Pairs(L, Len(ls) + Len(is), NewSid, NewSid + 1, 6, 2, 3, 7)
  <2>1. /\ L[2] = [op |-> "LABEL", d |-> forstart] /\ L[3] = [op |-> "BRANCH", d |-> fordone]
        /\ L[6] = [op |-> "JUMP", d |-> forstart] /\ L[7] = [op |-> "LABEL", d |-> fordone]
        /\ L[1].op = "OTHER" /\ L[4].op = "OTHER" /\ L[5].op = "OTHER" /\ L[8].op = "OTHER"
    BY <1>4, <1>5, <1>6, <1>8
  <2>. HIDE DEF L
  <2>2. Pairs(L, 8, forstart, fordone, 6, 2, 3, 7)
    BY <1>3, <1>9, <2>1, PairsFor
  <2>. QED BY <1>3, <1>7, <2>2
<1>. QED BY <1>0, <1>7, <1>10, ShapeLabels

-----------------------------------------------------------------------------
(* Routines                                                                *)

\* A routine behind its inner ones, and the ones behind it if there may be.
LEMMA RoutineShaped ==
  ASSUME NEW E, NEW p, NEW m \in {4, 5}, E[1].op = "DECS", E[2] = [op |-> "FN_START", d |-> p],
         E[3].op = "OTHER", E[4] = [op |-> "FN_END", d |-> p], m = 5 => E[5].op = "DECS"
  PROVE  Shaped(E, m)
<1>1. \A i \in 1..m : i = 1 \/ i = 2 \/ i = 3 \/ i = 4 \/ (i = 5 /\ m = 5)
  OBVIOUS
<1>2. E[2].op = "FN_START" /\ E[2].d = p /\ E[4].op = "FN_END" /\ E[4].d = p
  OBVIOUS
<1>3. "DECS" \notin Jumps /\ "FN_START" \notin Jumps /\ "OTHER" \notin Jumps
      /\ "FN_END" \notin Jumps /\ "OTHER" \notin Bounds
  BY DEF Jumps, Bounds
<1>4. \A i \in 1..m : E[i].op \notin Jumps /\ E[i].op # "LABEL"
  BY <1>1, <1>2, <1>3
<1>5. Clear(E, 4, 2)
  <2>1. \A k \in Nat : (4 < k /\ k < 2) \/ (2 < k /\ k < 4) => k = 3
    OBVIOUS
  <2>. QED BY <1>3, <2>1 DEF Clear
<1>6. ASSUME NEW i \in 1..m PROVE Tied(E, m, i)
  <2>1. E[i].op = "FN_END" => i = 4
    BY <1>1, <1>2
  <2>2. 2 \in 1..m
    OBVIOUS
  <2>. QED BY <1>2, <1>4, <1>5, <2>1, <2>2 DEF Tied
<1>7. Once(E, m)
  BY <1>4 DEF Once
<1>8. ASSUME NEW i \in 0..m PROVE Closes(E, m, i) <=> Opens(E, m, i + 1)
  <2>1. i = 0 \/ i = 1 \/ i = 2 \/ i = 3 \/ i = 4 \/ (i = 5 /\ m = 5)
    OBVIOUS
  <2>2. CASE i = 0
    <3>1. 1 \in 1..m /\ i + 1 = 1
      BY <2>2
    <3>. QED BY <2>2, <3>1 DEF Closes, Opens
  <2>3. CASE i = 1
    <3>1. 1 \in 1..m /\ 2 \in 1..m /\ i + 1 = 2
      BY <2>3
    <3>. QED BY <1>2, <2>3, <3>1 DEF Closes, Opens
  <2>4. CASE i = 2
    <3>1. 2 \in 1..m /\ 3 \in 1..m /\ i + 1 = 3 /\ 3 # m + 1 /\ 2 # 0
      BY <2>4
    <3>. QED BY <1>2, <2>4, <3>1 DEF Closes, Opens
  <2>5. CASE i = 3
    <3>1. 3 \in 1..m /\ 4 \in 1..m /\ i + 1 = 4 /\ 4 # m + 1 /\ 3 # 0
      BY <2>5
    <3>. QED BY <1>2, <2>5, <3>1 DEF Closes, Opens
  <2>6. CASE i = 4
    <3>1. 4 \in 1..m /\ i + 1 = 5 /\ (m = 4 => 5 = m + 1) /\ (m = 5 => 5 \in 1..m)
      BY <2>6
    <3>. QED BY <1>2, <2>6, <3>1 DEF Closes, Opens
  <2>7. CASE i = 5 /\ m = 5
    <3>1. 5 \in 1..m /\ i + 1 = m + 1
      BY <2>7
    <3>. QED BY <2>7, <3>1 DEF Closes, Opens
  <2>. QED BY <2>1, <2>2, <2>3, <2>4, <2>5, <2>6, <2>7
<1>. QED BY <1>6, <1>7, <1>8 DEF Shaped

LEMMA MarkRoutine ==
  ASSUME NEW p
  PROVE  /\ MarkOf(Decs(p)).op = "DECS"
         /\ MarkOf(Emit("FN_START", p)) = [op |-> "FN_START", d |-> p]
         /\ MarkOf(Emit("FN_END", p)) = [op |-> "FN_END", d |-> p]
         /\ MarkOf(Gen("gen_comp_stmt")).op = "OTHER"
<1>1. MarkOf(Decs(p)).op = "DECS"
  BY DEF MarkOf, Decs, Do
<1>. QED BY <1>1, MarkEmit, MarkSame, MarkPlain

LEMMA ShapeRoutines ==
  ASSUME WorkInv, ShapeInv, gen_pf_dec_list
  PROVE  ShapeInv'
<1>1. /\ At("gen_pf_dec_list") /\ work # <<>> /\ MarkOf(Now).op = "DECS"
  BY DEF gen_pf_dec_list, At, Now, MarkOf
<1>. DEFINE ls == <<>>
<1>2. code' = code \o ls /\ Listed(ls) /\ Len(ls) = 0
  <2>1. ls \in Seq({})
    OBVIOUS
  <2>. QED BY <2>1 DEF WorkInv, Lines, Listed, gen_pf_dec_list
<1>. HIDE DEF ls
<1>3. CASE Walk(<<>>)
  <2>. DEFINE is == <<>>
              E == Plan(ls, is)
  <2>1. Listed(is) /\ Len(is) = 0
    <3>1. is \in Seq({})
      OBVIOUS
    <3>. QED BY <3>1 DEF Listed
  <2>2. work' = is \o Tail(work)
    BY <1>3 DEF Walk
  <2>3. \A i \in 0..0 : Closes(E, 0, i) <=> Opens(E, 0, i + 1)
    BY DEF Closes, Opens
  <2>4. (\A i \in 1..0 : Tied(E, 0, i)) /\ Once(E, 0)
    BY DEF Once
  <2>5. \A i \in 1..0 : E[i].op \in Jumps \cup {"LABEL"} => E[i].d \notin DOMAIN syms \cup {NULL}
    OBVIOUS
  <2>6. 0 = Len(ls) + Len(is)
    BY <1>2, <2>1
  <2>. HIDE DEF is
  <2>. QED BY <1>1, <1>2, <2>1, <2>2, <2>3, <2>4, <2>5, <2>6, ShapeStep
<1>4. CASE ~Walk(<<>>)
  <2>1. PICK p : Walk(<<Decs(p), Emit("FN_START", p), Gen("gen_comp_stmt"), Emit("FN_END", p),
                        Now>>)
    BY <1>4 DEF gen_pf_dec_list
  <2>. DEFINE a == Decs(p)
              b == Emit("FN_START", p)
              c == Gen("gen_comp_stmt")
              d == Emit("FN_END", p)
              is == <<a, b, c, d, Now>>
              E == Plan(ls, is)
  <2>2. /\ MarkOf(a).op = "DECS" /\ MarkOf(b) = [op |-> "FN_START", d |-> p]
        /\ MarkOf(c).op = "OTHER" /\ MarkOf(d) = [op |-> "FN_END", d |-> p]
    BY MarkRoutine
  <2>3. work' = is \o Tail(work)
    BY <2>1 DEF Walk
  <2>. HIDE DEF a, b, c, d
  <2>4. Listed(is) /\ Len(is) = 5
    <3>. DEFINE S == {a, b, c, d, Now}
    <3>1. is \in Seq(S) /\ Len(is) = 5
      OBVIOUS
    <3>. HIDE DEF S, is
    <3>. QED BY <3>1 DEF Listed
  <2>5. /\ E[1] = MarkOf(a) /\ E[2] = MarkOf(b) /\ E[3] = MarkOf(c) /\ E[4] = MarkOf(d)
        /\ E[5] = MarkOf(Now)
    <3>1. is[1] = a /\ is[2] = b /\ is[3] = c /\ is[4] = d /\ is[5] = Now
      OBVIOUS
    <3>. HIDE DEF is
    <3>. QED BY <1>2, <2>4, <3>1 DEF Plan
  <2>6. 5 = Len(ls) + Len(is)
    BY <1>2, <2>4
  <2>. HIDE DEF is, E
  <2>7. Shaped(E, 5)
    <3>1. /\ E[1].op = "DECS" /\ E[2] = [op |-> "FN_START", d |-> p] /\ E[3].op = "OTHER"
          /\ E[4] = [op |-> "FN_END", d |-> p] /\ (5 = 5 => E[5].op = "DECS")
      BY <1>1, <2>2, <2>5
    <3>. QED BY <3>1, RoutineShaped
  <2>8. \A i \in 1..5 : E[i].op \notin Jumps \cup {"LABEL"}
    <3>1. \A i \in 1..5 : i = 1 \/ i = 2 \/ i = 3 \/ i = 4 \/ i = 5
      OBVIOUS
    <3>. QED BY <1>1, <2>2, <2>5, <3>1 DEF Jumps
  <2>9. /\ \A i \in 1..5 : Tied(E, 5, i)
        /\ Once(E, 5)
        /\ \A i \in 0..5 : Closes(E, 5, i) <=> Opens(E, 5, i + 1)
    BY <2>7 DEF Shaped
  <2>. QED BY <1>1, <1>2, <2>3, <2>4, <2>6, <2>8, <2>9, ShapeStep DEF E
<1>. QED BY <1>3, <1>4

LEMMA ShapeInit ==
  ASSUME Init
  PROVE  ShapeInv
<1>. DEFINE a == Decs(Main)
            b == Emit("FN_START", Main)
            c == Gen("gen_comp_stmt")
            d == Emit("FN_END", Main)
            E == Plan(code, work)
<1>1. code = <<>> /\ Len(code) = 0 /\ work = <<a, b, c, d>>
  BY DEF Init
<1>2. /\ MarkOf(a).op = "DECS" /\ MarkOf(b) = [op |-> "FN_START", d |-> Main]
      /\ MarkOf(c).op = "OTHER" /\ MarkOf(d) = [op |-> "FN_END", d |-> Main]
  BY MarkRoutine
<1>. HIDE DEF a, b, c, d
<1>3. Len(work) = 4 /\ work[1] = a /\ work[2] = b /\ work[3] = c /\ work[4] = d
  BY <1>1
<1>4. E[1] = MarkOf(a) /\ E[2] = MarkOf(b) /\ E[3] = MarkOf(c) /\ E[4] = MarkOf(d)
  BY <1>1, <1>3 DEF Plan
<1>. HIDE DEF E
<1>5. Shaped(E, 4)
  <2>1. /\ E[1].op = "DECS" /\ E[2] = [op |-> "FN_START", d |-> Main] /\ E[3].op = "OTHER"
        /\ E[4] = [op |-> "FN_END", d |-> Main] /\ (4 = 5 => E[5].op = "DECS")
    BY <1>2, <1>4
  <2>. QED BY <2>1, RoutineShaped
<1>6. Len(code) + Len(work) = 4
  BY <1>1, <1>3
<1>. QED BY <1>5, <1>6 DEF ShapeInv, E

LEMMA NextShape ==
  ASSUME WorkInv, ShapeInv, [Next]_vars
  PROVE  ShapeInv'
<1>1. CASE gen_pf_dec_list \/ gen_comp_stmt \/ emit1
  BY <1>1, ShapeRoutines, ShapeStatement, ShapeAnnounced
<1>2. CASE Statement
  <2>1. CASE \/ null_stmt \/ gen_assign_stmt \/ gen_if_stmt \/ gen_repe_stmt \/ gen_for_stmt
             \/ gen_pcall_stmt \/ gen_read_stmt \/ gen_write_stmt
    BY <2>1, ShapeStatement, ShapeIf, ShapeRepeat, ShapeCalls, ShapeRead, ShapeWrite
  <2>2. CASE store_var \/ store_array \/ branch \/ for_body \/ write
    BY <2>2, ShapeStore, ShapeAnnounced, ShapeForBody, ShapeWriteValue
  <2>. QED BY <1>2, <2>1, <2>2 DEF Statement
<1>3. CASE Expression
  <2>1. CASE gen_expr \/ sign \/ terms \/ gen_term \/ factors \/ binary
    BY <2>1, ShapeExpression, ShapeSign, ShapeCalculate
  <2>2. CASE id_factor \/ number_factor \/ array_factor \/ load_array \/ expr_factor
    BY <2>2, ShapeExpression, ShapeStore
  <2>3. CASE gen_fcall_stmt \/ gen_arg \/ push \/ call
    BY <2>3, ShapeCalls, ShapeArg, ShapeStore, ShapeCall
  <2>. QED BY <1>3, <2>1, <2>2, <2>3 DEF Expression
<1>4. CASE genir
  BY <1>4 DEF genir, ShapeInv
<1>5. CASE UNCHANGED vars
  BY <1>5 DEF vars, ShapeInv
<1>. QED BY <1>1, <1>2, <1>3, <1>4, <1>5 DEF Next

-----------------------------------------------------------------------------
(* The finished list                                                       *)

\* The beginnings of routines up to a place; their number tells the routine.
Begins(L, i) == {j \in 1..i : L[j].op = "FN_START"}

LEMMA BeginsClear ==
  ASSUME NEW L, NEW i \in Nat, NEW j \in Nat, j <= i, Clear(L, i, j) \/ Clear(L, j, i),
         L[i].op # "FN_START"
  PROVE  Begins(L, i) = Begins(L, j)
<1>1. \A k \in Nat : j < k /\ k < i => L[k].op # "FN_START"
  BY DEF Clear, Bounds
<1>2. \A k \in 1..i : L[k].op = "FN_START" => k \in 1..j
  <2>. SUFFICES ASSUME NEW k \in 1..i, L[k].op = "FN_START" PROVE k <= j
    OBVIOUS
  <2>1. k # i /\ ~(j < k /\ k < i)
    BY <1>1
  <2>. QED BY <2>1
<1>. QED BY <1>2 DEF Begins

LEMMA BeginsCounted ==
  ASSUME NEW L, NEW i \in Nat, NEW j \in Nat, i < j, L[j].op = "FN_START"
  PROVE  Cardinality(Begins(L, i)) # Cardinality(Begins(L, j))
<1>1. IsFiniteSet(1..j)
  BY FS_Interval
<1>2. Begins(L, j) \subseteq 1..j /\ Begins(L, i) \subseteq Begins(L, j)
  BY DEF Begins
<1>3. j \in Begins(L, j) /\ j \notin Begins(L, i)
  BY DEF Begins
<1>4. IsFiniteSet(Begins(L, j))
  BY <1>1, <1>2, FS_Subset
<1>. QED BY <1>2, <1>3, <1>4, FS_Subset

LEMMA ShapedWellFormed ==
  ASSUME NEW S, NEW L \in Seq(S), Shaped(L, Len(L)), \A i \in 1..Len(L) : L[i].op # "DECS"
  PROVE  WellFormed(L)
<1>. DEFINE n == Len(L)
<1>1. n \in Nat /\ DOMAIN L = 1..n
  OBVIOUS
<1>2. \A i \in 0..n : Closes(L, n, i) <=> Opens(L, n, i + 1)
  BY DEF Shaped
<1>3. \A i \in 1..n : Tied(L, n, i)
  BY DEF Shaped
<1>4. Once(L, n)
  BY DEF Shaped
<1>. HIDE DEF n
<1>5. \A i \in 1..n : /\ Closes(L, n, i) <=> L[i].op = "FN_END"
                      /\ Opens(L, n, i) <=> L[i].op = "FN_START"
  <2>. SUFFICES ASSUME NEW i \in 1..n
                PROVE  /\ Closes(L, n, i) <=> L[i].op = "FN_END"
                       /\ Opens(L, n, i) <=> L[i].op = "FN_START"
    OBVIOUS
  <2>1. i # 0 /\ i # n + 1 /\ L[i].op # "DECS"
    BY <1>1 DEF n
  <2>. QED BY <2>1 DEF Closes, Opens
<1>6. L # <<>> => L[1].op = "FN_START" /\ L[n].op = "FN_END"
  <2>. SUFFICES ASSUME L # <<>> PROVE L[1].op = "FN_START" /\ L[n].op = "FN_END"
    OBVIOUS
  <2>1. 1 \in 1..n /\ n \in 1..n /\ 0 \in 0..n /\ n \in 0..n
    BY <1>1 DEF n
  <2>2. Closes(L, n, 0) /\ Opens(L, n, n + 1)
    BY DEF Closes, Opens
  <2>3. Opens(L, n, 0 + 1) /\ Closes(L, n, n)
    BY <1>2, <2>1, <2>2
  <2>. QED BY <1>5, <2>1, <2>3
<1>7. \A i \in 1..n - 1 : L[i].op = "FN_END" <=> L[i + 1].op = "FN_START"
  <2>. SUFFICES ASSUME NEW i \in 1..n - 1
                PROVE  L[i].op = "FN_END" <=> L[i + 1].op = "FN_START"
    OBVIOUS
  <2>1. i \in 1..n /\ i \in 0..n /\ i + 1 \in 1..n
    BY <1>1
  <2>. QED BY <1>2, <1>5, <2>1
<1>8. ASSUME NEW i \in 1..n, NEW j \in 1..n, L[i].op = "FN_START", L[j].op = "FN_END",
             Cardinality(Begins(L, i)) = Cardinality(Begins(L, j))
      PROVE  L[i].d = L[j].d
  <2>1. PICK k \in 1..n : L[k].op = "FN_START" /\ L[k].d = L[j].d /\ k < j /\ Clear(L, j, k)
    BY <1>3, <1>8 DEF Tied
  <2>2. i \in Nat /\ j \in Nat /\ k \in Nat
    BY <1>1
  <2>3. Begins(L, j) = Begins(L, k)
    BY <1>8, <2>1, <2>2, BeginsClear
  <2>4. ~(i < k) /\ ~(k < i)
    BY <1>8, <2>1, <2>2, <2>3, BeginsCounted
  <2>5. i = k
    BY <2>2, <2>4
  <2>. QED BY <2>1, <2>5
<1>9. ASSUME NEW i \in 1..n, L[i].op \in Jumps
      PROVE  \E j \in 1..n : /\ L[j].op = "LABEL" /\ L[j].d = L[i].d
                             /\ Cardinality(Begins(L, i)) = Cardinality(Begins(L, j))
  <2>1. PICK j \in 1..n : L[j].op = "LABEL" /\ L[j].d = L[i].d /\ Clear(L, i, j)
    BY <1>3, <1>9 DEF Tied
  <2>2. i \in Nat /\ j \in Nat /\ L[i].op # "FN_START" /\ L[j].op # "FN_START"
    BY <1>1, <1>9, <2>1 DEF Jumps
  <2>3. Begins(L, i) = Begins(L, j)
    <3>1. CASE j <= i
      BY <2>1, <2>2, <3>1, BeginsClear
    <3>2. CASE i <= j
      <4>1. Begins(L, j) = Begins(L, i)
        BY <2>1, <2>2, <3>2, BeginsClear
      <4>. QED BY <4>1
    <3>. QED BY <2>2, <3>1, <3>2
  <2>. QED BY <2>1, <2>3
<1>10. \A i, j \in 1..n : i # j /\ L[i].op = "LABEL" /\ L[j].op = "LABEL" => L[i].d # L[j].d
  BY <1>4 DEF Once
<1>11. \A i, j \in 1..n : i # j /\ {L[i].op, L[j].op} \subseteq Jumps => L[i].d # L[j].d
  BY <1>4 DEF Once
<1>12. L # <<>> => L[1].op = "FN_START" /\ L[Len(L)].op = "FN_END"
  BY <1>6 DEF n
<1>13. \A i \in 1..Len(L) - 1 : L[i].op = "FN_END" <=> L[i + 1].op = "FN_START"
  BY <1>7 DEF n
<1>14. \A i, j \in DOMAIN L :
         L[i].op = "FN_START" /\ L[j].op = "FN_END"
         /\ Cardinality({k \in 1..i : L[k].op = "FN_START"}) =
              Cardinality({k \in 1..j : L[k].op = "FN_START"})
         => L[i].d = L[j].d
  BY <1>1, <1>8 DEF Begins
<1>15. \A i \in DOMAIN L : L[i].op \in Jumps =>
         \E j \in DOMAIN L :
           /\ L[j].op = "LABEL" /\ L[j].d = L[i].d
           /\ Cardinality({k \in 1..i : L[k].op = "FN_START"}) =
                Cardinality({k \in 1..j : L[k].op = "FN_START"})
  BY <1>1, <1>9 DEF Begins
<1>16. /\ \A i,
          j \in DOMAIN L : i # j /\ L[i].op = "LABEL" /\ L[j].op = "LABEL" => L[i].d # L[j].d
       /\ \A i, j \in DOMAIN L : i # j /\ {L[i].op, L[j].op} \subseteq Jumps => L[i].d # L[j].d
  BY <1>1, <1>10, <1>11
<1>. QED BY <1>12, <1>13, <1>14, <1>15, <1>16, Zenon DEF WellFormed

\* What generate.c emits is what optimize_cfg.c builds the flow graph from:
\* routines one after the other, each label marked once and jumped to once at
\* most, from its own routine.
THEOREM FlowGraphFed == Spec => []FlowGraphInput
<1>1. Init => ShapeInv
  BY ShapeInit
<1>2. WorkInv /\ ShapeInv /\ [Next]_vars => ShapeInv'
  BY NextShape
<1>3. ASSUME WorkInv, ShapeInv PROVE FlowGraphInput
  <2>. SUFFICES ASSUME pc = "done" PROVE WellFormed(Skeleton)
    BY DEF FlowGraphInput
  <2>. DEFINE n == Len(code)
              S == {Skeleton[i] : i \in 1..n}
  <2>1. work = <<>> /\ n \in Nat /\ DOMAIN code = 1..n
    BY <1>3 DEF WorkInv, Lines
  <2>2. Skeleton = [i \in 1..n |-> Mark(code[i].op, code[i].d)]
    BY <2>1 DEF Skeleton, Mark
  <2>3. Plan(code, work) = Skeleton /\ n + Len(work) = n
    <3>1. n + Len(work) = n /\ \A i \in 1..n : i <= n
      BY <2>1
    <3>. QED BY <2>2, <3>1 DEF Plan
  <2>4. Skeleton \in Seq(S) /\ Len(Skeleton) = n
    <3>1. Skeleton \in [1..n -> S]
      BY <2>2
    <3>. HIDE DEF S, n
    <3>. QED BY <2>1, <3>1
  <2>5. Shaped(Skeleton, n)
    BY <1>3, <2>3 DEF ShapeInv
  <2>6. \A i \in 1..n : Skeleton[i].op # "DECS"
    <3>1. \A op, d : Mark(op, d).op # "DECS"
      BY DEF Mark
    <3>. QED BY <2>2, <3>1
  <2>. HIDE DEF S
  <2>. QED BY <2>4, <2>5, <2>6, ShapedWellFormed
<1>. QED BY <1>1, <1>2, <1>3, WorkKept, PTL DEF Spec

-----------------------------------------------------------------------------
(***************************************************************************)
(* A temporary is computed once and read once at most, and no path reads   *)
(* it that did not compute it.                                             *)
(*                                                                         *)
(* Between the two it waits in vals, or a call that is still in work is to *)
(* define it: the invariant says what each of these owns.                  *)
(***************************************************************************)

-----------------------------------------------------------------------------
(* Who owns a temporary                                                    *)

\* What an instruction defines and reads, as Defines and Reads say.
DefOf(x) == IF x.op \in {"ADD", "SUB", "MUL", "DIV", "NEG", "LOAD_ARRAY", "CALL"}
            THEN x.d ELSE NULL
UseOf(x) == {x.r, x.s} \cup (IF DefOf(x) = NULL THEN {x.d} ELSE {})

Jumping(x) == x.op \in Branches \cup {"JUMP"}

\* No label from d to u is jumped to from in front of d.
Behind(c, d, u) ==
  \A k \in d..u : c[k].op = "LABEL" =>
    \A j \in 1..Len(c) : Jumping(c[j]) /\ c[j].d = c[k].d => j > d

\* t is computed in front of u, on every path to u.
Computed(c, t, u) == \E d \in 1..u - 1 : DefOf(c[d]) = t /\ Behind(c, d, u - 1)

\* No instruction and no returned value is t.
Untouched(c, v, t) ==
  /\ \A i \in 1..Len(c) : DefOf(c[i]) # t /\ t \notin UseOf(c[i])
  /\ \A i \in 1..Len(v) : v[i] # t

\* Instruction u is the only one that reads t.
ReadAt(c, t, u) ==
  /\ c[u].op # "LABEL" /\ Computed(c, t, u)
  /\ \A i \in 1..Len(c) : t \in UseOf(c[i]) => i = u

\* The i-th returned value is computed and not read yet.
Held(c, v, i) ==
  /\ Computed(c, v[i], Len(c) + 1)
  /\ \A u \in 1..Len(c) : v[i] \notin UseOf(c[u])
  /\ \A j \in 1..Len(v) : v[j] = v[i] => j = i

\* The i-th entry of work names no temporary but the result of its call.
Awaits(T, c, w, v, i) ==
  /\ w[i].r \notin T
  /\ w[i].do = "call" => w[i].d \in T \cup {NULL}
  /\ w[i].d \in T => /\ w[i].do = "call" /\ Untouched(c, v, w[i].d)
                     /\ \A j \in 1..Len(w) : w[j].d = w[i].d => j = i

\* Of the temporaries T, none is defined twice; each is still to be computed,
\* waits to be read, or has been read once.
Owned(T, c, w, v) ==
  /\ \A i, j \in 1..Len(c) : DefOf(c[i]) # NULL /\ DefOf(c[i]) = DefOf(c[j]) => i = j
  /\ \A u \in 1..Len(c) : \A t \in UseOf(c[u]) \cap T : ReadAt(c, t, u)
  /\ \A i \in 1..Len(v) : v[i] \in T => Held(c, v, i)
  /\ \A i \in 1..Len(w) : Awaits(T, c, w, v, i)

TempInv == Owned(Temps, code, work, vals)

-----------------------------------------------------------------------------
(* What a step may do with them                                            *)

\* More temporaries, which nothing names yet.
LEMMA OwnGrow ==
  ASSUME NEW T, NEW U, T \subseteq U, NEW c, NEW w, NEW v, Owned(T, c, w, v),
         \A t \in U \ T : Untouched(c, v, t) /\ \A i \in 1..Len(w) : w[i].d # t /\ w[i].r # t
  PROVE  Owned(U, c, w, v)
<1>1. \A i, j \in 1..Len(c) : DefOf(c[i]) # NULL /\ DefOf(c[i]) = DefOf(c[j]) => i = j
  BY DEF Owned
<1>2. ASSUME NEW u \in 1..Len(c), NEW t \in UseOf(c[u]) \cap U PROVE ReadAt(c, t, u)
  <2>1. t \in T
    BY <1>2 DEF Untouched
  <2>. QED BY <1>2, <2>1 DEF Owned
<1>3. ASSUME NEW i \in 1..Len(v), v[i] \in U PROVE Held(c, v, i)
  <2>1. v[i] \in T
    BY <1>3 DEF Untouched
  <2>. QED BY <1>3, <2>1 DEF Owned
<1>4. ASSUME NEW i \in 1..Len(w) PROVE Awaits(U, c, w, v, i)
  <2>1. Awaits(T, c, w, v, i)
    BY <1>4 DEF Owned
  <2>2. w[i].d \notin U \ T /\ w[i].r \notin U \ T
    BY <1>4
  <2>. QED BY <2>1, <2>2 DEF Awaits
<1>. QED BY <1>1, <1>2, <1>3, <1>4 DEF Owned

\* An entry of work that names no temporary.
Plainly(T, x) == x.d \notin T /\ x.r \notin T /\ (x.do = "call" => x.d = NULL)

\* The first entry goes, and some come in its place: the last of them may
\* await a temporary that nothing names yet.
LEMMA OwnWalk ==
  ASSUME NEW T, NEW c, NEW w, NEW v, Owned(T, c, w, v), Len(w) \in Nat \ {0},
         NEW k, NEW m \in Nat, Len(k) = Len(w) - 1 + m,
         \A i \in m + 1..Len(k) : k[i] = w[i - m + 1],
         \A i \in 1..m : \/ Plainly(T, k[i])
                         \/ /\ i = m /\ k[i].do = "call" /\ k[i].d \in T /\ k[i].r \notin T
                            /\ Untouched(c, v, k[i].d)
                            /\ \A j \in 1..Len(w) : w[j].d # k[i].d
  PROVE  Owned(T, c, k, v)
<1>1. ASSUME NEW i \in 1..Len(k) PROVE Awaits(T, c, k, v, i)
  <2>1. CASE i \in 1..m /\ Plainly(T, k[i])
    BY <2>1 DEF Awaits, Plainly
  <2>2. CASE /\ i = m /\ k[i].do = "call" /\ k[i].d \in T /\ k[i].r \notin T
             /\ Untouched(c, v, k[i].d) /\ i \in 1..m
             /\ \A j \in 1..Len(w) : w[j].d # k[i].d
    <3>1. ASSUME NEW j \in 1..Len(k), k[j].d = k[i].d PROVE j = i
      <4>1. CASE j \in 1..m
        <5>1. ~Plainly(T, k[j])
          BY <2>2, <3>1 DEF Plainly
        <5>. QED BY <2>2, <4>1, <5>1
      <4>2. CASE j \notin 1..m
        <5>1. j \in m + 1..Len(k) /\ j - m + 1 \in 1..Len(w)
          BY <4>2
        <5>. QED BY <2>2, <3>1, <5>1
      <4>. QED BY <4>1, <4>2
    <3>. QED BY <2>2, <3>1 DEF Awaits
  <2>3. CASE i \notin 1..m
    <3>1. i \in m + 1..Len(k) /\ i - m + 1 \in 1..Len(w) /\ k[i] = w[i - m + 1]
      BY <2>3
    <3>2. Awaits(T, c, w, v, i - m + 1)
      BY <3>1 DEF Owned
    <3>3. ASSUME k[i].d \in T, NEW j \in 1..Len(k), k[j].d = k[i].d PROVE j = i
      <4>1. CASE j \in 1..m
        <5>1. ~Plainly(T, k[j])
          BY <3>3 DEF Plainly
        <5>. QED BY <3>1, <3>3, <4>1, <5>1
      <4>2. CASE j \notin 1..m
        <5>1. j \in m + 1..Len(k) /\ j - m + 1 \in 1..Len(w) /\ k[j] = w[j - m + 1]
          BY <4>2
        <5>2. j - m + 1 = i - m + 1
          BY <3>1, <3>2, <3>3, <5>1 DEF Awaits
        <5>. QED BY <5>2
      <4>. QED BY <4>1, <4>2
    <3>. QED BY <3>1, <3>2, <3>3 DEF Awaits
  <2>. QED BY <2>1, <2>2, <2>3
<1>. QED BY <1>1 DEF Owned

\* One more returned value.
LEMMA OwnReturn ==
  ASSUME NEW T, NEW c, NEW w, NEW v, Owned(T, c, w, v), Len(v) \in Nat,
         NEW r, Len(r) = Len(v) + 1, \A i \in 1..Len(v) : r[i] = v[i], NEW e, r[Len(r)] = e,
         e \in T => /\ Computed(c, e, Len(c) + 1) /\ \A u \in 1..Len(c) : e \notin UseOf(c[u])
                    /\ \A i \in 1..Len(v) : v[i] # e
                    /\ \A i \in 1..Len(w) : w[i].d # e
  PROVE  Owned(T, c, w, r)
<1>0. \A i \in 1..Len(r) : (i \in 1..Len(v) /\ r[i] = v[i]) \/ (i = Len(r) /\ r[i] = e)
  OBVIOUS
<1>1. ASSUME NEW i \in 1..Len(r), r[i] \in T PROVE Held(c, r, i)
  <2>1. CASE i \in 1..Len(v)
    <3>1. Held(c, v, i) /\ r[i] = v[i]
      BY <1>1, <2>1 DEF Owned
    <3>2. r[i] # e
      BY <1>1, <2>1, <3>1
    <3>3. \A j \in 1..Len(r) : r[j] = r[i] => j \in 1..Len(v) /\ v[j] = v[i]
      BY <1>0, <3>1, <3>2
    <3>. QED BY <3>1, <3>3 DEF Held
  <2>2. CASE i = Len(r)
    <3>1. \A j \in 1..Len(r) : r[j] = r[i] => j = i
      BY <1>0, <1>1, <2>2
    <3>. QED BY <1>1, <2>2, <3>1 DEF Held
  <2>. QED BY <1>0, <2>1, <2>2
<1>2. ASSUME NEW i \in 1..Len(w) PROVE Awaits(T, c, w, r, i)
  <2>1. Awaits(T, c, w, v, i)
    BY <1>2 DEF Owned
  <2>2. w[i].d \in T => Untouched(c, r, w[i].d)
    BY <1>0, <1>2, <2>1 DEF Awaits, Untouched
  <2>. QED BY <2>1, <2>2 DEF Awaits
<1>. QED BY <1>1, <1>2 DEF Owned

\* More instructions behind those of c.
Longer(b, c) ==
  Len(c) \in Nat /\ Len(b) \in Nat /\ Len(c) <= Len(b) /\ \A i \in 1..Len(c) : b[i] = c[i]

\* What is computed stays so: what comes later jumps from behind it.
LEMMA ComputedStays ==
  ASSUME NEW b, NEW c, Longer(b, c), NEW u \in 1..Len(c) + 1, NEW t, Computed(c, t, u)
  PROVE  Computed(b, t, u)
<1>1. PICK d \in 1..u - 1 : DefOf(c[d]) = t /\ Behind(c, d, u - 1)
  BY DEF Computed
<1>2. ASSUME NEW k \in d..u - 1, b[k].op = "LABEL", NEW j \in 1..Len(b), Jumping(b[j]),
             b[j].d = b[k].d
      PROVE  j > d
  <2>1. b[k] = c[k] /\ k \in 1..Len(c)
    BY <1>1 DEF Longer
  <2>2. CASE j \in 1..Len(c)
    BY <1>1, <1>2, <2>1, <2>2 DEF Behind, Longer
  <2>3. CASE j \notin 1..Len(c)
    BY <1>1, <2>3 DEF Longer
  <2>. QED BY <2>2, <2>3
<1>3. b[d] = c[d]
  BY <1>1 DEF Longer
<1>4. Behind(b, d, u - 1)
  BY <1>2 DEF Behind
<1>. QED BY <1>1, <1>3, <1>4 DEF Computed

\* And so does what waits to be read, if no label comes that is jumped to.
LEMMA ComputedWaits ==
  ASSUME NEW b, NEW c, Longer(b, c), NEW t, Computed(c, t, Len(c) + 1),
         \A k \in Len(c) + 1..Len(b) : b[k].op = "LABEL" =>
           \A j \in 1..Len(c) : Jumping(c[j]) => c[j].d # b[k].d
  PROVE  Computed(b, t, Len(b) + 1)
<1>0. Len(c) \in Nat /\ Len(b) \in Nat /\ Len(c) <= Len(b)
  BY DEF Longer
<1>1. PICK d \in 1..Len(c) : DefOf(c[d]) = t /\ Behind(c, d, Len(c))
  <2>1. Len(c) + 1 - 1 = Len(c)
    BY <1>0
  <2>. QED BY <2>1 DEF Computed
<1>2. ASSUME NEW k \in d..Len(b), b[k].op = "LABEL", NEW j \in 1..Len(b), Jumping(b[j]),
             b[j].d = b[k].d
      PROVE  j > d
  <2>1. CASE j \notin 1..Len(c)
    BY <1>0, <1>1, <2>1
  <2>2. CASE j \in 1..Len(c) /\ k \in d..Len(c)
    <3>1. b[k] = c[k] /\ b[j] = c[j]
      BY <1>0, <1>1, <2>2 DEF Longer
    <3>. QED BY <1>1, <1>2, <2>2, <3>1 DEF Behind
  <2>3. CASE j \in 1..Len(c) /\ k \notin d..Len(c)
    <3>1. b[j] = c[j] /\ k \in Len(c) + 1..Len(b)
      BY <1>0, <1>1, <2>3 DEF Longer
    <3>. QED BY <1>2, <2>3, <3>1
  <2>. QED BY <2>1, <2>2, <2>3
<1>3. b[d] = c[d] /\ d \in 1..Len(b)
  BY <1>0, <1>1 DEF Longer
<1>4. Behind(b, d, Len(b))
  BY <1>2 DEF Behind
<1>5. Len(b) + 1 - 1 = Len(b)
  BY <1>0
<1>. QED BY <1>1, <1>3, <1>4, <1>5 DEF Computed

\* An instruction that reads, defines and marks nothing of the temporaries.
Neutral(T, x) == x.op # "LABEL" /\ DefOf(x) = NULL /\ UseOf(x) \cap T = {}

\* The instruction x comes behind c, and neutral ones behind it.
Adds(T, b, c, x) ==
  /\ Longer(b, c) /\ Len(c) < Len(b) /\ b[Len(c) + 1] = x
  /\ \A i \in Len(c) + 2..Len(b) : Neutral(T, b[i])

\* What x reads is returned no more.
Takes(T, x, v, r) ==
  /\ Len(v) \in Nat /\ Len(r) \in Nat /\ Len(r) <= Len(v) /\ \A i \in 1..Len(r) : r[i] = v[i]
  /\ \A t \in UseOf(x) \cap T : x.op # "LABEL" /\ \E i \in Len(r) + 1..Len(v) : v[i] = t

\* What x defines is new.
LEMMA OwnEmit ==
  ASSUME NEW T, NULL \notin T, NEW c, NEW w, NEW v, Owned(T, c, w, v),
         NEW b, NEW x, Adds(T, b, c, x), NEW r, Takes(T, x, v, r),
         x.op = "LABEL" => \/ \A i \in 1..Len(r) : r[i] \notin T
                           \/ \A j \in 1..Len(c) : Jumping(c[j]) => c[j].d # x.d,
         DefOf(x) # NULL => /\ DefOf(x) \in T /\ Untouched(c, v, DefOf(x))
                            /\ \A i \in 1..Len(w) : w[i].d # DefOf(x)
  PROVE  Owned(T, b, w, r)
<1>. /\ Longer(b, c) /\ Len(c) < Len(b) /\ b[Len(c) + 1] = x
     /\ \A i \in Len(c) + 2..Len(b) : Neutral(T, b[i])
     /\ Len(v) \in Nat /\ Len(r) \in Nat /\ Len(r) <= Len(v) /\ \A i \in 1..Len(r) : r[i] = v[i]
     /\ \A t \in UseOf(x) \cap T : x.op # "LABEL" /\ \E i \in Len(r) + 1..Len(v) : v[i] = t
  BY DEF Adds, Takes
<1>0. Len(c) \in Nat /\ Len(b) \in Nat /\ Len(c) <= Len(b) /\ \A i \in 1..Len(c) : b[i] = c[i]
  BY DEF Longer
<1>1. \A i \in 1..Len(b) : \/ i \in 1..Len(c) /\ b[i] = c[i]
                           \/ i = Len(c) + 1 /\ b[i] = x
                           \/ i \in Len(c) + 2..Len(b) /\ Neutral(T, b[i])
  BY <1>0
<1>2. ASSUME NEW t \in UseOf(x) \cap T
      PROVE  /\ Computed(c, t, Len(c) + 1) /\ \A u \in 1..Len(c) : t \notin UseOf(c[u])
             /\ \A i \in 1..Len(r) : r[i] # t
             /\ \A i \in 1..Len(w) : w[i].d # t
  <2>1. PICK i \in Len(r) + 1..Len(v) : v[i] = t
    BY <1>2
  <2>2. i \in 1..Len(v) /\ Held(c, v, i)
    BY <1>2, <2>1 DEF Owned
  <2>3. ASSUME NEW j \in 1..Len(r), r[j] = t PROVE FALSE
    <3>1. j \in 1..Len(v) /\ v[j] = v[i] /\ j # i
      BY <2>1, <2>3
    <3>. QED BY <2>2, <3>1 DEF Held
  <2>4. ASSUME NEW j \in 1..Len(w), w[j].d = t PROVE FALSE
    <3>1. Awaits(T, c, w, v, j)
      BY <2>4 DEF Owned
    <3>. QED BY <1>2, <2>1, <2>2, <2>4, <3>1 DEF Awaits, Untouched
  <2>. QED BY <2>1, <2>2, <2>3, <2>4 DEF Held
<1>3. ASSUME NEW i \in 1..Len(b), NEW j \in 1..Len(b),
             DefOf(b[i]) # NULL, DefOf(b[i]) = DefOf(b[j])
      PROVE  i = j
  <2>1. CASE i \in 1..Len(c) /\ j \in 1..Len(c)
    BY <1>0, <1>3, <2>1 DEF Owned
  <2>2. CASE i = Len(c) + 1 \/ j = Len(c) + 1
    BY <1>0, <1>1, <1>3, <2>2 DEF Untouched, Neutral
  <2>. QED BY <1>1, <1>3, <2>1, <2>2 DEF Neutral
<1>4. ASSUME NEW u \in 1..Len(b), NEW t \in UseOf(b[u]) \cap T
      PROVE  ReadAt(b, t, u)
  <2>1. CASE u \in 1..Len(c)
    <3>1. b[u] = c[u] /\ ReadAt(c, t, u)
      BY <1>0, <1>4, <2>1 DEF Owned
    <3>2. Computed(b, t, u)
      BY <1>0, <2>1, <3>1, ComputedStays DEF ReadAt
    <3>3. t \notin UseOf(x)
      BY <1>2, <1>4, <2>1, <3>1
    <3>4. ASSUME NEW i \in 1..Len(b), t \in UseOf(b[i]) PROVE i = u
      BY <1>1, <1>4, <3>1, <3>3, <3>4 DEF ReadAt, Neutral
    <3>. QED BY <3>1, <3>2, <3>4 DEF ReadAt
  <2>2. CASE u = Len(c) + 1
    <3>1. b[u] = x /\ t \in UseOf(x) \cap T
      BY <1>4, <2>2
    <3>2. Computed(b, t, u)
      BY <1>0, <1>2, <2>2, <3>1, ComputedStays
    <3>3. ASSUME NEW i \in 1..Len(b), t \in UseOf(b[i]) PROVE i = u
      BY <1>1, <1>2, <2>2, <3>1, <3>3 DEF Neutral
    <3>. QED BY <3>1, <3>2, <3>3 DEF ReadAt
  <2>. QED BY <1>1, <1>4, <2>1, <2>2 DEF Neutral
<1>5. ASSUME NEW i \in 1..Len(r), r[i] \in T PROVE Held(b, r, i)
  <2>1. i \in 1..Len(v) /\ r[i] = v[i] /\ Held(c, v, i)
    BY <1>5 DEF Owned
  <2>2. \A k \in Len(c) + 1..Len(b) : b[k].op = "LABEL" =>
          \A j \in 1..Len(c) : Jumping(c[j]) => c[j].d # b[k].d
    <3>. SUFFICES ASSUME NEW k \in Len(c) + 1..Len(b), b[k].op = "LABEL"
                  PROVE  \A j \in 1..Len(c) : Jumping(c[j]) => c[j].d # b[k].d
      OBVIOUS
    <3>1. k = Len(c) + 1 /\ b[k] = x
      BY <1>0, <1>1 DEF Neutral
    <3>. QED BY <1>5, <3>1
  <2>3. Computed(b, r[i], Len(b) + 1)
    BY <2>1, <2>2, ComputedWaits DEF Held
  <2>4. ASSUME NEW u \in 1..Len(b), r[i] \in UseOf(b[u]) PROVE FALSE
    <3>1. r[i] \notin UseOf(x)
      BY <1>2, <1>5
    <3>. QED BY <1>1, <1>5, <2>1, <2>4, <3>1 DEF Held, Neutral
  <2>5. ASSUME NEW j \in 1..Len(r), r[j] = r[i] PROVE j = i
    <3>1. j \in 1..Len(v) /\ v[j] = v[i]
      BY <2>1, <2>5
    <3>. QED BY <2>1, <3>1 DEF Held
  <2>. QED BY <2>3, <2>4, <2>5 DEF Held
<1>6. ASSUME NEW i \in 1..Len(w) PROVE Awaits(T, b, w, r, i)
  <2>1. Awaits(T, c, w, v, i)
    BY <1>6 DEF Owned
  <2>2. ASSUME w[i].d \in T PROVE Untouched(b, r, w[i].d)
    <3>1. Untouched(c, v, w[i].d)
      BY <2>1, <2>2 DEF Awaits
    <3>2. DefOf(x) # w[i].d /\ w[i].d \notin UseOf(x)
      BY <1>2, <1>6, <2>2
    <3>3. ASSUME NEW j \in 1..Len(b) PROVE DefOf(b[j]) # w[i].d /\ w[i].d \notin UseOf(b[j])
      BY <1>1, <2>2, <3>1, <3>2, <3>3 DEF Untouched, Neutral
    <3>4. ASSUME NEW j \in 1..Len(r) PROVE r[j] # w[i].d
      <4>1. j \in 1..Len(v) /\ r[j] = v[j]
        BY <3>4
      <4>. QED BY <3>1, <4>1 DEF Untouched
    <3>. QED BY <3>3, <3>4 DEF Untouched
  <2>. QED BY <2>1, <2>2 DEF Awaits
<1>. QED BY <1>3, <1>4, <1>5, <1>6 DEF Owned

-----------------------------------------------------------------------------
(* Steps of the generator                                                  *)

\* A symbol that is to come is named nowhere.
LEMMA OldNames ==
  ASSUME WorkInv, NEW t, t \notin DOMAIN syms \cup {NULL}
  PROVE  /\ Untouched(code, vals, t)
         /\ \A i \in 1..Len(work) : work[i].d # t /\ work[i].r # t
<1>1. \A i \in 1..Len(work) : work[i].d # t /\ work[i].r # t
  BY DEF WorkInv, Chain, Leads, Step, Fits
<1>2. \A i \in 1..Len(vals) : vals[i] # t
  BY DEF WorkInv, Values, Valued
<1>3. \A i \in 1..Len(code) : code[i].d # t /\ code[i].r # t /\ code[i].s # t
  BY DEF WorkInv, Lines, OperandsIn
<1>4. \A i \in 1..Len(code) : DefOf(code[i]) # t /\ t \notin UseOf(code[i])
  BY <1>3 DEF DefOf, UseOf
<1>. QED BY <1>1, <1>2, <1>4 DEF Untouched

LEMMA NewTemps ==
  ASSUME WorkInv, TempInv, Extends(syms', syms)
  PROVE  /\ Owned(Temps', code, work, vals) /\ NULL \notin Temps' /\ Temps \subseteq Temps'
         /\ \A t \in Temps' : t \in DOMAIN syms => t \in Temps
<1>1. Table(syms') /\ Table(syms) /\ DOMAIN syms \subseteq DOMAIN syms'
  BY SymsExtend DEF Extends
<1>2. \A t \in DOMAIN syms : syms'[t] = syms[t]
  BY DEF Extends
<1>3. NULL \notin Temps'
  BY <1>1 DEF Temps, Table, NULL
<1>4. Temps \subseteq Temps' /\ \A t \in Temps' : t \in DOMAIN syms => t \in Temps
  BY <1>1, <1>2 DEF Temps
<1>5. \A t \in Temps' \ Temps : t \notin DOMAIN syms \cup {NULL}
  BY <1>3, <1>4
<1>6. Owned(Temps', code, work, vals)
  BY <1>4, <1>5, OldNames, OwnGrow DEF TempInv
<1>. QED BY <1>3, <1>4, <1>6

\* A list of entries that name no temporary.
Calm(T, is) == \E S : is \in Seq(S) /\ \A x \in S : Plainly(T, x)

LEMMA WorkType ==
  ASSUME WorkInv, work # <<>>
  PROVE  /\ work \in Seq(Item) /\ Len(work) \in Nat \ {0} /\ Head(work) = work[1]
         /\ Tail(work) \in Seq(Item) /\ Len(Tail(work)) = Len(work) - 1
         /\ \A i \in 1..Len(work) - 1 : Tail(work)[i] = work[i + 1]
<1>1. work \in Seq(Item)
  BY DEF WorkInv, Chain, Leads
<1>. QED BY <1>1, HeadTailProperties

\* The places of the entries after a step.
LEMMA WorkPlaces ==
  ASSUME WorkInv, work # <<>>, NEW S, NEW is \in Seq(S), Walk(is)
  PROVE  /\ Len(is) \in Nat /\ Len(work') = Len(work) - 1 + Len(is)
         /\ \A i \in 1..Len(is) : work'[i] = is[i]
         /\ \A i \in Len(is) + 1..Len(work') : work'[i] = work[i - Len(is) + 1]
<1>. DEFINE E == Item \cup S
            t == Tail(work)
<1>1. /\ t \in Seq(E) /\ is \in Seq(E) /\ Len(t) = Len(work) - 1 /\ Len(work) \in Nat
      /\ \A i \in 1..Len(t) : t[i] = work[i + 1]
  BY WorkType
<1>2. work' = is \o t
  BY DEF Walk
<1>. HIDE DEF E, t
<1>3. /\ Len(is) \in Nat /\ Len(t) \in Nat /\ Len(is \o t) = Len(is) + Len(t)
      /\ \A i \in 1..Len(is \o t) :
           (is \o t)[i] = IF i <= Len(is) THEN is[i] ELSE t[i - Len(is)]
  <2>1. is \in Seq(E) /\ t \in Seq(E)
    BY <1>1
  <2>2. Len(is) \in Nat /\ Len(t) \in Nat /\ Len(is \o t) = Len(is) + Len(t)
    BY <2>1, ConcatProperties
  <2>3. \A i \in 1..Len(is \o t) : (is \o t)[i] = IF i <= Len(is) THEN is[i] ELSE t[i - Len(is)]
    BY <2>1, ConcatProperties
  <2>. QED BY <2>2, <2>3
<1>4. ASSUME NEW i \in Len(is) + 1..Len(work') PROVE work'[i] = work[i - Len(is) + 1]
  <2>1. i - Len(is) \in 1..Len(t) /\ ~(i <= Len(is)) /\ i \in 1..Len(is \o t)
    BY <1>2, <1>3
  <2>. QED BY <1>1, <1>2, <1>3, <2>1
<1>. QED BY <1>1, <1>2, <1>3, <1>4

LEMMA CalmWalk ==
  ASSUME WorkInv, work # <<>>, NEW T, NEW c, NEW v, Owned(T, c, work, v),
         NEW is, Calm(T, is), Walk(is)
  PROVE  Owned(T, c, work', v)
<1>1. PICK S : is \in Seq(S) /\ \A x \in S : Plainly(T, x)
  BY DEF Calm
<1>2. /\ Len(is) \in Nat /\ Len(work') = Len(work) - 1 + Len(is)
      /\ \A i \in 1..Len(is) : work'[i] = is[i]
      /\ \A i \in Len(is) + 1..Len(work') : work'[i] = work[i - Len(is) + 1]
  BY <1>1, WorkPlaces
<1>3. \A i \in 1..Len(is) : Plainly(T, work'[i])
  BY <1>1, <1>2, ElementOfSeq
<1>4. Len(work) \in Nat \ {0}
  BY WorkType
<1>. QED BY <1>2, <1>3, <1>4, OwnWalk

LEMMA CalmNone == \A T : Calm(T, <<>>)
<1>. DEFINE S == {}
<1>1. <<>> \in Seq(S) /\ \A T : \A x \in S : Plainly(T, x)
  OBVIOUS
<1>. HIDE DEF S
<1>. QED BY <1>1 DEF Calm

\* A step that adds entries of work, and allocates symbols perhaps.
LEMMA TempWalk ==
  ASSUME WorkInv, TempInv, NEW f, At(f), UNCHANGED <<vals, code>>, Extends(syms', syms),
         NEW is, Calm(Temps', is), Walk(is)
  PROVE  TempInv'
<1>1. Owned(Temps', code, work, vals) /\ work # <<>>
  BY NewTemps DEF At
<1>2. Owned(Temps', code, work', vals)
  BY <1>1, CalmWalk
<1>. QED BY <1>2 DEF TempInv

\* What is kept of the returned values.
Kept(n) == SubSeq(vals, 1, Len(vals) - n)

LEMMA KeptFacts ==
  ASSUME Values(syms, vals), NEW n \in 0..Len(vals)
  PROVE  /\ Len(vals) \in Nat /\ Kept(n) \in Seq(Nat) /\ Len(Kept(n)) = Len(vals) - n
         /\ \A i \in 1..Len(Kept(n)) : Kept(n)[i] = vals[i]
         /\ \A i \in 1..n : Len(vals) + 1 - i \in Len(Kept(n)) + 1..Len(vals)
<1>1. vals \in Seq(Nat) /\ Len(vals) \in Nat
  BY DEF Values
<1>. QED BY <1>1, SubSeqProperties DEF Kept

LEMMA AppendLonger ==
  ASSUME NEW c \in Seq(Line), NEW x
  PROVE  Longer(Append(c, x), c) /\ Len(Append(c, x)) = Len(c) + 1
         /\ Append(c, x)[Len(c) + 1] = x
<1>1. c \in Seq(Line \cup {x}) /\ x \in Line \cup {x}
  OBVIOUS
<1>. QED BY <1>1, AppendProperties DEF Longer

\* One instruction, which reads some of the last n values.
LEMMA TempEmit ==
  ASSUME WorkInv, TempInv, Extends(syms', syms), NEW n \in 0..Len(vals), NEW x,
         UseOf(x) \cap Temps' \subseteq {Value(i) : i \in 1..n},
         x.op = "LABEL" => vals = <<>>,
         DefOf(x) \in {NULL, NewSid}, DefOf(x) = NewSid => NewSid \in Temps'
  PROVE  Owned(Temps', Append(code, x), work, Kept(n))
<1>1. Owned(Temps', code, work, vals) /\ NULL \notin Temps'
  BY NewTemps
<1>2. /\ Longer(Append(code, x), code) /\ Len(Append(code, x)) = Len(code) + 1
      /\ Append(code, x)[Len(code) + 1] = x /\ Len(code) \in Nat
  BY AppendLonger DEF WorkInv, Lines
<1>3. /\ Len(vals) \in Nat /\ Len(Kept(n)) = Len(vals) - n /\ Len(Kept(n)) \in Nat
      /\ \A i \in 1..Len(Kept(n)) : Kept(n)[i] = vals[i]
      /\ \A i \in 1..n : Len(vals) + 1 - i \in Len(Kept(n)) + 1..Len(vals)
  BY KeptFacts DEF WorkInv
<1>4. \A t \in UseOf(x) \cap Temps' : \E i \in Len(Kept(n)) + 1..Len(vals) : vals[i] = t
  BY <1>3 DEF Value
<1>5. x.op = "LABEL" => UseOf(x) \cap Temps' = {} /\ \A i \in 1..Len(Kept(n)) : FALSE
  <2>. SUFFICES ASSUME x.op = "LABEL"
                PROVE  UseOf(x) \cap Temps' = {} /\ \A i \in 1..Len(Kept(n)) : FALSE
    OBVIOUS
  <2>1. Len(vals) = 0 /\ n = 0 /\ Len(Kept(n)) = 0
    BY <1>3
  <2>. QED BY <2>1
<1>6. DefOf(x) # NULL => /\ DefOf(x) \in Temps' /\ Untouched(code, vals, DefOf(x))
                         /\ \A i \in 1..Len(work) : work[i].d # DefOf(x)
  <2>1. NewSid \notin DOMAIN syms \cup {NULL}
    BY DEF WorkInv, Table, NewSid, NULL
  <2>. QED BY <2>1, OldNames
<1>7. \A i \in Len(code) + 2..Len(Append(code, x)) : Neutral(Temps', Append(code, x)[i])
  BY <1>2
<1>8. Len(code) < Len(Append(code, x)) /\ Len(Kept(n)) <= Len(vals)
  BY <1>2, <1>3
<1>. DEFINE T == Temps'
            b == Append(code, x)
            r == Kept(n)
<1>9. Adds(T, b, code, x)
  BY <1>2, <1>7, <1>8 DEF Adds
<1>10. Takes(T, x, vals, r)
  BY <1>3, <1>4, <1>5, <1>8 DEF Takes
<1>11. x.op = "LABEL" => \A i \in 1..Len(r) : r[i] \notin T
  BY <1>5
<1>. HIDE DEF b, r, T
<1>12. Owned(T, b, work, r)
  BY <1>1, <1>6, <1>9, <1>10, <1>11, OwnEmit DEF T
<1>. QED BY <1>12 DEF T, b, r

\* The values that are left, and one more.
LEMMA KeptMore ==
  ASSUME Values(syms, vals), NEW n \in 0..Len(vals), NEW e, Returns(n, <<e>>)
  PROVE  /\ Len(vals') = Len(Kept(n)) + 1 /\ vals'[Len(vals')] = e
         /\ \A i \in 1..Len(Kept(n)) : vals'[i] = Kept(n)[i]
<1>. DEFINE r == Kept(n)
<1>1. r \in Seq(Nat) /\ Len(r) \in Nat
  BY KeptFacts
<1>2. vals' = r \o <<e>>
  BY DEF Returns, Kept
<1>. HIDE DEF r
<1>3. r \in Seq(Nat \cup {e}) /\ <<e>> \in Seq(Nat \cup {e}) /\ Len(<<e>>) = 1 /\ <<e>>[1] = e
  BY <1>1
<1>4. /\ Len(vals') = Len(r) + 1 /\ vals'[Len(r) + 1] = e
      /\ \A i \in 1..Len(r) : vals'[i] = r[i]
  BY <1>1, <1>2, <1>3
<1>. QED BY <1>4 DEF r

\* Fewer values.
LEMMA OwnDrop ==
  ASSUME NEW T, NEW c, NEW w, NEW v, Owned(T, c, w, v), NEW r,
         Len(v) \in Nat, Len(r) \in Nat, Len(r) <= Len(v), \A i \in 1..Len(r) : r[i] = v[i]
  PROVE  Owned(T, c, w, r)
<1>1. ASSUME NEW i \in 1..Len(r), r[i] \in T PROVE Held(c, r, i)
  <2>1. i \in 1..Len(v) /\ Held(c, v, i)
    BY <1>1 DEF Owned
  <2>2. \A j \in 1..Len(r) : j \in 1..Len(v) /\ v[j] = r[j]
    OBVIOUS
  <2>. QED BY <1>1, <2>1, <2>2 DEF Held
<1>2. ASSUME NEW i \in 1..Len(w) PROVE Awaits(T, c, w, r, i)
  <2>1. Awaits(T, c, w, v, i)
    BY <1>2 DEF Owned
  <2>2. \A j \in 1..Len(r) : j \in 1..Len(v) /\ v[j] = r[j]
    OBVIOUS
  <2>. QED BY <2>1, <2>2 DEF Awaits, Untouched
<1>. QED BY <1>1, <1>2 DEF Owned

\* A step that ends an entry with an instruction that defines nothing,
LEMMA TempUse ==
  ASSUME WorkInv, TempInv, NEW f, At(f), Walk(<<>>), Extends(syms', syms),
         NEW n \in 0..Len(vals), NEW x, code' = Append(code, x), Returns(n, <<>>),
         UseOf(x) \cap Temps' \subseteq {Value(i) : i \in 1..n},
         x.op = "LABEL" => vals = <<>>, DefOf(x) = NULL
  PROVE  TempInv'
<1>. DEFINE T == Temps'
<1>1. NewSid # NULL
  BY DEF WorkInv, Table, NewSid, NULL
<1>2. Owned(T, code', work, Kept(n))
  BY <1>1, TempEmit
<1>3. vals' = Kept(n)
  <2>1. Kept(n) \in Seq(Nat) /\ vals' = Kept(n) \o <<>>
    BY KeptFacts DEF WorkInv, Returns, Kept
  <2>. QED BY <2>1, ConcatEmptySeq
<1>. HIDE DEF T
<1>4. Owned(T, code', work', vals')
  BY <1>2, <1>3, CalmNone, CalmWalk DEF At
<1>. QED BY <1>4 DEF TempInv, T

\* one that defines the temporary that is returned,
LEMMA TempResult ==
  ASSUME WorkInv, TempInv, NEW f, At(f), Walk(<<>>), Extends(syms', syms),
         NEW n \in 0..Len(vals), NEW x, code' = Append(code, x), Returns(n, <<NewSid>>),
         UseOf(x) \cap Temps' \subseteq {Value(i) : i \in 1..n},
         DefOf(x) = NewSid, NewSid \in Temps'
  PROVE  TempInv'
<1>. DEFINE T == Temps'
            b == Append(code, x)
            r == Kept(n)
<1>1. /\ NewSid \notin DOMAIN syms \cup {NULL} /\ x.op # "LABEL"
      /\ Values(syms, vals) /\ code \in Seq(Line) /\ Len(code) \in Nat
  <2>1. NewSid \notin DOMAIN syms \cup {NULL}
    BY DEF WorkInv, Table, NewSid, NULL
  <2>. QED BY <2>1 DEF DefOf, WorkInv, Lines
<1>2. Owned(T, b, work, r)
  BY <1>1, TempEmit
<1>3. /\ Len(b) = Len(code) + 1 /\ b[Len(code) + 1] = x
      /\ \A i \in 1..Len(code) : b[i] = code[i]
  BY <1>1, AppendLonger DEF Longer
<1>4. /\ Untouched(code, vals, NewSid) /\ \A i \in 1..Len(work) : work[i].d # NewSid
  BY <1>1, OldNames
<1>5. Computed(b, NewSid, Len(b) + 1)
  <2>. DEFINE d == Len(code) + 1
  <2>1. d \in 1..Len(b) + 1 - 1 /\ DefOf(b[d]) = NewSid
    BY <1>1, <1>3
  <2>2. Behind(b, d, Len(b) + 1 - 1)
    <3>1. \A k \in d..Len(b) + 1 - 1 : b[k] = x
      BY <1>1, <1>3
    <3>. QED BY <1>1, <3>1 DEF Behind
  <2>. QED BY <2>1, <2>2 DEF Computed
<1>6. \A u \in 1..Len(b) : NewSid \notin UseOf(b[u])
  <2>1. NewSid \notin UseOf(x)
    <3>. SUFFICES ASSUME NewSid \in UseOf(x) PROVE FALSE
      OBVIOUS
    <3>1. PICK i \in 1..n : Value(i) = NewSid
      OBVIOUS
    <3>2. i \in 1..Len(vals)
      BY <1>1, KeptFacts
    <3>. QED BY <1>1, <3>1, <3>2, ValueTop
  <2>2. \A u \in 1..Len(b) : u \in 1..Len(code) \/ u = Len(code) + 1
    BY <1>1, <1>3
  <2>. QED BY <1>3, <1>4, <2>1, <2>2 DEF Untouched
<1>7. /\ Len(vals') = Len(r) + 1 /\ vals'[Len(vals')] = NewSid
      /\ \A i \in 1..Len(r) : vals'[i] = r[i]
  BY <1>1, KeptMore
<1>8. Len(r) \in Nat /\ \A i \in 1..Len(r) : r[i] # NewSid
  <2>1. /\ Len(vals) \in Nat /\ Len(r) = Len(vals) - n /\ \A i \in 1..Len(r) : r[i] = vals[i]
    BY <1>1, KeptFacts
  <2>2. \A i \in 1..Len(r) : i \in 1..Len(vals)
    BY <2>1
  <2>. QED BY <1>4, <2>1, <2>2 DEF Untouched
<1>. HIDE DEF T, b, r
<1>9. Owned(T, b, work, vals')
  BY <1>2, <1>4, <1>5, <1>6, <1>7, <1>8, OwnReturn
<1>10. Owned(T, b, work', vals')
  BY <1>9, CalmNone, CalmWalk DEF At
<1>. QED BY <1>10 DEF TempInv, T, b

\* and one without an instruction, which returns what is no temporary.
LEMMA TempValue ==
  ASSUME WorkInv, TempInv, NEW f, At(f), Walk(<<>>), Extends(syms', syms), UNCHANGED code,
         NEW n \in 0..Len(vals), NEW e, e \notin Temps', Returns(n, <<e>>)
  PROVE  TempInv'
<1>. DEFINE T == Temps'
            r == Kept(n)
<1>1. Owned(T, code, work, vals) /\ Values(syms, vals)
  BY NewTemps DEF WorkInv
<1>2. /\ Len(vals) \in Nat /\ Len(r) \in Nat /\ Len(r) <= Len(vals)
      /\ \A i \in 1..Len(r) : r[i] = vals[i]
  BY <1>1, KeptFacts
<1>3. /\ Len(vals') = Len(r) + 1 /\ vals'[Len(vals')] = e
      /\ \A i \in 1..Len(r) : vals'[i] = r[i]
  BY <1>1, KeptMore
<1>4. e \notin T
  OBVIOUS
<1>. HIDE DEF T, r
<1>5. Owned(T, code, work, r)
  BY <1>1, <1>2, OwnDrop
<1>6. Owned(T, code, work, vals')
  BY <1>2, <1>3, <1>4, <1>5, OwnReturn
<1>7. Owned(T, code, work', vals')
  BY <1>6, CalmNone, CalmWalk DEF At
<1>. QED BY <1>7 DEF TempInv, T

-----------------------------------------------------------------------------
(* Entries of work that name no temporary                                  *)

LEMMA PlainEntries ==
  ASSUME NEW T, NULL \notin T, NEW f
  PROVE  /\ Plainly(T, Gen(f)) /\ \A q : Plainly(T, Expr(f, q))
         /\ \A op, d : d \notin T => Plainly(T, Emit(op, d))
         /\ \A op, d, r : d \notin T /\ r \notin T /\ (f = "call" => d = NULL) =>
              Plainly(T, Then(f, op, d, r))
BY DEF Plainly, Gen, Expr, Emit, Then, Do

LEMMA CalmOf ==
  ASSUME NEW T, NEW S, NEW is, is \in Seq(S), \A x \in S : Plainly(T, x)
  PROVE  Calm(T, is)
BY DEF Calm

LEMMA CalmOne ==
  ASSUME NEW T, NEW u, Plainly(T, u)
  PROVE  Calm(T, <<u>>)
<1>. DEFINE S == {u}
<1>1. <<u>> \in Seq(S) /\ \A x \in S : Plainly(T, x)
  OBVIOUS
<1>. HIDE DEF S
<1>. QED BY <1>1, CalmOf

LEMMA CalmTwo ==
  ASSUME NEW T, NEW u, Plainly(T, u), NEW v, Plainly(T, v)
  PROVE  Calm(T, <<u, v>>)
<1>. DEFINE S == {u, v}
<1>1. <<u, v>> \in Seq(S) /\ \A x \in S : Plainly(T, x)
  OBVIOUS
<1>. HIDE DEF S
<1>. QED BY <1>1, CalmOf

LEMMA CalmThree ==
  ASSUME NEW T, NEW u, Plainly(T, u), NEW v, Plainly(T, v), NEW w, Plainly(T, w)
  PROVE  Calm(T, <<u, v, w>>)
<1>. DEFINE S == {u, v, w}
<1>1. <<u, v, w>> \in Seq(S) /\ \A x \in S : Plainly(T, x)
  OBVIOUS
<1>. HIDE DEF S
<1>. QED BY <1>1, CalmOf

LEMMA CalmJoin ==
  ASSUME NEW T, NEW u, NEW v, Calm(T, u), Calm(T, v)
  PROVE  Calm(T, u \o v)
<1>1. PICK S : u \in Seq(S) /\ \A x \in S : Plainly(T, x)
  BY DEF Calm
<1>2. PICK R : v \in Seq(R) /\ \A x \in R : Plainly(T, x)
  BY DEF Calm
<1>3. u \in Seq(S \cup R) /\ v \in Seq(S \cup R)
  BY <1>1, <1>2
<1>4. u \o v \in Seq(S \cup R) /\ \A x \in S \cup R : Plainly(T, x)
  BY <1>1, <1>2, <1>3, ConcatProperties
<1>. QED BY <1>4, CalmOf

\* The symbols a program declares are no temporaries, nor is the one that
\* the entry in front names if it is no call.
LEMMA NoTemps ==
  ASSUME WorkInv, TempInv, Extends(syms', syms)
  PROVE  /\ NULL \notin Temps'
         /\ \A cates : "TEMP" \notin cates => \A e \in Sids(cates) : e \notin Temps'
         /\ \A e \in Routine : e \notin Temps'
         /\ \A f : At(f) /\ f # "call" => Plainly(Temps', Now)
<1>1. NULL \notin Temps' /\ Owned(Temps', code, work, vals) /\ Table(syms')
  BY NewTemps DEF Extends
<1>2. ASSUME NEW e \in DOMAIN Declared PROVE e \notin Temps'
  <2>1. Declared[e].cate # "TEMP"
    BY SymbolFacts DEF Variables, Parameter
  <2>. QED BY <1>1, <2>1 DEF Temps, Table
<1>3. \A cates : \A e \in Sids(cates) : e \notin Temps'
  BY <1>2 DEF Sids, InTable
<1>4. ASSUME NEW f, At(f), f # "call" PROVE Plainly(Temps', Now)
  <2>1. work # <<>> /\ Now.do = f
    BY <1>4 DEF At, Now
  <2>2. Now = work[1] /\ 1 \in 1..Len(work)
    BY <2>1, WorkType DEF Now
  <2>3. Awaits(Temps', code, work, vals, 1)
    BY <1>1, <2>2 DEF Owned
  <2>. QED BY <1>4, <2>1, <2>2, <2>3 DEF Awaits, Plainly
<1>. QED BY <1>1, <1>2, <1>3, <1>4 DEF Routine

\* A step without a new symbol.
LEMMA SymsKept ==
  ASSUME WorkInv, UNCHANGED syms
  PROVE  Extends(syms', syms) /\ Temps' = Temps
BY SymsSame DEF WorkInv, Temps

LEMMA TempStatement ==
  ASSUME WorkInv, TempInv,
         null_stmt \/ gen_comp_stmt \/ gen_assign_stmt \/ gen_for_stmt
  PROVE  TempInv'
<1>. DEFINE T == Temps'
<1>0. /\ UNCHANGED <<vals, code, syms>> /\ Extends(syms', syms)
  <2>1. UNCHANGED <<vals, code, syms>>
    BY DEF null_stmt, gen_comp_stmt, gen_assign_stmt, gen_for_stmt
  <2>. QED BY <2>1, SymsKept
<1>n. /\ NULL \notin T
      /\ \A cates : "TEMP" \notin cates => \A e \in Sids(cates) : e \notin T
  BY <1>0, NoTemps
<1>. HIDE DEF T
<1>1. CASE null_stmt
  BY <1>0, <1>1, CalmNone, TempWalk DEF null_stmt, T
<1>2. CASE gen_comp_stmt
  <2>1. Calm(T, <<Gen("gen_stmt")>>) /\ Calm(T, <<Gen("gen_stmt"), Gen("gen_comp_stmt")>>)
    BY <1>n, PlainEntries, CalmOne, CalmTwo
  <2>. QED BY <1>0, <1>2, <2>1, TempWalk DEF gen_comp_stmt, T
<1>3. CASE gen_assign_stmt
  <2>1. \A d : d \notin T =>
          /\ Calm(T, <<Gen("gen_expr"), Then("store_var", "STORE_VAR", d, NULL)>>)
          /\ Calm(T, <<Gen("gen_expr"), Gen("gen_expr"),
                       Then("store_array", "STORE_ARRAY", d, NULL)>>)
    BY <1>n, PlainEntries, CalmTwo, CalmThree
  <2>2. "TEMP" \notin Variables \cup {"FUNCTION"} /\ "TEMP" \notin {"ARRAY"}
    BY DEF Variables, Parameter
  <2>3. /\ \A d \in Sids(Variables \cup {"FUNCTION"}) : d \notin T
        /\ \A d \in Sids({"ARRAY"}) : d \notin T
    BY <1>n, <2>2
  <2>. QED BY <1>0, <1>3, <2>1, <2>3, TempWalk DEF gen_assign_stmt, T
<1>4. CASE gen_for_stmt
  <2>1. \A d, step : d \notin T =>
          Calm(T, <<Gen("gen_expr"), Gen("gen_expr"), Then("for", step, d, NULL)>>)
    BY <1>n, PlainEntries, CalmThree
  <2>2. "TEMP" \notin Variables
    BY DEF Variables, Parameter
  <2>3. \A d \in Sids(Variables) : d \notin T
    BY <1>n, <2>2
  <2>. QED BY <1>0, <1>4, <2>1, <2>3, TempWalk DEF gen_for_stmt, T
<1>. QED BY <1>1, <1>2, <1>3, <1>4

LEMMA TempExpression ==
  ASSUME WorkInv, TempInv,
         gen_expr \/ terms \/ gen_term \/ factors \/ array_factor \/ expr_factor
  PROVE  TempInv'
<1>. DEFINE T == Temps'
<1>0. /\ UNCHANGED <<vals, code, syms>> /\ Extends(syms', syms)
  <2>1. UNCHANGED <<vals, code, syms>>
    BY DEF gen_expr, terms, gen_term, factors, array_factor, expr_factor
  <2>. QED BY <2>1, SymsKept
<1>n. /\ NULL \notin T
      /\ \A cates : "TEMP" \notin cates => \A e \in Sids(cates) : e \notin T
      /\ \A f : At(f) /\ f # "call" => Plainly(T, Now)
  BY <1>0, NoTemps
<1>. HIDE DEF T
<1>1. CASE gen_expr
  <2>1. \A q, op : /\ Calm(T, <<Expr("gen_term", q), Expr("terms", q)>>)
                   /\ Calm(T, <<Expr("gen_term", q), Then("sign", op, NULL, NULL),
                                Expr("terms", q)>>)
    BY <1>n, PlainEntries, CalmTwo, CalmThree
  <2>. QED BY <1>0, <1>1, <2>1, TempWalk DEF gen_expr, T
<1>2. CASE terms
  <2>1. \A q, op : Calm(T, <<Expr("gen_term", q), Then("binary", op, NULL, NULL), Now>>)
    BY <1>2, <1>n, PlainEntries, CalmThree DEF terms
  <2>. QED BY <1>0, <1>2, <2>1, CalmNone, TempWalk DEF terms, T
<1>3. CASE gen_term
  <2>1. \A q : Calm(T, <<Expr("gen_factor", q), Expr("factors", q)>>)
    BY <1>n, PlainEntries, CalmTwo
  <2>. QED BY <1>0, <1>3, <2>1, TempWalk DEF gen_term, T
<1>4. CASE factors
  <2>1. \A q, op : Calm(T, <<Expr("gen_factor", q), Then("binary", op, NULL, NULL), Now>>)
    BY <1>4, <1>n, PlainEntries, CalmThree DEF factors
  <2>. QED BY <1>0, <1>4, <2>1, CalmNone, TempWalk DEF factors, T
<1>5. CASE array_factor
  <2>1. \A r : r \notin T =>
          Calm(T, <<Gen("gen_expr"), Then("load_array", "LOAD_ARRAY", NULL, r)>>)
    BY <1>n, PlainEntries, CalmTwo
  <2>2. \A r \in Sids({"ARRAY"}) : r \notin T
    BY <1>n
  <2>. QED BY <1>0, <1>5, <2>1, <2>2, TempWalk DEF array_factor, T
<1>6. CASE expr_factor
  <2>1. \A q : Calm(T, <<Expr("gen_expr", q)>>)
    BY <1>n, PlainEntries, CalmOne
  <2>. QED BY <1>0, <1>6, <2>1, TempWalk DEF expr_factor, T
<1>. QED BY <1>1, <1>2, <1>3, <1>4, <1>5, <1>6

\* A string, and the two labels of an if or a repeat.
LEMMA NewNames ==
  ASSUME WorkInv, Here \in Routine,
         syms' = TwoLabels \/ syms' = symalloc("STRING", "STRING")
  PROVE  Extends(syms', syms) /\ NewSid \notin Temps' /\ NewSid + 1 \notin Temps'
<1>0. Table(syms) /\ Len(syms) \in Nat /\ NewSid = Len(syms) + 1
  BY DEF WorkInv, Table, NewSid
<1>1. CASE syms' = symalloc("STRING", "STRING")
  <2>1. "STRING" \in Value_cates \cup {"LABEL", "STRING"}
    OBVIOUS
  <2>2. /\ Extends(syms', syms) /\ syms'[NewSid].cate = "STRING"
    BY <1>0, <1>1, <2>1, SymbolNew DEF symalloc
  <2>3. syms' = Append(syms, Symbol("STRING", "STRING", Here, "0"))
    BY <1>1 DEF symalloc, New
  <2>4. syms \in Seq(Sym \cup {Symbol("STRING", "STRING", Here, "0")})
    BY <1>0 DEF Table
  <2>5. Len(syms') = Len(syms) + 1
    BY <2>3, <2>4, AppendProperties
  <2>6. DOMAIN syms' = 1..Len(syms')
    BY <2>2 DEF Extends, Table
  <2>. QED BY <1>0, <2>2, <2>5, <2>6 DEF Temps
<1>2. CASE syms' = TwoLabels
  <2>. DEFINE x == Symbol("LABEL", "VOID", Here, "0")
              S == Sym \cup {x}
  <2>1. Extends(syms', syms)
    BY <1>0, <1>2, LabelsNew
  <2>2. syms' = Append(syms, x) \o <<x>>
    BY <1>2 DEF TwoLabels, symalloc, New
  <2>3. x.cate = "LABEL"
    BY DEF Symbol
  <2>4. syms \in Seq(S) /\ x \in S
    BY <1>0 DEF Table
  <2>. HIDE DEF x, S
  <2>5. /\ Len(syms') = Len(syms) + 2 /\ syms'[Len(syms) + 1] = x /\ syms'[Len(syms) + 2] = x
    BY <1>0, <2>2, <2>4
  <2>6. NewSid + 1 = Len(syms) + 2
    BY <1>0
  <2>. QED BY <1>0, <2>1, <2>3, <2>5, <2>6 DEF Temps
<1>. QED BY <1>1, <1>2

LEMMA TempRead ==
  ASSUME WorkInv, TempInv, gen_read_stmt
  PROVE  TempInv'
<1>. DEFINE T == Temps'
<1>1. At("gen_stmt") /\ UNCHANGED <<vals, code, syms>>
  BY DEF gen_read_stmt
<1>2. PICK d \in Sids(Variables) : Walk(<<Emit(READ_OP[Declared[d].type], d)>>)
  BY DEF gen_read_stmt
<1>3. "TEMP" \notin Variables /\ Extends(syms', syms)
  BY <1>1, SymsKept DEF Variables, Parameter
<1>4. NULL \notin T /\ d \notin T
  BY <1>3, NoTemps
<1>. HIDE DEF T
<1>5. \A op : Calm(T, <<Emit(op, d)>>)
  BY <1>4, PlainEntries, CalmOne
<1>. QED BY <1>1, <1>2, <1>3, <1>5, TempWalk DEF T

LEMMA TempWrite ==
  ASSUME WorkInv, TempInv, gen_write_stmt
  PROVE  TempInv'
<1>. DEFINE T == Temps'
<1>1. At("gen_stmt") /\ UNCHANGED <<vals, code>> /\ Here \in Routine
  BY AtStatement DEF gen_write_stmt
<1>2. CASE /\ Walk(<<Gen("gen_expr"), Then("write", "ID_WRITE", NULL, NULL)>>)
           /\ UNCHANGED syms
  <2>1. Extends(syms', syms) /\ NULL \notin T
    BY <1>2, SymsKept, NoTemps
  <2>. HIDE DEF T
  <2>2. Calm(T, <<Gen("gen_expr"), Then("write", "ID_WRITE", NULL, NULL)>>)
    BY <2>1, PlainEntries, CalmTwo
  <2>. QED BY <1>1, <1>2, <2>1, <2>2, TempWalk DEF T
<1>3. CASE /\ syms' = symalloc("STRING", "STRING")
           /\ \/ Walk(<<Emit("WRITE_STRING", NewSid)>>)
              \/ Walk(<<Emit("WRITE_STRING", NewSid), Gen("gen_expr"),
                        Then("write", "STRID_WRITE", NULL, NULL)>>)
  <2>1. Extends(syms', syms) /\ NewSid \notin T
    BY <1>1, <1>3, NewNames
  <2>2. NULL \notin T
    BY <2>1, NoTemps
  <2>. HIDE DEF T
  <2>3. /\ Calm(T, <<Emit("WRITE_STRING", NewSid)>>)
        /\ Calm(T, <<Emit("WRITE_STRING", NewSid), Gen("gen_expr"),
                     Then("write", "STRID_WRITE", NULL, NULL)>>)
    BY <2>1, <2>2, PlainEntries, CalmOne, CalmThree
  <2>. QED BY <1>1, <1>3, <2>1, <2>3, TempWalk DEF T
<1>. QED BY <1>2, <1>3 DEF gen_write_stmt

LEMMA CalmCond ==
  ASSUME NEW T, NULL \notin T, NEW label, label \notin T, NEW cond \in gen_cond(label)
  PROVE  Calm(T, cond)
<1>1. PICK op : cond = <<Gen("gen_expr"), Gen("gen_expr"), Then("branch", op, label, NULL)>>
  BY DEF gen_cond
<1>. QED BY <1>1, PlainEntries, CalmThree

LEMMA TempBranching ==
  ASSUME WorkInv, TempInv, gen_if_stmt \/ gen_repe_stmt
  PROVE  TempInv'
<1>. DEFINE T == Temps'
            x == NewSid
            y == NewSid + 1
<1>1. At("gen_stmt") /\ UNCHANGED <<vals, code>> /\ Here \in Routine /\ syms' = TwoLabels
  BY AtStatement DEF gen_if_stmt, gen_repe_stmt
<1>2. Extends(syms', syms) /\ x \notin T /\ y \notin T
  BY <1>1, NewNames
<1>3. NULL \notin T
  BY <1>2, NoTemps
<1>. HIDE DEF T
<1>4. /\ \A op : Plainly(T, Emit(op, x)) /\ Plainly(T, Emit(op, y))
      /\ Plainly(T, Gen("gen_stmt"))
  BY <1>2, <1>3, PlainEntries
<1>5. CASE gen_if_stmt
  <2>1. PICK cond \in gen_cond(x), else \in {<<>>, <<Gen("gen_stmt")>>} :
          Walk(cond \o else \o <<Emit("JUMP", y), Emit("LABEL", x),
                                 Gen("gen_stmt"), Emit("LABEL", y)>>)
    BY <1>5 DEF gen_if_stmt
  <2>2. Calm(T, cond) /\ Calm(T, else)
    BY <1>2, <1>3, <1>4, CalmCond, CalmNone, CalmOne
  <2>. DEFINE l == <<Emit("JUMP", y), Emit("LABEL", x), Gen("gen_stmt"), Emit("LABEL", y)>>
              S == {Emit("JUMP", y), Emit("LABEL", x), Gen("gen_stmt"), Emit("LABEL", y)}
  <2>3. l \in Seq(S) /\ \A z \in S : Plainly(T, z)
    BY <1>4
  <2>4. Walk(cond \o else \o l)
    BY <2>1
  <2>. HIDE DEF S, l, x, y
  <2>5. Calm(T, l)
    BY <2>3, CalmOf
  <2>6. Calm(T, cond \o else \o l)
    BY <2>2, <2>5, CalmJoin
  <2>. QED BY <1>1, <1>2, <2>4, <2>6, TempWalk DEF T
<1>6. CASE gen_repe_stmt
  <2>1. PICK cond \in gen_cond(y) :
          Walk(<<Emit("LABEL", x), Gen("gen_stmt")>> \o cond \o
                 <<Emit("JUMP", x), Emit("LABEL", y)>>)
    BY <1>6 DEF gen_repe_stmt
  <2>. DEFINE k == <<Emit("LABEL", x), Gen("gen_stmt")>>
              l == <<Emit("JUMP", x), Emit("LABEL", y)>>
  <2>2. Calm(T, cond) /\ Calm(T, k) /\ Calm(T, l)
    BY <1>2, <1>3, <1>4, CalmCond, CalmTwo
  <2>3. Walk(k \o cond \o l)
    BY <2>1
  <2>. HIDE DEF k, l, x, y
  <2>4. Calm(T, k \o cond \o l)
    BY <2>2, CalmJoin
  <2>. QED BY <1>1, <1>2, <2>3, <2>4, TempWalk DEF T
<1>. QED BY <1>5, <1>6

LEMMA TempRoutines ==
  ASSUME WorkInv, TempInv, gen_pf_dec_list
  PROVE  TempInv'
<1>. DEFINE T == Temps'
<1>1. At("gen_pf_dec_list") /\ UNCHANGED <<vals, code, syms>>
  BY DEF gen_pf_dec_list
<1>2. Extends(syms', syms)
  BY <1>1, SymsKept
<1>3. NULL \notin T /\ (\A e \in Routine : e \notin T) /\ Plainly(T, Now)
  BY <1>1, <1>2, NoTemps
<1>. HIDE DEF T
<1>4. CASE Walk(<<>>)
  BY <1>1, <1>2, <1>4, CalmNone, TempWalk DEF T
<1>5. ASSUME NEW p \in Left(Now.d),
             Walk(<<Decs(p), Emit("FN_START", p), Gen("gen_comp_stmt"), Emit("FN_END", p), Now>>)
      PROVE  TempInv'
  <2>. DEFINE S == {Decs(p), Emit("FN_START", p), Gen("gen_comp_stmt"), Emit("FN_END", p), Now}
              l == <<Decs(p), Emit("FN_START", p), Gen("gen_comp_stmt"), Emit("FN_END", p), Now>>
  <2>1. p \notin T
    BY <1>3 DEF Left, InTable, Routine
  <2>2. Plainly(T, Decs(p))
    BY <1>3, <2>1 DEF Plainly, Decs, Do
  <2>3. \A x \in S : Plainly(T, x)
    BY <1>3, <2>1, <2>2, PlainEntries
  <2>4. l \in Seq(S)
    OBVIOUS
  <2>5. Walk(l)
    BY <1>5
  <2>. HIDE DEF S, l
  <2>6. Calm(T, l)
    BY <2>3, <2>4, CalmOf
  <2>. QED BY <1>1, <1>2, <2>5, <2>6, TempWalk DEF T
<1>. QED BY <1>4, <1>5 DEF gen_pf_dec_list

LEMMA TempArg ==
  ASSUME WorkInv, TempInv, gen_arg
  PROVE  TempInv'
<1>. DEFINE T == Temps'
<1>1. At("gen_arg") /\ UNCHANGED <<vals, code, syms>>
  BY DEF gen_arg
<1>2. Extends(syms', syms)
  BY <1>1, SymsKept
<1>3. /\ NULL \notin T /\ \A d \in Sids({"VARIABLE"}) : d \notin T
      /\ \A d \in Sids({"ARRAY"}) : d \notin T
  BY <1>2, NoTemps
<1>4. Now.op \in Parameter
  <2>1. Fits(syms, Now) /\ Now.do = "gen_arg"
    BY <1>1, AtEntry
  <2>. QED BY <2>1, TaskOps DEF Fits
<1>. HIDE DEF T
<1>5. /\ Calm(T, <<Expr("gen_expr", TRUE), Then("push", "PUSH_VAL", NULL, NULL)>>)
      /\ \A d : d \notin T =>
           /\ Calm(T, <<Emit("PUSH_ADDR", d)>>)
           /\ Calm(T, <<Gen("gen_expr"), Then("push", "PUSH_ADDR", d, NULL)>>)
  BY <1>3, PlainEntries, CalmOne, CalmTwo
<1>6. CASE Now.op = "BY_VALUE"
  <2>1. Walk(<<Expr("gen_expr", TRUE), Then("push", "PUSH_VAL", NULL, NULL)>>)
    BY <1>6 DEF gen_arg
  <2>. QED BY <1>1, <1>2, <1>5, <2>1, TempWalk DEF T
<1>7. CASE Now.op = "BY_REFERENCE"
  <2>1. \/ \E d \in Sids({"VARIABLE"}) : Walk(<<Emit("PUSH_ADDR", d)>>)
        \/ \E d \in Sids({"ARRAY"}) :
             Walk(<<Gen("gen_expr"), Then("push", "PUSH_ADDR", d, NULL)>>)
    BY <1>7 DEF gen_arg
  <2>. QED BY <1>1, <1>2, <1>3, <1>5, <2>1, TempWalk DEF T
<1>. QED BY <1>4, <1>6, <1>7 DEF Parameter

-----------------------------------------------------------------------------
(* Calls                                                                   *)

\* The symbol that is allocated next is named nowhere, and a temporary if it
\* is one.
LEMMA FreshTemp ==
  ASSUME WorkInv
  PROVE  NewSid \notin DOMAIN syms \cup {NULL}
BY DEF WorkInv, Table, NewSid, NULL

LEMMA TempAllocated ==
  ASSUME Table(syms), Here \in Routine, NEW type \in {"INT", "UINT", "CHAR", "LITERAL"},
         syms' = symalloc("TEMP", type)
  PROVE  Extends(syms', syms) /\ NewSid \in Temps'
<1>1. "TEMP" \in Value_cates \cup {"LABEL", "STRING"}
  BY DEF Value_cates
<1>2. type \in {"VOID", "INT", "UINT", "CHAR", "LITERAL", "STRING"}
  OBVIOUS
<1>3. Extends(syms', syms) /\ NewSid \in DOMAIN syms' /\ syms'[NewSid].cate = "TEMP"
  BY <1>1, <1>2, SymbolNew DEF symalloc
<1>. QED BY <1>3 DEF Temps

LEMMA CalmArgs ==
  ASSUME NEW T, NULL \notin T, NEW e \in Routine
  PROVE  Calm(T, gen_arg_list(e))
<1>. DEFINE S == {Do("gen_arg", op, NULL, NULL, TRUE) : op \in Parameter}
            l == [i \in DOMAIN Params[e] |-> Do("gen_arg", Params[e][i], NULL, NULL, TRUE)]
<1>1. Params[e] \in Seq(Parameter)
  BY ParamsType
<1>2. /\ DOMAIN Params[e] = 1..Len(Params[e]) /\ Len(Params[e]) \in Nat
      /\ \A i \in DOMAIN Params[e] : Params[e][i] \in Parameter
  BY <1>1, ElementOfSeq
<1>3. l \in Seq(S) /\ DOMAIN l = 1..Len(l) /\ Len(l) \in Nat
  <2>1. \A i \in 1..Len(Params[e]) : l[i] \in S
    BY <1>2
  <2>. HIDE DEF S
  <2>2. l \in [1..Len(Params[e]) -> S]
    BY <1>2, <2>1
  <2>. HIDE DEF l
  <2>. QED BY <1>2, <2>2
<1>4. \A x \in S : Plainly(T, x)
  <2>1. \A op : Plainly(T, Do("gen_arg", op, NULL, NULL, TRUE))
    BY DEF Plainly, Do
  <2>. QED BY <2>1
<1>. HIDE DEF S, l
<1>5. Reverse(l) \in Seq(S)
  BY <1>3 DEF Reverse
<1>. QED BY <1>4, <1>5, CalmOf DEF gen_arg_list, l

LEMMA TempPcall ==
  ASSUME WorkInv, TempInv, gen_pcall_stmt
  PROVE  TempInv'
<1>. DEFINE T == Temps'
<1>1. At("gen_stmt") /\ UNCHANGED <<vals, code, syms>>
  BY DEF gen_pcall_stmt
<1>2. PICK e \in Sids({"PROC"}) : Walk(gen_arg_list(e) \o <<Then("call", "CALL", NULL, e)>>)
  BY DEF gen_pcall_stmt
<1>3. Extends(syms', syms) /\ e \in Routine
  BY <1>1, SymsKept DEF Sids, InTable, Routine
<1>4. NULL \notin T /\ e \notin T
  BY <1>3, NoTemps
<1>. HIDE DEF T
<1>5. Plainly(T, Then("call", "CALL", NULL, e))
  BY <1>4, PlainEntries
<1>6. Calm(T, gen_arg_list(e) \o <<Then("call", "CALL", NULL, e)>>)
  BY <1>3, <1>4, <1>5, CalmArgs, CalmOne, CalmJoin
<1>. QED BY <1>1, <1>2, <1>3, <1>6, TempWalk DEF T

\* The call of a function is to define the new temporary.
LEMMA TempFcall ==
  ASSUME WorkInv, TempInv, gen_fcall_stmt
  PROVE  TempInv'
<1>. DEFINE T == Temps'
<1>1. /\ At("gen_factor") /\ UNCHANGED <<vals, code>>
      /\ Here \in Routine /\ Table(syms) /\ work # <<>>
  <2>1. At("gen_factor") /\ UNCHANGED <<vals, code>>
    BY DEF gen_fcall_stmt
  <2>. QED BY <2>1, AtExpression DEF At
<1>2. PICK e \in Sids({"FUNCTION"}) :
        /\ syms' = symalloc("TEMP", syms[e].type)
        /\ Walk(gen_arg_list(e) \o <<Then("call", "CALL", NewSid, e)>>)
  BY DEF gen_fcall_stmt
<1>3. e \in Routine /\ e \in DOMAIN syms /\ syms[e].type \in {"INT", "UINT", "CHAR", "LITERAL"}
  <2>1. /\ e \in DOMAIN Declared /\ Declared[e].cate \in {"FUNCTION"} /\ e \in DOMAIN syms
        /\ syms[e].cate \in {"FUNCTION"} /\ syms[e].type \in {"VOID", "INT", "UINT", "CHAR"}
        /\ syms[e].type = "VOID" <=> syms[e].cate = "PROC"
    BY <1>1, SidsDeclared
  <2>. QED BY <2>1 DEF Routine
<1>4. Extends(syms', syms) /\ NewSid \in T
  BY <1>1, <1>2, <1>3, TempAllocated
<1>5. NULL \notin T /\ e \notin T
  BY <1>3, <1>4, NoTemps
<1>6. Owned(T, code, work, vals)
  BY <1>4, NewTemps
<1>7. Untouched(code, vals, NewSid) /\ \A j \in 1..Len(work) : work[j].d # NewSid
  BY FreshTemp, OldNames
<1>. HIDE DEF T
<1>. DEFINE args == gen_arg_list(e)
            x == Then("call", "CALL", NewSid, e)
<1>8. x.do = "call" /\ x.d = NewSid /\ x.r = e
  BY DEF Then, Do
<1>9. PICK S : args \in Seq(S) /\ \A y \in S : Plainly(T, y)
  BY <1>3, <1>5, CalmArgs DEF Calm
<1>. DEFINE is == args \o <<x>>
            n == Len(args) + 1
<1>10. Walk(is)
  BY <1>2
<1>. HIDE DEF args, x
<1>11. /\ is \in Seq(S \cup {x}) /\ n \in Nat /\ Len(is) = n /\ is[n] = x
       /\ \A i \in 1..n : i # n => is[i] \in S
  <2>1. args \in Seq(S \cup {x}) /\ <<x>> \in Seq(S \cup {x}) /\ Len(<<x>>) = 1 /\ <<x>>[1] = x
        /\ Len(args) \in Nat /\ \A i \in 1..Len(args) : args[i] \in S
    BY <1>9, ElementOfSeq
  <2>2. Len(is) = n /\ is \in Seq(S \cup {x})
    BY <2>1, ConcatProperties
  <2>3. \A i \in 1..Len(is) : is[i] = IF i <= Len(args) THEN args[i] ELSE <<x>>[i - Len(args)]
    BY <2>1, ConcatProperties
  <2>. HIDE DEF is
  <2>. QED BY <2>1, <2>2, <2>3
<1>. HIDE DEF is, n
<1>12. /\ Len(work') = Len(work) - 1 + n
       /\ \A i \in 1..n : work'[i] = is[i]
       /\ \A i \in n + 1..Len(work') : work'[i] = work[i - n + 1]
  <2>. DEFINE R == S \cup {x}
  <2>1. is \in Seq(R)
    BY <1>11
  <2>. HIDE DEF R
  <2>. QED BY <1>1, <1>10, <1>11, <2>1, WorkPlaces
<1>13. \A i \in 1..n :
         \/ Plainly(T, work'[i])
         \/ /\ i = n /\ work'[i].do = "call" /\ work'[i].d \in T /\ work'[i].r \notin T
            /\ Untouched(code, vals, work'[i].d)
            /\ \A j \in 1..Len(work) : work[j].d # work'[i].d
  <2>. SUFFICES ASSUME NEW i \in 1..n
                PROVE \/ Plainly(T, work'[i])
                      \/ /\ i = n /\ work'[i].do = "call" /\ work'[i].d \in T /\ work'[i].r \notin T
                         /\ Untouched(code, vals, work'[i].d)
                         /\ \A j \in 1..Len(work) : work[j].d # work'[i].d
    OBVIOUS
  <2>1. CASE i = n
    <3>1. work'[i] = x
      BY <1>11, <1>12, <2>1
    <3>. QED BY <1>4, <1>5, <1>7, <1>8, <2>1, <3>1
  <2>2. CASE i # n
    BY <1>9, <1>11, <1>12, <2>2
  <2>. QED BY <2>1, <2>2
<1>14. Len(work) \in Nat \ {0}
  BY <1>1, WorkType
<1>15. Owned(T, code, work', vals)
  BY <1>6, <1>11, <1>12, <1>13, <1>14, OwnWalk
<1>. QED BY <1>1, <1>15 DEF TempInv, T

-----------------------------------------------------------------------------
(* One instruction                                                         *)

Results == {"ADD", "SUB", "MUL", "DIV", "NEG", "LOAD_ARRAY", "CALL"}

LEMMA InstUse ==
  ASSUME NEW op, NEW d, NEW r, NEW s
  PROVE  /\ Inst(op, d, r, s).op = op
         /\ op \in Results => DefOf(Inst(op, d, r, s)) = d
         /\ op \in Results /\ d # NULL => UseOf(Inst(op, d, r, s)) = {r, s}
         /\ op \notin Results => DefOf(Inst(op, d, r, s)) = NULL
         /\ UseOf(Inst(op, d, r, s)) \subseteq {d, r, s}
<1>1. /\ Inst(op, d, r, s).op = op /\ Inst(op, d, r, s).d = d
      /\ Inst(op, d, r, s).r = r /\ Inst(op, d, r, s).s = s
  BY DEF Inst
<1>. QED BY <1>1 DEF DefOf, UseOf, Results

\* What an instruction that ends an entry may name.
Usable(n) == {NULL, Now.d, Now.r} \cup {Value(i) : i \in 1..n}

LEMMA NamedTemps ==
  ASSUME WorkInv, TempInv, Extends(syms', syms), NEW f, At(f), f # "call", NEW n
  PROVE  Usable(n) \cap Temps' \subseteq {Value(i) : i \in 1..n}
<1>1. NULL \notin Temps' /\ Plainly(Temps', Now)
  BY NoTemps
<1>. QED BY <1>1 DEF Usable, Plainly

\* Nothing is defined.
LEMMA TempLine ==
  ASSUME WorkInv, TempInv, NEW f, At(f), f # "call", Walk(<<>>), UNCHANGED syms,
         NEW n \in 0..Len(vals), NEW op, op \notin Results, op = "LABEL" => vals = <<>>,
         NEW d \in Usable(n), NEW r \in Usable(n), NEW s \in Usable(n),
         code' = Append(code, Inst(op, d, r, s)), Returns(n, <<>>)
  PROVE  TempInv'
<1>. DEFINE x == Inst(op, d, r, s)
<1>1. Extends(syms', syms)
  BY SymsKept
<1>2. DefOf(x) = NULL /\ UseOf(x) \subseteq {d, r, s} /\ x.op = op
  BY InstUse
<1>3. UseOf(x) \cap Temps' \subseteq {Value(i) : i \in 1..n}
  <2>1. Usable(n) \cap Temps' \subseteq {Value(i) : i \in 1..n}
    BY <1>1, NamedTemps
  <2>. HIDE DEF x
  <2>. QED BY <1>2, <2>1
<1>4. code' = Append(code, x)
  OBVIOUS
<1>. HIDE DEF x
<1>. QED BY <1>1, <1>2, <1>3, <1>4, TempUse

\* A new temporary is.
LEMMA TempCompute ==
  ASSUME WorkInv, TempInv, NEW f, At(f), f # "call", Walk(<<>>), Here \in Routine,
         NEW type \in {"INT", "UINT", "CHAR", "LITERAL"}, syms' = symalloc("TEMP", type),
         NEW n \in 0..Len(vals), NEW op \in Results,
         NEW r \in Usable(n), NEW s \in Usable(n),
         code' = Append(code, Inst(op, NewSid, r, s)), Returns(n, <<NewSid>>)
  PROVE  TempInv'
<1>. DEFINE x == Inst(op, NewSid, r, s)
<1>1. Extends(syms', syms) /\ NewSid \in Temps' /\ NewSid # NULL
  BY TempAllocated, FreshTemp DEF WorkInv
<1>2. DefOf(x) = NewSid /\ UseOf(x) = {r, s}
  BY <1>1, InstUse
<1>3. UseOf(x) \cap Temps' \subseteq {Value(i) : i \in 1..n}
  <2>1. Usable(n) \cap Temps' \subseteq {Value(i) : i \in 1..n}
    BY <1>1, NamedTemps
  <2>. HIDE DEF x
  <2>. QED BY <1>2, <2>1
<1>4. code' = Append(code, x)
  OBVIOUS
<1>. HIDE DEF x
<1>. QED BY <1>1, <1>2, <1>3, <1>4, TempResult

\* How many values there are.
LEMMA ValuesThere ==
  ASSUME WorkInv, NEW f, At(f)
  PROVE  /\ Len(vals) \in Nat
         /\ f \in {"store_var", "write"} => Len(vals) = 1
         /\ f \in {"sign", "load_array", "push"} => Len(vals) >= 1
         /\ f \in {"store_array", "branch", "for"} => Len(vals) = 2
         /\ f = "binary" => Len(vals) >= 2
         /\ f \in {"sign", "load_array", "binary", "for"} => Here \in Routine
         /\ f = "emit1" /\ Now.op = "LABEL" => vals = <<>>
<1>1. PICK a \in Place, b \in Place :
        /\ Standing(a, vals, code) /\ Goes(Now, a, b) /\ Chain(syms, Tail(work), b, End)
        /\ a.n = Len(vals) /\ a.n \in Nat /\ (a.body => Here \in Routine)
  BY AtEntry
<1>2. Now.do = f /\ Values(syms, vals)
  BY AtEntry
<1>3. f = "emit1" /\ Now.op = "LABEL" => vals = <<>>
  <2>. SUFFICES ASSUME f = "emit1", Now.op = "LABEL" PROVE vals = <<>>
    OBVIOUS
  <2>1. Len(vals) = 0
    BY <1>1, <1>2 DEF Goes
  <2>. QED BY <1>2, <2>1 DEF Values
<1>. QED BY <1>1, <1>2, <1>3 DEF Goes

LEMMA ReturnsSame ==
  ASSUME WorkInv, UNCHANGED vals
  PROVE  Returns(0, <<>>)
<1>1. vals \in Seq(Nat) /\ Len(vals) \in Nat
  BY DEF WorkInv, Values
<1>2. SubSeq(vals, 1, Len(vals) - 0) = vals
  BY <1>1
<1>. QED BY <1>1, <1>2, ConcatEmptySeq DEF Returns

LEMMA TempEmit1 ==
  ASSUME WorkInv, TempInv, emit1
  PROVE  TempInv'
<1>1. /\ At("emit1") /\ UNCHANGED <<vals, syms>> /\ Walk(<<>>)
      /\ code' = Append(code, Inst(Now.op, Now.d, NULL, NULL))
  BY DEF emit1
<1>2. Len(vals) \in Nat /\ (Now.op = "LABEL" => vals = <<>>) /\ Returns(0, <<>>)
  BY <1>1, ValuesThere, ReturnsSame
<1>3. Now.op \notin Results
  <2>1. Fits(syms, Now) /\ Now.do = "emit1"
    BY <1>1, AtEntry
  <2>2. Now.op \in Emitted
    BY <2>1, TaskOps DEF Fits
  <2>. QED BY <2>2 DEF Emitted, Results
<1>4. Now.d \in Usable(0) /\ NULL \in Usable(0) /\ 0 \in 0..Len(vals)
  BY <1>2 DEF Usable
<1>. QED BY <1>1, <1>2, <1>3, <1>4, TempLine

\* The operations of the entries that end a statement or an argument.
LEMMA NowOps ==
  ASSUME WorkInv, NEW f, At(f)
  PROVE  /\ f \in {"store_var", "store_array", "branch", "for", "push"} =>
              Now.op \notin Results /\ Now.op # "LABEL"
         /\ f \in {"binary", "load_array"} => Now.op \in Results
         /\ f = "for" => Now.op \in {"INC", "DEC"}
<1>1. Now.op \in TaskOp(f)
  BY AtEntry DEF Fits
<1>. QED BY <1>1, TaskOps DEF Results, Branches, Calculate

LEMMA TempStore ==
  ASSUME WorkInv, TempInv, store_var \/ store_array \/ branch \/ push
  PROVE  TempInv'
<1>0. /\ \A n : NULL \in Usable(n) /\ Now.d \in Usable(n)
      /\ Value(1) \in Usable(1) /\ Value(1) \in Usable(2) /\ Value(2) \in Usable(2)
  <2>1. 1 \in 1..1 /\ 1 \in 1..2 /\ 2 \in 1..2
    OBVIOUS
  <2>. QED BY <2>1 DEF Usable
<1>1. CASE store_var
  <2>1. /\ At("store_var") /\ UNCHANGED syms /\ Walk(<<>>) /\ Returns(1, <<>>)
        /\ code' = Append(code, Inst(Now.op, Now.d, Value(1), NULL))
    BY <1>1 DEF store_var
  <2>2. Len(vals) \in Nat /\ Len(vals) = 1
    BY <2>1, ValuesThere
  <2>3. Now.op \notin Results /\ Now.op # "LABEL"
    BY <2>1, NowOps
  <2>. QED BY <1>0, <2>1, <2>2, <2>3, TempLine
<1>2. CASE store_array
  <2>1. /\ At("store_array") /\ UNCHANGED syms /\ Walk(<<>>) /\ Returns(2, <<>>)
        /\ code' = Append(code, Inst(Now.op, Now.d, Value(1), Value(2)))
    BY <1>2 DEF store_array
  <2>2. Len(vals) \in Nat /\ Len(vals) = 2
    BY <2>1, ValuesThere
  <2>3. Now.op \notin Results /\ Now.op # "LABEL"
    BY <2>1, NowOps
  <2>. QED BY <1>0, <2>1, <2>2, <2>3, TempLine
<1>3. CASE branch
  <2>1. /\ At("branch") /\ UNCHANGED syms /\ Walk(<<>>) /\ Returns(2, <<>>)
        /\ code' = Append(code, Inst(Now.op, Now.d, Value(2), Value(1)))
    BY <1>3 DEF branch
  <2>2. Len(vals) \in Nat /\ Len(vals) = 2
    BY <2>1, ValuesThere
  <2>3. Now.op \notin Results /\ Now.op # "LABEL"
    BY <2>1, NowOps
  <2>. QED BY <1>0, <2>1, <2>2, <2>3, TempLine
<1>4. CASE push
  <2>1. /\ At("push") /\ UNCHANGED syms /\ Walk(<<>>) /\ Returns(1, <<>>)
        /\ code' = Append(code, IF Now.op = "PUSH_VAL" THEN Inst(Now.op, Value(1), NULL, NULL)
                                ELSE Inst(Now.op, Now.d, Value(1), NULL))
    BY <1>4 DEF push
  <2>2. Len(vals) \in Nat /\ Len(vals) >= 1
    BY <2>1, ValuesThere
  <2>3. Now.op \notin Results /\ Now.op # "LABEL"
    BY <2>1, NowOps
  <2>4. CASE Now.op = "PUSH_VAL"
    <3>1. code' = Append(code, Inst(Now.op, Value(1), NULL, NULL))
      BY <2>1, <2>4
    <3>. QED BY <1>0, <2>1, <2>2, <2>3, <3>1, TempLine
  <2>5. CASE Now.op # "PUSH_VAL"
    <3>1. code' = Append(code, Inst(Now.op, Now.d, Value(1), NULL))
      BY <2>1, <2>5
    <3>. QED BY <1>0, <2>1, <2>2, <2>3, <3>1, TempLine
  <2>. QED BY <2>4, <2>5
<1>. QED BY <1>1, <1>2, <1>3, <1>4

LEMMA TempUnlikely ==
  ASSUME TempInv, NEW where, unlikely(where)
  PROVE  TempInv'
BY DEF unlikely, TempInv, Temps

LEMMA TempWriteValue ==
  ASSUME WorkInv, TempInv, write
  PROVE  TempInv'
<1>. DEFINE type == syms[Value(1)].type
<1>1. At("write")
  BY DEF write
<1>2. Len(vals) \in Nat /\ Len(vals) = 1 /\ Values(syms, vals) /\ Table(syms)
  BY <1>1, ValuesThere, AtEntry
<1>3. type \in {"INT", "UINT", "CHAR", "LITERAL"}
  <2>1. 1 \in 1..Len(vals)
    BY <1>2
  <2>. QED BY <1>2, <2>1, ValueTop, TypeOf
<1>4. CASE unlikely("unlikely_write")
  BY <1>4, TempUnlikely
<1>5. CASE ~unlikely("unlikely_write")
  <2>1. /\ UNCHANGED syms /\ Walk(<<>>) /\ Returns(1, <<>>)
        /\ code' = Append(code, Inst(WRITE_OP[type], Value(1), NULL, NULL))
    BY <1>5 DEF write
  <2>. HIDE DEF type
  <2>2. WRITE_OP[type] \in {"WRITE_INT", "WRITE_UINT", "WRITE_CHAR"}
    BY <1>3 DEF WRITE_OP
  <2>3. WRITE_OP[type] \notin Results /\ WRITE_OP[type] # "LABEL"
    BY <2>2 DEF Results
  <2>4. NULL \in Usable(1) /\ Value(1) \in Usable(1)
    <3>1. 1 \in 1..1
      OBVIOUS
    <3>. QED BY <3>1 DEF Usable
  <2>. QED BY <1>1, <1>2, <2>1, <2>3, <2>4, TempLine
<1>. QED BY <1>4, <1>5

LEMMA TempCalculate ==
  ASSUME WorkInv, TempInv, binary \/ load_array
  PROVE  TempInv'
<1>0. /\ \A n : Now.r \in Usable(n)
      /\ Value(1) \in Usable(1) /\ Value(1) \in Usable(2) /\ Value(2) \in Usable(2)
  <2>1. 1 \in 1..1 /\ 1 \in 1..2 /\ 2 \in 1..2
    OBVIOUS
  <2>. QED BY <2>1 DEF Usable
<1>1. CASE binary
  <2>. DEFINE type == syms[Value(2)].type
  <2>1. /\ At("binary") /\ Walk(<<>>) /\ Returns(2, <<NewSid>>)
        /\ syms' = symalloc("TEMP", type)
        /\ code' = Append(code, Inst(Now.op, NewSid, Value(2), Value(1)))
    BY <1>1 DEF binary
  <2>2. /\ Len(vals) \in Nat /\ Len(vals) >= 2 /\ Values(syms, vals) /\ Table(syms)
        /\ Here \in Routine
    BY <2>1, ValuesThere, AtEntry
  <2>3. type \in {"INT", "UINT", "CHAR", "LITERAL"}
    <3>1. 2 \in 1..Len(vals)
      BY <2>2
    <3>. QED BY <2>2, <3>1, ValueTop, TypeOf
  <2>4. Now.op \in Results
    BY <2>1, NowOps
  <2>. HIDE DEF type
  <2>. QED BY <1>0, <2>1, <2>2, <2>3, <2>4, TempCompute
<1>2. CASE load_array
  <2>. DEFINE type == syms[Now.r].type
  <2>1. /\ At("load_array") /\ Walk(<<>>) /\ Returns(1, <<NewSid>>)
        /\ syms' = symalloc("TEMP", type)
        /\ code' = Append(code, Inst(Now.op, NewSid, Now.r, Value(1)))
    BY <1>2 DEF load_array
  <2>2. /\ Len(vals) \in Nat /\ Len(vals) >= 1 /\ Table(syms) /\ Here \in Routine
        /\ Fits(syms, Now) /\ Now.do = "load_array"
    BY <2>1, ValuesThere, AtEntry
  <2>3. type \in {"INT", "UINT", "CHAR", "LITERAL"}
    <3>1. Now.r \in DOMAIN syms /\ type \notin {"VOID", "STRING"}
      BY <2>2 DEF Fits
    <3>2. syms[Now.r] \in Sym
      BY <2>2, <3>1, ElementOfSeq DEF Table
    <3>3. type \in {"VOID", "INT", "UINT", "CHAR", "LITERAL", "STRING"}
      BY <3>2 DEF Sym
    <3>. QED BY <3>1, <3>3
  <2>4. Now.op \in Results
    BY <2>1, NowOps
  <2>. HIDE DEF type
  <2>. QED BY <1>0, <2>1, <2>2, <2>3, <2>4, TempCompute
<1>. QED BY <1>1, <1>2

\* A number is no temporary.
LEMMA NumberNew ==
  ASSUME Table(syms), Here \in Routine, NEW type \in {"CHAR", "LITERAL"},
         NEW initval \in {"0", "written"}, syms' = New("NUMBER", type, initval)
  PROVE  Extends(syms', syms) /\ NewSid \notin Temps'
<1>1. "NUMBER" \in Value_cates \cup {"LABEL", "STRING"}
  BY DEF Value_cates
<1>2. type \in {"VOID", "INT", "UINT", "CHAR", "LITERAL", "STRING"}
  OBVIOUS
<1>3. Extends(syms', syms) /\ NewSid \in DOMAIN syms' /\ syms'[NewSid].cate = "NUMBER"
  BY <1>1, <1>2, SymbolNew
<1>. QED BY <1>3 DEF Temps

LEMMA TempSign ==
  ASSUME WorkInv, TempInv, sign
  PROVE  TempInv'
<1>. DEFINE type == syms[Value(1)].type
<1>1. At("sign")
  BY DEF sign
<1>2. /\ Len(vals) \in Nat /\ Len(vals) >= 1 /\ Values(syms, vals) /\ Table(syms)
      /\ Here \in Routine
  BY <1>1, ValuesThere, AtEntry
<1>3. /\ type \in {"INT", "UINT", "CHAR", "LITERAL"}
      /\ syms[Value(1)].initval \in {"0", "written"}
  <2>1. 1 \in 1..Len(vals)
    BY <1>2
  <2>. QED BY <1>2, <2>1, ValueTop, TypeOf
<1>4. CASE unlikely("unlikely_plus")
  BY <1>4, TempUnlikely
<1>5. CASE Now.op # "ADD"
  <2>1. /\ Returns(1, <<NewSid>>) /\ Walk(<<>>)
        /\ IF type = "LITERAL"
           THEN syms' = New("NUMBER", "LITERAL", syms[Value(1)].initval) /\ UNCHANGED code
           ELSE /\ syms' = symalloc("TEMP", type)
                /\ code' = Append(code, Inst("NEG", NewSid, Value(1), NULL))
    BY <1>5 DEF sign
  <2>2. NULL \in Usable(1) /\ Value(1) \in Usable(1)
    <3>1. 1 \in 1..1
      OBVIOUS
    <3>. QED BY <3>1 DEF Usable
  <2>. HIDE DEF type
  <2>3. CASE type = "LITERAL"
    <3>1. syms' = New("NUMBER", "LITERAL", syms[Value(1)].initval) /\ UNCHANGED code
      BY <2>1, <2>3
    <3>2. Extends(syms', syms) /\ NewSid \notin Temps'
      BY <1>2, <1>3, <3>1, NumberNew
    <3>. QED BY <1>1, <1>2, <2>1, <3>1, <3>2, TempValue
  <2>4. CASE type # "LITERAL"
    <3>1. /\ syms' = symalloc("TEMP", type)
          /\ code' = Append(code, Inst("NEG", NewSid, Value(1), NULL))
      BY <2>1, <2>4
    <3>2. "NEG" \in Results
      BY DEF Results
    <3>. QED BY <1>1, <1>2, <1>3, <2>1, <2>2, <3>1, <3>2, TempCompute
  <2>. QED BY <2>3, <2>4
<1>. QED BY <1>4, <1>5 DEF sign

LEMMA TempFactor ==
  ASSUME WorkInv, TempInv, id_factor \/ number_factor
  PROVE  TempInv'
<1>0. /\ At("gen_factor") /\ Walk(<<>>) /\ UNCHANGED code
      /\ Here \in Routine /\ Table(syms) /\ 0 \in 0..Len(vals)
  <2>1. At("gen_factor") /\ Walk(<<>>) /\ UNCHANGED code
    BY DEF id_factor, number_factor
  <2>. QED BY <2>1, AtExpression, ValuesThere
<1>1. CASE id_factor
  <2>1. UNCHANGED syms
    BY <1>1 DEF id_factor
  <2>2. PICK d \in Sids(Variables \cup {"CONSTANT"}) : Returns(0, <<d>>)
    BY <1>1 DEF id_factor
  <2>3. "TEMP" \notin Variables \cup {"CONSTANT"} /\ Extends(syms', syms)
    BY <2>1, SymsKept DEF Variables, Parameter
  <2>4. d \notin Temps'
    BY <2>3, NoTemps
  <2>. QED BY <1>0, <2>2, <2>3, <2>4, TempValue
<1>2. CASE number_factor
  <2>1. PICK type \in {"CHAR", "LITERAL"} : syms' = New("NUMBER", type, "written")
    BY <1>2 DEF number_factor
  <2>2. Returns(0, <<NewSid>>)
    BY <1>2 DEF number_factor
  <2>3. Extends(syms', syms) /\ NewSid \notin Temps'
    BY <1>0, <2>1, NumberNew
  <2>. QED BY <1>0, <2>2, <2>3, TempValue
<1>. QED BY <1>1, <1>2

\* The call, which defines its result if it has one, and a POP for each
\* argument.
LEMMA TempCall ==
  ASSUME WorkInv, TempInv, call
  PROVE  TempInv'
<1>. DEFINE T == Temps'
            e == Now.d
            x == Inst("CALL", e, Now.r, NULL)
            pop == Inst("POP", NULL, NULL, NULL)
            n == Len(Params[Now.r])
            pops == [i \in 1..n |-> pop]
            c == code \o <<x>> \o pops
<1>0. /\ At("call") /\ UNCHANGED syms /\ Walk(<<>>) /\ code' = c
      /\ Returns(0, IF e = NULL THEN <<>> ELSE <<e>>)
  BY DEF call, Pops
<1>1. /\ Extends(syms', syms) /\ Values(syms, vals) /\ Lines(syms, code)
      /\ Now.do = "call" /\ Fits(syms, Now) /\ e \in Nat
      /\ work # <<>>
  <2>1. At("call") /\ UNCHANGED syms
    BY <1>0
  <2>. QED BY <2>1, AtEntry, SymsKept DEF At
<1>2. Owned(T, code, work, vals) /\ NULL \notin T /\ Now.r \notin T
  <2>1. Now.r \in Routine
    BY <1>1 DEF Fits
  <2>. QED BY <1>1, <2>1, NewTemps, NoTemps
<1>3. n \in Nat
  BY <1>1, ArgsType DEF Fits
<1>4. /\ Len(work) \in Nat \ {0} /\ Now = work[1] /\ Len(work') = Len(work) - 1
      /\ \A i \in 1..Len(work') : work'[i] = work[i + 1]
  <2>1. Len(work) \in Nat \ {0} /\ Now = work[1] /\ work' = Tail(work)
        /\ Len(Tail(work)) = Len(work) - 1
        /\ \A i \in 1..Len(work) - 1 : Tail(work)[i] = work[i + 1]
    <3>1. Tail(work) \in Seq(Item)
      BY <1>1, WorkType
    <3>2. work' = Tail(work)
      BY <1>0, <3>1, ConcatEmptySeq DEF Walk
    <3>. QED BY <1>1, <3>2, WorkType DEF Now
  <2>. QED BY <2>1
<1>5. Awaits(T, code, work, vals, 1)
  BY <1>2, <1>4 DEF Owned
<1>6. /\ e \in T \cup {NULL}
      /\ e \in T => /\ Untouched(code, vals, e)
                    /\ \A i \in 1..Len(work') : work'[i].d # e
  <2>1. \A j \in 1..Len(work) : e \in T /\ work[j].d = e => j = 1
    BY <1>4, <1>5 DEF Awaits
  <2>2. \A i \in 1..Len(work') : i + 1 \in 1..Len(work) /\ i + 1 # 1
    BY <1>4
  <2>3. ASSUME e \in T, NEW i \in 1..Len(work') PROVE work'[i].d # e
    BY <1>4, <2>1, <2>2, <2>3
  <2>. QED BY <1>1, <1>4, <1>5, <2>3 DEF Awaits
<1>7. Owned(T, code, work', vals)
  BY <1>0, <1>1, <1>2, CalmNone, CalmWalk
<1>8. /\ x.op = "CALL" /\ DefOf(x) = e /\ UseOf(x) \cap T = {}
  <2>1. "CALL" \in Results
    BY DEF Results
  <2>2. x.op = "CALL" /\ DefOf(x) = e /\ (e # NULL => UseOf(x) = {Now.r, NULL})
        /\ UseOf(x) \subseteq {e, Now.r, NULL}
    BY <2>1, InstUse
  <2>. HIDE DEF x
  <2>. QED BY <1>2, <2>2
<1>9. Neutral(T, pop)
  <2>1. "POP" \notin Results
    BY DEF Results
  <2>2. pop.op = "POP" /\ DefOf(pop) = NULL /\ UseOf(pop) \subseteq {NULL}
    BY <2>1, InstUse
  <2>. HIDE DEF pop
  <2>. QED BY <1>2, <2>2 DEF Neutral
<1>. HIDE DEF x, pop, T, e
<1>10. Adds(T, c, code, x) /\ Len(code) \in Nat /\ Len(c) = Len(code) + 1 + n
  <2>. DEFINE S == Line \cup {x, pop}
  <2>1. code \in Seq(S) /\ <<x>> \in Seq(S) /\ pops \in Seq(S) /\ Len(code) \in Nat
        /\ Len(<<x>>) = 1 /\ <<x>>[1] = x /\ Len(pops) = n /\ \A i \in 1..n : pops[i] = pop
    BY <1>1, <1>3 DEF Lines
  <2>. HIDE DEF S, pops, n
  <2>2. code \o <<x>> \in Seq(S) /\ Len(code \o <<x>>) = Len(code) + 1
    BY <2>1, ConcatProperties
  <2>3. \A i \in 1..Len(code) + 1 :
          (code \o <<x>>)[i] = IF i <= Len(code) THEN code[i] ELSE <<x>>[i - Len(code)]
    <3>1. \A i \in 1..Len(code \o <<x>>) :
            (code \o <<x>>)[i] = IF i <= Len(code) THEN code[i] ELSE <<x>>[i - Len(code)]
      BY <2>1, ConcatProperties
    <3>. QED BY <2>2, <3>1
  <2>. DEFINE d == code \o <<x>>
  <2>4. d \in Seq(S) /\ Len(d) = Len(code) + 1 /\ d[Len(code) + 1] = x
        /\ \A i \in 1..Len(code) : d[i] = code[i]
    BY <2>1, <2>2, <2>3
  <2>5. c = d \o pops
    OBVIOUS
  <2>. HIDE DEF d, c
  <2>6. Len(c) = Len(d) + n
    BY <2>1, <2>4, <2>5, ConcatProperties
  <2>7. \A i \in 1..Len(c) : c[i] = IF i <= Len(d) THEN d[i] ELSE pops[i - Len(d)]
    BY <2>1, <2>4, <2>5, ConcatProperties
  <2>8. \A i \in Len(code) + 2..Len(c) : c[i] = pop
    <3>. SUFFICES ASSUME NEW i \in Len(code) + 2..Len(c) PROVE c[i] = pop
      OBVIOUS
    <3>1. i \in 1..Len(c) /\ ~(i <= Len(d)) /\ i - Len(d) \in 1..n
      BY <1>3, <2>1, <2>4, <2>6
    <3>. QED BY <2>1, <2>7, <3>1
  <2>9. /\ Len(c) = Len(code) + 1 + n /\ c[Len(code) + 1] = x
        /\ \A i \in 1..Len(code) : c[i] = code[i]
    BY <1>3, <2>1, <2>4, <2>6, <2>7
  <2>. QED BY <1>3, <1>9, <2>1, <2>8, <2>9 DEF Adds, Longer
<1>. HIDE DEF c, n
<1>11. Takes(T, x, vals, vals)
  <2>1. Len(vals) \in Nat
    BY <1>1 DEF Values
  <2>. QED BY <1>8, <2>1 DEF Takes
<1>12. Owned(T, c, work', vals)
  <2>1. DefOf(x) # NULL => /\ DefOf(x) \in T /\ Untouched(code, vals, DefOf(x))
                           /\ \A i \in 1..Len(work') : work'[i].d # DefOf(x)
    BY <1>6, <1>8
  <2>. QED BY <1>2, <1>7, <1>8, <1>10, <1>11, <2>1, OwnEmit
<1>13. CASE e = NULL
  <2>1. vals' = vals
    <3>1. vals \in Seq(Nat) /\ Len(vals) \in Nat
      BY <1>1 DEF Values
    <3>2. vals' = SubSeq(vals, 1, Len(vals) - 0) \o <<>>
      BY <1>0, <1>13 DEF Returns
    <3>3. SubSeq(vals, 1, Len(vals) - 0) = vals
      BY <3>1
    <3>. QED BY <3>1, <3>2, <3>3, ConcatEmptySeq
  <2>. QED BY <1>0, <1>12, <2>1 DEF TempInv, T
<1>14. CASE e # NULL
  <2>1. Returns(0, <<e>>) /\ 0 \in 0..Len(vals) /\ Len(vals) \in Nat
    <3>1. Len(vals) \in Nat
      BY <1>1 DEF Values
    <3>. QED BY <1>0, <1>14, <3>1
  <2>2. /\ Len(vals') = Len(Kept(0)) + 1 /\ vals'[Len(vals')] = e
        /\ \A i \in 1..Len(Kept(0)) : vals'[i] = Kept(0)[i]
    BY <1>1, <2>1, KeptMore
  <2>3. Len(Kept(0)) = Len(vals) /\ \A i \in 1..Len(Kept(0)) : Kept(0)[i] = vals[i]
    <3>1. Len(Kept(0)) = Len(vals) - 0 /\ \A i \in 1..Len(Kept(0)) : Kept(0)[i] = vals[i]
      BY <1>1, <2>1, KeptFacts
    <3>. QED BY <2>1, <3>1
  <2>4. /\ Len(vals') = Len(vals) + 1 /\ vals'[Len(vals')] = e
        /\ \A i \in 1..Len(vals) : vals'[i] = vals[i]
    BY <2>2, <2>3
  <2>5. e \in T /\ Untouched(code, vals, e) /\ \A i \in 1..Len(work') : work'[i].d # e
    BY <1>6, <1>14
  <2>6. \A u \in 1..Len(c) : \/ u \in 1..Len(code) /\ c[u] = code[u]
                             \/ u = Len(code) + 1 /\ c[u] = x
                             \/ u \in Len(code) + 2..Len(c) /\ Neutral(T, c[u])
    BY <1>3, <1>10 DEF Adds, Longer
  <2>7. \A u \in 1..Len(c) : e \notin UseOf(c[u])
    BY <1>8, <2>5, <2>6 DEF Untouched, Neutral
  <2>8. Computed(c, e, Len(c) + 1)
    <3>. DEFINE d == Len(code) + 1
    <3>1. Len(c) + 1 - 1 = Len(c) /\ d \in 1..Len(c) /\ c[d] = x
      BY <1>3, <1>10 DEF Adds
    <3>2. \A k \in d..Len(c) : c[k].op # "LABEL"
      <4>1. \A k \in d..Len(c) : k \in 1..Len(c) /\ ~(k \in 1..Len(code))
        BY <1>10
      <4>. QED BY <1>8, <2>6, <4>1 DEF Neutral
    <3>. QED BY <1>8, <3>1, <3>2 DEF Computed, Behind
  <2>9. Owned(T, c, work', vals')
    <3>1. \A i \in 1..Len(vals) : vals[i] # e
      BY <2>5 DEF Untouched
    <3>. QED BY <1>12, <2>1, <2>4, <2>5, <2>7, <2>8, <3>1, OwnReturn
  <2>. QED BY <1>0, <2>9 DEF TempInv, T
<1>. QED BY <1>13, <1>14

-----------------------------------------------------------------------------
(* The bounds of a for                                                     *)

\* Which value was returned first does not matter.
LEMMA OwnSwap ==
  ASSUME NEW T, NEW c, NEW w, NEW v, Owned(T, c, w, v), Len(v) = 2,
         NEW r, Len(r) = 2, r[1] = v[2], r[2] = v[1]
  PROVE  Owned(T, c, w, r)
<1>0. \A i \in 1..2 : i = 1 \/ i = 2
  OBVIOUS
<1>1. ASSUME NEW i \in 1..Len(r), r[i] \in T PROVE Held(c, r, i)
  <2>1. PICK k \in 1..Len(v) : r[i] = v[k] /\ k = 3 - i
    BY <1>0
  <2>2. Held(c, v, k)
    BY <1>1, <2>1 DEF Owned
  <2>3. ASSUME NEW j \in 1..Len(r), r[j] = r[i] PROVE j = i
    <3>1. 3 - j \in 1..Len(v) /\ v[3 - j] = r[j]
      BY <1>0
    <3>2. 3 - j = k
      BY <2>1, <2>2, <2>3, <3>1 DEF Held
    <3>. QED BY <2>1, <3>2
  <2>. QED BY <2>1, <2>2, <2>3 DEF Held
<1>2. ASSUME NEW i \in 1..Len(w) PROVE Awaits(T, c, w, r, i)
  <2>1. Awaits(T, c, w, v, i)
    BY <1>2 DEF Owned
  <2>2. w[i].d \in T => Untouched(c, r, w[i].d)
    <3>. SUFFICES ASSUME w[i].d \in T PROVE Untouched(c, r, w[i].d)
      OBVIOUS
    <3>1. Untouched(c, v, w[i].d)
      BY <2>1 DEF Awaits
    <3>2. \A j \in 1..Len(r) : r[j] # w[i].d
      BY <1>0, <3>1 DEF Untouched
    <3>. QED BY <3>1, <3>2 DEF Untouched
  <2>. QED BY <2>1, <2>2 DEF Awaits
<1>. QED BY <1>1, <1>2 DEF Owned

LEMMA AppendAdds ==
  ASSUME NEW T, NEW S, NEW c \in Seq(S), NEW x \in S
  PROVE  /\ Append(c, x) \in Seq(S) /\ Len(Append(c, x)) = Len(c) + 1
         /\ \A i \in 1..Len(c) + 1 : Append(c, x)[i] = IF i = Len(c) + 1 THEN x ELSE c[i]
         /\ Adds(T, Append(c, x), c, x)
<1>1. /\ Append(c, x) \in Seq(S) /\ Len(Append(c, x)) = Len(c) + 1 /\ Len(c) \in Nat
      /\ \A i \in 1..Len(c) : Append(c, x)[i] = c[i]
      /\ Append(c, x)[Len(c) + 1] = x
  BY AppendProperties
<1>. QED BY <1>1 DEF Adds, Longer

LEMMA TempForBody ==
  ASSUME WorkInv, TempInv, for_body
  PROVE  TempInv'
<1>. DEFINE T == Temps'
            forstart == NewSid
            fordone == NewSid + 1
            up == Now.op = "INC"
            test == IF up THEN "BRANCH_GTT" ELSE "BRANCH_LST"
            back == IF up THEN "DEC" ELSE "INC"
            low == Value(2)
            high == Value(1)
            x == Inst("STORE_VAR", Now.d, low, NULL)
            y == Inst("LABEL", forstart, NULL, NULL)
            z == Inst(test, fordone, Now.d, high)
            is == <<Gen("gen_stmt"), Emit(Now.op, Now.d), Emit("JUMP", forstart),
                    Emit("LABEL", fordone), Emit(back, Now.d)>>
            I == {Gen("gen_stmt"), Emit(Now.op, Now.d), Emit("JUMP", forstart),
                  Emit("LABEL", fordone), Emit(back, Now.d)}
<1>0. /\ At("for") /\ code' = code \o <<x, y, z>> /\ Walk(is) /\ syms' = TwoLabels
      /\ Returns(2, <<>>)
  BY DEF for_body
<1>1. /\ Len(vals) = 2 /\ Here \in Routine /\ Values(syms, vals) /\ Lines(syms, code)
      /\ Now.op \in {"INC", "DEC"} /\ work # <<>>
  <2>1. At("for")
    BY <1>0
  <2>. QED BY <2>1, ValuesThere, NowOps, AtEntry DEF At
<1>2. Extends(syms', syms) /\ forstart \notin T /\ fordone \notin T
  BY <1>0, <1>1, NewNames
<1>3. /\ NULL \notin T /\ Plainly(T, Now) /\ Owned(T, code, work, vals)
  <2>1. At("for")
    BY <1>0
  <2>. QED BY <1>2, <2>1, NoTemps, NewTemps
<1>4. Now.d \notin T
  BY <1>3 DEF Plainly
<1>5. Calm(T, is)
  <2>. HIDE DEF T, forstart, fordone, up, test, back
  <2>1. \A i \in I : Plainly(T, i)
    BY <1>2, <1>3, <1>4, PlainEntries
  <2>2. is \in Seq(I)
    OBVIOUS
  <2>. HIDE DEF I, is
  <2>. QED BY <2>1, <2>2, CalmOf
<1>6. /\ x.op = "STORE_VAR" /\ DefOf(x) = NULL /\ UseOf(x) \cap T \subseteq {low}
      /\ y.op = "LABEL" /\ DefOf(y) = NULL /\ UseOf(y) \cap T = {} /\ y.d = forstart
      /\ z.op # "LABEL" /\ DefOf(z) = NULL /\ UseOf(z) \cap T \subseteq {high}
  <2>1. "STORE_VAR" \notin Results /\ "LABEL" \notin Results /\ test \notin Results
        /\ test # "LABEL"
    BY DEF Results
  <2>2. y.d = forstart
    BY DEF Inst
  <2>. HIDE DEF T, forstart, fordone, up, test, low, high
  <2>3. /\ x.op = "STORE_VAR" /\ DefOf(x) = NULL /\ UseOf(x) \subseteq {Now.d, low, NULL}
    BY <2>1, InstUse
  <2>4. /\ y.op = "LABEL" /\ DefOf(y) = NULL /\ UseOf(y) \subseteq {forstart, NULL}
    BY <2>1, InstUse
  <2>5. /\ z.op = test /\ DefOf(z) = NULL /\ UseOf(z) \subseteq {fordone, Now.d, high}
    BY <2>1, InstUse
  <2>. HIDE DEF x, y, z
  <2>6. UseOf(x) \cap T \subseteq {low}
    BY <1>3, <1>4, <2>3
  <2>7. UseOf(y) \cap T = {}
    BY <1>2, <1>3, <2>4
  <2>8. UseOf(z) \cap T \subseteq {high}
    BY <1>2, <1>4, <2>5
  <2>. QED BY <2>1, <2>2, <2>3, <2>4, <2>5, <2>6, <2>7, <2>8
<1>7. vals[1] = low /\ vals[2] = high
  BY <1>1 DEF Value
<1>8. \A i \in 1..Len(code) : code[i].d # forstart
  <2>1. forstart \notin DOMAIN syms \cup {NULL}
    BY FreshTemp
  <2>. QED BY <1>1, <2>1 DEF Lines, OperandsIn
<1>. HIDE DEF T, I, is, forstart, fordone, up, test, back, low, high, x, y, z
<1>. DEFINE S == Line \cup {x, y, z}
            c == Append(code, x)
            d == Append(c, y)
            e == Append(d, z)
            both == <<high, low>>
            one == <<high>>
            none == <<>>
<1>9. /\ Len(both) = 2 /\ both[1] = high /\ both[2] = low
      /\ Len(one) = 1 /\ one[1] = high /\ Len(none) = 0
  OBVIOUS
<1>10. x \in S /\ y \in S /\ z \in S /\ code \in Seq(S) /\ Len(code) \in Nat
  BY <1>1 DEF Lines
<1>11. code' = e
  <2>. HIDE DEF S
  <2>. QED BY <1>0, <1>10
<1>12. vals' = none
  <2>1. 2 \in 0..Len(vals)
    BY <1>1
  <2>2. Values(syms, vals') /\ Len(vals') = Len(vals) - 2
    BY <1>0, <1>1, <2>1, ReturnsNone
  <2>. QED BY <1>1, <2>2 DEF Values
<1>. HIDE DEF S, e, d, c, both, one, none
<1>13. /\ c \in Seq(S) /\ Len(c) = Len(code) + 1 /\ Adds(T, c, code, x)
       /\ \A i \in 1..Len(code) + 1 : c[i] = IF i = Len(code) + 1 THEN x ELSE code[i]
  BY <1>10, AppendAdds DEF c
<1>14. d \in Seq(S) /\ Len(d) = Len(c) + 1 /\ Adds(T, d, c, y)
  BY <1>10, <1>13, AppendAdds DEF d
<1>15. Adds(T, e, d, z)
  BY <1>10, <1>14, AppendAdds DEF e
<1>16. Owned(T, code, work', both)
  <2>1. Owned(T, code, work', vals)
    BY <1>0, <1>1, <1>3, <1>5, CalmWalk
  <2>. QED BY <1>1, <1>7, <1>9, <2>1, OwnSwap
<1>17. Owned(T, c, work', one)
  <2>1. Takes(T, x, both, one)
    <3>1. Len(one) <= Len(both) /\ \A i \in 1..Len(one) : one[i] = both[i]
      BY <1>9
    <3>2. 2 \in Len(one) + 1..Len(both)
      BY <1>9
    <3>. QED BY <1>6, <1>9, <3>1, <3>2 DEF Takes
  <2>. QED BY <1>3, <1>6, <1>13, <1>16, <2>1, OwnEmit
<1>18. Owned(T, d, work', one)
  <2>1. Takes(T, y, one, one)
    BY <1>6, <1>9 DEF Takes
  <2>2. \A j \in 1..Len(c) : Jumping(c[j]) => c[j].d # y.d
    <3>1. ~Jumping(x)
      BY <1>6 DEF Jumping, Branches
    <3>. QED BY <1>6, <1>8, <1>10, <1>13, <3>1
  <2>. QED BY <1>3, <1>6, <1>14, <1>17, <2>1, <2>2, OwnEmit
<1>19. Owned(T, e, work', none)
  <2>1. Takes(T, z, one, none)
    <3>1. Len(none) <= Len(one) /\ \A i \in 1..Len(none) : none[i] = one[i]
      BY <1>9
    <3>2. 1 \in Len(none) + 1..Len(one)
      BY <1>9
    <3>. QED BY <1>6, <1>9, <3>1, <3>2 DEF Takes
  <2>. QED BY <1>3, <1>6, <1>15, <1>18, <2>1, OwnEmit
<1>. QED BY <1>11, <1>12, <1>19 DEF TempInv, T

-----------------------------------------------------------------------------
(* The theorem                                                             *)

LEMMA TempInit ==
  ASSUME Init
  PROVE  TempInv
<1>1. /\ vals = <<>> /\ code = <<>>
      /\ work = <<Decs(Main), Emit("FN_START", Main), Gen("gen_comp_stmt"), Emit("FN_END", Main)>>
  BY DEF Init
<1>2. /\ Len(work) = 4 /\ work[1] = Decs(Main) /\ work[2] = Emit("FN_START", Main)
      /\ work[3] = Gen("gen_comp_stmt") /\ work[4] = Emit("FN_END", Main)
  BY <1>1
<1>3. NULL \notin Temps /\ Main \notin Temps
  <2>1. Table(syms)
    BY InitSyms
  <2>2. Main \in DOMAIN Declared /\ Declared[Main].cate # "TEMP"
    BY SymbolFacts DEF Routine
  <2>. QED BY <2>1, <2>2 DEF Temps, Table, NULL
<1>4. \A i \in 1..4 : Plainly(Temps, work[i])
  <2>1. Plainly(Temps, Decs(Main))
    BY <1>3 DEF Plainly, Decs, Do
  <2>2. /\ Plainly(Temps, Emit("FN_START", Main)) /\ Plainly(Temps, Gen("gen_comp_stmt"))
        /\ Plainly(Temps, Emit("FN_END", Main))
    BY <1>3, PlainEntries
  <2>3. \A i \in 1..4 : i = 1 \/ i = 2 \/ i = 3 \/ i = 4
    OBVIOUS
  <2>. QED BY <1>2, <2>1, <2>2, <2>3
<1>5. Len(vals) = 0 /\ Len(code) = 0
  BY <1>1
<1>. QED BY <1>2, <1>4, <1>5 DEF TempInv, Owned, Awaits, Plainly

LEMMA NextTemps ==
  ASSUME WorkInv, TempInv, [Next]_vars
  PROVE  TempInv'
<1>1. CASE gen_pf_dec_list \/ gen_comp_stmt \/ emit1
  BY <1>1, TempRoutines, TempStatement, TempEmit1
<1>2. CASE Statement
  <2>1. CASE \/ null_stmt \/ gen_assign_stmt \/ gen_if_stmt \/ gen_repe_stmt \/ gen_for_stmt
             \/ gen_pcall_stmt \/ gen_read_stmt \/ gen_write_stmt
    BY <2>1, TempStatement, TempBranching, TempPcall, TempRead, TempWrite
  <2>2. CASE store_var \/ store_array \/ branch \/ for_body \/ write
    BY <2>2, TempStore, TempForBody, TempWriteValue
  <2>. QED BY <1>2, <2>1, <2>2 DEF Statement
<1>3. CASE Expression
  <2>1. CASE gen_expr \/ sign \/ terms \/ gen_term \/ factors \/ binary
    BY <2>1, TempExpression, TempSign, TempCalculate
  <2>2. CASE id_factor \/ number_factor \/ array_factor \/ load_array \/ expr_factor
    BY <2>2, TempExpression, TempFactor, TempCalculate
  <2>3. CASE gen_fcall_stmt \/ gen_arg \/ push \/ call
    BY <2>3, TempFcall, TempArg, TempStore, TempCall
  <2>. QED BY <1>3, <2>1, <2>2, <2>3 DEF Expression
<1>4. CASE genir
  BY <1>4 DEF genir, TempInv, Temps
<1>5. CASE UNCHANGED vars
  BY <1>5 DEF vars, TempInv, Temps
<1>. QED BY <1>1, <1>2, <1>3, <1>4, <1>5 DEF Next

LEMMA AtMostOne ==
  ASSUME NEW S, \A i, j \in S : i = j
  PROVE  Cardinality(S) <= 1
<1>1. CASE S = {}
  BY <1>1, FS_EmptySet
<1>2. CASE S # {}
  <2>1. PICK i \in S : S = {i}
    BY <1>2
  <2>2. Cardinality({i}) = 1
    BY FS_Singleton
  <2>. QED BY <2>1, <2>2
<1>. QED BY <1>1, <1>2

\* A temporary is defined by one instruction and read by one at most, which
\* no path reaches without the definition (gen_expr, gen_term, gen_factor,
\* gen_fcall_stmt, and gen_for_stmt, whose bound is read in the loop).
THEOREM TempsInOrder == Spec => []TempsComputedFirst
<1>1. Init => TempInv
  BY TempInit
<1>2. WorkInv /\ TempInv /\ [Next]_vars => TempInv'
  BY NextTemps
<1>3. ASSUME WorkInv, TempInv PROVE TempsComputedFirst
  <2>0. DOMAIN code = 1..Len(code) /\ Len(code) \in Nat /\ NULL \notin Temps
    <3>1. Table(syms)
      BY <1>3 DEF WorkInv
    <3>. QED BY <1>3, <3>1 DEF WorkInv, Lines, Temps, Table, NULL
  <2>1. \A i : Defines(i) = DefOf(code[i]) /\ Reads(i) = UseOf(code[i])
    BY DEF Defines, Reads, DefOf, UseOf
  <2>2. ASSUME NEW t \in Temps
        PROVE  LET defs == {i \in DOMAIN code : Defines(i) = t}
                   uses == {i \in DOMAIN code : t \in Reads(i)}
               IN  /\ Cardinality(defs) <= 1 /\ Cardinality(uses) <= 1
                   /\ \A u \in uses : \E d \in defs :
                        /\ d < u
                        /\ \A k \in d..u : code[k].op = "LABEL" =>
                             \A j \in DOMAIN code :
                               code[j].op \in Branches \cup {"JUMP"} /\ code[j].d = code[k].d
                                 => j > d
    <3>. DEFINE defs == {i \in DOMAIN code : Defines(i) = t}
                uses == {i \in DOMAIN code : t \in Reads(i)}
    <3>1. \A i, j \in defs : i = j
      BY <1>3, <2>0, <2>1, <2>2 DEF TempInv, Owned
    <3>2. \A u \in uses : ReadAt(code, t, u)
      BY <1>3, <2>0, <2>1, <2>2 DEF TempInv, Owned
    <3>3. \A i, j \in uses : i = j
      BY <2>0, <2>1, <3>2 DEF ReadAt
    <3>4. ASSUME NEW u \in uses
          PROVE  \E d \in defs :
                   /\ d < u
                   /\ \A k \in d..u : code[k].op = "LABEL" =>
                        \A j \in DOMAIN code :
                          code[j].op \in Branches \cup {"JUMP"} /\ code[j].d = code[k].d => j > d
      <4>1. u \in 1..Len(code) /\ code[u].op # "LABEL" /\ Computed(code, t, u)
        BY <2>0, <3>2, <3>4 DEF ReadAt
      <4>2. PICK d \in 1..u - 1 : DefOf(code[d]) = t /\ Behind(code, d, u - 1)
        BY <4>1 DEF Computed
      <4>3. d \in defs /\ d < u
        BY <2>0, <2>1, <4>1, <4>2
      <4>4. ASSUME NEW k \in d..u, code[k].op = "LABEL", NEW j \in DOMAIN code,
                   code[j].op \in Branches \cup {"JUMP"}, code[j].d = code[k].d
            PROVE  j > d
        <5>1. k \in d..u - 1
          BY <4>1, <4>2, <4>4
        <5>2. Jumping(code[j]) /\ j \in 1..Len(code)
          BY <2>0, <4>4 DEF Jumping
        <5>. QED BY <4>2, <4>4, <5>1, <5>2 DEF Behind
      <4>. QED BY <4>3, <4>4
    <3>. HIDE DEF defs, uses
    <3>5. Cardinality(defs) <= 1 /\ Cardinality(uses) <= 1
      BY <3>1, <3>3, AtMostOne
    <3>. QED BY <3>4, <3>5 DEF defs, uses
  <2>. QED BY <2>2 DEF TempsComputedFirst
<1>. QED BY <1>1, <1>2, <1>3, WorkKept, PTL DEF Spec

-----------------------------------------------------------------------------
(* What the text names is declared                                         *)

\* The routine that line i of the code c is in.
InRoutine(c, i, p) ==
  \E k \in 1..i : /\ c[k].op = "FN_START" /\ c[k].d = p
                  /\ \A j \in k + 1..i : c[j].op # "FN_START"

\* A symbol of s that is declared, or needs not be, where routine p is read.
Known(s, p, e) ==
  \/ e = NULL
  \/ /\ e \in DOMAIN s
     /\ \/ e \in Routine \/ s[e].cate \in {"CONSTANT", "NUMBER"}
        \/ s[e].cate \in {"TEMP", "STRING"} /\ s[e].stab = p
        \/ \E q \in Enclosing[p] : e \in InTable(q, Variables \cup {"ARRAY"})

\* The operands of an instruction of p, and of an entry of work in p.
Formed(s, p, x) ==
  /\ Known(s, p, x.r) /\ Known(s, p, x.s)
  /\ x.op \in Branches \cup {"JUMP", "LABEL"} \/ Known(s, p, x.d)
  /\ x.op = "WRITE_STRING" => x.d \in DOMAIN s /\ s[x.d].cate = "STRING"
  /\ x.op \notin ThreeOperands => x.s = NULL
  /\ x.op \notin ThreeOperands \cup {"STORE_VAR", "NEG", "CALL", "PUSH_ADDR"} => x.r = NULL
  /\ x.op = "CALL" => x.r \in Routine
  /\ x.op \in {"FN_START", "FN_END"} => x.d \in Routine

Good(s, p, w) ==
  /\ Known(s, p, w.r)
  /\ w.op \in Branches \cup {"JUMP", "LABEL"} \/ Known(s, p, w.d)
  /\ w.op = "WRITE_STRING" => w.d \in DOMAIN s /\ s[w.d].cate = "STRING"
  /\ w.op \in {"FN_START", "FN_END"} => w.d \in Routine

\* Entries that lead to another routine, and those that may follow them.
Turns(w) == w.do = "gen_pf_dec_list" \/ w.op = "FN_START"
Framed(w) ==
  /\ w.do \in {"gen_pf_dec_list", "gen_comp_stmt"} \/ w.op \in {"FN_START", "FN_END"}
  /\ w.d \in Routine \/ (w.d = NULL /\ w.do = "gen_comp_stmt")
  /\ w.r = NULL

\* Every routine of a table that was begun is begun, or will be.
RoutinesLeft ==
  /\ Main \in Started
  /\ \A p \in Started \cap Routine :
       \/ Left(p) = {}
       \/ \E i \in 1..Len(work) : work[i].do = "gen_pf_dec_list" /\ work[i].d = p

DeclInv ==
  /\ \A e \in DOMAIN Declared : syms[e].stab = Declared[e].stab
  /\ \A i \in 1..Len(code) :
       \E p \in Routine : InRoutine(code, i, p) /\ Formed(syms, p, code[i])
  /\ \A p \in Routine : InRoutine(code, Len(code), p) =>
       /\ \A i \in 1..Len(vals) : Known(syms, p, vals[i])
       /\ \A i \in 1..Len(work) : Good(syms, p, work[i])
  /\ \A i, j \in 1..Len(work) : i <= j /\ Turns(work[i]) => Framed(work[j])
  /\ RoutinesLeft

-----------------------------------------------------------------------------
(* The routine a line is in                                                *)

LEMMA InRoutineOnce ==
  ASSUME NEW c, NEW i \in Nat, NEW p, NEW q, InRoutine(c, i, p), InRoutine(c, i, q)
  PROVE  p = q
<1>1. PICK k \in 1..i : /\ c[k].op = "FN_START" /\ c[k].d = p
                        /\ \A j \in k + 1..i : c[j].op # "FN_START"
  BY DEF InRoutine
<1>2. PICK l \in 1..i : /\ c[l].op = "FN_START" /\ c[l].d = q
                        /\ \A j \in l + 1..i : c[j].op # "FN_START"
  BY DEF InRoutine
<1>3. ~(k < l) /\ ~(l < k)
  BY <1>1, <1>2
<1>4. k = l
  BY <1>3
<1>. QED BY <1>1, <1>2, <1>4

\* node->stab is the routine whose code is written.
LEMMA HereInside ==
  ASSUME Lines(syms, code), Begun(code)
  PROVE  Here \in Routine /\ InRoutine(code, Len(code), Here)
<1>. DEFINE Starts == {i \in 1..Len(code) : code[i].op = "FN_START"}
<1>1. Len(code) \in Nat /\ DOMAIN code = 1..Len(code)
  BY DEF Lines
<1>2. Starts # {}
  BY DEF Begun
<1>3. PICK m \in Starts : \A i \in Starts : i <= m
  <2>1. Starts \subseteq 1..Len(code)
    OBVIOUS
  <2>. HIDE DEF Starts
  <2>. QED BY <1>1, <1>2, <2>1, GreatestNat
<1>4. /\ m \in DOMAIN code /\ code[m].op = "FN_START"
      /\ \A j \in m + 1..Len(code) : code[j].op # "FN_START"
  <2>. SUFFICES ASSUME NEW j \in m + 1..Len(code), code[j].op = "FN_START" PROVE FALSE
    BY <1>1, <1>3
  <2>. QED BY <1>1, <1>3
<1>. DEFINE last == CHOOSE i \in DOMAIN code :
                      /\ code[i].op = "FN_START"
                      /\ \A j \in i + 1..Len(code) : code[j].op # "FN_START"
<1>5. /\ last \in DOMAIN code /\ code[last].op = "FN_START"
      /\ \A j \in last + 1..Len(code) : code[j].op # "FN_START"
  BY <1>4
<1>6. Here = code[last].d
  BY DEF Here
<1>. HIDE DEF last
<1>7. InRoutine(code, Len(code), Here)
  BY <1>1, <1>5, <1>6 DEF InRoutine
<1>. QED BY <1>7, HereRoutine

\* More lines change nothing in front of them, and lie in the same routine if
\* none of them starts one.
LEMMA InRoutineLonger ==
  ASSUME NEW c, NEW b, Longer(b, c), NEW i \in 0..Len(c), NEW p
  PROVE  InRoutine(b, i, p) <=> InRoutine(c, i, p)
<1>1. \A k \in 1..i : k \in 1..Len(c) /\ b[k] = c[k]
  BY DEF Longer
<1>2. \A k \in 1..i : \A j \in k + 1..i : j \in 1..i
  BY DEF Longer
<1>. QED BY <1>1, <1>2 DEF InRoutine

LEMMA InRoutineFurther ==
  ASSUME NEW c, NEW b, Longer(b, c), NEW i \in Len(c)..Len(b), NEW p,
         \A j \in Len(c) + 1..Len(b) : b[j].op # "FN_START"
  PROVE  InRoutine(b, i, p) <=> InRoutine(c, Len(c), p)
<1>0. Len(c) \in Nat /\ Len(b) \in Nat
  BY DEF Longer
<1>1. ASSUME InRoutine(b, i, p) PROVE InRoutine(c, Len(c), p)
  <2>1. PICK k \in 1..i : /\ b[k].op = "FN_START" /\ b[k].d = p
                          /\ \A j \in k + 1..i : b[j].op # "FN_START"
    BY <1>1 DEF InRoutine
  <2>2. k \in 1..Len(c) /\ b[k] = c[k]
    BY <1>0, <2>1 DEF Longer
  <2>3. ASSUME NEW j \in k + 1..Len(c) PROVE c[j].op # "FN_START"
    <3>1. j \in k + 1..i /\ j \in 1..Len(c)
      BY <1>0, <2>2
    <3>. QED BY <2>1, <3>1 DEF Longer
  <2>. QED BY <2>1, <2>2, <2>3 DEF InRoutine
<1>2. ASSUME InRoutine(c, Len(c), p) PROVE InRoutine(b, i, p)
  <2>1. PICK k \in 1..Len(c) : /\ c[k].op = "FN_START" /\ c[k].d = p
                               /\ \A j \in k + 1..Len(c) : c[j].op # "FN_START"
    BY <1>2 DEF InRoutine
  <2>2. k \in 1..i /\ b[k] = c[k]
    BY <1>0, <2>1 DEF Longer
  <2>3. ASSUME NEW j \in k + 1..i PROVE b[j].op # "FN_START"
    <3>1. CASE j <= Len(c)
      <4>1. j \in k + 1..Len(c) /\ j \in 1..Len(c)
        BY <1>0, <3>1
      <4>. QED BY <2>1, <4>1 DEF Longer
    <3>2. CASE j > Len(c)
      BY <1>0, <3>2
    <3>. QED BY <1>0, <3>1, <3>2
  <2>. QED BY <2>1, <2>2, <2>3 DEF InRoutine
<1>. QED BY <1>1, <1>2

\* New symbols change nothing about the others.
LEMMA KnownMore ==
  ASSUME NEW s, NEW s2, Extends(s2, s), NEW p
  PROVE  /\ \A e : Known(s, p, e) => Known(s2, p, e)
         /\ \A x : Formed(s, p, x) => Formed(s2, p, x)
         /\ \A w : Good(s, p, w) => Good(s2, p, w)
<1>1. \A e \in DOMAIN s : e \in DOMAIN s2 /\ s2[e] = s[e]
  BY SymsExtend DEF Extends
<1>2. \A e : Known(s, p, e) => Known(s2, p, e)
  BY <1>1 DEF Known
<1>. QED BY <1>1, <1>2 DEF Formed, Good

-----------------------------------------------------------------------------
(* A step within a routine                                                 *)

\* Entries, and lines, that the routine p may have, none of which leaves it.
Entries(s, p, is) == \E S : is \in Seq(S) /\ \A x \in S : Good(s, p, x) /\ ~Turns(x)
CodeLines(s, p, xs) == \E S : xs \in Seq(S) /\ \A x \in S : Formed(s, p, x) /\ x.op # "FN_START"
KnownValues(s, p, v) == \A i \in 1..Len(v) : Known(s, p, v[i])

Within == Here \in Routine /\ InRoutine(code, Len(code), Here) /\ ~Turns(Now)

LEMMA CodeJoin ==
  ASSUME NEW c \in Seq(Line), NEW S, NEW xs \in Seq(S)
  PROVE  /\ Longer(c \o xs, c) /\ Len(c \o xs) = Len(c) + Len(xs) /\ Len(xs) \in Nat
         /\ \A i \in Len(c) + 1..Len(c \o xs) : (c \o xs)[i] \in S
<1>. DEFINE E == Line \cup S
<1>1. c \in Seq(E) /\ xs \in Seq(E) /\ Len(c) \in Nat /\ Len(xs) \in Nat
      /\ \A i \in 1..Len(xs) : xs[i] \in S
  BY ElementOfSeq
<1>. HIDE DEF E
<1>2. /\ Len(c \o xs) = Len(c) + Len(xs)
      /\ \A i \in 1..Len(c \o xs) :
           (c \o xs)[i] = IF i <= Len(c) THEN c[i] ELSE xs[i - Len(c)]
  BY <1>1, ConcatProperties
<1>3. ASSUME NEW i \in Len(c) + 1..Len(c \o xs) PROVE (c \o xs)[i] \in S
  <2>1. i - Len(c) \in 1..Len(xs) /\ ~(i <= Len(c)) /\ i \in 1..Len(c \o xs)
    BY <1>1, <1>2
  <2>. QED BY <1>1, <1>2, <2>1
<1>4. Longer(c \o xs, c)
  BY <1>1, <1>2 DEF Longer
<1>. QED BY <1>1, <1>2, <1>3, <1>4

\* What is begun or queued to begin, before a step of the walk and behind it.
StartsIn(l, e) == \E i \in 1..Len(l) : l[i].op = "FN_START" /\ l[i].d = e

LEMMA StartedAre ==
  ASSUME WorkInv, work # <<>>, NEW S, NEW is \in Seq(S), Walk(is), DOMAIN code' = 1..Len(code')
  PROVE  /\ \A e : e \in Started <=> \/ StartsIn(code, e) \/ StartsIn(Tail(work), e)
                                     \/ Now.op = "FN_START" /\ Now.d = e
         /\ \A e : e \in Started' <=> StartsIn(code', e) \/ StartsIn(is,
                                                                     e) \/ StartsIn(Tail(work), e)
<1>1. DOMAIN code = 1..Len(code)
  BY DEF WorkInv, Lines
<1>2. /\ work \in Seq(Item) /\ Len(work) \in Nat \ {0} /\ Now = work[1]
      /\ DOMAIN work = 1..Len(work)
  BY WorkType DEF Now
<1>3. /\ Len(is) \in Nat /\ Len(work') = Len(work) - 1 + Len(is)
      /\ \A i \in 1..Len(is) : work'[i] = is[i]
      /\ \A i \in Len(is) + 1..Len(work') : work'[i] = work[i - Len(is) + 1]
  BY WorkPlaces
<1>4. /\ Tail(work) \in Seq(Item) /\ Len(Tail(work)) = Len(work) - 1
      /\ \A i \in 1..Len(work) - 1 : Tail(work)[i] = work[i + 1]
  BY <1>2
<1>5. DOMAIN work' = 1..Len(work')
  <2>1. is \o Tail(work) \in Seq(S \cup Item)
    BY <1>4
  <2>. QED BY <2>1 DEF Walk
<1>6. ASSUME NEW e
      PROVE  StartsIn(work, e) <=> StartsIn(Tail(work), e) \/ (Now.op = "FN_START" /\ Now.d = e)
  <2>1. ASSUME StartsIn(work, e)
        PROVE  StartsIn(Tail(work), e) \/ (Now.op = "FN_START" /\ Now.d = e)
    <3>1. PICK i \in 1..Len(work) : work[i].op = "FN_START" /\ work[i].d = e
      BY <2>1 DEF StartsIn
    <3>2. i = 1 \/ (i - 1 \in 1..Len(work) - 1 /\ (i - 1) + 1 = i)
      BY <1>2
    <3>3. i # 1 => Tail(work)[i - 1] = work[i] /\ i - 1 \in 1..Len(Tail(work))
      BY <1>4, <3>2
    <3>. QED BY <1>2, <3>1, <3>3 DEF StartsIn
  <2>2. ASSUME StartsIn(Tail(work), e) PROVE StartsIn(work, e)
    <3>1. PICK i \in 1..Len(work) - 1 : Tail(work)[i].op = "FN_START" /\ Tail(work)[i].d = e
      BY <1>4, <2>2 DEF StartsIn
    <3>2. i + 1 \in 1..Len(work) /\ work[i + 1] = Tail(work)[i]
      BY <1>2, <1>4
    <3>. QED BY <3>1, <3>2 DEF StartsIn
  <2>3. ASSUME Now.op = "FN_START", Now.d = e PROVE StartsIn(work, e)
    <3>1. 1 \in 1..Len(work)
      BY <1>2
    <3>. QED BY <1>2, <2>3, <3>1 DEF StartsIn
  <2>. QED BY <2>1, <2>2, <2>3
<1>7. ASSUME NEW e PROVE StartsIn(work', e) <=> StartsIn(is, e) \/ StartsIn(Tail(work), e)
  <2>1. ASSUME StartsIn(work', e) PROVE StartsIn(is, e) \/ StartsIn(Tail(work), e)
    <3>1. PICK i \in 1..Len(work') : work'[i].op = "FN_START" /\ work'[i].d = e
      BY <2>1 DEF StartsIn
    <3>2. CASE i <= Len(is)
      <4>1. i \in 1..Len(is)
        BY <1>3, <3>2
      <4>. QED BY <1>3, <3>1, <4>1 DEF StartsIn
    <3>3. CASE ~(i <= Len(is))
      <4>1. i \in Len(is) + 1..Len(work') /\ i - Len(is) \in 1..Len(work) - 1
        BY <1>2, <1>3, <3>3
      <4>2. work'[i] = Tail(work)[i - Len(is)]
        BY <1>3, <1>4, <4>1
      <4>. QED BY <1>4, <3>1, <4>1, <4>2 DEF StartsIn
    <3>. QED BY <3>2, <3>3
  <2>2. ASSUME StartsIn(is, e) PROVE StartsIn(work', e)
    <3>1. \A i \in 1..Len(is) : i \in 1..Len(work')
      BY <1>2, <1>3
    <3>. QED BY <1>3, <2>2, <3>1 DEF StartsIn
  <2>3. ASSUME StartsIn(Tail(work), e) PROVE StartsIn(work', e)
    <3>1. PICK i \in 1..Len(work) - 1 : Tail(work)[i].op = "FN_START" /\ Tail(work)[i].d = e
      BY <1>4, <2>3 DEF StartsIn
    <3>. DEFINE j == i + Len(is)
    <3>2. j \in Len(is) + 1..Len(work') /\ j - Len(is) + 1 = i + 1 /\ j \in 1..Len(work')
      BY <1>2, <1>3
    <3>. HIDE DEF j
    <3>3. work'[j] = Tail(work)[i]
      BY <1>3, <1>4, <3>2
    <3>. QED BY <3>1, <3>2, <3>3 DEF StartsIn
  <2>. QED BY <2>1, <2>2, <2>3
<1>8. \A e : e \in Started <=> StartsIn(code, e) \/ StartsIn(work, e)
  BY <1>1, <1>2 DEF Started, StartsIn
<1>9. \A e : e \in Started' <=> StartsIn(code', e) \/ StartsIn(work', e)
  BY <1>5 DEF Started, StartsIn
<1>. QED BY <1>6, <1>7, <1>8, <1>9

\* Nothing is begun or queued to begin by a step within a routine.
LEMMA StartedSame ==
  ASSUME WorkInv, work # <<>>, Now.op # "FN_START", NEW S, NEW is \in Seq(S), Walk(is),
         \A x \in S : x.op # "FN_START",
         Longer(code', code), DOMAIN code' = 1..Len(code'),
         \A i \in Len(code) + 1..Len(code') : code'[i].op # "FN_START"
  PROVE  Started' = Started
<1>1. Len(code) \in Nat /\ Len(code') \in Nat
      /\ Len(code) <= Len(code') /\ \A i \in 1..Len(code) : code'[i] = code[i]
  BY DEF WorkInv, Lines, Longer
<1>2. \A e : StartsIn(code', e) <=> StartsIn(code, e)
  BY <1>1 DEF StartsIn
<1>3. \A e : ~StartsIn(is, e)
  BY ElementOfSeq DEF StartsIn
<1>4. \A e : e \in Started' <=> e \in Started
  BY <1>2, <1>3, StartedAre
<1>. QED BY <1>4

LEMMA LeftStep ==
  ASSUME WorkInv, work # <<>>, RoutinesLeft, ~Turns(Now), NEW S, NEW is \in Seq(S), Walk(is),
         Started' = Started
  PROVE  RoutinesLeft'
<1>1. Len(work) \in Nat \ {0} /\ Now = work[1]
  BY WorkType DEF Now
<1>2. /\ Len(is) \in Nat /\ Len(work') = Len(work) - 1 + Len(is)
      /\ \A i \in Len(is) + 1..Len(work') : work'[i] = work[i - Len(is) + 1]
  BY WorkPlaces
<1>3. \A p : Left(p)' = Left(p)
  BY DEF Left
<1>4. ASSUME NEW p, NEW i \in 1..Len(work), work[i].do = "gen_pf_dec_list", work[i].d = p
      PROVE  \E j \in 1..Len(work') : work'[j].do = "gen_pf_dec_list" /\ work'[j].d = p
  <2>1. i # 1
    BY <1>1, <1>4 DEF Turns
  <2>. DEFINE j == i - 1 + Len(is)
  <2>2. j \in Len(is) + 1..Len(work') /\ j - Len(is) + 1 = i /\ j \in 1..Len(work')
    BY <1>1, <1>2, <2>1
  <2>. HIDE DEF j
  <2>3. work'[j] = work[i]
    BY <1>2, <2>2
  <2>. QED BY <1>4, <2>2, <2>3
<1>. QED BY <1>3, <1>4 DEF RoutinesLeft

LEMMA DeclStep ==
  ASSUME WorkInv, DeclInv, Within, work # <<>>, Extends(syms', syms),
         NEW is, Entries(syms', Here, is), Walk(is),
         NEW xs, CodeLines(syms', Here, xs), code' = code \o xs,
         KnownValues(syms', Here, vals')
  PROVE  DeclInv'
<1>. DEFINE s == syms'
            p == Here
<1>1. PICK S : is \in Seq(S) /\ \A x \in S : Good(s, p, x) /\ ~Turns(x)
  BY DEF Entries
<1>2. PICK R : xs \in Seq(R) /\ \A x \in R : Formed(s, p, x) /\ x.op # "FN_START"
  BY DEF CodeLines
<1>3. code \in Seq(Line) /\ Len(code) \in Nat
  BY DEF WorkInv, Lines
<1>4. /\ Longer(code', code) /\ Len(code') \in Nat /\ Len(code) <= Len(code')
      /\ \A i \in Len(code) + 1..Len(code') : code'[i] \in R
  BY <1>2, <1>3, CodeJoin DEF Longer
<1>5. DOMAIN code' = 1..Len(code')
  <2>1. code \o xs \in Seq(Line \cup R)
    BY <1>2, <1>3
  <2>. QED BY <2>1
<1>6. /\ work \in Seq(Item) /\ Len(work) \in Nat \ {0} /\ Now = work[1]
  BY WorkType DEF Now
<1>7. /\ Len(is) \in Nat /\ Len(work') = Len(work) - 1 + Len(is)
      /\ \A i \in 1..Len(is) : work'[i] = is[i]
      /\ \A i \in Len(is) + 1..Len(work') : work'[i] = work[i - Len(is) + 1]
  BY <1>1, WorkPlaces
<1>8. /\ p \in Routine /\ InRoutine(code, Len(code), p) /\ ~Turns(Now)
  BY DEF Within
<1>. HIDE DEF s, p
<1>9. \A e \in DOMAIN Declared : s[e].stab = Declared[e].stab
  <2>1. \A e \in DOMAIN Declared : e \in DOMAIN syms
    BY SymbolFacts DEF WorkInv, Table
  <2>. QED BY <2>1 DEF DeclInv, Extends, s
<1>10. ASSUME NEW i \in 1..Len(code')
       PROVE  \E q \in Routine : InRoutine(code', i, q) /\ Formed(s, q, code'[i])
  <2>1. CASE i <= Len(code)
    <3>0. i \in 1..Len(code) /\ i \in 0..Len(code)
      BY <1>3, <2>1
    <3>1. PICK q \in Routine : InRoutine(code, i, q) /\ Formed(syms, q, code[i])
      BY <3>0 DEF DeclInv
    <3>2. InRoutine(code', i, q) /\ code'[i] = code[i]
      BY <1>4, <3>0, <3>1, InRoutineLonger DEF Longer
    <3>3. Formed(s, q, code[i])
      BY <3>1, KnownMore DEF s
    <3>. QED BY <3>2, <3>3
  <2>2. CASE ~(i <= Len(code))
    <3>1. i \in Len(code) + 1..Len(code') /\ i \in Len(code)..Len(code')
      BY <1>3, <1>4, <2>2
    <3>2. \A j \in Len(code) + 1..Len(code') : code'[j].op # "FN_START"
      BY <1>2, <1>4
    <3>3. InRoutine(code', i, p)
      BY <1>4, <1>8, <3>1, <3>2, InRoutineFurther
    <3>. QED BY <1>2, <1>4, <1>8, <3>1, <3>3
  <2>. QED BY <2>1, <2>2
<1>11. ASSUME NEW q \in Routine, InRoutine(code', Len(code'), q) PROVE q = p
  <2>1. \A j \in Len(code) + 1..Len(code') : code'[j].op # "FN_START"
    BY <1>2, <1>4
  <2>2. Len(code') \in Len(code)..Len(code')
    BY <1>3, <1>4
  <2>3. InRoutine(code, Len(code), q)
    BY <1>4, <1>11, <2>1, <2>2, InRoutineFurther
  <2>. QED BY <1>3, <1>8, <2>3, InRoutineOnce
<1>12. \A i \in 1..Len(vals') : Known(s, p, vals'[i])
  BY DEF KnownValues, s, p
<1>13. ASSUME NEW i \in 1..Len(work') PROVE Good(s, p, work'[i])
  <2>1. CASE i <= Len(is)
    <3>1. i \in 1..Len(is) /\ is[i] \in S
      BY <1>1, <1>7, <2>1, ElementOfSeq
    <3>. QED BY <1>1, <1>7, <3>1
  <2>2. CASE ~(i <= Len(is))
    <3>1. i \in Len(is) + 1..Len(work') /\ i - Len(is) + 1 \in 1..Len(work)
      BY <1>6, <1>7, <2>2
    <3>2. Good(syms, p, work[i - Len(is) + 1])
      BY <1>8, <3>1 DEF DeclInv
    <3>. QED BY <1>7, <3>1, <3>2, KnownMore DEF s
  <2>. QED BY <2>1, <2>2
<1>14. ASSUME NEW i \in 1..Len(work'), NEW j \in 1..Len(work'), i <= j, Turns(work'[i])
       PROVE  Framed(work'[j])
  <2>1. ~(i <= Len(is))
    <3>. SUFFICES ASSUME i <= Len(is) PROVE FALSE
      OBVIOUS
    <3>1. i \in 1..Len(is) /\ is[i] \in S
      BY <1>1, <1>7, ElementOfSeq
    <3>. QED BY <1>1, <1>7, <1>14, <3>1
  <2>2. /\ i \in Len(is) + 1..Len(work') /\ i - Len(is) + 1 \in 1..Len(work)
        /\ j \in Len(is) + 1..Len(work') /\ j - Len(is) + 1 \in 1..Len(work)
        /\ i - Len(is) + 1 <= j - Len(is) + 1
    BY <1>6, <1>7, <1>14, <2>1
  <2>3. Turns(work[i - Len(is) + 1]) /\ work'[j] = work[j - Len(is) + 1]
    BY <1>7, <1>14, <2>2
  <2>. QED BY <2>2, <2>3 DEF DeclInv
<1>15. RoutinesLeft'
  <2>1. RoutinesLeft /\ Now.op # "FN_START" /\ \A x \in S : x.op # "FN_START"
    BY <1>1, <1>8 DEF DeclInv, Turns
  <2>2. \A i \in Len(code) + 1..Len(code') : code'[i].op # "FN_START"
    BY <1>2, <1>4
  <2>3. Started' = Started
    BY <1>1, <1>4, <1>5, <2>1, <2>2, StartedSame
  <2>. QED BY <1>1, <1>8, <2>1, <2>3, LeftStep
<1>. QED BY <1>9, <1>10, <1>11, <1>12, <1>13, <1>14, <1>15 DEF DeclInv, s

-----------------------------------------------------------------------------
(* What a step within a routine finds, and what it may add                 *)

LEMMA Inside ==
  ASSUME WorkInv, DeclInv, NEW f, At(f), f # "gen_pf_dec_list",
         f = "emit1" => Now.op # "FN_START"
  PROVE  /\ Within /\ work # <<>> /\ Good(syms, Here, Now) /\ KnownValues(syms, Here, vals)
<1>1. PICK a \in Place, b \in Place : Standing(a, vals, code) /\ Goes(Now, a, b)
  BY AtEntry
<1>2. Now.do = f /\ Fits(syms, Now) /\ Lines(syms, code) /\ work # <<>>
  BY AtEntry DEF At
<1>3. a.body
  BY <1>1, <1>2 DEF Goes
<1>4. Begun(code)
  BY <1>1, <1>3 DEF Standing
<1>5. Here \in Routine /\ InRoutine(code, Len(code), Here)
  BY <1>2, <1>4, HereInside
<1>6. ~Turns(Now)
  <2>1. Now.op = "FN_START" => f = "emit1"
    <3>1. Now.do \in Tasks /\ Now.op \in TaskOp(Now.do)
      BY <1>2 DEF Fits, Item
    <3>2. \A g \in Tasks : g # "emit1" => "FN_START" \notin TaskOp(g)
      BY DEF TaskOp, Tasks, Plain, Branches, Calculate, Parameter
    <3>. QED BY <1>2, <3>1, <3>2
  <2>. QED BY <1>2, <2>1 DEF Turns
<1>7. 1 \in 1..Len(work) /\ Now = work[1]
  BY <1>2, WorkType DEF Now
<1>8. Good(syms, Here, Now)
  BY <1>5, <1>7 DEF DeclInv
<1>9. KnownValues(syms, Here, vals)
  BY <1>5 DEF DeclInv, KnownValues
<1>. QED BY <1>2, <1>5, <1>6, <1>8, <1>9 DEF Within

\* Identifiers: those of the tables around the routine.
LEMMA SidsKnown ==
  ASSUME NEW s, Table(s), NEW cates,
         cates \subseteq Variables \cup {"ARRAY", "CONSTANT", "PROC", "FUNCTION"},
         NEW e \in Sids(cates)
  PROVE  Known(s, Here, e)
<1>1. /\ e \in DOMAIN s /\ e \in DOMAIN Declared /\ Declared[e].cate \in cates
      /\ s[e].cate = Declared[e].cate
  BY SidsDeclared DEF Table
<1>2. PICK q \in Enclosing[Here] : e \in InTable(q, cates)
  BY DEF Sids
<1>3. CASE Declared[e].cate \in {"PROC", "FUNCTION"}
  BY <1>1, <1>3 DEF Known, Routine
<1>4. CASE Declared[e].cate = "CONSTANT"
  BY <1>1, <1>4 DEF Known
<1>5. CASE Declared[e].cate \in Variables \cup {"ARRAY"}
  <2>1. e \in InTable(q, Variables \cup {"ARRAY"})
    BY <1>2, <1>5 DEF InTable
  <2>. QED BY <1>1, <2>1 DEF Known
<1>. QED BY <1>1, <1>3, <1>4, <1>5

\* Allocated symbols: those of the routine's own table.
LEMMA NewKnown ==
  ASSUME Table(syms), Here \in Routine, NEW cate \in Value_cates \cup {"LABEL", "STRING"},
         NEW type \in {"VOID", "INT", "UINT", "CHAR", "LITERAL", "STRING"},
         NEW initval \in {"0", "written"}, syms' = New(cate, type, initval)
  PROVE  /\ Extends(syms', syms) /\ NewSid \in DOMAIN syms' /\ syms'[NewSid].cate = cate
         /\ cate \in {"TEMP", "STRING", "NUMBER"} => Known(syms', Here, NewSid)
<1>. DEFINE x == Symbol(cate, type, Here, initval)
<1>1. x \in Sym /\ x.cate = cate /\ x.stab = Here
  BY DEF Symbol, Sym
<1>2. syms' = Append(syms, x)
  BY DEF New
<1>. HIDE DEF x
<1>3. Extends(syms', syms) /\ NewSid \in DOMAIN syms' /\ syms'[NewSid] = x
  BY <1>1, <1>2, SymsAppend DEF NewSid
<1>. QED BY <1>1, <1>3 DEF Known

LEMMA NoneKnown == \A s, p : Known(s, p, NULL)
BY DEF Known

\* Entries that may be added.
Fine(s, p, x) == Good(s, p, x) /\ ~Turns(x)

LEMMA FinePlain ==
  ASSUME NEW s, NEW p, NEW f, f # "gen_pf_dec_list"
  PROVE  Fine(s, p, Gen(f)) /\ \A q : Fine(s, p, Expr(f, q))
<1>1. Known(s, p, NULL) /\ "" \notin {"FN_START", "FN_END", "WRITE_STRING"}
  BY NoneKnown
<1>. QED BY <1>1 DEF Fine, Good, Turns, Gen, Expr, Do

LEMMA FineEmit ==
  ASSUME NEW s, NEW p, NEW op, op \notin {"FN_START", "FN_END"}, NEW d,
         op \in {"JUMP", "LABEL"} \/ Known(s, p, d),
         op = "WRITE_STRING" => d \in DOMAIN s /\ s[d].cate = "STRING"
  PROVE  Fine(s, p, Emit(op, d))
<1>1. Known(s, p, NULL)
  BY NoneKnown
<1>. QED BY <1>1 DEF Fine, Good, Turns, Emit, Do

LEMMA FineThen ==
  ASSUME NEW s, NEW p, NEW f, f # "gen_pf_dec_list",
         NEW op, op \notin {"FN_START", "FN_END", "WRITE_STRING"},
         NEW d, op \in Branches \/ Known(s, p, d), NEW r, Known(s, p, r)
  PROVE  Fine(s, p, Then(f, op, d, r))
BY DEF Fine, Good, Turns, Then, Do

LEMMA EntriesOf ==
  ASSUME NEW s, NEW p, NEW S, NEW is, is \in Seq(S), \A x \in S : Fine(s, p, x)
  PROVE  Entries(s, p, is)
BY DEF Entries, Fine

LEMMA EntriesNone == \A s, p : Entries(s, p, <<>>)
<1>. SUFFICES ASSUME NEW s, NEW p PROVE Entries(s, p, <<>>)
  OBVIOUS
<1>. DEFINE S == {}
<1>1. <<>> \in Seq(S) /\ \A x \in S : Fine(s, p, x)
  OBVIOUS
<1>. HIDE DEF S
<1>. QED BY <1>1, EntriesOf

LEMMA EntriesOne ==
  ASSUME NEW s, NEW p, NEW u, Fine(s, p, u)
  PROVE  Entries(s, p, <<u>>)
<1>. DEFINE S == {u}
<1>1. <<u>> \in Seq(S) /\ \A x \in S : Fine(s, p, x)
  OBVIOUS
<1>. HIDE DEF S
<1>. QED BY <1>1, EntriesOf

LEMMA EntriesTwo ==
  ASSUME NEW s, NEW p, NEW u, Fine(s, p, u), NEW v, Fine(s, p, v)
  PROVE  Entries(s, p, <<u, v>>)
<1>. DEFINE S == {u, v}
<1>1. <<u, v>> \in Seq(S) /\ \A x \in S : Fine(s, p, x)
  OBVIOUS
<1>. HIDE DEF S
<1>. QED BY <1>1, EntriesOf

LEMMA EntriesThree ==
  ASSUME NEW s, NEW p, NEW u, Fine(s, p, u), NEW v, Fine(s, p, v), NEW w, Fine(s, p, w)
  PROVE  Entries(s, p, <<u, v, w>>)
<1>. DEFINE S == {u, v, w}
<1>1. <<u, v, w>> \in Seq(S) /\ \A x \in S : Fine(s, p, x)
  OBVIOUS
<1>. HIDE DEF S
<1>. QED BY <1>1, EntriesOf

LEMMA EntriesJoin ==
  ASSUME NEW s, NEW p, NEW u, NEW v, Entries(s, p, u), Entries(s, p, v)
  PROVE  Entries(s, p, u \o v)
<1>1. PICK S : u \in Seq(S) /\ \A x \in S : Fine(s, p, x)
  BY DEF Entries, Fine
<1>2. PICK R : v \in Seq(R) /\ \A x \in R : Fine(s, p, x)
  BY DEF Entries, Fine
<1>3. u \in Seq(S \cup R) /\ v \in Seq(S \cup R)
  BY <1>1, <1>2
<1>4. u \o v \in Seq(S \cup R) /\ \A x \in S \cup R : Fine(s, p, x)
  BY <1>1, <1>2, <1>3, ConcatProperties
<1>. QED BY <1>4, EntriesOf

LEMMA LinesNone == \A s, p : CodeLines(s, p, <<>>)
<1>. SUFFICES ASSUME NEW s, NEW p PROVE CodeLines(s, p, <<>>)
  OBVIOUS
<1>. DEFINE S == {}
<1>1. <<>> \in Seq(S) /\ \A x \in S : Formed(s, p, x) /\ x.op # "FN_START"
  OBVIOUS
<1>. HIDE DEF S
<1>. QED BY <1>1 DEF CodeLines

LEMMA LinesOne ==
  ASSUME NEW s, NEW p, NEW u, Formed(s, p, u), u.op # "FN_START"
  PROVE  CodeLines(s, p, <<u>>)
<1>. DEFINE S == {u}
<1>1. <<u>> \in Seq(S) /\ \A x \in S : Formed(s, p, x) /\ x.op # "FN_START"
  OBVIOUS
<1>. HIDE DEF S
<1>. QED BY <1>1 DEF CodeLines

\* Operands go to their instruction.
LEMMA FormedInst ==
  ASSUME NEW s, NEW p, NEW op, NEW d, NEW r, NEW t, Known(s, p, r), Known(s, p, t),
         op \in Branches \cup {"JUMP", "LABEL"} \/ Known(s, p, d),
         op = "WRITE_STRING" => d \in DOMAIN s /\ s[d].cate = "STRING",
         op \notin ThreeOperands => t = NULL,
         op \notin ThreeOperands \cup {"STORE_VAR", "NEG", "CALL", "PUSH_ADDR"} => r = NULL,
         op = "CALL" => r \in Routine, op \in {"FN_START", "FN_END"} => d \in Routine
  PROVE  Formed(s, p, Inst(op, d, r, t)) /\ Inst(op, d, r, t).op = op
BY DEF Formed, Inst

\* What is returned.
LEMMA ReturnKnown ==
  ASSUME Values(syms, vals), NEW n \in 0..Len(vals), NEW s, NEW p, KnownValues(s, p, vals),
         \/ Returns(n, <<>>)
         \/ \E d : Returns(n, <<d>>) /\ Known(s, p, d)
  PROVE  KnownValues(s, p, vals')
<1>1. /\ Len(vals) \in Nat /\ Kept(n) \in Seq(Nat) /\ Len(Kept(n)) = Len(vals) - n
      /\ \A i \in 1..Len(Kept(n)) : Kept(n)[i] = vals[i]
  BY KeptFacts
<1>2. \A i \in 1..Len(Kept(n)) : Known(s, p, Kept(n)[i])
  BY <1>1 DEF KnownValues
<1>3. CASE Returns(n, <<>>)
  <2>1. vals' = Kept(n) \o <<>>
    BY <1>3 DEF Returns, Kept
  <2>2. vals' = Kept(n)
    BY <1>1, <2>1, ConcatEmptySeq
  <2>. QED BY <1>2, <2>2 DEF KnownValues
<1>4. ASSUME NEW d, Returns(n, <<d>>), Known(s, p, d) PROVE KnownValues(s, p, vals')
  <2>1. /\ Len(vals') = Len(Kept(n)) + 1 /\ vals'[Len(vals')] = d
        /\ \A i \in 1..Len(Kept(n)) : vals'[i] = Kept(n)[i]
    BY <1>4, KeptMore
  <2>. QED BY <1>1, <1>2, <1>4, <2>1 DEF KnownValues
<1>. QED BY <1>3, <1>4

LEMMA KnownLater ==
  ASSUME NEW s, NEW s2, Extends(s2, s), NEW p, NEW v, KnownValues(s, p, v)
  PROVE  KnownValues(s2, p, v)
BY KnownMore DEF KnownValues

\* A step that adds entries of work, and one that adds an instruction.
LEMMA DeclWalk ==
  ASSUME WorkInv, DeclInv, NEW f, At(f), f \notin {"gen_pf_dec_list", "emit1"},
         UNCHANGED <<vals, code>>, Extends(syms', syms),
         NEW is, Entries(syms', Here, is), Walk(is)
  PROVE  DeclInv'
<1>1. Within /\ work # <<>> /\ KnownValues(syms, Here, vals)
  BY Inside
<1>2. KnownValues(syms', Here, vals')
  BY <1>1, KnownLater
<1>3. code' = code \o <<>>
  BY ConcatEmptySeq DEF WorkInv, Lines
<1>. QED BY <1>1, <1>2, <1>3, LinesNone, DeclStep

LEMMA DeclEmit ==
  ASSUME WorkInv, DeclInv, NEW f, At(f), f # "gen_pf_dec_list", Walk(<<>>),
         f = "emit1" => Now.op # "FN_START", Extends(syms', syms),
         NEW x, Formed(syms', Here, x), x.op # "FN_START", code' = Append(code, x),
         NEW n \in 0..Len(vals),
         \/ Returns(n, <<>>)
         \/ \E d : Returns(n, <<d>>) /\ Known(syms', Here, d)
  PROVE  DeclInv'
<1>1. Within /\ work # <<>> /\ KnownValues(syms, Here, vals)
  BY Inside
<1>2. KnownValues(syms', Here, vals)
  BY <1>1, KnownLater
<1>3. Values(syms, vals) /\ code \in Seq(Line)
  BY DEF WorkInv, Lines
<1>4. KnownValues(syms', Here, vals')
  BY <1>2, <1>3, ReturnKnown
<1>5. code' = code \o <<x>>
  <2>1. code \in Seq(Line \cup {x})
    BY <1>3
  <2>. QED BY <2>1
<1>6. CodeLines(syms', Here, <<x>>)
  BY LinesOne
<1>. QED BY <1>1, <1>4, <1>5, <1>6, EntriesNone, DeclStep

-----------------------------------------------------------------------------
(* The actions                                                             *)

LEMMA DeclStatement ==
  ASSUME WorkInv, DeclInv,
         null_stmt \/ gen_comp_stmt \/ gen_assign_stmt \/ gen_for_stmt \/ gen_read_stmt
  PROVE  DeclInv'
<1>. DEFINE p == Here
            s == syms'
<1>0. UNCHANGED <<vals, code, syms>> /\ Extends(s, syms)
  <2>1. UNCHANGED <<vals, code, syms>>
    BY DEF null_stmt, gen_comp_stmt, gen_assign_stmt, gen_for_stmt, gen_read_stmt
  <2>. QED BY <2>1, SymsKept
<1>1. \A d \in Sids(Variables \cup {"FUNCTION"}) : Known(s, p, d)
  <2>1. Variables \cup {"FUNCTION"} \subseteq Variables \cup {"ARRAY", "CONSTANT", "PROC",
                                                              "FUNCTION"}
    OBVIOUS
  <2>. QED BY <1>0, <2>1, SidsKnown DEF Extends
<1>2. \A d \in Sids({"ARRAY"}) : Known(s, p, d)
  BY <1>0, SidsKnown DEF Extends
<1>3. \A d \in Sids(Variables) : Known(s, p, d)
  <2>1. Variables \subseteq Variables \cup {"ARRAY", "CONSTANT", "PROC", "FUNCTION"}
    OBVIOUS
  <2>. QED BY <1>0, <2>1, SidsKnown DEF Extends
<1>4. Known(s, p, NULL)
  BY NoneKnown
<1>. HIDE DEF s, p
<1>5. CASE null_stmt
  BY <1>0, <1>5, EntriesNone, DeclWalk DEF null_stmt, s, p
<1>6. CASE gen_comp_stmt
  <2>1. /\ Entries(s, p, <<Gen("gen_stmt")>>)
        /\ Entries(s, p, <<Gen("gen_stmt"), Gen("gen_comp_stmt")>>)
    BY FinePlain, EntriesOne, EntriesTwo
  <2>. QED BY <1>0, <1>6, <2>1, DeclWalk DEF gen_comp_stmt, s, p
<1>7. CASE gen_assign_stmt
  <2>1. \A d : Known(s, p, d) =>
          /\ Entries(s, p, <<Gen("gen_expr"), Then("store_var", "STORE_VAR", d, NULL)>>)
          /\ Entries(s, p, <<Gen("gen_expr"), Gen("gen_expr"),
                             Then("store_array", "STORE_ARRAY", d, NULL)>>)
    BY <1>4, FinePlain, FineThen, EntriesTwo, EntriesThree
  <2>. QED BY <1>0, <1>1, <1>2, <1>7, <2>1, DeclWalk DEF gen_assign_stmt, s, p
<1>8. CASE gen_for_stmt
  <2>1. \A d : \A step \in {"INC", "DEC"} : Known(s, p, d) =>
          Entries(s, p, <<Gen("gen_expr"), Gen("gen_expr"), Then("for", step, d, NULL)>>)
    BY <1>4, FinePlain, FineThen, EntriesThree
  <2>. QED BY <1>0, <1>3, <1>8, <2>1, DeclWalk DEF gen_for_stmt, s, p
<1>9. CASE gen_read_stmt
  <2>1. PICK d \in Sids(Variables) : Walk(<<Emit(READ_OP[Declared[d].type], d)>>)
    BY <1>9 DEF gen_read_stmt
  <2>2. READ_OP[Declared[d].type] \in {"READ_INT", "READ_UINT", "READ_CHAR"}
    <3>1. Table(syms)
      BY DEF WorkInv
    <3>2. "PROC" \notin Variables
      BY DEF Variables, Parameter
    <3>3. Declared[d].type \in {"INT", "UINT", "CHAR"}
      BY <3>1, <3>2, SidsDeclared
    <3>. QED BY <3>3 DEF READ_OP
  <2>. DEFINE op == READ_OP[Declared[d].type]
  <2>3. op \in {"READ_INT", "READ_UINT", "READ_CHAR"} /\ Walk(<<Emit(op, d)>>)
    BY <2>1, <2>2
  <2>. HIDE DEF op
  <2>4. Entries(s, p, <<Emit(op, d)>>)
    BY <1>3, <2>3, FineEmit, EntriesOne
  <2>. QED BY <1>0, <1>9, <2>3, <2>4, DeclWalk DEF gen_read_stmt, s, p
<1>. QED BY <1>5, <1>6, <1>7, <1>8, <1>9

LEMMA DeclExpression ==
  ASSUME WorkInv, DeclInv,
         gen_expr \/ terms \/ gen_term \/ factors \/ array_factor \/ expr_factor
  PROVE  DeclInv'
<1>. DEFINE p == Here
            s == syms'
<1>0. UNCHANGED <<vals, code, syms>> /\ Extends(s, syms)
  <2>1. UNCHANGED <<vals, code, syms>>
    BY DEF gen_expr, terms, gen_term, factors, array_factor, expr_factor
  <2>. QED BY <2>1, SymsKept
<1>1. Known(s, p, NULL) /\ \A r \in Sids({"ARRAY"}) : Known(s, p, r)
  BY <1>0, NoneKnown, SidsKnown DEF Extends
<1>2. ASSUME NEW f \in {"terms", "factors"}, At(f) PROVE Fine(s, p, Now)
  <2>1. Within /\ Good(syms, p, Now)
    BY <1>2, Inside
  <2>. QED BY <1>0, <2>1 DEF Within, Fine
<1>3. \A f \in {"sign", "binary"}, op \in {"NEG", "ADD", "SUB", "MUL", "DIV"} :
        Fine(s, p, Then(f, op, NULL, NULL))
  BY <1>1, FineThen
<1>. HIDE DEF s, p
<1>4. CASE gen_expr
  <2>1. \A q : /\ Entries(s, p, <<Expr("gen_term", q), Expr("terms", q)>>)
               /\ \A op \in {"NEG", "ADD"} :
                    Entries(s, p, <<Expr("gen_term", q), Then("sign", op, NULL, NULL),
                                    Expr("terms", q)>>)
    BY <1>3, FinePlain, EntriesTwo, EntriesThree
  <2>. QED BY <1>0, <1>4, <2>1, DeclWalk DEF gen_expr, s, p
<1>5. CASE terms
  <2>1. \A q : \A op \in {"ADD", "SUB"} :
          Entries(s, p, <<Expr("gen_term", q), Then("binary", op, NULL, NULL), Now>>)
    BY <1>2, <1>3, <1>5, FinePlain, EntriesThree DEF terms
  <2>. QED BY <1>0, <1>5, <2>1, EntriesNone, DeclWalk DEF terms, s, p
<1>6. CASE gen_term
  <2>1. \A q : Entries(s, p, <<Expr("gen_factor", q), Expr("factors", q)>>)
    BY FinePlain, EntriesTwo
  <2>. QED BY <1>0, <1>6, <2>1, DeclWalk DEF gen_term, s, p
<1>7. CASE factors
  <2>1. \A q : \A op \in {"MUL", "DIV"} :
          Entries(s, p, <<Expr("gen_factor", q), Then("binary", op, NULL, NULL), Now>>)
    BY <1>2, <1>3, <1>7, FinePlain, EntriesThree DEF factors
  <2>. QED BY <1>0, <1>7, <2>1, EntriesNone, DeclWalk DEF factors, s, p
<1>8. CASE array_factor
  <2>1. \A r \in Sids({"ARRAY"}) :
          Entries(s, p, <<Gen("gen_expr"), Then("load_array", "LOAD_ARRAY", NULL, r)>>)
    BY <1>1, FinePlain, FineThen, EntriesTwo
  <2>. QED BY <1>0, <1>8, <2>1, DeclWalk DEF array_factor, s, p
<1>9. CASE expr_factor
  <2>1. \A q : Entries(s, p, <<Expr("gen_expr", q)>>)
    BY FinePlain, EntriesOne
  <2>. QED BY <1>0, <1>9, <2>1, DeclWalk DEF expr_factor, s, p
<1>. QED BY <1>4, <1>5, <1>6, <1>7, <1>8, <1>9

LEMMA DeclWrite ==
  ASSUME WorkInv, DeclInv, gen_write_stmt
  PROVE  DeclInv'
<1>. DEFINE p == Here
            s == syms'
<1>1. At("gen_stmt") /\ UNCHANGED <<vals, code>> /\ Here \in Routine /\ Table(syms)
  BY AtStatement DEF gen_write_stmt
<1>2. Known(s, p, NULL)
  BY NoneKnown
<1>3. \A op \in {"ID_WRITE", "STRID_WRITE"} : Fine(s, p, Then("write", op, NULL, NULL))
  BY <1>2, FineThen
<1>4. CASE /\ Walk(<<Gen("gen_expr"), Then("write", "ID_WRITE", NULL, NULL)>>)
           /\ UNCHANGED syms
  <2>1. Extends(s, syms)
    BY <1>4, SymsKept
  <2>2. Entries(s, p, <<Gen("gen_expr"), Then("write", "ID_WRITE", NULL, NULL)>>)
    BY <1>3, FinePlain, EntriesTwo
  <2>. QED BY <1>1, <1>4, <2>1, <2>2, DeclWalk
<1>5. CASE /\ s = symalloc("STRING", "STRING")
           /\ \/ Walk(<<Emit("WRITE_STRING", NewSid)>>)
              \/ Walk(<<Emit("WRITE_STRING", NewSid), Gen("gen_expr"),
                        Then("write", "STRID_WRITE", NULL, NULL)>>)
  <2>0. "STRING" \in Value_cates \cup {"LABEL", "STRING"}
    OBVIOUS
  <2>1. /\ Extends(s, syms) /\ NewSid \in DOMAIN s /\ s[NewSid].cate = "STRING"
        /\ Known(s, p, NewSid)
    BY <1>1, <1>5, <2>0, NewKnown DEF symalloc
  <2>2. Fine(s, p, Emit("WRITE_STRING", NewSid))
    BY <2>1, FineEmit
  <2>3. /\ Entries(s, p, <<Emit("WRITE_STRING", NewSid)>>)
        /\ Entries(s, p, <<Emit("WRITE_STRING", NewSid), Gen("gen_expr"),
                           Then("write", "STRID_WRITE", NULL, NULL)>>)
    BY <1>3, <2>2, FinePlain, EntriesOne, EntriesThree
  <2>. QED BY <1>1, <1>5, <2>1, <2>3, DeclWalk
<1>. QED BY <1>4, <1>5 DEF gen_write_stmt

LEMMA EntriesCond ==
  ASSUME NEW s, NEW p, NEW label, NEW cond \in gen_cond(label)
  PROVE  Entries(s, p, cond)
<1>1. PICK op \in Relations :
        cond = <<Gen("gen_expr"), Gen("gen_expr"), Then("branch", op, label, NULL)>>
  BY DEF gen_cond
<1>2. op \in Branches /\ Known(s, p, NULL) /\ op \notin {"FN_START", "FN_END", "WRITE_STRING"}
  BY ConstAssumption, NoneKnown DEF Branches
<1>3. Fine(s, p, Then("branch", op, label, NULL))
  BY <1>2, FineThen
<1>. QED BY <1>1, <1>3, FinePlain, EntriesThree

LEMMA DeclBranching ==
  ASSUME WorkInv, DeclInv, gen_if_stmt \/ gen_repe_stmt
  PROVE  DeclInv'
<1>. DEFINE p == Here
            s == syms'
            x == NewSid
            y == NewSid + 1
<1>1. /\ At("gen_stmt") /\ UNCHANGED <<vals, code>> /\ Here \in Routine /\ Table(syms)
      /\ s = TwoLabels
  BY AtStatement DEF gen_if_stmt, gen_repe_stmt
<1>2. Extends(s, syms)
  BY <1>1, LabelsNew
<1>. HIDE DEF s, p
<1>4. /\ \A d : \A op \in {"JUMP", "LABEL"} : Fine(s, p, Emit(op, d))
      /\ Fine(s, p, Gen("gen_stmt"))
  BY FinePlain, FineEmit
<1>5. CASE gen_if_stmt
  <2>1. PICK cond \in gen_cond(x), else \in {<<>>, <<Gen("gen_stmt")>>} :
          Walk(cond \o else \o <<Emit("JUMP", y), Emit("LABEL", x),
                                 Gen("gen_stmt"), Emit("LABEL", y)>>)
    BY <1>5 DEF gen_if_stmt
  <2>2. Entries(s, p, cond) /\ Entries(s, p, else)
    BY <1>4, EntriesCond, EntriesNone, EntriesOne
  <2>. DEFINE l == <<Emit("JUMP", y), Emit("LABEL", x), Gen("gen_stmt"), Emit("LABEL", y)>>
              S == {Emit("JUMP", y), Emit("LABEL", x), Gen("gen_stmt"), Emit("LABEL", y)}
  <2>3. l \in Seq(S) /\ \A z \in S : Fine(s, p, z)
    BY <1>4
  <2>4. Walk(cond \o else \o l)
    BY <2>1
  <2>. HIDE DEF S, l, x, y
  <2>5. Entries(s, p, l)
    BY <2>3, EntriesOf
  <2>6. Entries(s, p, cond \o else \o l)
    BY <2>2, <2>5, EntriesJoin
  <2>. QED BY <1>1, <1>2, <2>4, <2>6, DeclWalk DEF s, p
<1>6. CASE gen_repe_stmt
  <2>1. PICK cond \in gen_cond(y) :
          Walk(<<Emit("LABEL", x), Gen("gen_stmt")>> \o cond \o
                 <<Emit("JUMP", x), Emit("LABEL", y)>>)
    BY <1>6 DEF gen_repe_stmt
  <2>. DEFINE k == <<Emit("LABEL", x), Gen("gen_stmt")>>
              l == <<Emit("JUMP", x), Emit("LABEL", y)>>
  <2>2. Entries(s, p, cond) /\ Entries(s, p, k) /\ Entries(s, p, l)
    BY <1>4, EntriesCond, EntriesTwo
  <2>3. Walk(k \o cond \o l)
    BY <2>1
  <2>. HIDE DEF k, l, x, y
  <2>4. Entries(s, p, k \o cond \o l)
    BY <2>2, EntriesJoin
  <2>. QED BY <1>1, <1>2, <2>3, <2>4, DeclWalk DEF s, p
<1>. QED BY <1>5, <1>6

LEMMA DeclArg ==
  ASSUME WorkInv, DeclInv, gen_arg
  PROVE  DeclInv'
<1>. DEFINE p == Here
            s == syms'
<1>1. At("gen_arg") /\ UNCHANGED <<vals, code, syms>>
  BY DEF gen_arg
<1>2. Extends(s, syms)
  BY <1>1, SymsKept
<1>3. /\ Known(s, p, NULL) /\ \A d \in Sids({"ARRAY"}) : Known(s, p, d)
      /\ \A d \in Sids({"VARIABLE"}) : Known(s, p, d)
  BY <1>2, NoneKnown, SidsKnown DEF Extends, Variables
<1>4. Now.op \in Parameter
  <2>1. Fits(syms, Now) /\ Now.do = "gen_arg"
    BY <1>1, AtEntry
  <2>. QED BY <2>1, TaskOps DEF Fits
<1>. HIDE DEF s, p
<1>5. /\ Entries(s, p, <<Expr("gen_expr", TRUE), Then("push", "PUSH_VAL", NULL, NULL)>>)
      /\ \A d : Known(s, p, d) =>
           /\ Entries(s, p, <<Emit("PUSH_ADDR", d)>>)
           /\ Entries(s, p, <<Gen("gen_expr"), Then("push", "PUSH_ADDR", d, NULL)>>)
  BY <1>3, FinePlain, FineEmit, FineThen, EntriesOne, EntriesTwo
<1>6. CASE Now.op = "BY_VALUE"
  <2>1. Walk(<<Expr("gen_expr", TRUE), Then("push", "PUSH_VAL", NULL, NULL)>>)
    BY <1>6 DEF gen_arg
  <2>. QED BY <1>1, <1>2, <1>5, <2>1, DeclWalk DEF s, p
<1>7. CASE Now.op = "BY_REFERENCE"
  <2>1. \/ \E d \in Sids({"VARIABLE"}) : Walk(<<Emit("PUSH_ADDR", d)>>)
        \/ \E d \in Sids({"ARRAY"}) :
             Walk(<<Gen("gen_expr"), Then("push", "PUSH_ADDR", d, NULL)>>)
    BY <1>7 DEF gen_arg
  <2>. QED BY <1>1, <1>2, <1>3, <1>5, <2>1, DeclWalk DEF s, p
<1>. QED BY <1>4, <1>6, <1>7 DEF Parameter

\* The calls: their arguments, and the symbol of the result.
LEMMA EntriesArgs ==
  ASSUME NEW s, NEW p, NEW e \in Routine
  PROVE  Entries(s, p, gen_arg_list(e))
<1>. DEFINE S == {Do("gen_arg", op, NULL, NULL, TRUE) : op \in Parameter}
            l == [i \in DOMAIN Params[e] |-> Do("gen_arg", Params[e][i], NULL, NULL, TRUE)]
<1>1. Params[e] \in Seq(Parameter)
  BY ParamsType
<1>2. /\ DOMAIN Params[e] = 1..Len(Params[e]) /\ Len(Params[e]) \in Nat
      /\ \A i \in DOMAIN Params[e] : Params[e][i] \in Parameter
  BY <1>1, ElementOfSeq
<1>3. l \in Seq(S) /\ DOMAIN l = 1..Len(l) /\ Len(l) \in Nat
  <2>1. \A i \in 1..Len(Params[e]) : l[i] \in S
    BY <1>2
  <2>. HIDE DEF S
  <2>2. l \in [1..Len(Params[e]) -> S]
    BY <1>2, <2>1
  <2>. HIDE DEF l
  <2>. QED BY <1>2, <2>2
<1>4. \A x \in S : Fine(s, p, x)
  <2>1. \A op \in Parameter : Fine(s, p, Do("gen_arg", op, NULL, NULL, TRUE))
    BY NoneKnown DEF Fine, Good, Turns, Do, Parameter
  <2>. QED BY <2>1
<1>. HIDE DEF S, l
<1>5. Reverse(l) \in Seq(S)
  BY <1>3 DEF Reverse
<1>. QED BY <1>4, <1>5, EntriesOf DEF gen_arg_list, l

LEMMA DeclCalls ==
  ASSUME WorkInv, DeclInv, gen_pcall_stmt \/ gen_fcall_stmt
  PROVE  DeclInv'
<1>. DEFINE p == Here
            s == syms'
<1>1. CASE gen_pcall_stmt
  <2>1. At("gen_stmt") /\ UNCHANGED <<vals, code, syms>>
    BY <1>1 DEF gen_pcall_stmt
  <2>2. PICK e \in Sids({"PROC"}) : Walk(gen_arg_list(e) \o <<Then("call", "CALL", NULL, e)>>)
    BY <1>1 DEF gen_pcall_stmt
  <2>3. Extends(s, syms) /\ e \in Routine
    BY <2>1, SymsKept DEF Sids, InTable, Routine
  <2>4. Known(s, p, NULL) /\ Known(s, p, e)
    BY <2>3, NoneKnown, SidsKnown DEF Extends
  <2>5. Fine(s, p, Then("call", "CALL", NULL, e))
    BY <2>4, FineThen
  <2>. HIDE DEF s, p
  <2>6. Entries(s, p, gen_arg_list(e) \o <<Then("call", "CALL", NULL, e)>>)
    BY <2>3, <2>5, EntriesArgs, EntriesOne, EntriesJoin
  <2>. QED BY <2>1, <2>2, <2>3, <2>6, DeclWalk DEF s, p
<1>2. CASE gen_fcall_stmt
  <2>1. At("gen_factor") /\ UNCHANGED <<vals, code>> /\ Here \in Routine /\ Table(syms)
    <3>1. At("gen_factor") /\ UNCHANGED <<vals, code>>
      BY <1>2 DEF gen_fcall_stmt
    <3>. QED BY <3>1, AtExpression
  <2>2. PICK e \in Sids({"FUNCTION"}) :
          /\ s = symalloc("TEMP", syms[e].type)
          /\ Walk(gen_arg_list(e) \o <<Then("call", "CALL", NewSid, e)>>)
    BY <1>2 DEF gen_fcall_stmt
  <2>3. e \in Routine /\ syms[e].type \in {"VOID", "INT", "UINT", "CHAR", "LITERAL", "STRING"}
    <3>1. /\ e \in DOMAIN Declared /\ Declared[e].cate \in {"FUNCTION"}
          /\ syms[e].type \in {"VOID", "INT", "UINT", "CHAR"}
      BY <2>1, SidsDeclared
    <3>. QED BY <3>1 DEF Routine
  <2>4. "TEMP" \in Value_cates \cup {"LABEL", "STRING"}
    BY DEF Value_cates
  <2>5. Extends(s, syms) /\ Known(s, p, NewSid)
    BY <2>1, <2>2, <2>3, <2>4, NewKnown DEF symalloc
  <2>6. Known(s, p, e)
    BY <2>5, SidsKnown DEF Extends
  <2>7. Fine(s, p, Then("call", "CALL", NewSid, e))
    BY <2>5, <2>6, FineThen
  <2>. HIDE DEF s, p
  <2>8. Entries(s, p, gen_arg_list(e) \o <<Then("call", "CALL", NewSid, e)>>)
    BY <2>3, <2>7, EntriesArgs, EntriesOne, EntriesJoin
  <2>. QED BY <2>1, <2>2, <2>5, <2>8, DeclWalk DEF s, p
<1>. QED BY <1>1, <1>2

-----------------------------------------------------------------------------
(* Instructions                                                            *)

\* What the entry in front is to do.
LEMMA NowOp ==
  ASSUME WorkInv, NEW f, At(f)
  PROVE  /\ f = "store_var" => Now.op = "STORE_VAR"
         /\ f = "store_array" => Now.op = "STORE_ARRAY"
         /\ f = "branch" => Now.op \in Branches
         /\ f = "push" => Now.op \in {"PUSH_VAL", "PUSH_ADDR"}
         /\ f = "for" => Now.op \in {"INC", "DEC"}
         /\ f = "binary" => Now.op \in Calculate
         /\ f = "load_array" => Now.op = "LOAD_ARRAY"
         /\ f = "sign" => Now.op \in {"NEG", "ADD"}
         /\ f = "emit1" => Now.op \in Emitted
<1>1. Now.op \in TaskOp(f)
  BY AtEntry DEF Fits
<1>. QED BY <1>1, TaskOps

\* The operands there are.
LEMMA ValuesKnown ==
  ASSUME WorkInv, DeclInv, NEW f, At(f), f \notin {"gen_pf_dec_list", "emit1"},
         Extends(syms', syms)
  PROVE  /\ \A i \in 1..Len(vals) : Known(syms', Here, Value(i))
         /\ Known(syms', Here, Now.r) /\ Known(syms', Here, NULL)
         /\ Now.op \in Branches \/ Known(syms', Here, Now.d)
<1>1. KnownValues(syms, Here, vals) /\ Good(syms, Here, Now)
  BY Inside
<1>2. Len(vals) \in Nat
  BY ValuesThere
<1>3. \A i \in 1..Len(vals) : Known(syms, Here, Value(i))
  BY <1>1, <1>2 DEF KnownValues, Value
<1>4. Now.op \notin {"JUMP", "LABEL"}
  <2>1. Now.do \in Tasks /\ Now.op \in TaskOp(Now.do) /\ Now.do = f
    BY AtEntry DEF Fits, Item
  <2>2. \A g \in Tasks : g # "emit1" => TaskOp(g) \cap {"JUMP", "LABEL"} = {}
    BY DEF TaskOp, Tasks, Plain, Branches, Calculate, Parameter
  <2>. QED BY <2>1, <2>2
<1>. QED BY <1>1, <1>3, <1>4, KnownMore, NoneKnown DEF Good

LEMMA DeclEmit1 ==
  ASSUME WorkInv, DeclInv, emit1, Now.op # "FN_START"
  PROVE  DeclInv'
<1>1. /\ At("emit1") /\ UNCHANGED <<vals, syms>> /\ Walk(<<>>)
      /\ code' = Append(code, Inst(Now.op, Now.d, NULL, NULL))
  BY DEF emit1
<1>2. 0 \in 0..Len(vals) /\ Returns(0, <<>>) /\ Extends(syms', syms)
  BY <1>1, ValuesThere, ReturnsSame, SymsKept
<1>3. Now.op \in Emitted
  <2>1. Fits(syms, Now) /\ Now.do = "emit1"
    BY <1>1, AtEntry
  <2>. QED BY <2>1, TaskOps DEF Fits
<1>4. Good(syms, Here, Now)
  BY <1>1, Inside
<1>5. /\ Now.op \notin ThreeOperands \/ Now.op \in {"JUMP", "LABEL"}
      /\ Now.op # "CALL" /\ (Now.op \in Branches => FALSE)
  BY <1>3 DEF Emitted, ThreeOperands, Calculations, Branches
<1>. DEFINE x == Inst(Now.op, Now.d, NULL, NULL)
<1>6. Formed(syms, Here, x) /\ x.op # "FN_START"
  <2>1. /\ Now.op \in Branches \cup {"JUMP", "LABEL"} \/ Known(syms, Here, Now.d)
        /\ Now.op = "WRITE_STRING" => Now.d \in DOMAIN syms /\ syms[Now.d].cate = "STRING"
        /\ Now.op \in {"FN_START", "FN_END"} => Now.d \in Routine
    BY <1>4 DEF Good
  <2>2. Known(syms, Here, NULL)
    BY NoneKnown
  <2>. QED BY <1>5, <2>1, <2>2 DEF Formed, Inst
<1>. HIDE DEF x
<1>7. Formed(syms', Here, x)
  BY <1>2, <1>6, KnownMore
<1>. QED BY <1>1, <1>2, <1>6, <1>7, DeclEmit DEF x

LEMMA DeclStore ==
  ASSUME WorkInv, DeclInv, store_var \/ store_array \/ branch \/ push
  PROVE  DeclInv'
<1>. DEFINE p == Here
            s == syms'
<1>0. UNCHANGED syms /\ Extends(s, syms)
  <2>1. UNCHANGED syms
    BY DEF store_var, store_array, branch, push
  <2>. QED BY <2>1, SymsKept
<1>1. CASE store_var
  <2>1. /\ At("store_var") /\ Walk(<<>>) /\ Returns(1, <<>>)
        /\ code' = Append(code, Inst(Now.op, Now.d, Value(1), NULL))
    BY <1>1 DEF store_var
  <2>2. 1 \in 0..Len(vals) /\ 1 \in 1..Len(vals) /\ Now.op = "STORE_VAR"
    <3>1. Len(vals) = 1
      BY <2>1, ValuesThere
    <3>. QED BY <2>1, <3>1, NowOp
  <2>3. Known(s, p, Value(1)) /\ Known(s, p, NULL) /\ Known(s, p, Now.d)
    BY <1>0, <2>1, <2>2, ValuesKnown DEF Branches
  <2>. DEFINE x == Inst(Now.op, Now.d, Value(1), NULL)
  <2>4. Formed(s, p, x) /\ x.op # "FN_START"
    BY <2>2, <2>3, FormedInst
  <2>. HIDE DEF s, p
  <2>. QED BY <1>0, <2>1, <2>2, <2>4, DeclEmit DEF s, p
<1>2. CASE store_array
  <2>1. /\ At("store_array") /\ Walk(<<>>) /\ Returns(2, <<>>)
        /\ code' = Append(code, Inst(Now.op, Now.d, Value(1), Value(2)))
    BY <1>2 DEF store_array
  <2>2. 2 \in 0..Len(vals) /\ 1 \in 1..Len(vals) /\ 2 \in 1..Len(vals) /\ Now.op = "STORE_ARRAY"
    BY <2>1, ValuesThere, NowOp
  <2>3. Known(s, p, Value(1)) /\ Known(s, p, Value(2)) /\ Known(s, p, Now.d)
    BY <1>0, <2>1, <2>2, ValuesKnown DEF Branches
  <2>. DEFINE x == Inst(Now.op, Now.d, Value(1), Value(2))
  <2>4. Formed(s, p, x) /\ x.op # "FN_START"
    BY <2>2, <2>3, FormedInst DEF ThreeOperands
  <2>. HIDE DEF s, p
  <2>. QED BY <1>0, <2>1, <2>2, <2>4, DeclEmit DEF s, p
<1>3. CASE branch
  <2>1. /\ At("branch") /\ Walk(<<>>) /\ Returns(2, <<>>)
        /\ code' = Append(code, Inst(Now.op, Now.d, Value(2), Value(1)))
    BY <1>3 DEF branch
  <2>2. 2 \in 0..Len(vals) /\ 1 \in 1..Len(vals) /\ 2 \in 1..Len(vals) /\ Now.op \in Branches
    <3>1. Len(vals) = 2
      BY <2>1, ValuesThere
    <3>2. Now.op \in Branches
      BY <2>1, NowOp
    <3>. QED BY <3>1, <3>2
  <2>3. Known(s, p, Value(1)) /\ Known(s, p, Value(2))
    BY <1>0, <2>1, <2>2, ValuesKnown
  <2>. DEFINE x == Inst(Now.op, Now.d, Value(2), Value(1))
  <2>4. Now.op \in ThreeOperands
        /\ Now.op \notin {"WRITE_STRING", "CALL", "FN_START", "FN_END"}
    BY <2>2 DEF ThreeOperands, Branches
  <2>5. Formed(s, p, x) /\ x.op # "FN_START"
    BY <2>2, <2>3, <2>4 DEF Formed, Inst
  <2>. HIDE DEF s, p
  <2>. QED BY <1>0, <2>1, <2>2, <2>5, DeclEmit DEF s, p
<1>4. CASE push
  <2>1. /\ At("push") /\ Walk(<<>>) /\ Returns(1, <<>>)
        /\ code' = Append(code, IF Now.op = "PUSH_VAL" THEN Inst(Now.op, Value(1), NULL, NULL)
                                ELSE Inst(Now.op, Now.d, Value(1), NULL))
    BY <1>4 DEF push
  <2>2. 1 \in 0..Len(vals) /\ 1 \in 1..Len(vals) /\ Now.op \in {"PUSH_VAL", "PUSH_ADDR"}
    BY <2>1, ValuesThere, NowOp
  <2>3. Known(s, p, Value(1)) /\ Known(s, p, NULL) /\ Known(s, p, Now.d)
    BY <1>0, <2>1, <2>2, ValuesKnown DEF Branches
  <2>. DEFINE x == IF Now.op = "PUSH_VAL" THEN Inst(Now.op, Value(1), NULL, NULL)
                   ELSE Inst(Now.op, Now.d, Value(1), NULL)
  <2>4. Formed(s, p, x) /\ x.op # "FN_START"
    BY <2>2, <2>3, FormedInst
  <2>5. code' = Append(code, x)
    BY <2>1
  <2>. HIDE DEF s, p, x
  <2>. QED BY <1>0, <2>1, <2>2, <2>4, <2>5, DeclEmit DEF s, p
<1>. QED BY <1>1, <1>2, <1>3, <1>4

LEMMA DeclUnlikely ==
  ASSUME DeclInv, NEW where, unlikely(where)
  PROVE  DeclInv'
<1>1. UNCHANGED <<work, vals, code, syms>>
  BY DEF unlikely
<1>. QED BY <1>1 DEF DeclInv, RoutinesLeft, Started, Left

LEMMA DeclWriteValue ==
  ASSUME WorkInv, DeclInv, write
  PROVE  DeclInv'
<1>. DEFINE type == syms[Value(1)].type
<1>1. At("write")
  BY DEF write
<1>2. Len(vals) \in Nat /\ Len(vals) = 1 /\ Values(syms, vals) /\ Table(syms)
  BY <1>1, ValuesThere, AtEntry
<1>3. type \in {"INT", "UINT", "CHAR", "LITERAL"}
  <2>1. 1 \in 1..Len(vals)
    BY <1>2
  <2>. QED BY <1>2, <2>1, ValueTop, TypeOf
<1>4. CASE unlikely("unlikely_write")
  BY <1>4, DeclUnlikely
<1>5. CASE ~unlikely("unlikely_write")
  <2>1. /\ UNCHANGED syms /\ Walk(<<>>) /\ Returns(1, <<>>)
        /\ code' = Append(code, Inst(WRITE_OP[type], Value(1), NULL, NULL))
    BY <1>5 DEF write
  <2>. HIDE DEF type
  <2>2. WRITE_OP[type] \in {"WRITE_INT", "WRITE_UINT", "WRITE_CHAR"}
    BY <1>3 DEF WRITE_OP
  <2>3. Extends(syms', syms) /\ 1 \in 1..Len(vals) /\ 1 \in 0..Len(vals)
    BY <1>2, <2>1, SymsKept
  <2>4. Known(syms', Here, Value(1)) /\ Known(syms', Here, NULL)
    BY <1>1, <2>3, ValuesKnown
  <2>. DEFINE x == Inst(WRITE_OP[type], Value(1), NULL, NULL)
  <2>5. Formed(syms', Here, x) /\ x.op # "FN_START"
    BY <2>2, <2>4, FormedInst
  <2>6. code' = Append(code, x)
    BY <2>1
  <2>. HIDE DEF x
  <2>. QED BY <1>1, <2>1, <2>3, <2>5, <2>6, DeclEmit
<1>. QED BY <1>4, <1>5

\* The calculations, into a new temporary.
LEMMA DeclCompute ==
  ASSUME WorkInv, DeclInv, NEW f, At(f), f \notin {"gen_pf_dec_list", "emit1"}, Walk(<<>>),
         NEW type \in {"INT", "UINT", "CHAR", "LITERAL"}, syms' = symalloc("TEMP", type),
         NEW n \in 0..Len(vals),
         NEW op \in Calculations \cup {"NEG", "LOAD_ARRAY"},
         NEW r \in {Now.r} \cup {Value(i) : i \in 1..Len(vals)},
         NEW t \in {NULL} \cup {Value(i) : i \in 1..Len(vals)},
         op = "NEG" => t = NULL,
         code' = Append(code, Inst(op, NewSid, r, t)), Returns(n, <<NewSid>>)
  PROVE  DeclInv'
<1>1. Here \in Routine /\ Table(syms)
  BY Inside DEF Within, WorkInv
<1>2. /\ "TEMP" \in Value_cates \cup {"LABEL", "STRING"}
      /\ type \in {"VOID", "INT", "UINT", "CHAR", "LITERAL", "STRING"}
  BY DEF Value_cates
<1>3. Extends(syms', syms) /\ Known(syms', Here, NewSid)
  BY <1>1, <1>2, NewKnown DEF symalloc
<1>4. Known(syms', Here, r) /\ Known(syms', Here, t)
  BY <1>3, ValuesKnown
<1>. DEFINE x == Inst(op, NewSid, r, t)
<1>5. /\ op \in ThreeOperands \/ op = "NEG"
      /\ op \notin {"WRITE_STRING", "CALL", "FN_START", "FN_END"}
  BY DEF Calculations, ThreeOperands
<1>6. Formed(syms', Here, x) /\ x.op # "FN_START"
  BY <1>3, <1>4, <1>5, FormedInst
<1>. HIDE DEF x
<1>. QED BY <1>3, <1>6, DeclEmit DEF x

LEMMA DeclCalculate ==
  ASSUME WorkInv, DeclInv, binary \/ load_array
  PROVE  DeclInv'
<1>1. CASE binary
  <2>. DEFINE type == syms[Value(2)].type
  <2>1. /\ At("binary") /\ Walk(<<>>) /\ Returns(2, <<NewSid>>)
        /\ syms' = symalloc("TEMP", type)
        /\ code' = Append(code, Inst(Now.op, NewSid, Value(2), Value(1)))
    BY <1>1 DEF binary
  <2>2. /\ Len(vals) \in Nat /\ Len(vals) >= 2 /\ Values(syms, vals) /\ Table(syms)
    BY <2>1, ValuesThere, AtEntry
  <2>3. type \in {"INT", "UINT", "CHAR", "LITERAL"}
    <3>1. 2 \in 1..Len(vals)
      BY <2>2
    <3>. QED BY <2>2, <3>1, ValueTop, TypeOf
  <2>4. Now.op \in Calculations /\ Now.op # "NEG"
    <3>1. Now.op \in Calculate
      BY <2>1, AtEntry, TaskOps DEF Fits
    <3>. QED BY <3>1 DEF Calculate, Calculations
  <2>5. 1 \in 1..Len(vals) /\ 2 \in 1..Len(vals) /\ 2 \in 0..Len(vals)
    BY <2>2
  <2>. HIDE DEF type
  <2>. QED BY <2>1, <2>3, <2>4, <2>5, DeclCompute
<1>2. CASE load_array
  <2>. DEFINE type == syms[Now.r].type
  <2>1. /\ At("load_array") /\ Walk(<<>>) /\ Returns(1, <<NewSid>>)
        /\ syms' = symalloc("TEMP", type)
        /\ code' = Append(code, Inst(Now.op, NewSid, Now.r, Value(1)))
    BY <1>2 DEF load_array
  <2>2. /\ Len(vals) \in Nat /\ Len(vals) >= 1 /\ Table(syms)
        /\ Fits(syms, Now) /\ Now.do = "load_array" /\ Now.op = "LOAD_ARRAY"
    BY <2>1, ValuesThere, AtEntry, TaskOps DEF Fits
  <2>3. type \in {"INT", "UINT", "CHAR", "LITERAL"}
    <3>1. Now.r \in DOMAIN syms /\ type \notin {"VOID", "STRING"}
      BY <2>2 DEF Fits
    <3>2. syms[Now.r] \in Sym
      BY <2>2, <3>1, ElementOfSeq DEF Table
    <3>3. type \in {"VOID", "INT", "UINT", "CHAR", "LITERAL", "STRING"}
      BY <3>2 DEF Sym
    <3>. QED BY <3>1, <3>3
  <2>4. 1 \in 1..Len(vals) /\ 1 \in 0..Len(vals)
    BY <2>2
  <2>. HIDE DEF type
  <2>. QED BY <2>1, <2>2, <2>3, <2>4, DeclCompute
<1>. QED BY <1>1, <1>2

\* A symbol is returned.
LEMMA DeclReturn ==
  ASSUME WorkInv, DeclInv, NEW f, At(f), f \notin {"gen_pf_dec_list", "emit1"}, Walk(<<>>),
         UNCHANGED code, Extends(syms', syms),
         NEW n \in 0..Len(vals), NEW d, Returns(n, <<d>>), Known(syms', Here, d)
  PROVE  DeclInv'
<1>1. Within /\ work # <<>> /\ KnownValues(syms, Here, vals)
  BY Inside
<1>2. KnownValues(syms', Here, vals)
  BY <1>1, KnownLater
<1>3. Values(syms, vals)
  BY DEF WorkInv
<1>4. KnownValues(syms', Here, vals')
  BY <1>2, <1>3, ReturnKnown
<1>5. code' = code \o <<>>
  BY ConcatEmptySeq DEF WorkInv, Lines
<1>. QED BY <1>1, <1>4, <1>5, EntriesNone, LinesNone, DeclStep

LEMMA DeclSign ==
  ASSUME WorkInv, DeclInv, sign
  PROVE  DeclInv'
<1>. DEFINE type == syms[Value(1)].type
            initval == syms[Value(1)].initval
<1>1. At("sign")
  BY DEF sign
<1>2. /\ Len(vals) \in Nat /\ Len(vals) >= 1 /\ Values(syms, vals) /\ Table(syms)
      /\ Here \in Routine
  BY <1>1, ValuesThere, AtEntry
<1>3. type \in {"INT", "UINT", "CHAR", "LITERAL"} /\ initval \in {"0", "written"}
  <2>1. 1 \in 1..Len(vals)
    BY <1>2
  <2>. QED BY <1>2, <2>1, ValueTop, TypeOf
<1>4. 1 \in 0..Len(vals) /\ 1 \in 1..Len(vals)
  BY <1>2
<1>5. CASE unlikely("unlikely_plus")
  BY <1>5, DeclUnlikely
<1>6. CASE Now.op # "ADD"
  <2>1. /\ Returns(1, <<NewSid>>) /\ Walk(<<>>)
        /\ IF type = "LITERAL"
           THEN syms' = New("NUMBER", "LITERAL", initval) /\ UNCHANGED code
           ELSE /\ syms' = symalloc("TEMP", type)
                /\ code' = Append(code, Inst("NEG", NewSid, Value(1), NULL))
    BY <1>6 DEF sign
  <2>. HIDE DEF type, initval
  <2>2. CASE type = "LITERAL"
    <3>1. syms' = New("NUMBER", "LITERAL", initval) /\ UNCHANGED code
      BY <2>1, <2>2
    <3>2. "NUMBER" \in Value_cates \cup {"LABEL", "STRING"}
      BY DEF Value_cates
    <3>3. Extends(syms', syms) /\ Known(syms', Here, NewSid)
      BY <1>2, <1>3, <3>1, <3>2, NewKnown
    <3>. QED BY <1>1, <1>4, <2>1, <3>1, <3>3, DeclReturn
  <2>3. CASE type # "LITERAL"
    <3>1. /\ syms' = symalloc("TEMP", type)
          /\ code' = Append(code, Inst("NEG", NewSid, Value(1), NULL))
      BY <2>1, <2>3
    <3>2. /\ Value(1) \in {Now.r} \cup {Value(i) : i \in 1..Len(vals)}
          /\ NULL \in {NULL} \cup {Value(i) : i \in 1..Len(vals)}
      BY <1>4
    <3>3. "NEG" \in Calculations \cup {"NEG", "LOAD_ARRAY"}
      OBVIOUS
    <3>. QED BY <1>1, <1>3, <1>4, <2>1, <3>1, <3>2, <3>3, DeclCompute
  <2>. QED BY <2>2, <2>3
<1>. QED BY <1>5, <1>6 DEF sign

LEMMA DeclFactor ==
  ASSUME WorkInv, DeclInv, id_factor \/ number_factor
  PROVE  DeclInv'
<1>0. /\ At("gen_factor") /\ Walk(<<>>) /\ UNCHANGED code
      /\ Here \in Routine /\ Table(syms) /\ 0 \in 0..Len(vals)
  <2>1. At("gen_factor") /\ Walk(<<>>) /\ UNCHANGED code
    BY DEF id_factor, number_factor
  <2>. QED BY <2>1, AtExpression, ValuesThere
<1>1. CASE id_factor
  <2>1. UNCHANGED syms
    BY <1>1 DEF id_factor
  <2>2. PICK d \in Sids(Variables \cup {"CONSTANT"}) : Returns(0, <<d>>)
    BY <1>1 DEF id_factor
  <2>3. /\ Variables \cup {"CONSTANT"} \subseteq
             Variables \cup {"ARRAY", "CONSTANT", "PROC", "FUNCTION"}
        /\ Extends(syms', syms) /\ Table(syms')
    BY <2>1, SymsKept DEF Extends
  <2>4. Known(syms', Here, d)
    BY <2>3, SidsKnown
  <2>. QED BY <1>0, <2>2, <2>3, <2>4, DeclReturn
<1>2. CASE number_factor
  <2>1. PICK type \in {"CHAR", "LITERAL"} : syms' = New("NUMBER", type, "written")
    BY <1>2 DEF number_factor
  <2>2. Returns(0, <<NewSid>>)
    BY <1>2 DEF number_factor
  <2>3. "NUMBER" \in Value_cates \cup {"LABEL", "STRING"}
    BY DEF Value_cates
  <2>4. type \in {"VOID", "INT", "UINT", "CHAR", "LITERAL", "STRING"}
    OBVIOUS
  <2>5. Extends(syms', syms) /\ Known(syms', Here, NewSid)
    BY <1>0, <2>1, <2>3, <2>4, NewKnown
  <2>. QED BY <1>0, <2>2, <2>5, DeclReturn
<1>. QED BY <1>1, <1>2

\* The call, and a POP for each argument.
LEMMA DeclCall ==
  ASSUME WorkInv, DeclInv, call
  PROVE  DeclInv'
<1>. DEFINE p == Here
            s == syms'
            x == Inst("CALL", Now.d, Now.r, NULL)
            pop == Inst("POP", NULL, NULL, NULL)
            n == Len(Params[Now.r])
            pops == [i \in 1..n |-> pop]
            S == {x, pop}
<1>0. /\ At("call") /\ Walk(<<>>) /\ code' = code \o <<x>> \o pops /\ UNCHANGED syms
      /\ Returns(0, IF Now.d = NULL THEN <<>> ELSE <<Now.d>>)
  BY DEF call, Pops
<1>1. /\ Fits(syms, Now) /\ Now.do = "call" /\ Lines(syms, code) /\ Values(syms, vals)
      /\ Now.op = "CALL"
  <2>1. Fits(syms, Now) /\ Now.do = "call" /\ Lines(syms, code) /\ Values(syms, vals)
    BY <1>0, AtEntry
  <2>. QED BY <2>1, TaskOps DEF Fits
<1>2. n \in Nat /\ Now.r \in Routine
  BY <1>1, ArgsType DEF Fits
<1>3. Extends(s, syms)
  BY <1>0, SymsKept
<1>4. /\ Within /\ work # <<>> /\ KnownValues(syms, p, vals)
  BY <1>0, Inside
<1>5. Known(s, p, Now.d) /\ Known(s, p, Now.r) /\ Known(s, p, NULL)
  <2>1. Now.op \notin Branches
    BY <1>1 DEF Branches
  <2>. QED BY <1>0, <1>3, <2>1, ValuesKnown
<1>6. \A y \in S : Formed(s, p, y) /\ y.op # "FN_START"
  <2>1. {"CALL", "POP"} \cap ThreeOperands = {}
    BY DEF ThreeOperands, Calculations, Branches
  <2>2. Formed(s, p, x) /\ x.op # "FN_START"
    BY <1>2, <1>5, <2>1 DEF Formed, Inst
  <2>3. Formed(s, p, pop) /\ pop.op # "FN_START"
    BY <1>5, <2>1 DEF Formed, Inst
  <2>. HIDE DEF x, pop
  <2>. QED BY <2>2, <2>3
<1>7. <<x>> \in Seq(S) /\ pops \in Seq(S)
  BY <1>2
<1>. HIDE DEF S, x, pops
<1>8. <<x>> \o pops \in Seq(S)
  BY <1>7, ConcatProperties
<1>9. code' = code \o (<<x>> \o pops)
  <2>. DEFINE T == Line \cup S
  <2>1. code \in Seq(T) /\ <<x>> \in Seq(T) /\ pops \in Seq(T)
    BY <1>1, <1>7 DEF Lines
  <2>. HIDE DEF T
  <2>2. (code \o <<x>>) \o pops = code \o (<<x>> \o pops)
    BY <2>1, ConcatAssociative
  <2>. QED BY <1>0, <2>2
<1>10. CodeLines(s, p, <<x>> \o pops)
  BY <1>6, <1>8 DEF CodeLines
<1>11. KnownValues(s, p, vals')
  <2>1. KnownValues(s, p, vals) /\ 0 \in 0..Len(vals)
    BY <1>0, <1>3, <1>4, KnownLater, ValuesThere
  <2>2. Returns(0, <<>>) \/ Returns(0, <<Now.d>>)
    BY <1>0
  <2>. HIDE DEF s, p
  <2>. QED BY <1>1, <1>5, <2>1, <2>2, ReturnKnown
<1>. QED BY <1>0, <1>3, <1>4, <1>9, <1>10, <1>11, EntriesNone, DeclStep

\* A for loop once it has its bounds.
LEMMA DeclForBody ==
  ASSUME WorkInv, DeclInv, for_body
  PROVE  DeclInv'
<1>. DEFINE p == Here
            s == syms'
            start == NewSid
            done == NewSid + 1
            up == Now.op = "INC"
            a == Inst("STORE_VAR", Now.d, Value(2), NULL)
            b == Inst("LABEL", start, NULL, NULL)
            c == Inst(IF up THEN "BRANCH_GTT" ELSE "BRANCH_LST", done, Now.d, Value(1))
            u == Gen("gen_stmt")
            v == Emit(Now.op, Now.d)
            w == Emit("JUMP", start)
            y == Emit("LABEL", done)
            z == Emit(IF up THEN "DEC" ELSE "INC", Now.d)
<1>0. /\ At("for") /\ s = TwoLabels /\ Returns(2, <<>>)
      /\ code' = code \o <<a, b, c>> /\ Walk(<<u, v, w, y, z>>)
  BY DEF for_body
<1>1. Len(vals) = 2 /\ Here \in Routine /\ Now.op \in {"INC", "DEC"}
  BY <1>0, ValuesThere, NowOp
<1>2. Table(syms) /\ Values(syms, vals)
  BY <1>0, AtEntry
<1>3. Extends(s, syms)
  BY <1>0, <1>1, <1>2, LabelsNew
<1>4. Within /\ work # <<>> /\ KnownValues(syms, p, vals)
  BY <1>0, Inside
<1>5. /\ Known(s, p, Now.d) /\ Known(s, p, NULL)
      /\ Known(s, p, Value(1)) /\ Known(s, p, Value(2))
  <2>1. 1 \in 1..Len(vals) /\ 2 \in 1..Len(vals) /\ Now.op \notin Branches
    BY <1>1 DEF Branches
  <2>. QED BY <1>0, <1>3, <2>1, ValuesKnown
<1>6. KnownValues(s, p, vals')
  <2>1. KnownValues(s, p, vals) /\ 2 \in 0..Len(vals)
    BY <1>1, <1>3, <1>4, KnownLater
  <2>. HIDE DEF s, p
  <2>. QED BY <1>0, <1>2, <2>1, ReturnKnown
<1>. HIDE DEF s, p, start, done
<1>7. CodeLines(s, p, <<a, b, c>>)
  <2>1. /\ {"BRANCH_GTT", "BRANCH_LST"} \subseteq Branches \cap ThreeOperands
        /\ {"STORE_VAR", "LABEL"} \cap ThreeOperands = {}
    BY DEF Branches, ThreeOperands, Calculations
  <2>2. Formed(s, p, a) /\ a.op # "FN_START"
    BY <1>5, <2>1 DEF Formed, Inst
  <2>3. Formed(s, p, b) /\ b.op # "FN_START"
    BY <1>5, <2>1 DEF Formed, Inst
  <2>4. Formed(s, p, c) /\ c.op # "FN_START"
    BY <1>5, <2>1 DEF Formed, Inst
  <2>. HIDE DEF a, b, c
  <2>. DEFINE S == {a, b, c}
  <2>5. <<a, b, c>> \in Seq(S) /\ \A x \in S : Formed(s, p, x) /\ x.op # "FN_START"
    BY <2>2, <2>3, <2>4
  <2>. HIDE DEF S
  <2>. QED BY <2>5 DEF CodeLines
<1>8. Entries(s, p, <<u, v, w, y, z>>)
  <2>1. /\ Fine(s, p, u) /\ Fine(s, p, v) /\ Fine(s, p, w) /\ Fine(s, p, y)
    BY <1>1, <1>5, FinePlain, FineEmit
  <2>2. Fine(s, p, z)
    <3>1. (IF up THEN "DEC" ELSE "INC") \notin {"FN_START", "FN_END", "WRITE_STRING"}
      OBVIOUS
    <3>. QED BY <1>5, <3>1, FineEmit
  <2>. HIDE DEF u, v, w, y, z
  <2>. DEFINE S == {u, v, w, y, z}
  <2>3. <<u, v, w, y, z>> \in Seq(S) /\ \A x \in S : Fine(s, p, x)
    BY <2>1, <2>2
  <2>. HIDE DEF S
  <2>. QED BY <2>3, EntriesOf
<1>. HIDE DEF a, b, c, u, v, w, y, z
<1>. QED BY <1>0, <1>3, <1>4, <1>6, <1>7, <1>8, DeclStep DEF s, p

-----------------------------------------------------------------------------
(* From one routine to another                                             *)

\* A step of an entry that leads to another routine: what is left to do may
\* follow in any.
LEMMA DeclTurn ==
  ASSUME WorkInv, DeclInv, WorkInv', work # <<>>, Turns(Now), UNCHANGED syms,
         NEW S, NEW is \in Seq(S), \A x \in S : Framed(x), Walk(is)
  PROVE  \A j \in 1..Len(work') : Framed(work'[j]) /\ \A p : Good(syms', p, work'[j])
<1>1. Len(work) \in Nat \ {0} /\ Now = work[1]
  BY WorkType DEF Now
<1>2. /\ Len(is) \in Nat /\ Len(work') = Len(work) - 1 + Len(is)
      /\ \A i \in 1..Len(is) : work'[i] = is[i]
      /\ \A i \in Len(is) + 1..Len(work') : work'[i] = work[i - Len(is) + 1]
  BY WorkPlaces
<1>3. \A j \in 1..Len(work) : Framed(work[j])
  <2>. SUFFICES ASSUME NEW j \in 1..Len(work) PROVE Framed(work[j])
    OBVIOUS
  <2>1. 1 \in 1..Len(work) /\ 1 <= j /\ Turns(work[1])
    BY <1>1
  <2>. QED BY <2>1 DEF DeclInv
<1>. SUFFICES ASSUME NEW j \in 1..Len(work')
              PROVE  Framed(work'[j]) /\ \A p : Good(syms', p, work'[j])
  OBVIOUS
<1>4. Framed(work'[j])
  <2>1. CASE j <= Len(is)
    <3>1. j \in 1..Len(is) /\ is[j] \in S
      BY <1>2, <2>1, ElementOfSeq
    <3>. QED BY <1>2, <3>1
  <2>2. CASE ~(j <= Len(is))
    <3>1. j \in Len(is) + 1..Len(work') /\ j - Len(is) + 1 \in 1..Len(work)
      BY <1>1, <1>2, <2>2
    <3>. QED BY <1>2, <1>3, <3>1
  <2>. QED BY <2>1, <2>2
<1>5. Fits(syms', work'[j])
  <2>1. PICK a \in Place : Chain(syms', work', a, End)
    BY DEF WorkInv
  <2>2. PICK h : Leads(syms', work', h)
    BY <2>1 DEF Chain
  <2>. QED BY <2>2 DEF Leads, Step
<1>. DEFINE w == work'[j]
            s == syms'
<1>6. w.d \in Routine => w.d \in DOMAIN s
  BY <1>5, SymbolFacts DEF Fits, Routine, NULL
<1>7. w.op \notin {"FN_START", "FN_END"} => w.op = ""
  <2>1. w.op \in TaskOp(w.do)
    BY <1>5 DEF Fits
  <2>2. TaskOp("gen_pf_dec_list") = {""} /\ TaskOp("gen_comp_stmt") = {""}
    BY PlainOps DEF Plain
  <2>. QED BY <1>4, <2>1, <2>2 DEF Framed
<1>8. w.op \in {"FN_START", "FN_END"} => w.d \in Routine
  <2>1. w.op \in TaskOp(w.do)
    BY <1>5 DEF Fits
  <2>2. TaskOp("gen_comp_stmt") = {""}
    BY PlainOps DEF Plain
  <2>3. w.do = "gen_comp_stmt" => w.op = ""
    BY <2>1, <2>2
  <2>. QED BY <1>4, <2>3 DEF Framed
<1>9. w.r = NULL /\ (w.d \in Routine \/ w.d = NULL)
  BY <1>4 DEF Framed
<1>. HIDE DEF w, s
<1>10. \A p : Good(s, p, w)
  BY <1>6, <1>7, <1>8, <1>9 DEF Good, Known
<1>. QED BY <1>4, <1>10 DEF w, s

\* The entries of a routine that is found.
Found(p) == <<Decs(p), Emit("FN_START", p), Gen("gen_comp_stmt"), Emit("FN_END", p), Now>>

LEMMA DeclBegun ==
  ASSUME WorkInv, DeclInv, WorkInv', At("gen_pf_dec_list"), UNCHANGED <<vals, code, syms>>,
         NEW p, p \in Left(Now.d), Walk(Found(p))
  PROVE  DeclInv'
<1>. DEFINE u == Decs(p)
            v == Emit("FN_START", p)
            w == Gen("gen_comp_stmt")
            y == Emit("FN_END", p)
            z == Now
            is == <<u, v, w, y, z>>
            S == {u, v, w, y, z}
<1>1. /\ Fits(syms, Now) /\ Now.do = "gen_pf_dec_list" /\ Now.d \in Routine /\ work # <<>>
      /\ Lines(syms, code)
  BY AtEntry DEF At, Fits
<1>2. p \in Routine
  BY DEF Left, InTable, Routine
<1>3. Now.op = ""
  <2>1. TaskOp("gen_pf_dec_list") = {""}
    BY PlainOps DEF Plain
  <2>. QED BY <1>1, <2>1 DEF Fits
<1>4. Len(work) \in Nat \ {0} /\ Now = work[1] /\ 1 \in 1..Len(work) /\ Turns(Now)
  BY <1>1, WorkType DEF Now, Turns
<1>5. /\ Framed(u) /\ Framed(v) /\ Framed(w) /\ Framed(y)
      /\ u.op = "" /\ v.op = "FN_START" /\ v.d = p /\ w.op = "" /\ y.op = "FN_END"
      /\ u.do = "gen_pf_dec_list" /\ u.d = p
  BY <1>2 DEF Framed, Decs, Emit, Gen, Do
<1>6. Framed(z)
  <2>1. Turns(work[1]) /\ 1 <= 1
    BY <1>4
  <2>2. Framed(work[1])
    BY <1>4, <2>1 DEF DeclInv
  <2>. QED BY <1>4, <2>2
<1>z. z.do = "gen_pf_dec_list" /\ z.op = ""
  BY <1>1, <1>3
<1>. HIDE DEF u, v, w, y, z
<1>7. /\ is \in Seq(S) /\ Len(is) = 5 /\ \A x \in S : Framed(x)
      /\ is[1] = u /\ is[2] = v /\ is[3] = w /\ is[4] = y /\ is[5] = z
  <2>1. \A x \in S : Framed(x)
    BY <1>5, <1>6
  <2>2. /\ is \in Seq(S) /\ Len(is) = 5
        /\ is[1] = u /\ is[2] = v /\ is[3] = w /\ is[4] = y /\ is[5] = z
    OBVIOUS
  <2>. QED BY <2>1, <2>2
<1>8. Walk(is)
  BY DEF Found, u, v, w, y, z
<1>. HIDE DEF is, S
<1>9. \A j \in 1..Len(work') : Framed(work'[j]) /\ \A q : Good(syms', q, work'[j])
  BY <1>1, <1>4, <1>7, <1>8, DeclTurn
<1>10. \A e : e \in Started' <=> e \in Started \/ e = p
  <2>1. \A e : StartsIn(is, e) <=> e = p
    <3>1. \A i \in 1..5 : i = 1 \/ i = 2 \/ i = 3 \/ i = 4 \/ i = 5
      OBVIOUS
    <3>2. \A i \in 1..5 : is[i].op = "FN_START" <=> i = 2
      BY <1>5, <1>7, <1>z, <3>1
    <3>3. 2 \in 1..5
      OBVIOUS
    <3>. QED BY <1>5, <1>7, <3>2, <3>3 DEF StartsIn
  <2>2. DOMAIN code' = 1..Len(code') /\ code' = code
    BY <1>1 DEF Lines
  <2>. QED BY <1>1, <1>3, <1>7, <1>8, <2>1, <2>2, StartedAre
<1>11. RoutinesLeft'
  <2>1. /\ Len(work') = Len(work) + 4 /\ work'[1] = u /\ work'[5] = Now
        /\ \A i \in 6..Len(work') : work'[i] = work[i - 4]
    <3>1. /\ Len(is) = 5 /\ Len(work') = Len(work) - 1 + Len(is)
          /\ \A i \in 1..5 : work'[i] = is[i]
          /\ \A i \in Len(is) + 1..Len(work') : work'[i] = work[i - Len(is) + 1]
      BY <1>1, <1>7, <1>8, WorkPlaces
    <3>2. 1 \in 1..5 /\ 5 \in 1..5
      OBVIOUS
    <3>3. ASSUME NEW i \in 6..Len(work') PROVE work'[i] = work[i - 4]
      <4>1. i \in Len(is) + 1..Len(work') /\ i - Len(is) + 1 = i - 4
        BY <1>4, <3>1
      <4>. QED BY <3>1, <4>1
    <3>. QED BY <1>4, <1>7, <3>1, <3>2, <3>3 DEF z
  <2>2. Main \in Started'
    BY <1>10 DEF DeclInv, RoutinesLeft
  <2>3. \A q : Left(q)' \subseteq Left(q)
    BY <1>10 DEF Left
  <2>4. ASSUME NEW q \in Started' \cap Routine
        PROVE  \/ Left(q)' = {}
               \/ \E i \in 1..Len(work') : work'[i].do = "gen_pf_dec_list" /\ work'[i].d = q
    <3>1. CASE q = p
      <4>1. 1 \in 1..Len(work')
        BY <1>4, <2>1
      <4>. QED BY <1>5, <2>1, <3>1, <4>1
    <3>2. CASE q # p
      <4>1. q \in Started \cap Routine
        BY <1>10, <2>4, <3>2
      <4>2. CASE Left(q) = {}
        BY <2>3, <4>2
      <4>3. CASE \E i \in 1..Len(work) : work[i].do = "gen_pf_dec_list" /\ work[i].d = q
        <5>1. PICK i \in 1..Len(work) : work[i].do = "gen_pf_dec_list" /\ work[i].d = q
          BY <4>3
        <5>. DEFINE j == i + 4
        <5>2. /\ j \in 1..Len(work') /\ j - 4 = i
              /\ j = 5 \/ j \in 6..Len(work')
          BY <1>4, <2>1
        <5>3. j = 5 => i = 1
          BY <5>2
        <5>. HIDE DEF j
        <5>4. work'[j] = work[i]
          BY <1>4, <2>1, <5>2, <5>3
        <5>. QED BY <5>1, <5>2, <5>4
      <4>. QED BY <4>1, <4>2, <4>3 DEF DeclInv, RoutinesLeft
    <3>. QED BY <3>1, <3>2
  <2>. QED BY <2>2, <2>4 DEF RoutinesLeft
<1>12. syms' = syms /\ code' = code /\ vals' = vals
  OBVIOUS
<1>. QED BY <1>9, <1>11, <1>12 DEF DeclInv

LEMMA DeclRoutines ==
  ASSUME WorkInv, DeclInv, gen_pf_dec_list
  PROVE  DeclInv'
<1>1. At("gen_pf_dec_list") /\ UNCHANGED <<vals, code, syms>> /\ WorkInv'
  BY KeepsRoutines DEF gen_pf_dec_list
<1>2. CASE Left(Now.d) = {} /\ Walk(<<>>)
  <2>1. /\ Now.do = "gen_pf_dec_list" /\ Now.d \in Routine /\ work # <<>> /\ Fits(syms, Now)
        /\ Lines(syms, code)
    BY <1>1, AtEntry DEF At, Fits
  <2>2. Now.op # "FN_START"
    <3>1. TaskOp("gen_pf_dec_list") = {""}
      BY PlainOps DEF Plain
    <3>. QED BY <2>1, <3>1 DEF Fits
  <2>. DEFINE S == {}
              is == <<>>
  <2>3. is \in Seq(S) /\ \A x \in S : Framed(x) /\ x.op # "FN_START"
    OBVIOUS
  <2>4. Walk(is) /\ Len(is) = 0
    BY <1>2
  <2>. HIDE DEF S, is
  <2>5. \A j \in 1..Len(work') : Framed(work'[j]) /\ \A q : Good(syms', q, work'[j])
    BY <1>1, <2>1, <2>3, <2>4, DeclTurn DEF Turns
  <2>6. Started' = Started
    <3>1. DOMAIN code' = 1..Len(code') /\ code' = code /\ Len(code) \in Nat
      BY <1>1, <2>1 DEF Lines
    <3>2. \A i \in Len(code) + 1..Len(code') : FALSE
      BY <3>1
    <3>3. Longer(code', code)
      BY <3>1 DEF Longer
    <3>. QED BY <2>1, <2>2, <2>3, <2>4, <3>1, <3>2, <3>3, StartedSame
  <2>7. RoutinesLeft'
    <3>1. Len(work) \in Nat \ {0} /\ Now = work[1]
      BY <2>1, WorkType DEF Now
    <3>2. /\ Len(work') = Len(work) - 1
          /\ \A i \in 1..Len(work') : work'[i] = work[i + 1]
      <4>1. /\ Len(work') = Len(work) - 1 + Len(is)
            /\ \A i \in Len(is) + 1..Len(work') : work'[i] = work[i - Len(is) + 1]
        BY <2>1, <2>3, <2>4, WorkPlaces
      <4>2. Len(work') = Len(work) - 1
        BY <2>4, <3>1, <4>1
      <4>3. ASSUME NEW i \in 1..Len(work') PROVE work'[i] = work[i + 1]
        <5>1. i \in Len(is) + 1..Len(work') /\ i - Len(is) + 1 = i + 1
          BY <2>4
        <5>. QED BY <4>1, <5>1
      <4>. QED BY <4>2, <4>3
    <3>3. \A q : Left(q)' = Left(q)
      BY <2>6 DEF Left
    <3>4. ASSUME NEW q \in Started \cap Routine
          PROVE  \/ Left(q) = {}
                 \/ \E i \in 1..Len(work') : work'[i].do = "gen_pf_dec_list" /\ work'[i].d = q
      <4>1. CASE \E i \in 1..Len(work) : work[i].do = "gen_pf_dec_list" /\ work[i].d = q
        <5>1. PICK i \in 1..Len(work) : work[i].do = "gen_pf_dec_list" /\ work[i].d = q
          BY <4>1
        <5>2. CASE i = 1
          BY <1>2, <3>1, <5>1, <5>2
        <5>3. CASE i # 1
          <6>1. i - 1 \in 1..Len(work') /\ (i - 1) + 1 = i
            BY <3>1, <3>2, <5>3
          <6>. QED BY <3>2, <5>1, <6>1
        <5>. QED BY <5>2, <5>3
      <4>. QED BY <4>1 DEF DeclInv, RoutinesLeft
    <3>5. Main \in Started'
      BY <2>6 DEF DeclInv, RoutinesLeft
    <3>. QED BY <2>6, <3>3, <3>4, <3>5 DEF RoutinesLeft
  <2>. QED BY <1>1, <2>5, <2>7 DEF DeclInv
<1>3. CASE \E p \in Left(Now.d) :
             Walk(<<Decs(p), Emit("FN_START", p), Gen("gen_comp_stmt"), Emit("FN_END", p), Now>>)
  BY <1>1, <1>3, DeclBegun DEF Found
<1>. QED BY <1>2, <1>3 DEF gen_pf_dec_list

\* A routine begins.
LEMMA DeclBegins ==
  ASSUME WorkInv, DeclInv, emit1, Now.op = "FN_START"
  PROVE  DeclInv'
<1>. DEFINE x == Inst(Now.op, Now.d, NULL, NULL)
            d == Now.d
<1>1. /\ At("emit1") /\ UNCHANGED <<vals, syms>> /\ Walk(<<>>) /\ code' = Append(code, x)
      /\ WorkInv' /\ work # <<>>
  BY KeepsEmit1 DEF emit1, At
<1>2. PICK a \in Place, b \in Place : Goes(Now, a, b) /\ a.n = Len(vals)
  BY <1>1, AtEntry
<1>3. /\ Fits(syms, Now) /\ Now.do = "emit1" /\ Lines(syms, code) /\ Extends(syms', syms)
  BY <1>1, AtEntry, SymsKept
<1>4. d \in Routine /\ d \in DOMAIN syms
  <2>1. d \in Routine /\ d \in DOMAIN syms \cup {NULL}
    BY <1>3 DEF Fits
  <2>. QED BY <2>1, SymbolFacts DEF Routine, NULL
<1>5. Len(vals) = 0
  BY <1>2, <1>3 DEF Goes
<1>6. code \in Seq(Line) /\ Len(code) \in Nat
  BY <1>3 DEF Lines
<1>7. /\ x.op = "FN_START" /\ x.d = d
      /\ \A p : Formed(syms, p, x)
  <2>1. "FN_START" \notin ThreeOperands
    BY DEF ThreeOperands, Calculations, Branches
  <2>2. \A p : Known(syms, p, d) /\ Known(syms, p, NULL)
    BY <1>4 DEF Known
  <2>. QED BY <1>4, <2>1, <2>2 DEF Formed, Inst
<1>. HIDE DEF x
<1>8. /\ Longer(code', code) /\ Len(code') = Len(code) + 1 /\ code'[Len(code')] = x
      /\ DOMAIN code' = 1..Len(code')
  <2>1. Longer(code', code) /\ Len(code') = Len(code) + 1 /\ code'[Len(code')] = x
    BY <1>1, <1>6, AppendLonger
  <2>2. code' \in Seq(Line \cup {x})
    BY <1>1, <1>6
  <2>. QED BY <2>1, <2>2
<1>9. InRoutine(code', Len(code'), d)
  <2>1. Len(code') \in 1..Len(code') /\ \A j \in Len(code') + 1..Len(code') : FALSE
    BY <1>6, <1>8
  <2>. QED BY <1>7, <1>8, <2>1 DEF InRoutine
<1>10. ASSUME NEW i \in 1..Len(code')
       PROVE  \E q \in Routine : InRoutine(code', i, q) /\ Formed(syms', q, code'[i])
  <2>1. CASE i <= Len(code)
    <3>0. i \in 1..Len(code) /\ i \in 0..Len(code)
      BY <1>6, <2>1
    <3>1. PICK q \in Routine : InRoutine(code, i, q) /\ Formed(syms, q, code[i])
      BY <3>0 DEF DeclInv
    <3>2. InRoutine(code', i, q) /\ code'[i] = code[i]
      BY <1>8, <3>0, <3>1, InRoutineLonger DEF Longer
    <3>. QED BY <1>1, <3>1, <3>2
  <2>2. CASE ~(i <= Len(code))
    <3>1. i = Len(code')
      BY <1>6, <1>8, <2>2
    <3>. QED BY <1>1, <1>4, <1>7, <1>8, <1>9, <3>1
  <2>. QED BY <2>1, <2>2
<1>. DEFINE S == {}
            is == <<>>
<1>11. is \in Seq(S) /\ \A z \in S : Framed(z)
  OBVIOUS
<1>12. Walk(is) /\ Len(is) = 0
  BY <1>1
<1>. HIDE DEF S, is
<1>13. \A j \in 1..Len(work') : Framed(work'[j]) /\ \A q : Good(syms', q, work'[j])
  BY <1>1, <1>11, <1>12, DeclTurn DEF Turns
<1>14. Started' = Started
  <2>1. \A e : StartsIn(code', e) <=> StartsIn(code, e) \/ e = d
    <3>. SUFFICES ASSUME NEW e PROVE StartsIn(code', e) <=> StartsIn(code, e) \/ e = d
      OBVIOUS
    <3>1. \A i \in 1..Len(code) : i \in 1..Len(code') /\ code'[i] = code[i]
      BY <1>6, <1>8 DEF Longer
    <3>2. \A i \in 1..Len(code') : i \in 1..Len(code) \/ i = Len(code')
      BY <1>6, <1>8
    <3>3. Len(code') \in 1..Len(code')
      BY <1>6, <1>8
    <3>. QED BY <1>7, <1>8, <3>1, <3>2, <3>3 DEF StartsIn
  <2>2. \A e : ~StartsIn(is, e)
    BY <1>12 DEF StartsIn
  <2>3. \A e : e \in Started' <=> e \in Started
    BY <1>1, <1>8, <1>11, <1>12, <2>1, <2>2, StartedAre
  <2>. QED BY <2>3
<1>15. RoutinesLeft'
  <2>1. Len(work) \in Nat \ {0} /\ Now = work[1]
    BY <1>1, WorkType DEF Now
  <2>2. Len(work') = Len(work) - 1 /\ \A i \in 1..Len(work') : work'[i] = work[i + 1]
    <3>1. /\ Len(work') = Len(work) - 1 + Len(is)
          /\ \A i \in Len(is) + 1..Len(work') : work'[i] = work[i - Len(is) + 1]
      BY <1>1, <1>11, <1>12, WorkPlaces
    <3>2. Len(work') = Len(work) - 1
      BY <1>12, <2>1, <3>1
    <3>3. ASSUME NEW i \in 1..Len(work') PROVE work'[i] = work[i + 1]
      <4>1. i \in Len(is) + 1..Len(work') /\ i - Len(is) + 1 = i + 1
        BY <1>12
      <4>. QED BY <3>1, <4>1
    <3>. QED BY <3>2, <3>3
  <2>3. \A q : Left(q)' = Left(q)
    BY <1>14 DEF Left
  <2>4. ASSUME NEW q, NEW i \in 1..Len(work), work[i].do = "gen_pf_dec_list", work[i].d = q
        PROVE  \E j \in 1..Len(work') : work'[j].do = "gen_pf_dec_list" /\ work'[j].d = q
    <3>1. i # 1
      BY <1>3, <2>1, <2>4
    <3>2. i - 1 \in 1..Len(work') /\ (i - 1) + 1 = i
      BY <2>1, <2>2, <3>1
    <3>. QED BY <2>2, <2>4, <3>2
  <2>. QED BY <1>14, <2>3, <2>4 DEF DeclInv, RoutinesLeft
<1>16. vals' = vals /\ syms' = syms
  BY <1>1
<1>17. \A i, j \in 1..Len(work') : i <= j /\ Turns(work'[i]) => Framed(work'[j])
  BY <1>13
<1>18. \A i \in 1..Len(vals') : FALSE
  BY <1>5, <1>16
<1>. QED BY <1>10, <1>13, <1>15, <1>16, <1>17, <1>18 DEF DeclInv

LEMMA DeclInit ==
  ASSUME Init
  PROVE  DeclInv
<1>. DEFINE u == Decs(Main)
            v == Emit("FN_START", Main)
            w == Gen("gen_comp_stmt")
            y == Emit("FN_END", Main)
            s == syms
<1>1. /\ work = <<u, v, w, y>> /\ vals = <<>> /\ code = <<>>
      /\ s = [e \in DOMAIN Declared |->
                Symbol(Declared[e].cate, Declared[e].type, Declared[e].stab,
                       IF Declared[e].cate = "CONSTANT" THEN "written" ELSE "0")]
  BY DEF Init
<1>2. Main \in Routine /\ Main \in DOMAIN s
  BY <1>1, SymbolFacts DEF Routine
<1>3. \A e \in DOMAIN Declared : syms[e].stab = Declared[e].stab
  BY <1>1 DEF Symbol
<1>4. /\ Framed(u) /\ Framed(v) /\ Framed(w) /\ Framed(y)
      /\ v.op = "FN_START" /\ v.d = Main /\ u.op # "FN_START" /\ w.op # "FN_START"
      /\ y.op # "FN_START" /\ u.do = "gen_pf_dec_list" /\ u.d = Main
  BY <1>2 DEF Framed, Decs, Emit, Gen, Do
<1>. HIDE DEF u, v, w, y, s
<1>5. /\ Len(work) = 4 /\ DOMAIN work = 1..4
      /\ work[1] = u /\ work[2] = v /\ work[3] = w /\ work[4] = y
  BY <1>1
<1>6. \A i \in 1..4 : i = 1 \/ i = 2 \/ i = 3 \/ i = 4
  OBVIOUS
<1>7. Started = {Main}
  <2>1. \A i \in DOMAIN code : FALSE
    BY <1>1
  <2>2. \A i \in DOMAIN work : work[i].op = "FN_START" <=> i = 2
    BY <1>4, <1>5, <1>6
  <2>3. {work[i].d : i \in {i \in DOMAIN work : work[i].op = "FN_START"}} = {Main}
    BY <1>4, <1>5, <2>2
  <2>. QED BY <2>1, <2>3 DEF Started
<1>8. RoutinesLeft
  <2>1. 1 \in 1..Len(work)
    BY <1>5
  <2>. QED BY <1>4, <1>5, <1>7, <2>1 DEF RoutinesLeft
<1>9. \A j \in 1..Len(work) : Framed(work[j])
  BY <1>4, <1>5, <1>6
<1>10. /\ \A i \in 1..Len(code) : FALSE
       /\ \A p : ~InRoutine(code, Len(code), p)
  BY <1>1 DEF InRoutine
<1>. QED BY <1>3, <1>8, <1>9, <1>10 DEF DeclInv

LEMMA NextDecl ==
  ASSUME WorkInv, DeclInv, [Next]_vars
  PROVE  DeclInv'
<1>1. CASE gen_pf_dec_list \/ gen_comp_stmt \/ emit1
  BY <1>1, DeclRoutines, DeclStatement, DeclEmit1, DeclBegins
<1>2. CASE Statement
  <2>1. CASE \/ null_stmt \/ gen_assign_stmt \/ gen_if_stmt \/ gen_repe_stmt \/ gen_for_stmt
             \/ gen_pcall_stmt \/ gen_read_stmt \/ gen_write_stmt
    BY <2>1, DeclStatement, DeclBranching, DeclCalls, DeclWrite
  <2>2. CASE store_var \/ store_array \/ branch \/ for_body \/ write
    BY <2>2, DeclStore, DeclForBody, DeclWriteValue
  <2>. QED BY <1>2, <2>1, <2>2 DEF Statement
<1>3. CASE Expression
  <2>1. CASE gen_expr \/ sign \/ terms \/ gen_term \/ factors \/ binary
    BY <2>1, DeclExpression, DeclSign, DeclCalculate
  <2>2. CASE id_factor \/ number_factor \/ array_factor \/ load_array \/ expr_factor
    BY <2>2, DeclExpression, DeclFactor, DeclCalculate
  <2>3. CASE gen_fcall_stmt \/ gen_arg \/ push \/ call
    BY <2>3, DeclCalls, DeclArg, DeclStore, DeclCall
  <2>. QED BY <1>3, <2>1, <2>2, <2>3 DEF Expression
<1>4. CASE genir \/ UNCHANGED vars
  <2>1. UNCHANGED <<work, vals, code, syms>>
    BY <1>4 DEF genir, vars
  <2>. QED BY <2>1 DEF DeclInv, RoutinesLeft, Started, Left
<1>. QED BY <1>1, <1>2, <1>3, <1>4 DEF Next

-----------------------------------------------------------------------------
(* The result and its text                                                 *)

AsmInv ==
  /\ result # <<>> =>
       /\ pc = "done"
       /\ result = [i \in DOMAIN code |-> asmbl(code[i])]
       /\ elements = [i \in {i \in DOMAIN code : code[i].op = "FN_START"} |-> element(code[i].d)]
  /\ text # <<>> =>
       /\ result # <<>> /\ DOMAIN text = DOMAIN code
       /\ \A i \in DOMAIN code :
            /\ text[i].op = code[i].op /\ text[i].name = Named(code[i])
            /\ \E b \in BOOLEAN : text[i].words = Words(asmbl(code[i]), b)

\* When the generator is done it stays as it is.
LEMMA DoneStays ==
  ASSUME pc = "done"
  PROVE  ~Next
<1>1. \A f : ~At(f)
  BY DEF At
<1>2. ~gen_pf_dec_list /\ ~gen_comp_stmt /\ ~emit1 /\ ~genir
  BY <1>1 DEF gen_pf_dec_list, gen_comp_stmt, emit1, genir
<1>3. ~Statement
  BY <1>1 DEF Statement, null_stmt, gen_assign_stmt, gen_if_stmt, gen_repe_stmt, gen_for_stmt,
              gen_pcall_stmt, gen_read_stmt, gen_write_stmt, store_var, store_array, branch,
              for_body, write
<1>4. ~Expression
  BY <1>1 DEF Expression, gen_expr, sign, terms, gen_term, factors, binary, id_factor,
              number_factor, array_factor, load_array, expr_factor, gen_fcall_stmt, gen_arg,
              push, call
<1>. QED BY <1>2, <1>3, <1>4 DEF Next

LEMMA AsmKept ==
  ASSUME AsmInv, [AsmNext]_asmVars
  PROVE  AsmInv'
<1>1. CASE UNCHANGED <<vars, result, elements, text>>
  <2>1. UNCHANGED <<code, syms, pc, result, elements, text>>
    BY <1>1 DEF vars
  <2>2. \A p : element(p)' = element(p)
    BY <2>1 DEF element, fn_args, fn_locales, fn_temps, fn_strings, Scope
  <2>3. \A c : asmbl(c)' = asmbl(c)
    BY <2>1 DEF asmbl, Operands, Operand
  <2>. QED BY <2>1, <2>2, <2>3 DEF AsmInv
<1>2. CASE Next /\ UNCHANGED <<result, elements, text>>
  <2>1. result = <<>> /\ text = <<>>
    BY <1>2, DoneStays DEF AsmInv
  <2>. QED BY <1>2, <2>1 DEF AsmInv
<1>3. CASE gen_irasm
  <2>1. /\ result = <<>> /\ UNCHANGED <<code, syms, pc, text>> /\ pc = "done"
        /\ result' = [i \in DOMAIN code |-> asmbl(code[i])]
        /\ elements' = [i \in {i \in DOMAIN code : code[i].op = "FN_START"} |-> element(code[i].d)]
    BY <1>3 DEF gen_irasm, vars
  <2>2. text = <<>>
    BY <2>1 DEF AsmInv
  <2>3. \A p : element(p)' = element(p)
    BY <2>1 DEF element, fn_args, fn_locales, fn_temps, fn_strings, Scope
  <2>4. \A c : asmbl(c)' = asmbl(c)
    BY <2>1 DEF asmbl, Operands, Operand
  <2>. QED BY <2>1, <2>2, <2>3, <2>4 DEF AsmInv
<1>4. CASE print_irasm
  <2>1. /\ result # <<>> /\ UNCHANGED <<code, syms, pc, result, elements>>
        /\ \E numbers \in SUBSET {i \in DOMAIN result : result[i].op = "WRITE_STRING"} :
             text' = [i \in DOMAIN result |->
                        [op |-> result[i].op, name |-> result[i].name,
                         words |-> Words(result[i], i \in numbers)]]
    BY <1>4 DEF print_irasm, vars
  <2>2. \A p : element(p)' = element(p)
    BY <2>1 DEF element, fn_args, fn_locales, fn_temps, fn_strings, Scope
  <2>3. \A c : asmbl(c)' = asmbl(c)
    BY <2>1 DEF asmbl, Operands, Operand
  <2>4. result = [i \in DOMAIN code |-> asmbl(code[i])]
    BY <2>1 DEF AsmInv
  <2>5. \A c : asmbl(c).op = c.op /\ asmbl(c).name = Named(c)
    BY DEF asmbl
  <2>6. DOMAIN text' = DOMAIN code
    BY <2>1, <2>4
  <2>7. ASSUME NEW i \in DOMAIN code
        PROVE  /\ text'[i].op = code[i].op /\ text'[i].name = Named(code[i])
               /\ \E b \in BOOLEAN : text'[i].words = Words(asmbl(code[i]), b)
    <3>1. PICK numbers :
            text' = [j \in DOMAIN result |->
                        [op |-> result[j].op, name |-> result[j].name,
                         words |-> Words(result[j], j \in numbers)]]
      BY <2>1
    <3>2. text'[i] = [op |-> result[i].op, name |-> result[i].name,
                      words |-> Words(result[i], i \in numbers)]
      BY <2>4, <3>1
    <3>3. result[i] = asmbl(code[i])
      BY <2>4
    <3>4. text'[i].words = Words(asmbl(code[i]), i \in numbers) /\ (i \in numbers) \in BOOLEAN
      BY <3>2, <3>3
    <3>5. \E b \in BOOLEAN : text'[i].words = Words(asmbl(code[i]), b)
      BY <3>4, Zenon
    <3>6. text'[i].op = result[i].op /\ text'[i].name = result[i].name
      BY <3>2
    <3>. QED BY <2>5, <3>3, <3>5, <3>6
  <2>8. \A c, b : Words(asmbl(c), b)' = Words(asmbl(c), b)
    BY <2>3 DEF Words, Word, Label, Number, ByType, ByCate
  <2>9. ASSUME NEW c PROVE Named(c)' = Named(c)
    BY DEF Named
  <2>. QED BY <2>1, <2>2, <2>3, <2>6, <2>7, <2>8, <2>9 DEF AsmInv
<1>. QED BY <1>1, <1>2, <1>3, <1>4 DEF AsmNext, asmVars

\* The words of a line.
LEMMA LineWords ==
  ASSUME NEW c, NEW b \in BOOLEAN
  PROVE  /\ c.op \in ThreeOperands =>
              ToSet(Words(asmbl(c), b)) =
                {Label(c.d), ByType(Operand(c.r)), ByType(Operand(c.s))}
         /\ c.op = "STORE_VAR" => ToSet(Words(asmbl(c), b)) = {Label(c.d), ByType(Operand(c.r))}
         /\ c.op = "NEG" => ToSet(Words(asmbl(c), b)) = {Label(c.d), Label(c.r)}
         /\ c.op = "PUSH_VAL" => ToSet(Words(asmbl(c), b)) = {ByType(Operand(c.d))}
         /\ c.op \in ValueWrites => ToSet(Words(asmbl(c), b)) = {ByCate(Operand(c.d))}
         /\ c.op = "WRITE_STRING" =>
              ToSet(Words(asmbl(c), b)) \subseteq {Number("any"), Label(c.d)}
         /\ c.op \notin ThreeOperands \cup ValueWrites \cup
                          {"STORE_VAR", "NEG", "PUSH_VAL", "WRITE_STRING"} =>
              Words(asmbl(c), b) = IF c.d = NULL THEN <<>> ELSE <<Label(c.d)>>
<1>. DEFINE l == asmbl(c)
<1>0. l.op = c.op /\ l.label = c.d /\ l.operands = Operands(c)
  BY DEF asmbl
<1>1. /\ {"STORE_VAR", "NEG", "PUSH_VAL", "WRITE_STRING"} \cap ThreeOperands = {}
      /\ ValueWrites \cap ThreeOperands = {}
      /\ ValueWrites \cap {"STORE_VAR", "NEG", "PUSH_VAL", "WRITE_STRING"} = {}
  BY DEF ThreeOperands, Calculations, Branches, ValueWrites
<1>2. \A x : ToSet(<<x>>) = {x}
  BY DEF ToSet
<1>3. \A x, y : ToSet(<<x, y>>) = {x, y}
  BY DEF ToSet
<1>t. \A x, y, z : ToSet(<<x, y, z>>) = {x, y, z}
  BY DEF ToSet
<1>. HIDE DEF l
<1>4. CASE c.op \in ThreeOperands
  <2>1. l.operands = <<Operand(c.r), Operand(c.s)>>
    BY <1>0, <1>1, <1>4 DEF Operands
  <2>2. Words(l, b) = <<Label(c.d), ByType(l.operands[1]), ByType(l.operands[2])>>
    BY <1>0, <1>1, <1>4 DEF Words
  <2>3. l.operands[1] = Operand(c.r) /\ l.operands[2] = Operand(c.s)
    BY <2>1
  <2>4. ToSet(Words(l, b)) = {Label(c.d), ByType(Operand(c.r)), ByType(Operand(c.s))}
    BY <1>t, <2>2, <2>3
  <2>. QED BY <1>1, <1>4, <2>4 DEF l
<1>5. CASE c.op = "STORE_VAR"
  <2>1. l.operands = <<Operand(c.r)>>
    BY <1>0, <1>1, <1>5 DEF Operands
  <2>2. Words(l, b) = <<Label(c.d), ByType(l.operands[1])>>
    BY <1>0, <1>1, <1>5 DEF Words
  <2>3. l.operands[1] = Operand(c.r)
    BY <2>1
  <2>4. ToSet(Words(l, b)) = {Label(c.d), ByType(Operand(c.r))}
    BY <1>3, <2>2, <2>3
  <2>. QED BY <1>1, <1>5, <2>4 DEF l
<1>6. CASE c.op = "NEG"
  <2>1. l.operands = <<Operand(c.r)>>
    BY <1>0, <1>1, <1>6 DEF Operands
  <2>2. l.operands[1].label = c.r
    BY <2>1 DEF Operand
  <2>3. Words(l, b) = <<Label(c.d), Label(c.r)>>
    BY <1>0, <1>1, <1>6, <2>2 DEF Words
  <2>. QED BY <1>1, <1>3, <1>6, <2>3 DEF l
<1>7. CASE c.op = "PUSH_VAL"
  <2>1. l.operands = <<Operand(c.d)>>
    BY <1>0, <1>1, <1>7 DEF Operands
  <2>2. Words(l, b) = <<ByType(l.operands[1])>> /\ l.operands[1] = Operand(c.d)
    BY <1>0, <1>1, <1>7, <2>1 DEF Words
  <2>. QED BY <1>1, <1>2, <1>7, <2>2 DEF l
<1>8. CASE c.op \in ValueWrites
  <2>1. l.operands = <<Operand(c.d)>>
    BY <1>0, <1>1, <1>8 DEF Operands
  <2>2. Words(l, b) = <<ByCate(l.operands[1])>>
    BY <1>0, <1>1, <1>8 DEF Words
  <2>3. l.operands[1] = Operand(c.d)
    BY <2>1
  <2>. QED BY <1>1, <1>2, <1>8, <2>2, <2>3 DEF l
<1>9. CASE c.op = "WRITE_STRING"
  <2>1. Words(l, b) = <<IF b THEN Number("any") ELSE Label(c.d)>>
    BY <1>0, <1>1, <1>9 DEF Words
  <2>. QED BY <1>1, <1>2, <1>9, <2>1 DEF l
<1>10. CASE c.op \notin ThreeOperands \cup ValueWrites \cup
                          {"STORE_VAR", "NEG", "PUSH_VAL", "WRITE_STRING"}
  <2>1. Words(l, b) = IF c.d = NULL THEN <<>> ELSE <<Label(c.d)>>
    BY <1>0, <1>10 DEF Words
  <2>. QED BY <1>10, <2>1 DEF l
<1>. QED BY <1>4, <1>5, <1>6, <1>7, <1>8, <1>9, <1>10

-----------------------------------------------------------------------------
(* The properties                                                          *)

\* When the walk ends every routine has begun.
LEMMA AllBegun ==
  ASSUME WorkInv, DeclInv, pc = "done", NEW p \in Routine
  PROVE  \E i \in DOMAIN code : code[i].op = "FN_START" /\ code[i].d = p
<1>1. work = <<>> /\ RoutinesLeft
  BY DEF WorkInv, DeclInv
<1>2. \A e : e \in Started <=> \E i \in DOMAIN code : code[i].op = "FN_START" /\ code[i].d = e
  <2>1. DOMAIN work = {}
    BY <1>1
  <2>. QED BY <2>1 DEF Started
<1>3. \A q \in Started \cap Routine : Left(q) = {}
  <2>1. \A i \in 1..Len(work) : FALSE
    BY <1>1
  <2>. QED BY <1>1, <2>1 DEF RoutinesLeft
<1>. DEFINE Off == Routine \ Started
<1>4. Off = {}
  <2>. SUFFICES ASSUME Off # {} PROVE FALSE
    OBVIOUS
  <2>1. PICK q \in Off : \A r \in Off : q <= r
    <3>1. Off \subseteq Nat
      BY SymbolFacts DEF Routine
    <3>. HIDE DEF Off
    <3>. QED BY <3>1, LeastNat
  <2>2. q # Main /\ q \in Routine
    BY <1>1, <2>1 DEF RoutinesLeft
  <2>3. Declared[q].stab < q
    BY <2>2, ConstAssumption
  <2>4. Declared[q].stab \in Routine /\ Declared[q].stab \in Nat /\ q \in Nat
    <3>1. Routine \subseteq Nat /\ q \in DOMAIN Declared
      BY <2>2, SymbolFacts DEF Routine
    <3>. QED BY <2>2, <3>1, SymbolFacts
  <2>5. Declared[q].stab \in Started
    BY <2>1, <2>3, <2>4
  <2>6. Left(Declared[q].stab) = {}
    BY <1>3, <2>4, <2>5
  <2>7. q \in InTable(Declared[q].stab, {"PROC", "FUNCTION"})
    BY <2>2 DEF InTable, Routine
  <2>. QED BY <2>1, <2>6, <2>7 DEF Left
<1>. QED BY <1>2, <1>4

\* What the theorems assume of a state whose text is printed.
Printed ==
  /\ WorkInv /\ DeclInv /\ AsmInv
  /\ pc = "done" /\ text # <<>> /\ DOMAIN text = DOMAIN code

LEMMA RoutineElement ==
  ASSUME Printed, NEW p \in Routine
  PROVE  element(p) \in ElementsOf({p}) /\ \A S : p \in S => element(p) \in ElementsOf(S)
<1>1. PICK i \in DOMAIN code : code[i].op = "FN_START" /\ code[i].d = p
  BY AllBegun DEF Printed
<1>2. elements = [j \in {j \in DOMAIN code : code[j].op = "FN_START"} |-> element(code[j].d)]
  BY DEF Printed, AsmInv
<1>3. i \in DOMAIN elements /\ elements[i] = element(p)
  BY <1>1, <1>2
<1>4. element(p) \in Range(elements)
  BY <1>3 DEF Range
<1>5. element(p).fn = p
  BY DEF element
<1>. QED BY <1>4, <1>5 DEF ElementsOf

LEMMA LineRoutine ==
  ASSUME Printed, NEW i \in DOMAIN code, NEW p, InRoutine(code, i, p)
  PROVE  RoutineOf(i) = p
<1>1. i \in Nat /\ DOMAIN code = 1..Len(code) /\ Len(code) \in Nat
  BY DEF Printed, WorkInv, Lines
<1>2. \A k \in 1..i : /\ k \in DOMAIN code /\ text[k].op = code[k].op
                      /\ code[k].op = "FN_START" => text[k].name = code[k].d
  BY <1>1 DEF Printed, AsmInv, Named
<1>. DEFINE Nearest(k) == text[k].op = "FN_START" /\ \A j \in k + 1..i : text[j].op # "FN_START"
            k == CHOOSE k \in 1..i : Nearest(k)
<1>3. \E m \in 1..i : Nearest(m)
  <2>1. PICK m \in 1..i : code[m].op = "FN_START" /\ \A j \in m + 1..i : code[j].op # "FN_START"
    BY DEF InRoutine
  <2>2. \A j \in m + 1..i : j \in 1..i
    BY <1>1
  <2>. QED BY <1>2, <2>1, <2>2
<1>4. k \in 1..i /\ Nearest(k)
  BY <1>3
<1>5. RoutineOf(i) = text[k].name
  BY DEF RoutineOf
<1>. HIDE DEF k
<1>6. InRoutine(code, i, text[k].name)
  <2>1. \A j \in k + 1..i : j \in 1..i
    BY <1>1, <1>4
  <2>2. code[k].op = "FN_START" /\ \A j \in k + 1..i : code[j].op # "FN_START"
    BY <1>2, <1>4, <2>1
  <2>. QED BY <1>2, <1>4, <2>2 DEF InRoutine
<1>. QED BY <1>1, <1>5, <1>6, InRoutineOnce

LEMMA InRoutineClear ==
  ASSUME NEW c, NEW i \in Nat, NEW j \in Nat, i <= j, NEW p, InRoutine(c, i, p),
         \A k \in i + 1..j : c[k].op # "FN_START"
  PROVE  InRoutine(c, j, p)
<1>1. PICK k \in 1..i : /\ c[k].op = "FN_START" /\ c[k].d = p
                        /\ \A l \in k + 1..i : c[l].op # "FN_START"
  BY DEF InRoutine
<1>2. k \in 1..j /\ \A l \in k + 1..j : l \in k + 1..i \/ l \in i + 1..j
  OBVIOUS
<1>. QED BY <1>1, <1>2 DEF InRoutine

\* The label of a jump is marked in the jump's routine.
LEMMA LabelMarked ==
  ASSUME Printed, ShapeInv, NEW i \in DOMAIN code, NEW p, InRoutine(code, i, p),
         code[i].op \in Branches \cup {"JUMP", "LABEL"}, code[i].d # NULL
  PROVE  code[i].d \in Marked(i)
<1>. DEFINE n == Len(code)
            L == Plan(code, work)
<1>1. work = <<>> /\ n \in Nat /\ DOMAIN code = 1..n
  BY DEF Printed, WorkInv, Lines
<1>2. Shaped(L, n) /\ L = [k \in 1..n |-> Mark(code[k].op, code[k].d)]
  <2>1. n + Len(work) = n /\ \A k \in 1..n : k <= n
    BY <1>1
  <2>. QED BY <2>1 DEF ShapeInv, Plan
<1>. HIDE DEF L
<1>3. \A k \in 1..n : /\ L[k].op = "LABEL" <=> code[k].op = "LABEL"
                      /\ L[k].op = "FN_START" <=> code[k].op = "FN_START"
                      /\ code[k].op \in Branches \cup {"JUMP"} => L[k].op \in Jumps
                      /\ L[k].op \in Jumps \cup {"LABEL"} => L[k].d = code[k].d
  <2>1. \A op, d : /\ Mark(op, d).op = "LABEL" <=> op = "LABEL"
                   /\ Mark(op, d).op = "FN_START" <=> op = "FN_START"
                   /\ op \in Branches \cup {"JUMP"} => Mark(op, d).op \in Jumps
                   /\ Mark(op, d).op \in Jumps \cup {"LABEL"} => Mark(op, d).d = d
    BY DEF Mark, Branches, Jumps
  <2>. QED BY <1>2, <2>1
<1>4. \E j \in 1..n : /\ code[j].op = "LABEL" /\ code[j].d = code[i].d
                      /\ InRoutine(code, j, p)
  <2>1. CASE code[i].op = "LABEL"
    BY <1>1, <2>1
  <2>2. CASE code[i].op \in Branches \cup {"JUMP"}
    <3>1. i \in 1..n /\ L[i].op \in Jumps /\ L[i].d = code[i].d
      BY <1>1, <1>3, <2>2
    <3>2. Tied(L, n, i)
      BY <1>2, <3>1 DEF Shaped
    <3>3. PICK j \in 1..n : L[j].op = "LABEL" /\ L[j].d = L[i].d /\ Clear(L, i, j)
      BY <3>1, <3>2 DEF Tied
    <3>4. code[j].op = "LABEL" /\ code[j].d = code[i].d
      BY <1>3, <3>1, <3>3
    <3>5. code[i].op # "FN_START" /\ code[j].op # "FN_START"
      BY <2>2, <3>4 DEF Branches
    <3>6. \A k \in 1..n : (i < k /\ k < j) \/ (j < k /\ k < i) => code[k].op # "FN_START"
      BY <1>1, <1>3, <3>3 DEF Clear, Bounds
    <3>7. CASE i <= j
      <4>1. \A k \in i + 1..j : k = j \/ (k \in 1..n /\ i < k /\ k < j)
        BY <1>1, <3>1
      <4>2. \A k \in i + 1..j : code[k].op # "FN_START"
        BY <3>5, <3>6, <4>1
      <4>3. InRoutine(code, j, p)
        BY <1>1, <3>1, <3>7, <4>2, InRoutineClear
      <4>. QED BY <3>4, <4>3
    <3>8. CASE j <= i
      <4>1. \A k \in j + 1..i : k = i \/ (k \in 1..n /\ j < k /\ k < i)
        BY <1>1, <3>1
      <4>2. \A k \in j + 1..i : code[k].op # "FN_START"
        BY <3>5, <3>6, <4>1
      <4>3. PICK q \in Routine : InRoutine(code, j, q)
        BY DEF Printed, DeclInv
      <4>4. InRoutine(code, i, q)
        BY <1>1, <3>1, <3>8, <4>2, <4>3, InRoutineClear
      <4>5. p = q
        BY <1>1, <3>1, <4>4, InRoutineOnce
      <4>. QED BY <3>4, <4>3, <4>5
    <3>. QED BY <3>1, <3>7, <3>8
  <2>. QED BY <2>1, <2>2
<1>5. PICK j \in 1..n : code[j].op = "LABEL" /\ code[j].d = code[i].d /\ InRoutine(code, j, p)
  BY <1>4
<1>6. j \in DOMAIN code /\ j \in DOMAIN text
  BY <1>1 DEF Printed
<1>7. RoutineOf(j) = RoutineOf(i)
  BY <1>5, <1>6, LineRoutine
<1>8. PICK b \in BOOLEAN : text[j].words = Words(asmbl(code[j]), b)
  BY <1>6 DEF Printed, AsmInv
<1>9. text[j].words = <<Label(code[j].d)>>
  <2>1. "LABEL" \notin ThreeOperands \cup ValueWrites \cup
                         {"STORE_VAR", "NEG", "PUSH_VAL", "WRITE_STRING"}
    BY DEF ThreeOperands, Calculations, Branches, ValueWrites
  <2>. QED BY <1>5, <1>8, <2>1, LineWords
<1>10. text[j].words[1].label = code[i].d
  <2>1. text[j].words[1] = Label(code[j].d)
    BY <1>9
  <2>2. Label(code[j].d).label = code[j].d
    BY DEF Label, Word
  <2>. QED BY <1>5, <2>1, <2>2
<1>11. text[j].op = "LABEL"
  BY <1>5, <1>6 DEF Printed, AsmInv
<1>. QED BY <1>6, <1>7, <1>10, <1>11 DEF Marked

\* A symbol that is known in a routine is declared for its lines.
LEMMA KnownDeclared ==
  ASSUME Printed, NEW i \in DOMAIN code, NEW p \in Routine, InRoutine(code, i, p),
         NEW e, Known(syms, p, e), e # NULL, syms[e].cate \notin {"CONSTANT", "NUMBER"}
  PROVE  \/ ElementsOf({e}) # {}
         \/ \E el \in ElementsOf({RoutineOf(i)}) : e \in Declares(el)
         \/ \E el \in ElementsOf(Enclosing[RoutineOf(i)]) : e \in ToSet(el.args) \cup el.locales
<1>0. RoutineOf(i) = p
  BY LineRoutine
<1>1. CASE e \in Routine
  BY <1>1, RoutineElement
<1>2. CASE syms[e].cate \in {"TEMP", "STRING"} /\ syms[e].stab = p /\ e \in DOMAIN syms
  <2>1. element(p) \in ElementsOf({p})
    BY RoutineElement
  <2>2. e \in element(p).temps \cup element(p).strings
    BY <1>2 DEF element, fn_temps, fn_strings, Scope
  <2>. QED BY <1>0, <2>1, <2>2 DEF Declares
<1>3. ASSUME NEW q \in Enclosing[p], e \in InTable(q, Variables \cup {"ARRAY"})
      PROVE  \E el \in ElementsOf(Enclosing[p]) : e \in ToSet(el.args) \cup el.locales
  <2>1. /\ e \in DOMAIN Declared /\ Declared[e].stab = q /\ Declared[e].cate \in Variables \cup {"ARRAY"}
        /\ q \in Routine
    BY <1>3, SymbolFacts DEF InTable
  <2>2. element(q) \in ElementsOf(Enclosing[p])
    BY <1>3, <2>1, RoutineElement
  <2>3. e \in DOMAIN syms /\ syms[e].cate = Declared[e].cate /\ syms[e].stab = q
    BY <2>1 DEF Printed, WorkInv, DeclInv, Table
  <2>4. CASE Declared[e].cate \in Parameter
    <3>1. e \in InTable(q, Parameter) /\ e \in 1..Len(Declared) /\ Len(Declared) \in Nat
      BY <2>1, <2>4, SymbolFacts DEF InTable
    <3>2. e \in ToSet(phead(q))
      BY <3>1, Collected DEF phead
    <3>3. element(q).args = phead(q)
      BY DEF element, fn_args
    <3>. QED BY <2>2, <3>2, <3>3
  <2>5. CASE Declared[e].cate \in {"VARIABLE", "ARRAY"}
    <3>1. e \in element(q).locales
      BY <2>3, <2>5 DEF element, fn_locales, Scope
    <3>. QED BY <2>2, <3>1
  <2>. QED BY <2>1, <2>4, <2>5 DEF Variables
<1>. QED BY <1>0, <1>1, <1>2, <1>3 DEF Known

\* The labels of a line's words.
LEMMA WordLabels ==
  ASSUME NEW c, NEW b \in BOOLEAN, NEW w \in ToSet(Words(asmbl(c), b)), w.label # NULL
  PROVE  w.label \in {c.d, c.r, c.s}
<1>1. \A e : Label(e).label = e
  BY DEF Label, Word
<1>2. \A e : ByType(Operand(e)).label \in {e, NULL} /\ ByCate(Operand(e)).label \in {e, NULL}
  BY DEF ByType, ByCate, Operand, Label, Number, Word
<1>3. Number("any").label = NULL
  BY DEF Number, Word
<1>4. CASE c.op \in ThreeOperands \cup ValueWrites \cup {"STORE_VAR", "NEG", "PUSH_VAL",
                                                         "WRITE_STRING"}
  BY <1>1, <1>2, <1>3, <1>4, LineWords
<1>5. CASE c.op \notin ThreeOperands \cup ValueWrites \cup
                         {"STORE_VAR", "NEG", "PUSH_VAL", "WRITE_STRING"}
  <2>1. Words(asmbl(c), b) = IF c.d = NULL THEN <<>> ELSE <<Label(c.d)>>
    BY <1>5, LineWords
  <2>2. ToSet(Words(asmbl(c), b)) \subseteq {Label(c.d)}
    BY <2>1 DEF ToSet
  <2>. QED BY <1>1, <2>2
<1>. QED BY <1>4, <1>5

LEMMA PrintedDeclared ==
  ASSUME Printed, ShapeInv
  PROVE  OperandsDeclared
<1>. SUFFICES ASSUME NEW i \in DOMAIN text
              PROVE  /\ text[i].name # NULL => ElementsOf({text[i].name}) # {}
                     /\ \A w \in ToSet(text[i].words) :
                          w.label # NULL /\ syms[w.label].cate \notin {"CONSTANT", "NUMBER"} =>
                            \/ w.label \in Marked(i) \/ ElementsOf({w.label}) # {}
                            \/ \E el \in ElementsOf({RoutineOf(i)}) : w.label \in Declares(el)
                            \/ \E el \in ElementsOf(Enclosing[RoutineOf(i)]) :
                                 w.label \in ToSet(el.args) \cup el.locales
  BY DEF OperandsDeclared
<1>1. i \in DOMAIN code /\ i \in 1..Len(code)
  BY DEF Printed, WorkInv, Lines
<1>2. text[i].name = Named(code[i]) /\ \E b \in BOOLEAN : text[i].words = Words(asmbl(code[i]), b)
  BY <1>1 DEF Printed, AsmInv
<1>3. PICK p \in Routine : InRoutine(code, i, p) /\ Formed(syms, p, code[i])
  BY <1>1 DEF Printed, DeclInv
<1>4. text[i].name # NULL => ElementsOf({text[i].name}) # {}
  <2>1. Named(code[i]) # NULL => Named(code[i]) \in Routine
    BY <1>3 DEF Named, Formed
  <2>. QED BY <1>2, <2>1, RoutineElement
<1>5. ASSUME NEW w \in ToSet(text[i].words), w.label # NULL,
             syms[w.label].cate \notin {"CONSTANT", "NUMBER"}
      PROVE  \/ w.label \in Marked(i) \/ ElementsOf({w.label}) # {}
             \/ \E el \in ElementsOf({RoutineOf(i)}) : w.label \in Declares(el)
             \/ \E el \in ElementsOf(Enclosing[RoutineOf(i)]) :
                  w.label \in ToSet(el.args) \cup el.locales
  <2>. DEFINE e == w.label
  <2>1. e \in {code[i].d, code[i].r, code[i].s}
    BY <1>2, <1>5, WordLabels
  <2>2. e # NULL /\ syms[e].cate \notin {"CONSTANT", "NUMBER"}
    BY <1>5
  <2>. HIDE DEF e
  <2>3. CASE Known(syms, p, e)
    <3>1. \/ ElementsOf({e}) # {}
          \/ \E el \in ElementsOf({RoutineOf(i)}) : e \in Declares(el)
          \/ \E el \in ElementsOf(Enclosing[RoutineOf(i)]) : e \in ToSet(el.args) \cup el.locales
      BY <1>1, <1>3, <2>2, <2>3, KnownDeclared
    <3>. QED BY <3>1 DEF e
  <2>4. CASE e = code[i].d /\ code[i].op \in Branches \cup {"JUMP", "LABEL"}
    <3>1. e \in Marked(i)
      BY <1>1, <1>3, <2>2, <2>4, LabelMarked
    <3>. QED BY <3>1 DEF e
  <2>. QED BY <1>3, <2>1, <2>3, <2>4 DEF Formed
<1>. QED BY <1>4, <1>5

LEMMA PrintedNamed ==
  ASSUME Printed
  PROVE  TempsNamed
<1>. SUFFICES ASSUME NEW i \in DOMAIN text, NEW t \in Temps, t \in Reads(i),
                     syms[t].type # "LITERAL", code[i].op # "PUSH_ADDR"
              PROVE  Label(t) \in ToSet(text[i].words)
  BY DEF TempsNamed
<1>. DEFINE c == code[i]
<1>1. i \in DOMAIN code /\ i \in 1..Len(code)
  BY DEF Printed, WorkInv, Lines
<1>2. PICK b \in BOOLEAN : text[i].words = Words(asmbl(c), b)
  BY <1>1 DEF Printed, AsmInv
<1>3. PICK p \in Routine : InRoutine(code, i, p) /\ Formed(syms, p, c)
  BY <1>1 DEF Printed, DeclInv
<1>4. t \in DOMAIN syms /\ syms[t].cate = "TEMP" /\ t # NULL
  <2>1. t \in DOMAIN syms /\ syms[t].cate = "TEMP"
    BY DEF Temps
  <2>2. \A e \in DOMAIN syms : e # 0
    BY DEF Printed, WorkInv, Table
  <2>. QED BY <2>1, <2>2 DEF NULL
<1>5. ByType(Operand(t)) = Label(t) /\ ByCate(Operand(t)) = Label(t)
  <2>1. Operand(t).type # "LITERAL" /\ Operand(t).cate # "NUMBER" /\ Operand(t).label = t
    BY <1>4 DEF Operand
  <2>. QED BY <2>1 DEF ByType, ByCate
<1>6. t \in {c.d, c.r, c.s}
  BY DEF Reads
<1>7. c.r \in Routine => c.r # t
  <2>1. \A e \in Routine : syms[e].cate # "TEMP"
    <3>1. \A e \in Routine : syms[e].cate = Declared[e].cate /\ Declared[e].cate # "TEMP"
      BY DEF Printed, WorkInv, Table, Routine
    <3>. QED BY <3>1
  <2>. QED BY <1>4, <2>1
<1>8. CASE c.op \in ThreeOperands
  BY <1>2, <1>5, <1>6, <1>8, LineWords
<1>9. CASE c.op \in {"STORE_VAR", "NEG"}
  <2>1. c.s = NULL
    BY <1>3, <1>9 DEF Formed, ThreeOperands, Calculations, Branches
  <2>. QED BY <1>2, <1>4, <1>5, <1>6, <1>9, <2>1, LineWords
<1>10. CASE c.op \in {"PUSH_VAL", "WRITE_STRING"} \cup ValueWrites
  <2>1. c.s = NULL /\ c.r = NULL
    BY <1>3, <1>10 DEF Formed, ThreeOperands, Calculations, Branches, ValueWrites
  <2>2. t = c.d
    BY <1>4, <1>6, <2>1
  <2>3. c.op # "WRITE_STRING"
    BY <1>3, <1>4, <2>2 DEF Formed
  <2>. QED BY <1>2, <1>5, <1>10, <2>2, <2>3, LineWords
<1>11. CASE c.op \notin ThreeOperands \cup ValueWrites \cup
                          {"STORE_VAR", "NEG", "PUSH_VAL", "WRITE_STRING"}
  <2>1. c.s = NULL /\ (c.r = NULL \/ c.r \in Routine)
    BY <1>3, <1>11 DEF Formed
  <2>2. t = c.d
    BY <1>4, <1>6, <1>7, <2>1
  <2>3. text[i].words = <<Label(t)>>
    BY <1>2, <1>4, <1>11, <2>2, LineWords
  <2>. QED BY <2>3 DEF ToSet
<1>. QED BY <1>8, <1>9, <1>10, <1>11

\* The invariants, of the generator and the assembler together.
LEMMA AsmInit0 ==
  ASSUME AsmInit
  PROVE  WorkInv /\ ShapeInv /\ DeclInv /\ AsmInv
BY InitWork, ShapeInit, DeclInit DEF AsmInit, AsmInv

LEMMA AsmSteps ==
  ASSUME WorkInv, ShapeInv, DeclInv, AsmInv, [AsmNext]_asmVars
  PROVE  WorkInv' /\ ShapeInv' /\ DeclInv' /\ AsmInv'
<1>1. [Next]_vars
  BY DEF AsmNext, asmVars, gen_irasm, print_irasm
<1>. QED BY <1>1, NextWork, NextShape, NextDecl, AsmKept

LEMMA PrintedThen ==
  ASSUME WorkInv, DeclInv, AsmInv, text # <<>>
  PROVE  Printed
BY DEF AsmInv, Printed

\* Whatever the text names is declared where its reader looks (gen_irasm,
\* print_ir_fn_elements), in the code of every program.
THEOREM AllDeclared == AsmSpec => []OperandsDeclared
<1>1. AsmInit => WorkInv /\ ShapeInv /\ DeclInv /\ AsmInv
  BY AsmInit0
<1>2. WorkInv /\ ShapeInv /\ DeclInv /\ AsmInv /\ [AsmNext]_asmVars =>
        WorkInv' /\ ShapeInv' /\ DeclInv' /\ AsmInv'
  BY AsmSteps
<1>3. WorkInv /\ ShapeInv /\ DeclInv /\ AsmInv => OperandsDeclared
  <2>1. CASE text = <<>>
    BY <2>1 DEF OperandsDeclared
  <2>2. CASE text # <<>>
    BY <2>2, PrintedThen, PrintedDeclared
  <2>. QED BY <2>1, <2>2
<1>. QED BY <1>1, <1>2, <1>3, PTL DEF AsmSpec

\* The line that reads a temporary names it (the asmbl_ functions), but for
\* literals and the index behind a PUSH_ADDR.
THEOREM TempsAppear == AsmSpec => []TempsNamed
<1>1. AsmInit => WorkInv /\ ShapeInv /\ DeclInv /\ AsmInv
  BY AsmInit0
<1>2. WorkInv /\ ShapeInv /\ DeclInv /\ AsmInv /\ [AsmNext]_asmVars =>
        WorkInv' /\ ShapeInv' /\ DeclInv' /\ AsmInv'
  BY AsmSteps
<1>3. WorkInv /\ ShapeInv /\ DeclInv /\ AsmInv => TempsNamed
  <2>1. CASE text = <<>>
    BY <2>1 DEF TempsNamed
  <2>2. CASE text # <<>>
    BY <2>2, PrintedThen, PrintedNamed
  <2>. QED BY <2>1, <2>2
<1>. QED BY <1>1, <1>2, <1>3, PTL DEF AsmSpec
=============================================================================
