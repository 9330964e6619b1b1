-------------------------------- MODULE IRGen --------------------------------
(***************************************************************************)
(* The code generator (generate.c): the analysed tree is walked and the    *)
(* instructions are appended to the list (ir.c).                           *)
(*                                                                         *)
(* The tree is not stored: each action is one gen_ function, which meets   *)
(* any node the analysis lets through, and the walk's recursion is the     *)
(* list of what is left to do.  A symbol is its sid.                       *)
(***************************************************************************)
EXTENDS IRCode, SequencesExt

CONSTANTS
  Declared,  \* what the program declares: sid -> [cate, type, stab]
  Main,      \* the program's own symbol, declared in its own table
  Relations, \* the conditional branches a condition is made of
  Ops,       \* the operations an expression or a term is made of
  Budget     \* the nodes of the tree, the least of each kind not counted

NULL == 0
Branches == {"BRANCH_EQU", "BRANCH_NEQ", "BRANCH_GTT",
             "BRANCH_GEQ", "BRANCH_LST", "BRANCH_LEQ"}
Routine == {e \in DOMAIN Declared : Declared[e].cate \in {"PROC", "FUNCTION"}}
Parameter == {"BY_VALUE", "BY_REFERENCE"}
Variables == {"VARIABLE"} \cup Parameter

ASSUME ConstAssumption ==
  /\ Declared \in Seq([cate : {"CONSTANT", "PROC", "FUNCTION", "ARRAY"} \cup Variables,
                       type : {"VOID", "INT", "UINT", "CHAR"}, stab : Routine])
  /\ \A e \in DOMAIN Declared : Declared[e].type = "VOID" <=> Declared[e].cate = "PROC"
  /\ Main \in Routine /\ Declared[Main].stab = Main
  /\ \A p \in Routine \ {Main} : Declared[p].stab < p  \* the outer one is declared first
  /\ Relations \subseteq Branches /\ Ops \subseteq {"ADD", "SUB", "MUL", "DIV"} /\ Budget \in Nat

\* A routine stands for its table: scope, a routine's own.  phead is the
\* list of its parameters, in the order they are declared in.
InTable(p, cates) == {e \in DOMAIN Declared : Declared[e].stab = p /\ Declared[e].cate \in cates}
phead(p) ==
  LET first[n \in 0..Len(Declared)] ==
        IF n = 0 THEN <<>>
        ELSE IF n \in InTable(p, Parameter) THEN Append(first[n - 1], n)
        ELSE first[n - 1]
  IN  first[Len(Declared)]
Params == [p \in Routine |-> [i \in DOMAIN phead(p) |-> Declared[phead(p)[i]].cate]]
Enclosing[p \in Routine] == IF p = Main THEN {p} ELSE {p} \cup Enclosing[Declared[p].stab]

VARIABLES
  work,   \* the calls and the loops the generator is in, innermost first
  vals,   \* the symbols gen_expr, gen_term, gen_factor have returned
  code,   \* the list that xhead heads
  syms,   \* every symbol, the allocated ones behind the declared ones
  budget, \* what is left of Budget
  pc      \* "genir", "done", or the unlikely() that ended the run

vars == <<work, vals, code, syms, budget, pc>>

\* One entry of work: the function to enter, or what it does when the
\* calls before it have returned.  In an argument no function is called:
\* infer_factor_type panics on a call when the key is made.
Do(f, op, d, r, inarg) == [do |-> f, op |-> op, d |-> d, r |-> r, inarg |-> inarg]
Gen(f) == Do(f, "", NULL, NULL, FALSE)
Expr(f, inarg) == Do(f, "", NULL, NULL, inarg)
Emit(op, d) == Do("emit1", op, d, NULL, FALSE)
Then(f, op, d, r) == Do(f, op, d, r, FALSE)

Decs(p) == Do("gen_pf_dec_list", "", p, NULL, FALSE)

Inst(op, d, r, s) == [op |-> op, d |-> d, r |-> r, s |-> s]

\* initval is "0", or "written" if it was computed from numbers of the source
Symbol(cate, type, stab, initval) ==
  [cate |-> cate, type |-> type, stab |-> stab, initval |-> initval]

Init ==
  /\ work = <<Decs(Main), Emit("FN_START", Main), Gen("gen_comp_stmt"), Emit("FN_END", Main)>>
  /\ vals = <<>> /\ code = <<>>
  /\ syms = [e \in DOMAIN Declared |->
               Symbol(Declared[e].cate, Declared[e].type, Declared[e].stab,
                      IF Declared[e].cate = "CONSTANT" THEN "written" ELSE "0")]
  /\ budget = Budget /\ pc = "genir"

At(f) == pc = "genir" /\ work # <<>> /\ Head(work).do = f
Now == Head(work)
Walk(items) == work' = items \o Tail(work)
Spend == budget > 0 /\ budget' = budget - 1
Free == UNCHANGED budget

Value(i) == vals[Len(vals) + 1 - i]  \* the i-th last one returned
Returns(n, ds) == vals' = SubSeq(vals, 1, Len(vals) - n) \o ds

\* node->stab: the analysis has put the innermost open scope there, that of
\* the routine whose statements are generated.
Here == code[CHOOSE i \in DOMAIN code :
               /\ code[i].op = "FN_START"
               /\ \A j \in i + 1..Len(code) : code[j].op # "FN_START"].d
Sids(cates) == UNION {InTable(p, cates) : p \in Enclosing[Here]}

New(cate, type, initval) == Append(syms, Symbol(cate, type, Here, initval))
symalloc(cate, type) == New(cate, type, "0")
NewSid == Len(syms) + 1

unlikely(where) ==
  /\ pc' = where
  /\ UNCHANGED <<work, vals, code, syms, budget>>

-----------------------------------------------------------------------------
(* Routines and statements                                                 *)

\* The routines that are generated or being generated.
Started ==
  {code[i].d : i \in {i \in DOMAIN code : code[i].op = "FN_START"}} \cup
  {work[i].d : i \in {i \in DOMAIN work : work[i].op = "FN_START"}}

\* The routines of a table that are left, the one declared first in front.
Left(p) == InTable(p, {"PROC", "FUNCTION"}) \ Started

\* Variant: the inner routines after FN_START.
gen_pf_dec_list_inside ==
  /\ At("gen_pf_dec_list")
  /\ \/ Left(Now.d) = {} /\ Walk(<<>>)
     \/ \E p \in Left(Now.d) :
          /\ \A q \in Left(Now.d) : p <= q
          /\ Walk(<<Emit("FN_START", p), Decs(p), Gen("gen_comp_stmt"), Emit("FN_END", p), Now>>)
  /\ UNCHANGED <<vals, code, syms, budget, pc>>

\* The next routine of the list, its own inner ones first.
gen_pf_dec_list ==
  /\ At("gen_pf_dec_list")
  /\ \/ Left(Now.d) = {} /\ Walk(<<>>)
     \/ \E p \in Left(Now.d) :
          /\ \A q \in Left(Now.d) : p <= q
          /\ Walk(<<Decs(p), Emit("FN_START", p), Gen("gen_comp_stmt"), Emit("FN_END", p), Now>>)
  /\ UNCHANGED <<vals, code, syms, budget, pc>>

gen_comp_stmt ==
  /\ At("gen_comp_stmt")
  /\ \/ Walk(<<Gen("gen_stmt")>>) /\ Free
     \/ Walk(<<Gen("gen_stmt"), Gen("gen_comp_stmt")>>) /\ Spend
  /\ UNCHANGED <<vals, code, syms, pc>>

emit1 ==
  /\ At("emit1")
  /\ code' = Append(code, Inst(Now.op, Now.d, NULL, NULL))
  /\ Walk(<<>>)
  /\ UNCHANGED <<vals, syms, budget, pc>>

null_stmt ==
  /\ At("gen_stmt")
  /\ Walk(<<>>)
  /\ UNCHANGED <<vals, code, syms, budget, pc>>

gen_assign_stmt ==
  /\ At("gen_stmt") /\ Spend
  /\ \/ \E d \in Sids(Variables \cup {"FUNCTION"}) :
          Walk(<<Gen("gen_expr"), Then("store_var", "STORE_VAR", d, NULL)>>)
     \/ \E d \in Sids({"ARRAY"}) :
          Walk(<<Gen("gen_expr"), Gen("gen_expr"),
                 Then("store_array", "STORE_ARRAY", d, NULL)>>)
  /\ UNCHANGED <<vals, code, syms, pc>>

store_var ==
  /\ At("store_var")
  /\ code' = Append(code, Inst(Now.op, Now.d, Value(1), NULL))
  /\ Returns(1, <<>>) /\ Walk(<<>>)
  /\ UNCHANGED <<syms, budget, pc>>

store_array ==
  /\ At("store_array")
  /\ code' = Append(code, Inst(Now.op, Now.d, Value(1), Value(2)))
  /\ Returns(2, <<>>) /\ Walk(<<>>)
  /\ UNCHANGED <<syms, budget, pc>>

\* gen_cond: both sides, then the branch to the label.
gen_cond(label) ==
  {<<Gen("gen_expr"), Gen("gen_expr"), Then("branch", op, label, NULL)>> : op \in Relations}

branch ==
  /\ At("branch")
  /\ code' = Append(code, Inst(Now.op, Now.d, Value(2), Value(1)))
  /\ Returns(2, <<>>) /\ Walk(<<>>)
  /\ UNCHANGED <<syms, budget, pc>>

\* Two labels at once: the statements allocate them in pairs.
TwoLabels == symalloc("LABEL", "VOID") \o <<Symbol("LABEL", "VOID", Here, "0")>>

\* Variant: the jump over the then-part goes to its own beginning.
gen_if_stmt_same ==
  /\ At("gen_stmt") /\ Spend
  /\ syms' = TwoLabels
  /\ LET ifthen == NewSid  ifdone == NewSid + 1
     IN  \E cond \in gen_cond(ifthen), else \in {<<>>, <<Gen("gen_stmt")>>} :
           Walk(cond \o else \o <<Emit("JUMP", ifthen), Emit("LABEL", ifthen),
                Gen("gen_stmt"), Emit("LABEL", ifdone)>>)
  /\ UNCHANGED <<vals, code, pc>>

gen_if_stmt ==
  /\ At("gen_stmt") /\ Spend
  /\ syms' = TwoLabels
  /\ LET ifthen == NewSid  ifdone == NewSid + 1
     IN  \E cond \in gen_cond(ifthen), else \in {<<>>, <<Gen("gen_stmt")>>} :
           Walk(cond \o else \o <<Emit("JUMP", ifdone), Emit("LABEL", ifthen),
                Gen("gen_stmt"), Emit("LABEL", ifdone)>>)
  /\ UNCHANGED <<vals, code, pc>>

gen_repe_stmt ==
  /\ At("gen_stmt") /\ Spend
  /\ syms' = TwoLabels
  /\ LET loopstart == NewSid  loopdone == NewSid + 1
     IN  \E cond \in gen_cond(loopdone) :
           Walk(<<Emit("LABEL", loopstart), Gen("gen_stmt")>> \o cond \o
                <<Emit("JUMP", loopstart), Emit("LABEL", loopdone)>>)
  /\ UNCHANGED <<vals, code, pc>>

gen_for_stmt ==
  /\ At("gen_stmt") /\ Spend
  /\ \E d \in Sids(Variables), step \in {"INC", "DEC"} :
       Walk(<<Gen("gen_expr"), Gen("gen_expr"), Then("for", step, d, NULL)>>)
  /\ UNCHANGED <<vals, code, syms, pc>>

\* gen_for_stmt once it has both bounds.
for_body ==
  /\ At("for")
  /\ syms' = TwoLabels
  /\ LET forstart == NewSid  fordone == NewSid + 1
         up == Now.op = "INC"
     IN  /\ code' = code \o <<Inst("STORE_VAR", Now.d, Value(2), NULL),
                 Inst("LABEL", forstart, NULL, NULL),
                 Inst(IF up THEN "BRANCH_GTT" ELSE "BRANCH_LST", fordone, Now.d, Value(1))>>
         /\ Walk(<<Gen("gen_stmt"), Emit(Now.op, Now.d), Emit("JUMP", forstart),
                   Emit("LABEL", fordone), Emit(IF up THEN "DEC" ELSE "INC", Now.d)>>)
  /\ Returns(2, <<>>)
  /\ UNCHANGED <<budget, pc>>

\* The instruction for a value of each type.
READ_OP == [INT |-> "READ_INT", UINT |-> "READ_UINT", CHAR |-> "READ_CHAR"]
WRITE_OP == [INT |-> "WRITE_INT", UINT |-> "WRITE_UINT", CHAR |-> "WRITE_CHAR",
             LITERAL |-> "WRITE_INT"]

\* One ident of a read list; a read of several is as many reads.
gen_read_stmt ==
  /\ At("gen_stmt") /\ Spend
  /\ \E d \in Sids(Variables) : Walk(<<Emit(READ_OP[Declared[d].type], d)>>)
  /\ UNCHANGED <<vals, code, syms, pc>>

gen_write_stmt ==
  /\ At("gen_stmt") /\ Spend
  /\ \/ /\ Walk(<<Gen("gen_expr"), Then("write", "ID_WRITE", NULL, NULL)>>)
        /\ UNCHANGED syms
     \/ /\ syms' = symalloc("STRING", "STRING")
        /\ \/ Walk(<<Emit("WRITE_STRING", NewSid)>>)
           \/ Walk(<<Emit("WRITE_STRING", NewSid), Gen("gen_expr"),
                     Then("write", "STRID_WRITE", NULL, NULL)>>)
  /\ UNCHANGED <<vals, code, pc>>

\* gen_write_stmt once it has the value: a literal has an instruction in
\* ID_WRITE only.
write ==
  /\ At("write")
  /\ LET type == syms[Value(1)].type
     IN  IF type = "LITERAL" /\ Now.op = "STRID_WRITE"
         THEN unlikely("unlikely_write")
         ELSE /\ code' = Append(code, Inst(WRITE_OP[type], Value(1), NULL, NULL))
              /\ Returns(1, <<>>) /\ Walk(<<>>)
              /\ UNCHANGED <<syms, budget, pc>>

-----------------------------------------------------------------------------
(* Expressions                                                             *)

\* The left-most term, behind its sign if it has one, then the others.
gen_expr ==
  /\ At("gen_expr")
  /\ \/ Walk(<<Expr("gen_term", Now.inarg), Expr("terms", Now.inarg)>>) /\ Free
     \/ \E sign \in {"NEG", "ADD"} :
          /\ Spend
          /\ Walk(<<Expr("gen_term", Now.inarg), Then("sign", sign, NULL, NULL),
                    Expr("terms", Now.inarg)>>)
  /\ UNCHANGED <<vals, code, syms, pc>>

\* The sign of the left-most term.  A literal is negated at once; a leading
\* plus has no case.
sign ==
  /\ At("sign")
  /\ LET r == Value(1)  type == syms[r].type
     IN  IF Now.op = "ADD" THEN unlikely("unlikely_plus")
         ELSE /\ IF type = "LITERAL"
                 THEN syms' = New("NUMBER", "LITERAL", syms[r].initval) /\ UNCHANGED code
                 ELSE /\ syms' = symalloc("TEMP", type)
                      /\ code' = Append(code, Inst("NEG", NewSid, r, NULL))
              /\ Returns(1, <<NewSid>>) /\ Walk(<<>>)
              /\ UNCHANGED <<budget, pc>>

\* The loops of gen_expr and gen_term over what follows the first one.
terms ==
  /\ At("terms")
  /\ \/ Walk(<<>>) /\ Free
     \/ Spend /\ \E op \in {"ADD", "SUB"} \cap Ops :
          Walk(<<Expr("gen_term", Now.inarg), Then("binary", op, NULL, NULL), Now>>)
  /\ UNCHANGED <<vals, code, syms, pc>>

gen_term ==
  /\ At("gen_term")
  /\ Walk(<<Expr("gen_factor", Now.inarg), Expr("factors", Now.inarg)>>)
  /\ UNCHANGED <<vals, code, syms, budget, pc>>

factors ==
  /\ At("factors")
  /\ \/ Walk(<<>>) /\ Free
     \/ Spend /\ \E op \in {"MUL", "DIV"} \cap Ops :
          Walk(<<Expr("gen_factor", Now.inarg), Then("binary", op, NULL, NULL), Now>>)
  /\ UNCHANGED <<vals, code, syms, pc>>

\* Variant: the result goes into the left operand if that is a temporary.
binary_reuse ==
  /\ At("binary")
  /\ LET e == Value(2)  r == Value(1)
         d == IF syms[e].cate = "TEMP" THEN e ELSE NewSid
     IN  /\ syms' = IF d = e THEN syms ELSE symalloc("TEMP", syms[e].type)
         /\ code' = Append(code, Inst(Now.op, d, e, r))
         /\ Returns(2, <<d>>)
  /\ Walk(<<>>)
  /\ UNCHANGED <<budget, pc>>

\* The result has the type of the left operand.
binary ==
  /\ At("binary")
  /\ LET e == Value(2)  r == Value(1)
     IN  /\ syms' = symalloc("TEMP", syms[e].type)
         /\ code' = Append(code, Inst(Now.op, NewSid, e, r))
  /\ Returns(2, <<NewSid>>) /\ Walk(<<>>)
  /\ UNCHANGED <<budget, pc>>

id_factor ==
  /\ At("gen_factor") /\ Spend
  /\ \E d \in Sids(Variables \cup {"CONSTANT"}) : Returns(0, <<d>>)
  /\ Walk(<<>>)
  /\ UNCHANGED <<code, syms, pc>>

\* UNSIGN_FACTOR, the least of the factors, and CHAR_FACTOR.
number_factor ==
  /\ At("gen_factor")
  /\ \/ syms' = New("NUMBER", "LITERAL", "written") /\ Free
     \/ syms' = New("NUMBER", "CHAR", "written") /\ Spend
  /\ Returns(0, <<NewSid>>) /\ Walk(<<>>)
  /\ UNCHANGED <<code, pc>>

\* The index is an expression of its own, also in an argument.
array_factor ==
  /\ At("gen_factor") /\ Spend
  /\ \E r \in Sids({"ARRAY"}) :
       Walk(<<Gen("gen_expr"), Then("load_array", "LOAD_ARRAY", NULL, r)>>)
  /\ UNCHANGED <<vals, code, syms, pc>>

load_array ==
  /\ At("load_array")
  /\ syms' = symalloc("TEMP", syms[Now.r].type)
  /\ code' = Append(code, Inst(Now.op, NewSid, Now.r, Value(1)))
  /\ Returns(1, <<NewSid>>) /\ Walk(<<>>)
  /\ UNCHANGED <<budget, pc>>

expr_factor ==
  /\ At("gen_factor") /\ Spend
  /\ Walk(<<Expr("gen_expr", Now.inarg)>>)
  /\ UNCHANGED <<vals, code, syms, pc>>

-----------------------------------------------------------------------------
(* Calls                                                                   *)

\* Variant: the arguments in the order they are written.
gen_arg_list_forward(e) ==
  [i \in DOMAIN Params[e] |-> Do("gen_arg", Params[e][i], NULL, NULL, TRUE)]

\* The arguments, the last one first.
gen_arg_list(e) ==
  Reverse([i \in DOMAIN Params[e] |-> Do("gen_arg", Params[e][i], NULL, NULL, TRUE)])

gen_arg ==
  /\ At("gen_arg")
  /\ CASE Now.op = "BY_VALUE" ->
            Walk(<<Expr("gen_expr", TRUE), Then("push", "PUSH_VAL", NULL, NULL)>>)
       [] Now.op = "BY_REFERENCE" ->
            \/ \E d \in Sids({"VARIABLE"}) : Walk(<<Emit("PUSH_ADDR", d)>>)
            \/ \E d \in Sids({"ARRAY"}) :
                 Walk(<<Gen("gen_expr"), Then("push", "PUSH_ADDR", d, NULL)>>)
  /\ UNCHANGED <<vals, code, syms, budget, pc>>

\* PUSH_VAL of the value, or PUSH_ADDR of an array with it as the index.
push ==
  /\ At("push")
  /\ code' = Append(code, IF Now.op = "PUSH_VAL" THEN Inst(Now.op, Value(1), NULL, NULL)
                          ELSE Inst(Now.op, Now.d, Value(1), NULL))
  /\ Returns(1, <<>>) /\ Walk(<<>>)
  /\ UNCHANGED <<syms, budget, pc>>

gen_pcall_stmt ==
  /\ At("gen_stmt") /\ Spend
  /\ \E e \in Sids({"PROC"}) \ {Main} :
       Walk(gen_arg_list(e) \o <<Then("call", "CALL", NULL, e)>>)
  /\ UNCHANGED <<vals, code, syms, pc>>

\* Variant: the value of a call is the function's own symbol.
gen_fcall_stmt_symbol ==
  /\ At("gen_factor") /\ ~Now.inarg /\ Spend
  /\ \E e \in Sids({"FUNCTION"}) :
       /\ syms' = symalloc("TEMP", syms[e].type)
       /\ Walk(gen_arg_list(e) \o <<Then("call", "CALL", e, e)>>)
  /\ UNCHANGED <<vals, code, pc>>

\* The temporary of the result is allocated before the arguments'.
gen_fcall_stmt ==
  /\ At("gen_factor") /\ ~Now.inarg /\ Spend
  /\ \E e \in Sids({"FUNCTION"}) :
       /\ syms' = symalloc("TEMP", syms[e].type)
       /\ Walk(gen_arg_list(e) \o <<Then("call", "CALL", NewSid, e)>>)
  /\ UNCHANGED <<vals, code, pc>>

\* Variant: a call without a result leaves its arguments on the stack.
Pops_function(d, e) == IF d = NULL THEN 0 ELSE Len(Params[e])

\* The POPs behind a call.
Pops(d, e) == Len(Params[e])

call ==
  /\ At("call")
  /\ code' = code \o <<Inst("CALL", Now.d, Now.r, NULL)>> \o
               [i \in 1..Pops(Now.d, Now.r) |-> Inst("POP", NULL, NULL, NULL)]
  /\ Returns(0, IF Now.d = NULL THEN <<>> ELSE <<Now.d>>)
  /\ Walk(<<>>)
  /\ UNCHANGED <<syms, budget, pc>>

-----------------------------------------------------------------------------
genir ==
  /\ pc = "genir" /\ work = <<>>
  /\ pc' = "done"
  /\ UNCHANGED <<work, vals, code, syms, budget>>

Statement ==
  \/ null_stmt \/ gen_assign_stmt \/ gen_if_stmt \/ gen_repe_stmt \/ gen_for_stmt
  \/ gen_pcall_stmt \/ gen_read_stmt \/ gen_write_stmt
  \/ store_var \/ store_array \/ branch \/ for_body \/ write

Expression ==
  \/ gen_expr \/ sign \/ terms \/ gen_term \/ factors \/ binary
  \/ id_factor \/ number_factor \/ array_factor \/ load_array \/ expr_factor
  \/ gen_fcall_stmt \/ gen_arg \/ push \/ call

Next == gen_pf_dec_list \/ gen_comp_stmt \/ emit1 \/ Statement \/ Expression \/ genir

Spec == Init /\ [][Next]_vars

-----------------------------------------------------------------------------
(* Properties                                                              *)

Value_cates == Variables \cup {"CONSTANT", "TEMP", "NUMBER"}
Temps == {t \in DOMAIN syms : syms[t].cate = "TEMP"}

\* The state's types: what an expression has returned is always a symbol
\* that holds a value, of a type that has a value, and when the walk ends
\* nothing is left over.
TypeOK ==
  /\ syms \in Seq([cate : Value_cates \cup {"PROC", "FUNCTION", "ARRAY", "LABEL", "STRING"},
                   type : {"VOID", "INT", "UINT", "CHAR", "LITERAL", "STRING"},
                   stab : Routine, initval : {"0", "written"}])
  /\ \A i \in DOMAIN vals : /\ vals[i] \in DOMAIN syms
                            /\ syms[vals[i]].cate \in Value_cates
                            /\ syms[vals[i]].type \notin {"VOID", "STRING"}
  /\ \A i \in DOMAIN code : {code[i].d, code[i].r, code[i].s} \subseteq DOMAIN syms \cup {NULL}
  /\ budget \in 0..Budget
  /\ pc \in {"genir", "done", "unlikely_plus", "unlikely_write"}
  /\ pc = "done" => work = <<>> /\ vals = <<>>

\* The unmatched pushes in front of each instruction, oldest first.
Pushed[i \in 1..Len(code) + 1] ==
  IF i = 1 THEN <<>>
  ELSE LET before == Pushed[i - 1]  op == code[i - 1].op
       IN  CASE op \in {"PUSH_VAL", "PUSH_ADDR"} -> Append(before, op)
             [] op = "POP" /\ before # <<>> -> Front(before)
             [] OTHER -> before

\* Instructions that begin, end or cut short a statement.
Outside == Branches \cup {"STORE_VAR", "STORE_ARRAY", "JUMP", "LABEL", "INC", "DEC",
                          "FN_START", "FN_END", "WRITE_INT", "WRITE_UINT",
                          "WRITE_CHAR", "WRITE_STRING",
                          "READ_INT", "READ_UINT", "READ_CHAR"}

\* The argument stack is balanced (gen_arg_list, gen_pcall_stmt,
\* gen_fcall_stmt): no jump, label, store or routine's end is reached with
\* an argument still pushed, also where the index of an array argument
\* calls a function between two pushes.
StackBalanced ==
  \A i \in DOMAIN code : code[i].op \in Outside => Pushed[i] = <<>>

\* A call finds its arguments on top of the stack, the first parameter's on
\* the very top, a value or an address as the parameter's category says
\* (anlys_arg_list's refsym and gen_arg_list's order agree).
ArgumentsOnTop ==
  \A i \in DOMAIN code : code[i].op = "CALL" =>
    LET n == Len(Params[code[i].r])
        stack == Pushed[i]
    IN  /\ Len(stack) >= n
        /\ \A k \in 1..n :
             stack[Len(stack) + 1 - k] =
               IF Params[code[i].r][k] = "BY_VALUE" THEN "PUSH_VAL" ELSE "PUSH_ADDR"

Defines(i) ==
  IF code[i].op \in {"ADD", "SUB", "MUL", "DIV", "NEG", "LOAD_ARRAY", "CALL"}
  THEN code[i].d ELSE NULL
Reads(i) == {code[i].r, code[i].s} \cup (IF Defines(i) = NULL THEN {code[i].d} ELSE {})

\* Every temporary is defined by one instruction and read by one at most,
\* behind it, and whatever jumps to a label between the two is itself behind
\* the definition: no path reads a temporary that was not computed on it.
\* The bound of a for loop is the one read in a loop it is computed before.
TempsComputedFirst ==
  \A t \in Temps :
    LET defs == {i \in DOMAIN code : Defines(i) = t}
        uses == {i \in DOMAIN code : t \in Reads(i)}
    IN  /\ Cardinality(defs) <= 1 /\ Cardinality(uses) <= 1
        /\ \A u \in uses : \E d \in defs :
             /\ d < u
             /\ \A k \in d..u : code[k].op = "LABEL" =>
                  \A j \in DOMAIN code :
                    code[j].op \in Branches \cup {"JUMP"} /\ code[j].d = code[k].d => j > d

\* The list as the optimizer reads it (partition_basic_blocks, is_bound,
\* is_branch).
Skeleton ==
  [i \in DOMAIN code |->
     CASE code[i].op \in Branches -> [op |-> "BRANCH", d |-> code[i].d]
       [] code[i].op \in {"JUMP", "LABEL", "FN_START", "FN_END"} ->
            [op |-> code[i].op, d |-> code[i].d]
       [] OTHER -> [op |-> "OTHER"]]

\* What is generated is what the flow graph is built from: routines never
\* nested in each other though their declarations are, each label marked
\* once and jumped to once, from its own routine.
FlowGraphInput == pc = "done" => WellFormed(Skeleton)
=============================================================================
