------------------------------ MODULE Analysis ------------------------------
(***************************************************************************)
(* Semantic analysis (anlysis.c) and the allocation of symbols that        *)
(* follows it, over the tables of Symtab.                                  *)
(*                                                                         *)
(* The program under analysis is not a constant: every step chooses the    *)
(* next declaration, parameter, statement or end of block the grammar      *)
(* allows there, so a behaviour is the walk over one program and all       *)
(* programs within the bounds are walked.  The walk of a block goes        *)
(* through the sections const, var, routines, statements in that order;    *)
(* pc is the section it has reached.  After a nested routine the walk is   *)
(* back among the routines of the enclosing block, so pc needs no stack.   *)
(*                                                                         *)
(* A statement reaches the tables through the names in it.  Statements     *)
(* and expressions are walked use by use; ref is the last name met and     *)
(* what it resolved to, which the syntax tree keeps in idp.                *)
(*                                                                         *)
(* rescue reports an error and goes on, giveup and panic end the process,  *)
(* chkerr ends it at the end of the phase if anything was reported.        *)
(***************************************************************************)
EXTENDS Symtab

CONSTANTS
  DeclForm,  \* bound: the declarations that programs make besides arrays
  UseForm,   \* bound: the uses of names that statements make, calls by
             \* the category they ask for
  ArgForm,   \* bound: the forms of argument that calls are made with
  MaxTab,    \* bound: no program has more scopes
  MaxGen     \* bound: code generation allocates no more symbols

VARIABLES
  pc,      \* "pgm", "const", "var", "head", "pf", "stmt" or "done"
  head,    \* the routine heading being analysed
  phase,   \* "SEMANTIC", "IR", "CODE_GEN", or "EXIT" once the process ended
  errnum,  \* the last error reported, 0 if none
  ref      \* the last name, as a key, and the symbol a use of it resolved to

vars == <<tabs, buckets, syms, scopes, pc, head, phase, errnum, ref>>

\* error.h
DUPSYM == 110
BADSYM == 111
BADCTG == 112
ERTYPE == 113
BADLEN == 114
BADREF == 115
OBJREF == 106
EPANIC == 996
EABORT == 997

NoHead == [name |-> MainFunc, cate |-> "PROC", type |-> "VOID", phead |-> <<>>]
Ref(key, sid, via, args) == [key |-> key, sid |-> sid, via |-> via, args |-> args]
Plain(name) == <<name, <<>>>>
NoUse(key) == Ref(key, 0, "none", <<>>)

Init ==
  /\ tabs = <<>> /\ buckets = <<>> /\ syms = <<>> /\ scopes = <<>>
  /\ pc = "pgm"
  /\ head = NoHead
  /\ phase = "SEMANTIC"
  /\ errnum = 0
  /\ ref = NoUse(EntryKey)

At(sections) == phase = "SEMANTIC" /\ pc \in sections

rescue_quiet(code) == UNCHANGED errnum  \* Variant: the error is only printed.

\* rescue: the error is kept, the phase goes on.
rescue(code) == errnum' = code

chkerr_never(next) == next  \* Variant: the phase does not look at errnum.

\* chkerr at the end of a phase: the next phase, or the end of the process.
chkerr(next) == IF errnum > 0 THEN "EXIT" ELSE next

\* giveup, panic and unlikely: the process ends with this code.
Exit(code) ==
  /\ errnum' = code
  /\ phase' = "EXIT"
  /\ UNCHANGED <<tabs, buckets, syms, scopes, pc, head>>

-----------------------------------------------------------------------------
(* Declarations                                                            *)

\* anlys_pgm as far as the block: the entry point is declared inside its
\* own scope, and is not the funcsym of that scope.
anlys_pgm ==
  /\ At({"pgm"})
  /\ Room
  /\ LET tab == NewTable(MainFunc)
     IN  /\ tabs' = Append(tabs, Allocate(tab, "FUNCTION", 0))
         /\ syms' = Append(syms, [Entry(tab, Len(tabs) + 1, EntryKey,
                                        "FUNCTION", "INT", 0)
                                  EXCEPT !.scope = Len(tabs) + 1])
  /\ buckets' = Append(buckets, putsym([b \in Bucket |-> <<>>], EntryKey))
  /\ scopes' = Append(scopes, Len(tabs) + 1)
  /\ pc' = "const"
  /\ UNCHANGED <<head, phase, errnum, ref>>

\* The common part of constants, variables and parameters: a name that the
\* innermost scope has already is an error and declares nothing.
DeclareHere(name, cate, type, len) ==
  LET key == <<name, <<>>>>
  IN  IF symget(key) # 0
      THEN rescue(DUPSYM) /\ UNCHANGED <<tabs, buckets, syms>>
      ELSE Room /\ syminit2(top, key, cate, type, len) /\ UNCHANGED errnum

anlys_const_decf(name, type) ==
  /\ At({"const"})
  /\ DeclareHere(name, "CONSTANT", type, 0)
  /\ ref' = NoUse(Plain(name))
  /\ UNCHANGED <<scopes, pc, head, phase>>

anlys_var_decf(name, cate, type, len) ==
  /\ At({"const", "var"})
  /\ DeclareHere(name, cate, type, len)
  /\ pc' = "var"
  /\ ref' = NoUse(Plain(name))
  /\ UNCHANGED <<scopes, head, phase>>

\* anlys_proc_head and anlys_fun_head, up to the parameters.
anlys_head_open(name, cate, type) ==
  /\ At({"const", "var", "pf"})
  /\ Len(tabs) < MaxTab
  /\ scope_entry(name)
  /\ head' = [name |-> name, cate |-> cate, type |-> type, phead |-> <<>>]
  /\ pc' = "head"
  /\ ref' = NoUse(Plain(name))
  /\ UNCHANGED <<syms, phase, errnum>>

\* One parameter of anlys_para_list.  A repeated name is an error, and the
\* list gets the first parameter of that name once more.
anlys_para_list(name, cate, type) ==
  /\ At({"head"})
  /\ Len(head.phead) < MaxParam
  /\ DeclareHere(name, cate, type, 0)
  /\ LET old == symget(<<name, <<>>>>)
     IN  head' = [head EXCEPT
                    !.phead = Append(@, IF old # 0 THEN old ELSE Len(syms) + 1)]
  /\ ref' = NoUse(Plain(name))
  /\ UNCHANGED <<scopes, pc, phase>>

\* Variant: the last parameter is left out of the key.
make_symkey_short(name, phead) ==
  <<name, SubSeq([i \in DOMAIN phead |-> syms[phead[i]].type], 1, Len(phead) - 1)>>

\* The key of a routine: its name and the types of its parameters.
make_symkey(name, phead) == <<name, [i \in DOMAIN phead |-> syms[phead[i]].type]>>

\* The rest of anlys_proc_head and anlys_fun_head: the routine is declared
\* in the enclosing scope.  A key that scope has already is an error, but
\* its entry is tied to the new scope and parameters all the same.
anlys_head_close ==
  /\ At({"head"})
  /\ LET scope == top
         parent == scopes[Len(scopes) - 1]
         key == make_symkey(head.name, head.phead)
         old == getsym(parent, key)
         e == IF old # 0 THEN old ELSE Len(syms) + 1
         Tie(entry) == [entry EXCEPT !.scope = scope, !.phead = head.phead]
     IN  /\ ref' = NoUse(key)
         /\ IF old # 0
            THEN /\ rescue(DUPSYM)
                 /\ syms' = [syms EXCEPT ![old] = Tie(@)]
                 /\ tabs' = [tabs EXCEPT ![scope].funcsym = old]
                 /\ UNCHANGED buckets
            ELSE /\ Room
                 /\ syms' = Append(syms, Tie(Entry(tabs[parent], parent, key,
                                                   head.cate, head.type, 0)))
                 /\ tabs' = [tabs EXCEPT ![parent] = Allocate(@, head.cate, 0),
                                         ![scope].funcsym = e]
                 /\ buckets' = [buckets EXCEPT ![parent] = putsym(@, key)]
                 /\ UNCHANGED errnum
  /\ head' = NoHead
  /\ pc' = "const"
  /\ UNCHANGED <<scopes, phase>>

\* The end of a routine's block: back in the list of routines around it.
anlys_pf_end ==
  /\ At({"const", "var", "pf", "stmt"})
  /\ Len(scopes) > 1
  /\ scope_exit
  /\ pc' = "pf"
  /\ ref' = NoUse(ref.key)
  /\ UNCHANGED <<head, phase, errnum>>

\* The end of anlys_pgm and of analysis: chkerr lets no error pass.
analysis_end ==
  /\ At({"const", "var", "pf", "stmt"})
  /\ Len(scopes) = 1
  /\ scope_exit
  /\ pc' = "done"
  /\ phase' = chkerr("IR")
  /\ ref' = NoUse(ref.key)
  /\ UNCHANGED <<head, errnum>>

-----------------------------------------------------------------------------
(* Statements and expressions: uses of names                               *)

InBlock == At({"const", "var", "pf", "stmt"})

\* A use of a key resolves to sid, or the process ends with the code.
Resolve(key, sid, via, args, code) ==
  IF code # 0
  THEN /\ Exit(code)
       /\ ref' = Ref(key, 0, IF sid = 0 THEN "unknown" ELSE "none", <<>>)
  ELSE /\ ref' = Ref(key, sid, via, args)
       /\ pc' = "stmt"
       /\ UNCHANGED <<tabs, buckets, syms, scopes, head, phase, errnum>>

Find(name) == symfind(Plain(name))
ResolveName(name, via, code) == Resolve(Plain(name), Find(name), via, <<>>, code)
FindErr(name) == IF Find(name) = 0 THEN BADSYM ELSE 0

\* The target of an assignment.  Inside a routine its own name is its
\* result whatever else has the name; no category is checked.
anlys_assign_stmt(name) ==
  /\ InBlock
  /\ IF name = tabs[top].nspace
     THEN Resolve(Plain(name), tabs[top].funcsym, "own", <<>>, 0)
     ELSE ResolveName(name, "name", FindErr(name))

\* The variable of a for, a target of read: no category is checked.
anlys_for_or_read(name) == InBlock /\ ResolveName(name, "name", FindErr(name))

\* anlys_factor on an identifier and on an array element.
IdFactorErr(name) ==
  IF Find(name) = 0 THEN BADSYM
  ELSE IF syms[Find(name)].cate \in {"CONSTANT", "VARIABLE", "TEMP"} \cup ParamCate
       THEN 0 ELSE BADCTG
ArrayFactorErr(name) ==
  IF Find(name) = 0 THEN BADSYM
  ELSE IF syms[Find(name)].cate = "ARRAY" THEN 0 ELSE ERTYPE

anlys_factor(name) ==
  /\ InBlock
  /\ \/ ResolveName(name, "scalar", IdFactorErr(name))
     \/ ResolveName(name, "element", ArrayFactorErr(name))

-----------------------------------------------------------------------------
(* Calls.  An argument is its form and the name in it: a number, a         *)
(* negated number, a character, a variable, an array element, a longer     *)
(* expression that begins with a variable, a function call.                *)

Arg == ((ArgForm \cap {"lit", "neg", "char", "call"}) \X {MainFunc})
         \cup ((ArgForm \cap {"var", "elem", "sum"}) \X Name)

\* infer_factor_type as far as it fails.
InferErr(arg) ==
  CASE arg[1] \in {"var", "sum"} -> FindErr(arg[2])
    [] arg[1] = "elem" -> ArrayFactorErr(arg[2])
    [] arg[1] = "call" -> EPANIC
    [] OTHER -> 0

\* infer_expr_type, and the choice make_symkey2 makes for a literal: signed
\* if it is negated, otherwise as the caller asks.
InferType(arg, literal) ==
  CASE arg[1] = "lit" -> literal
    [] arg[1] = "neg" -> "INT"
    [] arg[1] = "char" -> "CHAR"
    [] OTHER -> syms[Find(arg[2])].type

make_symkey2(name, args, literal) ==
  <<name, [i \in DOMAIN args |-> InferType(args[i], literal)]>>

\* anlys_expr of an argument passed by value.
ExprErr(arg) ==
  CASE arg[1] \in {"var", "sum"} -> IdFactorErr(arg[2])
    [] arg[1] = "elem" -> ArrayFactorErr(arg[2])
    [] OTHER -> 0

\* Variant: the category of what is passed by reference is not looked at.
RefErr_any(arg) == IF arg[1] \notin {"var", "elem"} THEN BADREF ELSE ExprErr(arg)

\* anlys_arg_list on one argument and its parameter.  What is passed by
\* reference is a variable or an array element and nothing else.
RefErr(arg) ==
  IF arg[1] \notin {"var", "elem"} THEN BADREF
  ELSE IF ExprErr(arg) # 0 THEN ExprErr(arg)
  ELSE IF /\ arg[1] = "var"
          /\ syms[Find(arg[2])].cate # "VARIABLE" THEN OBJREF ELSE 0
ArgErr(param, arg) ==
  CASE syms[param].cate = "BY_VALUE" -> ExprErr(arg)
    [] syms[param].cate = "BY_REFERENCE" -> RefErr(arg)
    [] OTHER -> EABORT

\* The error of the first member of a list that has one, else last.
FirstErr(errs, last) ==
  LET bad == {i \in DOMAIN errs : errs[i] # 0}
  IN  IF bad = {} THEN last
      ELSE errs[CHOOSE i \in bad : \A j \in bad : i <= j]

anlys_arg_list(sign, args) ==
  LET params == syms[sign].phead
      both == DOMAIN params \cap DOMAIN args
  IN  FirstErr([i \in both |-> ArgErr(params[i], args[i])],
               IF Len(params) = Len(args) THEN 0 ELSE BADLEN)

\* The key of the routine a call means: literals count as unsigned if that finds
\* anything in any open scope, and as signed otherwise.
CalleeKey(name, args) ==
  LET key == make_symkey2(name, args, "UINT")
  IN  IF symfind(key) # 0 THEN key ELSE make_symkey2(name, args, "INT")

\* anlys_pcall_stmt and anlys_fcall_stmt; they differ in the category they
\* ask for and the error they report.
anlys_call(cate, name, args) ==
  LET inferred == FirstErr([i \in DOMAIN args |-> InferErr(args[i])], 0)
      key == CalleeKey(name, args)
      e == symfind(key)
      code == IF e = 0 THEN BADSYM
              ELSE IF syms[e].cate # cate
                   THEN IF cate = "PROC" THEN BADSYM ELSE ERTYPE
              ELSE IF args = <<>> THEN 0
              ELSE anlys_arg_list(e, args)
  IN  /\ InBlock
      /\ IF inferred # 0
         THEN Exit(inferred) /\ UNCHANGED ref
         ELSE Resolve(key, e, "call", args, code)

-----------------------------------------------------------------------------
(* Code generation, as far as it allocates: generate.c calls symalloc on   *)
(* the table of the scope a node was analysed in, for temporaries, literal *)
(* numbers, labels and strings.  The scopes are closed by then.            *)

genir_alloc(t, cate) ==
  /\ phase = "IR"
  /\ Cardinality({e \in DOMAIN syms : syms[e].cate \in AllocCate}) < MaxGen
  /\ Room
  /\ symalloc(t, cate)
  /\ UNCHANGED <<scopes, pc, head, phase, errnum, ref>>

genir_end ==
  /\ phase = "IR"
  /\ phase' = chkerr("CODE_GEN")
  /\ UNCHANGED <<tabs, buckets, syms, scopes, pc, head, errnum, ref>>

\* putsym panics on the symbol that would leave no room in syments.
NewKeyDue ==
  \/ At({"pgm"})
  \/ phase = "IR" /\ MaxGen > 0
  \/ At({"const", "var"}) /\ \E n \in Name : symget(<<n, <<>>>>) = 0
  \/ /\ At({"head"})
     /\ \/ Len(head.phead) < MaxParam /\ \E n \in Name : symget(<<n, <<>>>>) = 0
        \/ getsym(scopes[Len(scopes) - 1], make_symkey(head.name, head.phead)) = 0
putsym_panic == NewKeyDue /\ ~Room /\ Exit(EPANIC) /\ UNCHANGED ref

-----------------------------------------------------------------------------
Declarations ==
  \/ anlys_pgm
  \/ \E n \in Name, type \in ScalarType :
       \/ "const" \in DeclForm /\ anlys_const_decf(n, type)
       \/ "var" \in DeclForm /\ anlys_var_decf(n, "VARIABLE", type, 0)
       \/ \E len \in ArrLen : anlys_var_decf(n, "ARRAY", type, len)
       \/ "fun" \in DeclForm /\ anlys_head_open(n, "FUNCTION", type)
       \/ \E cate \in ParamCate : anlys_para_list(n, cate, type)
  \/ "proc" \in DeclForm /\ \E n \in Name : anlys_head_open(n, "PROC", "VOID")
  \/ anlys_head_close

Uses ==
  \E n \in Name :
    \/ "assign" \in UseForm /\ anlys_assign_stmt(n)
    \/ "target" \in UseForm /\ anlys_for_or_read(n)
    \/ "factor" \in UseForm /\ anlys_factor(n)
    \/ \E cate \in RoutineCate \cap UseForm, k \in 0..MaxParam :
         \E args \in [1..k -> Arg] : anlys_call(cate, n, args)

Generation ==
  \/ \E t \in DOMAIN tabs, cate \in AllocCate : genir_alloc(t, cate)
  \/ genir_end

Next ==
  \/ Declarations \/ Uses \/ anlys_pf_end \/ analysis_end
  \/ Generation \/ putsym_panic

Spec == Init /\ [][Next]_vars

-----------------------------------------------------------------------------
(* Properties                                                              *)

HeadType ==
  [name : Name \cup {MainFunc}, cate : RoutineCate, type : Type, phead : Seq(Nat)]

\* The types of the variables; the parameters of the heading and what the
\* last use resolved to are symbols there are.
TypeOK ==
  /\ TablesOK
  /\ head \in HeadType
  /\ \A i \in 1..Len(head.phead) : head.phead[i] \in 1..Len(syms)
  /\ pc \in {"pgm", "const", "var", "head", "pf", "stmt", "done"}
  /\ phase \in {"SEMANTIC", "IR", "CODE_GEN", "EXIT"}
  /\ errnum \in Nat
  /\ ref.sid \in 0..Len(syms)

HasSlot(e) == syms[e].cate \in LocalCate \cup {"TEMP"}
SlotEnd(e) == syms[e].off + Extent(syms[e].cate, syms[e].arrlen)

\* "assembly stack mapping" (symtab.h:94-99): in the frame of one routine no
\* two locals, nested routines or temporaries overlap, none is in the return
\* value's slot 0, none is past the frame the FN_START of the routine asks
\* for, and no two arguments share a slot.
SlotsDisjoint ==
  \A d, e \in DOMAIN syms :
    /\ HasSlot(e) => LET tab == tabs[syms[e].stab]
                     IN  1 <= syms[e].off /\ SlotEnd(e) <= tab.varoff + tab.tmpoff
    /\ d # e /\ syms[d].stab = syms[e].stab =>
         /\ HasSlot(d) /\ HasSlot(e) =>
              SlotEnd(d) <= syms[e].off \/ SlotEnd(e) <= syms[d].off
         /\ {syms[d].cate, syms[e].cate} \subseteq ParamCate =>
              syms[d].off # syms[e].off

\* syments[sid] is inside the array syments (symtab.c:122-125).
SidInBounds == Len(syms) < MAXSYMENT

Accepted == phase \in {"IR", "CODE_GEN"}

\* Past chkerr, every scope but the program's is tied to a routine of its
\* own that is declared in another table, and the two point at each other
\* (anlysis.c:284-287): calls, frames and FN_START find each other's data.
RoutineScopes ==
  Accepted =>
    /\ errnum = 0 /\ scopes = <<>>
    /\ \A t \in DOMAIN tabs \ {1} :
         /\ tabs[t].funcsym # 0
         /\ syms[tabs[t].funcsym].cate \in RoutineCate
         /\ syms[tabs[t].funcsym].scope = t
         /\ syms[tabs[t].funcsym].stab < t

\* Past chkerr, the parameters of a routine in the order of its heading are
\* the argument slots 0, 1, ... of its scope and all of them: what a caller
\* pushes in reverse order lies where the callee looks for it.
ParamLayout ==
  Accepted =>
    \A e \in DOMAIN syms :
      syms[e].cate \in RoutineCate =>
        LET ps == syms[e].phead
        IN  /\ tabs[syms[e].scope].argoff = Len(ps)
            /\ \A i \in DOMAIN ps : /\ syms[ps[i]].cate \in ParamCate
                                    /\ syms[ps[i]].stab = syms[e].scope
                                    /\ syms[ps[i]].off = i - 1

\* A call that passes the analysis has as many arguments as the routine it
\* was resolved to has parameters, of their types, literals taken all as
\* unsigned or all as signed, and passes by reference only variables and
\* arrays: the key it was found by says as much as the parameter list.
CallMatches ==
  ref.via = "call" =>
    LET ps == syms[ref.sid].phead
        args == ref.args
    IN  /\ Len(args) = Len(ps)
        /\ \E literal \in {"UINT", "INT"} : \A i \in DOMAIN ps :
             InferType(args[i], literal) = syms[ps[i]].type
        /\ \A i \in DOMAIN ps : syms[ps[i]].cate = "BY_REFERENCE" =>
             /\ args[i][1] \in {"var", "elem"}
             /\ syms[Find(args[i][2])].cate \in {"VARIABLE", "ARRAY"}

\* The last resorts of anlys_arg_list, "arguments and parameters length not
\* equal" and unlikely(), are never reached: the key of a call fixes the
\* number of its parameters, and what is in a parameter list is a parameter.
NoLengthError == errnum \notin {BADLEN, EABORT}

\* symalloc: "from now on, we will NEVER alloc local variables"
\* (symtab.c:323-324).  The locals, the arguments and the routine of a scope
\* that was left never change, so temporaries lie behind all locals.
ClosedFramesFixed ==
  [][\A t \in DOMAIN tabs :
       (\A i \in DOMAIN scopes : scopes[i] # t) =>
         /\ tabs'[t].varoff = tabs[t].varoff
         /\ tabs'[t].argoff = tabs[t].argoff
         /\ tabs'[t].funcsym = tabs[t].funcsym]_vars

-----------------------------------------------------------------------------
(* The tables implement lexical scoping.  The blocks are read off the      *)
(* stab fields of the entries; the code looks things up in the buckets.    *)

Block(t) ==
  LET decls == {e \in DOMAIN syms : syms[e].stab = t}
  IN  [k \in {syms[e].key : e \in decls} |->
         CHOOSE e \in decls : syms[e].key = k]

\* The keys of declarations and uses: a call may be looked up by types that
\* no parameter has.
DeclKey == {EntryKey} \cup Key

Scoping == INSTANCE LexicalScope WITH
  Key <- DeclKey,
  Decl <- 1..MAXSYMENT - 2,
  env <- [i \in DOMAIN scopes |-> Block(scopes[i])],
  owner <- [i \in DOMAIN scopes |-> tabs[scopes[i]].funcsym],
  title <- [i \in DOMAIN scopes |-> Plain(tabs[scopes[i]].nspace)],
  errs <- errnum > 0,
  asked <- ref.key,
  found <- ref.sid,
  mode <- CASE phase = "SEMANTIC" -> "analysing"
            [] phase = "EXIT" -> IF ref.via = "unknown" THEN "unknown" ELSE "rejected"
            [] OTHER -> "accepted"

\* Every step of the analysis is a step of lexical scoping or changes nothing
\* of it: collisions in a bucket, shadowing, duplicates and the declaration
\* of a routine from inside its own scope never bind a name wrongly.
LexicallyScoped == Scoping!Spec
=============================================================================
