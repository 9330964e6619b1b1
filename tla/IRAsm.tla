-------------------------------- MODULE IRAsm --------------------------------
(***************************************************************************)
(* The IR assembler (irassembler.c) behind the code generator: gen_irasm   *)
(* copies what it needs of each instruction into a line of its own result  *)
(* and collects what the routines declare; the printers turn the lines     *)
(* into text.                                                              *)
(*                                                                         *)
(* A label is the sid it is made from, a name that of the symbol that has  *)
(* it.  The columns of the text and the frame's offsets are left out.      *)
(***************************************************************************)
EXTENDS IRGen

VARIABLES
  result,   \* irasm_result: a line for each instruction
  elements, \* fn_ir_elements: what a routine declares, at the place it begins at
  text      \* the lines as they are printed, each the sequence of its words

asmVars == <<vars, result, elements, text>>

AsmInit == Init /\ result = <<>> /\ elements = <<>> /\ text = <<>>

-----------------------------------------------------------------------------
(* gen_irasm                                                               *)

Calculations == {"ADD", "SUB", "MUL", "DIV"}
ThreeOperands == Calculations \cup Branches \cup {"LOAD_ARRAY", "STORE_ARRAY"}
ValueWrites == {"WRITE_INT", "WRITE_UINT", "WRITE_CHAR"}

\* What of an operand is copied.
Operand(e) == [label |-> e, cate |-> syms[e].cate, type |-> syms[e].type,
               initval |-> syms[e].initval]

\* Variant: the type of s is taken from r.
Operands_type(c) ==
  CASE c.op \in ThreeOperands -> <<Operand(c.r), [Operand(c.s) EXCEPT !.type = syms[c.r].type]>>
    [] c.op \in {"STORE_VAR", "NEG"} -> <<Operand(c.r)>>
    [] c.op \in {"PUSH_VAL"} \cup ValueWrites -> <<Operand(c.d)>>
    [] OTHER -> <<>>

\* The operands that are copied with their types.  PUSH_ADDR's index and
\* whatever a WRITE_STRING's second argument is to be are not among them.
Operands(c) ==
  CASE c.op \in ThreeOperands -> <<Operand(c.r), Operand(c.s)>>
    [] c.op \in {"STORE_VAR", "NEG"} -> <<Operand(c.r)>>
    [] c.op \in {"PUSH_VAL"} \cup ValueWrites -> <<Operand(c.d)>>
    [] OTHER -> <<>>

\* The routine whose name is copied.
Named(c) == CASE c.op = "CALL" -> c.r
              [] c.op \in {"FN_START", "FN_END"} -> c.d
              [] OTHER -> NULL

asmbl(c) == [op |-> c.op, name |-> Named(c), label |-> c.d, operands |-> Operands(c)]

\* The symbols of a routine's table, its scope.
Scope(p, cates) == {e \in DOMAIN syms : syms[e].stab = p /\ syms[e].cate \in cates}

\* Variant: arrays have no element.
fn_locales_scalars(p) == Scope(p, {"VARIABLE"})

fn_args(p) == phead(p)
fn_locales(p) == Scope(p, {"VARIABLE", "ARRAY"})
fn_temps(p) == Scope(p, {"TEMP"})
fn_strings(p) == Scope(p, {"STRING"})

element(p) == [fn |-> p, args |-> fn_args(p), locales |-> fn_locales(p),
               temps |-> fn_temps(p), strings |-> fn_strings(p)]

gen_irasm ==
  /\ pc = "done" /\ result = <<>>
  /\ result' = [i \in DOMAIN code |-> asmbl(code[i])]
  /\ elements' = [i \in {i \in DOMAIN code : code[i].op = "FN_START"} |-> element(code[i].d)]
  /\ UNCHANGED <<vars, text>>

-----------------------------------------------------------------------------
(* The printers                                                            *)

Word(label, number) == [label |-> label, number |-> number]
Label(e) == Word(e, "")
Number(n) == Word(NULL, n)

\* A literal as its number, whatever else has its type as its label.
ByType(o) == IF o.type = "LITERAL" THEN Number(o.initval) ELSE Label(o.label)
ByCate(o) == IF o.cate = "NUMBER" THEN Number(o.initval) ELSE Label(o.label)

\* The words of a line.  A WRITE_STRING looks at two arguments that were
\* never set: as they happen to be, a number is printed for the label.
Words(l, number) ==
  CASE l.op \in ThreeOperands ->
         <<Label(l.label), ByType(l.operands[1]), ByType(l.operands[2])>>
    [] l.op = "STORE_VAR" -> <<Label(l.label), ByType(l.operands[1])>>
    [] l.op = "NEG" -> <<Label(l.label), Label(l.operands[1].label)>>
    [] l.op = "PUSH_VAL" -> <<ByType(l.operands[1])>>
    [] l.op \in ValueWrites -> <<ByCate(l.operands[1])>>
    [] l.op = "WRITE_STRING" -> <<IF number THEN Number("any") ELSE Label(l.label)>>
    [] OTHER -> IF l.label = NULL THEN <<>> ELSE <<Label(l.label)>>

print_irasm ==
  /\ result # <<>> /\ text = <<>>
  /\ \E numbers \in SUBSET {i \in DOMAIN result : result[i].op = "WRITE_STRING"} :
       text' = [i \in DOMAIN result |->
                  [op |-> result[i].op, name |-> result[i].name,
                   words |-> Words(result[i], i \in numbers)]]
  /\ UNCHANGED <<vars, result, elements>>

\* The labels print_ir_fn_elements prints for a routine.
Declares(el) ==
  {el.fn} \cup ToSet(el.args) \cup el.locales \cup el.temps \cup el.strings

AsmNext ==
  \/ Next /\ UNCHANGED <<result, elements, text>>
  \/ gen_irasm
  \/ print_irasm

AsmSpec == AsmInit /\ [][AsmNext]_asmVars

-----------------------------------------------------------------------------
(* Properties                                                              *)

RoutineOf(i) ==
  text[CHOOSE k \in 1..i : /\ text[k].op = "FN_START"
                          /\ \A j \in k + 1..i : text[j].op # "FN_START"].name
ElementsOf(routines) == {el \in Range(elements) : el.fn \in routines}
Marked(i) == {text[j].words[1].label :
                j \in {j \in DOMAIN text : text[j].op = "LABEL" /\ RoutineOf(j) = RoutineOf(i)}}

\* Whatever a printed line names is declared where the reader of the text
\* looks for it (asmbl_fn_start_op, print_ir_fn_elements): a temporary, a
\* string or a label in the line's own routine, an argument or a local in one
\* whose scope is open there, and a routine that is called or whose result is
\* set has an element.  Constants and numbers are declared nowhere.
OperandsDeclared ==
  \A i \in DOMAIN text :
    /\ text[i].name # NULL => ElementsOf({text[i].name}) # {}
    /\ \A w \in ToSet(text[i].words) :
         w.label # NULL /\ syms[w.label].cate \notin {"CONSTANT", "NUMBER"} =>
           \/ w.label \in Marked(i) \/ ElementsOf({w.label}) # {}
           \/ \E el \in ElementsOf({RoutineOf(i)}) : w.label \in Declares(el)
           \/ \E el \in ElementsOf(Enclosing[RoutineOf(i)]) :
                w.label \in ToSet(el.args) \cup el.locales

\* What an instruction computes with a type of its own gets through to the
\* text: the line of the instruction that reads it names it.  The index
\* behind a PUSH_ADDR is lost (asmbl_push_addr_op).
TempsNamed ==
  \A i \in DOMAIN text, t \in Temps :
    t \in Reads(i) /\ syms[t].type # "LITERAL" /\ code[i].op # "PUSH_ADDR" =>
      Label(t) \in ToSet(text[i].words)

\* "LITERAL_TYPE" (symtab.h) is the type of a number of the source, and
\* "d, e, x" (ADD_OP in ir.h) an instruction's result and operands: a number
\* that is printed for an operand is one the source has.
NumbersWritten ==
  \A i \in DOMAIN text : text[i].op # "WRITE_STRING" =>
    \A w \in ToSet(text[i].words) : w.number \in {"", "written"}
=============================================================================
