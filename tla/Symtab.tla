------------------------------- MODULE Symtab -------------------------------
(***************************************************************************)
(* The symbol tables of the compiler (symtab.c): one table per routine,    *)
(* kept after its scope is left because code generation goes on allocating *)
(* in it, and the list of scopes that are open.  This module has the state *)
(* and the operations; Analysis has the callers.                           *)
(*                                                                         *)
(* A symtab_t is its tid, an index of tabs; a syment_t is its sid, an      *)
(* index of syms.  NULL is 0.  The list that top heads and outer links is  *)
(* the sequence scopes, innermost last; depth is its length.  A bucket is  *)
(* the chain of sids behind its hair entry, first to last.                 *)
(*                                                                         *)
(* Names are abstract.  A key is a name and the sequence of type suffixes  *)
(* make_symkey appends to it: the suffixes begin with an underscore, which *)
(* the scanner never puts in an identifier, so the concatenation of the    *)
(* two is as good as the pair.                                             *)
(***************************************************************************)
EXTENDS Naturals, Sequences, FiniteSets

CONSTANTS
  Name,        \* the identifiers of the source program
  MainFunc,    \* MAINFUNC, the entry point's name
  ScalarType,  \* the types an identifier may have
  ArrLen,      \* the lengths an array may have
  Bucket,      \* the bucket indices, 0..MAXBUCKETS-1 in the code
  Hash(_),     \* the bucket of a key
  MAXSYMENT,   \* the size of the array syments
  MaxParam     \* bound: no parameter list is longer

Type == {"VOID", "INT", "UINT", "CHAR"}
Key == Name \X UNION {[1..n -> Type] : n \in 0..MaxParam}
EntryKey == <<MainFunc, <<>>>>
GenKey == <<"@", <<>>>>

ASSUME ConstAssumption ==
  /\ {MainFunc, "@"} \cap Name = {}   \* neither "_start" nor "@..." is lexed
  /\ ScalarType \subseteq Type
  /\ ArrLen \subseteq Nat
  /\ MAXSYMENT \in Nat \ {0} /\ MaxParam \in Nat
  /\ \A k \in Key \cup {EntryKey, GenKey} : Hash(k) \in Bucket

VARIABLES
  tabs,     \* tid -> [nspace, funcsym, argoff, varoff, tmpoff]
  buckets,  \* tid -> bucket -> chain of sids
  syms,     \* sid -> the symbol entry
  scopes    \* the tids of the open scopes, outermost first

symtabVars == <<tabs, buckets, syms, scopes>>

top == scopes[Len(scopes)]

-----------------------------------------------------------------------------
(* Categories (cate_t).  Those of syminit2 and those of symalloc.          *)

RoutineCate == {"PROC", "FUNCTION"}
ParamCate == {"BY_VALUE", "BY_REFERENCE"}
LocalCate == {"VARIABLE", "ARRAY"} \cup RoutineCate
DeclCate == {"CONSTANT"} \cup LocalCate \cup ParamCate
AllocCate == {"TEMP", "NUMBER", "LABEL", "STRING"}

-----------------------------------------------------------------------------
(* Lookup                                                                  *)

\* Variant: the chain is not searched for the name.
getsym_head(t, key) ==
  LET chain == buckets[t][Hash(key)] IN IF chain = <<>> THEN 0 ELSE chain[1]

\* getsym: the first entry of the key's bucket whose name is the key.
getsym(t, key) ==
  LET chain == buckets[t][Hash(key)]
      hits == {i \in DOMAIN chain : syms[chain[i]].key = key}
  IN  IF hits = {} THEN 0
      ELSE chain[CHOOSE i \in hits : \A j \in hits : i <= j]

symget(key) == getsym(top, key)

\* symfind: getsym in the innermost open scope that knows the key.
symfind(key) ==
  LET levels == {i \in DOMAIN scopes : getsym(scopes[i], key) # 0}
  IN  IF levels = {} THEN 0
      ELSE getsym(scopes[CHOOSE i \in levels : \A j \in levels : i >= j], key)

-----------------------------------------------------------------------------
(* Insertion                                                               *)

\* putsym has an entry for every sid below MAXSYMENT - 1 and panics after.
Room_to_the_end == Len(syms) + 1 <= MAXSYMENT  \* Variant: one sid too many.
Room == Len(syms) + 2 < MAXSYMENT

NewTable(nspace) ==
  [nspace |-> nspace, funcsym |-> 0, argoff |-> 0, varoff |-> 1, tmpoff |-> 0]

\* scope_entry
scope_entry(nspace) ==
  /\ tabs' = Append(tabs, NewTable(nspace))
  /\ buckets' = Append(buckets, [b \in Bucket |-> <<>>])
  /\ scopes' = Append(scopes, Len(tabs) + 1)

\* scope_exit: the table stays, for code generation.
scope_exit ==
  /\ scopes' = SubSeq(scopes, 1, Len(scopes) - 1)
  /\ UNCHANGED <<tabs, buckets, syms>>

\* The offset syminit2 and symalloc give an entry of a category.
Offset(tab, cate) ==
  CASE cate \in LocalCate -> tab.varoff
    [] cate \in ParamCate -> tab.argoff
    [] cate = "TEMP" -> tab.varoff + tab.tmpoff
    [] OTHER -> 0

\* How much of the frame's local part the entry takes.
Extent(cate, len) ==
  IF cate = "ARRAY" THEN len
  ELSE IF cate \in LocalCate \cup {"TEMP"} THEN 1 ELSE 0

\* Variant: an array takes one slot.
Allocate_word(tab, cate, len) ==
  [tab EXCEPT
     !.varoff = IF cate \in LocalCate THEN @ + 1 ELSE @,
     !.argoff = IF cate \in ParamCate THEN @ + 1 ELSE @,
     !.tmpoff = IF cate = "TEMP" THEN @ + 1 ELSE @]

\* Variant: temporaries are counted among the locals.
Allocate_temp_local(tab, cate, len) ==
  [tab EXCEPT
     !.varoff = IF cate \in LocalCate \cup {"TEMP"} THEN @ + Extent(cate, len) ELSE @,
     !.argoff = IF cate \in ParamCate THEN @ + 1 ELSE @]

\* The table after it has given an entry its offset.
Allocate(tab, cate, len) ==
  [tab EXCEPT
     !.varoff = IF cate \in LocalCate THEN @ + Extent(cate, len) ELSE @,
     !.argoff = IF cate \in ParamCate THEN @ + 1 ELSE @,
     !.tmpoff = IF cate = "TEMP" THEN @ + 1 ELSE @]

Entry(tab, t, key, cate, type, len) ==
  [key |-> key, cate |-> cate, type |-> type, arrlen |-> len,
   off |-> Offset(tab, cate), stab |-> t, scope |-> 0, phead |-> <<>>]

\* Variant: the sid is taken before the counter is advanced.
putsym_early(bs, key) == [bs EXCEPT ![Hash(key)] = <<Len(syms)>> \o @]

\* putsym: the new sid becomes the head of its bucket's chain.
putsym(bs, key) == [bs EXCEPT ![Hash(key)] = <<Len(syms) + 1>> \o @]

\* syminit2: a new declared entry in table t.
syminit2(t, key, cate, type, len) ==
  /\ syms' = Append(syms, Entry(tabs[t], t, key, cate, type, len))
  /\ tabs' = [tabs EXCEPT ![t] = Allocate(@, cate, len)]
  /\ buckets' = [buckets EXCEPT ![t] = putsym(@, key)]

\* symalloc: a temporary, label, number or string.  The names it is given
\* begin with "@", so no lookup ever finds the entry; its type is not kept.
symalloc(t, cate) ==
  /\ syms' = Append(syms, Entry(tabs[t], t, GenKey, cate, "VOID", 0))
  /\ tabs' = [tabs EXCEPT ![t] = Allocate(@, cate, 0)]
  /\ buckets' = [buckets EXCEPT ![t] = putsym(@, GenKey)]

-----------------------------------------------------------------------------
(* Types                                                                   *)

KnownKey == Key \cup {EntryKey, GenKey}
TableType ==
  [nspace : Name \cup {MainFunc}, funcsym : Nat,
   argoff : Nat, varoff : Nat, tmpoff : Nat]
SymType ==
  [key : KnownKey, cate : DeclCate \cup AllocCate, type : Type, arrlen : Nat,
   off : Nat, stab : Nat, scope : Nat, phead : Seq(Nat)]

\* The tables have their types, and every tid and sid in them is the index
\* of a table and a symbol there is, or NULL where the code allows it.
TablesOK ==
  /\ tabs \in Seq(TableType)
  /\ buckets \in Seq([Bucket -> Seq(Nat)])
  /\ syms \in Seq(SymType)
  /\ scopes \in Seq(Nat)
  /\ Len(buckets) = Len(tabs)
  /\ \A t \in 1..Len(tabs) :
       /\ tabs[t].funcsym <= Len(syms)
       /\ \A b \in Bucket : \A i \in 1..Len(buckets[t][b]) :
            buckets[t][b][i] \in 1..Len(syms)
  /\ \A e \in 1..Len(syms) :
       /\ syms[e].stab \in 1..Len(tabs)
       /\ syms[e].scope <= Len(tabs)
       /\ \A i \in 1..Len(syms[e].phead) : syms[e].phead[i] \in 1..Len(syms)
  /\ \A i \in 1..Len(scopes) : scopes[i] \in 1..Len(tabs)
=============================================================================
