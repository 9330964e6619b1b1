--------------------------- MODULE AnalysisProofs ---------------------------
(***************************************************************************)
(* Proofs about Analysis, for every set of names, every hash function,     *)
(* every size of syments and every bound on the program.                   *)
(*                                                                         *)
(* First: its types, that the symbols fit into syments, and that the slots *)
(* of a routine's frame never overlap.  Then, about scopes and what is     *)
(* declared in them: the frame of a scope that was left is fixed, routines,*)
(* scopes and parameter lists point at each other, a call that is accepted *)
(* fits the routine it found, and the tables implement lexical scoping.    *)
(***************************************************************************)
EXTENDS Analysis, NumberFacts, SequenceTheorems, TLAPS

-----------------------------------------------------------------------------
(* What the type invariant says of one table and of one symbol.            *)

LEMMA TableFacts ==
  ASSUME TablesOK, NEW t \in 1..Len(tabs)
  PROVE  /\ tabs[t] \in TableType
         /\ tabs[t].funcsym \in 0..Len(syms)
         /\ \A b \in Bucket : /\ buckets[t][b] \in Seq(Nat)
                              /\ \A i \in 1..Len(buckets[t][b]) :
                                   buckets[t][b][i] \in 1..Len(syms)
<1>1. tabs[t] \in TableType
  BY DEF TablesOK
<1>2. tabs[t].funcsym \in Nat
  BY <1>1 DEF TableType
<1>3. tabs[t].funcsym <= Len(syms)
  BY DEF TablesOK
<1>4. buckets[t] \in [Bucket -> Seq(Nat)]
  BY DEF TablesOK
<1>5. Len(syms) \in Nat
  BY DEF TablesOK
<1>6. \A b \in Bucket : \A i \in 1..Len(buckets[t][b]) : buckets[t][b][i] \in 1..Len(syms)
  BY DEF TablesOK
<1>. QED BY <1>1, <1>2, <1>3, <1>4, <1>5, <1>6

LEMMA SymFacts ==
  ASSUME TablesOK, NEW e \in 1..Len(syms)
  PROVE  /\ syms[e] \in SymType
         /\ syms[e].stab \in 1..Len(tabs)
         /\ syms[e].scope \in 0..Len(tabs)
         /\ syms[e].phead \in Seq(Nat)
         /\ \A i \in 1..Len(syms[e].phead) : syms[e].phead[i] \in 1..Len(syms)
<1>1. syms[e] \in SymType
  BY DEF TablesOK
<1>2. syms[e].scope \in Nat /\ syms[e].phead \in Seq(Nat)
  BY <1>1 DEF SymType
<1>3. /\ syms[e].stab \in 1..Len(tabs)
      /\ syms[e].scope <= Len(tabs)
      /\ \A i \in 1..Len(syms[e].phead) : syms[e].phead[i] \in 1..Len(syms)
  BY DEF TablesOK
<1>4. Len(tabs) \in Nat
  BY DEF TablesOK
<1>. QED BY <1>1, <1>2, <1>3, <1>4

LEMMA LenFacts ==
  ASSUME TablesOK
  PROVE  /\ Len(tabs) \in Nat /\ DOMAIN tabs = 1..Len(tabs)
         /\ Len(syms) \in Nat /\ DOMAIN syms = 1..Len(syms)
         /\ Len(scopes) \in Nat /\ DOMAIN scopes = 1..Len(scopes)
         /\ \A i \in 1..Len(scopes) : scopes[i] \in 1..Len(tabs)
BY DEF TablesOK

-----------------------------------------------------------------------------
(* Lookups return a symbol there is, or NULL.                              *)

LEMMA GetsymType ==
  ASSUME TablesOK, NEW t \in 1..Len(tabs), NEW key \in KnownKey
  PROVE  getsym(t, key) \in 0..Len(syms)
<1>. DEFINE chain == buckets[t][Hash(key)]
            hits == {i \in DOMAIN chain : syms[chain[i]].key = key}
<1>1. Hash(key) \in Bucket
  BY ConstAssumption DEF KnownKey
<1>2. chain \in Seq(Nat) /\ \A i \in 1..Len(chain) : chain[i] \in 1..Len(syms)
  BY <1>1 DEF TablesOK
<1>3. CASE hits = {}
  BY <1>3 DEF getsym, TablesOK
<1>4. CASE hits # {}
  <2>1. hits \subseteq Nat
    BY <1>2
  <2>2. \E i \in hits : \A j \in hits : i <= j
    BY <1>4, <2>1, LeastNat
  <2>. DEFINE first == CHOOSE i \in hits : \A j \in hits : i <= j
  <2>3. first \in hits
    BY <2>2
  <2>4. getsym(t, key) = chain[first]
    BY <1>4 DEF getsym
  <2>5. \A i \in hits : chain[i] \in 1..Len(syms)
    BY <1>2
  <2>. HIDE DEF first, hits, chain
  <2>6. chain[first] \in 1..Len(syms)
    BY <2>3, <2>5
  <2>. QED BY <2>4, <2>6
<1>. QED BY <1>3, <1>4

LEMMA SymfindType ==
  ASSUME TablesOK, NEW key \in KnownKey
  PROVE  symfind(key) \in 0..Len(syms)
<1>. DEFINE levels == {i \in DOMAIN scopes : getsym(scopes[i], key) # 0}
<1>1. CASE levels = {}
  BY <1>1 DEF symfind, TablesOK
<1>2. CASE levels # {}
  <2>1. levels \subseteq 1..Len(scopes) /\ Len(scopes) \in Nat
    BY DEF TablesOK
  <2>2. \E i \in levels : \A j \in levels : i >= j
    BY <1>2, <2>1, GreatestNat
  <2>3. (CHOOSE i \in levels : \A j \in levels : i >= j) \in levels
    BY <2>2
  <2>4. scopes[CHOOSE i \in levels : \A j \in levels : i >= j] \in 1..Len(tabs)
    BY <2>1, <2>3 DEF TablesOK
  <2>. QED BY <1>2, <2>4, GetsymType DEF symfind
<1>. QED BY <1>1, <1>2

-----------------------------------------------------------------------------
(* The operations of the symbol table keep its types.                      *)

\* A symbol with its types, put into the tables that allocated it.
LEMMA PutKeepsTables ==
  ASSUME TablesOK,
         NEW t \in 1..Len(tabs), NEW key \in KnownKey, NEW e \in SymType,
         e.stab = t, e.scope <= Len(tabs),
         \A i \in 1..Len(e.phead) : e.phead[i] \in 1..Len(syms),
         tabs' \in Seq(TableType), Len(tabs') = Len(tabs),
         \A u \in 1..Len(tabs) : tabs'[u].funcsym <= Len(syms) + 1,
         syms' = Append(syms, e),
         buckets' = [buckets EXCEPT ![t] = putsym(@, key)],
         scopes' = scopes
  PROVE  TablesOK'
<1>1. syms' \in Seq(SymType) /\ Len(syms') = Len(syms) + 1
  BY DEF TablesOK
<1>2. \A d \in 1..Len(syms) : syms'[d] = syms[d]
  BY DEF TablesOK
<1>3. syms'[Len(syms) + 1] = e
  BY DEF TablesOK
<1>4. Len(syms) \in Nat /\ Len(tabs) \in Nat /\ Hash(key) \in Bucket
  BY ConstAssumption DEF KnownKey, TablesOK
<1>5. \A d \in 1..Len(syms') :
        /\ syms'[d].stab \in 1..Len(tabs')
        /\ syms'[d].scope <= Len(tabs')
        /\ \A i \in 1..Len(syms'[d].phead) : syms'[d].phead[i] \in 1..Len(syms')
  <2>. TAKE d \in 1..Len(syms')
  <2>1. CASE d = Len(syms) + 1
    BY <2>1, <1>1, <1>3, <1>4
  <2>2. CASE d \in 1..Len(syms)
    BY <2>2, <1>1, <1>2, <1>4, SymFacts, SMTT(30)
  <2>. QED BY <2>1, <2>2, <1>1, <1>4
<1>. DEFINE old == buckets[t][Hash(key)]
            new == <<Len(syms) + 1>> \o old
<1>6. old \in Seq(Nat) /\ \A i \in 1..Len(old) : old[i] \in 1..Len(syms)
  BY <1>4, TableFacts
<1>7. buckets' = [buckets EXCEPT ![t] = [@ EXCEPT ![Hash(key)] = new]]
  BY DEF putsym
<1>. HIDE DEF old
<1>8. new \in Seq(Nat) /\ \A i \in 1..Len(new) : new[i] \in 1..Len(syms) + 1
  <2>1. <<Len(syms) + 1>> \in Seq(Nat) /\ Len(<<Len(syms) + 1>>) = 1
    BY <1>4
  <2>2. /\ new \in Seq(Nat) /\ Len(new) = 1 + Len(old)
        /\ \A i \in 1..1 + Len(old) :
             new[i] = IF i <= 1 THEN <<Len(syms) + 1>>[i] ELSE old[i - 1]
    BY <2>1, <1>6, ConcatProperties
  <2>. HIDE DEF new
  <2>. SUFFICES ASSUME NEW i \in 1..1 + Len(old)
                PROVE  new[i] \in 1..Len(syms) + 1
    BY <2>2
  <2>3. CASE i = 1
    BY <2>2, <2>3, <1>4
  <2>4. CASE i > 1
    <3>1. i - 1 \in 1..Len(old)
      BY <2>4, <1>6
    <3>2. old[i - 1] \in 1..Len(syms)
      BY <3>1, <1>6
    <3>3. new[i] = old[i - 1]
      BY <2>2, <2>4
    <3>. QED BY <3>2, <3>3, <1>4
  <2>. QED BY <2>3, <2>4, <1>6
<1>. HIDE DEF new
<1>9. buckets' \in Seq([Bucket -> Seq(Nat)]) /\ Len(buckets') = Len(buckets)
  <2>. DEFINE row == [buckets[t] EXCEPT ![Hash(key)] = new]
  <2>1. row \in [Bucket -> Seq(Nat)]
    BY <1>4, <1>8 DEF TablesOK
  <2>2. buckets \in Seq([Bucket -> Seq(Nat)]) /\ t \in 1..Len(buckets)
    BY DEF TablesOK
  <2>3. buckets' = [buckets EXCEPT ![t] = row]
    BY <1>7
  <2>. HIDE DEF row
  <2>. QED BY <2>1, <2>2, <2>3, ExceptSeq
<1>10. \A u \in 1..Len(tabs'), b \in Bucket : \A i \in 1..Len(buckets'[u][b]) :
        buckets'[u][b][i] \in 1..Len(syms')
  <2>. TAKE u \in 1..Len(tabs'), b \in Bucket
  <2>1. buckets'[u][b] = IF u = t /\ b = Hash(key) THEN new ELSE buckets[u][b]
    BY <1>4, <1>7, SMTT(30) DEF TablesOK
  <2>2. \A i \in 1..Len(buckets[u][b]) : buckets[u][b][i] \in 1..Len(syms)
    BY TableFacts
  <2>. QED BY <2>1, <2>2, <1>1, <1>4, <1>8, SMTT(30)
<1>. QED BY <1>1, <1>4, <1>5, <1>9, <1>10 DEF TablesOK

LEMMA EntryType ==
  ASSUME NEW tab \in TableType, NEW t \in Nat, NEW key \in KnownKey,
         NEW cate \in DeclCate \cup AllocCate, NEW type \in Type, NEW len \in Nat
  PROVE  /\ Entry(tab, t, key, cate, type, len) \in SymType
         /\ Offset(tab, cate) \in Nat /\ Extent(cate, len) \in Nat
         /\ Allocate(tab, cate, len) \in TableType
         /\ Allocate(tab, cate, len).funcsym = tab.funcsym
<1>1. Offset(tab, cate) \in Nat
  BY DEF Offset, TableType
<1>2. Extent(cate, len) \in Nat
  BY DEF Extent
<1>3. <<>> \in Seq(Nat)
  OBVIOUS
<1>4. Entry(tab, t, key, cate, type, len) \in SymType
  BY <1>1, <1>3 DEF Entry, SymType
<1>5. Allocate(tab, cate, len) \in TableType
  <2>. DEFINE va == IF cate \in LocalCate THEN tab.varoff + Extent(cate, len) ELSE tab.varoff
              ar == IF cate \in ParamCate THEN tab.argoff + 1 ELSE tab.argoff
              tm == IF cate = "TEMP" THEN tab.tmpoff + 1 ELSE tab.tmpoff
  <2>1. va \in Nat
    BY <1>2 DEF TableType
  <2>2. ar \in Nat /\ tm \in Nat
    BY DEF TableType
  <2>3. Allocate(tab, cate, len) =
          [tab EXCEPT !.varoff = va, !.argoff = ar, !.tmpoff = tm]
    BY DEF Allocate, TableType
  <2>. HIDE DEF va, ar, tm
  <2>. QED BY <2>1, <2>2, <2>3 DEF TableType
<1>6. Allocate(tab, cate, len).funcsym = tab.funcsym
  BY DEF Allocate, TableType
<1>. QED BY <1>1, <1>2, <1>4, <1>5, <1>6

LEMMA SyminitKeepsTables ==
  ASSUME TablesOK,
         NEW t \in 1..Len(tabs), NEW key \in KnownKey, NEW cate \in DeclCate,
         NEW type \in Type, NEW len \in Nat,
         syminit2(t, key, cate, type, len), scopes' = scopes
  PROVE  TablesOK' /\ Len(syms') = Len(syms) + 1
<1>. DEFINE e == Entry(tabs[t], t, key, cate, type, len)
<1>1. tabs[t] \in TableType /\ t \in Nat /\ Len(syms) \in Nat
  BY DEF TablesOK
<1>2. e \in SymType /\ Allocate(tabs[t], cate, len) \in TableType
      /\ Allocate(tabs[t], cate, len).funcsym = tabs[t].funcsym
  BY <1>1, EntryType
<1>3. e.stab = t /\ e.scope = 0 /\ e.phead = <<>>
  BY DEF Entry
<1>4. /\ tabs' = [tabs EXCEPT ![t] = Allocate(tabs[t], cate, len)]
      /\ syms' = Append(syms, e)
      /\ buckets' = [buckets EXCEPT ![t] = putsym(@, key)]
  BY DEF syminit2
<1>5. tabs' \in Seq(TableType) /\ Len(tabs') = Len(tabs)
  BY <1>2, <1>4 DEF TablesOK
<1>6. \A u \in 1..Len(tabs) : tabs'[u].funcsym <= Len(syms) + 1
  <2>1. \A u \in 1..Len(tabs) : tabs'[u].funcsym = tabs[u].funcsym
    BY <1>2, <1>4 DEF TablesOK
  <2>2. \A u \in 1..Len(tabs) : tabs[u].funcsym \in 0..Len(syms)
    BY TableFacts
  <2>. QED BY <1>1, <2>1, <2>2
<1>. HIDE DEF e
<1>7. TablesOK'
  <2>1. e.scope <= Len(tabs) /\ \A i \in 1..Len(e.phead) : e.phead[i] \in 1..Len(syms)
    BY <1>3 DEF TablesOK
  <2>. QED BY <2>1, <1>2, <1>3, <1>4, <1>5, <1>6, PutKeepsTables
<1>8. syms \in Seq(SymType)
  BY DEF TablesOK
<1>. QED BY <1>2, <1>4, <1>7, <1>8

LEMMA SymallocKeepsTables ==
  ASSUME TablesOK,
         NEW t \in 1..Len(tabs), NEW cate \in AllocCate,
         symalloc(t, cate), scopes' = scopes
  PROVE  TablesOK' /\ Len(syms') = Len(syms) + 1
<1>. DEFINE e == Entry(tabs[t], t, GenKey, cate, "VOID", 0)
<1>0. Len(syms) \in Nat /\ Len(tabs) \in Nat
  BY LenFacts
<1>1. tabs[t] \in TableType /\ t \in Nat /\ GenKey \in KnownKey
  BY DEF TablesOK, KnownKey
<1>2. e \in SymType /\ Allocate(tabs[t], cate, 0) \in TableType
      /\ Allocate(tabs[t], cate, 0).funcsym = tabs[t].funcsym
  BY <1>1, EntryType DEF Type
<1>3. e.stab = t /\ e.scope = 0 /\ e.phead = <<>>
  BY DEF Entry
<1>4. /\ tabs' = [tabs EXCEPT ![t] = Allocate(tabs[t], cate, 0)]
      /\ syms' = Append(syms, e)
      /\ buckets' = [buckets EXCEPT ![t] = putsym(@, GenKey)]
  BY DEF symalloc
<1>5. tabs' \in Seq(TableType) /\ Len(tabs') = Len(tabs)
  BY <1>2, <1>4 DEF TablesOK
<1>6. \A u \in 1..Len(tabs) : tabs'[u].funcsym <= Len(syms) + 1
  <2>1. \A u \in 1..Len(tabs) : tabs'[u].funcsym = tabs[u].funcsym
    BY <1>2, <1>4 DEF TablesOK
  <2>2. \A u \in 1..Len(tabs) : tabs[u].funcsym \in 0..Len(syms)
    BY TableFacts
  <2>. QED BY <1>1, <2>1, <2>2
<1>. HIDE DEF e
<1>7. TablesOK'
  <2>1. e.scope <= Len(tabs) /\ \A i \in 1..Len(e.phead) : e.phead[i] \in 1..Len(syms)
    BY <1>3 DEF TablesOK
  <2>. QED BY <2>1, <1>1, <1>2, <1>3, <1>4, <1>5, <1>6, PutKeepsTables
<1>8. syms \in Seq(SymType)
  BY DEF TablesOK
<1>. QED BY <1>2, <1>4, <1>7, <1>8

LEMMA ScopeEntryKeepsTables ==
  ASSUME TablesOK, NEW nspace \in Name \cup {MainFunc},
         scope_entry(nspace), syms' = syms
  PROVE  TablesOK'
<1>1. NewTable(nspace) \in TableType /\ NewTable(nspace).funcsym = 0
  BY DEF NewTable, TableType
<1>2. /\ tabs' = Append(tabs, NewTable(nspace))
      /\ buckets' = Append(buckets, [b \in Bucket |-> <<>>])
      /\ scopes' = Append(scopes, Len(tabs) + 1)
  BY DEF scope_entry
<1>3. [b \in Bucket |-> <<>>] \in [Bucket -> Seq(Nat)]
  OBVIOUS
<1>. HIDE DEF NewTable
<1>4. tabs' \in Seq(TableType) /\ Len(tabs') = Len(tabs) + 1 /\ Len(tabs) \in Nat
  BY <1>1, <1>2 DEF TablesOK
<1>5. buckets' \in Seq([Bucket -> Seq(Nat)]) /\ Len(buckets') = Len(buckets) + 1
  BY <1>2, <1>3 DEF TablesOK
<1>6. scopes' \in Seq(Nat) /\ \A i \in 1..Len(scopes') : scopes'[i] \in 1..Len(tabs')
  BY <1>2, <1>4 DEF TablesOK
<1>7. \A t \in 1..Len(tabs') :
       /\ tabs'[t].funcsym <= Len(syms')
       /\ \A b \in Bucket : \A i \in 1..Len(buckets'[t][b]) :
            buckets'[t][b][i] \in 1..Len(syms')
  <2>. TAKE t \in 1..Len(tabs')
  <2>1. CASE t = Len(tabs) + 1
    BY <2>1, <1>1, <1>2, <1>4 DEF TablesOK
  <2>2. CASE t \in 1..Len(tabs)
    BY <2>2, <1>2, <1>4 DEF TablesOK
  <2>. QED BY <2>1, <2>2, <1>4
<1>8. \A e \in 1..Len(syms') :
       /\ syms'[e].stab \in 1..Len(tabs')
       /\ syms'[e].scope <= Len(tabs')
       /\ \A i \in 1..Len(syms'[e].phead) : syms'[e].phead[i] \in 1..Len(syms')
  <2>. TAKE e \in 1..Len(syms')
  <2>. QED BY <1>4, SymFacts
<1>. QED BY <1>4, <1>5, <1>6, <1>7, <1>8 DEF TablesOK

LEMMA ScopeExitKeepsTables ==
  ASSUME TablesOK, Len(scopes) >= 1, scope_exit
  PROVE  TablesOK'
<1>1. /\ scopes' \in Seq(Nat)
      /\ \A i \in 1..Len(scopes') : scopes'[i] = scopes[i] /\ i \in 1..Len(scopes)
  BY SMTT(30) DEF TablesOK, scope_exit
<1>. QED BY <1>1 DEF TablesOK, scope_exit

-----------------------------------------------------------------------------
(* Keys and calls.                                                         *)

LEMMA NameKey ==
  ASSUME NEW name \in Name
  PROVE  <<name, <<>>>> \in KnownKey
<1>1. <<>> \in [1..0 -> Type]
  OBVIOUS
<1>2. 0 \in 0..MaxParam
  BY ConstAssumption
<1>3. <<>> \in UNION {[1..n -> Type] : n \in 0..MaxParam}
  BY <1>1, <1>2
<1>. QED BY <1>3 DEF KnownKey, Key

LEMMA TypedKey ==
  ASSUME NEW name \in Name, NEW n \in Nat, n <= MaxParam, NEW f \in [1..n -> Type]
  PROVE  <<name, f>> \in KnownKey
<1>1. n \in 0..MaxParam
  BY ConstAssumption
<1>2. f \in UNION {[1..k -> Type] : k \in 0..MaxParam}
  BY <1>1
<1>. QED BY <1>2 DEF KnownKey, Key

LEMMA FindType ==
  ASSUME TablesOK, NEW name \in Name
  PROVE  /\ Find(name) \in 0..Len(syms)
         /\ Find(name) # 0 => syms[Find(name)].type \in Type
<1>1. Find(name) \in 0..Len(syms)
  BY NameKey, SymfindType DEF Find, Plain
<1>2. ASSUME Find(name) # 0 PROVE syms[Find(name)].type \in Type
  <2>1. Find(name) \in 1..Len(syms)
    BY <1>1, <1>2, LenFacts
  <2>2. syms[Find(name)] \in SymType
    BY <2>1, SymFacts
  <2>. QED BY <2>2 DEF SymType
<1>. QED BY <1>1, <1>2

\* The first error of a list is one of the list, and there is none only if
\* no member of the list has one.
LEMMA FirstErrFacts ==
  ASSUME NEW errs, DOMAIN errs \subseteq Nat,
         \A i \in DOMAIN errs : errs[i] \in Nat,
         NEW last \in Nat
  PROVE  /\ FirstErr(errs, last) \in Nat
         /\ FirstErr(errs, last) = 0 => \A i \in DOMAIN errs : errs[i] = 0
<1>. DEFINE bad == {i \in DOMAIN errs : errs[i] # 0}
<1>1. CASE bad = {}
  BY <1>1 DEF FirstErr
<1>2. CASE bad # {}
  <2>1. \E i \in bad : \A j \in bad : i <= j
    BY <1>2, LeastNat
  <2>. DEFINE first == CHOOSE i \in bad : \A j \in bad : i <= j
  <2>2. first \in bad
    BY <2>1
  <2>3. FirstErr(errs, last) = errs[first]
    BY <1>2 DEF FirstErr
  <2>. HIDE DEF first
  <2>. QED BY <2>2, <2>3
<1>. QED BY <1>1, <1>2

LEMMA ErrTypes ==
  ASSUME NEW arg
  PROVE  /\ InferErr(arg) \in Nat
         /\ \A param : ArgErr(param, arg) \in Nat
         /\ \A name : IdFactorErr(name) \in Nat /\ ArrayFactorErr(name) \in Nat
<1>1. \A name : IdFactorErr(name) \in Nat /\ ArrayFactorErr(name) \in Nat
  BY DEF IdFactorErr, ArrayFactorErr, BADSYM, BADCTG, ERTYPE
<1>2. InferErr(arg) \in Nat
  BY <1>1 DEF InferErr, FindErr, BADSYM, EPANIC
<1>3. ExprErr(arg) \in Nat
  BY <1>1 DEF ExprErr
<1>4. RefErr(arg) \in Nat
  BY <1>3 DEF RefErr, BADREF, OBJREF
<1>5. \A param : ArgErr(param, arg) \in Nat
  BY <1>3, <1>4 DEF ArgErr, EABORT
<1>. QED BY <1>1, <1>2, <1>5

\* An argument whose type can be inferred has a type.
LEMMA InferTypeType ==
  ASSUME TablesOK, NEW arg \in Arg, InferErr(arg) = 0,
         NEW literal \in {"UINT", "INT"}
  PROVE  InferType(arg, literal) \in Type
<1>1. CASE arg[1] \in {"var", "sum"}
  <2>1. arg[2] \in Name /\ Find(arg[2]) # 0
    BY <1>1 DEF Arg, InferErr, FindErr, BADSYM
  <2>2. syms[Find(arg[2])].type \in Type
    BY <2>1, FindType
  <2>. QED BY <1>1, <2>2 DEF InferType
<1>2. CASE arg[1] = "elem"
  <2>1. arg[2] \in Name /\ Find(arg[2]) # 0
    BY <1>2 DEF Arg, InferErr, ArrayFactorErr, BADSYM
  <2>2. syms[Find(arg[2])].type \in Type
    BY <2>1, FindType
  <2>. QED BY <1>2, <2>2 DEF InferType
<1>3. CASE arg[1] \in {"lit", "neg", "char"}
  BY <1>3 DEF InferType, Type
<1>4. arg[1] # "call"
  BY DEF InferErr, EPANIC
<1>5. arg[1] \in {"lit", "neg", "char", "call", "var", "elem", "sum"}
  BY DEF Arg
<1>. QED BY <1>1, <1>2, <1>3, <1>4, <1>5

LEMMA CalleeKeyType ==
  ASSUME TablesOK, NEW name \in Name, NEW k \in 0..MaxParam, NEW args \in [1..k -> Arg],
         \A i \in 1..k : InferErr(args[i]) = 0
  PROVE  symfind(CalleeKey(name, args)) \in 0..Len(syms)
<1>1. ASSUME NEW literal \in {"UINT", "INT"}
      PROVE  make_symkey2(name, args, literal) \in KnownKey
  <2>1. [i \in 1..k |-> InferType(args[i], literal)] \in [1..k -> Type]
    BY InferTypeType
  <2>2. k \in Nat /\ k <= MaxParam
    BY ConstAssumption
  <2>. QED BY <2>1, <2>2, TypedKey DEF make_symkey2
<1>. QED BY <1>1, SymfindType DEF CalleeKey

-----------------------------------------------------------------------------
(* Type correctness                                                        *)

\* Where the walk is, and what of the tables that presupposes: nothing is
\* there before anlys_pgm, a block has a scope, a routine heading has the
\* scope of the routine and one around it.
ControlOK ==
  /\ pc = "pgm" => tabs = <<>> /\ syms = <<>> /\ scopes = <<>>
  /\ pc \in {"const", "var", "pf", "stmt"} => Len(scopes) >= 1
  /\ pc = "head" => Len(scopes) >= 2 /\ head.name \in Name
  /\ Len(head.phead) <= MaxParam

TypeInv == TypeOK /\ ControlOK

LEMMA TopFacts ==
  ASSUME TablesOK, Len(scopes) >= 1
  PROVE  top \in 1..Len(tabs)
BY DEF TablesOK, top

LEMMA SymgetType ==
  ASSUME TablesOK, Len(scopes) >= 1, NEW name \in Name
  PROVE  symget(<<name, <<>>>>) \in 0..Len(syms)
BY TopFacts, NameKey, GetsymType DEF symget

\* What is left to show of a step once its tables are known to be right.
LEMMA RestOfTypeInv ==
  ASSUME TablesOK', Len(syms') >= Len(syms), Len(syms) \in Nat, Len(syms') \in Nat,
         head' \in HeadType,
         \A i \in 1..Len(head'.phead) : head'.phead[i] \in 1..Len(syms'),
         pc' \in {"const", "var", "head", "pf", "stmt", "done"},
         phase' \in {"SEMANTIC", "IR", "CODE_GEN", "EXIT"},
         errnum' \in Nat,
         ref'.sid \in 0..Len(syms'),
         pc' \in {"const", "var", "pf", "stmt"} => Len(scopes') >= 1,
         pc' = "head" => Len(scopes') >= 2 /\ head'.name \in Name,
         Len(head'.phead) <= MaxParam
  PROVE  TypeInv'
BY DEF TypeInv, TypeOK, ControlOK

LEMMA PgmType == TypeInv /\ anlys_pgm => TypeInv'
<1>. SUFFICES ASSUME TypeInv, anlys_pgm PROVE TypeInv'
  OBVIOUS
<1>1. tabs = <<>> /\ syms = <<>> /\ scopes = <<>> /\ buckets = <<>>
  BY DEF anlys_pgm, At, TypeInv, TypeOK, TablesOK, ControlOK
<1>. DEFINE tab == NewTable(MainFunc)
            e == [Entry(tab, 1, EntryKey, "FUNCTION", "INT", 0) EXCEPT !.scope = 1]
            row == putsym([b \in Bucket |-> <<>>], EntryKey)
<1>2. tab \in TableType /\ tab.funcsym = 0
  BY DEF NewTable, TableType
<1>3. EntryKey \in KnownKey /\ "FUNCTION" \in DeclCate \cup AllocCate /\ "INT" \in Type
  BY DEF KnownKey, DeclCate, LocalCate, RoutineCate, Type
<1>. HIDE DEF tab
<1>4. /\ Entry(tab, 1, EntryKey, "FUNCTION", "INT", 0) \in SymType
      /\ Allocate(tab, "FUNCTION", 0) \in TableType
      /\ Allocate(tab, "FUNCTION", 0).funcsym = 0
  BY <1>2, <1>3, EntryType
<1>5. e \in SymType /\ e.stab = 1 /\ e.scope = 1 /\ e.phead = <<>>
  BY <1>4 DEF Entry, SymType
<1>6. Hash(EntryKey) \in Bucket
  BY ConstAssumption
<1>7. row \in [Bucket -> Seq(Nat)] /\ \A b \in Bucket : row[b] \in {<<>>, <<1>>}
  <2>1. <<1>> \in Seq(Nat) /\ <<>> \in Seq(Nat) /\ <<1>> \o <<>> = <<1>>
    OBVIOUS
  <2>2. row = [[b \in Bucket |-> <<>>] EXCEPT ![Hash(EntryKey)] = <<1>>]
    BY <1>1, <1>6, <2>1 DEF putsym
  <2>. QED BY <1>6, <2>1, <2>2
<1>8. /\ tabs' = <<Allocate(tab, "FUNCTION", 0)>>
      /\ syms' = <<e>>
      /\ buckets' = <<row>>
      /\ scopes' = <<1>>
  BY <1>1 DEF anlys_pgm, tab
<1>. HIDE DEF e, row
<1>9. TablesOK'
  <2>1. tabs' \in Seq(TableType) /\ Len(tabs') = 1 /\ tabs'[1].funcsym = 0
    BY <1>4, <1>8
  <2>2. syms' \in Seq(SymType) /\ Len(syms') = 1 /\ syms'[1] = e
    BY <1>5, <1>8
  <2>3. buckets' \in Seq([Bucket -> Seq(Nat)]) /\ Len(buckets') = 1 /\ buckets'[1] = row
    BY <1>7, <1>8
  <2>4. scopes' \in Seq(Nat) /\ Len(scopes') = 1 /\ scopes'[1] = 1
    BY <1>8
  <2>5. \A b \in Bucket : \A i \in 1..Len(row[b]) : row[b][i] = 1
    BY <1>7
  <2>. QED BY <2>1, <2>2, <2>3, <2>4, <2>5, <1>5 DEF TablesOK
<1>. QED
  <2>1. Len(syms) = 0 /\ Len(syms') = 1 /\ Len(scopes') = 1
    BY <1>1, <1>8
  <2>2. /\ pc' = "const" /\ UNCHANGED <<head, phase, errnum, ref>>
    BY DEF anlys_pgm
  <2>. QED BY <1>9, <2>1, <2>2 DEF TypeInv, TypeOK, ControlOK

\* A declaration in the innermost scope.
LEMMA DeclareHereType ==
  ASSUME TablesOK, Len(scopes) >= 1, errnum \in Nat,
         NEW name \in Name, NEW cate \in DeclCate, NEW type \in Type, NEW len \in Nat,
         DeclareHere(name, cate, type, len), scopes' = scopes
  PROVE  /\ TablesOK' /\ errnum' \in Nat
         /\ Len(syms') \in {Len(syms), Len(syms) + 1}
         /\ symget(<<name, <<>>>>) = 0 => Len(syms') = Len(syms) + 1
<1>1. CASE symget(<<name, <<>>>>) # 0
  <2>1. UNCHANGED <<tabs, buckets, syms>> /\ errnum' = DUPSYM
    BY <1>1 DEF DeclareHere, rescue
  <2>2. TablesOK'
    BY <2>1 DEF TablesOK
  <2>. QED BY <1>1, <2>1, <2>2 DEF DUPSYM
<1>2. CASE symget(<<name, <<>>>>) = 0
  <2>1. syminit2(top, <<name, <<>>>>, cate, type, len) /\ UNCHANGED errnum
    BY <1>2 DEF DeclareHere
  <2>2. top \in 1..Len(tabs) /\ <<name, <<>>>> \in KnownKey
    BY TopFacts, NameKey
  <2>. QED BY <2>1, <2>2, SyminitKeepsTables
<1>. QED BY <1>1, <1>2

\* What the type invariant gives at a step of the analysis.
LEMMA InvFacts ==
  ASSUME TypeInv
  PROVE  /\ TablesOK /\ errnum \in Nat /\ Len(syms) \in Nat
         /\ head \in HeadType /\ head.phead \in Seq(Nat)
         /\ \A i \in 1..Len(head.phead) : head.phead[i] \in 1..Len(syms)
         /\ Len(head.phead) <= MaxParam
         /\ phase \in {"SEMANTIC", "IR", "CODE_GEN", "EXIT"}
         /\ ref.sid \in 0..Len(syms)
BY LenFacts DEF TypeInv, TypeOK, ControlOK, HeadType

LEMMA ConstType ==
  ASSUME TypeInv, NEW n \in Name, NEW type \in ScalarType, anlys_const_decf(n, type)
  PROVE  TypeInv'
<1>1. Len(scopes) >= 1 /\ phase = "SEMANTIC" /\ pc = "const"
  BY DEF anlys_const_decf, At, TypeInv, ControlOK
<1>2. /\ DeclareHere(n, "CONSTANT", type, 0) /\ ref'.sid = 0
      /\ UNCHANGED <<scopes, pc, head, phase>>
  BY DEF anlys_const_decf, NoUse, Ref
<1>3. type \in Type /\ "CONSTANT" \in DeclCate /\ 0 \in Nat
  BY ConstAssumption DEF DeclCate
<1>4. /\ TablesOK' /\ errnum' \in Nat /\ Len(syms') \in {Len(syms), Len(syms) + 1}
  BY <1>1, <1>2, <1>3, InvFacts, DeclareHereType
<1>. QED BY <1>1, <1>2, <1>4, InvFacts, RestOfTypeInv, SMTT(30)

LEMMA VarType ==
  ASSUME TypeInv, NEW n \in Name, NEW type \in ScalarType,
         NEW cate \in {"VARIABLE", "ARRAY"}, NEW len \in Nat,
         anlys_var_decf(n, cate, type, len)
  PROVE  TypeInv'
<1>1. Len(scopes) >= 1 /\ phase = "SEMANTIC" /\ pc \in {"const", "var"}
  BY DEF anlys_var_decf, At, TypeInv, ControlOK
<1>2. /\ DeclareHere(n, cate, type, len) /\ ref'.sid = 0 /\ pc' = "var"
      /\ UNCHANGED <<scopes, head, phase>>
  BY DEF anlys_var_decf, NoUse, Ref
<1>3. type \in Type /\ cate \in DeclCate
  BY ConstAssumption DEF DeclCate, LocalCate
<1>4. /\ TablesOK' /\ errnum' \in Nat /\ Len(syms') \in {Len(syms), Len(syms) + 1}
  BY <1>1, <1>2, <1>3, InvFacts, DeclareHereType
<1>. QED BY <1>1, <1>2, <1>4, InvFacts, RestOfTypeInv, SMTT(30)

LEMMA HeadOpenType ==
  ASSUME TypeInv, NEW n \in Name, NEW cate \in RoutineCate, NEW type \in Type,
         anlys_head_open(n, cate, type)
  PROVE  TypeInv'
<1>1. Len(scopes) >= 1 /\ phase = "SEMANTIC"
  BY DEF anlys_head_open, At, TypeInv, ControlOK
<1>2. /\ scope_entry(n) /\ ref'.sid = 0 /\ pc' = "head"
      /\ head' = [name |-> n, cate |-> cate, type |-> type, phead |-> <<>>]
      /\ UNCHANGED <<syms, phase, errnum>>
  BY DEF anlys_head_open, NoUse, Ref
<1>3. TablesOK'
  BY <1>2, InvFacts, ScopeEntryKeepsTables
<1>4. Len(scopes') >= 2
  BY <1>1, <1>2, InvFacts DEF scope_entry, TablesOK
<1>5. head' \in HeadType /\ head'.phead = <<>> /\ head'.name \in Name
  <2>1. <<>> \in Seq(Nat)
    OBVIOUS
  <2>. QED BY <1>2, <2>1 DEF HeadType
<1>6. Len(head'.phead) = 0 /\ 0 <= MaxParam
  BY <1>5, ConstAssumption
<1>. QED BY <1>1, <1>2, <1>3, <1>4, <1>5, <1>6, InvFacts, RestOfTypeInv

LEMMA ParaType ==
  ASSUME TypeInv, NEW n \in Name, NEW cate \in ParamCate, NEW type \in ScalarType,
         anlys_para_list(n, cate, type)
  PROVE  TypeInv'
<1>1. Len(scopes) >= 2 /\ phase = "SEMANTIC" /\ pc = "head" /\ head.name \in Name
  BY DEF anlys_para_list, At, TypeInv, ControlOK
<1>. DEFINE old == symget(<<n, <<>>>>)
            e == IF old # 0 THEN old ELSE Len(syms) + 1
<1>2. /\ DeclareHere(n, cate, type, 0) /\ ref'.sid = 0
      /\ Len(head.phead) < MaxParam
      /\ head' = [head EXCEPT !.phead = Append(@, e)]
      /\ UNCHANGED <<scopes, pc, phase>>
  BY DEF anlys_para_list, NoUse, Ref
<1>3. type \in Type /\ cate \in DeclCate /\ Len(scopes) >= 1
  BY <1>1, ConstAssumption, InvFacts, LenFacts DEF DeclCate
<1>4. /\ TablesOK' /\ errnum' \in Nat /\ Len(syms') \in {Len(syms), Len(syms) + 1}
      /\ old = 0 => Len(syms') = Len(syms) + 1
  BY <1>2, <1>3, InvFacts, DeclareHereType, SMTT(30)
<1>5. old \in 0..Len(syms)
  BY <1>3, InvFacts, SymgetType
<1>6. e \in 1..Len(syms') /\ e \in Nat /\ Len(syms) <= Len(syms')
  BY <1>4, <1>5, InvFacts
<1>. HIDE DEF e, old
<1>7. head.phead \in Seq(Nat) /\ head \in HeadType
  BY InvFacts
<1>8. /\ head' \in HeadType /\ head'.phead = Append(head.phead, e)
      /\ head'.name = head.name
  <2>1. Append(head.phead, e) \in Seq(Nat)
    BY <1>6, <1>7
  <2>2. head' = [head EXCEPT !.phead = Append(head.phead, e)]
    BY <1>2
  <2>. QED BY <2>1, <2>2, <1>7 DEF HeadType
<1>9. /\ Len(head'.phead) = Len(head.phead) + 1
      /\ \A i \in 1..Len(head'.phead) : head'.phead[i] \in 1..Len(syms')
  <2>1. \A i \in 1..Len(head.phead) : head.phead[i] \in 1..Len(syms')
    BY <1>4, <1>6, InvFacts
  <2>. QED BY <2>1, <1>6, <1>7, <1>8
<1>10. Len(head'.phead) <= MaxParam
  BY <1>2, <1>7, <1>9, ConstAssumption
<1>. QED BY <1>1, <1>2, <1>4, <1>8, <1>9, <1>10, InvFacts, RestOfTypeInv, SMTT(30)

LEMMA PfEndType == TypeInv /\ anlys_pf_end => TypeInv'
<1>. SUFFICES ASSUME TypeInv, anlys_pf_end PROVE TypeInv'
  OBVIOUS
<1>1. /\ Len(scopes) > 1 /\ scope_exit /\ pc' = "pf" /\ ref'.sid = 0
      /\ UNCHANGED <<head, phase, errnum>> /\ syms' = syms
  BY DEF anlys_pf_end, scope_exit, NoUse, Ref
<1>2. TablesOK'
  BY <1>1, InvFacts, LenFacts, ScopeExitKeepsTables
<1>3. Len(scopes') >= 1
  BY <1>1, InvFacts DEF scope_exit, TablesOK
<1>. QED BY <1>1, <1>2, <1>3, InvFacts, RestOfTypeInv

LEMMA AnalysisEndType == TypeInv /\ analysis_end => TypeInv'
<1>. SUFFICES ASSUME TypeInv, analysis_end PROVE TypeInv'
  OBVIOUS
<1>1. /\ Len(scopes) = 1 /\ scope_exit /\ pc' = "done" /\ ref'.sid = 0
      /\ phase' \in {"IR", "EXIT"}
      /\ UNCHANGED <<head, errnum>> /\ syms' = syms
  BY DEF analysis_end, scope_exit, NoUse, Ref, chkerr
<1>2. TablesOK'
  BY <1>1, InvFacts, ScopeExitKeepsTables
<1>. QED BY <1>1, <1>2, InvFacts, RestOfTypeInv

\* The key of a routine heading.
LEMMA HeadKey ==
  ASSUME TypeInv, head.name \in Name
  PROVE  make_symkey(head.name, head.phead) \in KnownKey
<1>1. /\ Len(head.phead) \in Nat /\ Len(head.phead) <= MaxParam
      /\ DOMAIN head.phead = 1..Len(head.phead)
      /\ \A i \in 1..Len(head.phead) : head.phead[i] \in 1..Len(syms)
  BY InvFacts
<1>2. \A i \in 1..Len(head.phead) : syms[head.phead[i]].type \in Type
  BY <1>1, InvFacts, SymFacts DEF SymType
<1>3. [i \in DOMAIN head.phead |-> syms[head.phead[i]].type]
        \in [1..Len(head.phead) -> Type]
  BY <1>1, <1>2
<1>. QED BY <1>1, <1>3, TypedKey DEF make_symkey

\* The declaration of the routine, or the repeated key it is tied to.
LEMMA HeadCloseTables ==
  ASSUME TypeInv, anlys_head_close
  PROVE  /\ TablesOK' /\ errnum' \in Nat
         /\ Len(syms') \in {Len(syms), Len(syms) + 1}
<1>. DEFINE scope == top
            parent == scopes[Len(scopes) - 1]
            key == make_symkey(head.name, head.phead)
            old == getsym(parent, key)
            e == IF old # 0 THEN old ELSE Len(syms) + 1
            Tie(entry) == [entry EXCEPT !.scope = scope, !.phead = head.phead]
            new == Entry(tabs[parent], parent, key, head.cate, head.type, 0)
<1>1. /\ Len(scopes) >= 2 /\ head.name \in Name /\ Len(scopes) \in Nat
      /\ TablesOK /\ scopes \in Seq(Nat)
      /\ Len(syms) \in Nat /\ Len(tabs) \in Nat
  BY InvFacts, LenFacts DEF anlys_head_close, At, TypeInv, ControlOK, TablesOK
<1>2. scope \in 1..Len(tabs) /\ parent \in 1..Len(tabs)
  BY <1>1, LenFacts, TopFacts
<1>3. key \in KnownKey
  BY <1>1, HeadKey
<1>4. old \in 0..Len(syms)
  BY <1>1, <1>2, <1>3, GetsymType
<1>5. head.cate \in DeclCate \cup AllocCate /\ head.type \in Type /\ 0 \in Nat
      /\ head.phead \in Seq(Nat)
      /\ \A i \in 1..Len(head.phead) : head.phead[i] \in 1..Len(syms)
  BY InvFacts DEF HeadType, DeclCate, LocalCate
<1>6. /\ scopes' = scopes
      /\ old # 0 => /\ errnum' = DUPSYM
                    /\ syms' = [syms EXCEPT ![old] = Tie(syms[old])]
                    /\ tabs' = [tabs EXCEPT ![scope].funcsym = old]
                    /\ UNCHANGED buckets
      /\ old = 0 => /\ syms' = Append(syms, Tie(new))
                    /\ tabs' = [tabs EXCEPT ![parent] = Allocate(@, head.cate, 0),
                                            ![scope].funcsym = e]
                    /\ buckets' = [buckets EXCEPT ![parent] = putsym(@, key)]
                    /\ UNCHANGED errnum
  BY DEF anlys_head_close, rescue
<1>7. CASE old # 0
  <2>. HIDE DEF old, scope
  <2>1. syms[old] \in SymType /\ tabs[scope] \in TableType
    BY <1>1, <1>2, <1>4, <1>7, SymFacts, TableFacts
  <2>. DEFINE tied == Tie(syms[old])
              tab == [tabs[scope] EXCEPT !.funcsym = old]
  <2>2. /\ tied \in SymType /\ tied.stab = syms[old].stab
        /\ tied.scope = scope /\ tied.phead = head.phead
    <3>1. scope \in Nat
      BY <1>1, <1>2
    <3>. QED BY <3>1, <1>5, <2>1 DEF SymType
  <2>3. tab \in TableType /\ tab.funcsym = old
    BY <1>4, <2>1 DEF TableType
  <2>4. syms' = [syms EXCEPT ![old] = tied] /\ tabs' = [tabs EXCEPT ![scope] = tab]
    BY <1>6, <1>7
  <2>. HIDE DEF tied, tab
  <2>5. /\ syms' \in Seq(SymType) /\ Len(syms') = Len(syms) /\ syms'[old] = tied
        /\ \A d \in 1..Len(syms) : d # old => syms'[d] = syms[d]
    BY <1>1, <1>4, <1>7, <2>2, <2>4, ExceptSeq DEF TablesOK
  <2>6. /\ tabs' \in Seq(TableType) /\ Len(tabs') = Len(tabs) /\ tabs'[scope] = tab
        /\ \A u \in 1..Len(tabs) : u # scope => tabs'[u] = tabs[u]
    BY <1>1, <1>2, <2>3, <2>4, ExceptSeq DEF TablesOK
  <2>7. \A d \in 1..Len(syms') :
          /\ syms'[d].stab \in 1..Len(tabs')
          /\ syms'[d].scope <= Len(tabs')
          /\ \A i \in 1..Len(syms'[d].phead) : syms'[d].phead[i] \in 1..Len(syms')
    <3>. TAKE d \in 1..Len(syms')
    <3>0. /\ d \in 1..Len(syms)
          /\ syms[d].stab \in 1..Len(tabs) /\ syms[d].scope \in 0..Len(tabs)
          /\ \A i \in 1..Len(syms[d].phead) : syms[d].phead[i] \in 1..Len(syms)
      BY <1>1, <2>5, SymFacts
    <3>1. CASE d = old
      <4>1. syms'[d] = tied /\ tied.stab = syms[d].stab
        BY <3>1, <2>2, <2>5
      <4>2. tied.scope <= Len(tabs)
        BY <1>1, <1>2, <2>2
      <4>. QED BY <4>1, <4>2, <3>0, <1>5, <2>2, <2>5, <2>6
    <3>2. CASE d # old
      BY <3>0, <3>2, <1>1, <2>5, <2>6, SMTT(30)
    <3>. QED BY <3>1, <3>2
  <2>8. \A u \in 1..Len(tabs') : tabs'[u].funcsym <= Len(syms')
    <3>. TAKE u \in 1..Len(tabs')
    <3>1. CASE u = scope
      BY <3>1, <1>1, <1>4, <2>3, <2>5, <2>6
    <3>2. CASE u # scope
      BY <3>2, <1>1, <2>5, <2>6, TableFacts
    <3>. QED BY <3>1, <3>2
  <2>9. buckets' = buckets /\ scopes' = scopes /\ errnum' = DUPSYM
    BY <1>6, <1>7
  <2>10. TablesOK'
    BY <1>1, <2>5, <2>6, <2>7, <2>8, <2>9 DEF TablesOK
  <2>. QED BY <2>5, <2>9, <2>10 DEF DUPSYM
<1>8. CASE old = 0
  <2>1. tabs[parent] \in TableType /\ parent \in Nat
    BY <1>1, <1>2, TableFacts
  <2>2. /\ new \in SymType /\ new.stab = parent
        /\ Allocate(tabs[parent], head.cate, 0) \in TableType
        /\ Allocate(tabs[parent], head.cate, 0).funcsym = tabs[parent].funcsym
    BY <1>3, <1>5, <2>1, EntryType DEF Entry
  <2>. DEFINE tied == Tie(new)
  <2>. HIDE DEF new, key, scope, parent, old
  <2>3. /\ tied \in SymType /\ tied.stab = parent
        /\ tied.scope = scope /\ tied.phead = head.phead
    <3>1. scope \in Nat
      BY <1>1, <1>2
    <3>. QED BY <3>1, <1>5, <2>2 DEF SymType
  <2>. DEFINE mid == [tabs EXCEPT ![parent] = Allocate(tabs[parent], head.cate, 0)]
              tab == [mid[scope] EXCEPT !.funcsym = Len(syms) + 1]
  <2>4. /\ mid \in Seq(TableType) /\ Len(mid) = Len(tabs)
        /\ \A u \in 1..Len(tabs) : mid[u].funcsym = tabs[u].funcsym
    <3>1. mid \in Seq(TableType) /\ Len(mid) = Len(tabs)
          /\ mid[parent] = Allocate(tabs[parent], head.cate, 0)
          /\ \A u \in 1..Len(tabs) : u # parent => mid[u] = tabs[u]
      BY <1>1, <1>2, <2>2, ExceptSeq DEF TablesOK
    <3>. QED BY <3>1, <2>2
  <2>5. tabs' = [mid EXCEPT ![scope] = tab]
    BY <1>6, <1>8
  <2>. HIDE DEF mid
  <2>6. tab \in TableType /\ tab.funcsym = Len(syms) + 1
    <3>1. mid[scope] \in TableType
      <4>1. scope \in 1..Len(mid) /\ mid \in Seq(TableType)
        BY <1>2, <2>4
      <4>. QED BY <4>1, ElementOfSeq
    <3>2. Len(syms) + 1 \in Nat
      BY <1>1
    <3>. QED BY <3>1, <3>2 DEF TableType
  <2>. HIDE DEF tab, tied
  <2>7. /\ tabs' \in Seq(TableType) /\ Len(tabs') = Len(tabs) /\ tabs'[scope] = tab
        /\ \A u \in 1..Len(tabs) : u # scope => tabs'[u] = mid[u]
    BY <1>2, <2>4, <2>5, <2>6, ExceptSeq
  <2>8. \A u \in 1..Len(tabs) : tabs'[u].funcsym <= Len(syms) + 1
    <3>. TAKE u \in 1..Len(tabs)
    <3>1. tabs[u].funcsym \in 0..Len(syms)
      BY <1>1, TableFacts
    <3>. QED BY <3>1, <1>1, <2>4, <2>6, <2>7
  <2>9. syms' = Append(syms, tied) /\ errnum' = errnum /\ scopes' = scopes
        /\ buckets' = [buckets EXCEPT ![parent] = putsym(@, key)]
    BY <1>6, <1>8 DEF tied
  <2>10. tied.scope <= Len(tabs)
         /\ \A i \in 1..Len(tied.phead) : tied.phead[i] \in 1..Len(syms)
    BY <1>1, <1>2, <1>5, <2>3
  <2>11. TablesOK'
    BY <1>1, <1>2, <1>3, <2>3, <2>7, <2>8, <2>9, <2>10, PutKeepsTables
  <2>12. Len(syms') = Len(syms) + 1
    BY <1>1, <2>3, <2>9 DEF TablesOK
  <2>. QED BY <2>9, <2>11, <2>12, InvFacts
<1>. QED BY <1>7, <1>8

LEMMA HeadCloseType == TypeInv /\ anlys_head_close => TypeInv'
<1>. SUFFICES ASSUME TypeInv, anlys_head_close PROVE TypeInv'
  OBVIOUS
<1>1. /\ TablesOK' /\ errnum' \in Nat /\ Len(syms') \in {Len(syms), Len(syms) + 1}
  BY HeadCloseTables
<1>2. /\ head' = NoHead /\ pc' = "const" /\ ref'.sid = 0
      /\ UNCHANGED <<scopes, phase>>
  BY DEF anlys_head_close, NoUse, Ref
<1>3. Len(scopes) >= 2 /\ phase = "SEMANTIC"
  BY DEF anlys_head_close, At, TypeInv, ControlOK
<1>4. head' \in HeadType /\ Len(head'.phead) = 0
  BY <1>2 DEF NoHead, HeadType, RoutineCate, Type
<1>5. Len(scopes') >= 1
  BY <1>2, <1>3, InvFacts, LenFacts
<1>6. Len(head'.phead) <= MaxParam
  BY <1>4, ConstAssumption
<1>. QED BY <1>1, <1>2, <1>3, <1>4, <1>5, <1>6, InvFacts, RestOfTypeInv

\* The end of the process keeps the tables.
LEMMA ExitType ==
  ASSUME TypeInv, NEW code \in Nat, Exit(code), UNCHANGED ref
  PROVE  TypeInv'
<1>1. UNCHANGED <<tabs, buckets, syms, scopes, pc, head, ref>>
  BY DEF Exit
<1>2. errnum' \in Nat /\ phase' = "EXIT"
  BY DEF Exit
<1>3. TablesOK'
  BY <1>1, InvFacts DEF TablesOK
<1>. QED BY <1>1, <1>2, <1>3, SMTT(30) DEF TypeInv, TypeOK, ControlOK

\* A use of a name keeps everything but ref, or ends the process.
LEMMA ResolveType ==
  ASSUME TypeInv, InBlock, NEW key, NEW sid \in 0..Len(syms), NEW via, NEW args,
         NEW code \in Nat, Resolve(key, sid, via, args, code)
  PROVE  TypeInv'
<1>1. CASE code # 0
  <2>1. /\ ref'.sid = 0 /\ errnum' = code /\ phase' = "EXIT"
        /\ UNCHANGED <<tabs, buckets, syms, scopes, pc, head>>
    BY <1>1 DEF Resolve, Exit, Ref
  <2>. QED BY <2>1, SMTT(30) DEF TypeInv, TypeOK, ControlOK, TablesOK
<1>2. CASE code = 0
  <2>1. /\ ref'.sid = sid /\ pc' = "stmt"
        /\ UNCHANGED <<tabs, buckets, syms, scopes, head, phase, errnum>>
    BY <1>2 DEF Resolve, Ref
  <2>2. Len(scopes) >= 1
    BY DEF InBlock, At, TypeInv, ControlOK
  <2>3. TablesOK'
    BY <2>1, InvFacts DEF TablesOK
  <2>4. Len(syms') = Len(syms) /\ Len(scopes') >= 1
    BY <2>1, <2>2
  <2>. QED BY <2>1, <2>3, <2>4, InvFacts, RestOfTypeInv, SMTT(30)
<1>. QED BY <1>1, <1>2

LEMMA UseType ==
  ASSUME TypeInv, NEW n \in Name,
         anlys_assign_stmt(n) \/ anlys_for_or_read(n) \/ anlys_factor(n)
  PROVE  TypeInv'
<1>1. Find(n) \in 0..Len(syms)
  BY InvFacts, FindType
<1>2. /\ FindErr(n) \in Nat /\ IdFactorErr(n) \in Nat
      /\ ArrayFactorErr(n) \in Nat /\ 0 \in Nat
  BY ErrTypes DEF FindErr, BADSYM
<1>3. CASE anlys_assign_stmt(n)
  <2>1. CASE n = tabs[top].nspace
    <3>1. InBlock /\ Resolve(Plain(n), tabs[top].funcsym, "own", <<>>, 0)
      BY <1>3, <2>1 DEF anlys_assign_stmt
    <3>2. top \in 1..Len(tabs)
      BY <3>1, InvFacts, TopFacts DEF InBlock, At, TypeInv, ControlOK
    <3>3. tabs[top].funcsym \in 0..Len(syms)
      BY <3>2, InvFacts, TableFacts
    <3>. QED BY <1>2, <3>1, <3>3, ResolveType
  <2>2. CASE n # tabs[top].nspace
    <3>1. InBlock /\ Resolve(Plain(n), Find(n), "name", <<>>, FindErr(n))
      BY <1>3, <2>2 DEF anlys_assign_stmt, ResolveName
    <3>. QED BY <1>1, <1>2, <3>1, ResolveType
  <2>. QED BY <2>1, <2>2
<1>4. CASE anlys_for_or_read(n)
  <2>1. InBlock /\ Resolve(Plain(n), Find(n), "name", <<>>, FindErr(n))
    BY <1>4 DEF anlys_for_or_read, ResolveName
  <2>. QED BY <1>1, <1>2, <2>1, ResolveType
<1>5. CASE anlys_factor(n)
  <2>1. InBlock
    BY <1>5 DEF anlys_factor
  <2>2. \/ Resolve(Plain(n), Find(n), "scalar", <<>>, IdFactorErr(n))
        \/ Resolve(Plain(n), Find(n), "element", <<>>, ArrayFactorErr(n))
    BY <1>5 DEF anlys_factor, ResolveName
  <2>. QED BY <1>1, <1>2, <2>1, <2>2, ResolveType
<1>. QED BY <1>3, <1>4, <1>5

\* The error of an argument list is a number.
LEMMA ArgListType ==
  ASSUME TablesOK, NEW sign \in 1..Len(syms), NEW k \in Nat, NEW args \in [1..k -> Arg]
  PROVE  anlys_arg_list(sign, args) \in Nat
<1>. DEFINE params == syms[sign].phead
            both == DOMAIN params \cap DOMAIN args
            errs == [i \in both |-> ArgErr(params[i], args[i])]
            last == IF Len(params) = Len(args) THEN 0 ELSE BADLEN
<1>1. both \subseteq Nat
  OBVIOUS
<1>2. \A i \in both : errs[i] \in Nat
  BY ErrTypes
<1>3. last \in Nat
  BY DEF BADLEN
<1>4. DOMAIN errs = both /\ anlys_arg_list(sign, args) = FirstErr(errs, last)
  BY DEF anlys_arg_list
<1>. HIDE DEF errs, both, last
<1>. QED BY <1>1, <1>2, <1>3, <1>4, FirstErrFacts

LEMMA CallType ==
  ASSUME TypeInv, NEW cate \in RoutineCate, NEW n \in Name,
         NEW k \in 0..MaxParam, NEW args \in [1..k -> Arg],
         anlys_call(cate, n, args)
  PROVE  TypeInv'
<1>. DEFINE errs == [i \in DOMAIN args |-> InferErr(args[i])]
            inferred == FirstErr(errs, 0)
            key == CalleeKey(n, args)
            e == symfind(key)
            listed == anlys_arg_list(e, args)
            code == IF e = 0 THEN BADSYM
                    ELSE IF syms[e].cate # cate
                         THEN IF cate = "PROC" THEN BADSYM ELSE ERTYPE
                    ELSE IF args = <<>> THEN 0
                    ELSE listed
<1>1. /\ InBlock
      /\ IF inferred # 0 THEN Exit(inferred) /\ UNCHANGED ref
         ELSE Resolve(key, e, "call", args, code)
  BY DEF anlys_call
<1>2. k \in Nat /\ DOMAIN errs = 1..k /\ \A i \in 1..k : errs[i] = InferErr(args[i])
  BY ConstAssumption
<1>3. \A i \in 1..k : errs[i] \in Nat
  BY <1>2, ErrTypes
<1>4. 0 \in Nat /\ 1..k \subseteq Nat
  OBVIOUS
<1>. HIDE DEF errs
<1>5. inferred \in Nat /\ (inferred = 0 => \A i \in 1..k : errs[i] = 0)
  BY <1>2, <1>3, <1>4, FirstErrFacts
<1>6. inferred = 0 => e \in 0..Len(syms)
  BY <1>2, <1>5, InvFacts, CalleeKeyType
<1>7. inferred = 0 /\ e # 0 => listed \in Nat
  <2>. SUFFICES ASSUME inferred = 0, e # 0 PROVE listed \in Nat
    OBVIOUS
  <2>1. e \in 1..Len(syms)
    BY <1>6, InvFacts
  <2>. QED BY <1>2, <2>1, InvFacts, ArgListType
<1>. HIDE DEF inferred, e, listed
<1>8. CASE inferred # 0
  BY <1>1, <1>5, <1>8, ExitType
<1>9. CASE inferred = 0
  <2>1. code \in Nat
    BY <1>7, <1>9 DEF BADSYM, ERTYPE
  <2>. HIDE DEF code, key
  <2>. QED BY <1>1, <1>6, <1>9, <2>1, ResolveType
<1>. QED BY <1>8, <1>9

LEMMA GenerationType == TypeInv /\ Generation => TypeInv'
<1>. SUFFICES ASSUME TypeInv, Generation PROVE TypeInv'
  OBVIOUS
<1>1. ASSUME NEW t \in DOMAIN tabs, NEW cate \in AllocCate, genir_alloc(t, cate)
      PROVE  TypeInv'
  <2>1. /\ symalloc(t, cate)
        /\ UNCHANGED <<scopes, pc, head, phase, errnum, ref>>
    BY <1>1 DEF genir_alloc
  <2>2. t \in 1..Len(tabs)
    BY InvFacts, LenFacts
  <2>3. TablesOK' /\ Len(syms') = Len(syms) + 1
    BY <2>1, <2>2, InvFacts, SymallocKeepsTables
  <2>4. Len(syms) <= Len(syms') /\ phase = "IR"
    BY <1>1, <2>3, InvFacts DEF genir_alloc
  <2>5. /\ head' \in HeadType /\ Len(head'.phead) <= MaxParam
        /\ \A i \in 1..Len(head'.phead) : head'.phead[i] \in 1..Len(syms')
        /\ ref'.sid \in 0..Len(syms')
    BY <2>1, <2>3, InvFacts
  <2>6. pc' # "pgm"
    BY <2>1, <1>1, <2>2 DEF TypeInv, ControlOK
  <2>. QED BY <2>1, <2>3, <2>5, <2>6 DEF TypeInv, TypeOK, ControlOK
<1>2. CASE genir_end
  BY <1>2 DEF genir_end, chkerr, TypeInv, TypeOK, ControlOK, TablesOK
<1>. QED BY <1>1, <1>2 DEF Generation

LEMMA PanicType == TypeInv /\ putsym_panic => TypeInv'
BY ExitType DEF putsym_panic, EPANIC

LEMMA TypeInit == Init => TypeInv
<1>. SUFFICES ASSUME Init PROVE TypeInv
  OBVIOUS
<1>1. TablesOK
  BY DEF Init, TablesOK
<1>2. head \in HeadType /\ Len(head.phead) = 0
  BY DEF Init, NoHead, HeadType, RoutineCate, Type
<1>3. Len(head.phead) <= MaxParam
  BY <1>2, ConstAssumption
<1>. QED BY <1>1, <1>2, <1>3 DEF Init, TypeInv, TypeOK, ControlOK, NoUse, Ref

LEMMA DeclarationsType == TypeInv /\ Declarations => TypeInv'
<1>. SUFFICES ASSUME TypeInv, Declarations PROVE TypeInv'
  OBVIOUS
<1>1. CASE anlys_pgm
  BY <1>1, PgmType
<1>2. CASE anlys_head_close
  BY <1>2, HeadCloseType
<1>3. ASSUME NEW n \in Name, anlys_head_open(n, "PROC", "VOID") PROVE TypeInv'
  BY <1>3, HeadOpenType DEF RoutineCate, Type
<1>4. ASSUME NEW n \in Name, NEW type \in ScalarType,
             \/ anlys_const_decf(n, type)
             \/ anlys_var_decf(n, "VARIABLE", type, 0)
             \/ \E len \in ArrLen : anlys_var_decf(n, "ARRAY", type, len)
             \/ anlys_head_open(n, "FUNCTION", type)
             \/ \E cate \in ParamCate : anlys_para_list(n, cate, type)
      PROVE  TypeInv'
  <2>1. ScalarType \subseteq Type /\ ArrLen \subseteq Nat /\ 0 \in Nat
    BY ConstAssumption
  <2>2. CASE anlys_const_decf(n, type)
    BY <2>2, ConstType
  <2>3. CASE anlys_var_decf(n, "VARIABLE", type, 0)
    BY <2>1, <2>3, VarType
  <2>4. ASSUME NEW len \in ArrLen, anlys_var_decf(n, "ARRAY", type, len) PROVE TypeInv'
    BY <2>1, <2>4, VarType
  <2>5. CASE anlys_head_open(n, "FUNCTION", type)
    BY <2>1, <2>5, HeadOpenType DEF RoutineCate
  <2>6. ASSUME NEW cate \in ParamCate, anlys_para_list(n, cate, type) PROVE TypeInv'
    BY <2>6, ParaType
  <2>. QED BY <1>4, <2>2, <2>3, <2>4, <2>5, <2>6
<1>. QED BY <1>1, <1>2, <1>3, <1>4 DEF Declarations

LEMMA UsesType == TypeInv /\ Uses => TypeInv'
<1>. SUFFICES ASSUME TypeInv, Uses PROVE TypeInv'
  OBVIOUS
<1>1. PICK n \in Name :
        \/ anlys_assign_stmt(n) \/ anlys_for_or_read(n) \/ anlys_factor(n)
        \/ \E cate \in RoutineCate, k \in 0..MaxParam :
             \E args \in [1..k -> Arg] : anlys_call(cate, n, args)
  BY DEF Uses
<1>. QED BY <1>1, UseType, CallType

LEMMA TypeStep == TypeInv /\ [Next]_vars => TypeInv'
<1>. SUFFICES ASSUME TypeInv, [Next]_vars PROVE TypeInv'
  OBVIOUS
<1>1. CASE UNCHANGED vars
  BY <1>1 DEF vars, TypeInv, TypeOK, ControlOK, TablesOK
<1>. QED BY <1>1, DeclarationsType, UsesType, PfEndType, AnalysisEndType,
            GenerationType, PanicType DEF Next

\* The type invariant of the analysis, with what the section of the program
\* it is in says of the tables.
THEOREM TypeCorrect == Spec => []TypeOK
<1>1. TypeInv => TypeOK
  BY DEF TypeInv
<1>. QED BY <1>1, TypeInit, TypeStep, PTL DEF Spec

-----------------------------------------------------------------------------
(* The size of syments                                                     *)

\* A declaration in the innermost scope happens only where there is room.
LEMMA DeclareHereSid ==
  ASSUME TablesOK, SidInBounds, Len(syms) \in Nat,
         NEW name, NEW cate, NEW type, NEW len,
         DeclareHere(name, cate, type, len)
  PROVE  Len(syms') < MAXSYMENT
<1>1. CASE symget(<<name, <<>>>>) # 0
  BY <1>1 DEF DeclareHere, SidInBounds
<1>2. CASE symget(<<name, <<>>>>) = 0
  <2>1. Room /\ syminit2(top, <<name, <<>>>>, cate, type, len)
    BY <1>2 DEF DeclareHere
  <2>2. Len(syms') = Len(syms) + 1
    BY <2>1 DEF syminit2, TablesOK
  <2>. QED BY <2>1, <2>2, ConstAssumption DEF Room
<1>. QED BY <1>1, <1>2

\* A use of a name changes no table and starts no phase.
LEMMA UsesKeepTables ==
  Uses => UNCHANGED <<tabs, syms>> /\ phase' \in {phase, "EXIT"}
<1>1. ASSUME NEW key, NEW sid, NEW via, NEW args, NEW code,
             Resolve(key, sid, via, args, code)
      PROVE  UNCHANGED <<tabs, syms>> /\ phase' \in {phase, "EXIT"}
  BY <1>1 DEF Resolve, Exit
<1>. SUFFICES ASSUME NEW n \in Name, NEW cate, NEW args,
                     \/ anlys_assign_stmt(n) \/ anlys_for_or_read(n)
                     \/ anlys_factor(n) \/ anlys_call(cate, n, args)
              PROVE  UNCHANGED <<tabs, syms>> /\ phase' \in {phase, "EXIT"}
  BY DEF Uses
<1>2. CASE anlys_assign_stmt(n)
  BY <1>1, <1>2 DEF anlys_assign_stmt, ResolveName
<1>3. CASE anlys_for_or_read(n)
  BY <1>1, <1>3 DEF anlys_for_or_read, ResolveName
<1>4. CASE anlys_factor(n)
  BY <1>1, <1>4 DEF anlys_factor, ResolveName
<1>5. CASE anlys_call(cate, n, args)
  <2>1. \/ \E code : Exit(code)
        \/ \E key, sid, code : Resolve(key, sid, "call", args, code)
    BY <1>5 DEF anlys_call
  <2>. QED BY <1>1, <2>1 DEF Exit
<1>. QED BY <1>2, <1>3, <1>4, <1>5

LEMMA SidStep == TypeInv /\ SidInBounds /\ [Next]_vars => SidInBounds'
<1>. SUFFICES ASSUME TypeInv, SidInBounds, [Next]_vars PROVE SidInBounds'
  OBVIOUS
<1>0. TablesOK /\ Len(syms) \in Nat /\ MAXSYMENT \in Nat /\ syms \in Seq(SymType)
  BY InvFacts, ConstAssumption DEF TablesOK
<1>1. CASE syms' = syms
  BY <1>1 DEF SidInBounds
<1>2. CASE Declarations
  <2>1. CASE anlys_pgm
    BY <2>1, <1>0 DEF anlys_pgm, Room, SidInBounds
  <2>2. CASE anlys_head_close
    BY <2>2, <1>0 DEF anlys_head_close, Room, SidInBounds
  <2>3. ASSUME NEW n \in Name, NEW cate, NEW type, anlys_head_open(n, cate, type)
        PROVE  SidInBounds'
    BY <2>3 DEF anlys_head_open, SidInBounds
  <2>4. ASSUME NEW n \in Name, NEW cate, NEW type, NEW len,
               \/ anlys_const_decf(n, type)
               \/ anlys_var_decf(n, cate, type, len)
               \/ anlys_para_list(n, cate, type)
        PROVE  SidInBounds'
    <3>1. PICK c, l : DeclareHere(n, c, type, l)
      BY <2>4 DEF anlys_const_decf, anlys_var_decf, anlys_para_list
    <3>. QED BY <1>0, <3>1, DeclareHereSid DEF SidInBounds
  <2>. QED BY <1>2, <2>1, <2>2, <2>3, <2>4 DEF Declarations
<1>3. CASE Generation
  <2>1. ASSUME NEW t \in DOMAIN tabs, NEW cate \in AllocCate, genir_alloc(t, cate)
        PROVE  SidInBounds'
    BY <2>1, <1>0 DEF genir_alloc, symalloc, Room, SidInBounds
  <2>. QED BY <1>1, <1>3, <2>1 DEF Generation, genir_end
<1>4. CASE Uses
  BY <1>1, <1>4, UsesKeepTables
<1>5. CASE anlys_pf_end \/ analysis_end \/ putsym_panic \/ UNCHANGED vars
  <2>1. syms' = syms
    BY <1>5 DEF anlys_pf_end, analysis_end, scope_exit, putsym_panic, Exit, vars
  <2>. QED BY <1>1, <2>1
<1>. QED BY <1>2, <1>3, <1>4, <1>5 DEF Next

\* No sid ever indexes past syments, however many symbols the declarations
\* and the code generator ask for.
THEOREM SidBound == Spec => []SidInBounds
<1>1. Init => SidInBounds
  BY ConstAssumption DEF Init, SidInBounds
<1>. QED BY <1>1, SidStep, TypeInit, TypeStep, PTL DEF Spec

-----------------------------------------------------------------------------
(* The layout of a frame                                                   *)

\* While declarations are analysed no table has a temporary; later no table
\* gets a local.  Arguments lie below argoff, locals and temporaries below
\* the end of the frame, which is where the next one is put.
FramesOK ==
  \A t \in 1..Len(tabs) :
    tabs[t].varoff >= 1 /\ (phase = "SEMANTIC" => tabs[t].tmpoff = 0)
ParamsBelow ==
  \A e \in 1..Len(syms) :
    syms[e].cate \in ParamCate => syms[e].off < tabs[syms[e].stab].argoff

SlotInv == FramesOK /\ ParamsBelow /\ SlotsDisjoint

\* What the types say of the numbers in a frame.
LEMMA FrameFacts ==
  ASSUME TablesOK
  PROVE  /\ \A t \in 1..Len(tabs) :
              /\ tabs[t].varoff \in Nat
              /\ tabs[t].argoff \in Nat /\ tabs[t].tmpoff \in Nat
         /\ \A e \in 1..Len(syms) :
              /\ syms[e].stab \in 1..Len(tabs) /\ syms[e].off \in Nat
              /\ Extent(syms[e].cate, syms[e].arrlen) \in Nat
<1>1. \A t \in 1..Len(tabs) : tabs[t] \in TableType
  BY TableFacts
<1>2. \A e \in 1..Len(syms) : syms[e] \in SymType /\ syms[e].stab \in 1..Len(tabs)
  BY SymFacts
<1>. QED BY <1>1, <1>2 DEF TableType, SymType, Extent

\* Arithmetic of slots.
LEMMA SumNat == \A a, b \in Nat : a + b \in Nat
OBVIOUS

LEMMA LessOrder == \A a, b, c \in Nat : a < b /\ b <= c => a < c
OBVIOUS

LEMMA AtMostOrder == \A a, b, c \in Nat : a <= b /\ b <= c => a <= c
OBVIOUS

\* Steps that leave the slots alone: symbols keep theirs and tables keep
\* their sizes, new tables are empty, and the phase goes on if it changes.
LEMMA KeepSlots ==
  ASSUME TablesOK, SlotInv, TablesOK',
         Len(syms') = Len(syms), Len(tabs') >= Len(tabs),
         \A e \in 1..Len(syms) :
           /\ syms'[e].cate = syms[e].cate /\ syms'[e].off = syms[e].off
           /\ syms'[e].stab = syms[e].stab /\ syms'[e].arrlen = syms[e].arrlen,
         \A t \in 1..Len(tabs) :
           /\ tabs'[t].varoff = tabs[t].varoff
           /\ tabs'[t].argoff = tabs[t].argoff
           /\ tabs'[t].tmpoff = tabs[t].tmpoff,
         \A t \in Len(tabs) + 1..Len(tabs') :
           tabs'[t].varoff = 1 /\ tabs'[t].tmpoff = 0,
         phase' = "SEMANTIC" => phase = "SEMANTIC"
  PROVE  SlotInv'
<1>0. /\ DOMAIN syms = 1..Len(syms) /\ DOMAIN syms' = 1..Len(syms)
      /\ Len(tabs) \in Nat /\ Len(tabs') \in Nat
  BY LenFacts DEF TablesOK
<1>1. \A e \in 1..Len(syms) : syms[e].stab \in 1..Len(tabs)
  BY SymFacts
<1>2. FramesOK'
  <2>. SUFFICES ASSUME NEW t \in 1..Len(tabs')
                PROVE  tabs'[t].varoff >= 1 /\ (phase' = "SEMANTIC" => tabs'[t].tmpoff = 0)
    BY DEF FramesOK
  <2>1. CASE t \in 1..Len(tabs)
    BY <2>1 DEF SlotInv, FramesOK
  <2>2. CASE t \in Len(tabs) + 1..Len(tabs')
    BY <2>2
  <2>. QED BY <2>1, <2>2, <1>0
<1>3. ParamsBelow'
  BY <1>1 DEF SlotInv, ParamsBelow
<1>4. SlotsDisjoint'
  <2>1. ASSUME NEW e \in 1..Len(syms)
        PROVE  (HasSlot(e)' <=> HasSlot(e)) /\ SlotEnd(e)' = SlotEnd(e)
    BY DEF HasSlot, SlotEnd
  <2>. SUFFICES ASSUME NEW d \in 1..Len(syms), NEW e \in 1..Len(syms)
                PROVE
    /\ HasSlot(e)' => LET tab == tabs'[syms'[e].stab]
                      IN  1 <= syms'[e].off /\ SlotEnd(e)' <= tab.varoff + tab.tmpoff
    /\ d # e /\ syms'[d].stab = syms'[e].stab =>
         /\ HasSlot(d)' /\ HasSlot(e)' =>
              SlotEnd(d)' <= syms'[e].off \/ SlotEnd(e)' <= syms'[d].off
         /\ {syms'[d].cate, syms'[e].cate} \subseteq ParamCate =>
              syms'[d].off # syms'[e].off
    BY <1>0 DEF SlotsDisjoint
  <2>2. /\ HasSlot(e) => LET tab == tabs[syms[e].stab]
                         IN  1 <= syms[e].off /\ SlotEnd(e) <= tab.varoff + tab.tmpoff
        /\ d # e /\ syms[d].stab = syms[e].stab =>
             /\ HasSlot(d) /\ HasSlot(e) =>
                  SlotEnd(d) <= syms[e].off \/ SlotEnd(e) <= syms[d].off
             /\ {syms[d].cate, syms[e].cate} \subseteq ParamCate =>
                  syms[d].off # syms[e].off
    BY <1>0 DEF SlotInv, SlotsDisjoint
  <2>3. syms[e].stab \in 1..Len(tabs)
    BY <1>1
  <2>. QED BY <2>1, <2>2, <2>3
<1>. QED BY <1>2, <1>3, <1>4 DEF SlotInv

\* Steps that put one more symbol into table t, at the offset its category
\* gets there: a declaration while no table has temporaries, or what code
\* generation allocates once no table gets a local.
Puts(t, cate, len, e) ==
  /\ e.cate = cate /\ e.arrlen = len /\ e.stab = t /\ e.off = Offset(tabs[t], cate)
  /\ syms' = Append(syms, e) /\ Len(tabs') = Len(tabs)
  /\ \A u \in 1..Len(tabs) : u # t =>
       /\ tabs'[u].varoff = tabs[u].varoff
       /\ tabs'[u].argoff = tabs[u].argoff
       /\ tabs'[u].tmpoff = tabs[u].tmpoff
  /\ tabs'[t].varoff = Allocate(tabs[t], cate, len).varoff
  /\ tabs'[t].argoff = Allocate(tabs[t], cate, len).argoff
  /\ tabs'[t].tmpoff = Allocate(tabs[t], cate, len).tmpoff
  /\ phase' = phase
  /\ IF phase = "SEMANTIC" THEN cate \in DeclCate ELSE cate \in AllocCate

LEMMA PutSlots ==
  ASSUME TablesOK, SlotInv, TablesOK',
         NEW t \in 1..Len(tabs), NEW cate \in DeclCate \cup AllocCate, NEW len \in Nat,
         NEW e, Puts(t, cate, len, e)
  PROVE  SlotInv'
<1>. DEFINE n == Len(syms) + 1
            tab == tabs[t]
            x == Extent(cate, len)
            slot == cate \in LocalCate \cup {"TEMP"}
<1>0. /\ DOMAIN syms = 1..Len(syms) /\ DOMAIN syms' = 1..n
      /\ Len(syms) \in Nat /\ Len(syms') = n
      /\ syms'[n] = e /\ \A d \in 1..Len(syms) : syms'[d] = syms[d]
      /\ e.stab = t /\ e.cate = cate
  BY DEF TablesOK, Puts
<1>1. /\ tab.varoff \in Nat /\ tab.argoff \in Nat /\ tab.tmpoff \in Nat
      /\ tab.varoff >= 1 /\ x \in Nat
  BY FrameFacts DEF SlotInv, FramesOK, Extent
<1>2. /\ tabs'[t].varoff = IF cate \in LocalCate THEN tab.varoff + x ELSE tab.varoff
      /\ tabs'[t].argoff = IF cate \in ParamCate THEN tab.argoff + 1 ELSE tab.argoff
      /\ tabs'[t].tmpoff = IF cate = "TEMP" THEN tab.tmpoff + 1 ELSE tab.tmpoff
  <2>1. tab \in TableType
    BY TableFacts
  <2>. QED BY <2>1 DEF Allocate, TableType, Puts
<1>3. phase = "SEMANTIC" => tab.tmpoff = 0 /\ cate # "TEMP"
  BY DEF SlotInv, FramesOK, DeclCate, LocalCate, RoutineCate, ParamCate, Puts
<1>4. phase # "SEMANTIC" => cate \notin LocalCate \cup ParamCate
  BY DEF AllocCate, LocalCate, RoutineCate, ParamCate, Puts
<1>5. /\ cate = "TEMP" => x = 1
      /\ cate = "TEMP" => cate \notin LocalCate \cup ParamCate
      /\ cate \in ParamCate => cate \notin LocalCate \cup {"TEMP"}
      /\ cate \in LocalCate => cate \notin ParamCate \cup {"TEMP"}
      /\ ~slot => x = 0
  BY DEF Extent, LocalCate, RoutineCate, ParamCate
\* A local or a temporary is put at the end of the frame.
<1>6. slot => /\ e.off = tab.varoff + tab.tmpoff
              /\ tabs'[t].varoff + tabs'[t].tmpoff = e.off + x
  <2>1. CASE cate \in LocalCate
    <3>1. phase = "SEMANTIC" /\ tab.tmpoff = 0 /\ cate # "TEMP"
      BY <2>1, <1>3, <1>4
    <3>2. e.off = tab.varoff
      BY <2>1, <3>1, <1>5 DEF Offset, Puts
    <3>. QED BY <2>1, <3>1, <3>2, <1>1, <1>2
  <2>2. CASE cate = "TEMP"
    <3>1. e.off = tab.varoff + tab.tmpoff
      BY <2>2, <1>5 DEF Offset, Puts
    <3>. QED BY <2>2, <3>1, <1>1, <1>2, <1>5
  <2>. QED BY <2>1, <2>2
<1>7. cate \in ParamCate => e.off = tab.argoff
  BY <1>5 DEF Offset, Puts
<1>nat. slot \/ cate \in ParamCate => e.off \in Nat
  BY <1>1, <1>6, <1>7, SumNat
<1>. HIDE DEF x, slot
\* No table shrinks.
<1>8. \A u \in 1..Len(tabs) :
        /\ tabs'[u].varoff + tabs'[u].tmpoff >= tabs[u].varoff + tabs[u].tmpoff
        /\ tabs'[u].argoff >= tabs[u].argoff
        /\ tabs'[u].varoff \in Nat /\ tabs'[u].tmpoff \in Nat /\ tabs'[u].argoff \in Nat
  <2>. SUFFICES ASSUME NEW u \in 1..Len(tabs)
                PROVE  /\ tabs'[u].varoff + tabs'[u].tmpoff >= tabs[u].varoff + tabs[u].tmpoff
                       /\ tabs'[u].argoff >= tabs[u].argoff
                       /\ tabs'[u].varoff \in Nat /\ tabs'[u].tmpoff \in Nat
                       /\ tabs'[u].argoff \in Nat
    OBVIOUS
  <2>1. tabs[u].varoff \in Nat /\ tabs[u].argoff \in Nat /\ tabs[u].tmpoff \in Nat
    BY FrameFacts
  <2>2. CASE u = t
    <3>1. /\ tabs'[t].varoff \in Nat /\ tabs'[t].varoff >= tab.varoff
          /\ tabs'[t].argoff \in Nat /\ tabs'[t].argoff >= tab.argoff
          /\ tabs'[t].tmpoff \in Nat /\ tabs'[t].tmpoff >= tab.tmpoff
      <4>1. tabs'[t].varoff \in Nat /\ tabs'[t].varoff >= tab.varoff
        <5>1. CASE cate \in LocalCate
          BY <5>1, <1>1, <1>2
        <5>2. CASE cate \notin LocalCate
          BY <5>2, <1>1, <1>2
        <5>. QED BY <5>1, <5>2
      <4>2. tabs'[t].argoff \in Nat /\ tabs'[t].argoff >= tab.argoff
        BY <1>1, <1>2
      <4>3. tabs'[t].tmpoff \in Nat /\ tabs'[t].tmpoff >= tab.tmpoff
        BY <1>1, <1>2
      <4>. QED BY <4>1, <4>2, <4>3
    <3>. QED BY <2>2, <3>1, <1>1
  <2>3. CASE u # t
    BY <2>1, <2>3 DEF Puts
  <2>. QED BY <2>2, <2>3
<1>9. FramesOK'
  <2>. SUFFICES ASSUME NEW u \in 1..Len(tabs)
                PROVE  /\ tabs'[u].varoff >= 1
                       /\ phase' = "SEMANTIC" => tabs'[u].tmpoff = 0
    BY DEF FramesOK, Puts
  <2>1. tabs[u].varoff >= 1 /\ (phase = "SEMANTIC" => tabs[u].tmpoff = 0)
    BY DEF SlotInv, FramesOK
  <2>2. CASE u = t
    <3>1. phase' = phase /\ tab.tmpoff \in Nat
      BY <1>1 DEF Puts
    <3>2. tabs'[t].varoff >= 1
      BY <1>1, <1>2
    <3>3. phase = "SEMANTIC" => tabs'[t].tmpoff = 0
      BY <1>2, <1>3
    <3>. QED BY <2>2, <3>1, <3>2, <3>3
  <2>3. CASE u # t
    BY <2>1, <2>3 DEF Puts
  <2>. QED BY <2>2, <2>3
<1>. HIDE DEF tab
\* An argument is put at argoff, behind all others of its table.
<1>10. ParamsBelow'
  <2>. SUFFICES ASSUME NEW d \in 1..n, syms'[d].cate \in ParamCate
                PROVE  syms'[d].off < tabs'[syms'[d].stab].argoff
    BY <1>0 DEF ParamsBelow
  <2>1. CASE d = n
    <3>1. syms'[d] = e /\ tabs'[t].argoff = tab.argoff + 1 /\ e.off = tab.argoff
      BY <2>1, <1>0, <1>2, <1>7
    <3>. QED BY <3>1, <1>0, <1>1
  <2>2. CASE d # n
    <3>1. d \in 1..Len(syms) /\ syms'[d] = syms[d]
      BY <2>2, <1>0
    <3>2. syms[d].off < tabs[syms[d].stab].argoff
      BY <3>1 DEF SlotInv, ParamsBelow
    <3>3. syms[d].stab \in 1..Len(tabs) /\ syms[d].off \in Nat
      BY <3>1, FrameFacts
    <3>4. /\ tabs[syms[d].stab].argoff \in Nat
          /\ tabs'[syms[d].stab].argoff \in Nat
          /\ tabs'[syms[d].stab].argoff >= tabs[syms[d].stab].argoff
      BY <3>3, <1>8, FrameFacts
    <3>5. tabs[syms[d].stab].argoff <= tabs'[syms[d].stab].argoff
      BY <3>4
    <3>6. syms[d].off < tabs'[syms[d].stab].argoff
      BY <3>2, <3>3, <3>4, <3>5, LessOrder
    <3>. QED BY <3>1, <3>6
  <2>. QED BY <2>1, <2>2
\* What a symbol that was there satisfies of its own frame.
<1>11. ASSUME NEW d \in 1..Len(syms)
       PROVE  /\ syms'[d] = syms[d] /\ d # n /\ SlotEnd(d)' = SlotEnd(d)
              /\ syms[d].stab \in 1..Len(tabs)
              /\ syms[d].off \in Nat /\ SlotEnd(d) \in Nat
              /\ HasSlot(d)' <=> HasSlot(d)
              /\ HasSlot(d) =>
                   /\ 1 <= syms[d].off
                   /\ SlotEnd(d) <= tabs[syms[d].stab].varoff + tabs[syms[d].stab].tmpoff
  <2>1. syms'[d] = syms[d] /\ d # n
    BY <1>0
  <2>2. SlotEnd(d)' = SlotEnd(d) /\ (HasSlot(d)' <=> HasSlot(d))
    BY <2>1 DEF SlotEnd, HasSlot
  <2>3. /\ syms[d].stab \in 1..Len(tabs)
        /\ syms[d].off \in Nat /\ SlotEnd(d) \in Nat
    BY FrameFacts DEF SlotEnd
  <2>4. HasSlot(d) =>
          /\ 1 <= syms[d].off
          /\ SlotEnd(d) <= tabs[syms[d].stab].varoff + tabs[syms[d].stab].tmpoff
    BY <1>0 DEF SlotInv, SlotsDisjoint
  <2>. QED BY <2>1, <2>2, <2>3, <2>4
<1>12. \A d : d = n => (HasSlot(d)' <=> slot) /\ SlotEnd(d)' = e.off + x
  BY <1>0 DEF HasSlot, SlotEnd, slot, x, Puts
<1>13. ASSUME NEW d \in 1..n, HasSlot(d)'
       PROVE  /\ 1 <= syms'[d].off
              /\ SlotEnd(d)' <= tabs'[syms'[d].stab].varoff + tabs'[syms'[d].stab].tmpoff
  <2>1. CASE d = n
    <3>1. syms'[d] = e /\ slot
      BY <2>1, <1>0, <1>12, <1>13
    <3>2. e.off = tab.varoff + tab.tmpoff /\ SlotEnd(d)' = e.off + x
      BY <2>1, <3>1, <1>6, <1>12
    <3>3. e.off \in Nat /\ 1 <= e.off
      BY <3>2, <1>1
    <3>4. tabs'[t].varoff + tabs'[t].tmpoff = e.off + x /\ e.off + x \in Nat
      BY <3>1, <3>3, <1>1, <1>6
    <3>5. syms'[d].off = e.off /\ syms'[d].stab = t
      BY <3>1 DEF Puts
    <3>6. SlotEnd(d)' <= tabs'[t].varoff + tabs'[t].tmpoff
      <4>. DEFINE after == tabs'[t].varoff + tabs'[t].tmpoff
                  end == SlotEnd(d)'
      <4>1. end = e.off + x /\ after = e.off + x
        BY <3>2, <3>4
      <4>. HIDE DEF after, end
      <4>2. end <= after
        BY <4>1, <3>4
      <4>. QED BY <4>2 DEF after, end
    <3>. QED BY <3>3, <3>5, <3>6
  <2>2. CASE d \in 1..Len(syms)
    <3>1. /\ syms'[d] = syms[d] /\ SlotEnd(d)' = SlotEnd(d) /\ SlotEnd(d) \in Nat
          /\ syms[d].stab \in 1..Len(tabs) /\ 1 <= syms[d].off
          /\ SlotEnd(d) <= tabs[syms[d].stab].varoff + tabs[syms[d].stab].tmpoff
      BY <2>2, <1>11, <1>13
    <3>2. PICK u \in 1..Len(tabs) : u = syms[d].stab
      BY <3>1
    <3>3. /\ tabs'[u].varoff + tabs'[u].tmpoff >= tabs[u].varoff + tabs[u].tmpoff
          /\ tabs'[u].varoff \in Nat /\ tabs'[u].tmpoff \in Nat
          /\ tabs[u].varoff \in Nat /\ tabs[u].tmpoff \in Nat
      BY <1>8, FrameFacts
    <3>4. /\ syms'[d].stab = u /\ 1 <= syms'[d].off /\ SlotEnd(d)' \in Nat
          /\ SlotEnd(d)' <= tabs[u].varoff + tabs[u].tmpoff
      BY <3>1, <3>2
    <3>5. SlotEnd(d)' <= tabs'[u].varoff + tabs'[u].tmpoff
      <4>. DEFINE before == tabs[u].varoff + tabs[u].tmpoff
                  after == tabs'[u].varoff + tabs'[u].tmpoff
                  end == SlotEnd(d)'
      <4>1. before \in Nat /\ after \in Nat
        BY <3>3, SumNat
      <4>2. end \in Nat /\ end <= before /\ before <= after
        <5>1. after >= before
          BY <3>3
        <5>2. end \in Nat /\ end <= before
          BY <3>4
        <5>. HIDE DEF before, after, end
        <5>. QED BY <5>1, <5>2, <4>1
      <4>. HIDE DEF before, after, end
      <4>3. end <= after
        BY <4>1, <4>2, AtMostOrder
      <4>. QED BY <4>3 DEF end, after
    <3>. QED BY <3>4, <3>5
  <2>. QED BY <2>1, <2>2, <1>0
\* The new symbol lies behind every other one of its table.
<1>14. ASSUME NEW d \in 1..Len(syms), syms[d].stab = t
       PROVE  /\ HasSlot(d) /\ slot => SlotEnd(d) <= e.off
              /\ {syms[d].cate, cate} \subseteq ParamCate => syms[d].off < e.off
  BY <1>6, <1>7, <1>11, <1>14 DEF SlotInv, ParamsBelow, tab
<1>15. ASSUME NEW c \in 1..n, NEW d \in 1..n, c # d, syms'[c].stab = syms'[d].stab
       PROVE  /\ HasSlot(c)' /\ HasSlot(d)' =>
                   SlotEnd(c)' <= syms'[d].off \/ SlotEnd(d)' <= syms'[c].off
              /\ {syms'[c].cate, syms'[d].cate} \subseteq ParamCate =>
                   syms'[c].off # syms'[d].off
  <2>1. CASE c \in 1..Len(syms) /\ d \in 1..Len(syms)
    <3>1. syms'[c] = syms[c] /\ syms'[d] = syms[d]
          /\ SlotEnd(c)' = SlotEnd(c) /\ SlotEnd(d)' = SlotEnd(d)
          /\ (HasSlot(c)' <=> HasSlot(c)) /\ (HasSlot(d)' <=> HasSlot(d))
      BY <2>1, <1>11
    <3>2. /\ HasSlot(c) /\ HasSlot(d) =>
               SlotEnd(c) <= syms[d].off \/ SlotEnd(d) <= syms[c].off
          /\ {syms[c].cate, syms[d].cate} \subseteq ParamCate => syms[c].off # syms[d].off
      BY <2>1, <3>1, <1>0, <1>15 DEF SlotInv, SlotsDisjoint
    <3>. QED BY <3>1, <3>2
  <2>2. CASE c = n
    <3>1. d \in 1..Len(syms) /\ syms'[c] = e /\ syms'[d] = syms[d] /\ syms[d].stab = t
      BY <2>2, <1>0, <1>11, <1>15
    <3>3. /\ (HasSlot(d)' <=> HasSlot(d)) /\ SlotEnd(d)' = SlotEnd(d) /\ syms[d].off \in Nat
          /\ HasSlot(d) /\ slot => SlotEnd(d) <= e.off
          /\ {syms[d].cate, cate} \subseteq ParamCate => syms[d].off < e.off
      BY <3>1, <1>11, <1>14
    <3>. QED BY <2>2, <3>1, <3>3, <1>0, <1>nat, <1>12
  <2>3. CASE d = n
    <3>1. c \in 1..Len(syms) /\ syms'[d] = e /\ syms'[c] = syms[c] /\ syms[c].stab = t
      BY <2>3, <1>0, <1>11, <1>15
    <3>3. /\ (HasSlot(c)' <=> HasSlot(c)) /\ SlotEnd(c)' = SlotEnd(c) /\ syms[c].off \in Nat
          /\ HasSlot(c) /\ slot => SlotEnd(c) <= e.off
          /\ {syms[c].cate, cate} \subseteq ParamCate => syms[c].off < e.off
      BY <3>1, <1>11, <1>14
    <3>. QED BY <2>3, <3>1, <3>3, <1>0, <1>nat, <1>12
  <2>. QED BY <2>1, <2>2, <2>3, <1>0
<1>16. SlotsDisjoint'
  BY <1>0, <1>13, <1>15 DEF SlotsDisjoint
<1>. QED BY <1>9, <1>10, <1>16 DEF SlotInv

\* The common part of declarations, on slots.
LEMMA DeclareHereSlots ==
  ASSUME TypeInv, SlotInv, TypeInv', Len(scopes) >= 1, phase = "SEMANTIC",
         NEW name, NEW cate \in DeclCate, NEW type, NEW len \in Nat,
         DeclareHere(name, cate, type, len), phase' = phase
  PROVE  SlotInv'
<1>0. TablesOK /\ TablesOK'
  BY InvFacts DEF TypeInv, TypeOK
<1>1. CASE symget(<<name, <<>>>>) # 0
  <2>1. UNCHANGED <<tabs, syms>>
    BY <1>1 DEF DeclareHere
  <2>. QED BY <1>0, <2>1, LenFacts, KeepSlots
<1>2. CASE symget(<<name, <<>>>>) = 0
  <2>. DEFINE key == <<name, <<>>>>
              e == Entry(tabs[top], top, key, cate, type, len)
  <2>1. /\ syms' = Append(syms, e)
        /\ tabs' = [tabs EXCEPT ![top] = Allocate(tabs[top], cate, len)]
    BY <1>2 DEF DeclareHere, syminit2
  <2>2. top \in 1..Len(tabs)
    BY <1>0, TopFacts
  <2>3. e.cate = cate /\ e.arrlen = len /\ e.stab = top /\ e.off = Offset(tabs[top], cate)
    BY DEF Entry
  <2>4. /\ Len(tabs') = Len(tabs) /\ tabs'[top] = Allocate(tabs[top], cate, len)
        /\ \A u \in 1..Len(tabs) : u # top => tabs'[u] = tabs[u]
    BY <1>0, <2>1, <2>2 DEF TablesOK
  <2>. HIDE DEF e
  <2>5. \E t \in 1..Len(tabs) : t = top
    BY <2>2
  <2>6. phase = "SEMANTIC" /\ cate \in DeclCate
    OBVIOUS
  <2>7. Puts(top, cate, len, e)
    BY <2>1, <2>3, <2>4, <2>6 DEF Puts
  <2>. QED BY <1>0, <2>5, <2>7, PutSlots
<1>. QED BY <1>1, <1>2

LEMMA PgmSlots ==
  ASSUME TypeInv, TypeInv', anlys_pgm
  PROVE  SlotInv'
<1>. DEFINE tab == NewTable(MainFunc)
            e == [Entry(tab, 1, EntryKey, "FUNCTION", "INT", 0) EXCEPT !.scope = 1]
<1>1. tabs = <<>> /\ syms = <<>>
  BY DEF anlys_pgm, At, TypeInv, ControlOK
<1>2. tabs' = <<Allocate(tab, "FUNCTION", 0)>> /\ syms' = <<e>>
  BY <1>1 DEF anlys_pgm
<1>3. /\ tabs'[1].varoff = 2 /\ tabs'[1].tmpoff = 0 /\ Len(tabs') = 1
  <2>1. tab.varoff = 1 /\ tab.tmpoff = 0
        /\ tab = [nspace |-> MainFunc, funcsym |-> 0, argoff |-> 0,
                  varoff |-> 1, tmpoff |-> 0]
    BY DEF NewTable
  <2>2. "FUNCTION" \in LocalCate /\ Extent("FUNCTION", 0) = 1
    BY DEF Extent, LocalCate, RoutineCate
  <2>. HIDE DEF tab
  <2>3. /\ Allocate(tab, "FUNCTION", 0).varoff = 2
        /\ Allocate(tab, "FUNCTION", 0).tmpoff = 0
    BY <2>1, <2>2 DEF Allocate
  <2>. QED BY <1>2, <2>3
<1>4. e.stab = 1 /\ e.off = 1 /\ e.cate = "FUNCTION" /\ e.arrlen = 0
  BY DEF Entry, Offset, NewTable, LocalCate, RoutineCate, ParamCate
<1>. HIDE DEF e
<1>5. syms'[1] = e /\ Len(syms') = 1 /\ DOMAIN syms' = 1..1
  BY <1>2
<1>6. "FUNCTION" \notin ParamCate /\ Extent("FUNCTION", 0) = 1
  BY DEF ParamCate, Extent, LocalCate, RoutineCate
<1>. QED BY <1>3, <1>4, <1>5, <1>6
         DEF SlotInv, FramesOK, ParamsBelow, SlotsDisjoint, SlotEnd

\* The declaration of a routine takes one slot in the frame around it.
LEMMA HeadCloseSlots ==
  ASSUME TypeInv, SlotInv, TypeInv', anlys_head_close
  PROVE  SlotInv'
<1>. DEFINE scope == top
            parent == scopes[Len(scopes) - 1]
            key == make_symkey(head.name, head.phead)
            old == getsym(parent, key)
            e == IF old # 0 THEN old ELSE Len(syms) + 1
            Tie(entry) == [entry EXCEPT !.scope = scope, !.phead = head.phead]
            new == Entry(tabs[parent], parent, key, head.cate, head.type, 0)
<1>0. TablesOK /\ TablesOK' /\ Len(syms) \in Nat
  BY InvFacts DEF TypeInv, TypeOK
<1>1. Len(scopes) >= 2 /\ head.name \in Name /\ Len(scopes) \in Nat /\ phase = "SEMANTIC"
  BY <1>0, LenFacts DEF anlys_head_close, At, TypeInv, ControlOK
<1>2. scope \in 1..Len(tabs) /\ parent \in 1..Len(tabs)
  BY <1>0, <1>1, LenFacts, TopFacts
<1>3. /\ phase' = phase
      /\ old # 0 => /\ syms' = [syms EXCEPT ![old] = Tie(syms[old])]
                    /\ tabs' = [tabs EXCEPT ![scope].funcsym = old]
      /\ old = 0 => /\ syms' = Append(syms, Tie(new))
                    /\ tabs' = [tabs EXCEPT ![parent] = Allocate(@, head.cate, 0),
                                            ![scope].funcsym = e]
  BY DEF anlys_head_close
<1>4. tabs \in Seq(TableType) /\ syms \in Seq(SymType)
  BY <1>0 DEF TablesOK
<1>5. /\ \A u \in 1..Len(tabs) : tabs[u] \in TableType
      /\ \A d \in 1..Len(syms) : syms[d] \in SymType
  BY <1>4
<1>. HIDE DEF key, scope, parent, old
<1>6. CASE old # 0
  <2>0. /\ syms' = [syms EXCEPT ![old] = Tie(syms[old])]
        /\ tabs' = [tabs EXCEPT ![scope] = [tabs[scope] EXCEPT !.funcsym = old]]
    BY <1>3, <1>6
  <2>1. /\ Len(syms') = Len(syms) /\ Len(tabs') = Len(tabs)
        /\ \A d \in 1..Len(syms) :
             syms'[d] = IF d = old THEN Tie(syms[d]) ELSE syms[d]
        /\ \A u \in 1..Len(tabs) :
             tabs'[u] = IF u = scope THEN [tabs[u] EXCEPT !.funcsym = old] ELSE tabs[u]
    <3>1. /\ Len(syms') = Len(syms)
          /\ \A d \in 1..Len(syms) :
               syms'[d] = IF d = old THEN Tie(syms[d]) ELSE syms[d]
      <4>. DEFINE tied == Tie(syms[old])
      <4>1. syms' = [syms EXCEPT ![old] = tied] /\ tied = Tie(syms[old])
        BY <2>0
      <4>. HIDE DEF tied
      <4>2. /\ Len(syms') = Len(syms)
            /\ \A d \in 1..Len(syms) : syms'[d] = IF d = old THEN tied ELSE syms[d]
        BY <1>4, <4>1
      <4>. QED BY <4>1, <4>2
    <3>2. /\ Len(tabs') = Len(tabs)
          /\ \A u \in 1..Len(tabs) :
               tabs'[u] = IF u = scope THEN [tabs[u] EXCEPT !.funcsym = old] ELSE tabs[u]
      BY <1>4, <2>0
    <3>. QED BY <3>1, <3>2
  <2>2. \A d \in 1..Len(syms) :
          /\ syms'[d].cate = syms[d].cate /\ syms'[d].off = syms[d].off
          /\ syms'[d].stab = syms[d].stab /\ syms'[d].arrlen = syms[d].arrlen
    BY <1>5, <2>1 DEF SymType
  <2>3. \A u \in 1..Len(tabs) : /\ tabs'[u].varoff = tabs[u].varoff
                                /\ tabs'[u].argoff = tabs[u].argoff
                                /\ tabs'[u].tmpoff = tabs[u].tmpoff
    BY <1>5, <2>1 DEF TableType
  <2>. DEFINE n == Len(tabs)
  <2>4. Len(tabs') = n /\ n \in Nat
    BY <2>1, <1>0, LenFacts
  <2>. HIDE DEF n
  <2>5. Len(tabs') >= n /\ \A u \in n + 1..Len(tabs') : FALSE
    BY <2>4
  <2>6. Len(tabs') >= Len(tabs) /\ \A u \in Len(tabs) + 1..Len(tabs') : FALSE
    BY <2>5 DEF n
  <2>. QED BY <1>0, <1>3, <2>1, <2>2, <2>3, <2>6, KeepSlots
<1>7. CASE old = 0
  <2>1. head.cate \in DeclCate \cup AllocCate /\ head.cate \in DeclCate
    BY InvFacts DEF HeadType, DeclCate, LocalCate
  <2>. DEFINE tied == Tie(new)
              alloc == Allocate(tabs[parent], head.cate, 0)
  <2>2. alloc \in TableType
    <3>1. "VOID" \in Type /\ EntryKey \in KnownKey /\ 0 \in Nat /\ tabs[parent] \in TableType
      BY <1>2, <1>5 DEF Type, KnownKey
    <3>. QED BY <2>1, <3>1, EntryType
  <2>3. /\ tied.cate = head.cate /\ tied.arrlen = 0 /\ tied.stab = parent
        /\ tied.off = Offset(tabs[parent], head.cate)
    BY DEF Entry
  <2>. HIDE DEF alloc
  <2>4. /\ Len(tabs') = Len(tabs)
        /\ \A u \in 1..Len(tabs) :
             LET mid == IF u = parent THEN alloc ELSE tabs[u]
             IN  tabs'[u] = IF u = scope THEN [mid EXCEPT !.funcsym = e] ELSE mid
    <3>. DEFINE mid == [tabs EXCEPT ![parent] = alloc]
    <3>1. tabs' = [mid EXCEPT ![scope] = [mid[scope] EXCEPT !.funcsym = e]]
      BY <1>3, <1>7 DEF alloc
    <3>2. /\ Len(mid) = Len(tabs) /\ mid \in Seq(TableType)
          /\ \A u \in 1..Len(tabs) : mid[u] = IF u = parent THEN alloc ELSE tabs[u]
      BY <1>2, <1>4, <2>2
    <3>. HIDE DEF mid, e
    <3>3. /\ Len(tabs') = Len(mid)
          /\ \A u \in 1..Len(mid) :
               tabs'[u] = IF u = scope THEN [mid[u] EXCEPT !.funcsym = e] ELSE mid[u]
      BY <3>1, <3>2
    <3>. QED BY <3>2, <3>3
  <2>5. /\ \A u \in 1..Len(tabs) : u # parent =>
             /\ tabs'[u].varoff = tabs[u].varoff
             /\ tabs'[u].argoff = tabs[u].argoff
             /\ tabs'[u].tmpoff = tabs[u].tmpoff
        /\ tabs'[parent].varoff = alloc.varoff
        /\ tabs'[parent].argoff = alloc.argoff
        /\ tabs'[parent].tmpoff = alloc.tmpoff
    BY <1>2, <1>5, <2>2, <2>4 DEF TableType
  <2>6. syms' = Append(syms, tied)
    BY <1>3, <1>7
  <2>. HIDE DEF tied
  <2>7. \E t \in 1..Len(tabs) : t = parent
    BY <1>2
  <2>8. Puts(parent, head.cate, 0, tied)
    BY <1>1, <1>3, <2>1, <2>3, <2>4, <2>5, <2>6 DEF Puts, alloc
  <2>. QED BY <1>0, <2>1, <2>7, <2>8, PutSlots
<1>. QED BY <1>6, <1>7

LEMMA SlotStep == TypeInv /\ SlotInv /\ [Next]_vars => SlotInv'
<1>. SUFFICES ASSUME TypeInv, SlotInv, [Next]_vars PROVE SlotInv'
  OBVIOUS
<1>0. TypeInv' /\ TablesOK /\ TablesOK'
  BY TypeStep, InvFacts DEF TypeInv, TypeOK
\* Steps that keep every table and every symbol.
<1>1. CASE UNCHANGED <<tabs, syms>> /\ (phase' = "SEMANTIC" => phase = "SEMANTIC")
  BY <1>0, <1>1, LenFacts, KeepSlots
<1>2. CASE Declarations
  <2>1. CASE anlys_pgm
    BY <2>1, <1>0, PgmSlots
  <2>2. CASE anlys_head_close
    BY <2>2, <1>0, HeadCloseSlots
  <2>3. ASSUME NEW n \in Name, NEW cate, NEW type, anlys_head_open(n, cate, type)
        PROVE  SlotInv'
    <3>1. /\ tabs' = Append(tabs, NewTable(n)) /\ syms' = syms /\ phase' = phase
      BY <2>3 DEF anlys_head_open, scope_entry
    <3>2. /\ Len(tabs') = Len(tabs) + 1 /\ Len(tabs) \in Nat
          /\ tabs'[Len(tabs) + 1] = NewTable(n)
          /\ \A u \in 1..Len(tabs) : tabs'[u] = tabs[u]
      BY <3>1, <1>0 DEF TablesOK
    <3>3. NewTable(n).varoff = 1 /\ NewTable(n).tmpoff = 0
      BY DEF NewTable
    <3>. QED BY <1>0, <3>1, <3>2, <3>3, LenFacts, KeepSlots
  <2>4. ASSUME NEW n \in Name, NEW type \in ScalarType,
               \/ anlys_const_decf(n, type)
               \/ anlys_var_decf(n, "VARIABLE", type, 0)
               \/ \E len \in ArrLen : anlys_var_decf(n, "ARRAY", type, len)
               \/ \E cate \in ParamCate : anlys_para_list(n, cate, type)
        PROVE  SlotInv'
    <3>1. phase = "SEMANTIC" /\ phase' = phase /\ pc \in {"const", "var", "head"}
      BY <2>4 DEF anlys_const_decf, anlys_var_decf, anlys_para_list, At
    <3>2. Len(scopes) >= 1
      BY <3>1, <1>0, LenFacts DEF TypeInv, ControlOK
    <3>3. \E cate \in DeclCate, len \in Nat : DeclareHere(n, cate, type, len)
      BY <2>4, ConstAssumption
         DEF anlys_const_decf, anlys_var_decf, anlys_para_list, DeclCate, LocalCate
    <3>. QED BY <3>1, <3>2, <3>3, <1>0, DeclareHereSlots
  <2>. QED BY <1>2, <2>1, <2>2, <2>3, <2>4 DEF Declarations
<1>3. CASE Generation
  <2>1. ASSUME NEW t \in DOMAIN tabs, NEW cate \in AllocCate, genir_alloc(t, cate)
        PROVE  SlotInv'
    <3>. DEFINE e == Entry(tabs[t], t, GenKey, cate, "VOID", 0)
    <3>1. /\ syms' = Append(syms, e) /\ phase = "IR" /\ phase' = phase
          /\ tabs' = [tabs EXCEPT ![t] = Allocate(tabs[t], cate, 0)]
      BY <2>1 DEF genir_alloc, symalloc
    <3>2. t \in 1..Len(tabs)
      BY <1>0, LenFacts
    <3>3. e.cate = cate /\ e.arrlen = 0 /\ e.stab = t /\ e.off = Offset(tabs[t], cate)
      BY DEF Entry
    <3>. HIDE DEF e
    <3>4. /\ Len(tabs') = Len(tabs) /\ tabs'[t] = Allocate(tabs[t], cate, 0)
          /\ \A u \in 1..Len(tabs) : u # t => tabs'[u] = tabs[u]
      BY <1>0, <3>1, <3>2 DEF TablesOK
    <3>5. Puts(t, cate, 0, e)
      BY <2>1, <3>1, <3>3, <3>4 DEF Puts
    <3>. QED BY <1>0, <3>2, <3>5, PutSlots
  <2>2. CASE genir_end
    BY <2>2, <1>1 DEF genir_end, chkerr
  <2>. QED BY <1>3, <2>1, <2>2 DEF Generation
<1>4. CASE Uses
  BY <1>1, <1>4, UsesKeepTables
<1>5. CASE anlys_pf_end \/ analysis_end
  BY <1>1, <1>5 DEF anlys_pf_end, analysis_end, scope_exit, chkerr
<1>6. CASE putsym_panic \/ UNCHANGED vars
  BY <1>1, <1>6 DEF putsym_panic, Exit, vars
<1>. QED BY <1>2, <1>3, <1>4, <1>5, <1>6 DEF Next

\* In the frame of every routine no local, nested routine, temporary or
\* argument shares a slot with another of its kind, at any time of the
\* analysis and the code generation.
THEOREM FramesDisjoint == Spec => []SlotsDisjoint
<1>1. Init => SlotInv
  BY DEF Init, SlotInv, FramesOK, ParamsBelow, SlotsDisjoint
<1>2. SlotInv => SlotsDisjoint
  BY DEF SlotInv
<1>. QED BY <1>1, <1>2, SlotStep, TypeInit, TypeStep, PTL DEF Spec

-----------------------------------------------------------------------------
(* Scopes and what is declared in them                                     *)

(* The inductive invariant                                                 *)

\* The scope of the heading that is analysed: its routine is not declared yet.
HeadOpen(t) == pc = "head" /\ t = top

\* An inner scope is newer than the ones around it.  A scope other than the
\* program's is without a routine while its heading is analysed and never
\* after.  Past chkerr there is no error and no scope is open.
Nested ==
  /\ \A i, j \in 1..Len(scopes) : i < j => scopes[i] < scopes[j]
  /\ \A t \in 2..Len(tabs) : tabs[t].funcsym = 0 <=> HeadOpen(t)
  /\ Accepted => errnum = 0 /\ scopes = <<>> /\ pc = "done"

\* The symbols ps are the parameters of the scope t, in order and all of them.
Layout(ps, t) ==
  /\ tabs[t].argoff = Len(ps)
  /\ \A i \in 1..Len(ps) : /\ syms[ps[i]].cate \in ParamCate
                           /\ syms[ps[i]].stab = t
                           /\ syms[ps[i]].off = i - 1

\* The scope t and its routine point at each other.
Tied(t) ==
  LET f == tabs[t].funcsym
  IN  syms[f].cate \in RoutineCate /\ syms[f].scope = t /\ syms[f].stab < t

\* A routine has a scope, which is the program's or knows the routine.
Owns(e) ==
  /\ syms[e].scope \in 1..Len(tabs)
  /\ syms[e].scope = 1 \/ tabs[syms[e].scope].funcsym = e

\* As long as no error was reported: a duplicate ties its first declaration
\* to another scope.
RoutineInv ==
  errnum = 0 =>
    /\ \A t \in 2..Len(tabs) : ~HeadOpen(t) => Tied(t)
    /\ \A e \in 1..Len(syms) : syms[e].cate \in RoutineCate =>
         Owns(e) /\ Layout(syms[e].phead, syms[e].scope)
    /\ pc = "head" => Layout(head.phead, top)

\* The key of a routine has the types of its parameters, even if the routine
\* was declared twice; what is in a parameter list is a parameter, because
\* nothing else is in a scope while its heading is analysed.
IsParam(e) == syms[e].cate \in ParamCate
TypesOf(ps) == [i \in 1..Len(ps) |-> syms[ps[i]].type]

KeyInv ==
  /\ \A e \in 1..Len(syms) :
       /\ syms[e].cate \in RoutineCate => syms[e].key[2] = TypesOf(syms[e].phead)
       /\ \A i \in 1..Len(syms[e].phead) : IsParam(syms[e].phead[i])
  /\ \A i \in 1..Len(head.phead) : IsParam(head.phead[i])
  /\ pc = "head" =>
       \A b \in Bucket : \A i \in 1..Len(buckets[top][b]) : IsParam(buckets[top][b][i])

ScopeInv == Nested /\ RoutineInv /\ KeyInv

-----------------------------------------------------------------------------
(* Lookups and insertions                                                  *)

\* What getsym returns is in the key's chain and has the key; NULL is
\* returned only if nothing in the chain has it.
LEMMA GetsymFound ==
  ASSUME TablesOK, NEW t \in 1..Len(tabs), NEW key \in KnownKey
  PROVE  /\ getsym(t, key) # 0 =>
              \E i \in 1..Len(buckets[t][Hash(key)]) :
                /\ getsym(t, key) = buckets[t][Hash(key)][i]
                /\ syms[getsym(t, key)].key = key
         /\ getsym(t, key) = 0 =>
              \A i \in 1..Len(buckets[t][Hash(key)]) :
                syms[buckets[t][Hash(key)][i]].key # key
<1>. DEFINE chain == buckets[t][Hash(key)]
            hits == {i \in DOMAIN chain : syms[chain[i]].key = key}
            first == CHOOSE i \in hits : \A j \in hits : i <= j
<1>1. Hash(key) \in Bucket
  BY ConstAssumption DEF KnownKey
<1>2. /\ chain \in Seq(Nat) /\ DOMAIN chain = 1..Len(chain)
      /\ \A i \in 1..Len(chain) : chain[i] \in 1..Len(syms)
  BY <1>1, TableFacts
<1>3. getsym(t, key) = IF hits = {} THEN 0 ELSE chain[first]
  BY DEF getsym
<1>4. hits # {} => first \in hits
  <2>1. hits \subseteq Nat
    BY <1>2
  <2>2. hits # {} => \E i \in hits : \A j \in hits : i <= j
    BY <2>1, LeastNat
  <2>. QED BY <2>2
<1>5. \A i \in hits : i \in 1..Len(chain) /\ syms[chain[i]].key = key
  BY <1>2
<1>6. \A i \in 1..Len(chain) : i \notin hits => syms[chain[i]].key # key
  BY <1>2
<1>. HIDE DEF chain, hits, first
<1>7. CASE hits = {}
  <2>1. getsym(t, key) = 0
    BY <1>3, <1>7
  <2>2. \A i \in 1..Len(chain) : syms[chain[i]].key # key
    BY <1>6, <1>7
  <2>. QED BY <2>1, <2>2 DEF chain
<1>8. CASE hits # {}
  <2>1. first \in 1..Len(chain) /\ syms[chain[first]].key = key
    BY <1>4, <1>5, <1>8
  <2>2. getsym(t, key) = chain[first]
    BY <1>3, <1>8
  <2>3. chain[first] # 0
    BY <2>1, <1>2
  <2>. QED BY <2>1, <2>2, <2>3 DEF chain
<1>. QED BY <1>7, <1>8

\* The innermost scope that knows a key is where symfind finds it.
LEMMA SymfindFound ==
  ASSUME TablesOK, NEW key \in KnownKey
  PROVE  /\ symfind(key) # 0 =>
              \E i \in 1..Len(scopes) :
                /\ symfind(key) = getsym(scopes[i], key)
                /\ \A j \in 1..Len(scopes) : getsym(scopes[j], key) # 0 => i >= j
         /\ symfind(key) = 0 => \A i \in 1..Len(scopes) : getsym(scopes[i], key) = 0
<1>. DEFINE levels == {i \in DOMAIN scopes : getsym(scopes[i], key) # 0}
            last == CHOOSE i \in levels : \A j \in levels : i >= j
<1>1. DOMAIN scopes = 1..Len(scopes) /\ Len(scopes) \in Nat
  BY LenFacts
<1>2. symfind(key) = IF levels = {} THEN 0 ELSE getsym(scopes[last], key)
  BY DEF symfind
<1>3. levels # {} => last \in levels /\ \A j \in levels : last >= j
  <2>1. levels \subseteq 1..Len(scopes)
    BY <1>1
  <2>2. levels # {} => \E i \in levels : \A j \in levels : i >= j
    BY <1>1, <2>1, GreatestNat
  <2>. QED BY <2>2
<1>4. \A j \in 1..Len(scopes) : j \in levels <=> getsym(scopes[j], key) # 0
  BY <1>1
<1>5. levels \subseteq 1..Len(scopes)
  BY <1>1
<1>. HIDE DEF levels, last
<1>6. CASE levels = {}
  BY <1>2, <1>4, <1>6
<1>7. CASE levels # {}
  BY <1>2, <1>3, <1>4, <1>5, <1>7
<1>. QED BY <1>6, <1>7

\* A symbol that is found in any open scope has the key that was asked for.
LEMMA SymfindKey ==
  ASSUME TablesOK, NEW key \in KnownKey, symfind(key) # 0
  PROVE  symfind(key) \in 1..Len(syms) /\ syms[symfind(key)].key = key
<1>1. symfind(key) \in 1..Len(syms)
  BY SymfindType, LenFacts
<1>2. PICK i \in 1..Len(scopes) : symfind(key) = getsym(scopes[i], key)
  BY SymfindFound
<1>3. scopes[i] \in 1..Len(tabs)
  BY LenFacts
<1>. QED BY <1>1, <1>2, <1>3, GetsymFound

\* A new symbol new of a key, put into the chains of the table t.
PutIn(t, key, new) ==
  /\ syms' = Append(syms, new)
  /\ buckets' = [buckets EXCEPT ![t] = putsym(@, key)]

LEMMA PutFacts ==
  ASSUME TablesOK, NEW t \in 1..Len(tabs), NEW key \in KnownKey, NEW new,
         PutIn(t, key, new)
  PROVE  /\ Len(syms) + 1 \in Nat /\ Len(syms') = Len(syms) + 1
         /\ syms'[Len(syms) + 1] = new
         /\ \A d \in 1..Len(syms) : syms'[d] = syms[d]
         /\ Len(buckets') = Len(buckets)
         /\ \A u \in 1..Len(tabs), b \in Bucket :
              buckets'[u][b] = IF u = t /\ b = Hash(key)
                               THEN <<Len(syms) + 1>> \o buckets[u][b]
                               ELSE buckets[u][b]
<1>1. syms \in Seq(SymType) /\ syms' = Append(syms, new)
  BY DEF TablesOK, PutIn
<1>2. /\ Len(syms) + 1 \in Nat /\ Len(syms') = Len(syms) + 1
      /\ syms'[Len(syms) + 1] = new
      /\ \A d \in 1..Len(syms) : syms'[d] = syms[d]
  BY <1>1
<1>3. Hash(key) \in Bucket
  BY ConstAssumption DEF KnownKey
<1>. DEFINE row == [buckets[t] EXCEPT ![Hash(key)] = <<Len(syms) + 1>> \o @]
<1>4. buckets' = [buckets EXCEPT ![t] = row]
  BY DEF PutIn, putsym
<1>5. /\ buckets \in Seq([Bucket -> Seq(Nat)]) /\ Len(buckets) = Len(tabs)
      /\ buckets[t] \in [Bucket -> Seq(Nat)]
  BY DEF TablesOK
<1>6. \A b \in Bucket : row[b] = IF b = Hash(key) THEN <<Len(syms) + 1>> \o buckets[t][b]
                                 ELSE buckets[t][b]
  BY <1>3, <1>5
<1>. HIDE DEF row
<1>7. /\ Len(buckets') = Len(buckets) /\ buckets'[t] = row
      /\ \A u \in 1..Len(tabs) : u # t => buckets'[u] = buckets[u]
  BY <1>4, <1>5
<1>. QED BY <1>2, <1>6, <1>7

\* The elements of a chain with a new head.
LEMMA NewHead ==
  ASSUME NEW old \in Seq(Nat), NEW n \in Nat, NEW chain, chain = <<n>> \o old
  PROVE  /\ \A i \in 1..Len(chain) : chain[i] = n \/ \E j \in 1..Len(old) : chain[i] = old[j]
         /\ \E i \in 1..Len(chain) : chain[i] = n
         /\ \A j \in 1..Len(old) : \E i \in 1..Len(chain) : chain[i] = old[j]
<1>1. <<n>> \in Seq(Nat) /\ Len(<<n>>) = 1
  OBVIOUS
<1>2. /\ Len(chain) = 1 + Len(old) /\ Len(old) \in Nat
      /\ \A i \in 1..1 + Len(old) : chain[i] = IF i <= 1 THEN <<n>>[i] ELSE old[i - 1]
  BY <1>1, ConcatProperties
<1>3. chain[1] = n /\ 1 \in 1..Len(chain)
  BY <1>2
<1>4. \A j \in 1..Len(old) : j + 1 \in 1..Len(chain) /\ chain[j + 1] = old[j]
  BY <1>2
<1>5. \A i \in 1..Len(chain) : i = 1 \/ (i - 1 \in 1..Len(old) /\ chain[i] = old[i - 1])
  BY <1>2
<1>. HIDE <1>2
<1>. QED BY <1>3, <1>4, <1>5

\* What the table becomes that gives a symbol its offset.
LEMMA AllocFacts ==
  ASSUME TablesOK, NEW t \in 1..Len(tabs), NEW cate, NEW len \in Nat,
         tabs' = [tabs EXCEPT ![t] = Allocate(@, cate, len)]
  PROVE  /\ Len(tabs') = Len(tabs)
         /\ \A u \in 1..Len(tabs) :
              tabs'[u].funcsym = tabs[u].funcsym /\ tabs'[u].nspace = tabs[u].nspace
         /\ \A u \in 1..Len(tabs) : u # t => tabs'[u] = tabs[u]
         /\ tabs'[t].argoff = IF cate \in ParamCate THEN tabs[t].argoff + 1 ELSE tabs[t].argoff
         /\ cate \notin LocalCate => tabs'[t].varoff = tabs[t].varoff
<1>1. tabs \in Seq(TableType) /\ tabs[t] \in TableType
  BY DEF TablesOK
<1>2. /\ Allocate(tabs[t], cate, len).funcsym = tabs[t].funcsym
      /\ Allocate(tabs[t], cate, len).nspace = tabs[t].nspace
      /\ Allocate(tabs[t], cate, len).argoff =
           IF cate \in ParamCate THEN tabs[t].argoff + 1 ELSE tabs[t].argoff
      /\ cate \notin LocalCate => Allocate(tabs[t], cate, len).varoff = tabs[t].varoff
  BY <1>1 DEF Allocate, TableType
<1>3. /\ Len(tabs') = Len(tabs) /\ tabs'[t] = Allocate(tabs[t], cate, len)
      /\ \A u \in 1..Len(tabs) : u # t => tabs'[u] = tabs[u]
  BY <1>1
<1>. QED BY <1>2, <1>3

-----------------------------------------------------------------------------
(* What the steps do                                                       *)

\* A use of a name is made in a block.  It changes what was declared in no
\* way, and the errors it reports end the process.
LEMMA UsesFacts ==
  Uses => /\ UNCHANGED <<tabs, buckets, syms, scopes, head>>
          /\ pc # "head" /\ pc' # "head" /\ phase = "SEMANTIC"
          /\ \/ errnum' = errnum /\ phase' = phase
             \/ errnum' # 0 /\ phase' = "EXIT"
<1>. DEFINE Effect == /\ UNCHANGED <<tabs, buckets, syms, scopes, head>>
                      /\ pc' \in {pc, "stmt"}
                      /\ \/ errnum' = errnum /\ phase' = phase
                         \/ errnum' # 0 /\ phase' = "EXIT"
<1>1. ASSUME NEW key, NEW sid, NEW via, NEW args, NEW code,
             Resolve(key, sid, via, args, code)
      PROVE  Effect
  BY <1>1 DEF Resolve, Exit
<1>2. Effect /\ InBlock =>
        /\ UNCHANGED <<tabs, buckets, syms, scopes, head>>
        /\ pc # "head" /\ pc' # "head" /\ phase = "SEMANTIC"
        /\ \/ errnum' = errnum /\ phase' = phase
           \/ errnum' # 0 /\ phase' = "EXIT"
  BY DEF InBlock, At
<1>. HIDE DEF Effect
<1>. SUFFICES ASSUME Uses PROVE Effect /\ InBlock
  BY <1>2
<1>3. PICK n, cate, args :
        /\ n \in Name
        /\ \/ anlys_assign_stmt(n) \/ anlys_for_or_read(n)
           \/ anlys_factor(n) \/ anlys_call(cate, n, args)
  BY DEF Uses
<1>4. CASE anlys_assign_stmt(n)
  BY <1>1, <1>4 DEF anlys_assign_stmt, ResolveName
<1>5. CASE anlys_for_or_read(n)
  BY <1>1, <1>5 DEF anlys_for_or_read, ResolveName
<1>6. CASE anlys_factor(n)
  BY <1>1, <1>6 DEF anlys_factor, ResolveName
<1>7. CASE anlys_call(cate, n, args)
  <2>1. /\ InBlock
        /\ \/ \E code : code # 0 /\ Exit(code)
           \/ \E key, sid, code : Resolve(key, sid, "call", args, code)
    BY <1>7 DEF anlys_call
  <2>2. ASSUME NEW code, code # 0, Exit(code) PROVE Effect
    BY <2>2 DEF Exit, Effect
  <2>. QED BY <1>1, <2>1, <2>2
<1>. QED BY <1>3, <1>4, <1>5, <1>6, <1>7

\* A declaration in the innermost scope: an error, or a new symbol there.
LEMMA DeclareFacts ==
  ASSUME TypeInv, Len(scopes) >= 1, NEW name \in Name, NEW cate \in DeclCate,
         NEW type \in Type, NEW len \in Nat,
         DeclareHere(name, cate, type, len)
  PROVE  LET key == <<name, <<>>>>
             new == Entry(tabs[top], top, key, cate, type, len)
         IN  /\ top \in 1..Len(tabs) /\ key \in KnownKey
             /\ getsym(top, key) \in 0..Len(syms)
             /\ getsym(top, key) # 0 =>
                  errnum' = DUPSYM /\ UNCHANGED <<tabs, buckets, syms>>
             /\ getsym(top, key) = 0 =>
                  /\ errnum' = errnum /\ Room /\ PutIn(top, key, new)
                  /\ tabs' = [tabs EXCEPT ![top] = Allocate(@, cate, len)]
<1>1. TablesOK
  BY InvFacts
<1>2. top \in 1..Len(tabs) /\ <<name, <<>>>> \in KnownKey
  BY <1>1, TopFacts, NameKey
<1>3. getsym(top, <<name, <<>>>>) \in 0..Len(syms)
  BY <1>1, <1>2, GetsymType
<1>4. symget(<<name, <<>>>>) = getsym(top, <<name, <<>>>>)
  BY DEF symget
<1>5. CASE symget(<<name, <<>>>>) # 0
  BY <1>2, <1>3, <1>4, <1>5 DEF DeclareHere, rescue
<1>6. CASE symget(<<name, <<>>>>) = 0
  BY <1>2, <1>3, <1>4, <1>6 DEF DeclareHere, syminit2, PutIn
<1>. QED BY <1>5, <1>6

\* The declarations made with DeclareHere, in one.
DeclaresBlock(n, cate, type, len) ==
  /\ phase = "SEMANTIC" /\ pc \in {"const", "var"} /\ pc' \in {"const", "var"}
  /\ cate \in {"CONSTANT", "VARIABLE", "ARRAY"}
  /\ DeclareHere(n, cate, type, len)
  /\ ref' = NoUse(Plain(n))
  /\ UNCHANGED <<scopes, head, phase>>

LEMMA DeclarationKinds ==
  ASSUME Declarations
  PROVE  \/ anlys_pgm \/ anlys_head_close
         \/ \E n \in Name, cate \in RoutineCate, type \in Type :
              anlys_head_open(n, cate, type)
         \/ \E n \in Name, cate \in ParamCate, type \in ScalarType :
              anlys_para_list(n, cate, type)
         \/ \E n \in Name, cate \in DeclCate, type \in ScalarType, len \in Nat :
              DeclaresBlock(n, cate, type, len)
<1>. USE ConstAssumption
<1>1. ASSUME NEW n \in Name, NEW type \in ScalarType, anlys_const_decf(n, type)
      PROVE  DeclaresBlock(n, "CONSTANT", type, 0)
  BY <1>1 DEF anlys_const_decf, At, DeclaresBlock
<1>2. ASSUME NEW n \in Name, NEW type \in ScalarType, NEW len \in Nat,
             NEW cate \in {"VARIABLE", "ARRAY"}, anlys_var_decf(n, cate, type, len)
      PROVE  DeclaresBlock(n, cate, type, len)
  BY <1>2 DEF anlys_var_decf, At, DeclaresBlock
<1>3. /\ {"CONSTANT", "VARIABLE", "ARRAY"} \subseteq DeclCate
      /\ ScalarType \subseteq Type /\ "VOID" \in Type
      /\ {"PROC", "FUNCTION"} = RoutineCate /\ ArrLen \subseteq Nat /\ 0 \in Nat
  BY DEF DeclCate, LocalCate, Type, RoutineCate
<1>. QED BY <1>1, <1>2, <1>3 DEF Declarations

\* The end of a heading: the routine is declared around its scope.
LEMMA HeadCloseFacts ==
  ASSUME TypeInv, anlys_head_close
  PROVE  LET scope == top
             parent == scopes[Len(scopes) - 1]
             key == make_symkey(head.name, head.phead)
             old == getsym(parent, key)
             new == [Entry(tabs[parent], parent, key, head.cate, head.type, 0)
                     EXCEPT !.scope = scope, !.phead = head.phead]
         IN  /\ Len(scopes) \in Nat /\ Len(scopes) >= 2 /\ head.name \in Name
             /\ scope \in 1..Len(tabs) /\ parent \in 1..Len(tabs)
             /\ key \in KnownKey /\ old \in 0..Len(syms)
             /\ pc = "head" /\ pc' = "const" /\ head' = NoHead /\ ref' = NoUse(key)
             /\ phase = "SEMANTIC" /\ UNCHANGED <<scopes, phase>>
             /\ old # 0 =>
                  /\ errnum' = DUPSYM /\ buckets' = buckets
                  /\ syms' = [syms EXCEPT ![old] = [@ EXCEPT !.scope = scope,
                                                            !.phead = head.phead]]
                  /\ tabs' = [tabs EXCEPT ![scope].funcsym = old]
             /\ old = 0 =>
                  /\ errnum' = errnum /\ Room /\ PutIn(parent, key, new)
                  /\ tabs' = [tabs EXCEPT ![parent] = Allocate(@, head.cate, 0),
                                          ![scope].funcsym = Len(syms) + 1]
<1>1. /\ pc = "head" /\ pc' = "const" /\ head' = NoHead
      /\ ref' = NoUse(make_symkey(head.name, head.phead))
      /\ phase = "SEMANTIC" /\ UNCHANGED <<scopes, phase>>
  BY DEF anlys_head_close, At
<1>2. Len(scopes) \in Nat /\ Len(scopes) >= 2 /\ head.name \in Name
  BY <1>1, InvFacts, LenFacts DEF TypeInv, ControlOK
<1>3. top \in 1..Len(tabs) /\ scopes[Len(scopes) - 1] \in 1..Len(tabs)
  BY <1>2, InvFacts, LenFacts DEF top
<1>4. make_symkey(head.name, head.phead) \in KnownKey
  BY <1>2, HeadKey
<1>5. getsym(scopes[Len(scopes) - 1], make_symkey(head.name, head.phead)) \in 0..Len(syms)
  BY <1>3, <1>4, InvFacts, GetsymType
<1>6. CASE getsym(scopes[Len(scopes) - 1], make_symkey(head.name, head.phead)) # 0
  BY <1>1, <1>2, <1>3, <1>4, <1>5, <1>6 DEF anlys_head_close, rescue
<1>7. CASE getsym(scopes[Len(scopes) - 1], make_symkey(head.name, head.phead)) = 0
  BY <1>1, <1>2, <1>3, <1>4, <1>5, <1>7 DEF anlys_head_close, PutIn
<1>. QED BY <1>6, <1>7

-----------------------------------------------------------------------------
(* The frame of a scope that was left                                      *)

FrameFixed(t) ==
  /\ tabs'[t].varoff = tabs[t].varoff
  /\ tabs'[t].argoff = tabs[t].argoff
  /\ tabs'[t].funcsym = tabs[t].funcsym

LEMMA ClosedStep ==
  ASSUME TypeInv, Next, NEW t \in 1..Len(tabs),
         \A i \in 1..Len(scopes) : scopes[i] # t
  PROVE  FrameFixed(t)
<1>0. /\ TablesOK /\ tabs \in Seq(TableType) /\ Len(scopes) \in Nat
      /\ DOMAIN scopes = 1..Len(scopes)
  BY InvFacts, LenFacts DEF TablesOK
<1>1. CASE tabs'[t] = tabs[t]
  BY <1>1 DEF FrameFixed
<1>2. CASE Declarations
  <2>1. CASE anlys_pgm
    BY <1>0, <1>1, <2>1 DEF anlys_pgm
  <2>2. CASE anlys_head_close
    <3>. DEFINE scope == top
                parent == scopes[Len(scopes) - 1]
    <3>1. /\ Len(scopes) >= 2 /\ scope \in 1..Len(tabs) /\ parent \in 1..Len(tabs)
          /\ \/ \E s : tabs' = [tabs EXCEPT ![scope].funcsym = s]
             \/ \E s, tab : tabs' = [tabs EXCEPT ![parent] = tab, ![scope].funcsym = s]
      BY <2>2, HeadCloseFacts
    <3>2. t # scope /\ t # parent
      <4>0. Len(scopes) \in Nat /\ Len(scopes) >= 2
        BY <1>0, <3>1
      <4>1. Len(scopes) \in 1..Len(scopes) /\ Len(scopes) - 1 \in 1..Len(scopes)
        BY <4>0
      <4>. QED BY <4>1 DEF top
    <3>. HIDE DEF scope, parent
    <3>3. tabs'[t] = tabs[t]
      BY <1>0, <3>1, <3>2
    <3>. QED BY <1>1, <3>3
  <2>3. ASSUME NEW n \in Name, NEW cate, NEW type, anlys_head_open(n, cate, type)
        PROVE  FrameFixed(t)
    BY <1>0, <1>1, <2>3 DEF anlys_head_open, scope_entry
  <2>4. ASSUME NEW n \in Name, NEW cate \in DeclCate, NEW type \in Type, NEW len \in Nat,
               DeclareHere(n, cate, type, len), pc \in {"const", "var", "head"}
        PROVE  FrameFixed(t)
    <3>1. Len(scopes) >= 1
      BY <1>0, <2>4 DEF TypeInv, ControlOK
    <3>2. t # top
      BY <1>0, <3>1 DEF top
    <3>3. \/ tabs' = tabs
          \/ tabs' = [tabs EXCEPT ![top] = Allocate(@, cate, len)]
      BY <2>4, <3>1, DeclareFacts
    <3>. QED BY <1>0, <1>1, <3>2, <3>3
  <2>. QED
    <3>1. ScalarType \subseteq Type /\ 0 \in Nat /\ ParamCate \subseteq DeclCate
      BY ConstAssumption DEF DeclCate
    <3>. QED BY <1>2, <2>1, <2>2, <2>3, <2>4, <3>1, DeclarationKinds
             DEF anlys_para_list, DeclaresBlock, At
<1>3. CASE Generation
  <2>1. ASSUME NEW u \in DOMAIN tabs, NEW cate \in AllocCate, genir_alloc(u, cate)
        PROVE  FrameFixed(t)
    <3>1. u \in 1..Len(tabs) /\ 0 \in Nat /\ cate \notin LocalCate \cup ParamCate
      BY <1>0 DEF AllocCate, LocalCate, RoutineCate, ParamCate
    <3>2. tabs' = [tabs EXCEPT ![u] = Allocate(@, cate, 0)]
      BY <2>1 DEF genir_alloc, symalloc
    <3>. QED BY <1>0, <3>1, <3>2, AllocFacts DEF FrameFixed
  <2>. QED BY <1>1, <1>3, <2>1 DEF Generation, genir_end
<1>4. CASE Uses
  BY <1>1, <1>4, UsesFacts
<1>5. CASE anlys_pf_end \/ analysis_end \/ putsym_panic
  BY <1>1, <1>5 DEF anlys_pf_end, analysis_end, scope_exit, putsym_panic, Exit
<1>. QED BY <1>2, <1>3, <1>4, <1>5 DEF Next

\* The locals, the arguments and the routine of a scope that was left never
\* change, whatever is declared or generated later: temporaries are put
\* behind locals whose number is final.
THEOREM ClosedFrames == Spec => ClosedFramesFixed
<1>. DEFINE Fixed == \A t \in DOMAIN tabs :
                       (\A i \in DOMAIN scopes : scopes[i] # t) =>
                         /\ tabs'[t].varoff = tabs[t].varoff
                         /\ tabs'[t].argoff = tabs[t].argoff
                         /\ tabs'[t].funcsym = tabs[t].funcsym
<1>1. TypeInv /\ [Next]_vars => [Fixed]_vars
  <2>1. ASSUME TypeInv, Next PROVE Fixed
    <3>1. DOMAIN tabs = 1..Len(tabs) /\ DOMAIN scopes = 1..Len(scopes)
      BY <2>1, InvFacts, LenFacts
    <3>. QED BY <2>1, <3>1, ClosedStep DEF FrameFixed
  <2>. QED BY <2>1
<1>. QED BY <1>1, TypeInit, TypeStep, PTL DEF Spec, ClosedFramesFixed

-----------------------------------------------------------------------------
(* The invariant is kept                                                   *)

\* What the types say of a symbol's parameter list, again in short.
LEMMA ListFacts ==
  ASSUME TypeInv
  PROVE  /\ Len(tabs) \in Nat /\ Len(syms) \in Nat /\ Len(scopes) \in Nat
         /\ \A e \in 1..Len(syms) :
              /\ Len(syms[e].phead) \in Nat
              /\ \A i \in 1..Len(syms[e].phead) : syms[e].phead[i] \in 1..Len(syms)
         /\ Len(head.phead) \in Nat
         /\ \A i \in 1..Len(head.phead) : head.phead[i] \in 1..Len(syms)
         /\ \A i \in 1..Len(scopes) : scopes[i] \in 1..Len(tabs)
         /\ pc = "head" => Len(scopes) >= 2 /\ top \in 1..Len(tabs)
         /\ pc \in {"const", "var", "pf", "stmt"} => Len(scopes) >= 1 /\ top \in 1..Len(tabs)
<1>1. TablesOK /\ Len(head.phead) \in Nat
      /\ \A i \in 1..Len(head.phead) : head.phead[i] \in 1..Len(syms)
  BY InvFacts
<1>2. \A e \in 1..Len(syms) :
        /\ Len(syms[e].phead) \in Nat
        /\ \A i \in 1..Len(syms[e].phead) : syms[e].phead[i] \in 1..Len(syms)
  BY <1>1, SymFacts
<1>3. /\ pc = "head" => Len(scopes) >= 2
      /\ pc \in {"const", "var", "pf", "stmt"} => Len(scopes) >= 1
  BY DEF TypeInv, ControlOK
<1>4. Len(scopes) \in Nat
  BY <1>1, LenFacts
<1>. QED BY <1>1, <1>2, <1>3, <1>4, LenFacts, TopFacts

\* Steps that declare nothing: scopes may be closed, an error may be found.
LEMMA KeepScopes ==
  ASSUME TypeInv, ScopeInv, UNCHANGED <<tabs, buckets, syms, head>>,
         errnum' = 0 => errnum = 0,
         \/ scopes' = scopes /\ (pc' = "head" <=> pc = "head")
         \/ /\ pc # "head" /\ pc' # "head"
            /\ \A i, j \in 1..Len(scopes') : i < j => scopes'[i] < scopes'[j],
         Accepted' => errnum' = 0 /\ scopes' = <<>> /\ pc' = "done"
  PROVE  ScopeInv'
<1>1. top' = top \/ (pc # "head" /\ pc' # "head")
  BY DEF top
<1>2. \A t : HeadOpen(t)' <=> HeadOpen(t)
  BY <1>1 DEF HeadOpen
<1>3. Nested'
  BY <1>2 DEF ScopeInv, Nested
<1>4. RoutineInv'
  BY <1>1, <1>2 DEF ScopeInv, RoutineInv, Tied, Owns, Layout
<1>5. KeyInv'
  BY <1>1 DEF ScopeInv, KeyInv, IsParam, TypesOf
<1>. QED BY <1>3, <1>4, <1>5 DEF ScopeInv

\* A constant, a variable or an array in a block, or what code generation
\* allocates: no parameter and no routine.
LEMMA AddOther ==
  ASSUME TypeInv, ScopeInv, NEW t \in 1..Len(tabs), NEW key \in KnownKey,
         NEW cate, cate \notin RoutineCate, cate \notin ParamCate,
         NEW type, NEW len \in Nat,
         PutIn(t, key, Entry(tabs[t], t, key, cate, type, len)),
         tabs' = [tabs EXCEPT ![t] = Allocate(@, cate, len)],
         pc # "head", pc' # "head", UNCHANGED <<scopes, head, errnum>>,
         Accepted' => Accepted /\ pc' = pc
  PROVE  ScopeInv'
<1>. DEFINE new == Entry(tabs[t], t, key, cate, type, len)
            n == Len(syms) + 1
<1>1. /\ n \in Nat /\ Len(syms') = n /\ syms'[n] = new
      /\ \A d \in 1..Len(syms) : syms'[d] = syms[d]
  BY InvFacts, PutFacts
<1>2. /\ Len(tabs') = Len(tabs)
      /\ \A u \in 1..Len(tabs) :
           tabs'[u].funcsym = tabs[u].funcsym /\ tabs'[u].argoff = tabs[u].argoff
  BY InvFacts, AllocFacts
<1>3. new.cate = cate /\ new.phead = <<>>
  BY DEF Entry
<1>. HIDE DEF new
<1>4. \A e \in 1..n : e \in 1..Len(syms) \/ e = n
  BY <1>1, ListFacts
<1>5. Nested'
  BY <1>2 DEF ScopeInv, Nested, HeadOpen, Accepted
<1>6. RoutineInv'
  <2>. SUFFICES ASSUME errnum = 0
                PROVE  /\ \A u \in 2..Len(tabs) : Tied(u)'
                       /\ \A e \in 1..Len(syms') : syms'[e].cate \in RoutineCate =>
                            Owns(e)' /\ Layout(syms[e].phead, syms[e].scope)'
    BY DEF RoutineInv
  <2>1. ASSUME NEW u \in 2..Len(tabs) PROVE Tied(u)'
    <3>1. Tied(u) /\ tabs[u].funcsym # 0 /\ u \in 1..Len(tabs)
      BY ListFacts DEF ScopeInv, RoutineInv, Nested, HeadOpen
    <3>2. tabs[u].funcsym \in 1..Len(syms)
      BY <3>1, InvFacts, TableFacts
    <3>. QED BY <1>1, <1>2, <3>1, <3>2 DEF Tied
  <2>2. ASSUME NEW e \in 1..Len(syms'), syms'[e].cate \in RoutineCate
        PROVE  Owns(e)' /\ Layout(syms[e].phead, syms[e].scope)'
    <3>1. e \in 1..Len(syms) /\ syms'[e] = syms[e]
      BY <1>1, <1>3, <1>4, <2>2
    <3>2. Owns(e) /\ Layout(syms[e].phead, syms[e].scope)
      BY <2>2, <3>1 DEF ScopeInv, RoutineInv
    <3>3. Owns(e)'
      BY <1>2, <3>1, <3>2 DEF Owns
    <3>4. \A i \in 1..Len(syms[e].phead) : syms[e].phead[i] \in 1..Len(syms)
      BY <3>1, ListFacts
    <3>5. Layout(syms[e].phead, syms[e].scope)'
      <4>1. tabs'[syms[e].scope].argoff = tabs[syms[e].scope].argoff
        BY <1>2, <3>2 DEF Owns
      <4>2. \A i \in 1..Len(syms[e].phead) :
              syms'[syms[e].phead[i]] = syms[syms[e].phead[i]]
        BY <1>1, <3>4
      <4>. DEFINE ps == syms[e].phead
                  u == syms[e].scope
      <4>3. syms'[e].phead = ps /\ syms'[e].scope = u
        BY <3>1
      <4>4. tabs'[u].argoff = Len(ps)
        BY <3>2, <4>1 DEF Layout
      <4>5. \A i \in 1..Len(ps) : /\ syms'[ps[i]].cate \in ParamCate
                                  /\ syms'[ps[i]].stab = u
                                  /\ syms'[ps[i]].off = i - 1
        BY <3>2, <4>2 DEF Layout
      <4>. HIDE DEF ps, u
      <4>. QED BY <4>3, <4>4, <4>5 DEF Layout
    <3>. QED BY <3>3, <3>5
  <2>. QED BY <2>1, <2>2
<1>7. KeyInv'
  <2>1. ASSUME NEW e \in 1..Len(syms')
        PROVE  /\ syms'[e].cate \in RoutineCate => syms'[e].key[2] = TypesOf(syms[e].phead)'
               /\ \A i \in 1..Len(syms'[e].phead) : IsParam(syms[e].phead[i])'
    <3>1. CASE e = n
      BY <1>1, <1>3, <3>1
    <3>2. CASE e \in 1..Len(syms)
      <4>1. syms'[e] = syms[e]
            /\ \A i \in 1..Len(syms[e].phead) : syms[e].phead[i] \in 1..Len(syms)
        BY <1>1, <3>2, ListFacts
      <4>2. TypesOf(syms[e].phead)' = TypesOf(syms[e].phead)
        BY <1>1, <4>1 DEF TypesOf
      <4>. QED BY <1>1, <3>2, <4>1, <4>2 DEF ScopeInv, KeyInv, IsParam
    <3>. QED BY <1>1, <1>4, <3>1, <3>2
  <2>2. \A i \in 1..Len(head.phead) : IsParam(head.phead[i])'
    BY <1>1, ListFacts DEF ScopeInv, KeyInv, IsParam
  <2>. QED BY <2>1, <2>2 DEF KeyInv
<1>. QED BY <1>5, <1>6, <1>7 DEF ScopeInv

\* The scope of a heading lies inside the program's.
LEMMA HeadInside ==
  ASSUME TypeInv, Nested, pc = "head"
  PROVE  /\ top \in 2..Len(tabs) /\ top \in 1..Len(tabs) /\ tabs[top].funcsym = 0
         /\ scopes[Len(scopes) - 1] \in 1..Len(tabs) /\ scopes[Len(scopes) - 1] < top
<1>1. /\ Len(scopes) \in Nat /\ Len(scopes) >= 2 /\ Len(tabs) \in Nat
      /\ \A i \in 1..Len(scopes) : scopes[i] \in 1..Len(tabs)
      /\ top \in 1..Len(tabs)
  BY ListFacts
<1>2. Len(scopes) - 1 \in 1..Len(scopes) /\ Len(scopes) \in 1..Len(scopes)
      /\ Len(scopes) - 1 < Len(scopes)
  BY <1>1
<1>3. scopes[Len(scopes) - 1] < top
  BY <1>2 DEF Nested, top
<1>4. scopes[Len(scopes) - 1] \in 1..Len(tabs)
  BY <1>1, <1>2
<1>5. top \in 2..Len(tabs)
  BY <1>1, <1>3, <1>4
<1>. QED BY <1>1, <1>3, <1>4, <1>5 DEF Nested, HeadOpen

\* A parameter is added to the heading, and is one of the heading's scope.
LEMMA HeadParam ==
  ASSUME TypeInv, NEW e \in Nat, head' = [head EXCEPT !.phead = Append(@, e)]
  PROVE  /\ Len(head'.phead) = Len(head.phead) + 1
         /\ head'.phead[Len(head.phead) + 1] = e
         /\ \A i \in 1..Len(head.phead) : head'.phead[i] = head.phead[i]
<1>1. head \in HeadType /\ head.phead \in Seq(Nat)
  BY InvFacts
<1>2. head'.phead = Append(head.phead, e)
  BY <1>1 DEF HeadType
<1>. QED BY <1>1, <1>2

LEMMA ParaKeeps ==
  ASSUME TypeInv, ScopeInv, NEW name \in Name, NEW cate \in ParamCate,
         NEW type \in ScalarType, anlys_para_list(name, cate, type)
  PROVE  ScopeInv'
<1>. DEFINE key == <<name, <<>>>>
            new == Entry(tabs[top], top, key, cate, type, 0)
            n == Len(syms) + 1
            old == getsym(top, key)
            k == Len(head.phead)
<1>1. /\ pc = "head" /\ phase = "SEMANTIC" /\ UNCHANGED <<scopes, pc, phase>>
      /\ DeclareHere(name, cate, type, 0)
      /\ head' = [head EXCEPT !.phead = Append(@, IF old # 0 THEN old ELSE n)]
  BY DEF anlys_para_list, At, symget
<1>2. /\ Nested /\ RoutineInv /\ KeyInv
      /\ top \in 2..Len(tabs) /\ top \in 1..Len(tabs) /\ tabs[top].funcsym = 0
  BY <1>1, HeadInside DEF ScopeInv
<1>3. type \in Type /\ cate \in DeclCate /\ 0 \in Nat /\ Len(scopes) >= 1
      /\ cate \notin RoutineCate
  BY <1>1, ConstAssumption, ListFacts DEF DeclCate, ParamCate, RoutineCate
<1>4. /\ key \in KnownKey /\ old \in 0..Len(syms)
      /\ old # 0 => errnum' = DUPSYM /\ UNCHANGED <<tabs, buckets, syms>>
      /\ old = 0 => /\ errnum' = errnum /\ PutIn(top, key, new)
                    /\ tabs' = [tabs EXCEPT ![top] = Allocate(@, cate, 0)]
  BY <1>1, <1>3, DeclareFacts
<1>5. top' = top /\ ~Accepted'
  BY <1>1 DEF top, Accepted
<1>6. k \in Nat /\ Len(syms) \in Nat
  BY ListFacts
<1>7. CASE old # 0
  <2>1. /\ Len(head'.phead) = k + 1 /\ head'.phead[k + 1] = old
        /\ \A i \in 1..k : head'.phead[i] = head.phead[i]
    BY <1>1, <1>4, <1>6, <1>7, HeadParam
  <2>2. Nested'
    BY <1>1, <1>2, <1>4, <1>5, <1>7 DEF Nested, HeadOpen
  <2>3. RoutineInv'
    BY <1>4, <1>7 DEF RoutineInv, DUPSYM
  <2>4. IsParam(old)
    <3>1. Hash(key) \in Bucket
      BY <1>4, ConstAssumption DEF KnownKey
    <3>2. \E i \in 1..Len(buckets[top][Hash(key)]) : old = buckets[top][Hash(key)][i]
      BY <1>2, <1>4, <1>7, InvFacts, GetsymFound
    <3>. QED BY <1>1, <1>2, <3>1, <3>2 DEF KeyInv
  <2>. HIDE DEF old, k, n
  <2>5. KeyInv'
    <3>1. UNCHANGED <<tabs, buckets, syms>>
      BY <1>4, <1>7
    <3>2. \A i \in 1..Len(head'.phead) : IsParam(head'.phead[i])
      <4>1. \A i \in 1..Len(head'.phead) : i \in 1..k \/ i = k + 1
        BY <1>6, <2>1
      <4>2. \A i \in 1..k : IsParam(head.phead[i])
        BY <1>2 DEF KeyInv, k
      <4>. QED BY <2>1, <2>4, <4>1, <4>2
    <3>3. KeyInv /\ pc = "head" /\ pc' = "head" /\ top' = top
      BY <1>1, <1>2, <1>5
    <3>4. /\ \A i \in 1..Len(head'.phead) : IsParam(head.phead[i])'
          /\ \A e \in 1..Len(syms) : \A i \in 1..Len(syms[e].phead) : IsParam(syms[e].phead[i])'
          /\ \A b \in Bucket : \A i \in 1..Len(buckets[top][b]) : IsParam(buckets[top][b][i])'
      BY <3>1, <3>2, <3>3 DEF KeyInv, IsParam
    <3>5. \A e \in 1..Len(syms) : TypesOf(syms[e].phead)' = TypesOf(syms[e].phead)
      BY <3>1 DEF TypesOf
    <3>. QED BY <3>1, <3>3, <3>4, <3>5 DEF KeyInv
  <2>. QED BY <2>2, <2>3, <2>5 DEF ScopeInv
<1>8. CASE old = 0
  <2>1. /\ n \in Nat /\ Len(syms') = n /\ syms'[n] = new
        /\ \A d \in 1..Len(syms) : syms'[d] = syms[d]
        /\ \A b \in Bucket :
             buckets'[top][b] = IF b = Hash(key) THEN <<n>> \o buckets[top][b]
                                ELSE buckets[top][b]
    <3>1. TablesOK /\ top \in 1..Len(tabs) /\ key \in KnownKey /\ PutIn(top, key, new)
      BY <1>2, <1>4, <1>8, InvFacts
    <3>. HIDE DEF key, new, old
    <3>. QED BY <3>1, PutFacts
  <2>2. /\ Len(tabs') = Len(tabs)
        /\ \A u \in 1..Len(tabs) : tabs'[u].funcsym = tabs[u].funcsym
        /\ \A u \in 1..Len(tabs) : u # top => tabs'[u].argoff = tabs[u].argoff
        /\ tabs'[top].argoff = tabs[top].argoff + 1
    BY <1>2, <1>3, <1>4, <1>8, InvFacts, AllocFacts
  <2>3. /\ new.cate = cate /\ new.phead = <<>> /\ new.stab = top
        /\ new.off = tabs[top].argoff
    BY DEF Entry, Offset, ParamCate, LocalCate, RoutineCate
  <2>4. /\ Len(head'.phead) = k + 1 /\ head'.phead[k + 1] = n
        /\ \A i \in 1..k : head'.phead[i] = head.phead[i]
    BY <1>1, <1>8, <2>1, HeadParam
  <2>5. /\ \A e \in 1..n : e \in 1..Len(syms) \/ e = n
        /\ \A i \in 1..k + 1 : i \in 1..k \/ i = k + 1
        /\ \A i \in 1..k : head.phead[i] \in 1..Len(syms)
    BY <1>6, ListFacts
  <2>. HIDE DEF new, old
  <2>6. Nested'
    BY <1>1, <1>2, <1>5, <2>2 DEF Nested, HeadOpen
  <2>7. RoutineInv'
    <3>. SUFFICES ASSUME errnum = 0
                  PROVE  /\ \A u \in 2..Len(tabs) : u # top => Tied(u)'
                         /\ \A e \in 1..Len(syms') : syms'[e].cate \in RoutineCate =>
                              Owns(e)' /\ Layout(syms[e].phead, syms[e].scope)'
                         /\ Layout(head.phead, top)'
      BY <1>1, <1>4, <1>5, <1>8, <2>2 DEF RoutineInv, HeadOpen
    <3>1. ASSUME NEW u \in 2..Len(tabs), u # top PROVE Tied(u)'
      <4>1. Tied(u) /\ tabs[u].funcsym # 0 /\ u \in 1..Len(tabs)
        BY <1>2, <3>1, ListFacts DEF RoutineInv, Nested, HeadOpen
      <4>2. tabs[u].funcsym \in 1..Len(syms)
        BY <4>1, InvFacts, TableFacts
      <4>. QED BY <2>1, <2>2, <4>1, <4>2 DEF Tied
    <3>2. ASSUME NEW e \in 1..Len(syms'), syms'[e].cate \in RoutineCate
          PROVE  Owns(e)' /\ Layout(syms[e].phead, syms[e].scope)'
      <4>1. e \in 1..Len(syms) /\ syms'[e] = syms[e]
        BY <1>3, <2>1, <2>3, <2>5, <3>2
      <4>2. Owns(e) /\ Layout(syms[e].phead, syms[e].scope)
        BY <1>2, <3>2, <4>1 DEF RoutineInv
      <4>3. Owns(e)'
        BY <2>2, <4>1, <4>2 DEF Owns
      <4>4. syms[e].scope # top
        BY <1>2, <4>1, <4>2 DEF Owns
      <4>5. tabs'[syms[e].scope].argoff = tabs[syms[e].scope].argoff
        BY <2>2, <4>2, <4>4 DEF Owns
      <4>6. \A i \in 1..Len(syms[e].phead) :
              syms'[syms[e].phead[i]] = syms[syms[e].phead[i]]
        BY <2>1, <4>1, ListFacts
      <4>7. Layout(syms[e].phead, syms[e].scope)'
        <5>. DEFINE ps == syms[e].phead
                    u == syms[e].scope
        <5>1. syms'[e].phead = ps /\ syms'[e].scope = u
          BY <4>1
        <5>2. tabs'[u].argoff = Len(ps)
          BY <4>2, <4>5 DEF Layout
        <5>3. \A i \in 1..Len(ps) : /\ syms'[ps[i]].cate \in ParamCate
                                    /\ syms'[ps[i]].stab = u
                                    /\ syms'[ps[i]].off = i - 1
          BY <4>2, <4>6 DEF Layout
        <5>. HIDE DEF ps, u
        <5>. QED BY <5>1, <5>2, <5>3 DEF Layout
      <4>. QED BY <4>3, <4>7
    <3>3. Layout(head.phead, top)'
      <4>1. Layout(head.phead, top)
        BY <1>1, <1>2 DEF RoutineInv
      <4>2. tabs[top].argoff = k
        BY <4>1 DEF Layout
      <4>3. ASSUME NEW i \in 1..k + 1
            PROVE  /\ syms'[head'.phead[i]].cate \in ParamCate
                   /\ syms'[head'.phead[i]].stab = top
                   /\ syms'[head'.phead[i]].off = i - 1
        <5>1. CASE i \in 1..k
          <6>1. /\ syms[head.phead[i]].cate \in ParamCate
                /\ syms[head.phead[i]].stab = top /\ syms[head.phead[i]].off = i - 1
            BY <4>1, <5>1 DEF Layout
          <6>2. head'.phead[i] = head.phead[i] /\ head.phead[i] \in 1..Len(syms)
            BY <2>4, <2>5, <5>1, ListFacts
          <6>3. syms'[head'.phead[i]] = syms[head.phead[i]]
            BY <2>1, <6>2
          <6>. QED BY <6>1, <6>3
        <5>2. CASE i = k + 1
          BY <1>6, <2>1, <2>3, <2>4, <4>2, <5>2
        <5>. QED BY <2>5, <5>1, <5>2
      <4>. QED BY <1>5, <2>2, <2>4, <4>2, <4>3 DEF Layout
    <3>. QED BY <3>1, <3>2, <3>3
  <2>8. KeyInv'
    <3>1. ASSUME NEW e \in 1..Len(syms')
          PROVE  /\ syms'[e].cate \in RoutineCate =>
                      syms'[e].key[2] = TypesOf(syms[e].phead)'
                 /\ \A i \in 1..Len(syms'[e].phead) : IsParam(syms[e].phead[i])'
      <4>1. CASE e = n
        BY <1>3, <2>1, <2>3, <4>1
      <4>2. CASE e \in 1..Len(syms)
        <5>1. syms'[e] = syms[e]
              /\ \A i \in 1..Len(syms[e].phead) : syms[e].phead[i] \in 1..Len(syms)
          BY <2>1, <4>2, ListFacts
        <5>2. TypesOf(syms[e].phead)' = TypesOf(syms[e].phead)
          BY <2>1, <5>1 DEF TypesOf
        <5>. QED BY <1>2, <2>1, <4>2, <5>1, <5>2 DEF KeyInv, IsParam
      <4>. QED BY <2>1, <2>5, <4>1, <4>2
    <3>2. \A i \in 1..Len(head'.phead) : IsParam(head.phead[i])'
      <4>1. \A i \in 1..k : IsParam(head.phead[i])
        BY <1>2 DEF KeyInv
      <4>2. ASSUME NEW i \in 1..k + 1 PROVE syms'[head'.phead[i]].cate \in ParamCate
        <5>1. CASE i \in 1..k
          BY <2>1, <2>4, <2>5, <4>1, <5>1 DEF IsParam
        <5>2. CASE i = k + 1
          BY <2>1, <2>3, <2>4, <5>2
        <5>. QED BY <2>5, <5>1, <5>2
      <4>. QED BY <2>4, <4>2 DEF IsParam
    <3>3. ASSUME NEW b \in Bucket, NEW i \in 1..Len(buckets'[top][b])
          PROVE  syms'[buckets'[top][b][i]].cate \in ParamCate
      <4>1. /\ buckets[top][b] \in Seq(Nat)
            /\ \A j \in 1..Len(buckets[top][b]) :
                 /\ buckets[top][b][j] \in 1..Len(syms)
                 /\ syms[buckets[top][b][j]].cate \in ParamCate
        BY <1>1, <1>2, InvFacts, TableFacts DEF KeyInv, IsParam
      <4>2. CASE b = Hash(key)
        <5>1. buckets'[top][b] = <<n>> \o buckets[top][b]
          BY <2>1, <4>2
        <5>2. \/ buckets'[top][b][i] = n
              \/ \E j \in 1..Len(buckets[top][b]) :
                   buckets'[top][b][i] = buckets[top][b][j]
          <6>. DEFINE old1 == buckets[top][b]
                      chain == buckets'[top][b]
          <6>1. old1 \in Seq(Nat) /\ n \in Nat /\ chain = <<n>> \o old1
            BY <2>1, <4>1, <5>1
          <6>2. i \in 1..Len(chain)
            OBVIOUS
          <6>. HIDE DEF old1, chain
          <6>3. chain[i] = n \/ \E j \in 1..Len(old1) : chain[i] = old1[j]
            BY <6>1, <6>2, NewHead
          <6>. QED BY <6>3 DEF old1, chain
        <5>3. \A d \in 1..Len(syms) : syms'[d] = syms[d]
          BY <2>1
        <5>4. syms'[n].cate \in ParamCate
          BY <2>1, <2>3
        <5>. QED BY <4>1, <5>2, <5>3, <5>4
      <4>3. CASE b # Hash(key)
        BY <2>1, <4>1, <4>3
      <4>. QED BY <4>2, <4>3
    <3>. QED BY <1>5, <3>1, <3>2, <3>3 DEF KeyInv, IsParam
  <2>. QED BY <2>6, <2>7, <2>8 DEF ScopeInv
<1>. QED BY <1>4, <1>7, <1>8

\* A scope is opened: nothing is in it.
LEMMA EntryFacts ==
  ASSUME TablesOK, NEW nspace, scope_entry(nspace)
  PROVE  /\ Len(tabs) + 1 \in Nat /\ Len(tabs') = Len(tabs) + 1
         /\ tabs'[Len(tabs) + 1] = NewTable(nspace)
         /\ \A u \in 1..Len(tabs) : tabs'[u] = tabs[u] /\ buckets'[u] = buckets[u]
         /\ \A b \in Bucket : buckets'[Len(tabs) + 1][b] = <<>>
         /\ Len(scopes) + 1 \in Nat /\ Len(scopes') = Len(scopes) + 1
         /\ top' = Len(tabs) + 1
         /\ \A i \in 1..Len(scopes) : scopes'[i] = scopes[i]
<1>1. /\ tabs \in Seq(TableType) /\ scopes \in Seq(Nat)
      /\ buckets \in Seq([Bucket -> Seq(Nat)]) /\ Len(buckets) = Len(tabs)
  BY DEF TablesOK
<1>2. /\ tabs' = Append(tabs, NewTable(nspace))
      /\ buckets' = Append(buckets, [b \in Bucket |-> <<>>])
      /\ scopes' = Append(scopes, Len(tabs) + 1)
  BY DEF scope_entry
<1>. QED BY <1>1, <1>2 DEF top

LEMMA HeadOpenKeeps ==
  ASSUME TypeInv, ScopeInv, NEW name \in Name, NEW cate, NEW type,
         anlys_head_open(name, cate, type)
  PROVE  ScopeInv'
<1>. DEFINE t == Len(tabs) + 1
<1>1. /\ phase = "SEMANTIC" /\ pc \in {"const", "var", "pf"} /\ pc' = "head"
      /\ scope_entry(name) /\ head'.phead = <<>>
      /\ UNCHANGED <<syms, phase, errnum>>
  BY DEF anlys_head_open, At
<1>2. /\ t \in Nat /\ Len(tabs') = t /\ tabs'[t] = NewTable(name)
      /\ \A u \in 1..Len(tabs) : tabs'[u] = tabs[u]
      /\ \A b \in Bucket : buckets'[t][b] = <<>>
      /\ Len(scopes') = Len(scopes) + 1 /\ scopes'[Len(scopes) + 1] = t /\ top' = t
      /\ \A i \in 1..Len(scopes) : scopes'[i] = scopes[i]
  BY <1>1, InvFacts, EntryFacts DEF top
<1>3. /\ Len(tabs) \in Nat /\ Len(scopes) \in Nat /\ t \in 2..t
      /\ \A i \in 1..Len(scopes) : scopes[i] \in 1..Len(tabs)
      /\ \A u \in 2..t : u \in 2..Len(tabs) \/ u = t
      /\ \A i \in 1..Len(scopes) + 1 : i \in 1..Len(scopes) \/ i = Len(scopes) + 1
  BY <1>1, ListFacts
<1>4. NewTable(name).funcsym = 0 /\ NewTable(name).argoff = 0
  BY DEF NewTable
<1>5. Nested /\ RoutineInv /\ KeyInv
  BY DEF ScopeInv
<1>6. Nested'
  <2>1. \A i, j \in 1..Len(scopes') : i < j => scopes'[i] < scopes'[j]
    <3>. SUFFICES ASSUME NEW i \in 1..Len(scopes) + 1, NEW j \in 1..Len(scopes) + 1, i < j
                  PROVE  scopes'[i] < scopes'[j]
      BY <1>2
    <3>1. i \in 1..Len(scopes)
      BY <1>3
    <3>2. CASE j = Len(scopes) + 1
      BY <1>2, <1>3, <3>1, <3>2
    <3>3. CASE j \in 1..Len(scopes)
      BY <1>2, <1>5, <3>1, <3>3 DEF Nested
    <3>. QED BY <1>3, <3>2, <3>3
  <2>2. \A u \in 2..t : tabs'[u].funcsym = 0 <=> u = t
    <3>1. \A u \in 2..Len(tabs) : tabs[u].funcsym # 0
      BY <1>1, <1>5 DEF Nested, HeadOpen
    <3>2. \A u \in 2..Len(tabs) : u # t /\ u \in 1..Len(tabs)
      BY <1>3
    <3>. QED BY <1>2, <1>3, <1>4, <3>1, <3>2
  <2>3. ~Accepted'
    BY <1>1 DEF Accepted
  <2>. QED BY <1>1, <1>2, <2>1, <2>2, <2>3 DEF Nested, HeadOpen
<1>7. RoutineInv'
  <2>. SUFFICES ASSUME errnum = 0
                PROVE  /\ \A u \in 2..t : u # t => Tied(u)'
                       /\ \A e \in 1..Len(syms) : syms[e].cate \in RoutineCate =>
                            Owns(e)' /\ Layout(syms[e].phead, syms[e].scope)'
                       /\ Layout(head.phead, top)'
    BY <1>1, <1>2 DEF RoutineInv, HeadOpen
  <2>1. ASSUME NEW u \in 2..t, u # t PROVE Tied(u)'
    <3>1. Tied(u) /\ u \in 1..Len(tabs)
      BY <1>1, <1>3, <1>5, <2>1 DEF RoutineInv, HeadOpen
    <3>. QED BY <1>1, <1>2, <3>1 DEF Tied
  <2>2. ASSUME NEW e \in 1..Len(syms), syms[e].cate \in RoutineCate
        PROVE  Owns(e)' /\ Layout(syms[e].phead, syms[e].scope)'
    <3>1. Owns(e) /\ Layout(syms[e].phead, syms[e].scope)
      BY <1>5, <2>2 DEF RoutineInv
    <3>. QED BY <1>1, <1>2, <1>3, <3>1 DEF Owns, Layout
  <2>3. Layout(head.phead, top)'
    BY <1>1, <1>2, <1>4 DEF Layout
  <2>. QED BY <2>1, <2>2, <2>3
<1>8. KeyInv'
  <2>1. \A b \in Bucket : Len(buckets'[top'][b]) = 0
    BY <1>2
  <2>2. Len(head'.phead) = 0
    BY <1>1
  <2>. QED BY <1>1, <1>5, <2>1, <2>2 DEF KeyInv, IsParam, TypesOf
<1>. QED BY <1>6, <1>7, <1>8 DEF ScopeInv

\* A routine whose key is taken: reported, and the first declaration of the
\* key is tied to the new scope.
LEMMA HeadAgainKeeps ==
  ASSUME TypeInv, ScopeInv, anlys_head_close,
         getsym(scopes[Len(scopes) - 1], make_symkey(head.name, head.phead)) # 0
  PROVE  ScopeInv'
<1>. DEFINE parent == scopes[Len(scopes) - 1]
            key == make_symkey(head.name, head.phead)
            old == getsym(parent, key)
<1>1. /\ pc = "head" /\ pc' = "const" /\ head' = NoHead /\ phase = "SEMANTIC"
      /\ UNCHANGED <<scopes, phase, buckets>> /\ errnum' = DUPSYM
      /\ parent \in 1..Len(tabs) /\ key \in KnownKey /\ old \in 0..Len(syms) /\ old # 0
      /\ syms' = [syms EXCEPT ![old] = [@ EXCEPT !.scope = top, !.phead = head.phead]]
      /\ tabs' = [tabs EXCEPT ![top].funcsym = old]
  BY HeadCloseFacts
<1>2. /\ Nested /\ KeyInv /\ top \in 1..Len(tabs)
  BY <1>1, HeadInside DEF ScopeInv
<1>3. syms[old].key = key /\ old \in 1..Len(syms)
  BY <1>1, InvFacts, GetsymFound
<1>. HIDE DEF old, key, parent
<1>4. /\ Len(syms') = Len(syms)
      /\ \A d \in 1..Len(syms) :
           syms'[d].cate = syms[d].cate /\ syms'[d].type = syms[d].type
           /\ syms'[d].key = syms[d].key
      /\ syms'[old].phead = head.phead
      /\ \A d \in 1..Len(syms) : d # old => syms'[d].phead = syms[d].phead
  <2>1. syms \in Seq(SymType) /\ syms[old] \in SymType
    BY <1>3, InvFacts, SymFacts DEF TablesOK
  <2>2. /\ Len(syms') = Len(syms)
        /\ syms'[old] = [syms[old] EXCEPT !.scope = top, !.phead = head.phead]
        /\ \A d \in 1..Len(syms) : d # old => syms'[d] = syms[d]
    <3>. DEFINE tied == [syms[old] EXCEPT !.scope = top, !.phead = head.phead]
    <3>1. syms' = [syms EXCEPT ![old] = tied]
      BY <1>1
    <3>. HIDE DEF tied
    <3>2. /\ Len(syms') = Len(syms) /\ syms'[old] = tied
          /\ \A d \in 1..Len(syms) : d # old => syms'[d] = syms[d]
      BY <1>3, <2>1, <3>1
    <3>. QED BY <3>2 DEF tied
  <2>. QED BY <2>1, <2>2 DEF SymType
<1>5. /\ Len(tabs') = Len(tabs) /\ tabs'[top].funcsym = old
      /\ \A u \in 1..Len(tabs) : u # top => tabs'[u].funcsym = tabs[u].funcsym
  <2>1. tabs \in Seq(TableType) /\ tabs[top] \in TableType
    BY <1>2, InvFacts, TableFacts DEF TablesOK
  <2>. DEFINE tab == [tabs[top] EXCEPT !.funcsym = old]
  <2>2. tabs' = [tabs EXCEPT ![top] = tab]
    BY <1>1
  <2>3. tab.funcsym = old
    BY <2>1 DEF TableType
  <2>. HIDE DEF tab
  <2>4. /\ Len(tabs') = Len(tabs) /\ tabs'[top] = tab
        /\ \A u \in 1..Len(tabs) : u # top => tabs'[u] = tabs[u]
    BY <1>2, <2>1, <2>2
  <2>. QED BY <2>3, <2>4
<1>6. Nested'
  <2>1. \A u \in 2..Len(tabs) : u \in 1..Len(tabs)
    BY ListFacts
  <2>2. \A u \in 2..Len(tabs) : tabs'[u].funcsym # 0
    BY <1>1, <1>2, <1>5, <2>1 DEF Nested, HeadOpen
  <2>. QED BY <1>1, <1>2, <1>5, <2>2 DEF Nested, HeadOpen, Accepted
<1>7. RoutineInv'
  BY <1>1 DEF RoutineInv, DUPSYM
<1>8. KeyInv'
  <2>1. \A i \in 1..Len(head.phead) :
          head.phead[i] \in 1..Len(syms) /\ syms[head.phead[i]].cate \in ParamCate
    BY <1>2, ListFacts DEF KeyInv, IsParam
  <2>2. key[2] = TypesOf(head.phead)
    <3>1. DOMAIN head.phead = 1..Len(head.phead)
      BY InvFacts
    <3>. QED BY <3>1 DEF key, make_symkey, TypesOf
  <2>3. ASSUME NEW e \in 1..Len(syms)
        PROVE  /\ syms'[e].cate \in RoutineCate => syms'[e].key[2] = TypesOf(syms[e].phead)'
               /\ \A i \in 1..Len(syms'[e].phead) : IsParam(syms[e].phead[i])'
    <3>1. CASE e = old
      <4>1. syms'[e].phead = head.phead /\ syms'[e].key = key
        BY <1>3, <1>4, <3>1
      <4>2. TypesOf(syms[e].phead)' = TypesOf(head.phead)
        BY <1>4, <2>1, <4>1 DEF TypesOf
      <4>3. \A i \in 1..Len(head.phead) : syms'[head.phead[i]].cate \in ParamCate
        BY <1>4, <2>1
      <4>. QED BY <2>2, <4>1, <4>2, <4>3 DEF IsParam
    <3>2. CASE e # old
      <4>1. syms'[e].phead = syms[e].phead /\ syms'[e].key = syms[e].key
            /\ syms'[e].cate = syms[e].cate
        BY <1>4, <3>2
      <4>2. \A i \in 1..Len(syms[e].phead) : syms[e].phead[i] \in 1..Len(syms)
        BY ListFacts
      <4>3. TypesOf(syms[e].phead)' = TypesOf(syms[e].phead)
        BY <1>4, <4>1, <4>2 DEF TypesOf
      <4>4. \A i \in 1..Len(syms[e].phead) : syms'[syms[e].phead[i]].cate \in ParamCate
        BY <1>2, <1>4, <4>2 DEF KeyInv, IsParam
      <4>5. syms[e].cate \in RoutineCate => syms[e].key[2] = TypesOf(syms[e].phead)
        BY <1>2 DEF KeyInv
      <4>. QED BY <4>1, <4>3, <4>4, <4>5 DEF IsParam
    <3>. QED BY <3>1, <3>2
  <2>4. Len(head'.phead) = 0
    BY <1>1 DEF NoHead
  <2>. QED BY <1>1, <1>4, <2>3, <2>4 DEF KeyInv
<1>. QED BY <1>6, <1>7, <1>8 DEF ScopeInv

\* A new routine: it gets the scope of the heading and its parameters.
LEMMA HeadNewKeeps ==
  ASSUME TypeInv, ScopeInv, anlys_head_close,
         getsym(scopes[Len(scopes) - 1], make_symkey(head.name, head.phead)) = 0
  PROVE  ScopeInv'
<1>. DEFINE scope == top
            parent == scopes[Len(scopes) - 1]
            key == make_symkey(head.name, head.phead)
            n == Len(syms) + 1
            entry == Entry(tabs[parent], parent, key, head.cate, head.type, 0)
            new == [entry EXCEPT !.scope = scope, !.phead = head.phead]
<1>1. /\ pc = "head" /\ pc' = "const" /\ head' = NoHead /\ phase = "SEMANTIC"
      /\ UNCHANGED <<scopes, phase, errnum>>
      /\ key \in KnownKey /\ PutIn(parent, key, new)
      /\ tabs' = [tabs EXCEPT ![parent] = Allocate(@, head.cate, 0), ![scope].funcsym = n]
  BY HeadCloseFacts
<1>2. /\ Nested /\ RoutineInv /\ KeyInv /\ scope \in 1..Len(tabs)
      /\ tabs[scope].funcsym = 0 /\ parent \in 1..Len(tabs) /\ parent < scope
      /\ scope \in 2..Len(tabs)
  BY <1>1, HeadInside DEF ScopeInv
<1>3. /\ new.cate = head.cate /\ new.phead = head.phead /\ new.scope = scope
      /\ new.stab = parent /\ new.key = key
  BY DEF Entry
<1>4. head.cate \in RoutineCate /\ head.cate \notin ParamCate
  BY InvFacts DEF HeadType, RoutineCate, ParamCate
<1>5. /\ n \in Nat /\ Len(syms') = n /\ syms'[n] = new
      /\ \A d \in 1..Len(syms) : syms'[d] = syms[d]
  <2>1. TablesOK
    BY InvFacts
  <2>. HIDE DEF new, key, parent
  <2>. QED BY <1>1, <1>2, <2>1, PutFacts
<1>6. /\ Len(tabs') = Len(tabs)
      /\ \A u \in 1..Len(tabs) :
           /\ tabs'[u].argoff = tabs[u].argoff
           /\ tabs'[u].funcsym = IF u = scope THEN n ELSE tabs[u].funcsym
  <2>. DEFINE mid == [tabs EXCEPT ![parent] = Allocate(tabs[parent], head.cate, 0)]
  <2>1. tabs \in Seq(TableType) /\ tabs[parent] \in TableType /\ tabs[scope] \in TableType
    BY <1>2, InvFacts, TableFacts DEF TablesOK
  <2>2. /\ Allocate(tabs[parent], head.cate, 0).funcsym = tabs[parent].funcsym
        /\ Allocate(tabs[parent], head.cate, 0).argoff = tabs[parent].argoff
        /\ Allocate(tabs[parent], head.cate, 0) \in TableType
    <3>1. head.cate \in DeclCate \cup AllocCate /\ 0 \in Nat
          /\ GenKey \in KnownKey /\ "VOID" \in Type
      BY <1>4 DEF DeclCate, LocalCate, KnownKey, Type
    <3>2. Allocate(tabs[parent], head.cate, 0).argoff = tabs[parent].argoff
      BY <1>4, <2>1 DEF Allocate, TableType
    <3>3. /\ Allocate(tabs[parent], head.cate, 0) \in TableType
          /\ Allocate(tabs[parent], head.cate, 0).funcsym = tabs[parent].funcsym
      <4>. HIDE DEF parent
      <4>. QED BY <2>1, <3>1, EntryType
    <3>. QED BY <3>2, <3>3
  <2>3. scope # parent
    BY <1>2, ListFacts
  <2>4. /\ Len(tabs') = Len(tabs)
        /\ tabs'[scope] = [tabs[scope] EXCEPT !.funcsym = n]
        /\ tabs'[parent] = Allocate(tabs[parent], head.cate, 0)
        /\ \A u \in 1..Len(tabs) : u # scope /\ u # parent => tabs'[u] = tabs[u]
    <3>. HIDE DEF scope, parent, n
    <3>. QED BY <1>1, <1>2, <2>1, <2>3
  <2>5. tabs'[scope].funcsym = n /\ tabs'[scope].argoff = tabs[scope].argoff
    BY <2>1, <2>4 DEF TableType
  <2>. HIDE DEF scope, parent, n
  <2>. QED BY <2>2, <2>3, <2>4, <2>5
<1>7. /\ \A e \in 1..n : e \in 1..Len(syms) \/ e = n
      /\ n # 0 /\ \A e \in 1..Len(syms) : e # n /\ e # 0
      /\ \A u \in 2..Len(tabs) : u \in 1..Len(tabs)
      /\ \A i \in 1..Len(head.phead) : head.phead[i] \in 1..Len(syms)
  BY ListFacts
<1>8. Nested'
  <2>1. \A u \in 2..Len(tabs) : u # scope => tabs[u].funcsym # 0
    BY <1>2 DEF Nested, HeadOpen
  <2>2. \A u \in 2..Len(tabs) : tabs'[u].funcsym # 0
    BY <1>6, <1>7, <2>1
  <2>3. ~Accepted'
    BY <1>1 DEF Accepted
  <2>. QED BY <1>1, <1>2, <1>6, <2>2, <2>3 DEF Nested, HeadOpen
<1>. HIDE DEF new
<1>9. RoutineInv'
  <2>. SUFFICES ASSUME errnum = 0
                PROVE  /\ \A u \in 2..Len(tabs) : Tied(u)'
                       /\ \A e \in 1..n : syms'[e].cate \in RoutineCate =>
                            Owns(e)' /\ Layout(syms[e].phead, syms[e].scope)'
    BY <1>1, <1>5, <1>6 DEF RoutineInv
  <2>1. ASSUME NEW u \in 2..Len(tabs) PROVE Tied(u)'
    <3>1. CASE u = scope
      BY <1>2, <1>3, <1>4, <1>5, <1>6, <3>1 DEF Tied
    <3>2. CASE u # scope
      <4>1. Tied(u) /\ tabs[u].funcsym # 0
        BY <1>2, <3>2 DEF RoutineInv, Nested, HeadOpen
      <4>2. tabs[u].funcsym \in 1..Len(syms) /\ tabs'[u].funcsym = tabs[u].funcsym
        BY <1>6, <1>7, <3>2, <4>1, InvFacts, TableFacts
      <4>. QED BY <1>5, <4>1, <4>2 DEF Tied
    <3>. QED BY <3>1, <3>2
  <2>2. ASSUME NEW e \in 1..n, syms'[e].cate \in RoutineCate
        PROVE  Owns(e)' /\ Layout(syms[e].phead, syms[e].scope)'
    <3>1. CASE e = n
      <4>1. syms'[e].scope = scope /\ syms'[e].phead = head.phead
        BY <1>3, <1>5, <3>1
      <4>2. Owns(e)'
        BY <1>2, <1>6, <3>1, <4>1 DEF Owns
      <4>3. Layout(head.phead, scope)
        BY <1>1, <1>2 DEF RoutineInv
      <4>4. \A i \in 1..Len(head.phead) : syms'[head.phead[i]] = syms[head.phead[i]]
        BY <1>5, <1>7
      <4>5. tabs'[scope].argoff = tabs[scope].argoff
        BY <1>2, <1>6
      <4>6. Layout(syms[e].phead, syms[e].scope)'
        BY <4>1, <4>3, <4>4, <4>5 DEF Layout
      <4>. QED BY <4>2, <4>6
    <3>2. CASE e \in 1..Len(syms)
      <4>1. syms'[e] = syms[e] /\ e # 0
        BY <1>5, <1>7, <3>2
      <4>2. Owns(e) /\ Layout(syms[e].phead, syms[e].scope)
        BY <1>2, <2>2, <3>2, <4>1 DEF RoutineInv
      <4>3. syms[e].scope = 1 \/ syms[e].scope # scope
        BY <1>2, <4>1, <4>2 DEF Owns
      <4>4. 1 # scope
        BY <1>2, ListFacts
      <4>5. Owns(e)'
        BY <1>6, <4>1, <4>2, <4>3, <4>4 DEF Owns
      <4>6. tabs'[syms[e].scope].argoff = tabs[syms[e].scope].argoff
        BY <1>6, <4>2 DEF Owns
      <4>7. \A i \in 1..Len(syms[e].phead) :
              syms'[syms[e].phead[i]] = syms[syms[e].phead[i]]
        BY <1>5, <3>2, ListFacts
      <4>8. Layout(syms[e].phead, syms[e].scope)'
        BY <4>1, <4>2, <4>6, <4>7 DEF Layout
      <4>. QED BY <4>5, <4>8
    <3>. QED BY <1>7, <3>1, <3>2
  <2>. QED BY <2>1, <2>2
<1>10. KeyInv'
  <2>1. ASSUME NEW e \in 1..n
        PROVE  /\ syms'[e].cate \in RoutineCate => syms'[e].key[2] = TypesOf(syms[e].phead)'
               /\ \A i \in 1..Len(syms'[e].phead) : IsParam(syms[e].phead[i])'
    <3>1. CASE e = n
      <4>1. syms'[e].phead = head.phead /\ syms'[e].key = key
        BY <1>3, <1>5, <3>1
      <4>2. key[2] = TypesOf(head.phead)
        <5>1. DOMAIN head.phead = 1..Len(head.phead)
          BY InvFacts
        <5>. QED BY <5>1 DEF make_symkey, TypesOf
      <4>3. TypesOf(syms[e].phead)' = TypesOf(head.phead)
        BY <1>5, <1>7, <4>1 DEF TypesOf
      <4>4. \A i \in 1..Len(head.phead) : syms'[head.phead[i]].cate \in ParamCate
        BY <1>2, <1>5, <1>7 DEF KeyInv, IsParam
      <4>. QED BY <4>1, <4>2, <4>3, <4>4 DEF IsParam
    <3>2. CASE e \in 1..Len(syms)
      <4>1. syms'[e] = syms[e]
            /\ \A i \in 1..Len(syms[e].phead) : syms[e].phead[i] \in 1..Len(syms)
        BY <1>5, <3>2, ListFacts
      <4>2. TypesOf(syms[e].phead)' = TypesOf(syms[e].phead)
        BY <1>5, <4>1 DEF TypesOf
      <4>3. /\ syms[e].cate \in RoutineCate => syms[e].key[2] = TypesOf(syms[e].phead)
            /\ \A i \in 1..Len(syms[e].phead) : syms[syms[e].phead[i]].cate \in ParamCate
        BY <1>2, <3>2 DEF KeyInv, IsParam
      <4>4. \A i \in 1..Len(syms[e].phead) : syms'[syms[e].phead[i]].cate \in ParamCate
        BY <1>5, <4>1, <4>3
      <4>. QED BY <4>1, <4>2, <4>3, <4>4 DEF IsParam
    <3>. QED BY <1>7, <3>1, <3>2
  <2>2. Len(head'.phead) = 0
    BY <1>1 DEF NoHead
  <2>. QED BY <1>1, <1>5, <2>1, <2>2 DEF KeyInv
<1>. QED BY <1>8, <1>9, <1>10 DEF ScopeInv

\* The entry point: the first table and the first symbol.
LEMMA PgmFacts ==
  ASSUME TypeInv, anlys_pgm
  PROVE  LET tab == NewTable(MainFunc)
         IN  /\ tabs = <<>> /\ syms = <<>> /\ scopes = <<>>
             /\ tabs' = <<Allocate(tab, "FUNCTION", 0)>>
             /\ syms' = <<[Entry(tab, 1, EntryKey, "FUNCTION", "INT", 0)
                           EXCEPT !.scope = 1]>>
             /\ buckets' = <<putsym([b \in Bucket |-> <<>>], EntryKey)>>
             /\ scopes' = <<1>> /\ top' = 1
             /\ pc = "pgm" /\ pc' = "const" /\ phase = "SEMANTIC" /\ Room
             /\ UNCHANGED <<head, phase, errnum, ref>>
<1>1. /\ pc = "pgm" /\ pc' = "const" /\ phase = "SEMANTIC" /\ Room
      /\ UNCHANGED <<head, phase, errnum, ref>>
  BY DEF anlys_pgm, At
<1>2. tabs = <<>> /\ syms = <<>> /\ scopes = <<>> /\ buckets = <<>>
  <2>1. tabs = <<>> /\ syms = <<>> /\ scopes = <<>>
    BY <1>1 DEF TypeInv, ControlOK
  <2>2. buckets \in Seq([Bucket -> Seq(Nat)]) /\ Len(buckets) = Len(tabs)
    BY InvFacts DEF TablesOK
  <2>. QED BY <2>1, <2>2
<1>3. Len(tabs) + 1 = 1
  BY <1>2
<1>4. scopes' = <<1>>
  BY <1>2, <1>3 DEF anlys_pgm
<1>5. top' = 1
  BY <1>4 DEF top
<1>. QED BY <1>1, <1>2, <1>3, <1>4, <1>5 DEF anlys_pgm

LEMMA PgmKeeps ==
  ASSUME TypeInv, ScopeInv, anlys_pgm
  PROVE  ScopeInv'
<1>. DEFINE tab == NewTable(MainFunc)
            e == [Entry(tab, 1, EntryKey, "FUNCTION", "INT", 0) EXCEPT !.scope = 1]
<1>1. /\ tabs' = <<Allocate(tab, "FUNCTION", 0)>> /\ syms' = <<e>>
      /\ scopes' = <<1>> /\ pc' = "const" /\ phase' = "SEMANTIC" /\ syms = <<>>
      /\ UNCHANGED <<head, errnum>>
  BY PgmFacts
<1>2. /\ Len(tabs') = 1 /\ Len(syms') = 1 /\ syms'[1] = e /\ Len(scopes') = 1
      /\ tabs'[1].argoff = 0
  <2>1. Allocate(tab, "FUNCTION", 0).argoff = 0
    BY DEF NewTable, Allocate, LocalCate, RoutineCate, ParamCate
  <2>. QED BY <1>1, <2>1
<1>3. e.cate = "FUNCTION" /\ e.scope = 1 /\ e.phead = <<>> /\ e.key = EntryKey
  BY DEF Entry
<1>4. Len(head.phead) = 0
  BY <1>1, ListFacts
<1>. HIDE DEF tab, e
<1>5. Nested'
  BY <1>1, <1>2 DEF Nested, Accepted
<1>6. RoutineInv'
  BY <1>1, <1>2, <1>3 DEF RoutineInv, Owns, Layout
<1>7. KeyInv'
  <2>1. TypesOf(<<>>)' = <<>> /\ EntryKey[2] = <<>>
    BY DEF TypesOf, EntryKey
  <2>2. TypesOf(syms[1].phead)' = TypesOf(<<>>)'
    BY <1>2, <1>3
  <2>. QED BY <1>1, <1>2, <1>3, <1>4, <2>1, <2>2 DEF KeyInv
<1>. QED BY <1>5, <1>6, <1>7 DEF ScopeInv

\* A scope is closed; the others stay nested.
LEMMA ExitKeeps ==
  ASSUME TypeInv, ScopeInv, anlys_pf_end \/ analysis_end
  PROVE  ScopeInv'
<1>1. /\ phase = "SEMANTIC" /\ pc \in {"const", "var", "pf", "stmt"}
      /\ scope_exit /\ UNCHANGED <<head, errnum>>
      /\ pc' \in {"pf", "done"}
      /\ phase' = "IR" => Len(scopes) = 1 /\ errnum = 0 /\ pc' = "done"
      /\ phase' \in {"SEMANTIC", "IR", "EXIT"}
  <2>1. errnum \in Nat
    BY InvFacts
  <2>. QED BY <2>1 DEF anlys_pf_end, analysis_end, At, chkerr
<1>2. /\ scopes' = SubSeq(scopes, 1, Len(scopes) - 1)
      /\ UNCHANGED <<tabs, buckets, syms>>
  BY <1>1 DEF scope_exit
<1>3. Len(scopes) \in Nat /\ Len(scopes) >= 1 /\ scopes \in Seq(Nat)
  BY <1>1, InvFacts, ListFacts DEF TablesOK
<1>4. /\ Len(scopes') = Len(scopes) - 1
      /\ \A i \in 1..Len(scopes') : scopes'[i] = scopes[i] /\ i \in 1..Len(scopes)
      /\ Len(scopes) = 1 => scopes' = <<>>
  <2>. DEFINE l == Len(scopes) - 1
  <2>1. l \in Nat /\ l \in Int /\ 1 \in Int /\ \A i \in 1..l : scopes[i] \in Nat
    BY <1>3
  <2>2. scopes' = SubSeq(scopes, 1, l)
    BY <1>2
  <2>. HIDE DEF l
  <2>3. /\ scopes' \in Seq(Nat)
        /\ Len(scopes') = IF 1 <= l THEN l - 1 + 1 ELSE 0
        /\ \A i \in 1..l - 1 + 1 : scopes'[i] = scopes[1 + i - 1]
    BY <2>1, <2>2, SubSeqProperties
  <2>4. Len(scopes') = l /\ \A i \in 1..l : scopes'[i] = scopes[i]
    BY <2>1, <2>3
  <2>5. l = 0 => scopes' = <<>>
    BY <2>3, <2>4, EmptySeq
  <2>. QED BY <1>3, <2>4, <2>5 DEF l
<1>5. \A i, j \in 1..Len(scopes') : i < j => scopes'[i] < scopes'[j]
  BY <1>4 DEF ScopeInv, Nested
<1>6. Accepted' => errnum' = 0 /\ scopes' = <<>> /\ pc' = "done"
  BY <1>1, <1>4 DEF Accepted
<1>. QED BY <1>1, <1>2, <1>5, <1>6, KeepScopes

LEMMA ScopeStep == TypeInv /\ ScopeInv /\ [Next]_vars => ScopeInv'
<1>. SUFFICES ASSUME TypeInv, ScopeInv, [Next]_vars PROVE ScopeInv'
  OBVIOUS
<1>0. /\ TablesOK /\ DOMAIN tabs = 1..Len(tabs)
      /\ (Accepted => errnum = 0 /\ scopes = <<>> /\ pc = "done")
  BY InvFacts, LenFacts DEF ScopeInv, Nested
<1>1. CASE Declarations
  <2>1. CASE anlys_head_close
    BY <2>1, HeadAgainKeeps, HeadNewKeeps
  <2>2. ASSUME NEW n \in Name, NEW cate \in DeclCate, NEW type \in ScalarType,
               NEW len \in Nat, DeclaresBlock(n, cate, type, len)
        PROVE  ScopeInv'
    <3>. DEFINE key == <<n, <<>>>>
                new == Entry(tabs[top], top, key, cate, type, len)
                old == getsym(top, key)
    <3>1. /\ phase' = "SEMANTIC" /\ pc \in {"const", "var"} /\ pc' \in {"const", "var"}
          /\ cate \notin RoutineCate /\ cate \notin ParamCate
          /\ DeclareHere(n, cate, type, len) /\ UNCHANGED <<scopes, head>>
      BY <2>2 DEF DeclaresBlock, RoutineCate, ParamCate
    <3>2. Len(scopes) >= 1 /\ type \in Type /\ ~Accepted'
      BY <3>1, ListFacts, ConstAssumption DEF Accepted
    <3>3. /\ top \in 1..Len(tabs) /\ key \in KnownKey
          /\ old # 0 => errnum' = DUPSYM /\ UNCHANGED <<tabs, buckets, syms>>
          /\ old = 0 => /\ errnum' = errnum /\ PutIn(top, key, new)
                        /\ tabs' = [tabs EXCEPT ![top] = Allocate(@, cate, len)]
      BY <3>1, <3>2, DeclareFacts
    <3>. HIDE DEF old, new, key
    <3>4. CASE old # 0
      BY <3>1, <3>2, <3>3, <3>4, KeepScopes DEF DUPSYM
    <3>5. CASE old = 0
      BY <3>1, <3>2, <3>3, <3>5, AddOther DEF new
    <3>. QED BY <3>4, <3>5
  <2>. QED BY <1>1, <2>1, <2>2, PgmKeeps, ParaKeeps, HeadOpenKeeps, DeclarationKinds
<1>2. CASE Generation
  <2>1. ASSUME NEW t \in DOMAIN tabs, NEW cate \in AllocCate, genir_alloc(t, cate)
        PROVE  ScopeInv'
    <3>1. /\ PutIn(t, GenKey, Entry(tabs[t], t, GenKey, cate, "VOID", 0))
          /\ tabs' = [tabs EXCEPT ![t] = Allocate(@, cate, 0)]
          /\ phase = "IR" /\ UNCHANGED <<scopes, pc, head, phase, errnum>>
      BY <2>1 DEF genir_alloc, symalloc, PutIn
    <3>2. /\ t \in 1..Len(tabs) /\ GenKey \in KnownKey /\ 0 \in Nat
          /\ cate \notin RoutineCate /\ cate \notin ParamCate
      BY <1>0 DEF KnownKey, AllocCate, RoutineCate, ParamCate
    <3>3. Accepted /\ pc # "head"
      BY <1>0, <3>1 DEF Accepted
    <3>. QED BY <3>1, <3>2, <3>3, AddOther
  <2>2. CASE genir_end
    <3>1. Accepted /\ UNCHANGED <<tabs, buckets, syms, scopes, pc, head, errnum>>
      BY <2>2 DEF genir_end, Accepted
    <3>. QED BY <1>0, <3>1, KeepScopes
  <2>. QED BY <1>2, <2>1, <2>2 DEF Generation
<1>3. CASE Uses
  <2>1. ~Accepted'
    BY <1>3, UsesFacts DEF Accepted
  <2>. QED BY <1>3, <2>1, UsesFacts, KeepScopes
<1>4. CASE anlys_pf_end \/ analysis_end
  BY <1>4, ExitKeeps
<1>5. CASE putsym_panic
  <2>1. /\ UNCHANGED <<tabs, buckets, syms, scopes, pc, head>>
        /\ errnum' # 0 /\ ~Accepted'
    BY <1>5 DEF putsym_panic, Exit, EPANIC, Accepted
  <2>. QED BY <2>1, KeepScopes
<1>6. CASE UNCHANGED vars
  BY <1>0, <1>6, KeepScopes DEF vars, Accepted
<1>. QED BY <1>1, <1>2, <1>3, <1>4, <1>5, <1>6 DEF Next

LEMMA ScopeInit == Init => ScopeInv
BY DEF Init, ScopeInv, Nested, RoutineInv, KeyInv, Accepted, NoHead

LEMMA Scoped == Spec => [](TypeInv /\ ScopeInv)
BY TypeInit, TypeStep, ScopeInit, ScopeStep, PTL DEF Spec

\* Past chkerr every scope but the program's belongs to one routine declared
\* further out, and the two point at each other, whatever was overloaded,
\* nested or left empty on the way.
THEOREM ScopesTied == Spec => []RoutineScopes
<1>1. TypeInv /\ ScopeInv => RoutineScopes
  <2>. SUFFICES ASSUME TypeInv, ScopeInv, Accepted
                PROVE  /\ errnum = 0 /\ scopes = <<>>
                       /\ \A t \in DOMAIN tabs \ {1} :
                            /\ tabs[t].funcsym # 0
                            /\ syms[tabs[t].funcsym].cate \in RoutineCate
                            /\ syms[tabs[t].funcsym].scope = t
                            /\ syms[tabs[t].funcsym].stab < t
    BY DEF RoutineScopes
  <2>1. errnum = 0 /\ scopes = <<>> /\ pc = "done"
    BY DEF ScopeInv, Nested
  <2>2. \A t \in DOMAIN tabs \ {1} : t \in 2..Len(tabs)
    BY InvFacts, LenFacts
  <2>3. \A t \in 2..Len(tabs) : tabs[t].funcsym # 0 /\ Tied(t)
    BY <2>1 DEF ScopeInv, Nested, RoutineInv, HeadOpen
  <2>. QED BY <2>1, <2>2, <2>3 DEF Tied
<1>. QED BY <1>1, Scoped, PTL

\* Past chkerr the parameters of every routine are the argument slots of its
\* scope, in the order of the heading and all of them.
THEOREM ParamsPlaced == Spec => []ParamLayout
<1>1. TypeInv /\ ScopeInv => ParamLayout
  <2>. SUFFICES ASSUME TypeInv, ScopeInv, Accepted,
                       NEW e \in DOMAIN syms, syms[e].cate \in RoutineCate
                PROVE  LET ps == syms[e].phead
                       IN  /\ tabs[syms[e].scope].argoff = Len(ps)
                           /\ \A i \in DOMAIN ps : /\ syms[ps[i]].cate \in ParamCate
                                                   /\ syms[ps[i]].stab = syms[e].scope
                                                   /\ syms[ps[i]].off = i - 1
    BY DEF ParamLayout
  <2>1. errnum = 0 /\ e \in 1..Len(syms)
    BY InvFacts, LenFacts DEF ScopeInv, Nested
  <2>2. Layout(syms[e].phead, syms[e].scope)
    BY <2>1 DEF ScopeInv, RoutineInv
  <2>3. DOMAIN syms[e].phead = 1..Len(syms[e].phead)
    BY <2>1, InvFacts, SymFacts
  <2>. QED BY <2>2, <2>3 DEF Layout
<1>. QED BY <1>1, Scoped, PTL

-----------------------------------------------------------------------------
(* Calls                                                                   *)

\* The arguments args fit the parameters of the routine sid.
CallFits(sid, args) ==
  LET ps == syms[sid].phead
  IN  /\ Len(args) = Len(ps)
      /\ \E literal \in {"UINT", "INT"} : \A i \in DOMAIN ps :
           InferType(args[i], literal) = syms[ps[i]].type
      /\ \A i \in DOMAIN ps : syms[ps[i]].cate = "BY_REFERENCE" =>
           /\ args[i][1] \in {"var", "elem"}
           /\ syms[Find(args[i][2])].cate \in {"VARIABLE", "ARRAY"}

CallInv ==
  /\ CallMatches /\ NoLengthError
  /\ ref.via = "call" => ~Accepted /\ pc # "pgm"

\* The first error of a list is the error of one member, or the last resort.
LEMMA FirstErrOne ==
  ASSUME NEW errs, DOMAIN errs \subseteq Nat, NEW last
  PROVE  FirstErr(errs, last) = last \/ \E i \in DOMAIN errs : FirstErr(errs, last) = errs[i]
<1>. DEFINE bad == {i \in DOMAIN errs : errs[i] # 0}
<1>1. CASE bad = {}
  BY <1>1 DEF FirstErr
<1>2. CASE bad # {}
  <2>1. \E i \in bad : \A j \in bad : i <= j
    BY <1>2, LeastNat
  <2>. DEFINE first == CHOOSE i \in bad : \A j \in bad : i <= j
  <2>2. first \in bad
    BY <2>1
  <2>3. FirstErr(errs, last) = errs[first]
    BY <1>2 DEF FirstErr
  <2>. HIDE DEF first
  <2>. QED BY <2>2, <2>3
<1>. QED BY <1>1, <1>2

\* The last resorts are not among the errors about names and arguments.
LastResort == {BADLEN, EABORT}

LEMMA OtherErrors ==
  ASSUME NEW arg
  PROVE  /\ \A name : /\ FindErr(name) \notin LastResort
                      /\ IdFactorErr(name) \notin LastResort
                      /\ ArrayFactorErr(name) \notin LastResort
         /\ InferErr(arg) \notin LastResort
         /\ \A param : syms[param].cate \in ParamCate => ArgErr(param, arg) \notin LastResort
<1>. USE DEF LastResort, BADLEN, EABORT, BADSYM, BADCTG, ERTYPE
<1>1. \A name : /\ FindErr(name) \notin LastResort
                /\ IdFactorErr(name) \notin LastResort
                /\ ArrayFactorErr(name) \notin LastResort
  BY DEF FindErr, IdFactorErr, ArrayFactorErr
<1>2. InferErr(arg) \notin LastResort
  BY <1>1 DEF InferErr, EPANIC
<1>3. ExprErr(arg) \notin LastResort
  BY <1>1 DEF ExprErr
<1>4. RefErr(arg) \notin LastResort
  BY <1>3 DEF RefErr, BADREF, OBJREF
<1>5. \A param : syms[param].cate \in ParamCate => ArgErr(param, arg) \notin LastResort
  BY <1>3, <1>4 DEF ArgErr, ParamCate
<1>. QED BY <1>1, <1>2, <1>5

\* The key a call is looked up by has the types of its arguments.
LEMMA CalleeTypes ==
  ASSUME TablesOK, NEW name \in Name, NEW k \in 0..MaxParam, NEW args \in [1..k -> Arg],
         \A i \in 1..k : InferErr(args[i]) = 0
  PROVE  \E literal \in {"UINT", "INT"} :
           /\ CalleeKey(name, args) = <<name, [i \in 1..k |-> InferType(args[i], literal)]>>
           /\ CalleeKey(name, args) \in KnownKey
<1>1. ASSUME NEW literal \in {"UINT", "INT"}
      PROVE  /\ make_symkey2(name, args, literal) =
                  <<name, [i \in 1..k |-> InferType(args[i], literal)]>>
             /\ make_symkey2(name, args, literal) \in KnownKey
  <2>1. [i \in 1..k |-> InferType(args[i], literal)] \in [1..k -> Type]
    BY InferTypeType
  <2>2. k \in Nat /\ k <= MaxParam
    BY ConstAssumption
  <2>3. make_symkey2(name, args, literal) =
          <<name, [i \in 1..k |-> InferType(args[i], literal)]>>
    BY DEF make_symkey2
  <2>. QED BY <2>1, <2>2, <2>3, TypedKey
<1>2. CalleeKey(name, args) \in
        {make_symkey2(name, args, "UINT"), make_symkey2(name, args, "INT")}
  BY DEF CalleeKey
<1>. QED BY <1>1, <1>2

\* A routine found by the key of a call has as many parameters as the call
\* has arguments, of the types the key was made of.
LEMMA CalleeFits ==
  ASSUME TypeInv, ScopeInv, NEW name \in Name,
         NEW k \in 0..MaxParam, NEW args \in [1..k -> Arg],
         \A i \in 1..k : InferErr(args[i]) = 0,
         NEW e, e = symfind(CalleeKey(name, args)), e # 0, syms[e].cate \in RoutineCate
  PROVE  /\ e \in 1..Len(syms) /\ Len(args) = k /\ Len(syms[e].phead) = k
         /\ \A i \in 1..k : IsParam(syms[e].phead[i])
         /\ \E literal \in {"UINT", "INT"} : \A i \in 1..k :
              InferType(args[i], literal) = syms[syms[e].phead[i]].type
<1>. DEFINE key == CalleeKey(name, args)
            ps == syms[e].phead
<1>1. TablesOK
  BY InvFacts
<1>2. PICK literal \in {"UINT", "INT"} :
        key = <<name, [i \in 1..k |-> InferType(args[i], literal)]>> /\ key \in KnownKey
  BY <1>1, CalleeTypes
<1>3. e \in 1..Len(syms) /\ syms[e].key = key
  BY <1>1, <1>2, SymfindKey
<1>4. /\ syms[e].key[2] = TypesOf(ps) /\ \A i \in 1..Len(ps) : IsParam(ps[i])
      /\ Len(ps) \in Nat
  BY <1>3, ListFacts DEF ScopeInv, KeyInv
<1>. HIDE DEF key, ps
<1>5. [i \in 1..k |-> InferType(args[i], literal)] = TypesOf(ps)
  BY <1>2, <1>3, <1>4
<1>6. 1..k = 1..Len(ps)
  <2>1. DOMAIN [i \in 1..k |-> InferType(args[i], literal)] = 1..k
    OBVIOUS
  <2>2. DOMAIN TypesOf(ps) = 1..Len(ps)
    BY DEF TypesOf
  <2>. QED BY <1>5, <2>1, <2>2
<1>7. k \in Nat
  BY ConstAssumption
<1>8. Len(ps) = k
  <2>1. k >= 1 => k \in 1..Len(ps)
    BY <1>6, <1>7
  <2>2. Len(ps) >= 1 => Len(ps) \in 1..k
    BY <1>4, <1>6
  <2>. HIDE <1>6
  <2>. QED BY <1>4, <1>7, <2>1, <2>2
<1>9. \A i \in 1..k : InferType(args[i], literal) = syms[ps[i]].type
  <2>. TAKE i \in 1..k
  <2>1. [j \in 1..k |-> InferType(args[j], literal)][i] = InferType(args[i], literal)
    OBVIOUS
  <2>2. TypesOf(ps)[i] = syms[ps[i]].type
    BY <1>8 DEF TypesOf
  <2>. QED BY <1>5, <2>1, <2>2
<1>10. Len(args) = k
  <2>1. args \in Seq(Arg)
    BY <1>7
  <2>. QED BY <1>7, <2>1
<1>. QED BY <1>3, <1>4, <1>8, <1>9, <1>10 DEF ps

\* What anlys_arg_list makes of such a call.
LEMMA ArgListFits ==
  ASSUME TypeInv, NEW e \in 1..Len(syms), NEW k \in Nat, NEW args \in [1..k -> Arg],
         Len(args) = k, Len(syms[e].phead) = k,
         \A i \in 1..k : IsParam(syms[e].phead[i])
  PROVE  /\ anlys_arg_list(e, args) \notin LastResort
         /\ anlys_arg_list(e, args) = 0 =>
              \A i \in 1..k : ArgErr(syms[e].phead[i], args[i]) = 0
<1>. DEFINE params == syms[e].phead
            errs == [i \in 1..k |-> ArgErr(params[i], args[i])]
<1>1. DOMAIN params = 1..k /\ DOMAIN args = 1..k
  BY InvFacts, SymFacts
<1>2. anlys_arg_list(e, args) = FirstErr(errs, 0)
  BY <1>1 DEF anlys_arg_list
<1>3. \A i \in 1..k : errs[i] = ArgErr(params[i], args[i]) /\ errs[i] \in Nat
  BY ErrTypes
<1>4. DOMAIN errs = 1..k /\ 1..k \subseteq Nat /\ 0 \in Nat
  OBVIOUS
<1>5. \A i \in 1..k : errs[i] \notin LastResort
  BY <1>3, OtherErrors DEF IsParam
<1>. HIDE DEF errs
<1>6. FirstErr(errs, 0) \notin LastResort
  BY <1>4, <1>5, FirstErrOne DEF LastResort, BADLEN, EABORT
<1>7. FirstErr(errs, 0) = 0 => \A i \in 1..k : errs[i] = 0
  BY <1>3, <1>4, FirstErrFacts
<1>. QED BY <1>2, <1>3, <1>6, <1>7

\* Only variables and arrays are passed by reference.
LEMMA ReferenceFits ==
  ASSUME NEW param, NEW arg, ArgErr(param, arg) = 0, syms[param].cate = "BY_REFERENCE"
  PROVE  arg[1] \in {"var", "elem"} /\ syms[Find(arg[2])].cate \in {"VARIABLE", "ARRAY"}
<1>1. RefErr(arg) = 0
  BY DEF ArgErr
<1>2. arg[1] \in {"var", "elem"} /\ ExprErr(arg) = 0
  BY <1>1 DEF RefErr, BADREF
<1>3. arg[1] = "var" => syms[Find(arg[2])].cate = "VARIABLE"
  BY <1>1, <1>2 DEF RefErr, OBJREF
<1>4. arg[1] = "elem" => syms[Find(arg[2])].cate = "ARRAY"
  BY <1>2 DEF ExprErr, ArrayFactorErr, BADSYM, ERTYPE
<1>. QED BY <1>2, <1>3, <1>4

\* Lookups depend on the tables, and a call on what lookups find.
LEMMA LookupKept ==
  ASSUME UNCHANGED <<buckets, syms, scopes>>
  PROVE  /\ \A t, key : getsym(t, key)' = getsym(t, key)
         /\ \A key : symfind(key)' = symfind(key)
         /\ \A name : Find(name)' = Find(name)
         /\ \A arg, literal : InferType(arg, literal)' = InferType(arg, literal)
<1>1. \A t, key : getsym(t, key)' = getsym(t, key)
  BY DEF getsym
<1>2. \A key : symfind(key)' = symfind(key)
  BY DEF symfind, getsym
<1>3. \A name : Find(name)' = Find(name)
  BY <1>2 DEF Find
<1>4. \A arg, literal : InferType(arg, literal)' = InferType(arg, literal)
  BY <1>3 DEF InferType
<1>. QED BY <1>1, <1>2, <1>3, <1>4

LEMMA CallKept ==
  ASSUME CallMatches, UNCHANGED <<buckets, syms, scopes, ref>>
  PROVE  CallMatches'
<1>1. /\ \A name : Find(name)' = Find(name)
      /\ \A arg, literal : InferType(arg, literal)' = InferType(arg, literal)
  BY LookupKept
<1>. SUFFICES ASSUME ref.via = "call" PROVE CallMatches'
  BY DEF CallMatches
<1>. DEFINE ps == syms[ref.sid].phead
            args == ref.args
<1>2. /\ Len(args) = Len(ps)
      /\ \A i \in DOMAIN ps : syms[ps[i]].cate = "BY_REFERENCE" =>
           /\ args[i][1] \in {"var", "elem"}
           /\ syms[Find(args[i][2])].cate \in {"VARIABLE", "ARRAY"}
  BY DEF CallMatches
<1>3. PICK literal \in {"UINT", "INT"} :
        \A i \in DOMAIN ps : InferType(args[i], literal) = syms[ps[i]].type
  BY DEF CallMatches
<1>4. \E lit \in {"UINT", "INT"} :
        \A i \in DOMAIN ps' : InferType(args[i], lit)' = syms[ps[i]].type'
  BY <1>1, <1>3
<1>5. Len(args') = Len(ps')
  BY <1>2
<1>6. \A i \in DOMAIN ps' : (syms[ps[i]].cate = "BY_REFERENCE" =>
        /\ args[i][1] \in {"var", "elem"}
        /\ syms[Find(args[i][2])].cate \in {"VARIABLE", "ARRAY"})'
  BY <1>1, <1>2
<1>. QED BY <1>4, <1>5, <1>6, Zenon DEF CallMatches

\* A call that passes, or the error it ends with.
LEMMA CallKeeps ==
  ASSUME TypeInv, ScopeInv, CallInv, NEW cate \in RoutineCate, NEW name \in Name,
         NEW k \in 0..MaxParam, NEW args \in [1..k -> Arg],
         anlys_call(cate, name, args)
  PROVE  CallInv'
<1>. DEFINE errs == [i \in DOMAIN args |-> InferErr(args[i])]
            inferred == FirstErr(errs, 0)
            key == CalleeKey(name, args)
            e == symfind(key)
            listed == anlys_arg_list(e, args)
            code == IF e = 0 THEN BADSYM
                    ELSE IF syms[e].cate # cate
                         THEN IF cate = "PROC" THEN BADSYM ELSE ERTYPE
                    ELSE IF args = <<>> THEN 0
                    ELSE listed
<1>1. /\ InBlock
      /\ IF inferred # 0 THEN Exit(inferred) /\ UNCHANGED ref
         ELSE Resolve(key, e, "call", args, code)
  BY DEF anlys_call
<1>2. k \in Nat /\ DOMAIN errs = 1..k /\ 1..k \subseteq Nat /\ 0 \in Nat
      /\ \A i \in 1..k : errs[i] = InferErr(args[i]) /\ errs[i] \in Nat
  BY ConstAssumption, ErrTypes
<1>. HIDE DEF errs
<1>3. inferred \in Nat /\ (inferred = 0 => \A i \in 1..k : errs[i] = 0)
  BY <1>2, FirstErrFacts
<1>4. inferred \notin LastResort
  <2>1. \A i \in 1..k : errs[i] \notin LastResort
    BY <1>2, OtherErrors
  <2>. QED BY <1>2, <2>1, FirstErrOne DEF LastResort, BADLEN, EABORT
<1>. HIDE DEF inferred, e, key, listed
<1>5. CASE inferred # 0
  <2>1. /\ UNCHANGED <<tabs, buckets, syms, scopes, pc, ref>>
        /\ errnum' = inferred /\ phase' = "EXIT"
    BY <1>1, <1>5 DEF Exit
  <2>2. CallMatches'
    BY <2>1, CallKept DEF CallInv
  <2>. QED BY <1>1, <1>4, <2>1, <2>2 DEF CallInv, NoLengthError, LastResort, Accepted
<1>6. CASE inferred = 0
  <2>1. e # 0 /\ syms[e].cate = cate =>
          /\ e \in 1..Len(syms) /\ Len(args) = k /\ Len(syms[e].phead) = k
          /\ \A i \in 1..k : IsParam(syms[e].phead[i])
          /\ \E literal \in {"UINT", "INT"} : \A i \in 1..k :
               InferType(args[i], literal) = syms[syms[e].phead[i]].type
    <3>. SUFFICES ASSUME e # 0, syms[e].cate = cate
                  PROVE  /\ e \in 1..Len(syms) /\ Len(args) = k /\ Len(syms[e].phead) = k
                         /\ \A i \in 1..k : IsParam(syms[e].phead[i])
                         /\ \E literal \in {"UINT", "INT"} : \A i \in 1..k :
                              InferType(args[i], literal) = syms[syms[e].phead[i]].type
      OBVIOUS
    <3>1. \A i \in 1..k : InferErr(args[i]) = 0
      BY <1>2, <1>3, <1>6
    <3>2. e = symfind(CalleeKey(name, args)) /\ syms[e].cate \in RoutineCate
      BY DEF e, key
    <3>. QED BY <3>1, <3>2, CalleeFits
  <2>2. e # 0 /\ syms[e].cate = cate =>
          /\ listed \notin LastResort
          /\ listed = 0 => \A i \in 1..k : ArgErr(syms[e].phead[i], args[i]) = 0
    BY <1>2, <2>1, ArgListFits DEF listed
  <2>3. code \notin LastResort
    BY <2>2 DEF LastResort, BADLEN, EABORT, BADSYM, ERTYPE
  <2>4. CASE code # 0
    <3>1. /\ ref'.via # "call" /\ errnum' = code /\ phase' = "EXIT"
      BY <1>1, <1>6, <2>4 DEF Resolve, Exit, Ref
    <3>. QED BY <2>3, <3>1 DEF CallInv, CallMatches, NoLengthError, LastResort
  <2>5. CASE code = 0
    <3>1. /\ ref'.via = "call" /\ ref'.sid = e /\ ref'.args = args /\ pc' = "stmt"
          /\ UNCHANGED <<tabs, buckets, syms, scopes, phase, errnum>>
      BY <1>1, <1>6, <2>5 DEF Resolve, Ref
    <3>2. e # 0 /\ syms[e].cate = cate /\ (args # <<>> => listed = 0)
      BY <2>5 DEF BADSYM, ERTYPE
    <3>3. \A i \in 1..k : ArgErr(syms[e].phead[i], args[i]) = 0
      <4>1. args = <<>> => k = 0
        BY <2>1, <3>2
      <4>. QED BY <1>2, <2>2, <3>2, <4>1
    <3>4. DOMAIN syms[e].phead = 1..k
      BY <2>1, <3>2, InvFacts, SymFacts
    <3>5. CallFits(e, args)
      <4>1. Len(args) = Len(syms[e].phead)
        BY <2>1, <3>2
      <4>2. \E literal \in {"UINT", "INT"} : \A i \in DOMAIN syms[e].phead :
              InferType(args[i], literal) = syms[syms[e].phead[i]].type
        BY <2>1, <3>2, <3>4
      <4>3. \A i \in 1..k : syms[syms[e].phead[i]].cate = "BY_REFERENCE" =>
              /\ args[i][1] \in {"var", "elem"}
              /\ syms[Find(args[i][2])].cate \in {"VARIABLE", "ARRAY"}
        BY <3>3, ReferenceFits
      <4>. QED BY <3>4, <4>1, <4>2, <4>3 DEF CallFits
    <3>6. CallMatches'
      BY <3>1, <3>5, LookupKept DEF CallMatches, CallFits
    <3>7. ~Accepted'
      BY <1>1, <3>1 DEF InBlock, At, Accepted
    <3>. QED BY <3>1, <3>6, <3>7 DEF CallInv, NoLengthError
  <2>. QED BY <2>4, <2>5
<1>. QED BY <1>5, <1>6

\* Every other step forgets the last call, keeps what it was about, or ends
\* the process with an error of another kind.
LEMMA OtherCallSteps ==
  ASSUME CallInv, errnum' = errnum \/ errnum' \notin LastResort,
         \/ ref'.via # "call"
         \/ /\ UNCHANGED <<tabs, buckets, syms, scopes, ref>>
            /\ Accepted' => Accepted
            /\ pc' = "pgm" => pc = "pgm"
  PROVE  CallInv'
<1>1. NoLengthError'
  BY DEF CallInv, NoLengthError, LastResort
<1>2. CASE ref'.via # "call"
  BY <1>1, <1>2 DEF CallInv, CallMatches
<1>3. CASE /\ UNCHANGED <<tabs, buckets, syms, scopes, ref>>
           /\ Accepted' => Accepted
           /\ pc' = "pgm" => pc = "pgm"
  <2>1. CallMatches'
    BY <1>3, CallKept DEF CallInv
  <2>. QED BY <1>1, <1>3, <2>1 DEF CallInv
<1>. QED BY <1>2, <1>3

LEMMA CallStep == TypeInv /\ ScopeInv /\ CallInv /\ [Next]_vars => CallInv'
<1>. SUFFICES ASSUME TypeInv, ScopeInv, CallInv, [Next]_vars PROVE CallInv'
  OBVIOUS
<1>0. DUPSYM \notin LastResort /\ EPANIC \notin LastResort
  BY DEF DUPSYM, EPANIC, LastResort, BADLEN, EABORT
<1>1. CASE Declarations
  <2>1. ASSUME NEW name \in Name, NEW cate, NEW type, NEW len,
               DeclareHere(name, cate, type, len), ref' = NoUse(Plain(name))
        PROVE  CallInv'
    <3>1. errnum' = errnum \/ errnum' = DUPSYM
      BY <2>1 DEF DeclareHere, rescue
    <3>2. ref'.via # "call"
      BY <2>1 DEF NoUse, Ref
    <3>. QED BY <1>0, <3>1, <3>2, OtherCallSteps
  <2>2. CASE anlys_pgm
    <3>1. ref.via # "call" /\ UNCHANGED <<errnum, ref>>
      BY <2>2 DEF anlys_pgm, At, CallInv
    <3>. QED BY <3>1, OtherCallSteps
  <2>3. CASE anlys_head_close
    <3>1. (errnum' = errnum \/ errnum' = DUPSYM) /\ ref'.via # "call"
      BY <2>3 DEF anlys_head_close, rescue, NoUse, Ref
    <3>. QED BY <1>0, <3>1, OtherCallSteps
  <2>4. ASSUME NEW n \in Name, NEW cate, NEW type, anlys_head_open(n, cate, type)
        PROVE  CallInv'
    <3>1. errnum' = errnum /\ ref'.via # "call"
      BY <2>4 DEF anlys_head_open, NoUse, Ref
    <3>. QED BY <3>1, OtherCallSteps
  <2>. QED BY <1>1, <2>1, <2>2, <2>3, <2>4, DeclarationKinds
           DEF anlys_para_list, DeclaresBlock
<1>2. CASE Uses
  <2>1. PICK n \in Name :
          \/ anlys_assign_stmt(n) \/ anlys_for_or_read(n) \/ anlys_factor(n)
          \/ \E cate \in RoutineCate, k \in 0..MaxParam :
               \E args \in [1..k -> Arg] : anlys_call(cate, n, args)
    BY <1>2 DEF Uses
  <2>2. ASSUME NEW key, NEW sid, NEW via, NEW args, NEW code,
               code \notin LastResort, via # "call",
               Resolve(key, sid, via, args, code)
        PROVE  CallInv'
    <3>1. (errnum' = errnum \/ errnum' = code) /\ ref'.via # "call"
      BY <2>2 DEF Resolve, Exit, Ref
    <3>. QED BY <2>2, <3>1, OtherCallSteps
  <2>3. FindErr(n) \notin LastResort /\ IdFactorErr(n) \notin LastResort
        /\ ArrayFactorErr(n) \notin LastResort /\ 0 \notin LastResort
    BY OtherErrors DEF LastResort, BADLEN, EABORT
  <2>4. CASE anlys_assign_stmt(n)
    BY <2>2, <2>3, <2>4 DEF anlys_assign_stmt, ResolveName
  <2>5. CASE anlys_for_or_read(n)
    BY <2>2, <2>3, <2>5 DEF anlys_for_or_read, ResolveName
  <2>6. CASE anlys_factor(n)
    BY <2>2, <2>3, <2>6 DEF anlys_factor, ResolveName
  <2>. QED BY <2>1, <2>4, <2>5, <2>6, CallKeeps
<1>3. CASE anlys_pf_end \/ analysis_end
  <2>1. errnum' = errnum /\ ref'.via # "call"
    BY <1>3 DEF anlys_pf_end, analysis_end, NoUse, Ref
  <2>. QED BY <2>1, OtherCallSteps
<1>4. CASE Generation
  <2>1. ASSUME NEW t \in DOMAIN tabs, NEW cate \in AllocCate, genir_alloc(t, cate)
        PROVE  errnum' = errnum /\ ref' = ref /\ Accepted
    BY <2>1 DEF genir_alloc, Accepted
  <2>2. genir_end => errnum' = errnum /\ ref' = ref /\ Accepted
    BY DEF genir_end, Accepted
  <2>3. errnum' = errnum /\ ref' = ref /\ Accepted
    BY <1>4, <2>1, <2>2 DEF Generation
  <2>4. ref'.via # "call"
    BY <2>3 DEF CallInv
  <2>. QED BY <2>3, <2>4, OtherCallSteps
<1>5. CASE putsym_panic
  <2>1. /\ errnum' = EPANIC /\ UNCHANGED <<tabs, buckets, syms, scopes, pc, ref>>
        /\ ~Accepted'
    BY <1>5 DEF putsym_panic, Exit, Accepted
  <2>. QED BY <1>0, <2>1, OtherCallSteps
<1>6. CASE UNCHANGED vars
  BY <1>6, OtherCallSteps DEF vars, Accepted
<1>. QED BY <1>1, <1>2, <1>3, <1>4, <1>5, <1>6 DEF Next

LEMMA CallInit == Init => CallInv
BY DEF Init, CallInv, CallMatches, NoLengthError, NoUse, Ref, BADLEN, EABORT

LEMMA CallsSound == Spec => []CallInv
BY TypeInit, TypeStep, ScopeInit, ScopeStep, CallInit, CallStep, PTL DEF Spec

\* A call that passes the analysis fits the routine it was resolved to in
\* number, types and what may be passed by reference: the key it was looked
\* up by says as much as the parameter list.
THEOREM CallsFit == Spec => []CallMatches
<1>1. CallInv => CallMatches
  BY DEF CallInv
<1>. QED BY <1>1, CallsSound, PTL

\* The two last resorts of anlys_arg_list are never reached.
THEOREM NoLastResort == Spec => []NoLengthError
<1>1. CallInv => NoLengthError
  BY DEF CallInv
<1>. QED BY <1>1, CallsSound, PTL

-----------------------------------------------------------------------------
(* The tables implement lexical scoping: what lookups rely on              *)

\* The chains of a table have the table's symbols and no others, each in the
\* bucket of its key.
InChain(t, b, e) == \E i \in 1..Len(buckets[t][b]) : buckets[t][b][i] = e
ChainInv ==
  \A t \in 1..Len(tabs), b \in Bucket, e \in 1..Len(syms) :
    InChain(t, b, e) <=> syms[e].stab = t /\ Hash(syms[e].key) = b

\* While a scope is open no table has two symbols of one key.  (Those of the
\* code generator all have one key, but come when no scope is open.)
UniqueInv ==
  scopes # <<>> =>
    \A d, e \in 1..Len(syms) :
      syms[d].stab = syms[e].stab /\ syms[d].key = syms[e].key => d = e

\* No sid is given that putsym has no room for; the program's own scope goes
\* by a name no routine can have.
RoomInv == \A e \in 1..Len(syms) : e \in 1..MAXSYMENT - 2
NspaceInv == Len(tabs) >= 1 => tabs[1].nspace = MainFunc

\* Before the program there was no use, and a name that is not found ends
\* the process.
ViaInv ==
  /\ pc = "pgm" => ref.sid = 0
  /\ ref.via = "unknown" => phase = "EXIT"

LookupInv == ChainInv /\ UniqueInv /\ RoomInv /\ NspaceInv /\ ViaInv

\* NULL is returned exactly if the table has no symbol of the key.
LEMMA GetsymIs ==
  ASSUME TablesOK, ChainInv, NEW t \in 1..Len(tabs), NEW key \in KnownKey
  PROVE  /\ getsym(t, key) # 0 =>
              /\ getsym(t, key) \in 1..Len(syms)
              /\ syms[getsym(t, key)].stab = t /\ syms[getsym(t, key)].key = key
         /\ getsym(t, key) = 0 =>
              \A e \in 1..Len(syms) : ~ (syms[e].stab = t /\ syms[e].key = key)
<1>1. Hash(key) \in Bucket
  BY ConstAssumption DEF KnownKey
<1>2. getsym(t, key) \in 0..Len(syms) /\ Len(syms) \in Nat
  BY GetsymType, LenFacts
<1>3. ASSUME getsym(t, key) # 0
      PROVE  /\ getsym(t, key) \in 1..Len(syms)
             /\ syms[getsym(t, key)].stab = t /\ syms[getsym(t, key)].key = key
  <2>1. getsym(t, key) \in 1..Len(syms)
    BY <1>2, <1>3
  <2>2. InChain(t, Hash(key), getsym(t, key)) /\ syms[getsym(t, key)].key = key
    BY <1>3, GetsymFound DEF InChain
  <2>. QED BY <1>1, <2>1, <2>2 DEF ChainInv
<1>4. ASSUME getsym(t, key) = 0, NEW e \in 1..Len(syms),
             syms[e].stab = t, syms[e].key = key
      PROVE  FALSE
  <2>1. InChain(t, Hash(key), e)
    BY <1>1, <1>4 DEF ChainInv
  <2>. QED BY <1>4, <2>1, GetsymFound DEF InChain
<1>. QED BY <1>3, <1>4

\* A new symbol keeps the chains right, and its table's keys apart if the
\* table did not have the key.
LEMMA PutKeepsChains ==
  ASSUME TablesOK, ChainInv, Len(tabs') = Len(tabs),
         NEW t \in 1..Len(tabs), NEW key \in KnownKey, NEW new,
         new.stab = t, new.key = key, PutIn(t, key, new)
  PROVE  ChainInv'
<1>. DEFINE n == Len(syms) + 1
<1>1. /\ n \in Nat /\ Len(syms') = n /\ syms'[n] = new
      /\ \A d \in 1..Len(syms) : syms'[d] = syms[d]
      /\ \A u \in 1..Len(tabs), b \in Bucket :
           buckets'[u][b] = IF u = t /\ b = Hash(key) THEN <<n>> \o buckets[u][b]
                            ELSE buckets[u][b]
  BY PutFacts
<1>2. /\ Len(syms) \in Nat /\ n \notin 1..Len(syms)
      /\ \A e \in 1..n : e \in 1..Len(syms) \/ e = n
  BY LenFacts
<1>3. \A u \in 1..Len(tabs), b \in Bucket :
        /\ buckets[u][b] \in Seq(Nat)
        /\ \A i \in 1..Len(buckets[u][b]) : buckets[u][b][i] \in 1..Len(syms)
  BY TableFacts
<1>. HIDE DEF n
<1>4. ASSUME NEW u \in 1..Len(tabs), NEW b \in Bucket, NEW e \in 1..n
      PROVE  InChain(u, b, e)' <=> syms'[e].stab = u /\ Hash(syms'[e].key) = b
  <2>1. CASE u = t /\ b = Hash(key)
    <3>1. buckets'[u][b] = <<n>> \o buckets[u][b]
      BY <1>1, <2>1
    <3>2. buckets[u][b] \in Seq(Nat) /\ n \in Nat
      BY <1>1, <1>3
    <3>5. InChain(u, b, e)' <=> e = n \/ InChain(u, b, e)
      <4>. DEFINE old == buckets[u][b]
                  chain == buckets'[u][b]
      <4>1. InChain(u, b, e)' <=> \E i \in 1..Len(chain) : chain[i] = e
        BY DEF InChain
      <4>2. InChain(u, b, e) <=> \E i \in 1..Len(old) : old[i] = e
        BY DEF InChain
      <4>3. old \in Seq(Nat) /\ n \in Nat
        BY <3>2
      <4>4. chain = <<n>> \o old
        BY <3>1
      <4>. HIDE DEF old, chain
      <4>5. ASSUME NEW i \in 1..Len(chain)
            PROVE  chain[i] = n \/ \E j \in 1..Len(old) : chain[i] = old[j]
        BY <4>3, <4>4, NewHead, SMTT(30)
      <4>6. \E i \in 1..Len(chain) : chain[i] = n
        BY <4>3, <4>4, NewHead
      <4>7. \A j \in 1..Len(old) : \E i \in 1..Len(chain) : chain[i] = old[j]
        BY <4>3, <4>4, NewHead
      <4>. QED BY <4>1, <4>2, <4>5, <4>6, <4>7
    <3>3. CASE e = n
      BY <1>1, <2>1, <3>5, <3>3
    <3>4. CASE e \in 1..Len(syms)
      <4>1. InChain(u, b, e)' <=> InChain(u, b, e)
        BY <1>2, <3>5, <3>4
      <4>. QED BY <1>1, <3>4, <4>1 DEF ChainInv
    <3>. QED BY <1>2, <3>3, <3>4
  <2>2. CASE ~ (u = t /\ b = Hash(key))
    <3>1. InChain(u, b, e)' <=> InChain(u, b, e)
      <4>1. buckets'[u][b] = buckets[u][b]
        BY <1>1, <2>2
      <4>. QED BY <4>1 DEF InChain
    <3>2. CASE e = n
      <4>1. ~ InChain(u, b, e)
        BY <1>2, <1>3, <3>2 DEF InChain
      <4>. QED BY <1>1, <2>2, <3>1, <3>2, <4>1
    <3>3. CASE e \in 1..Len(syms)
      BY <1>1, <3>1, <3>3 DEF ChainInv
    <3>. QED BY <1>2, <3>2, <3>3
  <2>. QED BY <2>1, <2>2
<1>. QED BY <1>1, <1>4 DEF ChainInv

LEMMA PutKeepsUnique ==
  ASSUME TablesOK, UniqueInv, scopes # <<>>,
         NEW t \in 1..Len(tabs), NEW key \in KnownKey, NEW new,
         new.stab = t, new.key = key, PutIn(t, key, new),
         \A e \in 1..Len(syms) : ~ (syms[e].stab = t /\ syms[e].key = key)
  PROVE  UniqueInv'
<1>. DEFINE n == Len(syms) + 1
<1>1. /\ n \in Nat /\ Len(syms') = n /\ syms'[n] = new
      /\ \A d \in 1..Len(syms) : syms'[d] = syms[d]
  BY PutFacts
<1>2. \A e \in 1..n : e \in 1..Len(syms) \/ e = n
  BY LenFacts
<1>. HIDE DEF n
<1>. QED BY <1>1, <1>2 DEF UniqueInv

LEMMA PutKeepsRoom ==
  ASSUME TablesOK, RoomInv, Room, NEW t \in 1..Len(tabs), NEW key \in KnownKey,
         NEW new, PutIn(t, key, new)
  PROVE  RoomInv'
<1>1. Len(syms) \in Nat /\ Len(syms') = Len(syms) + 1
  BY PutFacts, LenFacts
<1>2. Len(syms) + 2 < MAXSYMENT /\ MAXSYMENT \in Nat
  BY ConstAssumption DEF Room
<1>. QED BY <1>1, <1>2 DEF RoomInv

\* Steps that change no key, no table of a symbol and no chain.
LEMMA KeepLookup ==
  ASSUME TypeInv, LookupInv, ViaInv', UNCHANGED buckets,
         Len(syms') = Len(syms), Len(tabs') = Len(tabs),
         \A e \in 1..Len(syms) :
           syms'[e].stab = syms[e].stab /\ syms'[e].key = syms[e].key,
         \A t \in 1..Len(tabs) : tabs'[t].nspace = tabs[t].nspace,
         scopes' # <<>> => scopes # <<>>
  PROVE  LookupInv'
<1>1. ChainInv'
  BY DEF LookupInv, ChainInv, InChain
<1>2. UniqueInv'
  BY DEF LookupInv, UniqueInv
<1>3. RoomInv' /\ NspaceInv'
  BY ListFacts DEF LookupInv, RoomInv, NspaceInv
<1>. QED BY <1>1, <1>2, <1>3 DEF LookupInv

\* A declaration of a key the table does not have.
LEMMA PutLookup ==
  ASSUME TypeInv, LookupInv, ViaInv', Room, Len(tabs') = Len(tabs),
         \A u \in 1..Len(tabs) : tabs'[u].nspace = tabs[u].nspace,
         scopes' = scopes,
         NEW t \in 1..Len(tabs), NEW key \in KnownKey, NEW new,
         new.stab = t, new.key = key, PutIn(t, key, new),
         scopes = <<>> \/ getsym(t, key) = 0
  PROVE  LookupInv'
<1>1. TablesOK /\ ChainInv /\ UniqueInv /\ RoomInv /\ NspaceInv
  BY InvFacts DEF LookupInv
<1>2. ChainInv' /\ RoomInv'
  BY <1>1, PutKeepsChains, PutKeepsRoom
<1>3. UniqueInv'
  <2>1. CASE scopes = <<>>
    BY <2>1 DEF UniqueInv
  <2>2. CASE scopes # <<>>
    <3>1. \A e \in 1..Len(syms) : ~ (syms[e].stab = t /\ syms[e].key = key)
      BY <1>1, <2>2, GetsymIs
    <3>. QED BY <1>1, <2>2, <3>1, PutKeepsUnique
  <2>. QED BY <2>1, <2>2
<1>4. NspaceInv'
  BY <1>1, ListFacts DEF NspaceInv
<1>. QED BY <1>2, <1>3, <1>4 DEF LookupInv

\* The symbol that has the key of the heading already; NULL if there is none.
HeadOld == getsym(scopes[Len(scopes) - 1], make_symkey(head.name, head.phead))

\* What the end of a heading makes of the tables if the key was taken and if
\* it was not: the heading's scope has its routine.
LEMMA HeadAgainTables ==
  ASSUME TypeInv, Nested, anlys_head_close, HeadOld # 0
  PROVE  /\ Len(tabs') = Len(tabs)
         /\ \A u \in 1..Len(tabs) :
              /\ tabs'[u].nspace = tabs[u].nspace
              /\ tabs'[u].funcsym = IF u = top THEN HeadOld ELSE tabs[u].funcsym
         /\ Len(syms') = Len(syms)
         /\ \A d \in 1..Len(syms) :
              syms'[d].stab = syms[d].stab /\ syms'[d].key = syms[d].key
<1>. DEFINE scope == top
            old == HeadOld
            tab == [tabs[scope] EXCEPT !.funcsym = old]
            tied == [syms[old] EXCEPT !.scope = scope, !.phead = head.phead]
<1>1. /\ scope \in 1..Len(tabs) /\ old \in 0..Len(syms)
      /\ syms' = [syms EXCEPT ![old] = tied] /\ tabs' = [tabs EXCEPT ![scope] = tab]
  BY HeadCloseFacts DEF HeadOld
<1>2. /\ tabs \in Seq(TableType) /\ tabs[scope] \in TableType
      /\ old \in 1..Len(syms) /\ syms \in Seq(SymType) /\ syms[old] \in SymType
  BY <1>1, InvFacts, TableFacts, SymFacts DEF TablesOK
<1>3. /\ tab.funcsym = old /\ tab.nspace = tabs[scope].nspace
      /\ tied.stab = syms[old].stab /\ tied.key = syms[old].key
  BY <1>2 DEF TableType, SymType
<1>. HIDE DEF tab, tied, scope, old
<1>4. /\ Len(tabs') = Len(tabs) /\ tabs'[scope] = tab
      /\ \A u \in 1..Len(tabs) : u # scope => tabs'[u] = tabs[u]
  BY <1>1, <1>2
<1>5. /\ Len(syms') = Len(syms) /\ syms'[old] = tied
      /\ \A d \in 1..Len(syms) : d # old => syms'[d] = syms[d]
  BY <1>1, <1>2
<1>6. \A u \in 1..Len(tabs) :
        /\ tabs'[u].nspace = tabs[u].nspace
        /\ tabs'[u].funcsym = IF u = scope THEN old ELSE tabs[u].funcsym
  BY <1>3, <1>4
<1>7. \A d \in 1..Len(syms) :
        syms'[d].stab = syms[d].stab /\ syms'[d].key = syms[d].key
  BY <1>3, <1>5
<1>. QED BY <1>4, <1>5, <1>6, <1>7 DEF scope, old

LEMMA HeadNewTables ==
  ASSUME TypeInv, Nested, anlys_head_close, HeadOld = 0
  PROVE  /\ Len(tabs') = Len(tabs)
         /\ \A u \in 1..Len(tabs) :
              /\ tabs'[u].nspace = tabs[u].nspace
              /\ tabs'[u].funcsym = IF u = top THEN Len(syms) + 1 ELSE tabs[u].funcsym
<1>. DEFINE scope == top
            parent == scopes[Len(scopes) - 1]
            n == Len(syms) + 1
            wide == Allocate(tabs[parent], head.cate, 0)
            tab == [tabs[scope] EXCEPT !.funcsym = n]
<1>1. /\ scope \in 1..Len(tabs) /\ parent \in 1..Len(tabs) /\ parent < scope
      /\ tabs' = [tabs EXCEPT ![parent] = wide, ![scope].funcsym = n]
  <2>1. pc = "head"
    BY HeadCloseFacts
  <2>. QED BY <2>1, HeadCloseFacts, HeadInside DEF HeadOld
<1>2. /\ tabs \in Seq(TableType) /\ tabs[scope] \in TableType /\ tabs[parent] \in TableType
      /\ scope # parent
  <2>1. scope # parent
    BY <1>1, ListFacts
  <2>. QED BY <1>1, <2>1, InvFacts, TableFacts DEF TablesOK
<1>3. /\ tab.funcsym = n /\ tab.nspace = tabs[scope].nspace
      /\ wide.funcsym = tabs[parent].funcsym /\ wide.nspace = tabs[parent].nspace
  BY <1>2 DEF Allocate, TableType
<1>. HIDE DEF wide, scope, parent, n
<1>4. [tabs EXCEPT ![parent] = wide][scope] = tabs[scope]
  BY <1>1, <1>2
<1>5. tabs' = [[tabs EXCEPT ![parent] = wide] EXCEPT ![scope] = tab]
  BY <1>1, <1>4
<1>. HIDE DEF tab
<1>6. /\ Len(tabs') = Len(tabs) /\ tabs'[scope] = tab /\ tabs'[parent] = wide
      /\ \A u \in 1..Len(tabs) : u # scope /\ u # parent => tabs'[u] = tabs[u]
  BY <1>1, <1>2, <1>5
<1>7. ASSUME NEW u \in 1..Len(tabs)
      PROVE  /\ tabs'[u].nspace = tabs[u].nspace
             /\ tabs'[u].funcsym = IF u = scope THEN n ELSE tabs[u].funcsym
  <2>1. CASE u = scope
    BY <1>3, <1>6, <2>1
  <2>2. CASE u = parent
    BY <1>2, <1>3, <1>6, <2>2
  <2>3. CASE u # scope /\ u # parent
    BY <1>6, <2>3
  <2>. QED BY <2>1, <2>2, <2>3
<1>. QED BY <1>6, <1>7 DEF scope, n

LEMMA HeadCloseLookup ==
  ASSUME TypeInv, ScopeInv, LookupInv, anlys_head_close
  PROVE  LookupInv'
<1>. DEFINE parent == scopes[Len(scopes) - 1]
            key == make_symkey(head.name, head.phead)
            old == getsym(parent, key)
            new == [Entry(tabs[parent], parent, key, head.cate, head.type, 0)
                    EXCEPT !.scope = top, !.phead = head.phead]
<1>1. /\ parent \in 1..Len(tabs) /\ key \in KnownKey /\ pc' = "const"
      /\ ref' = NoUse(key) /\ UNCHANGED scopes
      /\ old # 0 => buckets' = buckets
      /\ old = 0 => Room /\ PutIn(parent, key, new)
  BY HeadCloseFacts
<1>2. new.stab = parent /\ new.key = key
  BY DEF Entry
<1>3. Nested /\ old = HeadOld
  BY DEF ScopeInv, HeadOld
<1>4. ViaInv'
  BY <1>1 DEF ViaInv, NoUse, Ref
<1>. HIDE DEF new, key, parent, old
<1>5. CASE old # 0
  BY <1>1, <1>3, <1>4, <1>5, HeadAgainTables, KeepLookup
<1>6. CASE old = 0
  <2>1. getsym(parent, key) = 0
    BY <1>6 DEF old
  <2>2. /\ Len(tabs') = Len(tabs)
        /\ \A u \in 1..Len(tabs) : tabs'[u].nspace = tabs[u].nspace
    BY <1>3, <1>6, HeadNewTables
  <2>. QED BY <1>1, <1>2, <1>4, <1>6, <2>1, <2>2, PutLookup
<1>. QED BY <1>5, <1>6

\* The scope of a heading: no symbol is in its table, nothing in its chains.
LEMMA HeadOpenLookup ==
  ASSUME TypeInv, LookupInv, NEW name, NEW cate, NEW type,
         anlys_head_open(name, cate, type)
  PROVE  LookupInv'
<1>. DEFINE t == Len(tabs) + 1
<1>1. /\ phase = "SEMANTIC" /\ pc \in {"const", "var", "pf"} /\ pc' = "head"
      /\ scope_entry(name) /\ ref' = NoUse(Plain(name)) /\ UNCHANGED <<syms, phase>>
  BY DEF anlys_head_open, At
<1>2. /\ t \in Nat /\ Len(tabs') = t
      /\ \A u \in 1..Len(tabs) : tabs'[u] = tabs[u] /\ buckets'[u] = buckets[u]
      /\ \A b \in Bucket : buckets'[t][b] = <<>>
  BY <1>1, InvFacts, EntryFacts
<1>3. /\ Len(scopes) >= 1 /\ Len(tabs) \in Nat /\ Len(tabs) >= 1 /\ 1 \in 1..Len(tabs)
      /\ \A u \in 1..t : u \in 1..Len(tabs) \/ u = t
      /\ t \notin 1..Len(tabs)
      /\ \A e \in 1..Len(syms) : syms[e].stab \in 1..Len(tabs)
  <2>1. Len(scopes) >= 1 /\ Len(tabs) \in Nat /\ top \in 1..Len(tabs)
    BY <1>1, ListFacts
  <2>2. \A e \in 1..Len(syms) : syms[e].stab \in 1..Len(tabs)
    BY InvFacts DEF TablesOK
  <2>. QED BY <2>1, <2>2
<1>. HIDE DEF t
<1>4. ChainInv'
  <2>. SUFFICES ASSUME NEW u \in 1..t, NEW b \in Bucket, NEW e \in 1..Len(syms)
                PROVE  InChain(u, b, e)' <=> syms[e].stab = u /\ Hash(syms[e].key) = b
    BY <1>1, <1>2 DEF ChainInv
  <2>1. CASE u \in 1..Len(tabs)
    <3>1. InChain(u, b, e)' <=> InChain(u, b, e)
      BY <1>2, <2>1 DEF InChain
    <3>. QED BY <2>1, <3>1 DEF LookupInv, ChainInv
  <2>2. CASE u = t
    <3>1. ~ InChain(u, b, e)'
      BY <1>2, <2>2 DEF InChain
    <3>. QED BY <1>3, <2>2, <3>1
  <2>. QED BY <1>3, <2>1, <2>2
<1>5. scopes # <<>>
  BY <1>3
<1>6. UniqueInv'
  BY <1>1, <1>5 DEF LookupInv, UniqueInv
<1>7. RoomInv' /\ NspaceInv'
  BY <1>1, <1>2, <1>3 DEF LookupInv, RoomInv, NspaceInv
<1>8. ViaInv'
  BY <1>1 DEF ViaInv, NoUse, Ref
<1>. QED BY <1>4, <1>6, <1>7, <1>8 DEF LookupInv

\* The entry point is the first symbol of the first table.
LEMMA PgmLookup ==
  ASSUME TypeInv, ViaInv, anlys_pgm
  PROVE  LookupInv'
<1>. DEFINE tab == NewTable(MainFunc)
            e == [Entry(tab, 1, EntryKey, "FUNCTION", "INT", 0) EXCEPT !.scope = 1]
            bs == putsym([b \in Bucket |-> <<>>], EntryKey)
            wide == Allocate(tab, "FUNCTION", 0)
<1>1. /\ tabs' = <<wide>> /\ syms' = <<e>> /\ buckets' = <<bs>> /\ syms = <<>>
      /\ pc' = "const" /\ phase = "SEMANTIC" /\ Room /\ UNCHANGED <<phase, ref>>
  BY PgmFacts
<1>2. e.stab = 1 /\ e.key = EntryKey /\ wide.nspace = MainFunc
  BY DEF Entry, Allocate, NewTable
<1>3. Hash(EntryKey) \in Bucket
  BY ConstAssumption
<1>4. \A b \in Bucket : bs[b] = IF b = Hash(EntryKey) THEN <<1>> ELSE <<>>
  <2>1. bs = [[b \in Bucket |-> <<>>] EXCEPT ![Hash(EntryKey)] = <<1>>]
    BY <1>1 DEF putsym
  <2>. QED BY <1>3, <2>1
<1>. HIDE DEF e, bs, wide, tab
<1>5. /\ Len(tabs') = 1 /\ Len(syms') = 1 /\ tabs'[1] = wide /\ syms'[1] = e
      /\ buckets'[1] = bs /\ 1..1 = {1}
  BY <1>1
<1>6. \A b \in Bucket : InChain(1, b, 1)' <=> b = Hash(EntryKey)
  BY <1>4, <1>5 DEF InChain
<1>7. ChainInv'
  <2>. SUFFICES ASSUME NEW b \in Bucket
                PROVE  InChain(1, b, 1)' <=> syms'[1].stab = 1 /\ Hash(syms'[1].key) = b
    BY <1>5 DEF ChainInv
  <2>. QED BY <1>2, <1>5, <1>6
<1>8. UniqueInv'
  BY <1>5 DEF UniqueInv
<1>9. RoomInv' /\ NspaceInv'
  <2>1. MAXSYMENT \in Nat /\ 2 < MAXSYMENT
    BY <1>1, ConstAssumption DEF Room
  <2>. QED BY <1>2, <1>5, <2>1 DEF RoomInv, NspaceInv
<1>10. ViaInv'
  BY <1>1 DEF ViaInv
<1>. QED BY <1>7, <1>8, <1>9, <1>10 DEF LookupInv

\* A use that ends the process says so with its phase.
LEMMA UsesVia == Uses => ViaInv'
<1>1. ASSUME NEW key, NEW sid, NEW via, via # "unknown", NEW args, NEW code,
             InBlock, Resolve(key, sid, via, args, code)
      PROVE  ViaInv'
  BY <1>1 DEF Resolve, Exit, InBlock, At, ViaInv, Ref
<1>. SUFFICES ASSUME Uses PROVE ViaInv'
  OBVIOUS
<1>2. PICK n, cate, args :
        /\ n \in Name
        /\ \/ anlys_assign_stmt(n) \/ anlys_for_or_read(n)
           \/ anlys_factor(n) \/ anlys_call(cate, n, args)
  BY DEF Uses
<1>3. CASE anlys_assign_stmt(n)
  BY <1>1, <1>3 DEF anlys_assign_stmt, ResolveName
<1>4. CASE anlys_for_or_read(n)
  BY <1>1, <1>4 DEF anlys_for_or_read, ResolveName
<1>5. CASE anlys_factor(n)
  BY <1>1, <1>5 DEF anlys_factor, ResolveName
<1>6. CASE anlys_call(cate, n, args)
  <2>1. /\ InBlock
        /\ \/ \E code : Exit(code)
           \/ \E key, sid, code : Resolve(key, sid, "call", args, code)
    BY <1>6 DEF anlys_call
  <2>2. ASSUME NEW code, Exit(code) PROVE ViaInv'
    BY <2>1, <2>2 DEF Exit, InBlock, At, ViaInv
  <2>. QED BY <1>1, <2>1, <2>2
<1>. QED BY <1>2, <1>3, <1>4, <1>5, <1>6

\* A declaration in the innermost scope.
LEMMA DeclareLookup ==
  ASSUME TypeInv, LookupInv, Len(scopes) >= 1, NEW name \in Name, NEW cate \in DeclCate,
         NEW type \in Type, NEW len \in Nat, DeclareHere(name, cate, type, len),
         UNCHANGED scopes, ViaInv'
  PROVE  LookupInv'
<1>. DEFINE key == <<name, <<>>>>
            new == Entry(tabs[top], top, key, cate, type, len)
            old == getsym(top, key)
<1>1. /\ top \in 1..Len(tabs) /\ key \in KnownKey
      /\ old # 0 => UNCHANGED <<tabs, buckets, syms>>
      /\ old = 0 => /\ Room /\ PutIn(top, key, new)
                    /\ tabs' = [tabs EXCEPT ![top] = Allocate(@, cate, len)]
  BY DeclareFacts
<1>2. new.stab = top /\ new.key = key
  BY DEF Entry
<1>. HIDE DEF new, key
<1>3. CASE old # 0
  BY <1>1, <1>3, KeepLookup
<1>4. CASE old = 0
  <2>1. /\ Len(tabs') = Len(tabs)
        /\ \A u \in 1..Len(tabs) : tabs'[u].nspace = tabs[u].nspace
    BY <1>1, <1>4, InvFacts, AllocFacts
  <2>. QED BY <1>1, <1>2, <1>4, <2>1, PutLookup
<1>. QED BY <1>3, <1>4

LEMMA LookupStep == TypeInv /\ ScopeInv /\ LookupInv /\ [Next]_vars => LookupInv'
<1>. SUFFICES ASSUME TypeInv, ScopeInv, LookupInv, [Next]_vars PROVE LookupInv'
  OBVIOUS
<1>0. ViaInv /\ TablesOK
  BY InvFacts DEF LookupInv
<1>1. CASE Declarations
  <2>1. ASSUME NEW n \in Name, NEW cate \in DeclCate, NEW type \in ScalarType,
               NEW len \in Nat, DeclaresBlock(n, cate, type, len)
        PROVE  LookupInv'
    <3>1. /\ pc \in {"const", "var"} /\ DeclareHere(n, cate, type, len)
          /\ UNCHANGED scopes /\ ViaInv'
      BY <2>1 DEF DeclaresBlock, ViaInv, NoUse, Ref
    <3>2. Len(scopes) >= 1 /\ type \in Type
      BY <3>1, ListFacts, ConstAssumption
    <3>. QED BY <3>1, <3>2, DeclareLookup
  <2>2. ASSUME NEW n \in Name, NEW cate \in ParamCate, NEW type \in ScalarType,
               anlys_para_list(n, cate, type)
        PROVE  LookupInv'
    <3>1. /\ pc = "head" /\ DeclareHere(n, cate, type, 0)
          /\ UNCHANGED scopes /\ ViaInv'
      BY <2>2 DEF anlys_para_list, At, ViaInv, NoUse, Ref
    <3>2. Len(scopes) >= 1 /\ type \in Type /\ cate \in DeclCate /\ 0 \in Nat
      BY <3>1, ListFacts, ConstAssumption DEF DeclCate
    <3>. QED BY <3>1, <3>2, DeclareLookup
  <2>. QED BY <1>0, <1>1, <2>1, <2>2, PgmLookup, HeadOpenLookup, HeadCloseLookup, DeclarationKinds
<1>2. CASE Generation
  <2>1. ASSUME NEW t \in DOMAIN tabs, NEW cate \in AllocCate, genir_alloc(t, cate)
        PROVE  LookupInv'
    <3>. DEFINE new == Entry(tabs[t], t, GenKey, cate, "VOID", 0)
    <3>1. /\ PutIn(t, GenKey, new) /\ Room
          /\ tabs' = [tabs EXCEPT ![t] = Allocate(@, cate, 0)]
          /\ phase = "IR" /\ UNCHANGED <<scopes, pc, phase, ref>>
      BY <2>1 DEF genir_alloc, symalloc, PutIn
    <3>2. new.stab = t /\ new.key = GenKey
      BY DEF Entry
    <3>. HIDE DEF new
    <3>3. t \in 1..Len(tabs) /\ GenKey \in KnownKey /\ 0 \in Nat
      BY <1>0, LenFacts DEF KnownKey
    <3>4. /\ Len(tabs') = Len(tabs)
          /\ \A u \in 1..Len(tabs) : tabs'[u].nspace = tabs[u].nspace
      BY <1>0, <3>1, <3>3, AllocFacts
    <3>5. scopes = <<>> /\ ViaInv'
      BY <1>0, <3>1 DEF ScopeInv, Nested, Accepted, ViaInv
    <3>. QED BY <3>1, <3>2, <3>3, <3>4, <3>5, PutLookup
  <2>2. CASE genir_end
    <3>1. UNCHANGED <<tabs, buckets, syms, scopes, pc, ref>> /\ phase = "IR"
      BY <2>2 DEF genir_end
    <3>2. ViaInv'
      BY <1>0, <3>1 DEF ViaInv
    <3>. QED BY <3>1, <3>2, KeepLookup
  <2>. QED BY <1>2, <2>1, <2>2 DEF Generation
<1>3. CASE Uses
  BY <1>3, UsesFacts, UsesVia, KeepLookup
<1>4. CASE anlys_pf_end \/ analysis_end
  <2>1. /\ UNCHANGED <<tabs, buckets, syms>> /\ Len(scopes) >= 1
        /\ pc' \in {"pf", "done"} /\ ref'.via = "none"
    <3>1. /\ UNCHANGED <<tabs, buckets, syms>> /\ pc \in {"const", "var", "pf", "stmt"}
          /\ pc' \in {"pf", "done"} /\ ref' = NoUse(ref.key)
      BY <1>4 DEF anlys_pf_end, analysis_end, scope_exit, At
    <3>2. Len(scopes) >= 1
      BY <3>1, ListFacts
    <3>. QED BY <3>1, <3>2 DEF NoUse, Ref
  <2>2. ViaInv' /\ scopes # <<>>
    BY <2>1 DEF ViaInv
  <2>. QED BY <2>1, <2>2, KeepLookup
<1>5. CASE putsym_panic
  <2>1. UNCHANGED <<tabs, buckets, syms, scopes, pc, ref>> /\ phase' = "EXIT"
    BY <1>5 DEF putsym_panic, Exit
  <2>2. ViaInv'
    BY <1>0, <2>1 DEF ViaInv
  <2>. QED BY <2>1, <2>2, KeepLookup
<1>6. CASE UNCHANGED vars
  <2>1. UNCHANGED <<tabs, buckets, syms, scopes, pc, phase, ref>>
    BY <1>6 DEF vars
  <2>2. ViaInv'
    BY <1>0, <2>1 DEF ViaInv
  <2>. QED BY <2>1, <2>2, KeepLookup
<1>. QED BY <1>1, <1>2, <1>3, <1>4, <1>5, <1>6 DEF Next

LEMMA LookupInit == Init => LookupInv
BY DEF Init, LookupInv, ChainInv, UniqueInv, RoomInv, NspaceInv, ViaInv, NoUse, Ref

-----------------------------------------------------------------------------
(* The tables implement lexical scoping: the refinement                    *)

\* The blocks as functions of the symbols, so that steps change arguments.
BlockOf(sy, t) ==
  LET decls == {e \in DOMAIN sy : sy[e].stab = t}
  IN  [k \in {sy[e].key : e \in decls} |-> CHOOSE e \in decls : sy[e].key = k]
EnvOf(sy, sc) == [i \in DOMAIN sc |-> BlockOf(sy, sc[i])]
OwnerOf(tb, sc) == [i \in DOMAIN sc |-> tb[sc[i]].funcsym]
TitleOf(tb, sc) == [i \in DOMAIN sc |-> Plain(tb[sc[i]].nspace)]
ModeOf(ph, via) ==
  CASE ph = "SEMANTIC" -> "analysing"
    [] ph = "EXIT" -> IF via = "unknown" THEN "unknown" ELSE "rejected"
    [] OTHER -> "accepted"

Env == EnvOf(syms, scopes)
Owner == OwnerOf(tabs, scopes)
Title == TitleOf(tabs, scopes)
Mode == ModeOf(phase, ref.via)

LEMMA Unfold ==
  /\ Env = [i \in DOMAIN scopes |-> Block(scopes[i])]
  /\ Owner = [i \in DOMAIN scopes |-> tabs[scopes[i]].funcsym]
  /\ Title = [i \in DOMAIN scopes |-> Plain(tabs[scopes[i]].nspace)]
BY DEF Env, EnvOf, BlockOf, Block, Owner, OwnerOf, Title, TitleOf

LEMMA ScopingInit == Init => Scoping!Init
<1>. SUFFICES ASSUME Init PROVE Scoping!Init
  OBVIOUS
<1>1. scopes = <<>> /\ phase = "SEMANTIC" /\ errnum = 0 /\ ref = NoUse(EntryKey)
  BY DEF Init
<1>. QED BY <1>1 DEF Scoping!Init, NoUse, Ref, DeclKey

\* What a block is: it has the keys of its table's symbols, and if no two of
\* them share one, each key's symbol.
LEMMA BlockKeys ==
  ASSUME NEW sy, NEW t
  PROVE  /\ \A k : k \in DOMAIN BlockOf(sy, t) <=>
                     \E e \in DOMAIN sy : sy[e].stab = t /\ sy[e].key = k
         /\ BlockOf(sy, t) = [k \in DOMAIN BlockOf(sy, t) |-> BlockOf(sy, t)[k]]
BY DEF BlockOf

Apart(sy) ==
  \A d, e \in DOMAIN sy : sy[d].stab = sy[e].stab /\ sy[d].key = sy[e].key => d = e

LEMMA BlockAt ==
  ASSUME NEW sy, Apart(sy), NEW e \in DOMAIN sy
  PROVE  BlockOf(sy, sy[e].stab)[sy[e].key] = e
<1>. DEFINE t == sy[e].stab
            k == sy[e].key
            decls == {d \in DOMAIN sy : sy[d].stab = t}
            d == CHOOSE d \in decls : sy[d].key = k
<1>1. k \in {sy[c].key : c \in decls} /\ \E c \in decls : sy[c].key = k
  OBVIOUS
<1>2. d \in decls /\ sy[d].key = k
  BY <1>1
<1>3. d = e
  BY <1>2 DEF Apart
<1>4. BlockOf(sy, t)[k] = d
  BY <1>1 DEF BlockOf
<1>. QED BY <1>3, <1>4

\* Symbols of the same tables and keys make the same blocks.
LEMMA BlockSame ==
  ASSUME NEW sy, NEW sz, NEW t, Apart(sy), Apart(sz),
         DOMAIN sz = DOMAIN sy,
         \A e \in DOMAIN sy : sz[e].stab = sy[e].stab /\ sz[e].key = sy[e].key
  PROVE  BlockOf(sz, t) = BlockOf(sy, t)
<1>1. \A k : k \in DOMAIN BlockOf(sz, t) <=> k \in DOMAIN BlockOf(sy, t)
  BY BlockKeys
<1>2. ASSUME NEW k \in DOMAIN BlockOf(sy, t)
      PROVE  BlockOf(sz, t)[k] = BlockOf(sy, t)[k]
  <2>1. PICK e \in DOMAIN sy : sy[e].stab = t /\ sy[e].key = k
    BY <1>2, BlockKeys
  <2>2. BlockOf(sy, t)[k] = e
    BY <2>1, BlockAt
  <2>3. BlockOf(sz, t)[k] = e
    BY <2>1, BlockAt
  <2>. QED BY <2>2, <2>3
<1>3. DOMAIN BlockOf(sz, t) = DOMAIN BlockOf(sy, t)
  BY <1>1
<1>. QED BY <1>2, <1>3, BlockKeys

\* No symbols make an empty block.
LEMMA BlockNone ==
  ASSUME NEW sy, NEW t, \A e \in DOMAIN sy : sy[e].stab # t
  PROVE  BlockOf(sy, t) = <<>>
<1>1. DOMAIN BlockOf(sy, t) = {}
  <2>1. \A k : k \notin DOMAIN BlockOf(sy, t)
    BY BlockKeys
  <2>. QED BY <2>1
<1>2. DOMAIN <<>> = {} /\ <<>> = [k \in {} |-> 0]
  OBVIOUS
<1>. QED BY <1>1, <1>2, BlockKeys

BindTo(f, k, d) == [x \in DOMAIN f \cup {k} |-> IF x = k THEN d ELSE f[x]]

\* One symbol more binds its key in its table's block and nothing else.
LEMMA BlockAdd ==
  ASSUME NEW sy, NEW sz, NEW m, Apart(sz),
         DOMAIN sz = DOMAIN sy \cup {m}, m \notin DOMAIN sy,
         \A e \in DOMAIN sy : sz[e].stab = sy[e].stab /\ sz[e].key = sy[e].key
  PROVE  /\ BlockOf(sz, sz[m].stab) = BindTo(BlockOf(sy, sz[m].stab), sz[m].key, m)
         /\ \A u : u # sz[m].stab => BlockOf(sz, u) = BlockOf(sy, u)
<1>1. Apart(sy)
  BY DEF Apart
<1>. DEFINE v == sz[m].stab
            key == sz[m].key
<1>2. \A u, k : k \in DOMAIN BlockOf(sz, u) <=>
                  k \in DOMAIN BlockOf(sy, u) \/ (u = v /\ k = key)
  BY BlockKeys
<1>3. ASSUME NEW u, NEW k \in DOMAIN BlockOf(sy, u), k # key \/ u # v
      PROVE  BlockOf(sz, u)[k] = BlockOf(sy, u)[k]
  <2>1. PICK e \in DOMAIN sy : sy[e].stab = u /\ sy[e].key = k
    BY <1>3, BlockKeys
  <2>2. BlockOf(sy, u)[k] = e
    BY <1>1, <2>1, BlockAt
  <2>3. BlockOf(sz, u)[k] = e
    BY <2>1, BlockAt
  <2>. QED BY <2>2, <2>3
<1>4. BlockOf(sz, v)[key] = m
  BY BlockAt
<1>. HIDE DEF v, key
<1>5. BlockOf(sz, v) = BindTo(BlockOf(sy, v), key, m)
  <2>. DEFINE new == BlockOf(sz, v)
              old == BlockOf(sy, v)
  <2>1. DOMAIN new = DOMAIN old \cup {key}
    BY <1>2
  <2>2. \A k \in DOMAIN new : new[k] = IF k = key THEN m ELSE old[k]
    BY <1>3, <1>4, <2>1
  <2>3. new = [k \in DOMAIN new |-> new[k]]
    BY BlockKeys
  <2>. HIDE DEF new, old
  <2>4. new = [k \in DOMAIN old \cup {key} |-> IF k = key THEN m ELSE old[k]]
    BY <2>1, <2>2, <2>3
  <2>. QED BY <2>4 DEF BindTo, new, old
<1>6. ASSUME NEW u, u # v PROVE BlockOf(sz, u) = BlockOf(sy, u)
  <2>1. DOMAIN BlockOf(sz, u) = DOMAIN BlockOf(sy, u)
    BY <1>2, <1>6
  <2>2. \A k \in DOMAIN BlockOf(sy, u) : BlockOf(sz, u)[k] = BlockOf(sy, u)[k]
    BY <1>3, <1>6
  <2>. QED BY <2>1, <2>2, BlockKeys
<1>. QED BY <1>5, <1>6 DEF v, key

\* The stack of blocks.
LEMMA EnvFacts ==
  ASSUME TablesOK
  PROVE  /\ Len(scopes) \in Nat /\ DOMAIN Env = 1..Len(scopes) /\ Len(Env) = Len(scopes)
         /\ \A i \in 1..Len(scopes) : Env[i] = BlockOf(syms, scopes[i])
         /\ Env # <<>> <=> scopes # <<>>
         /\ DOMAIN Owner = 1..Len(scopes) /\ DOMAIN Title = 1..Len(scopes)
         /\ \A i \in 1..Len(scopes) : /\ Owner[i] = tabs[scopes[i]].funcsym
                                      /\ Title[i] = Plain(tabs[scopes[i]].nspace)
<1>1. scopes \in Seq(Nat) /\ Len(scopes) \in Nat /\ DOMAIN scopes = 1..Len(scopes)
  BY DEF TablesOK
<1>2. Env = [i \in 1..Len(scopes) |-> BlockOf(syms, scopes[i])]
  BY <1>1 DEF Env, EnvOf
<1>3. DOMAIN Env = 1..Len(scopes) /\ Len(Env) = Len(scopes)
  BY <1>1, <1>2
<1>4. Env # <<>> <=> scopes # <<>>
  <2>1. Len(scopes) = 0 => scopes = <<>>
    BY <1>1, EmptySeq
  <2>2. Env = <<>> => Len(Env) = 0
    OBVIOUS
  <2>3. scopes = <<>> => Env = <<>>
    BY <1>2
  <2>. QED BY <1>3, <2>1, <2>2, <2>3
<1>. QED BY <1>1, <1>2, <1>3, <1>4 DEF Owner, OwnerOf, Title, TitleOf

\* getsym reads the block of its table.
LEMMA BlockGet ==
  ASSUME TablesOK, ChainInv, UniqueInv, scopes # <<>>,
         NEW t \in 1..Len(tabs), NEW key \in KnownKey
  PROVE  /\ key \in DOMAIN BlockOf(syms, t) <=> getsym(t, key) # 0
         /\ getsym(t, key) # 0 => BlockOf(syms, t)[key] = getsym(t, key)
<1>1. DOMAIN syms = 1..Len(syms)
  BY LenFacts
<1>2. Apart(syms)
  BY <1>1 DEF UniqueInv, Apart
<1>3. CASE getsym(t, key) # 0
  <2>1. /\ getsym(t, key) \in DOMAIN syms
        /\ syms[getsym(t, key)].stab = t /\ syms[getsym(t, key)].key = key
    BY <1>1, <1>3, GetsymIs
  <2>2. key \in DOMAIN BlockOf(syms, t)
    BY <2>1, BlockKeys
  <2>3. BlockOf(syms, t)[key] = getsym(t, key)
    BY <1>2, <2>1, BlockAt
  <2>. QED BY <1>3, <2>2, <2>3
<1>4. CASE getsym(t, key) = 0
  <2>1. \A e \in DOMAIN syms : ~ (syms[e].stab = t /\ syms[e].key = key)
    BY <1>1, <1>4, GetsymIs
  <2>2. key \notin DOMAIN BlockOf(syms, t)
    BY <2>1, BlockKeys
  <2>. QED BY <1>4, <2>2
<1>. QED BY <1>3, <1>4

\* symfind finds what is visible.
LEMMA FoundIsVisible ==
  ASSUME TablesOK, ChainInv, UniqueInv, scopes # <<>>, NEW key \in KnownKey
  PROVE  Scoping!Visible(key) = symfind(key)
<1>. DEFINE blocks == {i \in DOMAIN Env : key \in DOMAIN Env[i]}
            last == CHOOSE i \in blocks : \A j \in blocks : i >= j
<1>1. Scoping!Visible(key) = IF blocks = {} THEN 0 ELSE Env[last][key]
  BY DEF Scoping!Visible, Scoping!Max, Env, EnvOf, BlockOf, Block
<1>2. /\ DOMAIN Env = 1..Len(scopes) /\ Len(scopes) \in Nat
      /\ \A i \in 1..Len(scopes) : Env[i] = BlockOf(syms, scopes[i])
      /\ \A i \in 1..Len(scopes) : scopes[i] \in 1..Len(tabs)
  BY EnvFacts, LenFacts
<1>3. \A i \in 1..Len(scopes) :
        /\ i \in blocks <=> getsym(scopes[i], key) # 0
        /\ getsym(scopes[i], key) # 0 => Env[i][key] = getsym(scopes[i], key)
  BY <1>2, BlockGet
<1>4. blocks \subseteq 1..Len(scopes)
  BY <1>2
<1>. HIDE DEF blocks
<1>5. CASE symfind(key) = 0
  <2>1. blocks = {}
    BY <1>3, <1>4, <1>5, SymfindFound
  <2>. QED BY <1>1, <1>5, <2>1
<1>6. CASE symfind(key) # 0
  <2>1. PICK i \in 1..Len(scopes) :
          /\ symfind(key) = getsym(scopes[i], key)
          /\ \A j \in 1..Len(scopes) : getsym(scopes[j], key) # 0 => i >= j
    BY <1>6, SymfindFound
  <2>2. i \in blocks /\ \A j \in blocks : i >= j
    BY <1>3, <1>4, <1>6, <2>1
  <2>3. last \in blocks /\ \A j \in blocks : last >= j
    BY <2>2
  <2>. HIDE DEF last
  <2>4. last >= i /\ i >= last /\ last \in Nat /\ i \in Nat
    BY <1>2, <1>4, <2>2, <2>3
  <2>5. last = i
    BY <2>4
  <2>6. Env[i][key] = symfind(key)
    BY <1>3, <1>6, <2>1
  <2>. QED BY <1>1, <2>2, <2>5, <2>6
<1>. QED BY <1>5, <1>6

\* A step that changes no key and no table of a symbol leaves the blocks.
LEMMA SameEnv ==
  ASSUME TypeInv, TypeInv', UniqueInv, UniqueInv', scopes # <<>>, UNCHANGED scopes,
         Len(syms') = Len(syms),
         \A e \in 1..Len(syms) :
           syms'[e].stab = syms[e].stab /\ syms'[e].key = syms[e].key
  PROVE  Env' = Env
<1>1. /\ DOMAIN syms = 1..Len(syms) /\ DOMAIN syms' = 1..Len(syms)
      /\ DOMAIN scopes = 1..Len(scopes)
  BY DEF TypeInv, TypeOK, TablesOK
<1>2. Apart(syms) /\ Apart(syms')
  BY <1>1 DEF UniqueInv, Apart
<1>3. \A t : BlockOf(syms', t) = BlockOf(syms, t)
  BY <1>1, <1>2, BlockSame
<1>. QED BY <1>3 DEF Env, EnvOf

\* A new symbol of an open scope is bound in the scope's block only.
LEMMA PutEnv ==
  ASSUME TypeInv, TypeInv', Nested, UniqueInv', scopes # <<>>, UNCHANGED scopes,
         NEW l \in 1..Len(scopes), NEW key \in KnownKey, NEW new,
         new.stab = scopes[l], new.key = key, PutIn(scopes[l], key, new)
  PROVE  Env' = [Env EXCEPT ![l] = BindTo(Env[l], key, Len(syms) + 1)]
<1>. DEFINE n == Len(syms) + 1
            t == scopes[l]
<1>1. TablesOK /\ t \in 1..Len(tabs) /\ Len(syms) \in Nat /\ Len(scopes) \in Nat
  BY InvFacts, ListFacts
<1>2. /\ n \in Nat /\ Len(syms') = n /\ syms'[n] = new
      /\ \A d \in 1..Len(syms) : syms'[d] = syms[d]
  BY <1>1, PutFacts
<1>3. /\ DOMAIN syms = 1..Len(syms) /\ DOMAIN syms' = 1..n
      /\ DOMAIN scopes = 1..Len(scopes)
  BY <1>2 DEF TypeInv, TypeOK, TablesOK
<1>4. /\ 1..n = 1..Len(syms) \cup {n} /\ n \notin 1..Len(syms)
  BY <1>1
<1>5. Apart(syms')
  BY <1>2, <1>3 DEF UniqueInv, Apart
<1>. HIDE DEF n, t
<1>6. /\ BlockOf(syms', t) = BindTo(BlockOf(syms, t), key, n)
      /\ \A u : u # t => BlockOf(syms', u) = BlockOf(syms, u)
  <2>1. syms'[n].key = key /\ syms'[n].stab = t
    BY <1>2 DEF t
  <2>2. \A e \in DOMAIN syms :
          syms'[e].stab = syms[e].stab /\ syms'[e].key = syms[e].key
    BY <1>2, <1>3
  <2>3. DOMAIN syms' = DOMAIN syms \cup {n} /\ n \notin DOMAIN syms
    BY <1>3, <1>4
  <2>4. /\ BlockOf(syms', syms'[n].stab) = BindTo(BlockOf(syms, syms'[n].stab), syms'[n].key, n)
        /\ \A u : u # syms'[n].stab => BlockOf(syms', u) = BlockOf(syms, u)
    BY <1>5, <2>2, <2>3, BlockAdd
  <2>. QED BY <2>1, <2>4
<1>7. \A i \in 1..Len(scopes) : scopes[i] = t <=> i = l
  <2>. SUFFICES ASSUME NEW i \in 1..Len(scopes), i # l PROVE scopes[i] # t
    BY DEF t
  <2>1. i < l \/ l < i
    BY <1>1
  <2>2. scopes[i] < scopes[l] \/ scopes[l] < scopes[i]
    BY <2>1 DEF Nested
  <2>3. scopes[i] \in Nat /\ scopes[l] \in Nat
    BY <1>1, LenFacts
  <2>. QED BY <2>2, <2>3 DEF t
<1>8. /\ Env = [i \in 1..Len(scopes) |-> BlockOf(syms, scopes[i])]
      /\ Env' = [i \in 1..Len(scopes) |-> BlockOf(syms', scopes[i])]
  BY <1>3 DEF Env, EnvOf
<1>9. /\ DOMAIN Env = 1..Len(scopes) /\ DOMAIN Env' = 1..Len(scopes)
      /\ \A i \in 1..Len(scopes) : /\ Env[i] = BlockOf(syms, scopes[i])
                                   /\ Env'[i] = BlockOf(syms', scopes[i])
  BY <1>8
<1>10. Env'[l] = BindTo(Env[l], key, n)
  BY <1>6, <1>7, <1>9
<1>11. \A i \in 1..Len(scopes) : i # l => Env'[i] = Env[i]
  BY <1>6, <1>7, <1>9
<1>12. Env' = [Env EXCEPT ![l] = BindTo(Env[l], key, n)]
  <2>. DEFINE bound == BindTo(Env[l], key, n)
  <2>1. Env'[l] = bound
    BY <1>10
  <2>2. /\ Env = [i \in 1..Len(scopes) |-> Env[i]]
        /\ Env' = [i \in 1..Len(scopes) |-> Env'[i]]
    BY <1>8, <1>9
  <2>. HIDE DEF bound
  <2>3. Env' = [Env EXCEPT ![l] = bound]
    BY <1>9, <1>11, <2>1, <2>2
  <2>. QED BY <2>3 DEF bound
<1>. QED BY <1>12 DEF n

\* The actions of LexicalScope in terms of the tables.
LEMMA MapEnterProgram ==
  ASSUME NEW k, NEW d, phase = "SEMANTIC", phase' = "SEMANTIC", Env = <<>>,
         Env' = <<BindTo(<<>>, k, d)>>, Owner' = << 0 >>, Title' = <<k>>,
         ref.sid = 0, UNCHANGED <<errnum, ref>>
  PROVE  Scoping!EnterProgram(k, d)
BY DEF Scoping!EnterProgram, Scoping!Bind, BindTo, Env, EnvOf, BlockOf, Block,
       Owner, OwnerOf, Title, TitleOf

LEMMA MapEnterRoutine ==
  ASSUME NEW k, phase = "SEMANTIC", phase' = "SEMANTIC", Env # <<>>,
         Env' = Append(Env, <<>>), Owner' = Append(Owner, 0), Title' = Append(Title, k),
         ref' = NoUse(k), UNCHANGED errnum
  PROVE  Scoping!EnterRoutine(k)
BY DEF Scoping!EnterRoutine, Env, EnvOf, BlockOf, Block, Owner, OwnerOf, Title, TitleOf,
       NoUse, Ref

\* A key is bound in a block, or is there and stays.
BoundAt(l, k, d) ==
  /\ k \in DOMAIN Env[l] => errnum' = DUPSYM /\ Env' = Env
  /\ k \notin DOMAIN Env[l] =>
       errnum' = errnum /\ Env' = [Env EXCEPT ![l] = BindTo(Env[l], k, d)]

LEMMA MapBindAt ==
  ASSUME NEW l, NEW k, NEW d, BoundAt(l, k, d)
  PROVE  Scoping!BindAt(l, k, d)
<1>1. Scoping!BindAt(l, k, d) =
        IF k \in DOMAIN Env[l]
        THEN (errnum' > 0) = TRUE /\ Env' = Env
        ELSE Env' = [Env EXCEPT ![l] = BindTo(@, k, d)] /\ (errnum' > 0) = (errnum > 0)
  BY DEF Scoping!BindAt, Scoping!Bind, BindTo, Env, EnvOf, BlockOf, Block
<1>2. CASE k \in DOMAIN Env[l]
  <2>1. errnum' > 0 /\ Env' = Env
    BY <1>2 DEF BoundAt, DUPSYM
  <2>. QED BY <1>1, <1>2, <2>1
<1>3. CASE k \notin DOMAIN Env[l]
  <2>1. errnum' = errnum /\ Env' = [Env EXCEPT ![l] = BindTo(@, k, d)]
    BY <1>3 DEF BoundAt
  <2>. QED BY <1>1, <1>3, <2>1
<1>. QED BY <1>2, <1>3

LEMMA MapDeclare ==
  ASSUME NEW k, NEW d, phase = "SEMANTIC", phase' = "SEMANTIC", Env # <<>>,
         BoundAt(Len(Env), k, d), ref' = NoUse(k), Owner' = Owner, Title' = Title
  PROVE  Scoping!Declare(k, d)
<1>1. Scoping!BindAt(Len(Env), k, d)
  BY MapBindAt
<1>. QED BY <1>1 DEF Scoping!Declare, Env, EnvOf, BlockOf, Block, Owner, OwnerOf, Title, TitleOf, NoUse, Ref

LEMMA MapDeclareRoutine ==
  ASSUME NEW k, NEW d, phase = "SEMANTIC", phase' = "SEMANTIC", Len(Env) > 1,
         Owner[Len(Env)] = 0, BoundAt(Len(Env) - 1, k, d), ref' = NoUse(k),
         Owner' = [Owner EXCEPT ![Len(Env)] = Env'[Len(Env) - 1][k]], Title' = Title
  PROVE  Scoping!DeclareRoutine(k, d)
<1>1. Scoping!BindAt(Len(Env) - 1, k, d)
  BY MapBindAt
<1>. QED BY <1>1 DEF Scoping!DeclareRoutine, Env, EnvOf, BlockOf, Block, Owner, OwnerOf, Title, TitleOf, NoUse, Ref

\* The steps of a behaviour that leave the tables and the list of scopes.
LEMMA KeptScopes ==
  ASSUME UNCHANGED <<tabs, syms, scopes>>
  PROVE  Env' = Env /\ Owner' = Owner /\ Title' = Title
BY DEF Env, EnvOf, BlockOf, Owner, OwnerOf, Title, TitleOf

LEMMA MapUse ==
  ASSUME NEW k, phase = "SEMANTIC", Env # <<>>, UNCHANGED <<tabs, syms, scopes>>,
         ref'.key = k, ref'.sid = Scoping!Visible(k),
         Scoping!Visible(k) # 0 => errnum' = errnum /\ phase' = "SEMANTIC",
         Scoping!Visible(k) = 0 => errnum' > 0 /\ phase' = "EXIT" /\ ref'.via = "unknown"
  PROVE  Scoping!Use(k)
BY DEF Scoping!Use, Env, EnvOf, BlockOf, Block

LEMMA MapUseOwner ==
  ASSUME phase = "SEMANTIC", phase' = "SEMANTIC", Env # <<>>,
         UNCHANGED <<tabs, syms, scopes, errnum>>, Owner[Len(Env)] # 0,
         ref'.key = Title[Len(Env)], ref'.sid = Owner[Len(Env)]
  PROVE  Scoping!UseOwner
<1>1. /\ (CASE phase = "SEMANTIC" -> "analysing"
             [] phase = "EXIT" -> IF ref.via = "unknown" THEN "unknown" ELSE "rejected"
             [] OTHER -> "accepted") = "analysing"
      /\ (CASE phase' = "SEMANTIC" -> "analysing"
             [] phase' = "EXIT" -> IF ref'.via = "unknown" THEN "unknown" ELSE "rejected"
             [] OTHER -> "accepted") = "analysing"
  OBVIOUS
<1>2. Env' = Env /\ Owner' = Owner /\ Title' = Title
  BY KeptScopes
<1>. QED BY <1>1, <1>2, Zenon DEF Scoping!UseOwner,
         Env, EnvOf, BlockOf, Block, Owner, OwnerOf, Title, TitleOf

LEMMA MapAbort ==
  ASSUME phase # "EXIT", phase' = "EXIT", ref'.via # "unknown",
         UNCHANGED <<tabs, syms, scopes>>, errnum' > 0, ref'.sid \in {0, ref.sid},
         ref'.key = ref.key \/ (ref'.key \in DeclKey /\ Scoping!Visible(ref'.key) # 0)
  PROVE  Scoping!Abort
BY DEF Scoping!Abort, Block

\* Sequences without their last element, and with one more.
LEMMA FrontIs ==
  ASSUME NEW S, NEW s \in Seq(S), Len(s) >= 1
  PROVE  SubSeq(s, 1, Len(s) - 1) = [i \in 1..Len(s) - 1 |-> s[i]]
<1>. DEFINE l == Len(s) - 1
<1>1. /\ l \in Nat /\ l \in Int /\ 1 \in Int /\ \A i \in 1..l : s[i] \in S
      /\ l - 1 + 1 = l
  OBVIOUS
<1>. HIDE DEF l
<1>2. /\ SubSeq(s, 1, l) \in Seq(S)
      /\ Len(SubSeq(s, 1, l)) = IF 1 <= l THEN l - 1 + 1 ELSE 0
      /\ \A i \in 1..l - 1 + 1 : SubSeq(s, 1, l)[i] = s[1 + i - 1]
  BY <1>1, SubSeqProperties
<1>3. Len(SubSeq(s, 1, l)) = l /\ \A i \in 1..l : SubSeq(s, 1, l)[i] = s[i]
  BY <1>1, <1>2
<1>4. SubSeq(s, 1, l) = [i \in 1..l |-> s[i]]
  BY <1>2, <1>3
<1>. QED BY <1>4 DEF l

LEMMA ListedSeq ==
  ASSUME NEW n \in Nat, NEW f, f = [i \in 1..n |-> f[i]]
  PROVE  /\ f \in Seq({f[i] : i \in 1..n}) /\ Len(f) = n
         /\ n >= 1 => SubSeq(f, 1, n - 1) = [i \in 1..n - 1 |-> f[i]]
         /\ \A x : Append(f, x) = [i \in 1..n + 1 |-> IF i = n + 1 THEN x ELSE f[i]]
<1>1. f \in [1..n -> {f[i] : i \in 1..n}]
  OBVIOUS
<1>2. f \in Seq({f[i] : i \in 1..n}) /\ Len(f) = n
  BY <1>1
<1>3. n >= 1 => SubSeq(f, 1, n - 1) = [i \in 1..n - 1 |-> f[i]]
  BY <1>2, FrontIs
<1>4. ASSUME NEW x
      PROVE  Append(f, x) = [i \in 1..n + 1 |-> IF i = n + 1 THEN x ELSE f[i]]
  BY <1>2
<1>. QED BY <1>2, <1>3, <1>4

LEMMA StackShape ==
  ASSUME TablesOK
  PROVE  /\ Env = [i \in 1..Len(scopes) |-> Env[i]]
         /\ Owner = [i \in 1..Len(scopes) |-> Owner[i]]
         /\ Title = [i \in 1..Len(scopes) |-> Title[i]]
<1>1. DOMAIN scopes = 1..Len(scopes)
  BY LenFacts
<1>. QED BY <1>1 DEF Env, EnvOf, Owner, OwnerOf, Title, TitleOf

\* Leaving a scope drops the last block.
LEMMA LeaveStacks ==
  ASSUME TypeInv, TypeInv', Len(scopes) >= 1, scope_exit
  PROVE  /\ Env' = SubSeq(Env, 1, Len(Env) - 1) /\ Len(Env) = Len(scopes)
         /\ Owner' = SubSeq(Owner, 1, Len(Owner) - 1)
         /\ Title' = SubSeq(Title, 1, Len(Title) - 1)
<1>1. /\ TablesOK /\ scopes \in Seq(Nat) /\ Len(scopes) \in Nat
      /\ scopes' = SubSeq(scopes, 1, Len(scopes) - 1) /\ UNCHANGED <<tabs, syms>>
      /\ Len(scopes) - 1 \in Nat
  BY InvFacts, LenFacts DEF scope_exit, TablesOK
<1>2. scopes' = [i \in 1..Len(scopes) - 1 |-> scopes[i]]
  BY <1>1, FrontIs
<1>3. /\ Env' = [i \in 1..Len(scopes) - 1 |-> BlockOf(syms, scopes[i])]
      /\ Owner' = [i \in 1..Len(scopes) - 1 |-> tabs[scopes[i]].funcsym]
      /\ Title' = [i \in 1..Len(scopes) - 1 |-> Plain(tabs[scopes[i]].nspace)]
  BY <1>1, <1>2 DEF Env, EnvOf, Owner, OwnerOf, Title, TitleOf
<1>4. \A i \in 1..Len(scopes) - 1 :
        /\ Env[i] = BlockOf(syms, scopes[i]) /\ Owner[i] = tabs[scopes[i]].funcsym
        /\ Title[i] = Plain(tabs[scopes[i]].nspace)
  <2>1. \A i \in 1..Len(scopes) - 1 : i \in 1..Len(scopes)
    BY <1>1
  <2>. QED BY <1>1, <2>1, EnvFacts
<1>5. /\ SubSeq(Env, 1, Len(scopes) - 1) = [i \in 1..Len(scopes) - 1 |-> Env[i]]
      /\ SubSeq(Owner, 1, Len(scopes) - 1) = [i \in 1..Len(scopes) - 1 |-> Owner[i]]
      /\ SubSeq(Title, 1, Len(scopes) - 1) = [i \in 1..Len(scopes) - 1 |-> Title[i]]
      /\ Len(Env) = Len(scopes) /\ Len(Owner) = Len(scopes) /\ Len(Title) = Len(scopes)
  BY <1>1, StackShape, ListedSeq
<1>6. Env' = [i \in 1..Len(scopes) - 1 |-> Env[i]]
  BY <1>3, <1>4
<1>7. Owner' = [i \in 1..Len(scopes) - 1 |-> Owner[i]]
  BY <1>3, <1>4
<1>8. Title' = [i \in 1..Len(scopes) - 1 |-> Title[i]]
  BY <1>3, <1>4
<1>. QED BY <1>5, <1>6, <1>7, <1>8

MapInv == TypeInv /\ ScopeInv /\ LookupInv

LEMMA MapFacts ==
  ASSUME MapInv
  PROVE  /\ TypeInv /\ TablesOK /\ Nested /\ ChainInv /\ UniqueInv /\ RoomInv
         /\ NspaceInv /\ ViaInv
BY InvFacts DEF MapInv, ScopeInv, LookupInv

\* The keys of declarations and uses are the abstract ones.
LEMMA NamedKey ==
  ASSUME NEW name \in Name, NEW f, <<name, f>> \in KnownKey
  PROVE  <<name, f>> \in DeclKey
BY ConstAssumption DEF KnownKey, DeclKey, GenKey

\* The symbols there are, and the next one while there is room.
LEMMA DeclFacts ==
  ASSUME MapInv
  PROVE  /\ \A e \in 1..Len(syms) : e \in 1..MAXSYMENT - 2
         /\ Room => Len(syms) + 1 \in 1..MAXSYMENT - 2
<1>1. RoomInv /\ Len(syms) \in Nat /\ MAXSYMENT \in Nat
  BY MapFacts, ListFacts, ConstAssumption
<1>. QED BY <1>1 DEF RoomInv, Room

\* A declaration in a block that has the key, or gets it.
LEMMA BoundOld ==
  ASSUME MapInv, MapInv', scopes # <<>>, UNCHANGED scopes,
         NEW l \in 1..Len(scopes), NEW key \in KnownKey,
         getsym(scopes[l], key) # 0, errnum' = DUPSYM,
         Len(syms') = Len(syms),
         \A e \in 1..Len(syms) :
           syms'[e].stab = syms[e].stab /\ syms'[e].key = syms[e].key
  PROVE  /\ BoundAt(l, key, getsym(scopes[l], key))
         /\ Env'[l][key] = getsym(scopes[l], key)
         /\ getsym(scopes[l], key) \in 1..MAXSYMENT - 2
<1>1. TablesOK /\ ChainInv /\ UniqueInv /\ TypeInv /\ scopes[l] \in 1..Len(tabs)
  BY MapFacts, ListFacts
<1>2. TypeInv' /\ UniqueInv'
  BY DEF MapInv, LookupInv
<1>3. Env' = Env
  BY <1>1, <1>2, SameEnv
<1>4. Env[l] = BlockOf(syms, scopes[l])
  BY <1>1, EnvFacts
<1>5. key \in DOMAIN Env[l] /\ Env[l][key] = getsym(scopes[l], key)
  BY <1>1, <1>4, BlockGet
<1>6. getsym(scopes[l], key) \in 1..Len(syms)
  BY <1>1, GetsymIs
<1>. QED BY <1>3, <1>5, <1>6, DeclFacts DEF BoundAt

LEMMA BoundNew ==
  ASSUME MapInv, MapInv', scopes # <<>>, UNCHANGED <<scopes, errnum>>,
         NEW l \in 1..Len(scopes), NEW key \in KnownKey, NEW new,
         getsym(scopes[l], key) = 0, Room,
         new.stab = scopes[l], new.key = key, PutIn(scopes[l], key, new)
  PROVE  /\ BoundAt(l, key, Len(syms) + 1)
         /\ Env'[l][key] = Len(syms) + 1
         /\ Len(syms) + 1 \in 1..MAXSYMENT - 2
<1>1. TablesOK /\ ChainInv /\ UniqueInv /\ Nested /\ TypeInv /\ scopes[l] \in 1..Len(tabs)
  BY MapFacts, ListFacts
<1>2. TypeInv' /\ UniqueInv'
  BY DEF MapInv, LookupInv
<1>3. Env' = [Env EXCEPT ![l] = BindTo(Env[l], key, Len(syms) + 1)]
  BY <1>1, <1>2, PutEnv
<1>4. Env[l] = BlockOf(syms, scopes[l]) /\ l \in DOMAIN Env
  BY <1>1, EnvFacts
<1>5. key \notin DOMAIN Env[l]
  BY <1>1, <1>4, BlockGet
<1>6. Env'[l][key] = Len(syms) + 1
  BY <1>3, <1>4 DEF BindTo
<1>. QED BY <1>3, <1>5, <1>6, DeclFacts DEF BoundAt

LEMMA MapDeclares ==
  ASSUME MapInv, MapInv', Len(scopes) >= 1, NEW name \in Name, NEW cate \in DeclCate,
         NEW type \in Type, NEW len \in Nat, DeclareHere(name, cate, type, len),
         UNCHANGED scopes, phase = "SEMANTIC", phase' = "SEMANTIC", ref' = NoUse(Plain(name))
  PROVE  Scoping!Next
<1>. DEFINE key == <<name, <<>>>>
            new == Entry(tabs[top], top, key, cate, type, len)
            old == getsym(top, key)
            l == Len(scopes)
<1>1. TypeInv /\ TablesOK /\ l \in Nat /\ l \in 1..l /\ top = scopes[l]
  BY MapFacts, ListFacts DEF top
<1>2. /\ top \in 1..Len(tabs) /\ key \in KnownKey
      /\ old # 0 => errnum' = DUPSYM /\ UNCHANGED <<tabs, buckets, syms>>
      /\ old = 0 => /\ errnum' = errnum /\ Room /\ PutIn(top, key, new)
                    /\ tabs' = [tabs EXCEPT ![top] = Allocate(@, cate, len)]
  BY <1>1, DeclareFacts
<1>3. new.stab = top /\ new.key = key
  BY DEF Entry
<1>4. key \in DeclKey /\ ref' = NoUse(key)
  BY <1>2, NamedKey DEF Plain
<1>. HIDE DEF new, key
<1>5. Len(Env) = l /\ Env # <<>> /\ scopes # <<>>
  BY <1>1, EnvFacts
<1>6. Owner' = Owner /\ Title' = Title
  <2>1. \A u \in 1..Len(tabs) :
          tabs'[u].funcsym = tabs[u].funcsym /\ tabs'[u].nspace = tabs[u].nspace
    BY <1>1, <1>2, AllocFacts
  <2>2. DOMAIN scopes = 1..l /\ \A i \in 1..l : scopes[i] \in 1..Len(tabs)
    BY <1>1, LenFacts
  <2>. QED BY <2>1, <2>2 DEF Owner, OwnerOf, Title, TitleOf
<1>7. \E d \in 1..MAXSYMENT - 2 : BoundAt(l, key, d)
  <2>1. CASE old # 0
    BY <1>1, <1>2, <1>5, <2>1, BoundOld
  <2>2. CASE old = 0
    BY <1>1, <1>2, <1>3, <1>5, <2>2, BoundNew
  <2>. QED BY <2>1, <2>2
<1>8. PICK d \in 1..MAXSYMENT - 2 : BoundAt(l, key, d)
  BY <1>7
<1>9. Scoping!Declare(key, d)
  BY <1>4, <1>5, <1>6, <1>8, MapDeclare
<1>. QED BY <1>4, <1>9 DEF Scoping!Next

LEMMA MapPgm ==
  ASSUME MapInv, MapInv', anlys_pgm
  PROVE  Scoping!Next
<1>. DEFINE tab == NewTable(MainFunc)
            e == [Entry(tab, 1, EntryKey, "FUNCTION", "INT", 0) EXCEPT !.scope = 1]
            wide == Allocate(tab, "FUNCTION", 0)
<1>1. /\ tabs' = <<wide>> /\ syms' = <<e>> /\ syms = <<>> /\ scopes = <<>> /\ scopes' = <<1>>
      /\ pc = "pgm" /\ phase = "SEMANTIC" /\ Room /\ UNCHANGED <<phase, errnum, ref>>
  BY MapFacts, PgmFacts
<1>2. /\ e.stab = 1 /\ e.key = EntryKey
      /\ wide.nspace = MainFunc /\ wide.funcsym = 0
  BY DEF Entry, Allocate, NewTable
<1>. HIDE DEF e, wide, tab
<1>3. /\ DOMAIN syms' = {1} /\ syms'[1] = e /\ DOMAIN scopes' = {1} /\ scopes'[1] = 1
      /\ tabs'[1] = wide
  BY <1>1
<1>4. BlockOf(syms', 1) = BindTo(<<>>, EntryKey, 1)
  <2>1. Apart(syms')
    BY <1>3 DEF Apart
  <2>2. BlockOf(syms', 1)[EntryKey] = 1
    BY <1>2, <1>3, <2>1, BlockAt
  <2>3. \A k : k \in DOMAIN BlockOf(syms', 1) <=> k = EntryKey
    BY <1>2, <1>3, BlockKeys
  <2>4. DOMAIN BlockOf(syms', 1) = {EntryKey}
    BY <2>3
  <2>5. BlockOf(syms', 1) = [k \in {EntryKey} |-> 1]
    BY <2>2, <2>4, BlockKeys
  <2>6. DOMAIN <<>> \cup {EntryKey} = {EntryKey}
    OBVIOUS
  <2>. QED BY <2>5, <2>6 DEF BindTo
<1>5. Env' = <<BindTo(<<>>, EntryKey, 1)>>
  <2>1. Env' = [i \in {1} |-> BlockOf(syms', 1)]
    BY <1>1, <1>3 DEF Env, EnvOf
  <2>2. \A x : [i \in {1} |-> x] = <<x>>
    OBVIOUS
  <2>. QED BY <1>4, <2>1, <2>2
<1>6. Owner' = <<0>> /\ Title' = <<EntryKey>>
  BY <1>1, <1>2, <1>3 DEF Owner, OwnerOf, Title, TitleOf, Plain, EntryKey
<1>7. Env = <<>> /\ ref.sid = 0
  <2>1. TablesOK /\ ViaInv
    BY MapFacts
  <2>. QED BY <1>1, <2>1, EnvFacts DEF ViaInv
<1>8. 1 \in 1..MAXSYMENT - 2
  <2>1. Len(syms) + 1 = 1
    BY <1>1
  <2>. QED BY <1>1, <2>1, DeclFacts
<1>9. Scoping!EnterProgram(EntryKey, 1)
  BY <1>1, <1>5, <1>6, <1>7, MapEnterProgram
<1>10. EntryKey \in DeclKey
  BY DEF DeclKey
<1>. QED BY <1>8, <1>9, <1>10 DEF Scoping!Next

LEMMA MapHeadOpen ==
  ASSUME MapInv, NEW name \in Name, NEW cate, NEW type, anlys_head_open(name, cate, type)
  PROVE  Scoping!Next
<1>. DEFINE t == Len(tabs) + 1
            l == Len(scopes)
<1>1. /\ phase = "SEMANTIC" /\ pc \in {"const", "var", "pf"}
      /\ scope_entry(name) /\ ref' = NoUse(Plain(name)) /\ UNCHANGED <<syms, phase, errnum>>
  BY DEF anlys_head_open, At
<1>2. TypeInv /\ TablesOK
  BY MapFacts
<1>3. /\ t \in Nat /\ tabs'[t] = NewTable(name) /\ \A u \in 1..Len(tabs) : tabs'[u] = tabs[u]
      /\ scopes' = Append(scopes, t)
  BY <1>1, <1>2, EntryFacts DEF scope_entry
<1>4. /\ l \in Nat /\ l >= 1 /\ scopes \in Seq(Nat) /\ t \notin 1..Len(tabs)
      /\ \A i \in 1..l : scopes[i] \in 1..Len(tabs)
      /\ \A i \in 1..l + 1 : i = l + 1 \/ i \in 1..l
      /\ \A i \in 1..l : i # l + 1
  <2>1. l \in Nat /\ l >= 1 /\ Len(tabs) \in Nat
    BY <1>1, <1>2, ListFacts
  <2>2. scopes \in Seq(Nat) /\ \A i \in 1..l : scopes[i] \in 1..Len(tabs)
    BY <1>2, LenFacts DEF TablesOK
  <2>. HIDE DEF l
  <2>. QED BY <2>1, <2>2
<1>5. scopes' = [i \in 1..l + 1 |-> IF i = l + 1 THEN t ELSE scopes[i]]
  BY <1>3, <1>4
<1>6. BlockOf(syms, t) = <<>>
  <2>1. \A e \in DOMAIN syms : syms[e].stab # t
    BY <1>2, <1>4 DEF TablesOK
  <2>. QED BY <2>1, BlockNone
<1>7. NewTable(name).funcsym = 0 /\ NewTable(name).nspace = name
  BY DEF NewTable
<1>. HIDE DEF t, l
<1>8. DOMAIN scopes' = 1..l + 1 /\ scopes'[l + 1] = t /\ \A i \in 1..l : scopes'[i] = scopes[i]
  BY <1>4, <1>5
<1>9. /\ Env' = [i \in 1..l + 1 |-> BlockOf(syms, scopes'[i])]
      /\ Owner' = [i \in 1..l + 1 |-> tabs'[scopes'[i]].funcsym]
      /\ Title' = [i \in 1..l + 1 |-> Plain(tabs'[scopes'[i]].nspace)]
  BY <1>1, <1>8 DEF Env, EnvOf, Owner, OwnerOf, Title, TitleOf
<1>10. \A i \in 1..l : /\ Env[i] = BlockOf(syms, scopes[i])
                       /\ Owner[i] = tabs[scopes[i]].funcsym
                       /\ Title[i] = Plain(tabs[scopes[i]].nspace)
  BY <1>2, EnvFacts DEF l
<1>11. /\ Append(Env, <<>>) = [i \in 1..l + 1 |-> IF i = l + 1 THEN <<>> ELSE Env[i]]
       /\ Append(Owner, 0) = [i \in 1..l + 1 |-> IF i = l + 1 THEN 0 ELSE Owner[i]]
       /\ Append(Title, Plain(name)) =
            [i \in 1..l + 1 |-> IF i = l + 1 THEN Plain(name) ELSE Title[i]]
  <2>1. /\ Env = [i \in 1..l |-> Env[i]] /\ Owner = [i \in 1..l |-> Owner[i]]
        /\ Title = [i \in 1..l |-> Title[i]]
    BY <1>2, StackShape DEF l
  <2>. QED BY <1>4, <2>1, ListedSeq
<1>12. Env' = Append(Env, <<>>)
  <2>1. \A i \in 1..l + 1 : BlockOf(syms, scopes'[i]) = IF i = l + 1 THEN <<>> ELSE Env[i]
    BY <1>4, <1>6, <1>8, <1>10
  <2>. QED BY <1>9, <1>11, <2>1
<1>13. Owner' = Append(Owner, 0) /\ Title' = Append(Title, Plain(name))
  <2>1. \A i \in 1..l + 1 :
          /\ tabs'[scopes'[i]].funcsym = IF i = l + 1 THEN 0 ELSE Owner[i]
          /\ Plain(tabs'[scopes'[i]].nspace) = IF i = l + 1 THEN Plain(name) ELSE Title[i]
    <3>1. ASSUME NEW i \in 1..l
          PROVE  /\ i # l + 1 /\ tabs'[scopes'[i]].funcsym = Owner[i]
                 /\ Plain(tabs'[scopes'[i]].nspace) = Title[i]
      BY <1>3, <1>4, <1>8, <1>10
    <3>2. /\ tabs'[scopes'[l + 1]].funcsym = 0
          /\ Plain(tabs'[scopes'[l + 1]].nspace) = Plain(name)
      BY <1>3, <1>7, <1>8
    <3>. QED BY <1>4, <3>1, <3>2
  <2>. QED BY <1>9, <1>11, <2>1
<1>14. Env # <<>>
  BY <1>2, <1>4, EnvFacts DEF l
<1>15. Scoping!EnterRoutine(Plain(name))
  BY <1>1, <1>12, <1>13, <1>14, MapEnterRoutine
<1>16. Plain(name) \in DeclKey
  BY NameKey, NamedKey DEF Plain
<1>. QED BY <1>15, <1>16 DEF Scoping!Next

LEMMA MapHeadClose ==
  ASSUME MapInv, MapInv', anlys_head_close
  PROVE  Scoping!Next
<1>. DEFINE l == Len(scopes)
            parent == scopes[l - 1]
            key == make_symkey(head.name, head.phead)
            old == getsym(parent, key)
            new == [Entry(tabs[parent], parent, key, head.cate, head.type, 0)
                    EXCEPT !.scope = top, !.phead = head.phead]
<1>1. TypeInv /\ TablesOK /\ Nested
  BY MapFacts
<1>2. /\ l \in Nat /\ l >= 2 /\ head.name \in Name /\ parent \in 1..Len(tabs)
      /\ key \in KnownKey /\ pc = "head" /\ phase = "SEMANTIC" /\ ref' = NoUse(key)
      /\ UNCHANGED <<scopes, phase>>
      /\ old # 0 => errnum' = DUPSYM
      /\ old = 0 => errnum' = errnum /\ Room /\ PutIn(parent, key, new)
  BY <1>1, HeadCloseFacts
<1>3. new.stab = parent /\ new.key = key
  BY DEF Entry
<1>4. key \in DeclKey
  BY <1>2, NamedKey DEF make_symkey
<1>5. old = HeadOld
  BY DEF HeadOld
<1>. HIDE DEF new, key, old
<1>6. /\ l - 1 \in 1..l /\ l \in 1..l /\ scopes # <<>> /\ Len(Env) = l
      /\ top = scopes[l] /\ tabs[top].funcsym = 0
  BY <1>1, <1>2, HeadInside, EnvFacts DEF top
<1>7. old = getsym(scopes[l - 1], key)
  BY DEF old
<1>8. \E d \in 1..MAXSYMENT - 2 :
        /\ BoundAt(l - 1, key, d) /\ Env'[l - 1][key] = d
        /\ \A u \in 1..Len(tabs) :
             /\ tabs'[u].nspace = tabs[u].nspace
             /\ u = top => tabs'[u].funcsym = d
             /\ u # top => tabs'[u].funcsym = tabs[u].funcsym
  <2>1. CASE old # 0
    <3>1. /\ Len(syms') = Len(syms)
          /\ \A d \in 1..Len(syms) :
               syms'[d].stab = syms[d].stab /\ syms'[d].key = syms[d].key
          /\ \A u \in 1..Len(tabs) :
               /\ tabs'[u].nspace = tabs[u].nspace
               /\ tabs'[u].funcsym = IF u = top THEN old ELSE tabs[u].funcsym
      BY <1>1, <1>5, <2>1, HeadAgainTables
    <3>2. /\ BoundAt(l - 1, key, old) /\ Env'[l - 1][key] = old
          /\ old \in 1..MAXSYMENT - 2
      BY <1>2, <1>6, <1>7, <2>1, <3>1, BoundOld
    <3>. QED BY <3>1, <3>2
  <2>2. CASE old = 0
    <3>1. \A u \in 1..Len(tabs) :
            /\ tabs'[u].nspace = tabs[u].nspace
            /\ tabs'[u].funcsym = IF u = top THEN Len(syms) + 1 ELSE tabs[u].funcsym
      BY <1>1, <1>5, <2>2, HeadNewTables
    <3>2. /\ BoundAt(l - 1, key, Len(syms) + 1) /\ Env'[l - 1][key] = Len(syms) + 1
          /\ Len(syms) + 1 \in 1..MAXSYMENT - 2
      BY <1>2, <1>3, <1>6, <1>7, <2>2, BoundNew
    <3>. QED BY <3>1, <3>2
  <2>. QED BY <2>1, <2>2
<1>9. PICK d \in 1..MAXSYMENT - 2 :
        /\ BoundAt(l - 1, key, d) /\ Env'[l - 1][key] = d
        /\ \A u \in 1..Len(tabs) :
             /\ tabs'[u].nspace = tabs[u].nspace
             /\ u = top => tabs'[u].funcsym = d
             /\ u # top => tabs'[u].funcsym = tabs[u].funcsym
  BY <1>8
<1>10. \A i \in 1..l : scopes[i] \in 1..Len(tabs) /\ (scopes[i] = top <=> i = l)
  <2>1. \A i \in 1..l : scopes[i] \in 1..Len(tabs)
    BY <1>1, ListFacts
  <2>2. ASSUME NEW i \in 1..l, i # l PROVE scopes[i] # top
    <3>1. i < l
      BY <1>2, <2>2
    <3>2. scopes[i] < scopes[l]
      BY <1>1, <1>6, <3>1 DEF Nested
    <3>. QED BY <1>6, <2>1, <3>2
  <2>. QED BY <1>6, <2>1, <2>2
<1>11. /\ Owner = [i \in 1..l |-> tabs[scopes[i]].funcsym]
       /\ Owner' = [i \in 1..l |-> tabs'[scopes[i]].funcsym]
       /\ Title = [i \in 1..l |-> Plain(tabs[scopes[i]].nspace)]
       /\ Title' = [i \in 1..l |-> Plain(tabs'[scopes[i]].nspace)]
  <2>1. DOMAIN scopes = 1..l /\ DOMAIN scopes' = 1..l
    BY <1>1, <1>2, LenFacts
  <2>. QED BY <1>2, <2>1 DEF Owner, OwnerOf, Title, TitleOf
<1>12. Title' = Title
  BY <1>9, <1>10, <1>11
<1>13. Owner' = [Owner EXCEPT ![l] = d] /\ Owner[l] = 0
  <2>1. Owner'[l] = d /\ Owner[l] = 0
    BY <1>6, <1>9, <1>10, <1>11
  <2>2. \A i \in 1..l : i # l => Owner'[i] = Owner[i]
    BY <1>9, <1>10, <1>11
  <2>3. DOMAIN Owner = 1..l /\ DOMAIN Owner' = 1..l
    BY <1>11
  <2>4. Owner = [i \in 1..l |-> Owner[i]] /\ Owner' = [i \in 1..l |-> Owner'[i]]
    BY <1>11
  <2>. QED BY <2>1, <2>2, <2>3, <2>4
<1>14. Scoping!DeclareRoutine(key, d)
  <2>1. Len(Env) > 1 /\ phase' = "SEMANTIC" /\ Owner[Len(Env)] = 0
    BY <1>2, <1>6, <1>13
  <2>2. BoundAt(Len(Env) - 1, key, d)
    BY <1>6, <1>9
  <2>3. Owner' = [Owner EXCEPT ![Len(Env)] = Env'[Len(Env) - 1][key]]
    BY <1>6, <1>9, <1>13
  <2>. QED BY <1>2, <1>12, <2>1, <2>2, <2>3, MapDeclareRoutine
<1>. QED BY <1>4, <1>14 DEF Scoping!Next

\* A use of a key: it resolves to what is visible, or the process ends,
\* because nothing is or for another reason.
LEMMA MapResolve ==
  ASSUME MapInv, InBlock, NEW key \in KnownKey, key \in DeclKey, NEW sid, NEW via, NEW args,
         NEW code \in Nat, sid = symfind(key), sid = 0 => code # 0, via # "unknown",
         Resolve(key, sid, via, args, code)
  PROVE  Scoping!Next
<1>1. /\ TablesOK /\ ChainInv /\ UniqueInv /\ phase = "SEMANTIC" /\ scopes # <<>>
      /\ Len(scopes) >= 1
  <2>1. TypeInv /\ TablesOK /\ ChainInv /\ UniqueInv
    BY MapFacts
  <2>2. pc \in {"const", "var", "pf", "stmt"} /\ phase = "SEMANTIC"
    BY DEF InBlock, At
  <2>3. Len(scopes) >= 1
    BY <2>1, <2>2, ListFacts
  <2>. QED BY <2>1, <2>2, <2>3
<1>2. Scoping!Visible(key) = sid /\ Env # <<>>
  BY <1>1, FoundIsVisible, EnvFacts
<1>3. UNCHANGED <<tabs, syms, scopes>> /\ ref'.key = key
  BY DEF Resolve, Exit, Ref
<1>4. CASE code = 0
  <2>1. phase' = "SEMANTIC" /\ errnum' = errnum /\ ref'.sid = sid /\ sid # 0
    BY <1>1, <1>4 DEF Resolve, Ref
  <2>2. Scoping!Use(key)
    BY <1>1, <1>2, <1>3, <2>1, MapUse
  <2>. QED BY <2>2 DEF Scoping!Next
<1>5. CASE code # 0 /\ sid = 0
  <2>1. phase' = "EXIT" /\ errnum' = code /\ ref'.sid = 0 /\ ref'.via = "unknown"
    BY <1>5 DEF Resolve, Ref, Exit
  <2>2. errnum' > 0
    BY <1>5, <2>1
  <2>3. Scoping!Use(key)
    BY <1>1, <1>2, <1>3, <1>5, <2>1, <2>2, MapUse
  <2>. QED BY <2>3 DEF Scoping!Next
<1>6. CASE code # 0 /\ sid # 0
  <2>1. phase' = "EXIT" /\ errnum' = code /\ ref'.sid = 0 /\ ref'.via # "unknown"
    BY <1>6 DEF Resolve, Ref, Exit
  <2>2. errnum' > 0
    BY <1>6, <2>1
  <2>3. Scoping!Abort
    BY <1>1, <1>2, <1>3, <1>6, <2>1, <2>2, MapAbort
  <2>. QED BY <2>3 DEF Scoping!Next
<1>. QED BY <1>4, <1>5, <1>6

LEMMA MapResolveName ==
  ASSUME MapInv, InBlock, NEW name \in Name, NEW via, via # "unknown", NEW code \in Nat,
         Find(name) = 0 => code # 0, ResolveName(name, via, code)
  PROVE  Scoping!Next
<1>1. Plain(name) \in KnownKey /\ Plain(name) \in DeclKey
  BY NameKey, NamedKey DEF Plain
<1>2. Resolve(Plain(name), symfind(Plain(name)), via, <<>>, code)
  BY DEF ResolveName, Find
<1>3. symfind(Plain(name)) = 0 => code # 0
  BY DEF Find
<1>. QED BY <1>1, <1>2, <1>3, MapResolve

LEMMA MapAssign ==
  ASSUME MapInv, NEW name \in Name, anlys_assign_stmt(name)
  PROVE  Scoping!Next
<1>1. /\ TypeInv /\ TablesOK /\ Nested /\ NspaceInv /\ InBlock
      /\ phase = "SEMANTIC" /\ pc \in {"const", "var", "pf", "stmt"}
  BY MapFacts DEF anlys_assign_stmt, InBlock, At
<1>2. CASE name = tabs[top].nspace
  <2>. DEFINE l == Len(scopes)
  <2>1. l \in Nat /\ l >= 1 /\ top \in 1..Len(tabs) /\ Len(tabs) \in Nat
    BY <1>1, ListFacts
  <2>2. top # 1
    BY <1>2, <2>1, ConstAssumption, <1>1 DEF NspaceInv
  <2>3. tabs[top].funcsym # 0
    BY <1>1, <2>1, <2>2 DEF Nested, HeadOpen
  <2>4. Len(Env) = l /\ Env # <<>> /\ Owner[l] = tabs[top].funcsym
        /\ Title[l] = Plain(name)
    <3>1. l \in 1..l /\ scopes # <<>> /\ scopes[l] = top
      BY <2>1 DEF top
    <3>. QED BY <1>1, <1>2, <3>1, EnvFacts
  <2>5. Resolve(Plain(name), tabs[top].funcsym, "own", <<>>, 0)
    BY <1>2 DEF anlys_assign_stmt
  <2>6. /\ ref'.key = Plain(name) /\ ref'.sid = tabs[top].funcsym
        /\ UNCHANGED <<tabs, syms, scopes, errnum, phase>>
    BY <2>5 DEF Resolve, Ref
  <2>7. Scoping!UseOwner
    BY <1>1, <2>3, <2>4, <2>6, MapUseOwner
  <2>. QED BY <2>7 DEF Scoping!Next
<1>3. CASE name # tabs[top].nspace
  <2>1. ResolveName(name, "name", FindErr(name))
    BY <1>3 DEF anlys_assign_stmt
  <2>2. FindErr(name) \in Nat /\ (Find(name) = 0 => FindErr(name) # 0) /\ "name" # "unknown"
    BY DEF FindErr, BADSYM
  <2>. QED BY <1>1, <2>1, <2>2, MapResolveName
<1>. QED BY <1>2, <1>3

LEMMA MapFactor ==
  ASSUME MapInv, NEW name \in Name, anlys_factor(name)
  PROVE  Scoping!Next
<1>1. /\ IdFactorErr(name) \in Nat /\ (Find(name) = 0 => IdFactorErr(name) # 0)
      /\ ArrayFactorErr(name) \in Nat /\ (Find(name) = 0 => ArrayFactorErr(name) # 0)
      /\ "scalar" # "unknown" /\ "element" # "unknown"
  BY ErrTypes DEF IdFactorErr, ArrayFactorErr, BADSYM
<1>2. InBlock /\ \/ ResolveName(name, "scalar", IdFactorErr(name))
                 \/ ResolveName(name, "element", ArrayFactorErr(name))
  BY DEF anlys_factor
<1>3. CASE ResolveName(name, "scalar", IdFactorErr(name))
  BY <1>1, <1>2, <1>3, MapResolveName
<1>4. CASE ResolveName(name, "element", ArrayFactorErr(name))
  BY <1>1, <1>2, <1>4, MapResolveName
<1>. QED BY <1>2, <1>3, <1>4

LEMMA MapTarget ==
  ASSUME MapInv, NEW name \in Name, anlys_for_or_read(name)
  PROVE  Scoping!Next
<1>1. FindErr(name) \in Nat /\ (Find(name) = 0 => FindErr(name) # 0) /\ "name" # "unknown"
  BY DEF FindErr, BADSYM
<1>2. InBlock /\ ResolveName(name, "name", FindErr(name))
  BY DEF anlys_for_or_read
<1>. QED BY <1>1, <1>2, MapResolveName

LEMMA MapCall ==
  ASSUME MapInv, NEW cate \in RoutineCate, NEW n \in Name,
         NEW k \in 0..MaxParam, NEW args \in [1..k -> Arg], anlys_call(cate, n, args)
  PROVE  Scoping!Next
<1>. DEFINE errs == [i \in DOMAIN args |-> InferErr(args[i])]
            inferred == FirstErr(errs, 0)
            key == CalleeKey(n, args)
            e == symfind(key)
            listed == anlys_arg_list(e, args)
            code == IF e = 0 THEN BADSYM
                    ELSE IF syms[e].cate # cate
                         THEN IF cate = "PROC" THEN BADSYM ELSE ERTYPE
                    ELSE IF args = <<>> THEN 0
                    ELSE listed
<1>1. /\ InBlock
      /\ IF inferred # 0 THEN Exit(inferred) /\ UNCHANGED ref
         ELSE Resolve(key, e, "call", args, code)
  BY DEF anlys_call
<1>2. TypeInv /\ TablesOK /\ ViaInv /\ phase = "SEMANTIC"
  BY <1>1, MapFacts DEF InBlock, At
<1>3. k \in Nat /\ DOMAIN errs = 1..k /\ \A i \in 1..k : errs[i] = InferErr(args[i])
  BY ConstAssumption
<1>4. \A i \in 1..k : errs[i] \in Nat
  BY <1>3, ErrTypes
<1>5. 0 \in Nat /\ 1..k \subseteq Nat
  OBVIOUS
<1>. HIDE DEF errs
<1>6. inferred \in Nat /\ (inferred = 0 => \A i \in 1..k : errs[i] = 0)
  BY <1>3, <1>4, <1>5, FirstErrFacts
<1>7. inferred = 0 => key \in KnownKey /\ key \in DeclKey /\ e \in 0..Len(syms)
  <2>. SUFFICES ASSUME inferred = 0
                PROVE  key \in KnownKey /\ key \in DeclKey /\ e \in 0..Len(syms)
    OBVIOUS
  <2>1. \A i \in 1..k : InferErr(args[i]) = 0
    BY <1>3, <1>6
  <2>2. e \in 0..Len(syms)
    BY <1>2, <2>1, CalleeKeyType
  <2>3. PICK literal \in {"UINT", "INT"} :
          /\ key = <<n, [i \in 1..k |-> InferType(args[i], literal)]>>
          /\ key \in KnownKey
    BY <1>2, <2>1, CalleeTypes
  <2>4. key \in DeclKey
    BY <2>3, NamedKey
  <2>. QED BY <2>2, <2>3, <2>4
<1>8. inferred = 0 /\ e # 0 => listed \in Nat
  <2>. SUFFICES ASSUME inferred = 0, e # 0 PROVE listed \in Nat
    OBVIOUS
  <2>1. e \in 1..Len(syms)
    BY <1>2, <1>7, ListFacts
  <2>. QED BY <1>2, <1>3, <2>1, ArgListType
<1>. HIDE DEF inferred, listed
<1>9. CASE inferred # 0
  <2>1. /\ errnum' > 0 /\ phase' = "EXIT" /\ UNCHANGED <<tabs, syms, scopes, ref>>
        /\ ref.via # "unknown"
    BY <1>1, <1>2, <1>6, <1>9 DEF Exit, ViaInv
  <2>2. Scoping!Abort
    BY <1>2, <2>1, MapAbort
  <2>. QED BY <2>2 DEF Scoping!Next
<1>10. CASE inferred = 0
  <2>1. code \in Nat /\ (e = 0 => code # 0) /\ "call" # "unknown"
    BY <1>8, <1>10 DEF BADSYM, ERTYPE
  <2>2. Resolve(key, e, "call", args, code) /\ e = symfind(key)
    BY <1>1, <1>10
  <2>3. key \in KnownKey /\ key \in DeclKey
    BY <1>7, <1>10
  <2>. HIDE DEF code, e, key
  <2>. QED BY <1>1, <2>1, <2>2, <2>3, MapResolve
<1>. QED BY <1>9, <1>10

LEMMA MapUses ==
  ASSUME MapInv, Uses
  PROVE  Scoping!Next
BY MapAssign, MapTarget, MapFactor, MapCall DEF Uses

\* The ends of a routine's block and of the program's.
LEMMA MapLeaveRoutine ==
  ASSUME MapInv, MapInv', anlys_pf_end
  PROVE  Scoping!Next
<1>1. /\ TypeInv /\ TypeInv' /\ Len(scopes) > 1 /\ Len(scopes) \in Nat /\ scope_exit
      /\ phase = "SEMANTIC" /\ ref' = NoUse(ref.key) /\ UNCHANGED <<phase, errnum>>
  BY MapFacts, ListFacts DEF anlys_pf_end, At, MapInv
<1>2. /\ Env' = SubSeq(Env, 1, Len(Env) - 1) /\ Len(Env) > 1
      /\ Owner' = SubSeq(Owner, 1, Len(Owner) - 1)
      /\ Title' = SubSeq(Title, 1, Len(Title) - 1)
  BY <1>1, LeaveStacks
<1>3. Scoping!LeaveRoutine
  BY <1>1, <1>2 DEF Scoping!LeaveRoutine, Scoping!LeaveBlock, NoUse, Ref,
     Env, EnvOf, BlockOf, Block, Owner, OwnerOf, Title, TitleOf
<1>. QED BY <1>3 DEF Scoping!Next

LEMMA MapLeaveProgram ==
  ASSUME MapInv, MapInv', analysis_end
  PROVE  Scoping!Next
<1>1. /\ TypeInv /\ TypeInv' /\ Len(scopes) = 1 /\ scope_exit
      /\ phase = "SEMANTIC" /\ ref' = NoUse(ref.key) /\ UNCHANGED errnum
      /\ phase' = IF errnum > 0 THEN "EXIT" ELSE "IR"
  BY MapFacts DEF analysis_end, At, MapInv, chkerr
<1>2. /\ Env' = SubSeq(Env, 1, Len(Env) - 1) /\ Len(Env) = 1
      /\ Owner' = SubSeq(Owner, 1, Len(Owner) - 1)
      /\ Title' = SubSeq(Title, 1, Len(Title) - 1)
  BY <1>1, LeaveStacks
<1>3. Scoping!LeaveProgram
  BY <1>1, <1>2 DEF Scoping!LeaveProgram, Scoping!LeaveBlock, NoUse, Ref,
     Env, EnvOf, BlockOf, Block, Owner, OwnerOf, Title, TitleOf
<1>. QED BY <1>3 DEF Scoping!Next

LEMMA MapPanic ==
  ASSUME MapInv, putsym_panic
  PROVE  Scoping!Next
<1>1. /\ phase \in {"SEMANTIC", "IR"} /\ phase' = "EXIT" /\ errnum' = EPANIC
      /\ UNCHANGED <<tabs, syms, scopes, ref>>
  BY DEF putsym_panic, NewKeyDue, At, Exit
<1>2. errnum' > 0 /\ ref.via # "unknown"
  BY <1>1, MapFacts DEF EPANIC, ViaInv
<1>3. Scoping!Abort
  BY <1>1, <1>2, MapAbort
<1>. QED BY <1>3 DEF Scoping!Next

\* Code generation adds symbols when no scope is open: nothing is visible.
LEMMA MapGeneration ==
  ASSUME MapInv, Generation
  PROVE  UNCHANGED Scoping!vars
<1>1. phase = "IR" /\ UNCHANGED <<scopes, errnum, ref>> /\ phase' \in {"IR", "CODE_GEN", "EXIT"}
  BY DEF Generation, genir_alloc, genir_end, chkerr
<1>2. scopes = <<>> /\ errnum = 0
  BY <1>1, MapFacts DEF Nested, Accepted
<1>3. phase' \in {"IR", "CODE_GEN"}
  <2>1. ~(errnum > 0)
    BY <1>2
  <2>. QED BY <1>1, <2>1 DEF Generation, genir_alloc, genir_end, chkerr
<1>4. Env' = Env /\ Owner' = Owner /\ Title' = Title
  BY <1>1, <1>2 DEF Env, EnvOf, Owner, OwnerOf, Title, TitleOf
<1>. QED BY <1>1, <1>3, <1>4 DEF Scoping!vars,
     Env, EnvOf, BlockOf, Block, Owner, OwnerOf, Title, TitleOf

LEMMA MapDeclarations ==
  ASSUME MapInv, MapInv', Declarations
  PROVE  Scoping!Next
<1>1. ASSUME NEW n \in Name, NEW cate \in DeclCate, NEW type \in ScalarType,
             NEW len \in Nat, DeclaresBlock(n, cate, type, len)
      PROVE  Scoping!Next
  <2>1. /\ pc \in {"const", "var"} /\ phase = "SEMANTIC" /\ phase' = "SEMANTIC"
        /\ DeclareHere(n, cate, type, len) /\ UNCHANGED scopes /\ ref' = NoUse(Plain(n))
    BY <1>1 DEF DeclaresBlock
  <2>2. Len(scopes) >= 1 /\ type \in Type
    BY <2>1, MapFacts, ListFacts, ConstAssumption
  <2>. QED BY <2>1, <2>2, MapDeclares
<1>2. ASSUME NEW n \in Name, NEW cate \in ParamCate, NEW type \in ScalarType,
             anlys_para_list(n, cate, type)
      PROVE  Scoping!Next
  <2>1. /\ pc = "head" /\ phase = "SEMANTIC" /\ phase' = "SEMANTIC"
        /\ DeclareHere(n, cate, type, 0) /\ UNCHANGED scopes /\ ref' = NoUse(Plain(n))
    BY <1>2 DEF anlys_para_list, At
  <2>2. Len(scopes) >= 1 /\ type \in Type /\ cate \in DeclCate /\ 0 \in Nat
    BY <2>1, MapFacts, ListFacts, ConstAssumption DEF DeclCate
  <2>. QED BY <2>1, <2>2, MapDeclares
<1>. QED BY <1>1, <1>2, MapPgm, MapHeadOpen, MapHeadClose, DeclarationKinds

\* Every step of the analysis is a step of lexical scoping, or leaves it.
LEMMA ScopingStep == MapInv /\ MapInv' /\ [Next]_vars => [Scoping!Next]_Scoping!vars
<1>. SUFFICES ASSUME MapInv, MapInv', [Next]_vars
              PROVE  Scoping!Next \/ UNCHANGED Scoping!vars
  OBVIOUS
<1>1. ASSUME UNCHANGED vars PROVE UNCHANGED Scoping!vars
  <2>1. UNCHANGED <<tabs, syms, scopes, phase, errnum, ref>>
    BY <1>1 DEF vars
  <2>. QED BY <2>1 DEF Scoping!vars, Block
<1>. QED BY <1>1, MapDeclarations, MapUses, MapLeaveRoutine, MapLeaveProgram,
            MapGeneration, MapPanic DEF Next

LEMMA Mapped == Spec => []MapInv
<1>1. Init => MapInv
  BY TypeInit, ScopeInit, LookupInit DEF MapInv
<1>2. MapInv /\ [Next]_vars => MapInv'
  BY TypeStep, ScopeStep, LookupStep DEF MapInv
<1>. QED BY <1>1, <1>2, PTL DEF Spec

\* The symbol table implements the stack of blocks it stands for: at every
\* step of the analysis (anlysis.c) and of code generation, what symfind and
\* symget (symtab.c) find in the hash buckets along the list of scopes is the
\* declaration of the innermost open block that has one, for any names, hash
\* function, limits and programs.
THEOREM LexicalScoping == Spec => LexicallyScoped
<1>1. Init => Scoping!Init
  BY ScopingInit
<1>2. MapInv /\ MapInv' /\ [Next]_vars => [Scoping!Next]_Scoping!vars
  BY ScopingStep
<1>3. Spec => []MapInv
  BY Mapped
<1>. QED BY <1>1, <1>2, <1>3, PTL DEF Spec, LexicallyScoped, Scoping!Spec
=============================================================================
