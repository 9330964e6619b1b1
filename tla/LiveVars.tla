------------------------------ MODULE LiveVars ------------------------------
(***************************************************************************)
(* Live variable analysis and the elimination of dead assignments in one   *)
(* routine (optimize_lva.c), over the basic blocks that optimize_cfg.c     *)
(* made of it.                                                             *)
(*                                                                         *)
(* The blocks and their links are the input, chosen once.  An operand that *)
(* is no variable (a constant, an array, a label, none at all) is NoVar;   *)
(* isvar tells the two apart.  A variable is its sid, and the sets are the *)
(* arrays of words of util.c; a word is the set of the places of its ones. *)
(***************************************************************************)
EXTENDS Naturals, Sequences

CONSTANTS
  BITSIZE,    \* the bits of a word
  NBITARR,    \* the words of a set
  Var,        \* the symbols of which isvar holds
  Param,      \* those of them that are parameters
  Outer,      \* those that belong to an enclosing routine or to the program
  NoVar,      \* an operand that is no variable
  N,          \* the blocks of the routine, in the order of the list
  Code,       \* the instruction lists a block may have
  MAXBBINST   \* the size of insts and insts3

Block == 1..N

\* The instructions, by the case of calc_use_def they belong to.
Op == {"arith",   \* ADD, SUB, MUL, DIV, LOAD_ARRAY, STORE_ARRAY
       "inc",     \* INC, DEC
       "neg",
       "store",   \* STORE_VAR
       "branch",
       "none",    \* JUMP, CALL, FN_START, FN_END, LABEL
       "push",    \* PUSH_VAL, PUSH_ADDR
       "pop",     \* POP, which has no operand at all
       "read",
       "write"}
Operand == Var \cup {NoVar}
Inst == [op : Op, d : Operand, r : Operand, s : Operand]

ASSUME ConstAssumption ==
  /\ BITSIZE \in Nat \ {0} /\ NBITARR \in Nat
  /\ Var \subseteq 0..NBITARR * BITSIZE - 1  \* putsym: MAXSYMENT is MAXSETBITS
  /\ Param \subseteq Var /\ Outer \subseteq Var /\ NoVar \notin Var
  /\ N \in Nat \ {0} /\ MAXBBINST \in Nat
  /\ \A c \in Code : c \in Seq(Inst) /\ Len(c) \in 1..MAXBBINST  \* create_basic_block

VARIABLES
  insts,    \* the instructions of each block
  succ,     \* its successors
  use, def, in, out,
  pc,       \* the pass that is under way
  bb,       \* the block it is at
  i,        \* calc_use_def: the instruction, 0 before the sets are cleared
  changed,  \* data_flow_anlys: IN of some block changed in this round
  insts3    \* the instructions left after the elimination

input == <<insts, succ>>
vars == <<insts, succ, use, def, in, out, pc, bb, i, changed, insts3>>

-----------------------------------------------------------------------------
(* The bit sets                                                            *)

Pos == 0..NBITARR - 1
Off == 0..BITSIZE - 1
Bits == [Pos -> SUBSET Off]

\* Variant: every bit is in the first word.
POS_first(v) == 0

POS(v) == v \div BITSIZE
OFF(v) == v % BITSIZE

\* bget, and what it says is in the set.
sget(a, v) == OFF(v) \in a[POS(v)]
Members(a) == {v \in 0..NBITARR * BITSIZE - 1 : sget(a, v)}

sclr == [p \in Pos |-> {}]

\* The set once the bits of all of S are set in it.
sset(a, S) == [p \in Pos |-> a[p] \cup {OFF(v) : v \in {w \in S : POS(w) = p}}]

sunion(a, b) == [p \in Pos |-> a[p] \cup b[p]]
ssub(a, b) == [p \in Pos |-> a[p] \ b[p]]
ssame(a, b) == \A p \in Pos : a[p] = b[p]

-----------------------------------------------------------------------------
(* The input                                                               *)

\* partition_basic_blocks and link_basic_block: every block but the last
\* has the next one as a successor, and any block may jump to one.
Graph ==
  {g \in [Block -> SUBSET Block] :
     \A b \in Block : \E target \in {{}} \cup {{t} : t \in Block} :
       g[b] = target \cup ({b + 1} \cap Block)}

Nothing == [b \in Block |-> sclr]

Init ==
  /\ insts \in [Block -> Code]
  /\ succ \in Graph
  /\ use = Nothing /\ def = Nothing /\ in = Nothing /\ out = Nothing
  /\ pc = "usedef" /\ bb = 1 /\ i = 0
  /\ changed = TRUE
  /\ insts3 = [b \in Block |-> <<>>]

-----------------------------------------------------------------------------
(* calc_use_def                                                            *)

\* The variables an instruction is taken to use and to define.  Reading
\* into a variable counts as a use of it and writing it out as a definition.
Uses(x) ==
  Var \cap CASE x.op \in {"arith", "branch"} -> {x.r, x.s}
             [] x.op = "inc" -> {x.d}
             [] x.op \in {"neg", "store"} -> {x.r}
             [] x.op \in {"push", "read"} -> {x.d, x.r}
             [] OTHER -> {}
Defs(x) ==
  Var \cap CASE x.op \in {"arith", "neg", "store", "write"} -> {x.d}
             [] OTHER -> {}

\* Variant: a use behind a definition in the block counts.
setuse_always(u, d, S) == sset(u, S)

\* setuse and setdef on the variables S: the first mention decides.
setuse(u, d, S) == sset(u, {v \in S : ~sget(d, v)})
setdef(d, u, S) == sset(d, {v \in S : ~sget(u, v)})

\* The next block of the list, or the next pass.
Advance(next) ==
  IF bb = N THEN pc' = next /\ bb' = 1 ELSE pc' = pc /\ bb' = bb + 1

clear_sets ==
  /\ pc = "usedef" /\ i = 0
  /\ i' = 1
  /\ use' = [use EXCEPT ![bb] = sclr]
  /\ def' = [def EXCEPT ![bb] = sclr]
  /\ in' = [in EXCEPT ![bb] = sclr]
  /\ out' = [out EXCEPT ![bb] = sclr]
  /\ UNCHANGED <<input, pc, bb, changed, insts3>>

\* calc_use_def treats POP like PUSH: setuse is handed the NULL that is its
\* operand, and isvar looks behind it.
crash ==
  /\ pc = "usedef" /\ i > 0 /\ insts[bb][i].op = "pop"
  /\ pc' = "crash"
  /\ UNCHANGED <<input, use, def, in, out, bb, i, changed, insts3>>

calc_use_def ==
  /\ pc = "usedef" /\ i > 0 /\ insts[bb][i].op # "pop"
  /\ LET x == insts[bb][i]
         u == setuse(use[bb], def[bb], Uses(x))
     IN  /\ use' = [use EXCEPT ![bb] = u]
         /\ def' = [def EXCEPT ![bb] = setdef(def[bb], u, Defs(x))]
  /\ IF i = Len(insts[bb])
     THEN i' = 0 /\ Advance("epoch")
     ELSE i' = i + 1 /\ UNCHANGED <<pc, bb>>
  /\ UNCHANGED <<input, in, out, changed, insts3>>

-----------------------------------------------------------------------------
(* data_flow_anlys                                                         *)

\* A round begins, or the last one changed nothing.
epoch ==
  /\ pc = "epoch"
  /\ pc' = IF changed THEN "flow" ELSE "elim"
  /\ changed' = FALSE
  /\ UNCHANGED <<input, use, def, in, out, bb, i, insts3>>

\* Variant: only a change of the first block is noticed.
Differs_first(b, new) == b = 1 /\ new # in[b]

\* Variant: IN is compared with the wrong set.
Differs_use(b, new) == ~ssame(new, use[b])

\* IN of the block is no longer what it was.
Differs(b, new) == ~ssame(new, in[b])

\* OUT once the INs of all successors are joined to it; it is never cleared.
Gathered(b) == [p \in Pos |-> out[b][p] \cup UNION {in[s][p] : s \in succ[b]}]

\* IN[B] = use[B] union (OUT[B] - def[B])
Transfer(b, live) == sunion(use[b], ssub(live, def[b]))

flow_block ==
  /\ pc = "flow"
  /\ LET live == Gathered(bb)
         new == Transfer(bb, live)
     IN  /\ out' = [out EXCEPT ![bb] = live]
         /\ in' = [in EXCEPT ![bb] = new]
         /\ changed' = (changed \/ Differs(bb, new))
  /\ Advance("epoch")
  /\ UNCHANGED <<input, use, def, i, insts3>>

-----------------------------------------------------------------------------
(* elim_dead_assign                                                        *)

\* Variant: only what is live into the block counts.
Eliminated_in(b, x) == x.op = "store" /\ x.d \in Var \ Param /\ ~sget(in[b], x.d)

\* A STORE_VAR to a variable, of whatever routine, or to a temporary that is
\* live neither into the block nor out of it.
Eliminated(b, x) ==
  x.op = "store" /\ x.d \in Var \ Param /\ ~sget(in[b], x.d) /\ ~sget(out[b], x.d)

\* The copy insts3, once the loop is through the instructions of the block.
Copied(b) ==
  LET copy[k \in 0..Len(insts[b])] ==
        IF k = 0 THEN <<>>
        ELSE IF Eliminated(b, insts[b][k]) THEN copy[k - 1]
        ELSE Append(copy[k - 1], insts[b][k])
  IN  copy[Len(insts[b])]

elim_dead_assign ==
  /\ pc = "elim"
  /\ LET left == Copied(bb)
     IN  IF Len(left) > MAXBBINST
         THEN pc' = "panic" /\ UNCHANGED <<bb, insts3>>
         ELSE Advance("done") /\ insts3' = [insts3 EXCEPT ![bb] = left]
  /\ UNCHANGED <<input, use, def, in, out, i, changed>>

Next == clear_sets \/ calc_use_def \/ crash \/ epoch \/ flow_block \/ elim_dead_assign

Spec == Init /\ [][Next]_vars

\* The pass runs to its end once it is called.
FairSpec == Spec /\ WF_vars(Next)

-----------------------------------------------------------------------------
(* Properties                                                              *)

BitSets == [Block -> Bits]

\* The sets are arrays of words, and the place in the blocks is one of them
\* or the end.
TypeOK ==
  /\ insts \in [Block -> Code]
  /\ succ \in [Block -> SUBSET Block]
  /\ use \in BitSets /\ def \in BitSets /\ in \in BitSets /\ out \in BitSets
  /\ pc \in {"usedef", "epoch", "flow", "elim", "done", "panic", "crash"}
  /\ bb \in Block /\ i \in 0..Len(insts[bb])
  /\ pc \notin {"usedef", "crash"} => i = 0
  /\ changed \in BOOLEAN
  /\ DOMAIN insts3 = Block  \* UnreadStoresGo says what of

\* What use[B] and def[B] stand for, of the first n instructions of a block:
\* the variables used, or defined, at their first mention.
Mentions(x) == Uses(x) \cup Defs(x)
New(code, k, v) == \A j \in 1..k - 1 : v \notin Mentions(code[j])
UsedFirst(code, n) == {v \in Var : \E k \in 1..n : v \in Uses(code[k]) /\ New(code, k, v)}
DefinedFirst(code, n) ==
  {v \in Var : \E k \in 1..n : v \in Defs(code[k]) \ Uses(code[k]) /\ New(code, k, v)}
Use(b) == UsedFirst(insts[b], Len(insts[b]))
Def(b) == DefinedFirst(insts[b], Len(insts[b]))

\* The equations of the comments in data_flow_anlys (optimize_lva.c:223,237),
\* for a candidate X of what is live into each block.
VarSets == [Block -> SUBSET Var]
LiveOut(X, b) == UNION {X[s] : s \in succ[b]}
Solves(X) == \A b \in Block : X[b] = Use(b) \cup (LiveOut(X, b) \ Def(b))

\* The sets, whatever the words they are kept in.
In == [b \in Block |-> Members(in[b])]
Out == [b \in Block |-> Members(out[b])]

Flowed == pc \in {"elim", "done", "panic"}

\* The rounds stop only at a solution: a round that changed no IN leaves
\* every OUT, computed from INs of this round and the last, up to date.
SolvedAtEnd ==
  Flowed => Solves(In) /\ \A b \in Block : Out[b] = LiveOut(In, b)

\* At no time is a variable in a set that some solution does not have there.
WithinEverySolution ==
  Flowed \/ pc \in {"epoch", "flow"} =>
    \A X \in VarSets : Solves(X) =>
      \A b \in Block : In[b] \subseteq X[b] /\ Out[b] \subseteq LiveOut(X, b)

\* The blocks reached from b by walks on which all blocks but the last are open.
Reach(b, Open(_)) ==
  LET Extend(S) == S \cup UNION {succ[c] : c \in {d \in S : Open(d)}}
      reach[k \in 0..N] == IF k = 0 THEN {b} ELSE Extend(reach[k - 1])
  IN  reach[N]

\* Some walk from block b uses v before any definition of it.
Walks(v, b) == Reach(b, LAMBDA c : v \notin Def(c))
UsedFrom(v, b) == \E c \in Walks(v, b) : v \in Use(c)

\* What the sets mean: v is live into a block if and only if some walk from
\* there reaches a use of it before any definition of it.
LiveIffReached ==
  Flowed => \A b \in Block, v \in Var : v \in In[b] <=> UsedFrom(v, b)

\* The blocks the elimination is through with.
Through(b) == pc = "done" \/ (pc = "elim" /\ b < bb)

\* insts3[b] is the instructions K of the block, in their order: f is where
\* each came from.
Selects(b, K) ==
  \E f \in [DOMAIN insts3[b] -> DOMAIN insts[b]] :
    /\ \A j, k \in DOMAIN f : j < k => f[j] < f[k]
    /\ \A j \in DOMAIN f : insts3[b][j] = insts[b][f[j]]
    /\ {f[j] : j \in DOMAIN f} = K

\* A store to a variable or temporary that no walk uses first, neither from the
\* beginning nor from the end of its block.  It may still be read in the block,
\* and by other routines (see OnlyDeadGo).
Unread(b, x) ==
  /\ x.op = "store" /\ x.d \in Var \ Param
  /\ \A c \in {b} \cup succ[b] : ~UsedFrom(x.d, c)

\* elim_dead_assign, by the walks of the graph: exactly the stores that are
\* Unread go, and whatever else there is of a block stays in its order.
UnreadStoresGo ==
  \A b \in Block : Through(b) =>
    Selects(b, {k \in DOMAIN insts[b] : ~Unread(b, insts[b][k])})

\* The analysis always comes to an end, because IN sets only grow, and the
\* copy of a block never overflows; only a POP in its way ends the run.
Terminates ==
  <>(pc = IF \E b \in Block : \E k \in DOMAIN insts[b] : insts[b][k].op = "pop"
          THEN "crash" ELSE "done")

-----------------------------------------------------------------------------
(* What is expected of the pass, by what the operations mean (ir.h:26-62)  *)
(* and not by what calc_use_def takes them for.                            *)

Reads(x) ==
  Var \cap CASE x.op \in {"arith", "branch"} -> {x.r, x.s}
             [] x.op \in {"inc", "write"} -> {x.d}
             [] x.op \in {"neg", "store"} -> {x.r}
             [] x.op = "push" -> {x.d, x.r}
             [] OTHER -> {}
Assigns(x) ==
  Var \cap IF x.op \in {"arith", "inc", "neg", "store", "read"} THEN {x.d} ELSE {}

AssignedIn(b, v) == \E k \in DOMAIN insts[b] : v \in Assigns(insts[b][k])
ReadFirstIn(b, v) ==
  \E k \in DOMAIN insts[b] : /\ v \in Reads(insts[b][k])
                            /\ \A j \in 1..k - 1 : v \notin Assigns(insts[b][j])
WalksUnassigned(v, b) == Reach(b, LAMBDA c : ~AssignedIn(c, v))

\* Nothing after instruction k of the block, up to m, assigns to v.
Holds(b, v, k, m) == \A j \in k + 1..m : v \notin Assigns(insts[b][j])

ReadBehind(b, v, k) ==
  \E m \in k + 1..Len(insts[b]) : v \in Reads(insts[b][m]) /\ Holds(b, v, k, m - 1)

\* A walk from b finds v read before it is assigned to, WRITE being a reader
\* (optimize_lva.c:133), or finds the end of the routine with v as it was, for
\* others to read.
ReadOn(b, v) ==
  \E c \in WalksUnassigned(v, b) :
    \/ ReadFirstIn(c, v)
    \/ c = N /\ v \in Outer /\ ~AssignedIn(c, v)

\* The value that store k gives to v may still be read.
MayBeRead(b, v, k) ==
  \/ ReadBehind(b, v, k)
  \/ /\ Holds(b, v, k, Len(insts[b]))
     /\ (b = N /\ v \in Outer) \/ \E s \in succ[b] : ReadOn(s, v)

\* "Eliminate Dead Assign" (optimize_lva.c:271): the stores that go are dead.  A
\* store is not if its variable is read behind it in its own block, on a walk
\* from there, or by other routines behind the end of this one, as the program
\* of t47-access-var.pas reads x behind its call of f12.
OnlyDeadGo ==
  \A b \in Block : Through(b) =>
    \E K \in SUBSET DOMAIN insts[b] :
      /\ Selects(b, K)
      /\ \A k \in DOMAIN insts[b] \ K : ~MayBeRead(b, insts[b][k].d, k)
=============================================================================
