--------------------------- MODULE FlowGraphProofs ---------------------------
(***************************************************************************)
(* Proofs about FlowGraph, for every well-formed instruction list: the     *)
(* blocks cover the code, no element of lab2bb is read before it is        *)
(* written, and, if a block has room for two links in each direction, no   *)
(* path between blocks is missing.                                         *)
(***************************************************************************)
EXTENDS FlowGraph, NumberFacts, FiniteSetTheorems, SequenceTheorems, TLAPS

-----------------------------------------------------------------------------
(* The inductive invariant                                                 *)

Starts(i) == {j \in 1..i : code[j].op = "FN_START"}

\* Between a FN_START and its FN_END there is a current function, the last
\* one made, and it has the number and the scope of that FN_START.
FunInv ==
  /\ thefunc = 0 => leader = 1 \/ code[leader - 1].op = "FN_END"
  /\ thefunc # 0 =>
       /\ thefunc = Len(funs) /\ leader > 1
       /\ \E s \in 1..leader - 1 :
            /\ code[s].op = "FN_START" /\ code[s].d = funs[thefunc].scope
            /\ \A j \in s..leader - 1 : code[j].op # "FN_END"
  /\ Len(funs) = Cardinality(Starts(leader - 1))
  /\ pc \notin {"partition", "panic"} => leader = Len(code) + 1

\* A block lies before the leader, begins no earlier than the one before it
\* ends, is as long as control cannot leave or enter it, and has the number
\* of its function.
BlockInv ==
  /\ \A b \in Bid :
       /\ 1 <= blocks[b].first /\ blocks[b].first <= blocks[b].last
       /\ blocks[b].last < leader
       /\ Ends(blocks[b].last)
       /\ \A j \in blocks[b].first..blocks[b].last - 1 : ~Ends(j)
       /\ \A j \in blocks[b].first..blocks[b].last : code[j].op \notin {"FN_START", "FN_END"}
       /\ blocks[b].fun = Cardinality(Starts(blocks[b].first))
  /\ \A b, c \in Bid : b < c => blocks[b].last < blocks[c].first

\* The block list of a function is an interval of bids, and has the blocks
\* that say they are the function's.  Blocks that touch are in one.
ListInv ==
  /\ \A f \in DOMAIN funs : \A k \in DOMAIN funs[f].blocks :
       /\ funs[f].blocks[k] \in Bid
       /\ blocks[funs[f].blocks[k]].fun = f
       /\ funs[f].blocks[k] = funs[f].blocks[1] + k - 1
  /\ \A b \in Bid : /\ blocks[b].fun \in DOMAIN funs
                    /\ \E k \in DOMAIN funs[blocks[b].fun].blocks :
                         funs[blocks[b].fun].blocks[k] = b
  /\ thefunc # 0 /\ funs[thefunc].blocks # <<>> =>
       funs[thefunc].blocks[Len(funs[thefunc].blocks)] = Len(blocks)
  /\ \A b \in Bid : b + 1 \in Bid /\ blocks[b + 1].first = blocks[b].last + 1 =>
       blocks[b].fun = blocks[b + 1].fun
  /\ Bid # {} /\ blocks[Len(blocks)].last = leader - 1 => thefunc = blocks[Len(blocks)].fun

PartInv == code \in Program /\ TypeOK /\ FunInv /\ BlockInv /\ ListInv

\* The blocks have all of the code before the leader that is no bracket, and
\* the FN_START of a block's function is in front of it.
CoverInv ==
  /\ \A i \in 1..leader - 1 : code[i].op \notin {"FN_START", "FN_END"} =>
       \E b \in Bid : InBlock(b, i)
  /\ \A b \in Bid : \E s \in 1..blocks[b].first :
       /\ code[s].op = "FN_START" /\ code[s].d = funs[blocks[b].fun].scope
       /\ \A j \in s..blocks[b].first : code[j].op # "FN_END"

\* What the links are once both steps are done with a function: a block is
\* followed by the next one of its function, and by the one its jump goes to.
Falls(b, c) == c = b + 1 /\ blocks[b].fun = blocks[c].fun
Goes(b, c) ==
  /\ code[blocks[b].last].op \in Jumps
  /\ code[blocks[c].first].op = "LABEL"
  /\ code[blocks[c].first].d = code[blocks[b].last].d

\* Step1, or step2, is done with block b.
Before(b) == \E k \in DOMAIN funs[fun].blocks : k < at /\ funs[fun].blocks[k] = b
Done1(b) ==
  \/ blocks[b].fun < fun
  \/ blocks[b].fun = fun /\ (pc \in {"step2", "undefined"} \/ Before(b))
Done2(b) ==
  \/ blocks[b].fun < fun
  \/ blocks[b].fun = fun /\ pc \in {"step2", "undefined"} /\ Before(b)

\* lab2bb has, of the blocks of this function that step1 is done with, those
\* that begin with a label.
LabInv ==
  /\ \A l \in Label : lab2bb[l] # 0 =>
       /\ code[blocks[lab2bb[l]].first].op = "LABEL"
       /\ code[blocks[lab2bb[l]].first].d = l
       /\ blocks[lab2bb[l]].fun = fun
  /\ \A b \in Bid : blocks[b].fun = fun /\ Done1(b) /\ code[blocks[b].first].op = "LABEL" =>
       lab2bb[code[blocks[b].first].d] = b

Pred(b, c) == \E k \in DOMAIN pred[c] : pred[c][k] = b
Wanted(b, c) == (Falls(b, c) /\ Done1(c)) \/ (Goes(b, c) /\ Done2(b))

\* The links so far are the wanted ones, and there is room for the next.
LinkInv ==
  /\ \A b, c \in Bid : /\ Linked(b, c) <=> Wanted(b, c)
                       /\ Pred(b, c) <=> Wanted(b, c)
                       /\ Goes(b, c) /\ Done2(b) => blocks[b].fun = blocks[c].fun
  /\ \A b \in Bid : ~Done2(b) => Len(succ[b]) <= 1
  /\ \A c \in Bid : (\A b \in Bid : Goes(b, c) => ~Done2(b)) => Len(pred[c]) <= 1

\* Nothing is linked while the blocks are made; no label is missed in lab2bb.
PhaseInv ==
  /\ pc \in {"partition", "panic"} =>
       /\ fun = 1 /\ at = 1 /\ \A l \in Label : lab2bb[l] = 0
       /\ \A b \in Bid : succ[b] = <<>> /\ pred[b] = <<>>
  /\ pc = "done" => fun = Len(funs) + 1
  /\ pc = "step2" => fun <= Len(funs)
  /\ pc # "undefined"

\* What the input's well-formedness says of it.
LEMMA CodeFacts ==
  ASSUME code \in Program
  PROVE  /\ code \in Seq(Inst)
         /\ \A i \in 1..Len(code) : /\ code[i] \in Inst
                                    /\ code[i].op \in Jumps \cup {"LABEL"} => code[i].d \in Label
                                    /\ code[i].op = "FN_START" => code[i].d \in Routine
         /\ Len(code) > 0 => code[1].op = "FN_START" /\ code[Len(code)].op = "FN_END"
         /\ \A i \in 1..Len(code) - 1 : code[i].op = "FN_END" <=> code[i + 1].op = "FN_START"
         /\ \A i, j \in 1..Len(code) : i # j /\ code[i].op = "LABEL" /\ code[j].op = "LABEL" =>
              code[i].d # code[j].d
         /\ \A i, j \in 1..Len(code) : i # j /\ {code[i].op, code[j].op} \subseteq Jumps =>
              code[i].d # code[j].d
<1>1. code \in Seq(Inst) /\ WellFormed(code)
  BY ConstAssumption
<1>2. \A i \in 1..Len(code) : code[i] \in Inst
  BY <1>1
<1>3. \A i \in 1..Len(code) : /\ code[i].op \in Jumps \cup {"LABEL"} => code[i].d \in Label
                              /\ code[i].op = "FN_START" => code[i].d \in Routine
  BY <1>2 DEF Inst, Jumps
<1>4. Len(code) > 0 => code # <<>>
  BY <1>1
<1>5. DOMAIN code = 1..Len(code)
  BY <1>1
<1>. QED BY <1>1, <1>2, <1>3, <1>4, <1>5 DEF WellFormed

\* What it says of the brackets' scopes and the jumps' labels: those of one
\* routine have as many FN_START up to them.
LEMMA RoutineFacts ==
  ASSUME code \in Program
  PROVE  /\ \A i, j \in 1..Len(code) :
              code[i].op = "FN_START" /\ code[j].op = "FN_END"
                /\ Cardinality(Starts(i)) = Cardinality(Starts(j)) => code[i].d = code[j].d
         /\ \A i \in 1..Len(code) : code[i].op \in Jumps =>
              \E j \in 1..Len(code) :
                /\ code[j].op = "LABEL" /\ code[j].d = code[i].d
                /\ Cardinality(Starts(i)) = Cardinality(Starts(j))
<1>1. WellFormed(code) /\ DOMAIN code = 1..Len(code)
  BY ConstAssumption
<1>2. \A i, j \in DOMAIN code :
        code[i].op = "FN_START" /\ code[j].op = "FN_END"
          /\ Cardinality(Starts(i)) = Cardinality(Starts(j)) => code[i].d = code[j].d
  BY <1>1, Zenon DEF WellFormed, Starts
<1>3. \A i \in DOMAIN code : code[i].op \in Jumps =>
        \E j \in DOMAIN code : /\ code[j].op = "LABEL" /\ code[j].d = code[i].d
                                /\ Cardinality(Starts(i)) = Cardinality(Starts(j))
  BY <1>1, Zenon DEF WellFormed, Starts
<1>. QED BY <1>1, <1>2, <1>3

LEMMA StartsFinite ==
  ASSUME NEW i \in Nat
  PROVE  IsFiniteSet(Starts(i)) /\ Cardinality(Starts(i)) \in Nat
<1>1. Starts(i) \in SUBSET (1..i)
  BY DEF Starts
<1>2. IsFiniteSet(1..i)
  BY FS_Interval
<1>. QED BY <1>1, <1>2, FS_Subset, FS_CardinalityType

LEMMA StartsNext ==
  ASSUME NEW i \in Nat
  PROVE  Cardinality(Starts(i + 1)) =
           IF code[i + 1].op = "FN_START" THEN Cardinality(Starts(i)) + 1
                                          ELSE Cardinality(Starts(i))
<1>1. Starts(i + 1) = IF code[i + 1].op = "FN_START" THEN Starts(i) \cup {i + 1} ELSE Starts(i)
  BY DEF Starts
<1>2. i + 1 \notin Starts(i)
  BY DEF Starts
<1>. QED BY <1>1, <1>2, StartsFinite, FS_AddElement

\* A stretch of code without a FN_START is in one routine.
LEMMA StartsSame ==
  ASSUME NEW i \in Nat, NEW j \in Nat, i <= j,
         \A k \in i + 1..j : code[k].op # "FN_START"
  PROVE  Starts(i) = Starts(j)
BY DEF Starts

LEMMA NoStarts == Cardinality(Starts(0)) = 0
<1>1. Starts(0) = {}
  BY DEF Starts
<1>. QED BY <1>1, FS_EmptySet

-----------------------------------------------------------------------------
(* partition_basic_blocks                                                  *)

LEMMA Types ==
  ASSUME TypeOK
  PROVE  /\ Bid = 1..Len(blocks) /\ Len(blocks) \in Nat
         /\ \A b \in Bid : /\ blocks[b].fun \in Nat
                           /\ blocks[b].first \in Nat /\ blocks[b].last \in Nat
         /\ DOMAIN funs = 1..Len(funs) /\ Len(funs) \in Nat
         /\ \A f \in DOMAIN funs : /\ funs[f].scope \in Routine
                                  /\ funs[f].blocks \in Seq(Nat)
<1>1. Bid = 1..Len(blocks) /\ Len(blocks) \in Nat
  BY DEF TypeOK, Bid
<1>2. \A b \in Bid : blocks[b] \in BlockType
  BY <1>1, ElementOfSeq DEF TypeOK
<1>3. DOMAIN funs = 1..Len(funs) /\ Len(funs) \in Nat
  BY DEF TypeOK
<1>4. \A f \in DOMAIN funs : funs[f] \in FunType
  BY <1>3, ElementOfSeq DEF TypeOK
<1>. QED BY <1>1, <1>2, <1>3, <1>4 DEF BlockType, FunType

\* The blocks made so far lie in the code, one behind the other, and are the
\* functions'.
LEMMA BlockFacts ==
  ASSUME PartInv
  PROVE  /\ code \in Program /\ Len(code) \in Nat /\ leader \in 1..Len(code) + 1
         /\ Bid = 1..Len(blocks) /\ Len(blocks) \in Nat
         /\ DOMAIN funs = 1..Len(funs) /\ Len(funs) \in Nat
         /\ \A b \in Bid : /\ blocks[b].first \in 1..Len(code)
                           /\ blocks[b].last \in 1..Len(code)
                           /\ blocks[b].first <= blocks[b].last
                           /\ blocks[b].last < leader
                           /\ blocks[b].fun \in DOMAIN funs
         /\ \A b, c \in Bid : b < c => blocks[b].last < blocks[c].first
         /\ \A f \in DOMAIN funs : \A k \in DOMAIN funs[f].blocks : k \in Nat \ {0}
<1>1. TypeOK /\ BlockInv /\ ListInv /\ code \in Program
  BY DEF PartInv
<1>2. leader \in 1..Len(code) + 1 /\ Len(code) \in Nat
  <2>1. leader \in 1..Len(code) + 1
    BY <1>1 DEF TypeOK
  <2>. QED BY <1>1, <2>1, CodeFacts
<1>3. /\ Bid = 1..Len(blocks) /\ Len(blocks) \in Nat
      /\ DOMAIN funs = 1..Len(funs) /\ Len(funs) \in Nat
      /\ \A b \in Bid : blocks[b].first \in Nat /\ blocks[b].last \in Nat
      /\ \A f \in DOMAIN funs : funs[f].blocks \in Seq(Nat)
  BY <1>1, Types
<1>4. \A b \in Bid : /\ 1 <= blocks[b].first /\ blocks[b].first <= blocks[b].last
                     /\ blocks[b].last < leader
  BY <1>1 DEF BlockInv
<1>5. \A b, c \in Bid : b < c => blocks[b].last < blocks[c].first
  BY <1>1 DEF BlockInv
<1>6. \A b \in Bid : blocks[b].fun \in DOMAIN funs
  BY <1>1 DEF ListInv
<1>7. \A b \in Bid : blocks[b].first \in 1..Len(code) /\ blocks[b].last \in 1..Len(code)
  BY <1>2, <1>3, <1>4
<1>8. \A f \in DOMAIN funs : \A k \in DOMAIN funs[f].blocks : k \in Nat \ {0}
  BY <1>3
<1>. QED BY <1>1, <1>2, <1>3, <1>4, <1>5, <1>6, <1>7, <1>8

\* Outside the brackets there is nothing but the next FN_START.
LEMMA InFunction ==
  ASSUME PartInv, leader <= Len(code), code[leader].op # "FN_START"
  PROVE  thefunc # 0 /\ thefunc = Len(funs)
<1>1. leader \in 1..Len(code) /\ Len(code) \in Nat
  BY CodeFacts DEF PartInv, TypeOK
<1>2. CASE thefunc = 0 /\ leader = 1
  BY <1>1, <1>2, CodeFacts DEF PartInv
<1>3. CASE thefunc = 0 /\ leader # 1
  <2>1. code[leader - 1].op = "FN_END" /\ leader - 1 \in 1..Len(code) - 1
    BY <1>1, <1>3 DEF PartInv, FunInv
  <2>2. code[leader - 1 + 1].op = "FN_START"
    BY <2>1, CodeFacts DEF PartInv
  <2>. QED BY <2>2, <1>1
<1>. QED BY <1>2, <1>3 DEF PartInv, FunInv

\* The end of the block that begins at the leader.
BlockEnd == CHOOSE i \in leader..Len(code) : Ends(i) /\ \A j \in leader..i - 1 : ~Ends(j)

LEMMA BlockEndFacts ==
  ASSUME code \in Program, leader \in 1..Len(code)
  PROVE  /\ BlockEnd \in leader..Len(code)
         /\ Ends(BlockEnd)
         /\ \A j \in leader..BlockEnd - 1 : ~Ends(j)
<1>. DEFINE S == {i \in leader..Len(code) : Ends(i)}
<1>0. Len(code) \in Nat
  BY CodeFacts
<1>1. Len(code) \in S
  BY <1>0 DEF Ends
<1>2. PICK i \in S : \A j \in S : i <= j
  <2>1. S \subseteq Nat /\ S # {}
    BY <1>0, <1>1
  <2>. HIDE DEF S
  <2>. QED BY <2>1, LeastNat
<1>3. i \in leader..Len(code) /\ Ends(i) /\ \A j \in leader..i - 1 : ~Ends(j)
  BY <1>0, <1>2
<1>. QED BY <1>3 DEF BlockEnd

LEMMA PartInit == Init => PartInv
<1>. SUFFICES ASSUME Init PROVE PartInv
  OBVIOUS
<1>0. Len(code) \in Nat
  BY CodeFacts DEF Init
<1>1. TypeOK
  BY <1>0 DEF Init, TypeOK
<1>2. FunInv
  BY NoStarts DEF Init, FunInv
<1>3. Bid = {}
  BY DEF Init, Bid
<1>. QED BY <1>1, <1>2, <1>3 DEF Init, PartInv, BlockInv, ListInv

LEMMA CreateFunction == PartInv /\ create_function_object => PartInv'
<1>. SUFFICES ASSUME PartInv, create_function_object PROVE PartInv'
  OBVIOUS
<1>0. /\ leader \in 1..Len(code) /\ Len(code) \in Nat /\ pc = "partition"
      /\ code[leader].op = "FN_START" /\ code[leader].d \in Routine
  BY CodeFacts DEF PartInv, TypeOK, create_function_object, Partitioning
<1>. DEFINE new == [scope |-> code[leader].d, blocks |-> <<>>]
<1>1. /\ funs' = Append(funs, new) /\ thefunc' = Len(funs) + 1 /\ leader' = leader + 1
      /\ UNCHANGED <<code, blocks, succ, pred, lab2bb, pc, fun, at>>
  BY DEF create_function_object
<1>2. /\ funs \in Seq(FunType)
      /\ new \in FunType
      /\ new.blocks = <<>> /\ new.scope = code[leader].d
  BY <1>0 DEF PartInv, TypeOK, FunType
<1>. HIDE DEF new
<1>3. /\ funs' \in Seq(FunType)
      /\ Len(funs') = Len(funs) + 1
      /\ \A f \in 1..Len(funs) : funs'[f] = funs[f]
      /\ funs'[Len(funs) + 1] = new
      /\ DOMAIN funs' = 1..Len(funs) + 1 /\ DOMAIN funs = 1..Len(funs)
  BY <1>1, <1>2
<1>4. TypeOK'
  BY <1>0, <1>1, <1>3 DEF PartInv, TypeOK
<1>5. FunInv'
  <2>1. Len(funs) + 1 = Cardinality(Starts(leader))
    BY <1>0, StartsNext DEF PartInv, FunInv
  <2>2. leader' - 1 = leader
    BY <1>0, <1>1
  <2>3. Starts(leader - 1)' = Starts(leader)
    BY <1>1, <2>2 DEF Starts
  <2>. QED BY <1>0, <1>1, <1>2, <1>3, <2>1, <2>2, <2>3 DEF PartInv, FunInv, Starts
<1>6. BlockInv'
  <2>1. Bid = 1..Len(blocks) /\ Bid' = Bid
    BY <1>1 DEF PartInv, TypeOK, Bid
  <2>2. \A i : Ends(i)' = Ends(i) /\ Starts(i)' = Starts(i)
    BY <1>1 DEF Ends, Starts
  <2>3. \A b \in Bid : blocks[b].first \in Nat /\ blocks[b].last \in Nat
    BY Types DEF PartInv
  <2>. QED BY <1>0, <1>1, <2>1, <2>2, <2>3 DEF PartInv, BlockInv
<1>7. ListInv'
  <2>0. Bid = 1..Len(blocks) /\ Bid' = Bid /\ Len(blocks) \in Nat
    BY <1>1 DEF PartInv, TypeOK, Bid
  <2>1. (\A f \in DOMAIN funs : \A k \in DOMAIN funs[f].blocks :
           /\ funs[f].blocks[k] \in Bid
           /\ blocks[funs[f].blocks[k]].fun = f
           /\ funs[f].blocks[k] = funs[f].blocks[1] + k - 1)'
    BY <1>1, <1>2, <1>3, <2>0 DEF PartInv, ListInv
  <2>2. (\A b \in Bid : /\ blocks[b].fun \in DOMAIN funs
                        /\ \E k \in DOMAIN funs[blocks[b].fun].blocks :
                             funs[blocks[b].fun].blocks[k] = b)'
    <3>1. \A b \in Bid : /\ blocks[b].fun \in 1..Len(funs)
                        /\ \E k \in DOMAIN funs[blocks[b].fun].blocks :
                             funs[blocks[b].fun].blocks[k] = b
      BY <1>3 DEF PartInv, ListInv
    <3>2. \A b \in Bid : funs'[blocks[b].fun] = funs[blocks[b].fun] /\ blocks[b].fun \in DOMAIN funs'
      BY <1>3, <3>1
    <3>3. blocks' = blocks /\ Bid' = Bid
      BY <1>1, <2>0
    <3>. QED BY <3>1, <3>2, <3>3, Zenon
  <2>3. (thefunc # 0 => funs[thefunc].blocks = <<>>)'
    BY <1>1, <1>2, <1>3
  <2>4. \A b \in Bid : blocks[b].last < leader /\ blocks[b].last \in Nat
    BY <2>0, Types DEF PartInv, BlockInv
  <2>5. Bid' # {} => blocks[Len(blocks)]'.last # leader' - 1
    BY <1>0, <1>1, <2>0, <2>4
  <2>. QED BY <1>1, <2>0, <2>1, <2>2, <2>3, <2>5 DEF PartInv, ListInv
<1>. QED BY <1>1, <1>4, <1>5, <1>6, <1>7 DEF PartInv

LEMMA FunctionFinish == PartInv /\ function_finish => PartInv' /\ pc' = "partition"
<1>. SUFFICES ASSUME PartInv, function_finish PROVE PartInv' /\ pc' = "partition"
  OBVIOUS
<1>0. /\ leader \in 1..Len(code) /\ Len(code) \in Nat /\ pc = "partition"
      /\ code[leader].op = "FN_END"
  BY CodeFacts DEF PartInv, TypeOK, function_finish, Partitioning
<1>1. thefunc # 0 /\ thefunc = Len(funs)
  BY <1>0, InFunction
<1>2. PICK s \in 1..leader - 1 :
        /\ code[s].op = "FN_START" /\ code[s].d = funs[thefunc].scope
        /\ \A j \in s..leader - 1 : code[j].op # "FN_END"
  BY <1>1 DEF PartInv, FunInv
<1>3. \A k \in s + 1..leader : code[k].op # "FN_START"
  <2>. SUFFICES ASSUME NEW k \in s + 1..leader, code[k].op = "FN_START" PROVE FALSE
    OBVIOUS
  <2>1. k - 1 \in 1..Len(code) - 1 /\ k - 1 \in s..leader - 1
    BY <1>0
  <2>2. code[k - 1 + 1].op # "FN_START"
    BY <1>2, <2>1, CodeFacts DEF PartInv
  <2>. QED BY <2>2
<1>4. Starts(s) = Starts(leader)
  BY <1>0, <1>3, StartsSame
<1>5. code[s].d = code[leader].d
  BY <1>0, <1>2, <1>4, RoutineFacts DEF PartInv
<1>6. /\ thefunc' = 0 /\ leader' = leader + 1 /\ pc' = pc
      /\ UNCHANGED <<code, funs, blocks, succ, pred, lab2bb, fun, at>>
  BY <1>2, <1>5 DEF function_finish
<1>7. TypeOK'
  BY <1>0, <1>6 DEF PartInv, TypeOK
<1>8. FunInv'
  <2>1. Cardinality(Starts(leader)) = Cardinality(Starts(leader - 1))
    <3>1. leader - 1 \in Nat /\ leader - 1 + 1 = leader
      BY <1>0
    <3>2. Cardinality(Starts(leader - 1 + 1)) = Cardinality(Starts(leader - 1))
      BY <1>0, <3>1, StartsNext
    <3>. QED BY <3>1, <3>2
  <2>2. Starts(leader - 1)' = Starts(leader) /\ leader' - 1 = leader
    BY <1>0, <1>6 DEF Starts
  <2>. QED BY <1>0, <1>6, <2>1, <2>2 DEF PartInv, FunInv
<1>9. Bid = 1..Len(blocks) /\ Bid' = Bid /\ Len(blocks) \in Nat
  BY <1>6 DEF PartInv, TypeOK, Bid
<1>10. \A b \in Bid : blocks[b].last < leader /\ blocks[b].first \in Nat /\ blocks[b].last \in Nat
  BY Types DEF PartInv, BlockInv
<1>11. BlockInv'
  <2>1. \A i : Ends(i)' = Ends(i) /\ Starts(i)' = Starts(i)
    BY <1>6 DEF Ends, Starts
  <2>. QED BY <1>0, <1>6, <1>9, <1>10, <2>1 DEF PartInv, BlockInv
<1>12. ListInv'
  <2>1. Bid' # {} => blocks[Len(blocks)]'.last # leader' - 1
    BY <1>0, <1>6, <1>9, <1>10
  <2>. QED BY <1>6, <1>9, <2>1 DEF PartInv, ListInv
<1>. QED BY <1>0, <1>6, <1>7, <1>8, <1>11, <1>12 DEF PartInv
LEMMA CreateBlock == PartInv /\ create_basic_block => PartInv'
<1>. SUFFICES ASSUME PartInv, create_basic_block PROVE PartInv'
  OBVIOUS
<1>. DEFINE new == [fun |-> thefunc, first |-> leader, last |-> BlockEnd]
            bid == Len(blocks) + 1
<1>0. /\ leader \in 1..Len(code) /\ Len(code) \in Nat /\ pc = "partition"
      /\ code[leader].op \notin {"FN_START", "FN_END"}
  BY CodeFacts DEF PartInv, TypeOK, create_basic_block
<1>1. \/ /\ pc' = "panic"
         /\ UNCHANGED <<code, leader, funs, thefunc, blocks, succ, pred, lab2bb, fun, at>>
      \/ /\ blocks' = Append(blocks, new)
         /\ funs' = [funs EXCEPT ![thefunc].blocks = Append(@, bid)]
         /\ succ' = Append(succ, <<>>) /\ pred' = Append(pred, <<>>)
         /\ leader' = BlockEnd + 1
         /\ UNCHANGED <<code, thefunc, lab2bb, pc, fun, at>>
  BY Zenon DEF create_basic_block, BlockEnd
<1>2. ASSUME pc' = "panic",
             UNCHANGED <<code, leader, funs, thefunc, blocks, succ, pred, lab2bb, fun, at>>
      PROVE  PartInv'
  <2>1. \A i : Ends(i)' = Ends(i) /\ Starts(i)' = Starts(i)
    BY <1>2 DEF Ends, Starts
  <2>2. TypeOK'
    BY <1>2 DEF PartInv, TypeOK
  <2>3. Starts(leader - 1)' = Starts(leader - 1)
    BY <1>2 DEF Starts
  <2>4. FunInv'
    BY <1>2, <2>3 DEF PartInv, FunInv
  <2>5. Bid' = Bid
    BY <1>2 DEF Bid
  <2>6. BlockInv'
    BY <1>2, <2>1, <2>5 DEF PartInv, BlockInv
  <2>7. ListInv'
    BY <1>2, <2>5 DEF PartInv, ListInv
  <2>. QED BY <1>2, <2>2, <2>4, <2>6, <2>7 DEF PartInv
<1>3. ASSUME blocks' = Append(blocks, new),
             funs' = [funs EXCEPT ![thefunc].blocks = Append(@, bid)],
             succ' = Append(succ, <<>>), pred' = Append(pred, <<>>),
             leader' = BlockEnd + 1,
             UNCHANGED <<code, thefunc, lab2bb, pc, fun, at>>
      PROVE  PartInv'
  <2>1. thefunc # 0 /\ thefunc = Len(funs) /\ thefunc \in DOMAIN funs
    BY <1>0, InFunction, Types DEF PartInv, TypeOK
  <2>2. /\ BlockEnd \in leader..Len(code) /\ Ends(BlockEnd)
        /\ \A j \in leader..BlockEnd - 1 : ~Ends(j)
    BY <1>0, BlockEndFacts DEF PartInv
  <2>3. \A j \in leader..BlockEnd : code[j].op \notin {"FN_START", "FN_END"}
    <3>. SUFFICES ASSUME NEW j \in leader + 1..BlockEnd
                  PROVE  code[j].op \notin {"FN_START", "FN_END"}
      BY <1>0
    <3>1. ~Ends(j - 1) /\ j - 1 + 1 = j
      BY <1>0, <2>2
    <3>. QED BY <3>1 DEF Ends
  <2>4. \A j \in leader..BlockEnd : Starts(j) = Starts(leader - 1)
    <3>. TAKE j \in leader..BlockEnd
    <3>1. j \in Nat /\ leader - 1 \in Nat /\ leader - 1 <= j
      BY <1>0, <2>2
    <3>2. \A k \in leader - 1 + 1..j : code[k].op # "FN_START"
      BY <1>0, <2>2, <2>3
    <3>. QED BY <3>1, <3>2, StartsSame
  <2>5. /\ Bid = 1..Len(blocks) /\ Len(blocks) \in Nat /\ bid \notin Bid
        /\ Bid' = Bid \cup {bid} /\ Len(blocks') = bid
        /\ \A b \in Bid : blocks'[b] = blocks[b]
        /\ blocks'[bid] = new
    <3>1. blocks \in Seq(BlockType) /\ Len(blocks) \in Nat /\ Bid = 1..Len(blocks)
      BY Types DEF PartInv, TypeOK
    <3>2. new \in BlockType
      BY <1>0, <2>1, <2>2, Types DEF PartInv, BlockType
    <3>. HIDE DEF new
    <3>3. /\ Len(blocks') = bid /\ blocks' \in Seq(BlockType)
          /\ \A b \in 1..Len(blocks) : blocks'[b] = blocks[b]
          /\ blocks'[bid] = new
      BY <1>3, <3>1, <3>2, AppendProperties
    <3>4. Bid' = 1..bid
      BY <3>3 DEF Bid
    <3>. QED BY <3>1, <3>3, <3>4
  <2>6. new \in BlockType
    BY <1>0, <2>1, <2>2, Types DEF PartInv, BlockType
  <2>7. /\ Len(funs') = Len(funs) /\ DOMAIN funs' = DOMAIN funs
        /\ \A f \in DOMAIN funs : /\ f # thefunc => funs'[f] = funs[f]
                                  /\ funs'[f].scope = funs[f].scope
        /\ funs'[thefunc].blocks = Append(funs[thefunc].blocks, bid)
        /\ funs' \in Seq(FunType)
    <3>. DEFINE g == [funs[thefunc] EXCEPT !.blocks = Append(@, bid)]
    <3>1. funs' = [funs EXCEPT ![thefunc] = g]
      BY <1>3
    <3>2. funs[thefunc] \in FunType
      BY <2>1, ElementOfSeq DEF PartInv, TypeOK
    <3>3. /\ g \in FunType /\ g.scope = funs[thefunc].scope
          /\ g.blocks = Append(funs[thefunc].blocks, bid)
      <4>1. funs[thefunc].blocks \in Seq(Nat) /\ bid \in Nat
        BY <2>5, <3>2 DEF FunType
      <4>2. Append(funs[thefunc].blocks, bid) \in Seq(Nat)
        BY <4>1, AppendProperties
      <4>. QED BY <3>2, <4>2 DEF FunType
    <3>. HIDE DEF g
    <3>4. funs' \in Seq(FunType) /\ Len(funs') = Len(funs)
      BY <2>1, <3>1, <3>3, ExceptSeq DEF PartInv, TypeOK
    <3>. QED BY <2>1, <3>1, <3>3, <3>4
  <2>. HIDE DEF new
  <2>8. new.fun = thefunc /\ new.first = leader /\ new.last = BlockEnd
    BY DEF new
  <2>9. TypeOK'
    <3>1. blocks' \in Seq(BlockType)
      BY <1>3, <2>6 DEF PartInv, TypeOK
    <3>2. /\ succ' \in Seq(Seq(Nat)) /\ Len(succ') = bid
          /\ pred' \in Seq(Seq(Nat)) /\ Len(pred') = bid
      BY <1>3, <2>5 DEF PartInv, TypeOK
    <3>3. leader' \in 1..Len(code') + 1
      BY <1>0, <1>3, <2>2
    <3>4. thefunc' \in 0..Len(funs')
      BY <1>3, <2>7 DEF PartInv, TypeOK
    <3>5. lab2bb' \in [Label -> 0..Len(blocks')]
      <4>1. lab2bb \in [Label -> 0..Len(blocks)] /\ 0..Len(blocks) \subseteq 0..bid
        BY <2>5 DEF PartInv, TypeOK
      <4>2. lab2bb' = lab2bb /\ Len(blocks') = bid
        BY <1>3, <2>5
      <4>. QED BY <4>1, <4>2
    <3>6. /\ pc' \in {"partition", "step1", "step2", "done", "panic", "undefined"}
          /\ fun' \in 1..Len(funs') + 1 /\ at' \in Nat \ {0}
      BY <1>3, <2>7 DEF PartInv, TypeOK
    <3>. QED BY <2>5, <2>7, <3>1, <3>2, <3>3, <3>4, <3>5, <3>6 DEF TypeOK
  <2>10. \A i : Ends(i)' = Ends(i) /\ Starts(i)' = Starts(i)
    BY <1>3 DEF Ends, Starts
  <2>11. FunInv'
    <3>1. leader' - 1 = BlockEnd /\ leader' > 1
      BY <1>0, <1>3, <2>2
    <3>2. Starts(leader - 1)' = Starts(BlockEnd)
      BY <1>3, <3>1 DEF Starts
    <3>3. Len(funs') = Cardinality(Starts(BlockEnd))
      BY <1>0, <2>2, <2>4, <2>7 DEF PartInv, FunInv
    <3>4. PICK s \in 1..leader - 1 :
            /\ code[s].op = "FN_START" /\ code[s].d = funs[thefunc].scope
            /\ \A j \in s..leader - 1 : code[j].op # "FN_END"
      BY <2>1 DEF PartInv, FunInv
    <3>5. s \in 1..BlockEnd /\ \A j \in s..BlockEnd : code[j].op # "FN_END"
      BY <1>0, <2>2, <2>3, <3>4
    <3>6. thefunc' # 0 /\ thefunc' = Len(funs') /\ funs'[thefunc'].scope = funs[thefunc].scope
      BY <1>3, <2>1, <2>7
    <3>7. \E i \in 1..leader' - 1 :
            /\ code'[i].op = "FN_START" /\ code'[i].d = funs'[thefunc'].scope
            /\ \A j \in i..leader' - 1 : code'[j].op # "FN_END"
      BY <1>3, <3>1, <3>4, <3>5, <3>6
    <3>8. Len(funs') = Cardinality(Starts(leader - 1)')
      BY <3>2, <3>3
    <3>9. pc' = "partition"
      BY <1>0, <1>3
    <3>. QED BY <3>1, <3>6, <3>7, <3>8, <3>9 DEF FunInv
  <2>12. BlockInv'
    <3>1. \A b \in Bid : blocks[b].last < leader /\ blocks[b].first \in Nat /\ blocks[b].last \in Nat
      BY Types DEF PartInv, BlockInv
    <3>2. new.fun = Cardinality(Starts(new.first))
      BY <1>0, <2>1, <2>2, <2>4, <2>8 DEF PartInv, FunInv
    <3>3. \A b \in Bid' :
            /\ 1 <= blocks'[b].first /\ blocks'[b].first <= blocks'[b].last
            /\ blocks'[b].last < leader'
            /\ Ends(blocks'[b].last)
            /\ \A j \in blocks'[b].first..blocks'[b].last - 1 : ~Ends(j)
            /\ \A j \in blocks'[b].first..blocks'[b].last : code[j].op \notin {"FN_START", "FN_END"}
            /\ blocks'[b].fun = Cardinality(Starts(blocks'[b].first))
      <4>. TAKE b \in Bid'
      <4>1. CASE b = bid
        <5>1. blocks'[b].first = leader /\ blocks'[b].last = BlockEnd
          BY <2>5, <2>8, <4>1
        <5>2. blocks'[b].fun = Cardinality(Starts(leader))
          BY <2>5, <2>8, <3>2, <4>1
        <5>3. 1 <= leader /\ leader <= BlockEnd /\ BlockEnd < leader'
          BY <1>0, <1>3, <2>2
        <5>. QED BY <2>2, <2>3, <5>1, <5>2, <5>3
      <4>2. CASE b \in Bid
        BY <1>0, <1>3, <2>2, <2>5, <3>1, <4>2 DEF PartInv, BlockInv
      <4>. QED BY <2>5, <4>1, <4>2
    <3>4. \A b, c \in Bid' : b < c => blocks'[b].last < blocks'[c].first
      <4>. TAKE b, c \in Bid'
      <4>1. CASE c \in Bid
        BY <2>5, <4>1 DEF PartInv, BlockInv
      <4>2. CASE c = bid
        BY <2>5, <2>8, <3>1, <4>2
      <4>. QED BY <2>5, <4>1, <4>2
    <3>. QED BY <1>3, <2>10, <3>3, <3>4 DEF BlockInv
  <2>13. ListInv'
    <3>1. funs[thefunc].blocks \in Seq(Nat)
      BY <2>1, Types DEF PartInv
    <3>. DEFINE list == funs[thefunc].blocks
    <3>2. /\ DOMAIN list = 1..Len(list) /\ Len(list) \in Nat
          /\ DOMAIN funs'[thefunc].blocks = 1..Len(list) + 1
          /\ Len(funs'[thefunc].blocks) = Len(list) + 1
          /\ \A k \in 1..Len(list) : funs'[thefunc].blocks[k] = list[k]
          /\ funs'[thefunc].blocks[Len(list) + 1] = bid
      BY <2>7, <3>1
    <3>3. \A k \in 1..Len(list) : /\ list[k] \in Bid /\ blocks[list[k]].fun = thefunc
                                  /\ list[k] = list[1] + k - 1
      <4>1. thefunc \in DOMAIN funs
        BY <2>1
      <4>2. \A k \in DOMAIN list : /\ list[k] \in Bid /\ blocks[list[k]].fun = thefunc
                                   /\ list[k] = list[1] + k - 1
        BY <4>1 DEF PartInv, ListInv
      <4>. QED BY <3>2, <4>2
    <3>4. Len(list) > 0 => list[Len(list)] = Len(blocks)
      BY <2>1, <3>1 DEF PartInv, ListInv
    <3>. HIDE DEF list
    <3>5. \A k \in 1..Len(list) + 1 :
            /\ funs'[thefunc].blocks[k] \in Bid'
            /\ blocks'[funs'[thefunc].blocks[k]].fun = thefunc
            /\ funs'[thefunc].blocks[k] = funs'[thefunc].blocks[1] + k - 1
      <4>. TAKE k \in 1..Len(list) + 1
      <4>1. CASE k \in 1..Len(list)
        <5>1. list[k] \in Bid /\ blocks[list[k]].fun = thefunc /\ list[k] = list[1] + k - 1
          BY <3>3, <4>1
        <5>2. funs'[thefunc].blocks[k] = list[k] /\ funs'[thefunc].blocks[1] = list[1]
          BY <3>2, <4>1
        <5>. QED BY <2>5, <5>1, <5>2
      <4>2. CASE k = Len(list) + 1
        <5>1. /\ funs'[thefunc].blocks[k] = bid /\ blocks'[bid].fun = thefunc
              /\ bid \in Bid' /\ bid \in Nat
          BY <2>5, <2>8, <3>2, <4>2
        <5>2. bid = funs'[thefunc].blocks[1] + k - 1
          <6>1. CASE Len(list) = 0
            BY <5>1, <3>2, <4>2, <6>1
          <6>2. CASE Len(list) > 0
            <7>1. /\ list[Len(list)] = list[1] + Len(list) - 1 /\ list[1] \in Nat
                  /\ funs'[thefunc].blocks[1] = list[1]
              BY <2>5, <3>2, <3>3, <6>2
            <7>2. Len(blocks) = list[1] + Len(list) - 1 /\ Len(list) \in Nat /\ Len(blocks) \in Nat
              BY <2>5, <3>2, <3>4, <6>2, <7>1
            <7>. DEFINE a == list[1]
                        m == Len(list)
                        n == Len(blocks)
            <7>3. a \in Nat /\ m \in Nat /\ n \in Nat /\ n = a + m - 1 /\ k = m + 1 /\ bid = n + 1
              BY <4>2, <7>1, <7>2
            <7>. HIDE DEF a, m, n, bid
            <7>4. bid = a + k - 1
              BY <7>3
            <7>5. bid = list[1] + k - 1
              BY <7>4 DEF a
            <7>. QED BY <7>1, <7>5
          <6>. QED BY <3>2, <6>1, <6>2
        <5>. QED BY <5>1, <5>2
      <4>. QED BY <3>2, <4>1, <4>2
    <3>6. \A f \in DOMAIN funs' : \A k \in DOMAIN funs'[f].blocks :
            /\ funs'[f].blocks[k] \in Bid'
            /\ blocks'[funs'[f].blocks[k]].fun = f
            /\ funs'[f].blocks[k] = funs'[f].blocks[1] + k - 1
      <4>. TAKE f \in DOMAIN funs'
      <4>1. CASE f = thefunc
        BY <3>2, <3>5, <4>1
      <4>2. CASE f # thefunc
        BY <2>5, <2>7, <4>2 DEF PartInv, ListInv
      <4>. QED BY <4>1, <4>2
    <3>7. \A b \in Bid' : /\ blocks'[b].fun \in DOMAIN funs'
                          /\ \E k \in DOMAIN funs'[blocks'[b].fun].blocks :
                               funs'[blocks'[b].fun].blocks[k] = b
      <4>. TAKE b \in Bid'
      <4>1. CASE b = bid
        BY <2>1, <2>5, <2>7, <2>8, <3>2, <4>1
      <4>2. CASE b \in Bid
        <5>1. /\ blocks[b].fun \in DOMAIN funs
              /\ \E k \in DOMAIN funs[blocks[b].fun].blocks :
                   funs[blocks[b].fun].blocks[k] = b
          BY <4>2 DEF PartInv, ListInv
        <5>2. CASE blocks[b].fun = thefunc
          <6>1. PICK k \in 1..Len(list) : list[k] = b
            BY <3>2, <5>1, <5>2 DEF list
          <6>2. k \in DOMAIN funs'[thefunc].blocks /\ funs'[thefunc].blocks[k] = b
            BY <3>2, <6>1
          <6>. QED BY <2>1, <2>5, <2>7, <4>2, <5>2, <6>2
        <5>3. CASE blocks[b].fun # thefunc
          BY <2>5, <2>7, <4>2, <5>1, <5>3
        <5>. QED BY <5>2, <5>3
      <4>. QED BY <2>5, <4>1, <4>2
    <3>8. \A b \in Bid' : b + 1 \in Bid' /\ blocks'[b + 1].first = blocks'[b].last + 1 =>
            blocks'[b].fun = blocks'[b + 1].fun
      <4>. SUFFICES ASSUME NEW b \in Bid', b + 1 \in Bid',
                           blocks'[b + 1].first = blocks'[b].last + 1
                    PROVE  blocks'[b].fun = blocks'[b + 1].fun
        OBVIOUS
      <4>1. CASE b + 1 = bid
        <5>1. b = Len(blocks) /\ b \in Bid /\ blocks[b].last = leader - 1
          BY <1>0, <2>5, <2>8, <4>1, Types DEF PartInv
        <5>. QED BY <2>5, <2>8, <4>1, <5>1 DEF PartInv, ListInv
      <4>2. CASE b + 1 # bid
        <5>1. b \in Bid /\ b + 1 \in Bid
          BY <2>5, <4>2
        <5>. QED BY <2>5, <5>1 DEF PartInv, ListInv
      <4>. QED BY <4>1, <4>2
    <3>9. blocks'[Len(blocks')].fun = thefunc /\ funs'[thefunc].blocks[Len(list) + 1] = Len(blocks')
      BY <2>5, <2>8, <3>2
    <3>10. thefunc' = thefunc /\ Len(funs'[thefunc'].blocks) = Len(list) + 1
      BY <1>3, <3>2
    <3>. QED BY <3>6, <3>7, <3>8, <3>9, <3>10 DEF ListInv
  <2>. QED BY <1>3, <2>9, <2>11, <2>12, <2>13 DEF PartInv
<1>. QED BY <1>1, <1>2, <1>3
\* The rest of the code is covered when a step adds to the blocks.
LEMMA CoverStep ==
  PartInv /\ CoverInv /\ PartInv'
    /\ (create_function_object \/ function_finish \/ create_basic_block) => CoverInv'
<1>. SUFFICES ASSUME PartInv, CoverInv, PartInv',
                     create_function_object \/ function_finish \/ create_basic_block
              PROVE  CoverInv'
  OBVIOUS
<1>0. /\ Bid = 1..Len(blocks) /\ Len(blocks) \in Nat /\ leader \in Nat \ {0} /\ Len(code) \in Nat
      /\ \A b \in Bid : blocks[b].first \in Nat /\ blocks[b].last \in Nat
      /\ \A b \in Bid : 1 <= blocks[b].first /\ blocks[b].last < leader
      /\ DOMAIN funs = 1..Len(funs) /\ Len(funs) \in Nat
      /\ \A b \in Bid : blocks[b].fun \in DOMAIN funs
  <2>1. TypeOK /\ code \in Program
    BY DEF PartInv
  <2>2. leader \in 1..Len(code) + 1 /\ Len(code) \in Nat
    BY <2>1, CodeFacts DEF TypeOK
  <2>3. /\ \A b \in Bid : 1 <= blocks[b].first /\ blocks[b].last < leader
        /\ \A b \in Bid : blocks[b].fun \in DOMAIN funs
    BY DEF PartInv, BlockInv, ListInv
  <2>. QED BY <2>1, <2>2, <2>3, Types
<1>1. ASSUME create_function_object PROVE CoverInv'
  <2>1. /\ blocks' = blocks /\ code' = code /\ leader' = leader + 1 /\ Bid' = Bid
        /\ code[leader].op = "FN_START"
    BY <1>1 DEF create_function_object, Partitioning, Bid
  <2>2. \A f \in DOMAIN funs : funs'[f] = funs[f]
    BY <1>0, <1>1 DEF create_function_object, PartInv, TypeOK
  <2>3. (\A i \in 1..leader - 1 : code[i].op \notin {"FN_START", "FN_END"} =>
           \E b \in Bid : InBlock(b, i))'
    <3>1. \A i \in 1..leader' - 1 : code[i].op \notin {"FN_START", "FN_END"} =>
            i \in 1..leader - 1
      BY <1>0, <2>1
    <3>2. \A i \in 1..leader' - 1 : code[i].op \notin {"FN_START", "FN_END"} =>
            \E b \in Bid : InBlock(b, i)
      BY <3>1 DEF CoverInv
    <3>. QED BY <2>1, <3>2 DEF InBlock
  <2>4. \A b \in Bid : \E s \in 1..blocks[b].first :
          /\ code[s].op = "FN_START" /\ code[s].d = funs'[blocks[b].fun].scope
          /\ \A j \in s..blocks[b].first : code[j].op # "FN_END"
    <3>. TAKE b \in Bid
    <3>1. PICK s \in 1..blocks[b].first :
            /\ code[s].op = "FN_START" /\ code[s].d = funs[blocks[b].fun].scope
            /\ \A j \in s..blocks[b].first : code[j].op # "FN_END"
      BY DEF CoverInv
    <3>2. funs'[blocks[b].fun].scope = funs[blocks[b].fun].scope
      BY <1>0, <2>2
    <3>. QED BY <3>1, <3>2
  <2>. QED BY <2>1, <2>3, <2>4 DEF CoverInv
<1>2. ASSUME function_finish PROVE CoverInv'
  <2>2. /\ blocks' = blocks /\ code' = code /\ Bid' = Bid /\ funs' = funs
        /\ leader' \in {leader, leader + 1}
        /\ code[leader].op = "FN_END"
    BY <1>2 DEF function_finish, Partitioning, Bid
  <2>3. (\A i \in 1..leader - 1 : code[i].op \notin {"FN_START", "FN_END"} =>
           \E b \in Bid : InBlock(b, i))'
    <3>1. \A i \in 1..leader' - 1 : code[i].op \notin {"FN_START", "FN_END"} =>
            i \in 1..leader - 1
      <4>1. 1..leader' - 1 \subseteq 1..leader
        <5>1. leader' = leader \/ leader' = leader + 1
          BY <2>2
        <5>. QED BY <1>0, <5>1
      <4>2. \A i \in 1..leader : i # leader => i \in 1..leader - 1
        BY <1>0
      <4>. QED BY <2>2, <4>1, <4>2
    <3>2. \A i \in 1..leader' - 1 : code[i].op \notin {"FN_START", "FN_END"} =>
            \E b \in Bid : InBlock(b, i)
      BY <3>1 DEF CoverInv
    <3>. QED BY <2>2, <3>2 DEF InBlock
  <2>. QED BY <2>2, <2>3 DEF CoverInv
<1>3. ASSUME create_basic_block PROVE CoverInv'
  <2>. DEFINE new == [fun |-> thefunc, first |-> leader, last |-> BlockEnd]
              bid == Len(blocks) + 1
  <2>0. /\ leader \in 1..Len(code) /\ code[leader].op \notin {"FN_START", "FN_END"}
    BY <1>0, <1>3 DEF create_basic_block
  <2>1. \/ UNCHANGED <<code, leader, funs, blocks>>
        \/ /\ blocks' = Append(blocks, new)
           /\ funs' = [funs EXCEPT ![thefunc].blocks = Append(@, bid)]
           /\ leader' = BlockEnd + 1
           /\ code' = code
    BY <1>3, Zenon DEF create_basic_block, BlockEnd
  <2>2. CASE UNCHANGED <<code, leader, funs, blocks>>
    BY <2>2 DEF CoverInv, InBlock, Bid
  <2>3. CASE /\ blocks' = Append(blocks, new)
             /\ funs' = [funs EXCEPT ![thefunc].blocks = Append(@, bid)]
             /\ leader' = BlockEnd + 1
             /\ code' = code
    <3>1. thefunc # 0 /\ thefunc = Len(funs) /\ thefunc \in DOMAIN funs
      <4>1. leader <= Len(code) /\ code[leader].op # "FN_START"
        BY <1>0, <2>0
      <4>2. thefunc # 0 /\ thefunc = Len(funs)
        BY <1>0, <4>1, InFunction
      <4>3. DOMAIN funs = 1..Len(funs) /\ Len(funs) \in Nat
        BY <1>0, Types DEF PartInv
      <4>. QED BY <4>2, <4>3
    <3>2. BlockEnd \in leader..Len(code)
      BY <2>0, BlockEndFacts DEF PartInv
    <3>3. \A f \in DOMAIN funs : funs'[f].scope = funs[f].scope
      <4>1. \A f \in DOMAIN funs : funs[f] \in FunType
        BY <1>0, ElementOfSeq DEF PartInv, TypeOK
      <4>. QED BY <2>3, <3>1, <4>1 DEF FunType
    <3>4. new \in BlockType /\ new.fun = thefunc /\ new.first = leader /\ new.last = BlockEnd
      BY <1>0, <2>0, <3>1, <3>2 DEF BlockType
    <3>. HIDE DEF new
    <3>5. /\ Bid' = Bid \cup {bid} /\ blocks'[bid] = new
          /\ \A b \in Bid : blocks'[b] = blocks[b]
      <4>1. /\ Len(blocks') = bid /\ blocks' \in Seq(BlockType)
            /\ \A b \in 1..Len(blocks) : blocks'[b] = blocks[b]
            /\ blocks'[bid] = new
        BY <2>3, <3>4, AppendProperties DEF PartInv, TypeOK
      <4>2. Bid' = 1..bid
        BY <4>1 DEF Bid
      <4>. QED BY <1>0, <4>1, <4>2
    <3>6. \A i \in 1..leader' - 1 : code[i].op \notin {"FN_START", "FN_END"} =>
            \E b \in Bid' : blocks'[b].first <= i /\ i <= blocks'[b].last
      <4>. TAKE i \in 1..leader' - 1
      <4>1. CASE i < leader
        <5>1. i \in 1..leader - 1
          BY <1>0, <4>1
        <5>. QED BY <3>5, <5>1 DEF CoverInv, InBlock
      <4>2. CASE i >= leader
        <5>1. leader <= i /\ i <= BlockEnd
          BY <1>0, <2>3, <3>2, <4>2
        <5>. QED BY <3>4, <3>5, <5>1
      <4>3. i \in Nat
        BY <1>0, <2>3, <3>2
      <4>. QED BY <1>0, <4>1, <4>2, <4>3
    <3>7. \A b \in Bid' : \E s \in 1..blocks'[b].first :
            /\ code[s].op = "FN_START" /\ code[s].d = funs'[blocks'[b].fun].scope
            /\ \A j \in s..blocks'[b].first : code[j].op # "FN_END"
      <4>. TAKE b \in Bid'
      <4>1. CASE b \in Bid
        <5>1. PICK s \in 1..blocks[b].first :
                /\ code[s].op = "FN_START" /\ code[s].d = funs[blocks[b].fun].scope
                /\ \A j \in s..blocks[b].first : code[j].op # "FN_END"
          BY <4>1 DEF CoverInv
        <5>2. funs'[blocks[b].fun].scope = funs[blocks[b].fun].scope /\ blocks'[b] = blocks[b]
          BY <1>0, <3>3, <3>5, <4>1
        <5>. QED BY <5>1, <5>2
      <4>2. CASE b = bid
        <5>1. PICK s \in 1..leader - 1 :
                /\ code[s].op = "FN_START" /\ code[s].d = funs[thefunc].scope
                /\ \A j \in s..leader - 1 : code[j].op # "FN_END"
          BY <3>1 DEF PartInv, FunInv
        <5>2. s \in 1..leader /\ \A j \in s..leader : code[j].op # "FN_END"
          BY <1>0, <2>0, <5>1
        <5>3. blocks'[b].first = leader /\ blocks'[b].fun = thefunc
          BY <3>4, <3>5, <4>2
        <5>4. funs'[thefunc].scope = funs[thefunc].scope
          BY <3>1, <3>3
        <5>. QED BY <5>1, <5>2, <5>3, <5>4
      <4>. QED BY <3>5, <4>1, <4>2
    <3>10. code' = code
      BY <2>3
    <3>8. (\A i \in 1..leader - 1 : code[i].op \notin {"FN_START", "FN_END"} =>
             \E b \in Bid : InBlock(b, i))'
      BY <3>6, <3>10 DEF InBlock
    <3>9. (\A b \in Bid : \E s \in 1..blocks[b].first :
             /\ code[s].op = "FN_START" /\ code[s].d = funs[blocks[b].fun].scope
             /\ \A j \in s..blocks[b].first : code[j].op # "FN_END")'
      BY <3>7, <3>10
    <3>. QED BY <3>8, <3>9 DEF CoverInv
  <2>. QED BY <2>1, <2>2, <2>3
<1>. QED BY <1>1, <1>2, <1>3

-----------------------------------------------------------------------------
(* construct_flow_graph                                                    *)

\* Once the blocks are made they are left as they are.
LEMMA BlocksKept ==
  ASSUME PartInv, CoverInv, TypeOK', leader = Len(code) + 1,
         UNCHANGED <<code, leader, funs, thefunc, blocks>>
  PROVE  PartInv' /\ CoverInv'
<1>1. \A i : Ends(i)' = Ends(i) /\ Starts(i)' = Starts(i)
  BY DEF Ends, Starts
<1>2. Starts(leader - 1)' = Starts(leader - 1) /\ Bid' = Bid
  BY DEF Starts, Bid
<1>3. FunInv'
  BY <1>2 DEF PartInv, FunInv
<1>4. BlockInv'
  BY <1>1, <1>2 DEF PartInv, BlockInv
<1>5. ListInv'
  BY <1>2 DEF PartInv, ListInv
<1>6. CoverInv'
  BY <1>2 DEF CoverInv, InBlock
<1>. QED BY <1>3, <1>4, <1>5, <1>6 DEF PartInv

LinkStep == construct_flow_graph \/ link_step1 \/ link_step2 \/ link_next \/ link_done

\* The place at which the linking is.
LEMMA AtBlock ==
  ASSUME PartInv, fun <= Len(funs), at <= Len(funs[fun].blocks)
  PROVE  /\ fun \in DOMAIN funs /\ at \in DOMAIN funs[fun].blocks
         /\ BlockAt(at) \in Bid /\ blocks[BlockAt(at)].fun = fun
         /\ \A k \in DOMAIN funs[fun].blocks : BlockAt(k) = BlockAt(at) <=> k = at
         /\ at > 1 => /\ BlockAt(at - 1) = BlockAt(at) - 1 /\ BlockAt(at - 1) \in Bid
                      /\ blocks[BlockAt(at - 1)].fun = fun
         /\ at = 1 /\ BlockAt(at) - 1 \in Bid => blocks[BlockAt(at) - 1].fun # fun
<1>1. /\ fun \in DOMAIN funs /\ at \in Nat \ {0} /\ funs[fun].blocks \in Seq(Nat)
      /\ Bid = 1..Len(blocks) /\ Len(blocks) \in Nat
  BY Types DEF PartInv, TypeOK
<1>. DEFINE list == funs[fun].blocks
<1>2. DOMAIN list = 1..Len(list) /\ at \in 1..Len(list) /\ Len(list) \in Nat
  BY <1>1
<1>3. \A k \in 1..Len(list) : /\ list[k] \in Bid /\ blocks[list[k]].fun = fun
                              /\ list[k] = list[1] + k - 1
  BY <1>1, <1>2 DEF PartInv, ListInv
<1>4. \A b \in Bid : blocks[b].fun = fun => \E k \in 1..Len(list) : list[k] = b
  BY <1>1, <1>2 DEF PartInv, ListInv
<1>. HIDE DEF list
<1>5. list[1] \in Nat /\ list[at] = list[1] + at - 1
  BY <1>1, <1>2, <1>3
<1>6. \A k \in 1..Len(list) : list[k] = list[at] <=> k = at
  BY <1>2, <1>3, <1>5
<1>7. at > 1 => /\ list[at - 1] = list[at] - 1 /\ list[at - 1] \in Bid
                /\ blocks[list[at - 1]].fun = fun
  <2>. SUFFICES ASSUME at > 1
                PROVE  /\ list[at - 1] = list[at] - 1 /\ list[at - 1] \in Bid
                       /\ blocks[list[at - 1]].fun = fun
    OBVIOUS
  <2>1. at - 1 \in 1..Len(list)
    BY <1>2
  <2>2. list[at - 1] = list[1] + (at - 1) - 1
    BY <1>3, <2>1
  <2>. QED BY <1>2, <1>3, <1>5, <2>1, <2>2
<1>8. at = 1 /\ list[at] - 1 \in Bid => blocks[list[at] - 1].fun # fun
  <2>. SUFFICES ASSUME at = 1, list[at] - 1 \in Bid, blocks[list[at] - 1].fun = fun PROVE FALSE
    OBVIOUS
  <2>1. PICK k \in 1..Len(list) : list[k] = list[at] - 1
    BY <1>4
  <2>2. list[k] = list[1] + k - 1
    BY <1>3
  <2>. QED BY <1>2, <1>5, <2>1, <2>2
<1>. QED BY <1>1, <1>2, <1>3, <1>6, <1>7, <1>8 DEF list, BlockAt

\* The types of the linking.
LEMMA LinkTypes == PartInv /\ PhaseInv /\ LinkStep => TypeOK' /\ leader = Len(code) + 1
<1>. SUFFICES ASSUME PartInv, PhaseInv, LinkStep PROVE TypeOK' /\ leader = Len(code) + 1
  OBVIOUS
<1>0. /\ leader \in 1..Len(code) + 1 /\ Len(code) \in Nat /\ TypeOK /\ code \in Program
      /\ Bid = 1..Len(blocks) /\ Len(blocks) \in Nat /\ Len(funs) \in Nat
      /\ fun \in Nat \ {0} /\ at \in Nat \ {0}
  <2>1. TypeOK /\ code \in Program
    BY DEF PartInv
  <2>. QED BY <2>1, Types, CodeFacts DEF TypeOK
<1>1. CASE construct_flow_graph
  BY <1>0, <1>1 DEF construct_flow_graph, TypeOK
<1>2. CASE link_step1
  <2>1. /\ fun <= Len(funs) /\ at <= Len(funs[fun].blocks) /\ pc = "step1"
        /\ fun \in 1..Len(funs) + 1
    BY <1>0, <1>2 DEF link_step1, LinkAt, TypeOK
  <2>. DEFINE b == BlockAt(at)
              a == BlockAt(at - 1)
  <2>2. b \in 1..Len(blocks) /\ (at > 1 => a \in 1..Len(blocks))
    BY <1>0, <2>1, AtBlock
  <2>3. /\ lab2bb' = MapLabel(b)
        /\ \/ UNCHANGED <<succ, pred>>
           \/ at > 1 /\ succ' = [succ EXCEPT ![a] = <<b>>] /\ pred' = [pred EXCEPT ![b] = <<a>>]
        /\ at' = at + 1
        /\ UNCHANGED <<code, leader, funs, thefunc, blocks, pc, fun>>
    BY <1>0, <1>2 DEF link_step1
  <2>. HIDE DEF a, b
  <2>4. lab2bb' \in [Label -> 0..Len(blocks)]
    <3>1. lab2bb \in [Label -> 0..Len(blocks)] /\ b \in 0..Len(blocks)
      BY <1>0, <2>2 DEF TypeOK
    <3>2. \/ lab2bb' = lab2bb
          \/ lab2bb' = [lab2bb EXCEPT ![code[blocks[b].first].d] = b]
      BY <2>3 DEF MapLabel
    <3>. QED BY <3>1, <3>2
  <2>5. /\ succ' \in Seq(Seq(Nat)) /\ Len(succ') = Len(blocks)
        /\ pred' \in Seq(Seq(Nat)) /\ Len(pred') = Len(blocks)
    <3>1. CASE UNCHANGED <<succ, pred>>
      BY <1>0, <3>1 DEF TypeOK
    <3>2. CASE at > 1 /\ succ' = [succ EXCEPT ![a] = <<b>>] /\ pred' = [pred EXCEPT ![b] = <<a>>]
      <4>1. <<a>> \in Seq(Nat) /\ <<b>> \in Seq(Nat)
        BY <1>0, <2>2, <3>2
      <4>. QED BY <1>0, <2>2, <3>2, <4>1, ExceptSeq DEF TypeOK
    <3>. QED BY <2>3, <3>1, <3>2
  <2>. QED BY <1>0, <2>1, <2>3, <2>4, <2>5 DEF TypeOK, PartInv, FunInv
<1>3. CASE link_step2
  <2>1. /\ fun <= Len(funs) /\ at <= Len(funs[fun].blocks) /\ pc = "step2"
        /\ fun \in 1..Len(funs) + 1
    BY <1>0, <1>3 DEF link_step2, LinkAt, TypeOK
  <2>. DEFINE b == BlockAt(at)
              target == lab2bb[code[blocks[b].last].d]
  <2>2. b \in 1..Len(blocks)
    BY <1>0, <2>1, AtBlock
  <2>3. UNCHANGED <<code, leader, funs, thefunc, blocks, lab2bb, fun>>
    BY <1>3 DEF link_step2
  <2>4. \/ at' \in {at, at + 1} /\ UNCHANGED <<succ, pred>> /\ pc' \in {pc, "undefined"}
        \/ /\ code[blocks[b].last].op \in Jumps /\ target # 0
           /\ succ' = [succ EXCEPT ![b] = Link(@, target)]
           /\ pred' = [pred EXCEPT ![target] = Link(@, b)]
           /\ at' = at + 1 /\ UNCHANGED pc
    BY <1>3, Zenon DEF link_step2
  <2>5. CASE at' \in {at, at + 1} /\ UNCHANGED <<succ, pred>> /\ pc' \in {pc, "undefined"}
    <3>1. at' \in Nat \ {0}
      BY <1>0, <2>5
    <3>. QED BY <1>0, <2>1, <2>3, <2>5, <3>1 DEF TypeOK, PartInv, FunInv
  <2>6. CASE /\ code[blocks[b].last].op \in Jumps /\ target # 0
             /\ succ' = [succ EXCEPT ![b] = Link(@, target)]
             /\ pred' = [pred EXCEPT ![target] = Link(@, b)]
             /\ at' = at + 1 /\ UNCHANGED pc
    <3>0. blocks[b].last \in 1..Len(code)
      BY <1>0, <2>2, Types DEF PartInv, BlockInv
    <3>1. target \in 1..Len(blocks)
      <4>1. code[blocks[b].last].d \in Label
        BY <1>0, <2>6, <3>0, CodeFacts
      <4>2. target \in 0..Len(blocks)
        BY <1>0, <4>1 DEF PartInv, TypeOK
      <4>3. Len(blocks) \in Nat
        BY <1>0, Types DEF PartInv
      <4>. QED BY <2>6, <4>2, <4>3
    <3>. HIDE DEF target, b
    <3>2. \A s \in Seq(Nat), x \in Nat : Link(s, x) \in Seq(Nat)
      BY AppendProperties DEF Link
    <3>3. succ[b] \in Seq(Nat) /\ pred[target] \in Seq(Nat)
      BY <1>0, <2>2, <3>1, ElementOfSeq DEF TypeOK
    <3>4. Link(succ[b], target) \in Seq(Nat) /\ Link(pred[target], b) \in Seq(Nat)
      <4>1. b \in Nat /\ target \in Nat
        BY <1>0, <2>2, <3>1
      <4>. QED BY <3>2, <3>3, <4>1
    <3>5. /\ succ' \in Seq(Seq(Nat)) /\ Len(succ') = Len(blocks)
          /\ pred' \in Seq(Seq(Nat)) /\ Len(pred') = Len(blocks)
      BY <1>0, <2>2, <2>6, <3>1, <3>4, ExceptSeq DEF TypeOK
    <3>6. at' \in Nat \ {0} /\ pc' = "step2"
      BY <1>0, <2>1, <2>6
    <3>7. leader = Len(code) + 1
      BY <2>1 DEF PartInv, FunInv
    <3>. QED BY <1>0, <2>1, <2>3, <3>5, <3>6, <3>7 DEF TypeOK
  <2>. QED BY <2>4, <2>5, <2>6
<1>4. CASE link_next
  <2>1. /\ pc \in {"step1", "step2"} /\ fun <= Len(funs) /\ at' = 1
        /\ fun' \in {fun, fun + 1} /\ pc' \in {"step1", "step2"}
        /\ lab2bb' = lab2bb \/ lab2bb' = [l \in Label |-> 0]
        /\ UNCHANGED <<code, leader, funs, thefunc, blocks, succ, pred>>
    BY <1>4 DEF link_next
  <2>2. fun' \in 1..Len(funs) + 1
    BY <1>0, <2>1
  <2>3. lab2bb' \in [Label -> 0..Len(blocks)]
    BY <1>0, <2>1 DEF TypeOK
  <2>. QED BY <1>0, <2>1, <2>2, <2>3 DEF TypeOK, PartInv, FunInv
<1>5. CASE link_done
  BY <1>0, <1>5 DEF link_done, TypeOK, PartInv, FunInv
<1>. QED BY <1>1, <1>2, <1>3, <1>4, <1>5 DEF LinkStep

\* A label is the first instruction of its block.
LEMMA LabelFirst ==
  ASSUME PartInv, NEW b \in Bid, NEW i \in blocks[b].first..blocks[b].last,
         code[i].op = "LABEL"
  PROVE  i = blocks[b].first
<1>1. blocks[b].first \in Nat /\ blocks[b].last \in Nat
  BY Types DEF PartInv
<1>2. ASSUME i # blocks[b].first PROVE FALSE
  <2>1. i - 1 \in blocks[b].first..blocks[b].last - 1 /\ i - 1 + 1 = i
    BY <1>1, <1>2
  <2>2. ~Ends(i - 1)
    BY <2>1 DEF PartInv, BlockInv
  <2>. QED BY <2>1, <2>2 DEF Ends
<1>. QED BY <1>2

\* The blocks of a routine have as many FN_START up to any of their
\* instructions as it has numbers.
LEMMA BlockFun ==
  ASSUME PartInv, NEW b \in Bid, NEW i \in blocks[b].first..blocks[b].last
  PROVE  Cardinality(Starts(i)) = blocks[b].fun
<1>1. blocks[b].first \in Nat /\ blocks[b].last \in Nat
  BY Types DEF PartInv
<1>2. \A k \in blocks[b].first + 1..i : code[k].op # "FN_START"
  BY <1>1 DEF PartInv, BlockInv
<1>3. Starts(blocks[b].first) = Starts(i)
  BY <1>1, <1>2, StartsSame
<1>. QED BY <1>3 DEF PartInv, BlockInv

\* The label of a jump begins a block of the jump's function.
LEMMA JumpTarget ==
  ASSUME PartInv, CoverInv, leader = Len(code) + 1,
         NEW b \in Bid, code[blocks[b].last].op \in Jumps
  PROVE  \E c \in Bid : Goes(b, c) /\ blocks[c].fun = blocks[b].fun
<1>1. /\ blocks[b].first \in Nat /\ blocks[b].last \in Nat /\ Len(code) \in Nat
      /\ 1 <= blocks[b].first /\ blocks[b].first <= blocks[b].last
      /\ blocks[b].last \in 1..Len(code)
  BY Types, CodeFacts DEF PartInv, BlockInv
<1>2. PICK j \in 1..Len(code) :
        /\ code[j].op = "LABEL" /\ code[j].d = code[blocks[b].last].d
        /\ Cardinality(Starts(blocks[b].last)) = Cardinality(Starts(j))
  BY <1>1, RoutineFacts DEF PartInv
<1>3. j \in 1..leader - 1
  BY <1>1
<1>4. PICK c \in Bid : InBlock(c, j)
  BY <1>2, <1>3 DEF CoverInv
<1>5. blocks[c].first \in Nat /\ blocks[c].last \in Nat
  BY Types DEF PartInv
<1>6. j \in blocks[c].first..blocks[c].last
  BY <1>4, <1>5 DEF InBlock
<1>7. j = blocks[c].first /\ blocks[c].fun = Cardinality(Starts(j))
  BY <1>2, <1>6, LabelFirst, BlockFun
<1>8. blocks[b].fun = Cardinality(Starts(blocks[b].last))
  BY <1>1, BlockFun
<1>. QED BY <1>2, <1>7, <1>8 DEF Goes

\* Its block is in lab2bb when step2 looks it up.
LEMMA LabelMapped ==
  ASSUME PartInv, CoverInv, LabInv, pc = "step2",
         NEW b \in Bid, blocks[b].fun = fun, code[blocks[b].last].op \in Jumps
  PROVE  lab2bb[code[blocks[b].last].d] # 0
<1>1. leader = Len(code) + 1
  BY DEF PartInv, FunInv
<1>2. PICK c \in Bid : Goes(b, c) /\ blocks[c].fun = fun
  BY <1>1, JumpTarget
<1>3. lab2bb[code[blocks[b].last].d] = c
  BY <1>2 DEF Goes, LabInv, Done1
<1>4. c # 0
  BY Types DEF PartInv
<1>. QED BY <1>3, <1>4

LEMMA PhaseInit == Init => PhaseInv /\ CoverInv
<1>. SUFFICES ASSUME Init PROVE PhaseInv /\ CoverInv
  OBVIOUS
<1>1. Bid = {} /\ 1..leader - 1 = {}
  BY DEF Init, Bid
<1>. QED BY <1>1 DEF Init, PhaseInv, CoverInv

LEMMA PhaseStep == PartInv /\ CoverInv /\ LabInv /\ PhaseInv /\ PartInv' /\ Next => PhaseInv'
<1>. SUFFICES ASSUME PartInv, CoverInv, LabInv, PhaseInv, PartInv', Next PROVE PhaseInv'
  OBVIOUS
<1>0. /\ Bid = 1..Len(blocks) /\ Len(blocks) \in Nat
      /\ succ \in Seq(Seq(Nat)) /\ Len(succ) = Len(blocks)
      /\ pred \in Seq(Seq(Nat)) /\ Len(pred) = Len(blocks)
      /\ fun \in 1..Len(funs) + 1 /\ Len(funs) \in Nat
  BY Types DEF PartInv, TypeOK
<1>1. CASE create_function_object
  BY <1>1 DEF create_function_object, Partitioning, PhaseInv, Bid
<1>2. CASE function_finish
  <2>1. pc' = "partition" /\ pc = "partition"
    BY <1>2, FunctionFinish DEF function_finish, Partitioning
  <2>. QED BY <1>2, <2>1 DEF function_finish, PhaseInv, Bid
<1>3. CASE create_basic_block
  <2>1. /\ pc = "partition" /\ UNCHANGED <<lab2bb, fun, at>>
        /\ \/ pc' = "panic" /\ UNCHANGED <<blocks, succ, pred>>
           \/ /\ succ' = Append(succ, <<>>) /\ pred' = Append(pred, <<>>)
              /\ pc' = pc
              /\ \E new : blocks' = Append(blocks, new)
    BY <1>3, Zenon DEF create_basic_block
  <2>2. CASE pc' = "panic" /\ UNCHANGED <<blocks, succ, pred>>
    BY <2>1, <2>2 DEF PhaseInv, Bid
  <2>3. CASE succ' = Append(succ, <<>>) /\ pred' = Append(pred, <<>>) /\ pc' = pc
    <3>1. Len(succ') = Len(succ) + 1
      BY <1>0, <2>3
    <3>2. Bid' = 1..Len(succ) + 1
      <4>1. Bid' = 1..Len(blocks)' /\ Len(succ') = Len(blocks')
        BY DEF PartInv, TypeOK, Bid
      <4>. QED BY <3>1, <4>1
    <3>3. \A b \in Bid' : succ'[b] = <<>> /\ pred'[b] = <<>>
      <4>. TAKE b \in Bid'
      <4>1. CASE b \in 1..Len(succ)
        BY <1>0, <2>1, <2>3, <4>1 DEF PhaseInv
      <4>2. CASE b = Len(succ) + 1
        BY <1>0, <2>3, <4>2
      <4>3. b \in 1..Len(succ) \/ b = Len(succ) + 1
        BY <1>0, <3>2
      <4>. QED BY <4>1, <4>2, <4>3
    <3>. QED BY <2>1, <2>3, <3>3 DEF PhaseInv
  <2>. QED BY <2>1, <2>2, <2>3
<1>4. CASE construct_flow_graph
  BY <1>4 DEF construct_flow_graph, PhaseInv
<1>5. CASE link_step1
  BY <1>5 DEF link_step1, LinkAt, PhaseInv
<1>6. CASE link_step2
  <2>1. /\ fun <= Len(funs) /\ at <= Len(funs[fun].blocks) /\ pc = "step2"
    BY <1>6 DEF link_step2, LinkAt
  <2>2. BlockAt(at) \in Bid /\ blocks[BlockAt(at)].fun = fun
    BY <2>1, AtBlock
  <2>3. code[blocks[BlockAt(at)].last].op \in Jumps =>
          lab2bb[code[blocks[BlockAt(at)].last].d] # 0
    BY <2>1, <2>2, LabelMapped
  <2>4. pc' = pc /\ UNCHANGED <<fun, funs>>
    BY <1>6, <2>3, Zenon DEF link_step2
  <2>. QED BY <2>1, <2>4 DEF PhaseInv
<1>7. CASE link_next
  BY <1>7 DEF link_next, PhaseInv
<1>8. CASE link_done
  BY <1>0, <1>8 DEF link_done, PhaseInv
<1>. QED BY <1>1, <1>2, <1>3, <1>4, <1>5, <1>6, <1>7, <1>8 DEF Next

\* What a step of the linking has done with the blocks.
LEMMA DoneStep1 ==
  ASSUME PartInv, link_step1
  PROVE  \A x \in Bid : /\ Done1(x)' <=> Done1(x) \/ x = BlockAt(at)
                        /\ Done2(x)' <=> Done2(x)
<1>1. /\ fun <= Len(funs) /\ at <= Len(funs[fun].blocks) /\ pc = "step1" /\ at' = at + 1
      /\ UNCHANGED <<funs, blocks, pc, fun>>
  BY DEF link_step1, LinkAt
<1>2. /\ at \in DOMAIN funs[fun].blocks /\ blocks[BlockAt(at)].fun = fun
      /\ fun \in DOMAIN funs
  BY <1>1, AtBlock
<1>3. \A k \in DOMAIN funs[fun].blocks : k \in Nat /\ at \in Nat
  BY <1>2, Types DEF PartInv, TypeOK
<1>4. \A x : Before(x)' <=> Before(x) \/ x = BlockAt(at)
  BY <1>1, <1>2, <1>3 DEF Before, BlockAt
<1>5. \A x \in Bid : blocks[x].fun \in Nat /\ fun \in Nat
  BY Types DEF PartInv, TypeOK
<1>. QED BY <1>1, <1>2, <1>4, <1>5 DEF Done1, Done2

LEMMA DoneStep2 ==
  ASSUME PartInv, link_step2, at' = at + 1, pc' = pc
  PROVE  \A x \in Bid : /\ Done1(x)' <=> Done1(x)
                        /\ Done2(x)' <=> Done2(x) \/ x = BlockAt(at)
<1>1. /\ fun <= Len(funs) /\ at <= Len(funs[fun].blocks) /\ pc = "step2" /\ at' = at + 1
      /\ UNCHANGED <<funs, blocks, pc, fun>>
  BY DEF link_step2, LinkAt
<1>2. /\ at \in DOMAIN funs[fun].blocks /\ blocks[BlockAt(at)].fun = fun
      /\ fun \in DOMAIN funs
  BY <1>1, AtBlock
<1>3. \A k \in DOMAIN funs[fun].blocks : k \in Nat /\ at \in Nat
  BY <1>2, Types DEF PartInv, TypeOK
<1>4. \A x : Before(x)' <=> Before(x) \/ x = BlockAt(at)
  BY <1>1, <1>2, <1>3 DEF Before, BlockAt
<1>5. \A x \in Bid : blocks[x].fun \in Nat /\ fun \in Nat
  BY Types DEF PartInv, TypeOK
<1>. QED BY <1>1, <1>2, <1>4, <1>5 DEF Done1, Done2

LEMMA DoneNext ==
  ASSUME PartInv, PhaseInv, construct_flow_graph \/ link_next \/ link_done
  PROVE  \A x \in Bid : /\ Done1(x)' <=> Done1(x)
                        /\ Done2(x)' <=> Done2(x)
<1>0. /\ \A x \in Bid : blocks[x].fun \in DOMAIN funs
      /\ fun \in Nat /\ at \in Nat /\ Len(funs) \in Nat /\ DOMAIN funs = 1..Len(funs)
      /\ \A f \in DOMAIN funs : \A k \in DOMAIN funs[f].blocks :
           k \in Nat \ {0} /\ k <= Len(funs[f].blocks)
      /\ \A x \in Bid : \E k \in DOMAIN funs[blocks[x].fun].blocks :
           funs[blocks[x].fun].blocks[k] = x
  <2>1. /\ DOMAIN funs = 1..Len(funs) /\ Len(funs) \in Nat
        /\ \A f \in DOMAIN funs : funs[f].blocks \in Seq(Nat)
    BY Types DEF PartInv
  <2>2. fun \in Nat /\ at \in Nat
    BY <2>1 DEF PartInv, TypeOK
  <2>3. \A f \in DOMAIN funs : \A k \in DOMAIN funs[f].blocks :
           k \in Nat \ {0} /\ k <= Len(funs[f].blocks)
    BY <2>1
  <2>. QED BY <2>1, <2>2, <2>3 DEF PartInv, ListInv
<1>1. CASE construct_flow_graph
  BY <1>0, <1>1 DEF construct_flow_graph, Done1, Done2, Before
<1>2. CASE link_next
  <2>1. /\ pc \in {"step1", "step2"} /\ fun <= Len(funs) /\ at > Len(funs[fun].blocks)
        /\ at' = 1 /\ UNCHANGED <<funs, blocks>>
        /\ \/ pc = "step1" /\ pc' = "step2" /\ fun' = fun
           \/ pc = "step2" /\ pc' = "step1" /\ fun' = fun + 1
    BY <1>2 DEF link_next
  <2>2. \A x \in Bid : blocks[x].fun = fun => Before(x)
    BY <1>0, <2>1 DEF Before
  <2>3. \A x \in Bid : blocks'[x].fun = fun' => ~Before(x)'
    <3>1. \A x \in Bid : \A k \in DOMAIN funs'[blocks'[x].fun].blocks : k \in Nat \ {0}
      BY <1>0, <2>1
    <3>. QED BY <2>1, <3>1 DEF Before
  <2>4. \A x \in Bid : blocks[x].fun \in Nat
    BY <1>0
  <2>. QED BY <1>0, <2>1, <2>2, <2>3, <2>4 DEF Done1, Done2
<1>3. CASE link_done
  <2>1. pc = "step1" /\ fun > Len(funs) /\ pc' = "done" /\ UNCHANGED <<fun, funs, blocks, at>>
    BY <1>3 DEF link_done
  <2>. QED BY <1>0, <2>1 DEF Done1, Done2
<1>. QED BY <1>1, <1>2, <1>3

Early == pc \in {"partition", "panic"}

LEMMA EarlyLabels == PhaseInv /\ PartInv /\ Early => LabInv
<1>. SUFFICES ASSUME PhaseInv, PartInv, Early PROVE LabInv
  OBVIOUS
<1>1. fun = 1 /\ at = 1 /\ \A l \in Label : lab2bb[l] = 0
  BY DEF PhaseInv, Early
<1>2. \A b \in Bid : ~Done1(b)
  <2>1. /\ \A x \in Bid : blocks[x].fun \in DOMAIN funs
        /\ DOMAIN funs = 1..Len(funs) /\ Len(funs) \in Nat
        /\ \A f \in DOMAIN funs : \A k \in DOMAIN funs[f].blocks : k \in Nat \ {0}
    BY BlockFacts
  <2>. QED BY <1>1, <2>1 DEF Done1, Before, Early
<1>. QED BY <1>1, <1>2 DEF LabInv

LEMMA LabStep ==
  PartInv /\ CoverInv /\ LabInv /\ PhaseInv /\ PartInv' /\ PhaseInv' /\ Next => LabInv'
<1>. SUFFICES ASSUME PartInv, CoverInv, LabInv, PhaseInv, PartInv', PhaseInv', Next
              PROVE  LabInv'
  OBVIOUS
<1>0. lab2bb \in [Label -> 0..Len(blocks)] /\ Bid = 1..Len(blocks) /\ Len(blocks) \in Nat
  BY Types DEF PartInv, TypeOK
<1>1. CASE Early'
  BY <1>1, EarlyLabels, PTL
<1>2. CASE construct_flow_graph \/ link_next \/ link_done
  <2>1. /\ UNCHANGED <<code, blocks>> /\ Bid' = Bid
        /\ \/ UNCHANGED <<lab2bb, fun>>
           \/ fun' = fun + 1 /\ lab2bb' = [l \in Label |-> 0]
    BY <1>2 DEF construct_flow_graph, link_next, link_done, Bid
  <2>2. \A x \in Bid : Done1(x)' <=> Done1(x)
    BY <1>2, DoneNext
  <2>3. CASE UNCHANGED <<lab2bb, fun>>
    BY <2>1, <2>2, <2>3 DEF LabInv
  <2>4. CASE fun' = fun + 1 /\ lab2bb' = [l \in Label |-> 0]
    <3>1. \A x \in Bid : blocks[x].fun = fun' => ~Done1(x)
      BY <2>4, Types DEF Done1, PartInv, TypeOK
    <3>. QED BY <2>1, <2>2, <2>4, <3>1 DEF LabInv
  <2>. QED BY <2>1, <2>3, <2>4
<1>3. CASE link_step1
  <2>. DEFINE b == BlockAt(at)
              x == code[blocks[b].first]
  <2>1. /\ fun <= Len(funs) /\ at <= Len(funs[fun].blocks) /\ pc = "step1"
        /\ lab2bb' = MapLabel(b) /\ UNCHANGED <<code, blocks, fun>> /\ Bid' = Bid
    BY <1>3 DEF link_step1, LinkAt, Bid
  <2>2. b \in Bid /\ blocks[b].fun = fun
    BY <2>1, AtBlock
  <2>3. \A c \in Bid : Done1(c)' <=> Done1(c) \/ c = b
    BY <1>3, DoneStep1
  <2>4. lab2bb' = IF x.op = "LABEL" THEN [lab2bb EXCEPT ![x.d] = b] ELSE lab2bb
    BY <2>1 DEF MapLabel
  <2>5. \A c \in Bid : blocks[c].first \in 1..Len(code)
    BY BlockFacts
  <2>6. x.op = "LABEL" => x.d \in Label
    BY <2>2, <2>5, CodeFacts DEF PartInv
  <2>7. \A c \in Bid : x.op = "LABEL" /\ code[blocks[c].first].op = "LABEL"
                         /\ code[blocks[c].first].d = x.d => c = b
    <3>. SUFFICES ASSUME NEW c \in Bid, x.op = "LABEL", code[blocks[c].first].op = "LABEL",
                         code[blocks[c].first].d = x.d, c # b
                  PROVE  FALSE
      OBVIOUS
    <3>1. blocks[c].first = blocks[b].first
      BY <2>2, <2>5, CodeFacts DEF PartInv
    <3>2. blocks[c].first # blocks[b].first
      <4>1. c < b \/ b < c
        BY <1>0, <2>2
      <4>. QED BY <2>2, <4>1, BlockFacts
    <3>. QED BY <3>1, <3>2
  <2>8. \A c \in Bid : code[blocks[c].first].op = "LABEL" => code[blocks[c].first].d \in Label
    BY <2>5, CodeFacts DEF PartInv
  <2>. HIDE DEF b, x
  <2>11. /\ \A l \in Label : lab2bb[l] # 0 => /\ code[blocks[lab2bb[l]].first].op = "LABEL"
                                             /\ code[blocks[lab2bb[l]].first].d = l
                                             /\ blocks[lab2bb[l]].fun = fun
         /\ \A c \in Bid : blocks[c].fun = fun /\ Done1(c) /\ code[blocks[c].first].op = "LABEL" =>
              lab2bb[code[blocks[c].first].d] = c
    BY DEF LabInv
  <2>12. code[blocks[b].first] = x
    BY DEF x
  <2>13. \A l \in Label : lab2bb'[l] = IF x.op = "LABEL" /\ l = x.d THEN b ELSE lab2bb[l]
    BY <1>0, <2>4, <2>6
  <2>9. (\A l \in Label : lab2bb[l] # 0 => /\ code[blocks[lab2bb[l]].first].op = "LABEL"
                                           /\ code[blocks[lab2bb[l]].first].d = l
                                           /\ blocks[lab2bb[l]].fun = fun)'
    <3>1. \A l \in Label : lab2bb'[l] # 0 =>
            /\ code[blocks[lab2bb'[l]].first].op = "LABEL"
            /\ code[blocks[lab2bb'[l]].first].d = l
            /\ blocks[lab2bb'[l]].fun = fun
      BY <2>2, <2>11, <2>12, <2>13
    <3>. QED BY <2>1, <3>1
  <2>10. (\A c \in Bid : blocks[c].fun = fun /\ Done1(c) /\ code[blocks[c].first].op = "LABEL" =>
            lab2bb[code[blocks[c].first].d] = c)'
    <3>1. ASSUME NEW c \in Bid, blocks[c].fun = fun, Done1(c) \/ c = b,
                 code[blocks[c].first].op = "LABEL"
          PROVE  lab2bb'[code[blocks[c].first].d] = c
      <4>1. code[blocks[c].first].d \in Label
        BY <2>8, <3>1
      <4>2. CASE c = b
        BY <2>12, <2>13, <3>1, <4>1, <4>2
      <4>3. CASE c # b
        <5>1. lab2bb[code[blocks[c].first].d] = c
          BY <2>11, <3>1, <4>3
        <5>2. ~(x.op = "LABEL" /\ code[blocks[c].first].d = x.d)
          BY <2>7, <3>1, <4>3
        <5>. QED BY <2>13, <4>1, <5>1, <5>2
      <4>. QED BY <4>2, <4>3
    <3>. QED BY <2>1, <2>3, <3>1
  <2>. QED BY <2>9, <2>10 DEF LabInv
<1>4. CASE link_step2
  <2>1. pc = "step2" /\ UNCHANGED <<code, blocks, lab2bb, fun>> /\ Bid' = Bid
    BY <1>4 DEF link_step2, LinkAt, Bid
  <2>2. pc' = pc
    BY <1>4, Zenon DEF link_step2, PhaseInv
  <2>3. \A x \in Bid : Done1(x)' <=> Done1(x)
    BY <2>1, <2>2 DEF Done1
  <2>. QED BY <2>1, <2>3 DEF LabInv
<1>5. CASE create_function_object \/ function_finish \/ create_basic_block
  BY <1>1, <1>5 DEF create_function_object, function_finish, create_basic_block, Partitioning, Early
<1>. QED BY <1>2, <1>3, <1>4, <1>5 DEF Next

-----------------------------------------------------------------------------
(* The links                                                               *)

\* Labels and jumps are paired, and so are their blocks.
LEMMA GoesUnique ==
  ASSUME PartInv, NEW b \in Bid, NEW c \in Bid, NEW d \in Bid
  PROVE  /\ Goes(b, c) /\ Goes(b, d) => c = d
         /\ Goes(b, d) /\ Goes(c, d) => b = c
<1>1. \A x \in Bid : /\ blocks[x].first <= blocks[x].last
                     /\ blocks[x].first \in Nat /\ blocks[x].last \in Nat
  BY BlockFacts
<1>2. \A i, j \in 1..Len(code) :
        /\ code[i].op = "LABEL" /\ code[j].op = "LABEL" /\ code[i].d = code[j].d => i = j
        /\ code[i].op \in Jumps /\ code[j].op \in Jumps /\ code[i].d = code[j].d => i = j
  <2>1. code \in Program
    BY DEF PartInv
  <2>. QED BY <2>1, CodeFacts
<1>3. \A x \in Bid : blocks[x].first \in 1..Len(code) /\ blocks[x].last \in 1..Len(code)
  BY BlockFacts
<1>4. \A x, y \in Bid : x # y =>
        blocks[x].first # blocks[y].first /\ blocks[x].last # blocks[y].last
  <2>. TAKE x, y \in Bid
  <2>1. x \in Nat /\ y \in Nat
    BY BlockFacts
  <2>2. x < y => blocks[x].last < blocks[y].first
    BY BlockFacts
  <2>3. y < x => blocks[y].last < blocks[x].first
    BY BlockFacts
  <2>. QED BY <1>1, <2>1, <2>2, <2>3
<1>5. Goes(b, c) /\ Goes(b, d) => c = d
  <2>1. Goes(b, c) /\ Goes(b, d) => blocks[c].first = blocks[d].first
    BY <1>2, <1>3 DEF Goes
  <2>. QED BY <1>4, <2>1
<1>6. Goes(b, d) /\ Goes(c, d) => b = c
  <2>1. Goes(b, d) /\ Goes(c, d) => blocks[b].last = blocks[c].last
    BY <1>2, <1>3 DEF Goes
  <2>. QED BY <1>4, <2>1
<1>. QED BY <1>5, <1>6

LEMMA EarlyLinks == PhaseInv /\ PartInv /\ Early => LinkInv
<1>. SUFFICES ASSUME PhaseInv, PartInv, Early PROVE LinkInv
  OBVIOUS
<1>1. fun = 1 /\ at = 1 /\ \A b \in Bid : succ[b] = <<>> /\ pred[b] = <<>>
  BY DEF PhaseInv, Early
<1>2. \A b \in Bid : ~Done1(b) /\ ~Done2(b)
  <2>1. /\ \A x \in Bid : blocks[x].fun \in DOMAIN funs
        /\ DOMAIN funs = 1..Len(funs) /\ Len(funs) \in Nat
        /\ \A f \in DOMAIN funs : \A k \in DOMAIN funs[f].blocks : k \in Nat \ {0}
    BY BlockFacts
  <2>. QED BY <1>1, <2>1 DEF Done1, Done2, Before, Early
<1>. QED BY <1>1, <1>2 DEF LinkInv, Linked, Pred, Wanted

\* Step1: the first link of two blocks that follow each other.
LEMMA LinkStep1 == PartInv /\ LinkInv /\ link_step1 => LinkInv'
<1>. SUFFICES ASSUME PartInv, LinkInv, link_step1 PROVE LinkInv'
  OBVIOUS
<1>. DEFINE b == BlockAt(at)
            a == BlockAt(at - 1)
<1>1. /\ fun <= Len(funs) /\ at <= Len(funs[fun].blocks) /\ pc = "step1"
      /\ UNCHANGED <<code, blocks>> /\ Bid' = Bid
      /\ \/ at = 1 /\ UNCHANGED <<succ, pred>>
         \/ at # 1 /\ succ' = [succ EXCEPT ![a] = <<b>>] /\ pred' = [pred EXCEPT ![b] = <<a>>]
  BY DEF link_step1, LinkAt, Bid
<1>2. /\ b \in Bid /\ blocks[b].fun = fun
      /\ at > 1 => a = b - 1 /\ a \in Bid /\ blocks[a].fun = fun
      /\ at = 1 /\ b - 1 \in Bid => blocks[b - 1].fun # fun
  BY <1>1, AtBlock
<1>3. /\ Bid \subseteq Nat /\ DOMAIN succ = Bid /\ DOMAIN pred = Bid /\ at \in Nat \ {0}
  BY Types DEF PartInv, TypeOK
<1>4. \A x \in Bid : /\ Done1(x)' <=> Done1(x) \/ x = b
                     /\ Done2(x)' <=> Done2(x)
  BY DoneStep1
<1>. HIDE DEF a, b
<1>5. \A x, y : (Falls(x, y)' <=> Falls(x, y)) /\ (Goes(x, y)' <=> Goes(x, y))
  BY <1>1 DEF Falls, Goes
<1>6. \A x \in Bid : blocks[x].fun = fun => ~Done2(x)
  BY <1>1, <1>3, Types DEF Done2, PartInv, TypeOK
<1>7. \A x, y \in Bid : Wanted(x, y)' <=> Wanted(x, y) \/ (y = b /\ Falls(x, b))
  BY <1>4, <1>5 DEF Wanted
<1>8. CASE at = 1
  <2>1. \A x \in Bid : ~Falls(x, b)
    <3>1. \A x \in Bid : b = x + 1 => x = b - 1
      BY <1>2, <1>3
    <3>. QED BY <1>2, <1>8, <3>1 DEF Falls
  <2>. QED BY <1>1, <1>4, <1>5, <1>7, <1>8, <2>1 DEF LinkInv, Linked, Pred
<1>9. CASE at # 1
  <2>1. a = b - 1 /\ a \in Bid /\ blocks[a].fun = fun
    BY <1>2, <1>3, <1>9
  <2>2. \A x, y \in Bid : (Falls(x, b) <=> x = a) /\ (Falls(a, y) <=> y = b)
    BY <1>2, <1>3, <2>1 DEF Falls
  <2>3. /\ \A x \in Bid : succ'[x] = IF x = a THEN <<b>> ELSE succ[x]
        /\ \A x \in Bid : pred'[x] = IF x = b THEN <<a>> ELSE pred[x]
    BY <1>1, <1>3, <1>9
  <2>4. \A x, y \in Bid : Linked(x, y)' <=> IF x = a THEN y = b ELSE Linked(x, y)
    <3>. TAKE x, y \in Bid
    <3>1. CASE x = a
      <4>1. succ'[x] = <<b>>
        BY <2>3, <3>1
      <4>2. (\E k \in DOMAIN <<b>> : <<b>>[k] = y) <=> y = b
        OBVIOUS
      <4>. QED BY <3>1, <4>1, <4>2 DEF Linked
    <3>2. CASE x # a
      BY <2>3, <3>2 DEF Linked
    <3>. QED BY <3>1, <3>2
  <2>5. \A x, y \in Bid : Pred(x, y)' <=> IF y = b THEN x = a ELSE Pred(x, y)
    BY <2>3 DEF Pred
  <2>6. \A y \in Bid : Wanted(a, y) => y = b
    BY <1>6, <2>1, <2>2 DEF Wanted
  <2>7. \A x \in Bid : Wanted(x, b) => x = a
    <3>. SUFFICES ASSUME NEW x \in Bid, Wanted(x, b), x # a PROVE FALSE
      OBVIOUS
    <3>1. Goes(x, b) /\ Done2(x)
      BY <2>2 DEF Wanted
    <3>2. blocks[x].fun = fun
      BY <1>2, <3>1 DEF LinkInv
    <3>. QED BY <1>6, <3>1, <3>2
  <2>8. \A x, y \in Bid : /\ Linked(x, y)' <=> Wanted(x, y)'
                          /\ Pred(x, y)' <=> Wanted(x, y)'
    BY <1>2, <1>7, <2>1, <2>2, <2>4, <2>5, <2>6, <2>7 DEF LinkInv
  <2>9. \A x, y \in Bid : Goes(x, y)' /\ Done2(x)' => blocks'[x].fun = blocks'[y].fun
    BY <1>1, <1>4, <1>5 DEF LinkInv
  <2>10. \A x \in Bid : ~Done2(x)' => Len(succ'[x]) <= 1
    <3>1. Len(<<b>>) <= 1
      OBVIOUS
    <3>. QED BY <1>4, <2>3, <3>1 DEF LinkInv
  <2>11. \A y \in Bid : (\A x \in Bid : Goes(x, y)' => ~Done2(x)') => Len(pred'[y]) <= 1
    <3>. SUFFICES ASSUME NEW y \in Bid, \A x \in Bid : Goes(x, y)' => ~Done2(x)'
                  PROVE  Len(pred'[y]) <= 1
      OBVIOUS
    <3>1. \A x \in Bid : Goes(x, y) => ~Done2(x)
      BY <1>4, <1>5
    <3>2. Len(pred[y]) <= 1
      BY <3>1 DEF LinkInv
    <3>3. Len(<<a>>) <= 1
      OBVIOUS
    <3>. QED BY <2>3, <3>2, <3>3
  <2>. QED BY <1>1, <2>8, <2>9, <2>10, <2>11 DEF LinkInv
<1>. QED BY <1>8, <1>9

\* Step2: the link of a jump, for which there is room.
LEMMA LinkStep2 ==
  PartInv /\ CoverInv /\ LabInv /\ PhaseInv' /\ LinkInv /\ MAXBBLINK >= 2 /\ link_step2 => LinkInv'
<1>. SUFFICES ASSUME PartInv, CoverInv, LabInv, PhaseInv', LinkInv, MAXBBLINK >= 2, link_step2
              PROVE  LinkInv'
  OBVIOUS
<1>. DEFINE b == BlockAt(at)
            target == lab2bb[code[blocks[b].last].d]
<1>1. /\ fun <= Len(funs) /\ at <= Len(funs[fun].blocks) /\ pc = "step2"
      /\ UNCHANGED <<code, blocks>> /\ Bid' = Bid
  BY DEF link_step2, LinkAt, Bid
<1>2. /\ b \in Bid /\ blocks[b].fun = fun
      /\ \A k \in DOMAIN funs[fun].blocks : BlockAt(k) = b <=> k = at
  BY <1>1, AtBlock
<1>3. \/ /\ code[blocks[b].last].op \notin Jumps /\ UNCHANGED <<succ, pred>>
         /\ at' = at + 1 /\ pc' = pc
      \/ /\ code[blocks[b].last].op \in Jumps /\ target # 0
         /\ succ' = [succ EXCEPT ![b] = Link(@, target)]
         /\ pred' = [pred EXCEPT ![target] = Link(@, b)]
         /\ at' = at + 1 /\ pc' = pc
  BY Zenon DEF link_step2, PhaseInv
<1>4. /\ Bid \subseteq Nat /\ DOMAIN succ = Bid /\ DOMAIN pred = Bid /\ at \in Nat
      /\ Bid = 1..Len(blocks)
      /\ \A x \in Bid : succ[x] \in Seq(Nat) /\ pred[x] \in Seq(Nat)
  BY Types, ElementOfSeq DEF PartInv, TypeOK
<1>5. \A x \in Bid : /\ Done1(x)' <=> Done1(x)
                     /\ Done2(x)' <=> Done2(x) \/ x = b
  BY <1>3, DoneStep2
<1>6. ~Done2(b)
  <2>1. ~Before(b)
    <3>1. \A k \in DOMAIN funs[fun].blocks : funs[fun].blocks[k] = b => k = at
      BY <1>2 DEF BlockAt
    <3>. QED BY <1>4, <3>1 DEF Before
  <2>2. fun \in Nat
    <3>1. Len(funs) \in Nat
      BY BlockFacts
    <3>. QED BY <3>1 DEF PartInv, TypeOK
  <2>. QED BY <1>2, <2>1, <2>2 DEF Done2
<1>7. target # 0 /\ code[blocks[b].last].op \in Jumps =>
        target \in Bid /\ Goes(b, target) /\ blocks[target].fun = fun
  <2>. SUFFICES ASSUME target # 0, code[blocks[b].last].op \in Jumps
                PROVE  target \in Bid /\ Goes(b, target) /\ blocks[target].fun = fun
    OBVIOUS
  <2>1. code[blocks[b].last].d \in Label
    <3>1. blocks[b].last \in 1..Len(code) /\ code \in Program
      BY <1>2, BlockFacts
    <3>. QED BY <3>1, CodeFacts
  <2>2. target \in Bid
    <3>1. lab2bb \in [Label -> 0..Len(blocks)]
      BY DEF PartInv, TypeOK
    <3>2. target \in 0..Len(blocks)
      BY <2>1, <3>1
    <3>. QED BY <1>4, <3>2
  <2>. QED BY <2>1, <2>2 DEF LabInv, Goes
<1>. HIDE DEF target, b
<1>8. \A x, y : (Falls(x, y)' <=> Falls(x, y)) /\ (Goes(x, y)' <=> Goes(x, y))
  BY <1>1 DEF Falls, Goes
<1>9. \A x, y \in Bid : Wanted(x, y)' <=> Wanted(x, y) \/ (x = b /\ Goes(b, y))
  BY <1>5, <1>8 DEF Wanted
<1>10. CASE /\ code[blocks[b].last].op \notin Jumps /\ UNCHANGED <<succ, pred>>
            /\ at' = at + 1 /\ pc' = pc
  <2>1. \A y : ~Goes(b, y)
    BY <1>10 DEF Goes
  <2>2. \A x, y \in Bid : /\ Linked(x, y)' <=> Wanted(x, y)'
                          /\ Pred(x, y)' <=> Wanted(x, y)'
    BY <1>9, <1>10, <2>1 DEF LinkInv, Linked, Pred
  <2>3. \A x, y \in Bid : Goes(x, y)' /\ Done2(x)' => blocks'[x].fun = blocks'[y].fun
    BY <1>1, <1>5, <1>8, <2>1 DEF LinkInv
  <2>4. \A x \in Bid : ~Done2(x)' => Len(succ'[x]) <= 1
    BY <1>5, <1>10 DEF LinkInv
  <2>5. \A y \in Bid : (\A x \in Bid : Goes(x, y)' => ~Done2(x)') => Len(pred'[y]) <= 1
    BY <1>5, <1>8, <1>10 DEF LinkInv
  <2>. QED BY <1>1, <2>2, <2>3, <2>4, <2>5 DEF LinkInv
<1>11. CASE /\ code[blocks[b].last].op \in Jumps /\ target # 0
            /\ succ' = [succ EXCEPT ![b] = Link(@, target)]
            /\ pred' = [pred EXCEPT ![target] = Link(@, b)]
            /\ at' = at + 1 /\ pc' = pc
  <2>1. target \in Bid /\ Goes(b, target) /\ blocks[target].fun = fun
    BY <1>7, <1>11
  <2>2. \A x, y \in Bid : (Goes(b, y) <=> y = target) /\ (Goes(x, target) <=> x = b)
    BY <1>2, <2>1, GoesUnique
  <2>3. Len(succ[b]) <= 1 /\ Len(pred[target]) <= 1
    BY <1>2, <1>6, <2>1, <2>2 DEF LinkInv
  <2>4. ASSUME NEW s \in Seq(Nat), NEW x \in Nat, Len(s) <= 1
        PROVE  \A y : (\E k \in DOMAIN Link(s, x) : Link(s, x)[k] = y) <=>
                        (\E k \in DOMAIN s : s[k] = y) \/ y = x
    <3>1. Len(s) # MAXBBLINK
      BY <2>4, ConstAssumption
    <3>2. CASE \E k \in DOMAIN s : s[k] = x
      BY <3>2 DEF Link
    <3>3. CASE ~\E k \in DOMAIN s : s[k] = x
      <4>1. Link(s, x) = Append(s, x)
        BY <3>1, <3>3 DEF Link
      <4>2. /\ DOMAIN Append(s, x) = 1..Len(s) + 1 /\ DOMAIN s = 1..Len(s) /\ Len(s) \in Nat
            /\ \A i \in 1..Len(s) : Append(s, x)[i] = s[i]
            /\ Append(s, x)[Len(s) + 1] = x
        BY AppendProperties
      <4>. QED BY <4>1, <4>2
    <3>. QED BY <3>2, <3>3
  <2>5. /\ \A x \in Bid : succ'[x] = IF x = b THEN Link(succ[b], target) ELSE succ[x]
        /\ \A x \in Bid : pred'[x] = IF x = target THEN Link(pred[target], b) ELSE pred[x]
    BY <1>4, <1>11
  <2>6. \A x, y \in Bid : Linked(x, y)' <=> Linked(x, y) \/ (x = b /\ y = target)
    <3>. TAKE x, y \in Bid
    <3>1. CASE x = b
      <4>1. (\E k \in DOMAIN Link(succ[b], target) : Link(succ[b], target)[k] = y) <=>
              (\E k \in DOMAIN succ[b] : succ[b][k] = y) \/ y = target
        <5>1. succ[b] \in Seq(Nat) /\ target \in Nat
          BY <1>2, <1>4, <2>1
        <5>2. \A z : (\E k \in DOMAIN Link(succ[b], target) : Link(succ[b], target)[k] = z) <=>
                       (\E k \in DOMAIN succ[b] : succ[b][k] = z) \/ z = target
          BY <2>3, <2>4, <5>1
        <5>. QED BY <5>2
      <4>2. succ'[x] = Link(succ[b], target)
        BY <2>5, <3>1
      <4>. QED BY <3>1, <4>1, <4>2 DEF Linked
    <3>2. CASE x # b
      BY <2>5, <3>2 DEF Linked
    <3>. QED BY <3>1, <3>2
  <2>7. \A x, y \in Bid : Pred(x, y)' <=> Pred(x, y) \/ (x = b /\ y = target)
    <3>. TAKE x, y \in Bid
    <3>1. CASE y = target
      <4>1. (\E k \in DOMAIN Link(pred[target], b) : Link(pred[target], b)[k] = x) <=>
              (\E k \in DOMAIN pred[target] : pred[target][k] = x) \/ x = b
        <5>1. pred[target] \in Seq(Nat) /\ b \in Nat
          BY <1>2, <1>4, <2>1
        <5>2. \A z : (\E k \in DOMAIN Link(pred[target], b) : Link(pred[target], b)[k] = z) <=>
                       (\E k \in DOMAIN pred[target] : pred[target][k] = z) \/ z = b
          BY <2>3, <2>4, <5>1
        <5>. QED BY <5>2
      <4>2. pred'[y] = Link(pred[target], b)
        BY <2>5, <3>1
      <4>. QED BY <3>1, <4>1, <4>2 DEF Pred
    <3>2. CASE y # target
      BY <2>5, <3>2 DEF Pred
    <3>. QED BY <3>1, <3>2
  <2>8. \A x, y \in Bid : /\ Linked(x, y)' <=> Wanted(x, y)'
                          /\ Pred(x, y)' <=> Wanted(x, y)'
    BY <1>9, <2>2, <2>6, <2>7 DEF LinkInv
  <2>9. \A x, y \in Bid : Goes(x, y)' /\ Done2(x)' => blocks'[x].fun = blocks'[y].fun
    BY <1>1, <1>2, <1>5, <1>8, <2>1, <2>2 DEF LinkInv
  <2>10. \A x \in Bid : ~Done2(x)' => Len(succ'[x]) <= 1
    BY <1>5, <2>5 DEF LinkInv
  <2>11. \A y \in Bid : (\A x \in Bid : Goes(x, y)' => ~Done2(x)') => Len(pred'[y]) <= 1
    <3>. SUFFICES ASSUME NEW y \in Bid, \A x \in Bid : Goes(x, y)' => ~Done2(x)'
                  PROVE  Len(pred'[y]) <= 1
      OBVIOUS
    <3>1. \A x \in Bid : Goes(x, y) => ~Done2(x) /\ x # b
      BY <1>5, <1>8
    <3>2. Len(pred[y]) <= 1 /\ y # target
      BY <1>2, <2>1, <3>1 DEF LinkInv
    <3>. QED BY <2>5, <3>2
  <2>. QED BY <1>1, <2>8, <2>9, <2>10, <2>11 DEF LinkInv
<1>. QED BY <1>3, <1>10, <1>11

\* The steps that link nothing.
LEMMA LinkRest ==
  PartInv /\ PhaseInv /\ LinkInv /\ (construct_flow_graph \/ link_next \/ link_done) => LinkInv'
<1>. SUFFICES ASSUME PartInv, PhaseInv, LinkInv,
                     construct_flow_graph \/ link_next \/ link_done
              PROVE  LinkInv'
  OBVIOUS
<1>1. UNCHANGED <<code, blocks, succ, pred>> /\ Bid' = Bid
  BY DEF construct_flow_graph, link_next, link_done, Bid
<1>2. \A x \in Bid : (Done1(x)' <=> Done1(x)) /\ (Done2(x)' <=> Done2(x))
  BY DoneNext
<1>3. \A x, y : /\ Falls(x, y)' <=> Falls(x, y)
                /\ Goes(x, y)' <=> Goes(x, y)
                /\ Linked(x, y)' <=> Linked(x, y)
                /\ Pred(x, y)' <=> Pred(x, y)
  BY <1>1 DEF Falls, Goes, Linked, Pred
<1>4. \A x, y \in Bid : Wanted(x, y)' <=> Wanted(x, y)
  BY <1>2, <1>3 DEF Wanted
<1>5. \A y \in Bid : (\A x \in Bid : Goes(x, y)' => ~Done2(x)') => Len(pred'[y]) <= 1
  BY <1>1, <1>2, <1>3 DEF LinkInv
<1>. QED BY <1>1, <1>2, <1>3, <1>4, <1>5 DEF LinkInv

-----------------------------------------------------------------------------
(* The theorems                                                            *)

Inv == PartInv /\ CoverInv /\ LabInv /\ PhaseInv

LEMMA InvInit == Init => Inv
<1>1. Init => Early
  BY DEF Init, Early
<1>. QED BY <1>1, PartInit, PhaseInit, EarlyLabels DEF Inv

LEMMA InvStep == Inv /\ [Next]_vars => Inv'
<1>. SUFFICES ASSUME Inv, [Next]_vars PROVE Inv'
  OBVIOUS
<1>1. CASE UNCHANGED vars
  <2>1. \A i : Ends(i)' = Ends(i) /\ Starts(i)' = Starts(i) /\ (Done1(i)' <=> Done1(i))
    BY <1>1 DEF vars, Ends, Starts, Done1, Before
  <2>2. Bid' = Bid /\ Starts(leader - 1)' = Starts(leader - 1)
    BY <1>1 DEF vars, Bid, Starts
  <2>3. TypeOK' /\ FunInv' /\ ListInv' /\ PhaseInv'
    BY <1>1, <2>2 DEF Inv, PartInv, TypeOK, FunInv, ListInv, PhaseInv, vars
  <2>4. BlockInv'
    BY <1>1, <2>1, <2>2 DEF Inv, PartInv, BlockInv, vars
  <2>5. CoverInv' /\ LabInv'
    BY <1>1, <2>1, <2>2 DEF Inv, CoverInv, InBlock, LabInv, vars
  <2>. QED BY <1>1, <2>3, <2>4, <2>5 DEF Inv, PartInv, vars
<1>2. CASE Next
  <2>1. CASE create_function_object \/ function_finish \/ create_basic_block
    <3>1. PartInv'
      BY <2>1, CreateFunction, FunctionFinish, CreateBlock DEF Inv
    <3>2. CoverInv'
      BY <2>1, <3>1, CoverStep DEF Inv
    <3>. QED BY <1>2, <3>1, <3>2, PhaseStep, LabStep DEF Inv
  <2>2. CASE LinkStep
    <3>1. TypeOK' /\ leader = Len(code) + 1
      BY <2>2, LinkTypes DEF Inv
    <3>2. UNCHANGED <<code, leader, funs, thefunc, blocks>>
      BY <2>2 DEF LinkStep, construct_flow_graph, link_step1, link_step2, link_next, link_done
    <3>3. PartInv' /\ CoverInv'
      BY <3>1, <3>2, BlocksKept DEF Inv
    <3>. QED BY <1>2, <3>3, PhaseStep, LabStep DEF Inv
  <2>. QED BY <1>2, <2>1, <2>2 DEF Next, LinkStep
<1>. QED BY <1>1, <1>2

LEMMA LinksInit == Init => LinkInv
<1>1. Init => Early
  BY DEF Init, Early
<1>. QED BY <1>1, PartInit, PhaseInit, EarlyLinks

LEMMA LinksStep == Inv /\ LinkInv /\ MAXBBLINK >= 2 /\ Inv' /\ [Next]_vars => LinkInv'
<1>. SUFFICES ASSUME Inv, LinkInv, MAXBBLINK >= 2, Inv', [Next]_vars PROVE LinkInv'
  OBVIOUS
<1>1. CASE UNCHANGED vars
  <2>1. /\ Bid' = Bid /\ UNCHANGED <<blocks, succ, pred>>
        /\ \A x : (Done1(x)' <=> Done1(x)) /\ (Done2(x)' <=> Done2(x))
        /\ \A x, y : /\ Falls(x, y)' <=> Falls(x, y)
                     /\ Goes(x, y)' <=> Goes(x, y)
                     /\ Linked(x, y)' <=> Linked(x, y)
                     /\ Pred(x, y)' <=> Pred(x, y)
    BY <1>1 DEF vars, Bid, Done1, Done2, Before, Falls, Goes, Linked, Pred
  <2>2. \A x, y : Wanted(x, y)' <=> Wanted(x, y)
    BY <2>1 DEF Wanted
  <2>. QED BY <2>1, <2>2 DEF LinkInv
<1>2. CASE Early'
  BY <1>2, EarlyLinks, PTL DEF Inv
<1>3. CASE create_function_object \/ function_finish \/ create_basic_block
  <2>1. Early'
    BY <1>3 DEF create_function_object, function_finish, create_basic_block, Partitioning, Early
  <2>. QED BY <1>2, <2>1
<1>. QED BY <1>1, <1>3, LinkStep1, LinkStep2, LinkRest DEF Next, Inv

\* The passes keep their types, for every well-formed code: no bid, index or
\* function number leaves what partition_basic_blocks has made.
THEOREM TypeCorrect == Spec => []TypeOK
<1>1. Inv => TypeOK
  BY DEF Inv, PartInv
<1>. QED BY <1>1, InvInit, InvStep, PTL DEF Spec

\* partition_basic_blocks puts every instruction of every well-formed code
\* in one block, of the function that it is in.
THEOREM BlocksRight == Spec => []BlocksCover
<1>1. Inv => BlocksCover
  <2>. SUFFICES ASSUME Inv PROVE BlocksCover
    OBVIOUS
  <2>1. /\ \A b \in Bid : /\ 1 <= blocks[b].first /\ blocks[b].first <= blocks[b].last
                          /\ \A j \in blocks[b].first..blocks[b].last :
                               code[j].op \notin {"FN_START", "FN_END"}
        /\ \A b, c \in Bid : b < c => blocks[b].last < blocks[c].first
        /\ \A b \in Bid : /\ b \in Nat
                          /\ blocks[b].first \in Nat /\ blocks[b].last \in Nat
    BY Types DEF Inv, PartInv, BlockInv
  <2>2. leader \in Nat
    BY CodeFacts DEF Inv, PartInv, TypeOK
  <2>3. \A b \in Bid, i \in Nat : InBlock(b, i) <=> i \in blocks[b].first..blocks[b].last
    BY <2>1 DEF InBlock
  <2>4. ASSUME NEW i \in 1..leader - 1
        PROVE  IF code[i].op \in {"FN_START", "FN_END"}
               THEN \A b \in Bid : ~InBlock(b, i)
               ELSE \E b \in Bid :
                      /\ \A c \in Bid : InBlock(c, i) <=> c = b
                      /\ \E s \in 1..i : /\ code[s].op = "FN_START"
                                         /\ code[s].d = funs[blocks[b].fun].scope
                                         /\ \A j \in s..i : code[j].op # "FN_END"
                      /\ \E k \in DOMAIN funs[blocks[b].fun].blocks :
                           funs[blocks[b].fun].blocks[k] = b
    <3>0. i \in Nat
      BY <2>2
    <3>1. CASE code[i].op \in {"FN_START", "FN_END"}
      BY <2>1, <2>3, <3>0, <3>1
    <3>2. CASE code[i].op \notin {"FN_START", "FN_END"}
      <4>1. PICK b \in Bid : InBlock(b, i)
        BY <3>2 DEF Inv, CoverInv
      <4>2. \A c \in Bid : InBlock(c, i) <=> c = b
        <5>. SUFFICES ASSUME NEW c \in Bid, InBlock(c, i), c # b PROVE FALSE
          BY <4>1
        <5>1. b < c \/ c < b
          BY <2>1
        <5>2. /\ blocks[b].first <= i /\ i <= blocks[b].last
              /\ blocks[c].first <= i /\ i <= blocks[c].last
          BY <4>1 DEF InBlock
        <5>. QED BY <2>1, <3>0, <5>1, <5>2
      <4>3. PICK s \in 1..blocks[b].first :
              /\ code[s].op = "FN_START" /\ code[s].d = funs[blocks[b].fun].scope
              /\ \A j \in s..blocks[b].first : code[j].op # "FN_END"
        BY DEF Inv, CoverInv
      <4>4. blocks[b].first <= i /\ i <= blocks[b].last
        BY <4>1 DEF InBlock
      <4>5. s \in 1..i /\ \A j \in s..i : code[j].op # "FN_END"
        BY <2>1, <3>0, <4>3, <4>4
      <4>6. \E k \in DOMAIN funs[blocks[b].fun].blocks : funs[blocks[b].fun].blocks[k] = b
        BY DEF Inv, PartInv, ListInv
      <4>. QED BY <3>2, <4>2, <4>3, <4>5, <4>6
    <3>. QED BY <3>1, <3>2
  <2>. QED BY <2>1, <2>4 DEF BlocksCover
<1>. QED BY <1>1, InvInit, InvStep, PTL DEF Spec

\* Control never enters a block but at its first instruction, nor leaves it
\* but at its last.
THEOREM OneEntryOneExit == Spec => []OneWayInOut
<1>1. Inv => OneWayInOut
  <2>. SUFFICES ASSUME Inv, NEW b \in Bid, NEW i \in blocks[b].first..blocks[b].last
                PROVE  /\ code[i].op = "LABEL" => i = blocks[b].first
                       /\ code[i].op \in Jumps => i = blocks[b].last
    BY DEF OneWayInOut
  <2>1. code[i].op = "LABEL" => i = blocks[b].first
    BY LabelFirst DEF Inv
  <2>2. ASSUME code[i].op \in Jumps, i # blocks[b].last PROVE FALSE
    <3>1. blocks[b].first \in Nat /\ blocks[b].last \in Nat
      BY Types DEF Inv, PartInv
    <3>2. i \in blocks[b].first..blocks[b].last - 1
      BY <2>2, <3>1
    <3>3. ~Ends(i)
      BY <3>2 DEF Inv, PartInv, BlockInv
    <3>. QED BY <2>2, <3>3 DEF Ends
  <2>. QED BY <2>1, <2>2
<1>. QED BY <1>1, InvInit, InvStep, PTL DEF Spec

\* link_basic_block reads no element of lab2bb that it has not written to in
\* the same function.
THEOREM NoGarbageRead == Spec => [](pc # "undefined")
<1>1. Inv => pc # "undefined"
  BY DEF Inv, PhaseInv
<1>. QED BY <1>1, InvInit, InvStep, PTL DEF Spec

\* When both steps are done with every function.
LEMMA AllDone ==
  ASSUME Inv, pc = "done", NEW b \in Bid
  PROVE  Done1(b) /\ Done2(b)
<1>1. /\ blocks[b].fun \in DOMAIN funs /\ DOMAIN funs = 1..Len(funs) /\ Len(funs) \in Nat
      /\ fun = Len(funs) + 1
  BY Types DEF Inv, PartInv, ListInv, PhaseInv
<1>. QED BY <1>1 DEF Done1, Done2

\* What follows a block that does not jump away is the next block of its
\* function.
LEMMA FallsThrough ==
  ASSUME Inv, pc = "done", NEW b \in Bid,
         code[blocks[b].last + 1].op # "FN_END"
  PROVE  \E c \in Bid : Falls(b, c) /\ blocks[c].first = blocks[b].last + 1
<1>1. /\ \A c \in Bid : /\ 1 <= blocks[c].first /\ blocks[c].first <= blocks[c].last
                        /\ blocks[c].last < leader
                        /\ blocks[c].first \in Nat /\ blocks[c].last \in Nat
      /\ \A c, d \in Bid : c < d => blocks[c].last < blocks[d].first
      /\ \A c \in Bid : code[blocks[c].last].op \notin {"FN_START", "FN_END"}
  <2>1. PartInv
    BY DEF Inv
  <2>2. \A c \in Bid : /\ blocks[c].last \in blocks[c].first..blocks[c].last
                       /\ blocks[c].first \in Nat \ {0} /\ blocks[c].last \in Nat
                       /\ blocks[c].first <= blocks[c].last /\ blocks[c].last < leader
    BY <2>1, BlockFacts
  <2>3. \A c, d \in Bid : c < d => blocks[c].last < blocks[d].first
    BY <2>1, BlockFacts
  <2>4. \A c \in Bid : \A j \in blocks[c].first..blocks[c].last :
          code[j].op \notin {"FN_START", "FN_END"}
    BY <2>1 DEF PartInv, BlockInv
  <2>. QED BY <2>2, <2>3, <2>4
<1>2. Bid = 1..Len(blocks) /\ Len(blocks) \in Nat
  BY BlockFacts DEF Inv
<1>3. leader = Len(code) + 1 /\ Len(code) \in Nat
  BY CodeFacts DEF Inv, PartInv, FunInv
<1>. DEFINE l == blocks[b].last
<1>4. l \in 1..Len(code) - 1
  <2>1. l \in 1..Len(code) /\ Len(code) > 0
    BY <1>1, <1>3
  <2>2. code[Len(code)].op = "FN_END"
    BY <2>1, CodeFacts DEF Inv, PartInv
  <2>3. l # Len(code)
    BY <1>1, <2>2
  <2>. QED BY <1>3, <2>1, <2>3
<1>5. code[l + 1].op # "FN_START"
  BY <1>1, <1>4, CodeFacts DEF Inv, PartInv
<1>6. PICK c \in Bid : InBlock(c, l + 1)
  <2>1. l + 1 \in 1..leader - 1
    BY <1>3, <1>4
  <2>. QED BY <1>5, <2>1 DEF Inv, CoverInv
<1>7. blocks[c].first <= l + 1 /\ l + 1 <= blocks[c].last
  BY <1>6 DEF InBlock
<1>8. b < c
  <2>1. b \in Nat /\ c \in Nat /\ b # c
    BY <1>1, <1>2, <1>4, <1>7
  <2>2. c < b => FALSE
    BY <1>1, <1>4, <1>7
  <2>. QED BY <2>1, <2>2
<1>9. blocks[c].first = l + 1
  BY <1>1, <1>4, <1>7, <1>8
<1>10. c = b + 1
  <2>. SUFFICES ASSUME c # b + 1 PROVE FALSE
    OBVIOUS
  <2>1. b + 1 \in Bid /\ b < b + 1 /\ b + 1 < c
    BY <1>2, <1>8
  <2>2. /\ blocks[b].last < blocks[b + 1].first /\ blocks[b + 1].first <= blocks[b + 1].last
        /\ blocks[b + 1].last < blocks[c].first
        /\ blocks[b + 1].first \in Nat /\ blocks[b + 1].last \in Nat
    BY <1>1, <2>1
  <2>. QED BY <1>1, <1>9, <2>2
<1>11. blocks[b].fun = blocks[c].fun
  BY <1>6, <1>9, <1>10 DEF Inv, PartInv, ListInv
<1>. QED BY <1>9, <1>10, <1>11 DEF Falls

\* If a block has room for two links in each direction (MAXBBLINK is 32),
\* no path between two blocks is missing from the graph.
THEOREM PathsComplete ==
  ASSUME MAXBBLINK >= 2
  PROVE  Spec => []EdgesComplete
<1>1. Inv /\ LinkInv => EdgesComplete
  <2>. SUFFICES ASSUME Inv, LinkInv, pc = "done", NEW b \in Bid, NEW j \in Follows(blocks[b].last)
                PROVE  \E c \in Bid : blocks[c].first = j /\ Linked(b, c)
    BY DEF EdgesComplete
  <2>1. CASE j = blocks[b].last + 1 /\ code[blocks[b].last + 1].op # "FN_END"
    <3>1. PICK c \in Bid : Falls(b, c) /\ blocks[c].first = j
      BY <2>1, FallsThrough
    <3>. QED BY <3>1, AllDone DEF LinkInv, Wanted
  <2>2. CASE /\ j \in DOMAIN code /\ code[blocks[b].last].op \in Jumps
             /\ code[j].op = "LABEL" /\ code[j].d = code[blocks[b].last].d
    <3>1. DOMAIN code = 1..Len(code) /\ code \in Program
      BY CodeFacts DEF Inv, PartInv
    <3>0. leader = Len(code) + 1 /\ Len(code) \in Nat
      BY CodeFacts DEF Inv, PartInv, FunInv
    <3>2. PICK c \in Bid : Goes(b, c)
      BY <2>2, <3>0, <3>1, JumpTarget DEF Inv
    <3>3. blocks[c].first \in 1..Len(code)
      BY BlockFacts DEF Inv
    <3>4. blocks[c].first = j
      <4>1. code[blocks[c].first].op = "LABEL" /\ code[blocks[c].first].d = code[j].d
        BY <2>2, <3>2 DEF Goes
      <4>. QED BY <2>2, <3>1, <3>3, <4>1, CodeFacts
    <3>. QED BY <3>2, <3>4, AllDone DEF LinkInv, Wanted
  <2>. QED BY <2>1, <2>2 DEF Follows
<1>2. Inv /\ LinkInv /\ Inv' /\ [Next]_vars => LinkInv'
  BY LinksStep
<1>. QED BY <1>1, <1>2, InvInit, InvStep, LinksInit, PTL DEF Spec

\* If a block has room for two links in each direction, the links are the
\* ones that LiveVars takes for granted.
THEOREM LinksRight ==
  ASSUME MAXBBLINK >= 2
  PROVE  Spec => []LinksMutual
<1>1. Inv /\ LinkInv => LinksMutual
  <2>. SUFFICES ASSUME Inv, LinkInv, pc = "done", NEW b \in Bid, NEW c \in Bid
                PROVE  /\ Linked(b, c) <=> \E k \in DOMAIN pred[c] : pred[c][k] = b
                       /\ Linked(b, c) => blocks[b].fun = blocks[c].fun
                       /\ c = b + 1 /\ blocks[b].fun = blocks[c].fun => Linked(b, c)
                       /\ Linked(b, c) /\ c # b + 1 => blocks[c].first \in Follows(blocks[b].last)
    BY DEF LinksMutual
  <2>1. Linked(b, c) <=> Falls(b, c) \/ Goes(b, c)
    BY AllDone DEF LinkInv, Wanted
  <2>2. Linked(b, c) <=> \E k \in DOMAIN pred[c] : pred[c][k] = b
    BY DEF LinkInv, Pred
  <2>3. Goes(b, c) => blocks[b].fun = blocks[c].fun
    BY AllDone DEF LinkInv
  <2>4. blocks[c].first \in DOMAIN code
    <3>1. DOMAIN code = 1..Len(code)
      BY CodeFacts DEF Inv, PartInv
    <3>. QED BY <3>1, BlockFacts DEF Inv
  <2>5. Goes(b, c) => blocks[c].first \in Follows(blocks[b].last)
    BY <2>4 DEF Goes, Follows
  <2>. QED BY <2>1, <2>2, <2>3, <2>5 DEF Falls
<1>2. Inv /\ LinkInv /\ Inv' /\ [Next]_vars => LinkInv'
  BY LinksStep
<1>. QED BY <1>1, <1>2, InvInit, InvStep, LinksInit, PTL DEF Spec
=============================================================================
