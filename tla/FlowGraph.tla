------------------------------ MODULE FlowGraph ------------------------------
(***************************************************************************)
(* The flow graph of the generated code (optimize_cfg.c): the instruction  *)
(* list is cut into the routines and their basic blocks, and the blocks of *)
(* each routine are linked.                                                *)
(*                                                                         *)
(* The instruction list is the input, chosen once.  A pointer into it is   *)
(* an index, a bb_t is its bid; insts[0..total-1] of a block is the run of *)
(* code from first to last, so only its ends are kept.                     *)
(***************************************************************************)
EXTENDS IRCode

CONSTANTS
  Routine,    \* the routines' scopes
  Label,      \* the sids of labels
  Program,    \* the instruction lists
  MAXBBINST,  \* the instructions a block holds
  MAXBBLINK   \* the successors and the predecessors a block holds

Inst == [op : {"FN_START", "FN_END"}, d : Routine]
          \cup [op : Jumps \cup {"LABEL"}, d : Label]
          \cup {[op |-> "OTHER"]}

ASSUME ConstAssumption ==
  /\ MAXBBINST \in Nat \ {0} /\ MAXBBLINK \in Nat \ {0}
  /\ \A code \in Program : code \in Seq(Inst) /\ WellFormed(code)

VARIABLES
  code,     \* the list that xhead heads
  leader,   \* the leader of the current block, Len(code) + 1 for NULL
  funs,     \* the function objects, as [scope, blocks]
  thefunc,  \* the current one, 0 if none
  blocks,   \* bid -> [fun, first, last]
  succ, pred,
  lab2bb,   \* label -> bid; 0 where the array was never written
  pc,       \* "partition", "step1", "step2", "done", "panic", "undefined"
  fun, at   \* link_basic_block: the function and the place in its block list

vars == <<code, leader, funs, thefunc, blocks, succ, pred, lab2bb, pc, fun, at>>

Init ==
  /\ code \in Program
  /\ leader = 1
  /\ funs = <<>> /\ thefunc = 0
  /\ blocks = <<>> /\ succ = <<>> /\ pred = <<>>
  /\ lab2bb = [l \in Label |-> 0]
  /\ pc = "partition"
  /\ fun = 1 /\ at = 1

-----------------------------------------------------------------------------
(* partition_basic_blocks                                                  *)

Partitioning(op) == pc = "partition" /\ leader <= Len(code) /\ code[leader].op = op

create_function_object ==
  /\ Partitioning("FN_START")
  /\ funs' = Append(funs, [scope |-> code[leader].d, blocks |-> <<>>])
  /\ thefunc' = Len(funs) + 1
  /\ leader' = leader + 1
  /\ UNCHANGED <<code, blocks, succ, pred, lab2bb, pc, fun, at>>

function_finish ==
  /\ Partitioning("FN_END")
  /\ IF funs[thefunc].scope # code[leader].d
     THEN pc' = "panic" /\ UNCHANGED <<thefunc, leader>>
     ELSE thefunc' = 0 /\ leader' = leader + 1 /\ UNCHANGED pc
  /\ UNCHANGED <<code, funs, blocks, succ, pred, lab2bb, fun, at>>

\* Variant: a label does not begin a block.
Ends_nolabel(i) ==
  \/ i = Len(code)
  \/ code[i + 1].op \in Jumps \cup {"FN_START", "FN_END"}
  \/ code[i].op \in Jumps

\* Variant: the end of a routine does not end a block.
Ends_nofinish(i) ==
  \/ i = Len(code)
  \/ code[i + 1].op \in Jumps \cup {"LABEL"}
  \/ code[i].op \in Jumps

\* A block ends before the next leader and behind a jump.
Ends(i) ==
  \/ i = Len(code)
  \/ code[i + 1].op \in Jumps \cup {"LABEL", "FN_START", "FN_END"}
  \/ code[i].op \in Jumps

create_basic_block ==
  /\ pc = "partition" /\ leader <= Len(code)
  /\ code[leader].op \notin {"FN_START", "FN_END"}
  /\ LET bid == Len(blocks) + 1
         last == CHOOSE i \in leader..Len(code) :
                   Ends(i) /\ \A j \in leader..i - 1 : ~Ends(j)
     IN  IF last - leader + 1 > MAXBBINST
         THEN pc' = "panic" /\ UNCHANGED <<blocks, funs, leader, succ, pred>>
         ELSE /\ blocks' = Append(blocks, [fun |-> thefunc,
                                           first |-> leader, last |-> last])
              /\ funs' = [funs EXCEPT ![thefunc].blocks = Append(@, bid)]
              /\ succ' = Append(succ, <<>>) /\ pred' = Append(pred, <<>>)
              /\ leader' = last + 1
              /\ UNCHANGED pc
  /\ UNCHANGED <<code, thefunc, lab2bb, fun, at>>

-----------------------------------------------------------------------------
(* construct_flow_graph: link_basic_block on every function                *)

LinkAt(step) == pc = step /\ fun <= Len(funs) /\ at <= Len(funs[fun].blocks)
BlockAt(i) == funs[fun].blocks[i]

construct_flow_graph ==
  /\ pc = "partition" /\ leader > Len(code)
  /\ pc' = "step1"
  /\ UNCHANGED <<code, leader, funs, thefunc, blocks, succ, pred, lab2bb, fun, at>>

\* lab2bb once block b is in it, if it begins with a label.
MapLabel(b) ==
  LET x == code[blocks[b].first]
  IN  IF x.op = "LABEL" THEN [lab2bb EXCEPT ![x.d] = b] ELSE lab2bb

\* Step1: the map from labels to blocks, and the links to the next block.
link_step1 ==
  /\ LinkAt("step1")
  /\ LET b == BlockAt(at)
     IN  /\ lab2bb' = MapLabel(b)
         /\ IF at = 1
            THEN UNCHANGED <<succ, pred>>
            ELSE /\ succ' = [succ EXCEPT ![BlockAt(at - 1)] = <<b>>]
                 /\ pred' = [pred EXCEPT ![b] = <<BlockAt(at - 1)>>]
  /\ at' = at + 1
  /\ UNCHANGED <<code, leader, funs, thefunc, blocks, pc, fun>>

\* Variant: a link overwrites the first.
Link_first(links, b) == <<b>>

\* Variant: the last place is never used.
Link_short(links, b) ==
  IF Len(links) + 1 = MAXBBLINK \/ \E i \in DOMAIN links : links[i] = b
  THEN links ELSE Append(links, b)

\* The first free place, unless the block is there; a full array loses it.
Link(links, b) ==
  IF Len(links) = MAXBBLINK \/ \E i \in DOMAIN links : links[i] = b
  THEN links ELSE Append(links, b)

\* Step2: the links of jumps to the blocks of their labels.
link_step2 ==
  /\ LinkAt("step2")
  /\ LET b == BlockAt(at)
         x == code[blocks[b].last]
     IN  IF x.op \notin Jumps
         THEN at' = at + 1 /\ UNCHANGED <<succ, pred, pc>>
         ELSE LET target == lab2bb[x.d]
              IN  IF target = 0
                  THEN pc' = "undefined" /\ UNCHANGED <<succ, pred, at>>
                  ELSE /\ succ' = [succ EXCEPT ![b] = Link(@, target)]
                       /\ pred' = [pred EXCEPT ![target] = Link(@, b)]
                       /\ at' = at + 1
                       /\ UNCHANGED pc
  /\ UNCHANGED <<code, leader, funs, thefunc, blocks, lab2bb, fun>>

\* The other step on this function, or the next function, whose lab2bb is
\* a new array that nothing has written to.
link_next ==
  /\ pc \in {"step1", "step2"} /\ fun <= Len(funs) /\ at > Len(funs[fun].blocks)
  /\ at' = 1
  /\ IF pc = "step1"
     THEN pc' = "step2" /\ UNCHANGED <<fun, lab2bb>>
     ELSE pc' = "step1" /\ fun' = fun + 1 /\ lab2bb' = [l \in Label |-> 0]
  /\ UNCHANGED <<code, leader, funs, thefunc, blocks, succ, pred>>

link_done ==
  /\ pc = "step1" /\ fun > Len(funs)
  /\ pc' = "done"
  /\ UNCHANGED <<code, leader, funs, thefunc, blocks, succ, pred, lab2bb, fun, at>>

Next ==
  \/ create_function_object \/ function_finish \/ create_basic_block
  \/ construct_flow_graph \/ link_step1 \/ link_step2 \/ link_next \/ link_done

Spec == Init /\ [][Next]_vars

\* The two passes run to their end once they are called.
FairSpec == Spec /\ WF_vars(Next)

-----------------------------------------------------------------------------
(* Properties                                                              *)

Bid == DOMAIN blocks
InBlock(b, i) == blocks[b].first <= i /\ i <= blocks[b].last

FunType == [scope : Routine, blocks : Seq(Nat)]
BlockType == [fun : Nat, first : Nat, last : Nat]

\* The types of the variables; blocks, the links and lab2bb have their bids
\* from the blocks there are.
TypeOK ==
  /\ leader \in 1..Len(code) + 1
  /\ funs \in Seq(FunType)
  /\ thefunc \in 0..Len(funs)
  /\ blocks \in Seq(BlockType)
  /\ succ \in Seq(Seq(Nat)) /\ Len(succ) = Len(blocks)
  /\ pred \in Seq(Seq(Nat)) /\ Len(pred) = Len(blocks)
  /\ lab2bb \in [Label -> 0..Len(blocks)]
  /\ pc \in {"partition", "step1", "step2", "done", "panic", "undefined"}
  /\ fun \in 1..Len(funs) + 1 /\ at \in Nat \ {0}

\* The blocks made so far hold every instruction before the leader but the
\* FN_START and FN_END once, in order, and a function object has the blocks
\* of the instructions between its FN_START and its FN_END.
BlocksCover ==
  /\ \A i \in 1..leader - 1 :
       IF code[i].op \in {"FN_START", "FN_END"}
       THEN \A b \in Bid : ~InBlock(b, i)
       ELSE \E b \in Bid :
              /\ \A c \in Bid : InBlock(c, i) <=> c = b
              /\ \E s \in 1..i : /\ code[s].op = "FN_START"
                                 /\ code[s].d = funs[blocks[b].fun].scope
                                 /\ \A j \in s..i : code[j].op # "FN_END"
              /\ \E k \in DOMAIN funs[blocks[b].fun].blocks :
                   funs[blocks[b].fun].blocks[k] = b
  /\ \A b, c \in Bid : b < c => blocks[b].last < blocks[c].first

\* Control enters a block at its first instruction and leaves it at its
\* last: no other is a label, no other jumps.
OneWayInOut ==
  \A b \in Bid : \A i \in blocks[b].first..blocks[b].last :
    /\ code[i].op = "LABEL" => i = blocks[b].first
    /\ code[i].op \in Jumps => i = blocks[b].last

\* Where control can go from instruction i.
Follows(i) ==
  (IF code[i].op = "JUMP" \/ code[i + 1].op = "FN_END" THEN {} ELSE {i + 1})
    \cup {j \in DOMAIN code : /\ code[i].op \in Jumps /\ code[j].op = "LABEL"
                              /\ code[j].d = code[i].d}

Linked(b, c) == \E k \in DOMAIN succ[b] : succ[b][k] = c

\* No path is missing: whatever control can do between two blocks is a link,
\* so what the data flow analyses find holds on every path.
EdgesComplete ==
  pc = "done" =>
    \A b \in Bid : \A j \in Follows(blocks[b].last) :
      \E c \in Bid : blocks[c].first = j /\ Linked(b, c)

\* The links are mutual, stay within a function, and are what LiveVars takes
\* them for: every block but the last of its function is linked to the next,
\* and besides to the block its jump goes to.
LinksMutual ==
  pc = "done" =>
    \A b, c \in Bid :
      /\ Linked(b, c) <=> \E k \in DOMAIN pred[c] : pred[c][k] = b
      /\ Linked(b, c) => blocks[b].fun = blocks[c].fun
      /\ c = b + 1 /\ blocks[b].fun = blocks[c].fun => Linked(b, c)
      /\ Linked(b, c) /\ c # b + 1 => blocks[c].first \in Follows(blocks[b].last)

\* Both passes come to an end, without a panic, and without reading an
\* element of lab2bb that nothing was written to.
Completes == <>(pc = "done")
=============================================================================
