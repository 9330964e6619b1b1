--------------------------- MODULE LiveVarsProofs ---------------------------
(***************************************************************************)
(* Proofs about LiveVars, for every flow graph, every block list and every *)
(* width of a word: when the rounds of data_flow_anlys stop, IN and OUT    *)
(* are the least solution of the data flow equations.                      *)
(***************************************************************************)
EXTENDS LiveVars, NumberFacts, FiniteSetTheorems

-----------------------------------------------------------------------------
(* The words hold sets                                                     *)

Sid == 0..NBITARR * BITSIZE - 1

\* A sid has a place in the words, and no other sid has the same.
LEMMA Place ==
  ASSUME NEW v \in Sid
  PROVE  POS(v) \in Pos /\ OFF(v) \in Off /\ v = BITSIZE * POS(v) + OFF(v)
<1>1. BITSIZE \in Nat \ {0} /\ NBITARR \in Nat /\ v \in Nat /\ v < NBITARR * BITSIZE
  <2>1. BITSIZE \in Nat \ {0} /\ NBITARR \in Nat
    BY ConstAssumption
  <2>2. NBITARR * BITSIZE \in Nat
    BY <2>1
  <2>. QED BY <2>1, <2>2 DEF Sid
<1>. DEFINE q == v \div BITSIZE
            r == v % BITSIZE
<1>2. q \in Nat /\ r \in 0..BITSIZE - 1 /\ v = BITSIZE * q + r
  BY <1>1
<1>. HIDE DEF q, r
<1>3. q < NBITARR
  <2>. SUFFICES ASSUME q >= NBITARR PROVE FALSE
    BY <1>1, <1>2
  <2>1. BITSIZE * q >= BITSIZE * NBITARR
    BY <1>1, <1>2
  <2>. QED BY <1>1, <1>2, <2>1
<1>4. q \in Pos /\ r \in Off
  BY <1>1, <1>2, <1>3 DEF Pos, Off
<1>. QED BY <1>2, <1>4 DEF q, r, POS, OFF

LEMMA PlaceUnique ==
  ASSUME NEW u \in Sid, NEW v \in Sid, POS(u) = POS(v), OFF(u) = OFF(v)
  PROVE  u = v
<1>1. u = BITSIZE * POS(u) + OFF(u) /\ v = BITSIZE * POS(v) + OFF(v)
  BY Place
<1>. QED BY <1>1

LEMMA VarSid == Var \subseteq Sid
BY ConstAssumption DEF Sid

LEMMA MembersOf == \A a, v : v \in Members(a) <=> v \in Sid /\ OFF(v) \in a[POS(v)]
BY DEF Members, sget, Sid

LEMMA Cleared == sclr \in Bits /\ Members(sclr) = {}
<1>1. sclr \in Bits
  BY DEF sclr, Bits
<1>2. \A v : v \notin Members(sclr)
  BY MembersOf, Place DEF sclr
<1>. QED BY <1>1, <1>2

LEMMA SetBits ==
  ASSUME NEW a \in Bits, NEW S, S \subseteq Var
  PROVE  sset(a, S) \in Bits /\ Members(sset(a, S)) = Members(a) \cup S
<1>1. \A v \in S : v \in Sid /\ POS(v) \in Pos /\ OFF(v) \in Off
  BY VarSid, Place
<1>2. sset(a, S) \in Bits
  BY <1>1 DEF sset, Bits
<1>3. ASSUME NEW v \in Sid
      PROVE  v \in Members(sset(a, S)) <=> v \in Members(a) \cup S
  <2>1. POS(v) \in Pos
    BY Place
  <2>2. v \in Members(sset(a, S)) <=>
          OFF(v) \in a[POS(v)] \cup {OFF(w) : w \in {u \in S : POS(u) = POS(v)}}
    BY <2>1, MembersOf DEF sset
  <2>3. OFF(v) \in {OFF(w) : w \in {u \in S : POS(u) = POS(v)}} <=> v \in S
    BY <1>1, PlaceUnique
  <2>. QED BY <2>2, <2>3, MembersOf
<1>4. \A v : v \notin Sid => v \notin Members(sset(a, S)) /\ v \notin Members(a) \cup S
  BY <1>1, MembersOf
<1>. QED BY <1>2, <1>3, <1>4

LEMMA JoinBits ==
  ASSUME NEW a \in Bits, NEW b \in Bits
  PROVE  /\ sunion(a, b) \in Bits /\ Members(sunion(a, b)) = Members(a) \cup Members(b)
         /\ ssub(a, b) \in Bits /\ Members(ssub(a, b)) = Members(a) \ Members(b)
<1>1. sunion(a, b) \in Bits /\ ssub(a, b) \in Bits
  BY DEF sunion, ssub, Bits
<1>2. \A v \in Sid : /\ sunion(a, b)[POS(v)] = a[POS(v)] \cup b[POS(v)]
                     /\ ssub(a, b)[POS(v)] = a[POS(v)] \ b[POS(v)]
  BY Place DEF sunion, ssub
<1>3. \A v : /\ v \in Members(sunion(a, b)) <=> v \in Members(a) \/ v \in Members(b)
             /\ v \in Members(ssub(a, b)) <=> v \in Members(a) /\ v \notin Members(b)
  BY <1>2, MembersOf
<1>. QED BY <1>1, <1>3

LEMMA SameBits ==
  ASSUME NEW a \in Bits, NEW b \in Bits, ssame(a, b)
  PROVE  a = b
BY DEF ssame, Bits

-----------------------------------------------------------------------------
(* Types                                                                   *)

LEMMA Mentioned ==
  ASSUME NEW inst
  PROVE  Uses(inst) \subseteq Var /\ Defs(inst) \subseteq Var
BY DEF Uses, Defs

LEMMA Lists ==
  ASSUME TypeOK, NEW b \in Block
  PROVE  Len(insts[b]) \in Nat /\ Len(insts[b]) >= 1 /\ DOMAIN insts[b] = 1..Len(insts[b])
<1>1. insts[b] \in Code
  BY DEF TypeOK
<1>2. insts[b] \in Seq(Inst) /\ Len(insts[b]) \in 1..MAXBBINST
  BY <1>1, ConstAssumption
<1>. QED BY <1>2

LEMMA UseDefType ==
  ASSUME NEW u \in Bits, NEW d \in Bits, NEW S, S \subseteq Var
  PROVE  /\ setuse(u, d, S) \in Bits /\ setdef(d, u, S) \in Bits
         /\ Members(setuse(u, d, S)) = Members(u) \cup (S \ Members(d))
         /\ Members(setdef(d, u, S)) = Members(d) \cup (S \ Members(u))
<1>1. /\ {v \in S : ~sget(d, v)} = S \ Members(d)
      /\ {v \in S : ~sget(u, v)} = S \ Members(u)
  BY VarSid, MembersOf DEF sget
<1>2. S \ Members(d) \subseteq Var /\ S \ Members(u) \subseteq Var
  OBVIOUS
<1>. QED BY <1>1, <1>2, SetBits DEF setuse, setdef

LEMMA AdvanceType ==
  ASSUME NEW next, bb \in Block, Advance(next)
  PROVE  bb' \in Block /\ pc' \in {pc, next}
BY ConstAssumption DEF Advance, Block

LEMMA FlowType ==
  ASSUME TypeOK, NEW b \in Block
  PROVE  Gathered(b) \in Bits /\ Transfer(b, Gathered(b)) \in Bits
<1>1. Gathered(b) \in Bits
  BY DEF Gathered, TypeOK, BitSets, Bits
<1>2. use[b] \in Bits /\ def[b] \in Bits
  BY DEF TypeOK, BitSets
<1>. QED BY <1>1, <1>2, JoinBits DEF Transfer

\* The types of the variables.
LEMMA TypeInit == Init => TypeOK
<1>. SUFFICES ASSUME Init PROVE TypeOK
  OBVIOUS
<1>1. bb \in Block /\ Block = 1..N
  BY ConstAssumption DEF Init, Block
<1>2. Nothing \in BitSets
  BY Cleared DEF Nothing, BitSets
<1>3. succ \in [Block -> SUBSET Block]
  BY DEF Init, Graph
<1>4. Len(insts[bb]) \in Nat
  <2>1. insts[bb] \in Code
    BY <1>1 DEF Init
  <2>. QED BY <2>1, ConstAssumption
<1>. QED BY <1>1, <1>2, <1>3, <1>4 DEF Init, TypeOK

LEMMA TypeStep == TypeOK /\ [Next]_vars => TypeOK'
<1>. SUFFICES ASSUME TypeOK, [Next]_vars PROVE TypeOK'
  OBVIOUS
<1>0. /\ bb \in Block /\ i \in Nat /\ i <= Len(insts[bb])
      /\ use[bb] \in Bits /\ def[bb] \in Bits
  BY Lists DEF TypeOK, BitSets
<1>1. CASE clear_sets
  <2>1. use' \in BitSets /\ def' \in BitSets /\ in' \in BitSets /\ out' \in BitSets
    BY <1>1, Cleared DEF clear_sets, TypeOK, BitSets
  <2>2. i' \in 0..Len(insts[bb])
    BY <1>0, <1>1, Lists DEF clear_sets
  <2>. QED BY <1>1, <2>1, <2>2 DEF clear_sets, input, TypeOK
<1>2. CASE calc_use_def
  <2>. DEFINE u == setuse(use[bb], def[bb], Uses(insts[bb][i]))
              d == setdef(def[bb], u, Defs(insts[bb][i]))
  <2>1. u \in Bits
    BY <1>0, Mentioned, UseDefType
  <2>2. d \in Bits
    BY <1>0, <2>1, Mentioned, UseDefType
  <2>3. use' = [use EXCEPT ![bb] = u] /\ def' = [def EXCEPT ![bb] = d]
    BY <1>2 DEF calc_use_def
  <2>. HIDE DEF u, d
  <2>4. use' \in BitSets /\ def' \in BitSets
    BY <2>1, <2>2, <2>3 DEF TypeOK, BitSets
  <2>5. \/ i' = 0 /\ bb' \in Block /\ pc' \in {pc, "epoch"}
        \/ i' = i + 1 /\ i # Len(insts[bb]) /\ UNCHANGED <<pc, bb>>
    BY <1>0, <1>2, AdvanceType DEF calc_use_def
  <2>6. insts' = insts
    BY <1>2 DEF calc_use_def, input
  <2>7. bb' \in Block /\ i' \in 0..Len(insts'[bb'])
    <3>1. CASE i' = 0 /\ bb' \in Block
      BY <2>6, <3>1, Lists
    <3>2. CASE i' = i + 1 /\ i # Len(insts[bb]) /\ bb' = bb
      BY <1>0, <2>6, <3>2, Lists
    <3>. QED BY <2>5, <3>1, <3>2
  <2>8. pc' \in {pc, "epoch"}
    BY <2>5
  <2>9. pc = "usedef" /\ (pc' = "usedef" \/ i' = 0)
    BY <1>2, <2>5 DEF calc_use_def
  <2>. QED BY <1>2, <2>4, <2>7, <2>8, <2>9 DEF calc_use_def, input, TypeOK
<1>3. CASE epoch
  BY <1>3 DEF epoch, input, TypeOK
<1>4. CASE flow_block
  <2>. DEFINE live == Gathered(bb)
              new == Transfer(bb, live)
  <2>1. live \in Bits /\ new \in Bits
    BY <1>0, FlowType
  <2>2. bb' \in Block /\ pc' \in {pc, "epoch"}
    BY <1>0, <1>4, AdvanceType DEF flow_block
  <2>3. changed' \in BOOLEAN
    BY <1>4 DEF flow_block, Differs, TypeOK
  <2>4. /\ out' = [out EXCEPT ![bb] = live] /\ in' = [in EXCEPT ![bb] = new]
        /\ UNCHANGED <<insts, succ, use, def, i, insts3>> /\ pc = "flow"
    BY <1>4 DEF flow_block, input
  <2>. HIDE DEF live, new
  <2>5. in' \in BitSets /\ out' \in BitSets
    BY <2>1, <2>4 DEF TypeOK, BitSets
  <2>6. i' = 0 /\ i' \in 0..Len(insts'[bb'])
    BY <2>2, <2>4, Lists DEF TypeOK
  <2>. QED BY <2>2, <2>3, <2>4, <2>5, <2>6 DEF TypeOK
<1>5. CASE elim_dead_assign
  <2>1. /\ \/ pc' = "panic" /\ UNCHANGED bb
           \/ Advance("done")
        /\ DOMAIN insts3' = DOMAIN insts3 /\ pc = "elim"
        /\ UNCHANGED <<insts, succ, use, def, in, out, i, changed>>
    BY <1>5 DEF elim_dead_assign, input
  <2>2. bb' \in Block /\ pc' \in {pc, "done", "panic"}
    BY <1>0, <2>1, AdvanceType
  <2>3. i' = 0 /\ i' \in 0..Len(insts'[bb'])
    BY <2>1, <2>2, Lists DEF TypeOK
  <2>. QED BY <2>1, <2>2, <2>3 DEF TypeOK
<1>6. CASE crash
  BY <1>6 DEF crash, input, TypeOK
<1>7. CASE UNCHANGED vars
  BY <1>7 DEF vars, TypeOK
<1>. QED BY <1>1, <1>2, <1>3, <1>4, <1>5, <1>6, <1>7 DEF Next

-----------------------------------------------------------------------------
(* calc_use_def                                                            *)

\* What was mentioned before is in one of the two sets.
LEMMA FirstMention ==
  ASSUME NEW code, NEW n \in Nat, NEW v \in Var
  PROVE  v \in UsedFirst(code, n) \cup DefinedFirst(code, n) <=>
           \E k \in 1..n : v \in Mentions(code[k])
<1>1. ASSUME v \in UsedFirst(code, n) \cup DefinedFirst(code, n)
      PROVE  \E k \in 1..n : v \in Mentions(code[k])
  BY <1>1 DEF UsedFirst, DefinedFirst, Mentions
<1>2. ASSUME \E k \in 1..n : v \in Mentions(code[k])
      PROVE  v \in UsedFirst(code, n) \cup DefinedFirst(code, n)
  <2>. DEFINE S == {k \in 1..n : v \in Mentions(code[k])}
  <2>1. S \subseteq Nat /\ S # {}
    BY <1>2
  <2>2. PICK k \in S : \A j \in S : k <= j
    BY <2>1, LeastNat
  <2>3. \A j \in 1..k - 1 : v \notin Mentions(code[j])
    <3>. TAKE j \in 1..k - 1
    <3>1. j \in 1..n /\ ~(k <= j)
      BY <2>2
    <3>. QED BY <2>2, <3>1
  <2>4. v \in Uses(code[k]) \/ v \in Defs(code[k]) \ Uses(code[k])
    BY <2>2 DEF Mentions
  <2>. QED BY <2>2, <2>3, <2>4 DEF UsedFirst, DefinedFirst, New
<1>. QED BY <1>1, <1>2

\* One more instruction adds what setuse and setdef add.
LEMMA FirstNext ==
  ASSUME NEW code, NEW n \in Nat
  PROVE  /\ UsedFirst(code, 0) = {} /\ DefinedFirst(code, 0) = {}
         /\ UsedFirst(code, n + 1) =
              UsedFirst(code, n) \cup (Uses(code[n + 1]) \ DefinedFirst(code, n))
         /\ DefinedFirst(code, n + 1) =
              DefinedFirst(code, n) \cup (Defs(code[n + 1]) \ UsedFirst(code, n + 1))
<1>. DEFINE U == UsedFirst(code, n)
            D == DefinedFirst(code, n)
            x == code[n + 1]
<1>1. UsedFirst(code, 0) = {} /\ DefinedFirst(code, 0) = {}
  BY DEF UsedFirst, DefinedFirst
<1>2. \A v \in Var : New(code, n + 1, v) <=> v \notin U /\ v \notin D
  <2>. TAKE v \in Var
  <2>1. New(code, n + 1, v) <=> ~\E k \in 1..n : v \in Mentions(code[k])
    BY DEF New
  <2>. QED BY <2>1, FirstMention
<1>3. 1..n + 1 = 1..n \cup {n + 1}
  OBVIOUS
<1>4. \A v \in Var : v \in UsedFirst(code, n + 1) <=>
        v \in U \/ (v \in Uses(x) /\ New(code, n + 1, v))
  BY <1>3 DEF UsedFirst
<1>5. \A v \in Var : v \in DefinedFirst(code, n + 1) <=>
        v \in D \/ (v \in Defs(x) \ Uses(x) /\ New(code, n + 1, v))
  BY <1>3 DEF DefinedFirst
<1>6. /\ UsedFirst(code, n + 1) \subseteq Var /\ DefinedFirst(code, n + 1) \subseteq Var
      /\ U \subseteq Var /\ D \subseteq Var
  BY DEF UsedFirst, DefinedFirst
<1>7. U \cap D = {}
  <2>. SUFFICES ASSUME NEW v \in U, v \in D PROVE FALSE
    OBVIOUS
  <2>1. PICK k \in 1..n : v \in Uses(code[k]) /\ New(code, k, v)
    BY DEF UsedFirst
  <2>2. PICK l \in 1..n : v \in Defs(code[l]) \ Uses(code[l]) /\ New(code, l, v)
    BY DEF DefinedFirst
  <2>3. ~(k < l) /\ ~(l < k)
    BY <2>1, <2>2 DEF New, Mentions
  <2>. QED BY <2>1, <2>2, <2>3
<1>8. Uses(x) \subseteq Var /\ Defs(x) \subseteq Var
  BY Mentioned
<1>. HIDE DEF U, D, x
<1>9. UsedFirst(code, n + 1) = U \cup (Uses(x) \ D)
  BY <1>2, <1>4, <1>6, <1>8
<1>10. DefinedFirst(code, n + 1) = D \cup (Defs(x) \ UsedFirst(code, n + 1))
  BY <1>2, <1>5, <1>6, <1>7, <1>8, <1>9
<1>. QED BY <1>1, <1>9, <1>10 DEF U, D, x

\* The instructions of a block that calc_use_def is done with.
Done(b) ==
  IF pc \notin {"usedef", "crash"} \/ b < bb THEN Len(insts[b])
  ELSE IF b = bb /\ i > 0 THEN i - 1 ELSE 0

\* The words of use and def hold what the instructions so far use and define
\* first.
UseDefInv ==
  \A b \in Block : /\ Members(use[b]) = UsedFirst(insts[b], Done(b))
                   /\ Members(def[b]) = DefinedFirst(insts[b], Done(b))

LEMMA UseDefInit == Init => UseDefInv
<1>. SUFFICES ASSUME Init, NEW b \in Block
              PROVE  /\ Members(use[b]) = UsedFirst(insts[b], Done(b))
                     /\ Members(def[b]) = DefinedFirst(insts[b], Done(b))
  BY DEF UseDefInv
<1>1. use[b] = sclr /\ def[b] = sclr
  BY DEF Init, Nothing
<1>2. Done(b) = 0
  BY DEF Init, Done, Block
<1>. QED BY <1>1, <1>2, Cleared, FirstNext

LEMMA UseDefStep == TypeOK /\ TypeOK' /\ UseDefInv /\ [Next]_vars => UseDefInv'
<1>. SUFFICES ASSUME TypeOK, TypeOK', UseDefInv, [Next]_vars PROVE UseDefInv'
  OBVIOUS
<1>0. /\ bb \in Block /\ i \in Nat /\ Block \subseteq Nat
      /\ use \in BitSets /\ def \in BitSets
      /\ Len(insts[bb]) \in Nat /\ i <= Len(insts[bb])
  BY Lists DEF TypeOK, Block
<1>1. CASE clear_sets
  <2>1. /\ i = 0 /\ i' = 1 /\ UNCHANGED <<insts, pc, bb>> /\ pc = "usedef"
        /\ use' = [use EXCEPT ![bb] = sclr] /\ def' = [def EXCEPT ![bb] = sclr]
    BY <1>1 DEF clear_sets, input
  <2>2. \A b \in Block : Done(b)' = Done(b) /\ Done(bb) = 0
    BY <1>0, <2>1 DEF Done
  <2>3. use'[bb] = sclr /\ def'[bb] = sclr
    BY <1>0, <2>1 DEF BitSets
  <2>4. \A b \in Block : b # bb => use'[b] = use[b] /\ def'[b] = def[b]
    BY <1>0, <2>1 DEF BitSets
  <2>. SUFFICES ASSUME NEW b \in Block
                PROVE  /\ Members(use'[b]) = UsedFirst(insts'[b], Done(b)')
                       /\ Members(def'[b]) = DefinedFirst(insts'[b], Done(b)')
    BY DEF UseDefInv
  <2>5. CASE b = bb
    BY <2>2, <2>3, <2>5, Cleared, FirstNext
  <2>6. CASE b # bb
    BY <2>1, <2>2, <2>4, <2>6 DEF UseDefInv
  <2>. QED BY <2>5, <2>6
<1>2. CASE calc_use_def
  <2>. DEFINE x == insts[bb][i]
              u == setuse(use[bb], def[bb], Uses(x))
              d == setdef(def[bb], u, Defs(x))
  <2>1. /\ pc = "usedef" /\ i > 0 /\ insts' = insts
        /\ use' = [use EXCEPT ![bb] = u] /\ def' = [def EXCEPT ![bb] = d]
        /\ \/ i = Len(insts[bb]) /\ i' = 0 /\ Advance("epoch")
           \/ i # Len(insts[bb]) /\ i' = i + 1 /\ UNCHANGED <<pc, bb>>
    BY <1>2 DEF calc_use_def, input
  <2>2. use[bb] \in Bits /\ def[bb] \in Bits
    BY <1>0 DEF BitSets
  <2>3. u \in Bits /\ Members(u) = Members(use[bb]) \cup (Uses(x) \ Members(def[bb]))
    BY <2>2, Mentioned, UseDefType
  <2>4. Members(d) = Members(def[bb]) \cup (Defs(x) \ Members(u))
    BY <2>2, <2>3, Mentioned, UseDefType
  <2>5. Done(bb) = i - 1 /\ i - 1 \in Nat /\ i = (i - 1) + 1
    BY <1>0, <2>1 DEF Done
  <2>6. \A b \in Block : b = bb => Done(b)' = i
    <3>. TAKE b \in Block
    <3>. SUFFICES ASSUME b = bb PROVE Done(b)' = i
      OBVIOUS
    <3>1. CASE i # Len(insts[bb]) /\ i' = i + 1 /\ UNCHANGED <<pc, bb>>
      BY <1>0, <2>1, <3>1 DEF Done
    <3>2. CASE i = Len(insts[bb]) /\ i' = 0 /\ Advance("epoch")
      <4>1. pc' = "epoch" \/ bb < bb'
        BY <1>0, <3>2 DEF Advance
      <4>. QED BY <2>1, <3>2, <4>1 DEF Done
    <3>. QED BY <2>1, <3>1, <3>2
  <2>7. \A b \in Block : b # bb => Done(b)' = Done(b)
    <3>. TAKE b \in Block
    <3>. SUFFICES ASSUME b # bb PROVE Done(b)' = Done(b)
      OBVIOUS
    <3>1. CASE i # Len(insts[bb]) /\ i' = i + 1 /\ UNCHANGED <<pc, bb>>
      BY <2>1, <3>1 DEF Done
    <3>2. CASE i' = 0 /\ bb = N /\ pc' = "epoch"
      <4>1. b < bb
        BY <1>0, <3>2 DEF Block
      <4>. QED BY <2>1, <3>2, <4>1 DEF Done
    <3>3. CASE i' = 0 /\ bb # N /\ pc' = pc /\ bb' = bb + 1
      <4>1. b < bb <=> b < bb'
        BY <1>0, <3>3
      <4>. QED BY <2>1, <3>3, <4>1 DEF Done
    <3>. QED BY <2>1, <3>1, <3>2, <3>3 DEF Advance
  <2>. HIDE DEF u, d, x
  <2>8. use'[bb] = u /\ def'[bb] = d
    BY <1>0, <2>1 DEF BitSets
  <2>9. \A b \in Block : b # bb => use'[b] = use[b] /\ def'[b] = def[b]
    BY <1>0, <2>1 DEF BitSets
  <2>10. /\ Members(use[bb]) = UsedFirst(insts[bb], i - 1)
         /\ Members(def[bb]) = DefinedFirst(insts[bb], i - 1)
    BY <1>0, <2>5 DEF UseDefInv
  <2>11. /\ UsedFirst(insts[bb], i) = UsedFirst(insts[bb], i - 1)
                                        \cup (Uses(x) \ DefinedFirst(insts[bb], i - 1))
         /\ DefinedFirst(insts[bb], i) = DefinedFirst(insts[bb], i - 1)
                                        \cup (Defs(x) \ UsedFirst(insts[bb], i))
    BY <2>5, FirstNext DEF x
  <2>. SUFFICES ASSUME NEW b \in Block
                PROVE  /\ Members(use'[b]) = UsedFirst(insts'[b], Done(b)')
                       /\ Members(def'[b]) = DefinedFirst(insts'[b], Done(b)')
    BY DEF UseDefInv
  <2>12. CASE b = bb
    <3>1. Members(u) = UsedFirst(insts[bb], i)
      BY <2>3, <2>10, <2>11
    <3>2. Members(d) = DefinedFirst(insts[bb], i)
      BY <2>4, <2>10, <2>11, <3>1
    <3>. QED BY <2>1, <2>6, <2>8, <2>12, <3>1, <3>2
  <2>13. CASE b # bb
    BY <2>1, <2>7, <2>9, <2>13 DEF UseDefInv
  <2>. QED BY <2>12, <2>13
<1>3. CASE epoch \/ flow_block \/ elim_dead_assign
  <2>1. /\ UNCHANGED <<insts, use, def>>
        /\ pc \notin {"usedef", "crash"} /\ pc' \notin {"usedef", "crash"}
    BY <1>3 DEF epoch, flow_block, elim_dead_assign, input, Advance
  <2>. QED BY <2>1 DEF UseDefInv, Done
<1>4. CASE crash \/ UNCHANGED vars
  <2>1. /\ UNCHANGED <<insts, use, def, bb, i>>
        /\ pc' = pc \/ (pc = "usedef" /\ pc' = "crash")
    BY <1>4 DEF crash, input, vars
  <2>. QED BY <2>1 DEF UseDefInv, Done
<1>. QED BY <1>1, <1>2, <1>3, <1>4 DEF Next

-----------------------------------------------------------------------------
(* The equations                                                           *)

\* What a visit of the block makes of its OUT.
Passed(b, live) == Use(b) \cup (live \ Def(b))

\* The block's sets satisfy its equations.
Settled(b) == LiveOut(In, b) \subseteq Out[b] /\ In[b] = Passed(b, Out[b])

\* Why the rounds stop at a solution: OUT never runs ahead of the successors,
\* IN never ahead of OUT, and in a round in which no IN has changed so far
\* every block visited is settled, because what it read still holds.
FlowInv ==
  /\ pc \in {"usedef", "crash"} => in = Nothing /\ out = Nothing
  /\ pc = "usedef" => changed
  /\ \A b \in Block : Out[b] \subseteq LiveOut(In, b) /\ In[b] \subseteq Passed(b, Out[b])
  /\ pc = "flow" /\ ~changed => \A b \in Block : b < bb => Settled(b)
  /\ pc = "epoch" /\ ~changed => \A b \in Block : Settled(b)
  /\ Flowed => \A b \in Block : Settled(b)
  /\ pc = "epoch" => bb = 1

LEMMA Empty == in = Nothing /\ out = Nothing => \A b \in Block : In[b] = {} /\ Out[b] = {}
BY Cleared DEF Nothing, In, Out

LEMMA FlowInit == Init => FlowInv
<1>. SUFFICES ASSUME Init PROVE FlowInv
  OBVIOUS
<1>1. in = Nothing /\ out = Nothing /\ pc = "usedef" /\ changed
  BY DEF Init
<1>2. \A b \in Block : In[b] = {} /\ Out[b] = {}
  BY <1>1, Empty
<1>. QED BY <1>1, <1>2 DEF FlowInv, Flowed

\* A visit of a block adds to its sets and takes nothing away.
LEMMA Grows ==
  ASSUME TypeOK, UseDefInv, FlowInv, flow_block
  PROVE  /\ In'[bb] = Passed(bb, Out'[bb])
         /\ Out'[bb] = Out[bb] \cup LiveOut(In, bb)
         /\ \A b \in Block : In[b] \subseteq In'[b] /\ Out[b] \subseteq Out'[b]
         /\ \A b \in Block : b # bb => In'[b] = In[b] /\ Out'[b] = Out[b]
         /\ ~changed' => ~changed /\ In' = In
         /\ UNCHANGED <<insts, succ>>
<1>. DEFINE live == Gathered(bb)
            new == Transfer(bb, live)
<1>1. /\ bb \in Block /\ in \in BitSets /\ out \in BitSets
      /\ succ[bb] \subseteq Block /\ use[bb] \in Bits /\ def[bb] \in Bits
  BY DEF TypeOK, BitSets
<1>2. /\ out' = [out EXCEPT ![bb] = live] /\ in' = [in EXCEPT ![bb] = new]
      /\ changed' = (changed \/ ~ssame(new, in[bb]))
      /\ UNCHANGED <<insts, succ>> /\ pc = "flow"
  BY DEF flow_block, input, Differs
<1>3. live \in Bits /\ new \in Bits
  BY <1>1, FlowType
<1>4. Members(live) = Out[bb] \cup LiveOut(In, bb)
  <2>1. \A v \in Sid : POS(v) \in Pos
    BY Place
  <2>2. \A v \in Sid : v \in Members(live) <=>
          OFF(v) \in out[bb][POS(v)] \/ \E s \in succ[bb] : OFF(v) \in in[s][POS(v)]
    BY <2>1, MembersOf DEF Gathered
  <2>3. \A v : v \in Members(live) <=>
          v \in Members(out[bb]) \/ \E s \in succ[bb] : v \in Members(in[s])
    BY <2>2, MembersOf
  <2>4. Out[bb] = Members(out[bb]) /\ \A s \in succ[bb] : In[s] = Members(in[s])
    BY <1>1 DEF In, Out
  <2>5. \A v : v \in LiveOut(In, bb) <=> \E s \in succ[bb] : v \in In[s]
    BY DEF LiveOut
  <2>. QED BY <2>3, <2>4, <2>5
<1>5. Members(new) = Passed(bb, Members(live))
  <2>1. Members(use[bb]) = Use(bb) /\ Members(def[bb]) = Def(bb)
    BY <1>1, <1>2 DEF UseDefInv, Done, Use, Def
  <2>2. Members(new) = Members(use[bb]) \cup (Members(live) \ Members(def[bb]))
    BY <1>1, <1>3, JoinBits DEF Transfer
  <2>. QED BY <2>1, <2>2 DEF Passed
<1>. HIDE DEF live, new
<1>6. \A b \in Block : /\ In[b] = Members(in[b]) /\ Out[b] = Members(out[b])
                       /\ In'[b] = Members(in'[b]) /\ Out'[b] = Members(out'[b])
  BY DEF In, Out
<1>7. in'[bb] = new /\ out'[bb] = live
  BY <1>1, <1>2 DEF BitSets
<1>8. \A b \in Block : b # bb => in'[b] = in[b] /\ out'[b] = out[b]
  BY <1>1, <1>2 DEF BitSets
<1>9. In'[bb] = Passed(bb, Out'[bb]) /\ Out'[bb] = Out[bb] \cup LiveOut(In, bb)
  BY <1>1, <1>4, <1>5, <1>6, <1>7
<1>10. \A b \in Block : b # bb => In'[b] = In[b] /\ Out'[b] = Out[b]
  BY <1>6, <1>8
<1>11. In[bb] \subseteq In'[bb] /\ Out[bb] \subseteq Out'[bb]
  <2>1. In[bb] \subseteq Passed(bb, Out[bb])
    BY <1>1 DEF FlowInv
  <2>. QED BY <1>9, <2>1 DEF Passed
<1>12. ~changed' => ~changed /\ In' = In
  <2>. SUFFICES ASSUME ~changed' PROVE ~changed /\ In' = In
    OBVIOUS
  <2>1. ~changed /\ ssame(new, in[bb])
    BY <1>2
  <2>2. in[bb] \in Bits
    BY <1>1 DEF BitSets
  <2>3. new = in[bb]
    BY <1>3, <2>1, <2>2, SameBits
  <2>4. in' = in
    BY <1>1, <1>2, <2>3 DEF BitSets
  <2>. QED BY <2>1, <2>4 DEF In
<1>. QED BY <1>2, <1>9, <1>10, <1>11, <1>12

LEMMA FlowStep == TypeOK /\ TypeOK' /\ UseDefInv /\ FlowInv /\ [Next]_vars => FlowInv'
<1>. SUFFICES ASSUME TypeOK, TypeOK', UseDefInv, FlowInv, [Next]_vars PROVE FlowInv'
  OBVIOUS
<1>0. bb \in Block /\ N \in Nat \ {0} /\ Block = 1..N
  BY ConstAssumption DEF TypeOK, Block
<1>1. CASE clear_sets \/ calc_use_def
  <2>1. in' = Nothing /\ out' = Nothing
    <3>1. in = Nothing /\ out = Nothing
      BY <1>1 DEF clear_sets, calc_use_def, FlowInv
    <3>2. CASE clear_sets
      BY <3>1, <3>2, <1>0 DEF clear_sets, Nothing
    <3>3. CASE calc_use_def
      BY <3>1, <3>3 DEF calc_use_def
    <3>. QED BY <1>1, <3>2, <3>3
  <2>2. \A b \in Block : In'[b] = {} /\ Out'[b] = {}
    BY <2>1, Cleared DEF Nothing, In, Out
  <2>3. /\ pc' \in {"usedef", "epoch"} /\ (pc' = "epoch" => bb' = 1) /\ changed'
    BY <1>1 DEF clear_sets, calc_use_def, Advance, FlowInv
  <2>. QED BY <2>1, <2>2, <2>3 DEF FlowInv, Flowed
<1>2. CASE epoch
  <2>1. /\ pc = "epoch" /\ bb = 1 /\ pc' = IF changed THEN "flow" ELSE "elim"
        /\ UNCHANGED <<insts, succ, in, out, bb>> /\ ~changed'
    BY <1>2 DEF epoch, input, FlowInv
  <2>2. In' = In /\ Out' = Out
    BY <2>1 DEF In, Out
  <2>3. /\ \A b \in Block : Settled(b)' <=> Settled(b)
        /\ \A b \in Block : LiveOut(In, b)' = LiveOut(In, b)
        /\ \A b \in Block : Passed(b, Out[b])' = Passed(b, Out[b])
    BY <2>1, <2>2 DEF Settled, LiveOut, Passed, Use, Def
  <2>4. ~ \E b \in Block : b < bb'
    BY <1>0, <2>1
  <2>. QED BY <2>1, <2>2, <2>3, <2>4 DEF FlowInv, Flowed
<1>3. CASE flow_block
  <2>1. /\ In'[bb] = Passed(bb, Out'[bb])
        /\ Out'[bb] = Out[bb] \cup LiveOut(In, bb)
        /\ \A b \in Block : In[b] \subseteq In'[b] /\ Out[b] \subseteq Out'[b]
        /\ \A b \in Block : b # bb => In'[b] = In[b] /\ Out'[b] = Out[b]
        /\ ~changed' => ~changed /\ In' = In
        /\ UNCHANGED <<insts, succ>>
    BY <1>3, Grows
  <2>2. \A b \in Block : LiveOut(In, b) \subseteq LiveOut(In, b)'
    BY <2>1 DEF LiveOut, TypeOK
  <2>3. \A b \in Block : Out'[b] \subseteq LiveOut(In, b)'
    <3>. TAKE b \in Block
    <3>1. Out[b] \subseteq LiveOut(In, b)
      BY DEF FlowInv
    <3>2. CASE b = bb
      BY <2>1, <2>2, <3>1, <3>2
    <3>3. CASE b # bb
      BY <2>1, <2>2, <3>1, <3>3
    <3>. QED BY <3>2, <3>3
  <2>5. \A b \in Block : In'[b] \subseteq Passed(b, Out'[b])
    <3>. TAKE b \in Block
    <3>1. CASE b = bb
      BY <2>1, <3>1
    <3>2. CASE b # bb
      BY <2>1, <3>2 DEF FlowInv
    <3>. QED BY <3>1, <3>2
\* If no IN has changed in this round, what was settled still is, and the
\* block visited is settled now.
  <2>6. pc = "flow"
    BY <1>3 DEF flow_block
  <2>7. ASSUME ~changed' PROVE \A b \in Block : b <= bb => Settled(b)'
    <3>. SUFFICES ASSUME NEW b \in Block, b <= bb PROVE Settled(b)'
      OBVIOUS
    <3>1. ~changed /\ In' = In
      BY <2>1, <2>7
    <3>2. LiveOut(In, b)' = LiveOut(In, b)
      BY <2>1, <3>1 DEF LiveOut
    <3>3. Passed(b, Out[b])' = Passed(b, Out'[b])
      BY <2>1 DEF Passed, Use, Def
    <3>4. LiveOut(In, b) \subseteq Out'[b] /\ In'[b] = Passed(b, Out'[b])
      <4>1. CASE b = bb
        BY <2>1, <4>1
      <4>2. CASE b # bb
        <5>1. b < bb
          BY <1>0, <4>2
        <5>2. Settled(b)
          BY <2>6, <3>1, <5>1 DEF FlowInv
        <5>. QED BY <2>1, <4>2, <5>2 DEF Settled
      <4>. QED BY <4>1, <4>2
    <3>. QED BY <3>2, <3>3, <3>4 DEF Settled
  <2>8. \A b \in Block : Passed(b, Out[b])' = Passed(b, Out'[b])
    BY <2>1 DEF Passed, Use, Def
  <2>9. \/ bb = N /\ pc' = "epoch" /\ bb' = 1
        \/ bb # N /\ pc' = "flow" /\ bb' = bb + 1
    BY <1>3, <2>6 DEF flow_block, Advance
  <2>10. CASE bb = N /\ pc' = "epoch" /\ bb' = 1
    <3>1. \A b \in Block : b <= bb
      BY <1>0, <2>10
    <3>. QED BY <2>3, <2>5, <2>7, <2>8, <2>10, <3>1 DEF FlowInv, Flowed
  <2>11. CASE bb # N /\ pc' = "flow" /\ bb' = bb + 1
    <3>1. \A b \in Block : b < bb' => b <= bb
      BY <1>0, <2>11
    <3>. QED BY <2>3, <2>5, <2>7, <2>8, <2>11, <3>1 DEF FlowInv, Flowed
  <2>. QED BY <2>9, <2>10, <2>11
<1>4. CASE elim_dead_assign \/ crash \/ UNCHANGED vars
  <2>1. /\ UNCHANGED <<insts, succ, in, out, changed>>
        /\ \/ pc = "elim" /\ pc' \in {"elim", "done", "panic"}
           \/ pc' = pc /\ bb' = bb
           \/ pc = "usedef" /\ pc' = "crash"
    BY <1>4 DEF elim_dead_assign, crash, input, vars, Advance
  <2>2. In' = In /\ Out' = Out
    BY <2>1 DEF In, Out
  <2>3. /\ \A b \in Block : Settled(b)' <=> Settled(b)
        /\ \A b \in Block : LiveOut(In, b)' = LiveOut(In, b)
        /\ \A b \in Block : Passed(b, Out[b])' = Passed(b, Out[b])
    BY <2>1, <2>2 DEF Settled, LiveOut, Passed, Use, Def
  <2>. QED BY <2>1, <2>2, <2>3 DEF FlowInv, Flowed
<1>. QED BY <1>1, <1>2, <1>3, <1>4 DEF Next

\* When the rounds stop, IN and OUT solve the data flow equations.
THEOREM EndsAtSolution == Spec => []SolvedAtEnd
<1>1. TypeOK /\ FlowInv => SolvedAtEnd
  <2>. SUFFICES ASSUME TypeOK, FlowInv, Flowed
                PROVE  Solves(In) /\ \A b \in Block : Out[b] = LiveOut(In, b)
    BY DEF SolvedAtEnd
  <2>1. \A b \in Block : Out[b] = LiveOut(In, b)
    BY DEF FlowInv, Settled
  <2>2. \A b \in Block : In[b] = Passed(b, Out[b])
    BY DEF FlowInv, Settled
  <2>. QED BY <2>1, <2>2 DEF Solves, Passed
<1>. QED BY <1>1, TypeInit, TypeStep, UseDefInit, UseDefStep, FlowInit, FlowStep, PTL DEF Spec

-----------------------------------------------------------------------------
(* The solution is the least                                               *)

\* No set holds a variable that some solution does not have there.
Least ==
  \A X \in VarSets : Solves(X) =>
    \A b \in Block : In[b] \subseteq X[b] /\ Out[b] \subseteq LiveOut(X, b)

LEMMA LeastStep ==
  TypeOK /\ UseDefInv /\ FlowInv /\ FlowInv' /\ Least /\ [Next]_vars => Least'
<1>. SUFFICES ASSUME TypeOK, UseDefInv, FlowInv, FlowInv', Least, [Next]_vars
              PROVE  Least'
  OBVIOUS
<1>1. CASE clear_sets \/ calc_use_def \/ crash
  <2>1. in' = Nothing /\ out' = Nothing
    <3>1. in = Nothing /\ out = Nothing
      BY <1>1 DEF clear_sets, calc_use_def, crash, FlowInv
    <3>2. CASE clear_sets
      BY <3>1, <3>2 DEF clear_sets, Nothing
    <3>3. CASE calc_use_def \/ crash
      BY <3>1, <3>3 DEF calc_use_def, crash
    <3>. QED BY <1>1, <3>2, <3>3
  <2>2. \A b \in Block : In'[b] = {} /\ Out'[b] = {}
    BY <2>1, Cleared DEF Nothing, In, Out
  <2>. QED BY <2>2 DEF Least
<1>2. CASE flow_block
  <2>. SUFFICES ASSUME NEW X \in VarSets, Solves(X)', NEW b \in Block
                PROVE  In'[b] \subseteq X[b] /\ Out'[b] \subseteq LiveOut(X, b)'
    BY DEF Least
  <2>1. /\ In'[bb] = Passed(bb, Out'[bb]) /\ Out'[bb] = Out[bb] \cup LiveOut(In, bb)
        /\ \A c \in Block : c # bb => In'[c] = In[c] /\ Out'[c] = Out[c]
        /\ UNCHANGED <<insts, succ>>
    BY <1>2, Grows
  <2>2. Solves(X) /\ LiveOut(X, b)' = LiveOut(X, b)
    BY <2>1 DEF Solves, LiveOut, Use, Def
  <2>3. \A c \in Block : In[c] \subseteq X[c] /\ Out[c] \subseteq LiveOut(X, c)
    BY <2>2 DEF Least
  <2>4. CASE b # bb
    BY <2>1, <2>2, <2>3, <2>4
  <2>5. CASE b = bb
    <3>1. LiveOut(In, b) \subseteq LiveOut(X, b)
      BY <2>3 DEF LiveOut, TypeOK
    <3>2. Out'[b] \subseteq LiveOut(X, b)
      BY <2>1, <2>3, <2>5, <3>1
    <3>3. X[b] = Use(b) \cup (LiveOut(X, b) \ Def(b))
      BY <2>2 DEF Solves
    <3>4. In'[b] \subseteq X[b]
      BY <2>1, <2>5, <3>2, <3>3 DEF Passed
    <3>. QED BY <2>2, <3>2, <3>4
  <2>. QED BY <2>4, <2>5
<1>3. CASE epoch \/ elim_dead_assign \/ UNCHANGED vars
  <2>1. UNCHANGED <<insts, succ, in, out>>
    BY <1>3 DEF epoch, elim_dead_assign, input, vars
  <2>2. In' = In /\ Out' = Out
    BY <2>1 DEF In, Out
  <2>. QED BY <2>1, <2>2 DEF Least, Solves, LiveOut, Use, Def
<1>. QED BY <1>1, <1>2, <1>3 DEF Next

\* At no time of the analysis is a variable taken to be live where some
\* solution says it is not: with EndsAtSolution, the end is the least one.
THEOREM LeastSolution == Spec => []WithinEverySolution
<1>1. Init => Least
  <2>. SUFFICES ASSUME Init PROVE Least
    OBVIOUS
  <2>1. \A b \in Block : In[b] = {} /\ Out[b] = {}
    BY Empty DEF Init
  <2>. QED BY <2>1 DEF Least
<1>2. Least => WithinEverySolution
  BY DEF Least, WithinEverySolution
<1>. QED BY <1>1, <1>2, LeastStep, TypeInit, TypeStep, UseDefInit, UseDefStep, FlowInit, FlowStep,
            PTL DEF Spec

-----------------------------------------------------------------------------
(* The solution is what walks reach                                        *)

\* One step further on the walks along which v is not defined.
Extend(v, S) == S \cup UNION {succ[c] : c \in {d \in S : v \notin Def(d)}}

LEMMA WalkSteps ==
  ASSUME NEW v, NEW b \in Block
  PROVE  \E r : /\ r[0] = {b}
                /\ \A k \in 1..N : r[k] = Extend(v, r[k - 1])
                /\ Walks(v, b) = r[N]
<1>. DEFINE Body(g, k) == IF k = 0 THEN {b} ELSE Extend(v, g[k - 1])
            Good(m) == \E g : g = [k \in 0..m |-> Body(g, k)]
            Bad == {m \in Nat : ~Good(m)}
<1>1. Good(0)
  <2>. DEFINE g == [k \in 0..0 |-> {b}]
  <2>1. g = [k \in 0..0 |-> Body(g, k)]
    OBVIOUS
  <2>. QED BY <2>1
<1>2. ASSUME NEW m \in Nat, Good(m) PROVE Good(m + 1)
  <2>1. PICK f : f = [k \in 0..m |-> Body(f, k)]
    BY <1>2
  <2>. DEFINE g == [k \in 0..m + 1 |-> IF k = m + 1 THEN Body(f, k) ELSE f[k]]
  <2>2. \A k \in 0..m + 1 : g[k] = Body(g, k)
    <3>. SUFFICES ASSUME NEW k \in 0..m + 1 PROVE g[k] = Body(g, k)
      OBVIOUS
    <3>1. k # 0 => k - 1 \in 0..m /\ g[k - 1] = f[k - 1]
      OBVIOUS
    <3>2. k \in 0..m => g[k] = f[k] /\ f[k] = Body(f, k)
      BY <2>1
    <3>3. k = m + 1 => g[k] = Body(f, k)
      OBVIOUS
    <3>. QED BY <3>1, <3>2, <3>3
  <2>3. g = [k \in 0..m + 1 |-> Body(g, k)]
    BY <2>2
  <2>. QED BY <2>3
<1>. HIDE DEF Good
<1>3. Bad = {}
  <2>. SUFFICES ASSUME Bad # {} PROVE FALSE
    OBVIOUS
  <2>1. PICK m \in Bad : \A j \in Bad : m <= j
    BY LeastNat
  <2>2. m # 0
    BY <1>1, <2>1
  <2>3. m - 1 \in Nat /\ ~(m <= m - 1) /\ (m - 1) + 1 = m
    BY <2>2
  <2>4. Good(m - 1)
    BY <2>1, <2>3
  <2>5. Good((m - 1) + 1)
    BY <1>2, <2>3, <2>4
  <2>. QED BY <2>1, <2>3, <2>5
<1>4. N \in Nat
  BY ConstAssumption
<1>5. \E g : g = [k \in 0..N |-> Body(g, k)]
  BY <1>3, <1>4 DEF Good
<1>. DEFINE reach == CHOOSE g : g = [k \in 0..N |-> Body(g, k)]
<1>6. reach = [k \in 0..N |-> Body(reach, k)]
  BY <1>5
<1>7. Walks(v, b) = reach[N]
  BY DEF Walks, Reach, Extend
<1>. HIDE DEF reach
<1>8. reach[0] = {b}
  <2>1. 0 \in 0..N
    BY <1>4
  <2>. QED BY <1>6, <2>1
<1>9. ASSUME NEW k \in 1..N PROVE reach[k] = Extend(v, reach[k - 1])
  <2>1. k \in 0..N /\ k # 0
    BY <1>4
  <2>. QED BY <1>6, <2>1
<1>. QED BY <1>7, <1>8, <1>9

\* The walks from b make a set that has b, that a further step adds nothing
\* to, and that is within every other such set.
LEMMA WalksClosed ==
  ASSUME TypeOK, NEW v, NEW b \in Block
  PROVE  /\ b \in Walks(v, b) /\ Walks(v, b) \subseteq Block
         /\ Extend(v, Walks(v, b)) = Walks(v, b)
         /\ \A S : b \in S /\ Extend(v, S) = S => Walks(v, b) \subseteq S
<1>1. PICK r : /\ r[0] = {b}
               /\ \A k \in 1..N : r[k] = Extend(v, r[k - 1])
               /\ Walks(v, b) = r[N]
  BY WalkSteps, Zenon
<1>2. N \in Nat /\ N >= 1 /\ Block = 1..N /\ succ \in [Block -> SUBSET Block]
  BY ConstAssumption DEF TypeOK, Block
<1>3. \A S, T : S \subseteq T => Extend(v, S) \subseteq Extend(v, T) /\ S \subseteq Extend(v, S)
  BY DEF Extend
<1>4. ASSUME NEW S \in SUBSET Block PROVE Extend(v, S) \in SUBSET Block
  <2>1. \A d \in S : succ[d] \subseteq Block
    BY <1>2
  <2>. QED BY <2>1 DEF Extend
<1>. DEFINE Fine(k) == b \in r[k] /\ r[k] \in SUBSET Block
            Unfit == {k \in 0..N : ~Fine(k)}
<1>5. Unfit = {}
  <2>. SUFFICES ASSUME Unfit # {} PROVE FALSE
    OBVIOUS
  <2>0. Unfit \subseteq Nat
    OBVIOUS
  <2>1. PICK k \in Unfit : \A j \in Unfit : k <= j
    <3>. HIDE DEF Unfit
    <3>. QED BY <2>0, LeastNat
  <2>2. k # 0
    BY <1>1
  <2>3. k \in 1..N /\ k - 1 \in 0..N /\ ~(k <= k - 1)
    BY <1>2, <2>2
  <2>4. Fine(k - 1)
    BY <2>1, <2>3
  <2>5. r[k] = Extend(v, r[k - 1])
    BY <1>1, <2>3
  <2>. QED BY <1>3, <1>4, <2>1, <2>4, <2>5
<1>6. \A k \in 0..N : Fine(k)
  BY <1>5
<1>. HIDE DEF Unfit
<1>7. ASSUME NEW S, b \in S, Extend(v, S) = S
      PROVE  r[N] \subseteq S
  <2>. DEFINE Out_of == {k \in 0..N : ~(r[k] \subseteq S)}
  <2>1. Out_of = {}
    <3>. SUFFICES ASSUME Out_of # {} PROVE FALSE
      OBVIOUS
    <3>0. Out_of \subseteq Nat
      OBVIOUS
    <3>1. PICK k \in Out_of : \A j \in Out_of : k <= j
      <4>. HIDE DEF Out_of
      <4>. QED BY <3>0, LeastNat
    <3>2. k # 0
      BY <1>1, <1>7
    <3>3. k \in 1..N /\ k - 1 \in 0..N /\ ~(k <= k - 1)
      BY <1>2, <3>2
    <3>4. r[k - 1] \subseteq S
      BY <3>1, <3>3
    <3>5. r[k] \subseteq S
      BY <1>1, <1>3, <1>7, <3>3, <3>4
    <3>. QED BY <3>1, <3>5
  <2>. QED BY <1>2, <2>1
\* N blocks cannot take in a new one N times.
<1>8. \E k \in 0..N - 1 : Extend(v, r[k]) = r[k]
  <2>. SUFFICES ASSUME \A k \in 0..N - 1 : Extend(v, r[k]) # r[k] PROVE FALSE
    OBVIOUS
  <2>1. IsFiniteSet(Block) /\ Cardinality(Block) = N
    BY <1>2, FS_Interval
  <2>2. \A k \in 0..N : /\ IsFiniteSet(r[k]) /\ Cardinality(r[k]) <= N
                        /\ Cardinality(r[k]) \in Nat
    <3>. SUFFICES ASSUME NEW k \in 0..N
                  PROVE  /\ IsFiniteSet(r[k]) /\ Cardinality(r[k]) <= N
                         /\ Cardinality(r[k]) \in Nat
      OBVIOUS
    <3>1. r[k] \in SUBSET Block
      BY <1>6
    <3>2. IsFiniteSet(r[k]) /\ Cardinality(r[k]) <= N
      BY <2>1, <3>1, FS_Subset
    <3>. QED BY <3>2, FS_CardinalityType
  <2>. DEFINE Small == {k \in 0..N : ~(Cardinality(r[k]) >= k + 1)}
  <2>3. Small = {}
    <3>. SUFFICES ASSUME Small # {} PROVE FALSE
      OBVIOUS
    <3>0. Small \subseteq Nat
      OBVIOUS
    <3>1. PICK k \in Small : \A j \in Small : k <= j
      <4>. HIDE DEF Small
      <4>. QED BY <3>0, LeastNat
    <3>2. k # 0
      <4>1. Cardinality(r[0]) = 1
        BY <1>1, FS_Singleton
      <4>. QED BY <3>1, <4>1
    <3>3. k \in 1..N /\ k - 1 \in 0..N - 1 /\ k - 1 \in 0..N /\ ~(k <= k - 1)
      BY <1>2, <3>2
    <3>4. Cardinality(r[k - 1]) >= k
      BY <3>1, <3>3
    <3>5. r[k - 1] \in SUBSET r[k] /\ r[k - 1] # r[k]
      BY <1>1, <1>3, <3>3
    <3>6. IsFiniteSet(r[k]) /\ Cardinality(r[k]) \in Nat /\ Cardinality(r[k - 1]) \in Nat
      BY <2>2, <3>3
    <3>7. /\ Cardinality(r[k - 1]) <= Cardinality(r[k])
          /\ Cardinality(r[k]) = Cardinality(r[k - 1]) => r[k] = r[k - 1]
      BY <3>5, <3>6, FS_Subset
    <3>8. Cardinality(r[k]) >= k + 1
      <4>. HIDE DEF Small
      <4>1. Cardinality(r[k]) # Cardinality(r[k - 1])
        BY <3>5, <3>7
      <4>. QED BY <3>3, <3>4, <3>6, <3>7, <4>1
    <3>. QED BY <3>1, <3>8
  <2>4. ~(Cardinality(r[N]) <= N)
    <3>1. N \in 0..N /\ N \notin Small
      BY <1>2, <2>3
    <3>2. Cardinality(r[N]) >= N + 1 /\ Cardinality(r[N]) \in Nat
      BY <2>2, <3>1
    <3>. QED BY <1>2, <3>2
  <2>. QED BY <1>2, <2>2, <2>4
<1>9. PICK j \in 0..N - 1 : Extend(v, r[j]) = r[j]
  BY <1>8
<1>10. \A k \in j..N : r[k] = r[j]
  <2>. DEFINE Moved == {k \in j..N : r[k] # r[j]}
  <2>1. Moved = {}
    <3>. SUFFICES ASSUME Moved # {} PROVE FALSE
      OBVIOUS
    <3>0. Moved \subseteq Nat
      OBVIOUS
    <3>1. PICK k \in Moved : \A i1 \in Moved : k <= i1
      <4>. HIDE DEF Moved
      <4>. QED BY <3>0, LeastNat
    <3>2. k # j
      BY <3>1
    <3>3. k \in 1..N /\ k - 1 \in j..N /\ ~(k <= k - 1)
      BY <1>2, <3>2
    <3>4. r[k - 1] = r[j]
      BY <3>1, <3>3
    <3>. QED BY <1>1, <1>9, <3>1, <3>3, <3>4
  <2>. QED BY <2>1
<1>11. N \in j..N /\ N \in 0..N
  BY <1>2
<1>12. Extend(v, r[N]) = r[N]
  BY <1>9, <1>10, <1>11
<1>13. b \in r[N] /\ r[N] \subseteq Block
  BY <1>6, <1>11
<1>. QED BY <1>1, <1>7, <1>12, <1>13

\* A walk from b goes no further than b, or goes on from a successor.
LEMMA WalksOn ==
  ASSUME TypeOK, NEW v, NEW b \in Block
  PROVE  Walks(v, b) =
           {b} \cup (IF v \in Def(b) THEN {} ELSE UNION {Walks(v, s) : s \in succ[b]})
<1>. DEFINE S == {b} \cup (IF v \in Def(b) THEN {} ELSE UNION {Walks(v, s) : s \in succ[b]})
<1>1. succ[b] \subseteq Block
  BY DEF TypeOK
<1>2. \A s \in succ[b] : s \in Walks(v, s) /\ Extend(v, Walks(v, s)) = Walks(v, s)
  BY <1>1, WalksClosed
<1>3. b \in Walks(v, b) /\ Extend(v, Walks(v, b)) = Walks(v, b)
  BY WalksClosed
<1>4. S \subseteq Walks(v, b)
  <2>1. ASSUME v \notin Def(b), NEW s \in succ[b] PROVE Walks(v, s) \subseteq Walks(v, b)
    <3>1. s \in Walks(v, b)
      BY <1>3, <2>1 DEF Extend
    <3>. QED BY <1>1, <1>3, <2>1, <3>1, WalksClosed
  <2>. QED BY <1>3, <2>1
<1>5. Extend(v, S) = S
  <2>1. ASSUME NEW c \in S, v \notin Def(c), NEW t \in succ[c] PROVE t \in S
    <3>1. CASE c = b
      BY <1>2, <2>1, <3>1
    <3>2. CASE c # b
      <4>1. PICK s \in succ[b] : c \in Walks(v, s)
        BY <2>1, <3>2
      <4>2. v \notin Def(b)
        BY <2>1, <3>2
      <4>3. t \in Walks(v, s)
        BY <1>2, <2>1, <4>1 DEF Extend
      <4>. QED BY <4>2, <4>3
    <3>. QED BY <3>1, <3>2
  <2>. HIDE DEF S
  <2>. QED BY <2>1 DEF Extend
<1>6. b \in S
  OBVIOUS
<1>. HIDE DEF S
<1>7. Walks(v, b) \subseteq S
  BY <1>5, <1>6, WalksClosed
<1>8. Walks(v, b) = S
  BY <1>4, <1>7
<1>. QED BY <1>8 DEF S

\* What some walk from b finds used: a solution of the equations.
Reached == [b \in Block |-> {v \in Var : \E c \in Walks(v, b) : v \in Use(c)}]

LEMMA ReachedSolves ==
  ASSUME TypeOK
  PROVE  Reached \in VarSets /\ Solves(Reached)
<1>1. Reached \in VarSets
  BY DEF Reached, VarSets
<1>2. ASSUME NEW b \in Block, NEW v \in Var
      PROVE  v \in Reached[b] <=> v \in Use(b) \cup (LiveOut(Reached, b) \ Def(b))
  <2>1. succ[b] \subseteq Block
    BY DEF TypeOK
  <2>2. v \in Reached[b] <=> \E c \in Walks(v, b) : v \in Use(c)
    BY DEF Reached
  <2>3. \A s \in succ[b] : v \in Reached[s] <=> \E c \in Walks(v, s) : v \in Use(c)
    BY <2>1 DEF Reached
  <2>5. v \in LiveOut(Reached, b) <=> \E s \in succ[b] : v \in Reached[s]
    BY DEF LiveOut
  <2>4. Walks(v, b) =
          {b} \cup (IF v \in Def(b) THEN {} ELSE UNION {Walks(v, s) : s \in succ[b]})
    BY WalksOn
  <2>. QED BY <2>2, <2>3, <2>4, <2>5
<1>3. ASSUME NEW b \in Block
      PROVE  Reached[b] \subseteq Var /\ Use(b) \cup (LiveOut(Reached, b) \ Def(b)) \subseteq Var
  <2>1. Use(b) \subseteq Var /\ succ[b] \subseteq Block
    BY DEF Use, UsedFirst, TypeOK
  <2>. QED BY <2>1 DEF LiveOut, Reached
<1>4. \A b \in Block : Reached[b] = Use(b) \cup (LiveOut(Reached, b) \ Def(b))
  BY <1>2, <1>3
<1>. QED BY <1>1, <1>4 DEF Solves

\* What any solution has at b, a walk from b to a use carries there.
LEMMA WalksCarry ==
  ASSUME TypeOK, NEW X, Solves(X), NEW v, NEW b \in Block,
         NEW c \in Walks(v, b), v \in Use(c)
  PROVE  v \in X[b]
<1>. SUFFICES ASSUME v \notin X[b] PROVE FALSE
  OBVIOUS
<1>. DEFINE S == {d \in Block : v \notin X[d]}
<1>1. \A d \in S : v \notin Def(d) => succ[d] \subseteq S
  <2>. SUFFICES ASSUME NEW d \in S, v \notin Def(d), NEW s \in succ[d] PROVE s \in S
    OBVIOUS
  <2>1. s \in Block /\ X[d] = Use(d) \cup (LiveOut(X, d) \ Def(d))
    BY DEF TypeOK, Solves
  <2>2. v \notin LiveOut(X, d)
    BY <2>1
  <2>. QED BY <2>1, <2>2 DEF LiveOut
<1>2. b \in S
  OBVIOUS
<1>. HIDE DEF S
<1>3. Extend(v, S) = S
  BY <1>1 DEF Extend
<1>4. c \in S
  BY <1>2, <1>3, WalksClosed
<1>5. c \in Block /\ v \notin X[c] /\ X[c] = Use(c) \cup (LiveOut(X, c) \ Def(c))
  BY <1>4 DEF S, Solves
<1>. QED BY <1>5

\* The invariants of the analysis.
FlowFacts == TypeOK /\ UseDefInv /\ FlowInv /\ Least

LEMMA Analysed == Spec => []FlowFacts
<1>1. Init => Least
  <2>. SUFFICES ASSUME Init PROVE Least
    OBVIOUS
  <2>1. \A b \in Block : In[b] = {} /\ Out[b] = {}
    BY Empty DEF Init
  <2>. QED BY <2>1 DEF Least
<1>2. Init => FlowFacts
  BY <1>1, TypeInit, UseDefInit, FlowInit DEF FlowFacts
<1>3. FlowFacts /\ [Next]_vars => FlowFacts'
  BY TypeStep, UseDefStep, FlowStep, LeastStep DEF FlowFacts
<1>. QED BY <1>2, <1>3, PTL DEF Spec

LEMMA SolvedNow == TypeOK /\ FlowInv => SolvedAtEnd
<1>. SUFFICES ASSUME TypeOK, FlowInv, Flowed
              PROVE  Solves(In) /\ \A b \in Block : Out[b] = LiveOut(In, b)
  BY DEF SolvedAtEnd
<1>1. \A b \in Block : Out[b] = LiveOut(In, b)
  BY DEF FlowInv, Settled
<1>2. \A b \in Block : In[b] = Passed(b, Out[b])
  BY DEF FlowInv, Settled
<1>. QED BY <1>1, <1>2 DEF Solves, Passed

\* What the sets come to mean: a variable is live into a block if and only
\* if some walk of the graph from there reaches a use of it before any
\* definition (data_flow_anlys), for any graph.
LEMMA LiveFacts ==
  ASSUME FlowFacts, Flowed, NEW b \in Block, NEW v \in Var
  PROVE  /\ v \in In[b] <=> \E c \in Walks(v, b) : v \in Use(c)
         /\ Out[b] = LiveOut(In, b)
<1>1. TypeOK /\ Solves(In) /\ Out[b] = LiveOut(In, b)
  BY SolvedNow DEF FlowFacts, SolvedAtEnd
<1>2. In[b] \subseteq Reached[b]
  BY <1>1, ReachedSolves DEF FlowFacts, Least
<1>3. v \in In[b] => \E c \in Walks(v, b) : v \in Use(c)
  BY <1>2 DEF Reached
<1>4. ASSUME NEW c \in Walks(v, b), v \in Use(c) PROVE v \in In[b]
  BY <1>1, <1>4, WalksCarry
<1>. QED BY <1>1, <1>3, <1>4

\* Live is what some walk finds used: nothing that may be read is missed,
\* nothing that cannot is kept.
THEOREM LiveMeansReached == Spec => []LiveIffReached
<1>1. FlowFacts => LiveIffReached
  BY LiveFacts DEF LiveIffReached, UsedFrom
<1>. QED BY <1>1, Analysed, PTL

-----------------------------------------------------------------------------
(* What the elimination leaves                                             *)

\* What the copy of the first n instructions of the block may be: f says
\* where each came from, and those up to n that are not eliminated are there.
CopyOf(b, n, copy) ==
  /\ copy \in Seq(Inst)
  /\ \E f \in [1..Len(copy) -> 1..n] :
       /\ \A j, k \in 1..Len(copy) : j < k => f[j] < f[k]
       /\ \A j \in 1..Len(copy) : copy[j] = insts[b][f[j]]
       /\ \A k \in 1..n : Eliminated(b, insts[b][k]) <=> ~\E j \in 1..Len(copy) : f[j] = k

CopyStep(b, g, k) ==
  IF k = 0 THEN <<>>
  ELSE IF Eliminated(b, insts[b][k]) THEN g[k - 1]
  ELSE Append(g[k - 1], insts[b][k])

LEMMA CopySteps ==
  ASSUME TypeOK, NEW b \in Block
  PROVE  \E g : /\ g[0] = <<>>
                /\ \A k \in 1..Len(insts[b]) : g[k] = CopyStep(b, g, k)
                /\ Copied(b) = g[Len(insts[b])]
<1>. DEFINE L == Len(insts[b])
            Good(m) == \E g : g = [k \in 0..m |-> CopyStep(b, g, k)]
            Bad == {m \in Nat : ~Good(m)}
<1>1. Good(0)
  <2>. DEFINE g == [k \in 0..0 |-> <<>>]
  <2>1. g = [k \in 0..0 |-> CopyStep(b, g, k)]
    BY DEF CopyStep
  <2>. QED BY <2>1
<1>2. ASSUME NEW m \in Nat, Good(m) PROVE Good(m + 1)
  <2>1. PICK f : f = [k \in 0..m |-> CopyStep(b, f, k)]
    BY <1>2
  <2>. DEFINE g == [k \in 0..m + 1 |-> IF k = m + 1 THEN CopyStep(b, f, k) ELSE f[k]]
  <2>2. \A k \in 0..m + 1 : g[k] = CopyStep(b, g, k)
    <3>. SUFFICES ASSUME NEW k \in 0..m + 1 PROVE g[k] = CopyStep(b, g, k)
      OBVIOUS
    <3>1. k # 0 => k - 1 \in 0..m /\ g[k - 1] = f[k - 1]
      OBVIOUS
    <3>2. CopyStep(b, g, k) = CopyStep(b, f, k)
      BY <3>1 DEF CopyStep
    <3>3. k \in 0..m => g[k] = f[k] /\ f[k] = CopyStep(b, f, k)
      BY <2>1
    <3>4. k = m + 1 => g[k] = CopyStep(b, f, k)
      OBVIOUS
    <3>. QED BY <3>2, <3>3, <3>4
  <2>3. g = [k \in 0..m + 1 |-> CopyStep(b, g, k)]
    BY <2>2
  <2>. QED BY <2>3
<1>. HIDE DEF Good
<1>3. Bad = {}
  <2>. SUFFICES ASSUME Bad # {} PROVE FALSE
    OBVIOUS
  <2>1. PICK m \in Bad : \A j \in Bad : m <= j
    BY LeastNat
  <2>2. m # 0
    BY <1>1, <2>1
  <2>3. m - 1 \in Nat /\ ~(m <= m - 1) /\ (m - 1) + 1 = m
    BY <2>2
  <2>4. Good(m - 1)
    BY <2>1, <2>3
  <2>5. Good((m - 1) + 1)
    BY <1>2, <2>3, <2>4
  <2>. QED BY <2>1, <2>3, <2>5
<1>4. L \in Nat
  BY ConstAssumption DEF TypeOK
<1>5. \E g : g = [k \in 0..L |-> CopyStep(b, g, k)]
  BY <1>3, <1>4 DEF Good
<1>. DEFINE copy == CHOOSE g : g = [k \in 0..L |-> CopyStep(b, g, k)]
<1>6. copy = [k \in 0..L |-> CopyStep(b, copy, k)]
  BY <1>5
<1>7. Copied(b) = copy[L]
  BY DEF Copied, CopyStep
<1>. HIDE DEF copy
<1>8. copy[0] = <<>>
  <2>1. 0 \in 0..L
    BY <1>4
  <2>. QED BY <1>6, <2>1 DEF CopyStep
<1>9. ASSUME NEW k \in 1..L PROVE copy[k] = CopyStep(b, copy, k)
  <2>1. k \in 0..L
    BY <1>4
  <2>. QED BY <1>6, <2>1
<1>. QED BY <1>7, <1>8, <1>9

LEMMA CopyOn ==
  ASSUME TypeOK, NEW b \in Block, NEW g, NEW k \in 1..Len(insts[b]),
         CopyOf(b, k - 1, g[k - 1])
  PROVE  CopyOf(b, k, CopyStep(b, g, k))
<1>. DEFINE x == insts[b][k]
            old == g[k - 1]
<1>1. x \in Inst /\ k \in Nat \ {0} /\ 1..k - 1 \subseteq 1..k
  <2>1. insts[b] \in Seq(Inst)
    BY ConstAssumption DEF TypeOK
  <2>. QED BY <2>1
<1>2. PICK f \in [1..Len(old) -> 1..k - 1] :
         /\ \A j, m \in 1..Len(old) : j < m => f[j] < f[m]
         /\ \A j \in 1..Len(old) : old[j] = insts[b][f[j]]
         /\ \A m \in 1..k - 1 : Eliminated(b, insts[b][m]) <=> ~\E j \in 1..Len(old) : f[j] = m
  BY DEF CopyOf
<1>3. old \in Seq(Inst) /\ Len(old) \in Nat
  BY DEF CopyOf
<1>4. CASE Eliminated(b, x)
  <2>1. CopyStep(b, g, k) = old
    BY <1>1, <1>4 DEF CopyStep
  <2>2. f \in [1..Len(old) -> 1..k]
    BY <1>1
  <2>3. \A m \in 1..k : Eliminated(b, insts[b][m]) <=> ~\E j \in 1..Len(old) : f[j] = m
    <3>. SUFFICES ASSUME NEW m \in 1..k
                  PROVE  Eliminated(b, insts[b][m]) <=> ~\E j \in 1..Len(old) : f[j] = m
      OBVIOUS
    <3>1. m = k \/ m \in 1..k - 1
      BY <1>1
    <3>2. \A j \in 1..Len(old) : f[j] # k
      BY <1>1, <1>2
    <3>. QED BY <1>2, <1>4, <3>1, <3>2
  <2>. QED BY <1>2, <1>3, <2>1, <2>2, <2>3 DEF CopyOf
<1>5. CASE ~Eliminated(b, x)
  <2>. DEFINE L == Len(old)
              new == Append(old, x)
              h == [j \in 1..L + 1 |-> IF j = L + 1 THEN k ELSE f[j]]
  <2>1. CopyStep(b, g, k) = new
    BY <1>1, <1>5 DEF CopyStep
  <2>2. /\ new \in Seq(Inst) /\ Len(new) = L + 1 /\ new[L + 1] = x
        /\ \A j \in 1..L : new[j] = old[j]
    BY <1>1, <1>3
  <2>3. \A j \in 1..L : j \in 1..L + 1 /\ j # L + 1 /\ h[j] = f[j] /\ f[j] \in 1..k - 1
    <3>. SUFFICES ASSUME NEW j \in 1..L
                  PROVE  j \in 1..L + 1 /\ j # L + 1 /\ h[j] = f[j] /\ f[j] \in 1..k - 1
      OBVIOUS
    <3>1. f[j] \in 1..k - 1
      BY <1>2
    <3>2. j \in 1..L + 1 /\ j # L + 1
      BY <1>3
    <3>. QED BY <3>1, <3>2
  <2>4. L + 1 \in 1..L + 1 /\ h[L + 1] = k
    BY <1>3
  <2>5. \A j \in 1..L + 1 : j = L + 1 \/ j \in 1..L
    BY <1>3
  <2>6. h \in [1..L + 1 -> 1..k]
    <3>0. k \in 1..k /\ \A j \in 1..L : h[j] \in 1..k
      BY <1>1, <2>3
    <3>1. \A j \in 1..L + 1 : h[j] \in 1..k
      <4>. HIDE DEF h, L
      <4>. QED BY <2>4, <2>5, <3>0
    <3>. QED BY <3>1
  <2>. HIDE DEF h, new
  <2>7. ASSUME NEW j \in 1..L + 1, NEW m \in 1..L + 1, j < m PROVE h[j] < h[m]
    <3>1. j \in 1..L
      BY <1>3, <2>5, <2>7
    <3>2. CASE m = L + 1
      BY <1>1, <2>3, <2>4, <3>1, <3>2
    <3>3. CASE m \in 1..L
      BY <1>2, <2>3, <2>7, <3>1, <3>3
    <3>. QED BY <2>5, <3>2, <3>3
  <2>8. ASSUME NEW j \in 1..L + 1 PROVE new[j] = insts[b][h[j]]
    BY <1>2, <2>2, <2>3, <2>4, <2>5
  <2>9. ASSUME NEW m \in 1..k
        PROVE  Eliminated(b, insts[b][m]) <=> ~\E j \in 1..L + 1 : h[j] = m
    <3>1. CASE m = k
      BY <1>5, <2>4, <3>1
    <3>2. CASE m \in 1..k - 1
      <4>1. m # k
        BY <1>1, <3>2
      <4>2. (\E j \in 1..L + 1 : h[j] = m) <=> \E j \in 1..L : f[j] = m
        BY <2>3, <2>4, <2>5, <4>1
      <4>. QED BY <1>2, <3>2, <4>2
    <3>3. m = k \/ m \in 1..k - 1
      BY <1>1
    <3>. QED BY <3>1, <3>2, <3>3
  <2>10. \E e \in [1..Len(new) -> 1..k] :
           /\ \A j, m \in 1..Len(new) : j < m => e[j] < e[m]
           /\ \A j \in 1..Len(new) : new[j] = insts[b][e[j]]
           /\ \A m \in 1..k : Eliminated(b, insts[b][m]) <=> ~\E j \in 1..Len(new) : e[j] = m
    <3>1. 1..Len(new) = 1..L + 1
      BY <2>2
    <3>2. h \in [1..Len(new) -> 1..k]
      BY <2>6, <3>1
    <3>. WITNESS h \in [1..Len(new) -> 1..k]
    <3>. QED BY <2>7, <2>8, <2>9, <3>1
  <2>. HIDE DEF L
  <2>11. CopyOf(b, k, new)
    BY <2>2, <2>10, Zenon DEF CopyOf
  <2>. QED BY <2>1, <2>11
<1>. QED BY <1>4, <1>5

LEMMA CopyKeeps ==
  ASSUME TypeOK, NEW b \in Block
  PROVE  CopyOf(b, Len(insts[b]), Copied(b))
<1>. DEFINE L == Len(insts[b])
<1>1. PICK g : /\ g[0] = <<>>
               /\ \A k \in 1..L : g[k] = CopyStep(b, g, k)
               /\ Copied(b) = g[L]
  BY CopySteps, Zenon
<1>2. L \in Nat
  BY ConstAssumption DEF TypeOK
<1>3. CopyOf(b, 0, g[0])
  <2>. DEFINE f == [j \in 1..0 |-> j]
  <2>1. g[0] \in Seq(Inst) /\ Len(g[0]) = 0
    BY <1>1
  <2>2. f \in [1..0 -> 1..0]
    OBVIOUS
  <2>. QED BY <2>1, <2>2 DEF CopyOf
<1>. DEFINE Bad == {k \in 0..L : ~CopyOf(b, k, g[k])}
<1>4. Bad = {}
  <2>. SUFFICES ASSUME Bad # {} PROVE FALSE
    OBVIOUS
  <2>0. Bad \subseteq Nat
    OBVIOUS
  <2>1. PICK k \in Bad : \A j \in Bad : k <= j
    <3>. HIDE DEF Bad
    <3>. QED BY <2>0, LeastNat
  <2>2. k # 0
    BY <1>3, <2>1
  <2>3. k \in 1..L /\ k - 1 \in 0..L /\ ~(k <= k - 1)
    BY <1>2, <2>2
  <2>4. CopyOf(b, k - 1, g[k - 1])
    BY <2>1, <2>3
  <2>5. CopyOf(b, k, CopyStep(b, g, k))
    BY <2>3, <2>4, CopyOn
  <2>. QED BY <1>1, <2>3, <2>5
<1>. QED BY <1>1, <1>2, <1>4

\* What is eliminated is what no walk uses first.
LEMMA EliminatedUnread ==
  ASSUME FlowFacts, Flowed, NEW b \in Block, NEW x
  PROVE  Eliminated(b, x) <=> Unread(b, x)
<1>. SUFFICES ASSUME x.op = "store", x.d \in Var \ Param
              PROVE  Eliminated(b, x) <=> Unread(b, x)
  BY DEF Eliminated, Unread
<1>1. x.d \in Var /\ x.d \in Sid
  BY VarSid
<1>2. (sget(in[b], x.d) <=> x.d \in In[b]) /\ (sget(out[b], x.d) <=> x.d \in Out[b])
  BY <1>1, MembersOf DEF In, Out, sget
<1>3. x.d \in In[b] <=> UsedFrom(x.d, b)
  BY <1>1, LiveFacts DEF UsedFrom
<1>4. succ[b] \subseteq Block
  BY DEF FlowFacts, TypeOK
<1>5. x.d \in Out[b] <=> \E s \in succ[b] : x.d \in In[s]
  BY <1>1, LiveFacts DEF LiveOut
<1>6. \A s \in succ[b] : x.d \in In[s] <=> UsedFrom(x.d, s)
  BY <1>1, <1>4, LiveFacts DEF UsedFrom
<1>. QED BY <1>2, <1>3, <1>5, <1>6 DEF Eliminated, Unread

LEMMA BlockLeft ==
  ASSUME TypeOK, NEW b \in Block, CopyOf(b, Len(insts[b]), insts3[b]),
         \A x : Eliminated(b, x) <=> Unread(b, x)
  PROVE  Selects(b, {k \in DOMAIN insts[b] : ~Unread(b, insts[b][k])})
<1>. DEFINE copy == insts3[b]
            K == {k \in DOMAIN insts[b] : ~Unread(b, insts[b][k])}
<1>1. PICK f \in [1..Len(copy) -> 1..Len(insts[b])] :
        /\ \A j, k \in 1..Len(copy) : j < k => f[j] < f[k]
        /\ \A j \in 1..Len(copy) : copy[j] = insts[b][f[j]]
        /\ \A k \in 1..Len(insts[b]) :
             Eliminated(b, insts[b][k]) <=> ~\E j \in 1..Len(copy) : f[j] = k
  BY DEF CopyOf
<1>2. copy \in Seq(Inst) /\ insts[b] \in Seq(Inst)
  BY ConstAssumption DEF CopyOf, TypeOK
<1>3. /\ DOMAIN copy = 1..Len(copy) /\ DOMAIN f = DOMAIN copy
      /\ DOMAIN insts[b] = 1..Len(insts[b])
  BY <1>2
<1>4. \A k \in DOMAIN insts[b] : k \in K <=> \E j \in DOMAIN f : f[j] = k
  BY <1>1, <1>3
<1>5. f \in [DOMAIN copy -> DOMAIN insts[b]]
  BY <1>3
<1>6. {f[j] : j \in DOMAIN f} = K
  BY <1>3, <1>4, <1>5
<1>7. /\ \A j, k \in DOMAIN f : j < k => f[j] < f[k]
      /\ \A j \in DOMAIN f : copy[j] = insts[b][f[j]]
  BY <1>1, <1>3
<1>. HIDE DEF K
<1>8. Selects(b, K)
  BY <1>5, <1>6, <1>7 DEF Selects
<1>. QED BY <1>8 DEF K

\* The blocks the elimination is through with have their copies.
CopyInv == \A b \in Block : Through(b) => CopyOf(b, Len(insts[b]), insts3[b])

LEMMA CopyStepInv ==
  ASSUME TypeOK, FlowInv, CopyInv, [Next]_vars
  PROVE  CopyInv'
<1>. SUFFICES ASSUME NEW b \in Block, Through(b)'
              PROVE  CopyOf(b, Len(insts[b]), insts3[b])'
  BY DEF CopyInv
<1>1. CASE elim_dead_assign
  <2>1. UNCHANGED <<insts, in, out>> /\ pc = "elim" /\ bb \in Block
    BY <1>1 DEF elim_dead_assign, input, TypeOK
  <2>2. /\ insts3' = [insts3 EXCEPT ![bb] = Copied(bb)]
        /\ \/ bb = N /\ pc' = "done"
           \/ pc' = "elim" /\ bb' = bb + 1
    BY <1>1, <2>1 DEF elim_dead_assign, Through, Advance
  <2>3. b <= bb
    BY <2>1, <2>2, ConstAssumption DEF Through, Block
  <2>4. DOMAIN insts3 = Block
    BY DEF TypeOK
  <2>5. CASE b = bb
    <3>1. insts3'[b] = Copied(b)
      BY <2>1, <2>2, <2>4, <2>5
    <3>2. CopyOf(b, Len(insts[b]), Copied(b))
      BY CopyKeeps
    <3>3. CopyOf(b, Len(insts[b]), insts3'[b])
      BY <3>1, <3>2
    <3>. QED BY <2>1, <3>3, SMTT(30) DEF CopyOf, Eliminated, sget
  <2>6. CASE b # bb
    <3>1. Through(b)
      BY <2>1, <2>3, <2>6 DEF Through, Block
    <3>2. insts3'[b] = insts3[b]
      BY <2>2, <2>6
    <3>3. CopyOf(b, Len(insts[b]), insts3'[b])
      BY <3>1, <3>2 DEF CopyInv
    <3>. QED BY <2>1, <3>3, SMTT(30) DEF CopyOf, Eliminated, sget
  <2>. QED BY <2>5, <2>6
<1>2. CASE clear_sets \/ calc_use_def \/ crash \/ epoch \/ flow_block
  <2>1. CASE epoch
    <3>1. pc' # "done" /\ bb' = 1
      BY <2>1 DEF epoch, FlowInv
    <3>. QED BY <3>1 DEF Through, Block
  <2>2. CASE clear_sets \/ calc_use_def \/ crash \/ flow_block
    <3>1. pc' # "done" /\ pc' # "elim"
      BY <2>2 DEF clear_sets, calc_use_def, crash, flow_block, Advance
    <3>. QED BY <3>1 DEF Through
  <2>. QED BY <1>2, <2>1, <2>2
<1>3. CASE UNCHANGED vars
  <2>1. UNCHANGED <<insts, in, out, insts3>> /\ Through(b)
    BY <1>3 DEF vars, input, Through
  <2>2. CopyOf(b, Len(insts[b]), insts3[b])
    BY <2>1 DEF CopyInv
  <2>. QED BY <2>1, <2>2, SMTT(30) DEF CopyOf, Eliminated, sget
<1>. QED BY <1>1, <1>2, <1>3 DEF Next

\* For any routine, what the elimination takes out of a block is every store
\* to a variable, of any routine, or to a temporary that no walk from the
\* beginning or from the end of the block uses before any definition, and
\* nothing else; the rest stays in its order (elim_dead_assign).
THEOREM UnreadGo == Spec => []UnreadStoresGo
<1>1. Init => CopyInv
  BY DEF Init, CopyInv, Through
<1>2. FlowFacts /\ CopyInv /\ [Next]_vars => CopyInv'
  BY CopyStepInv DEF FlowFacts
<1>3. FlowFacts /\ CopyInv => UnreadStoresGo
  <2>. SUFFICES ASSUME FlowFacts, CopyInv, NEW b \in Block, Through(b)
                PROVE  Selects(b, {k \in DOMAIN insts[b] : ~Unread(b, insts[b][k])})
    BY Zenon DEF UnreadStoresGo
  <2>1. Flowed /\ TypeOK
    BY DEF Flowed, Through, FlowFacts
  <2>2. \A x : Eliminated(b, x) <=> Unread(b, x)
    BY <2>1, EliminatedUnread
  <2>3. CopyOf(b, Len(insts[b]), insts3[b])
    BY Zenon DEF CopyInv
  <2>. QED BY <2>1, <2>2, <2>3, BlockLeft, Zenon
<1>. QED BY <1>1, <1>2, <1>3, Analysed, PTL DEF Spec
=============================================================================
