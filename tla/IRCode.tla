------------------------------- MODULE IRCode -------------------------------
(* The shape of the instruction list that generate.c hands to the          *)
(* optimizer: IRGen guarantees it, FlowGraph relies on it.                 *)
EXTENDS Naturals, Sequences, FiniteSets

Jumps == {"BRANCH", "JUMP"}  \* BRANCH stands for the six conditional ones
\* What generate.c emits: routines one after the other, each between its
\* FN_START and FN_END, and every label marked once and jumped to once in
\* one of them.
WellFormed(code) ==
  LET Is(i, op) == code[i].op = op
      Inside(i) == {j \in 1..i : Is(j, "FN_START")}
      Routines(i, j) == Cardinality(Inside(i)) = Cardinality(Inside(j))
  IN  /\ code # <<>> => Is(1, "FN_START") /\ Is(Len(code), "FN_END")
      /\ \A i \in 1..Len(code) - 1 : Is(i, "FN_END") <=> Is(i + 1, "FN_START")
      /\ \A i, j \in DOMAIN code :
           Is(i, "FN_START") /\ Is(j, "FN_END") /\ Routines(i, j) =>
             code[i].d = code[j].d
      /\ \A i, j \in DOMAIN code : i # j /\ Is(i, "LABEL") /\ Is(j, "LABEL") =>
           code[i].d # code[j].d
      /\ \A i, j \in DOMAIN code : i # j /\ {code[i].op, code[j].op} \subseteq Jumps =>
           code[i].d # code[j].d
      /\ \A i \in DOMAIN code : code[i].op \in Jumps =>
           \E j \in DOMAIN code : /\ Is(j, "LABEL") /\ code[j].d = code[i].d
                                  /\ Routines(i, j)
=============================================================================
