---------------------------- MODULE MCFlowGraph ----------------------------
(* Small instances of FlowGraph for TLC: two routines, f with up to five   *)
(* instructions and two labels, g with up to two and one label.            *)
EXTENDS FlowGraph, TLC

CONSTANTS f, g

Marks(labels) == {[op |-> "OTHER"]} \cup [op : Jumps \cup {"LABEL"}, d : labels]
Bodies(labels, k) == UNION {[1..n -> Marks(labels)] : n \in 0..k}
Bracket(r, body) ==
  <<[op |-> "FN_START", d |-> r]>> \o body \o <<[op |-> "FN_END", d |-> r]>>
Formed(r, labels, k) ==
  {c \in {Bracket(r, body) : body \in Bodies(labels, k)} : WellFormed(c)}

TwoRoutines == {c \o d : c \in Formed(f, {1, 2}, 5), d \in Formed(g, {3}, 2)}
=============================================================================
