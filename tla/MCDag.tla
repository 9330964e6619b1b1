------------------------------- MODULE MCDag -------------------------------
(* Small instances of Dag for TLC: every block of up to three operations   *)
(* in which the temporaries are computed in the order of their numbers.    *)
EXTENDS Dag, TLC

Computed(b) == {b[i].d : i \in DOMAIN b} \cap Temp

\* A call or a jump is enough at the end.
Continues(b, x) ==
  /\ Emitted(Append(b, x))
  /\ x.d \in Temp => \A t \in Temp : t < x.d => t \in Computed(b)
  /\ \A i \in DOMAIN b : b[i].op \in Computing

Longer(bs) == UNION {{Append(b, x) : x \in {y \in Inst : Continues(b, y)}} : b \in bs}

UpToThree ==
  LET one == Longer({<<>>})
      two == Longer(one)
  IN  {<<>>} \cup one \cup two \cup Longer(two)
=============================================================================
