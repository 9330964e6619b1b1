----------------------------- MODULE MCLiveVars -----------------------------
(* Small instances of LiveVars for TLC: instruction lists over x, a variable *)
(* of the routine or of one around it, and p, a parameter.                  *)
EXTENDS LiveVars, TLC

\* Places in different words, with the same offset.
x == 1
p == 3
FlowVar == {x, p}
FlowParam == {p}
FlowOuter == {x}

I(op, d, r, s) == [op |-> op, d |-> d, r |-> r, s |-> s]

\* Every way a block can use and define the two, in lists of up to two.
FlowCode ==
  { <<I("none", NoVar, NoVar, NoVar)>>,
    <<I("store", x, NoVar, NoVar)>>,
    <<I("push", x, NoVar, NoVar)>>,
    <<I("store", p, x, NoVar), I("pop", NoVar, NoVar, NoVar)>>,
    <<I("neg", p, x, NoVar)>>,
    <<I("inc", x, NoVar, NoVar), I("store", x, p, NoVar)>>,
    <<I("store", x, p, NoVar), I("branch", NoVar, x, p)>>,
    <<I("write", p, NoVar, NoVar), I("read", x, NoVar, NoVar)>> }

\* "x := 1; p := x" with x a variable of the program.
TwoStores == {<<I("store", x, NoVar, NoVar), I("store", p, x, NoVar)>>}

\* The body of f12 in t47-access-var.pas, "x := 99".
LastStore == {<<I("store", x, NoVar, NoVar)>>}

\* For two blocks, one of them "x := 99", the other "write(x)".
WrittenOut == LastStore \cup {<<I("write", x, NoVar, NoVar)>>}
=============================================================================
