------------------------------ MODULE MCIRAsm ------------------------------
(* A small instance of IRGen for TLC: a program with an integer, an array, *)
(* a function of a value and a reference, and inside it a procedure of a   *)
(* reference.                                                              *)
EXTENDS IRAsm

Sym(cate, type, stab) == [cate |-> cate, type |-> type, stab |-> stab]
Symbols == <<Sym("PROC", "VOID", 1),
             Sym("VARIABLE", "INT", 1),
             Sym("ARRAY", "INT", 1),
             Sym("FUNCTION", "INT", 1),
             Sym("PROC", "VOID", 4),
             Sym("BY_VALUE", "INT", 4),
             Sym("BY_REFERENCE", "INT", 4),
             Sym("BY_REFERENCE", "INT", 5)>>
=============================================================================
