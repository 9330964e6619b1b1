----------------------------- MODULE MCAnalysis -----------------------------
(* Small instances of Analysis for TLC. *)
EXTENDS Analysis, TLC

\* Every key in one bucket: the longest chains, and all names alike.
OneBucket(key) == 0
NamesAlike == Permutations(Name)

\* Routines of one name in one bucket or in two, with and without others.
ByArity(key) == IF key[2] = <<>> \/ key[2] = <<"INT">> THEN 0 ELSE 1
=============================================================================
