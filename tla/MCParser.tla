------------------------------- MODULE MCParser -------------------------------
(* Parser for TLC: every text whose parse never has more than MaxCalls     *)
(* calls open.                                                             *)
EXTENDS Parser
=============================================================================
