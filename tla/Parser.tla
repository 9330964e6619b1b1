-------------------------------- MODULE Parser --------------------------------
(***************************************************************************)
(* The parser (parse.c): recursive descent with one token of lookahead.    *)
(*                                                                         *)
(* stack is what the calls that are open still have to do, innermost call  *)
(* first: a token stands for match(token), any other element for the code  *)
(* of that name.  A parse_ function is an action of its own; what it does  *)
(* after a match has returned, and has to look at the token again for, is  *)
(* a further disjunct of it.                                               *)
(*                                                                         *)
(* Of the text only the next token counts, and gettok may return any.  The *)
(* tree is left out, except where it steers the parser: a constant without *)
(* a name has no node behind idp.                                          *)
(***************************************************************************)
EXTENDS Grammar, Naturals, FiniteSets

CONSTANT
  MaxCalls  \* bound: with more calls open than this the text comes to its end

ASSUME MaxCallsAssumption == MaxCalls \in Nat

ERRTOK == 100
EPANIC == 996
EABORT == 997

VARIABLES
  currtok, prevtok,  \* the parser's
  stack,
  errnum, phase,     \* the driver's; "EXIT": exit(), "CRASH": a null dereference
  live               \* history: how the text before currtok can be continued

vars == <<currtok, prevtok, stack, errnum, phase, live>>

Init ==
  /\ currtok \in Token /\ prevtok = "ENDFILE"
  /\ stack = <<"parse_pgm">>
  /\ errnum = 0 /\ phase = "LEXICAL"
  /\ live = Start

-----------------------------------------------------------------------------
(* The steps all functions are made of                                     *)

Next1 == Head(stack)
Running == phase = "LEXICAL" /\ stack # <<>>
Calls == Cardinality({i \in 1..Len(stack) : stack[i] \notin Token})

\* The code f is left for what body still has to do.
Runs(f, body) ==
  /\ Running /\ Next1 = f
  /\ stack' = body \o Tail(stack)
  /\ UNCHANGED <<currtok, prevtok, errnum, phase, live>>

\* if (TOKANY...), and a switch over tokens that are matched where the
\* default is unlikely
WhenTok(toks, body) == IF currtok \in toks THEN body ELSE <<>>
Switch(toks) == IF currtok \in toks THEN <<currtok>> ELSE <<"unlikely">>

Stops(outcome, err) ==
  /\ phase' = outcome /\ errnum' = err
  /\ UNCHANGED <<currtok, prevtok, stack, live>>

match ==
  /\ Running /\ Next1 \in Token /\ currtok = Next1
  /\ stack' = Tail(stack)
  /\ prevtok' = currtok
  /\ live' = Advance(live, currtok)
  /\ \E tok \in IF Calls > MaxCalls THEN {"ENDFILE"} ELSE Token : currtok' = tok
  /\ UNCHANGED <<errnum, phase>>

\* The other branch of match, and the functions that do not return.
panic == Running /\ Next1 \in Token /\ currtok # Next1 /\ Stops("EXIT", EPANIC)
unlikely == Running /\ Next1 = "unlikely" /\ Stops("EXIT", EABORT)
null_idp == Running /\ Next1 = "null_idp" /\ Stops("CRASH", errnum)

rescue ==
  /\ Running /\ Next1 = "rescue"
  /\ stack' = Tail(stack) /\ errnum' = ERRTOK
  /\ UNCHANGED <<currtok, prevtok, phase, live>>

-----------------------------------------------------------------------------
(* Declarations                                                            *)

parse_pgm == Runs("parse_pgm", <<"parse_block", "SS_DOT">>)

parse_block ==
  \/ Runs("parse_block", <<"block_const", "block_var", "block_pf", "block_comp">>)
  \/ Runs("block_const", WhenTok({"KW_CONST"}, <<"parse_const_dec">>))
  \/ Runs("block_var", WhenTok({"KW_VAR"}, <<"parse_var_dec">>))
  \/ Runs("block_pf", WhenTok({"KW_FUNCTION", "KW_PROCEDURE"}, <<"parse_pf_dec_list">>))
  \/ Runs("block_comp", WhenTok({"KW_BEGIN"}, <<"parse_comp_stmt">>))

\* Variant: the list of constants ends without its semicolon.
parse_const_dec_open ==
  \/ Runs("parse_const_dec", <<"KW_CONST", "parse_const_def", "const_dec_more">>)
  \/ Runs("const_dec_more",
          WhenTok({"SS_COMMA"}, <<"SS_COMMA", "parse_const_def", "const_dec_more">>))

parse_const_dec ==
  \/ Runs("parse_const_dec", <<"KW_CONST", "parse_const_def", "const_dec_more", "SS_SEMI">>)
  \/ Runs("const_dec_more",
          WhenTok({"SS_COMMA"}, <<"SS_COMMA", "parse_const_def", "const_dec_more">>))

\* Without a name there is no t->idp to give a kind.
parse_const_def ==
  \/ Runs("parse_const_def", IF currtok = "MC_ID" THEN <<"READCURR", "SS_EQU", "const_value">>
                                                  ELSE <<"SS_EQU", "nameless_value">>)
  \/ Runs("const_value", IF currtok \in Sign THEN <<currtok, "MC_UNS">>
                                             ELSE Switch({"MC_UNS", "MC_CH"}))
  \/ Runs("nameless_value", IF currtok \in Sign THEN <<currtok, "null_idp">>
                            ELSE IF currtok \in {"MC_UNS", "MC_CH"} THEN <<"null_idp">>
                            ELSE <<"unlikely">>)

parse_var_dec ==
  \/ Runs("parse_var_dec", <<"KW_VAR", "parse_var_def", "SS_SEMI", "var_dec_more">>)
  \/ Runs("var_dec_more", WhenTok({"MC_ID"}, <<"parse_var_def", "SS_SEMI", "var_dec_more">>))

parse_var_def ==
  \/ Runs("parse_var_def", <<"READCURR", "more_idents", "SS_COLON", "var_type">>)
  \/ Runs("var_type", IF currtok = "KW_ARRAY"
                      THEN <<"KW_ARRAY", "SS_LBRA", "array_length", "SS_RBRA", "KW_OF",
                             "basictype">>
                      ELSE Switch(BasicType))
  \/ Runs("array_length", Switch({"MC_UNS"}))

\* Loops and a switch that several functions have
more_idents == Runs("more_idents", WhenTok({"SS_COMMA"}, <<"SS_COMMA", "READCURR", "more_idents">>))
basictype == Runs("basictype", Switch(BasicType))

parse_pf_dec_list ==
  Runs("parse_pf_dec_list",
       CASE currtok = "KW_PROCEDURE" -> <<"parse_proc_dec", "parse_pf_dec_list">>
         [] currtok = "KW_FUNCTION" -> <<"parse_fun_dec", "parse_pf_dec_list">>
         [] OTHER -> <<>>)

parse_proc_dec ==
  \/ Runs("parse_proc_dec", <<"parse_proc_def", "SS_SEMI", "proc_dec_more">>)
  \/ Runs("proc_dec_more",
          WhenTok({"KW_PROCEDURE"}, <<"parse_proc_def", "SS_SEMI", "proc_dec_more">>))

parse_fun_dec ==
  \/ Runs("parse_fun_dec", <<"parse_fun_def", "SS_SEMI", "fun_dec_more">>)
  \/ Runs("fun_dec_more",
          WhenTok({"KW_FUNCTION"}, <<"parse_fun_def", "SS_SEMI", "fun_dec_more">>))

parse_proc_def == Runs("parse_proc_def", <<"parse_proc_head", "parse_block">>)
parse_fun_def == Runs("parse_fun_def", <<"parse_fun_head", "parse_block">>)

parse_proc_head ==
  Runs("parse_proc_head",
       <<"KW_PROCEDURE", "READCURR", "SS_LPAR", "head_paras", "SS_RPAR", "SS_SEMI">>)

parse_fun_head ==
  Runs("parse_fun_head",
       <<"KW_FUNCTION", "READCURR", "SS_LPAR", "head_paras", "SS_RPAR", "SS_COLON",
         "basictype", "SS_SEMI">>)

head_paras == Runs("head_paras", WhenTok({"KW_VAR", "MC_ID"}, <<"parse_para_list">>))

parse_para_list ==
  \/ Runs("parse_para_list", <<"parse_para_def", "para_list_more">>)
  \/ Runs("para_list_more", WhenTok({"SS_SEMI"}, <<"SS_SEMI", "parse_para_def", "para_list_more">>))

parse_para_def ==
  Runs("parse_para_def",
       WhenTok({"KW_VAR"}, <<"KW_VAR">>)
         \o <<"READCURR", "more_idents", "SS_COLON", "basictype">>)

-----------------------------------------------------------------------------
(* Statements                                                              *)

\* A statement that begins with a name is known by the token behind the
\* name; = is taken for a misspelt := and reported at the end.
parse_stmt ==
  \/ Runs("parse_stmt",
          CASE currtok = "KW_IF" -> <<"parse_if_stmt">>
            [] currtok = "KW_REPEAT" -> <<"parse_repe_stmt">>
            [] currtok = "KW_BEGIN" -> <<"parse_comp_stmt">>
            [] currtok = "KW_READ" -> <<"parse_read_stmt">>
            [] currtok = "KW_WRITE" -> <<"parse_write_stmt">>
            [] currtok = "KW_FOR" -> <<"parse_for_stmt">>
            [] currtok = "MC_ID" -> <<"MC_ID", "ident_stmt">>
            [] OTHER -> <<>>)
  \/ Runs("ident_stmt",
          CASE currtok = "SS_LPAR" -> <<"parse_call">>
            [] currtok \in {"SS_ASGN", "SS_LBRA"} -> <<"parse_assign_stmt">>
            [] currtok = "SS_EQU" -> <<"parse_assign_stmt", "rescue">>
            [] OTHER -> <<"unlikely">>)

\* Variant: the name is taken after := has been matched.
parse_assign_late ==
  Runs("parse_assign_stmt",
       IF currtok = "SS_LBRA"
       THEN <<"READPREV", "SS_LBRA", "parse_expr", "SS_RBRA", "SS_ASGN", "parse_expr">>
       ELSE <<currtok, "READPREV", "parse_expr">>)

parse_assign_stmt ==
  Runs("parse_assign_stmt",
       IF currtok = "SS_LBRA"
       THEN <<"READPREV", "SS_LBRA", "parse_expr", "SS_RBRA", "SS_ASGN", "parse_expr">>
       ELSE <<"READPREV", currtok, "parse_expr">>)

parse_if_stmt ==
  \/ Runs("parse_if_stmt", <<"KW_IF", "parse_cond", "KW_THEN", "parse_stmt", "if_else">>)
  \/ Runs("if_else", WhenTok({"KW_ELSE"}, <<"KW_ELSE", "parse_stmt">>))

parse_repe_stmt ==
  Runs("parse_repe_stmt", <<"KW_REPEAT", "parse_stmt", "KW_UNTIL", "parse_cond">>)

parse_for_stmt ==
  \/ Runs("parse_for_stmt", <<"KW_FOR", "READCURR", "SS_ASGN", "parse_expr", "for_to",
                              "parse_expr", "KW_DO", "parse_stmt">>)
  \/ Runs("for_to", Switch({"KW_TO", "KW_DOWNTO"}))

\* Variant: the loop does not match the semicolon.
parse_comp_stuck ==
  \/ Runs("parse_comp_stmt", <<"KW_BEGIN", "parse_stmt", "comp_more", "KW_END">>)
  \/ Runs("comp_more", WhenTok({"SS_SEMI"}, <<"parse_stmt", "comp_more">>))

parse_comp_stmt ==
  \/ Runs("parse_comp_stmt", <<"KW_BEGIN", "parse_stmt", "comp_more", "KW_END">>)
  \/ Runs("comp_more", WhenTok({"SS_SEMI"}, <<"SS_SEMI", "parse_stmt", "comp_more">>))

parse_read_stmt ==
  Runs("parse_read_stmt", <<"KW_READ", "SS_LPAR", "READCURR", "more_idents", "SS_RPAR">>)

parse_write_stmt ==
  \/ Runs("parse_write_stmt", <<"KW_WRITE", "SS_LPAR", "written", "SS_RPAR">>)
  \/ Runs("written",
          CASE currtok = "MC_STR" -> <<"MC_STR", "written_more">>
            [] currtok \in {"MC_ID", "MC_CH", "MC_UNS", "SS_LPAR"} \cup Sign -> <<"parse_expr">>
            [] OTHER -> <<"unlikely">>)
  \/ Runs("written_more", WhenTok({"SS_COMMA"}, <<"SS_COMMA", "parse_expr">>))

\* Variant: an argument that begins with a parenthesis is not seen.
parse_call_paren ==
  \/ Runs("parse_call", <<"READPREV", "SS_LPAR", "arguments", "SS_RPAR">>)
  \/ Runs("arguments", WhenTok({"MC_ID", "MC_CH", "MC_UNS"} \cup Sign, <<"parse_arg_list">>))

\* parse_pcall_stmt and parse_fcall_stmt, which build different nodes
parse_call ==
  \/ Runs("parse_call", <<"READPREV", "SS_LPAR", "arguments", "SS_RPAR">>)
  \/ Runs("arguments", WhenTok({"MC_ID", "MC_CH", "MC_UNS", "SS_LPAR"} \cup Sign,
                               <<"parse_arg_list">>))

parse_arg_list ==
  \/ Runs("parse_arg_list", <<"parse_expr", "arg_list_more">>)
  \/ Runs("arg_list_more", WhenTok({"SS_COMMA"}, <<"SS_COMMA", "parse_expr", "arg_list_more">>))

-----------------------------------------------------------------------------
(* Expressions                                                             *)

parse_expr ==
  \/ Runs("parse_expr",
          CASE currtok \in Sign -> <<currtok, "parse_term", "expr_more">>
            [] currtok \in {"MC_ID", "MC_CH", "MC_UNS", "SS_LPAR"} -> <<"parse_term", "expr_more">>
            [] OTHER -> <<"unlikely">>)
  \/ Runs("expr_more", WhenTok(Sign, <<currtok, "parse_term", "expr_more">>))

parse_term ==
  \/ Runs("parse_term", <<"parse_factor", "term_more">>)
  \/ Runs("term_more", WhenTok({"SS_STAR", "SS_OVER"}, <<currtok, "parse_factor", "term_more">>))

parse_factor ==
  \/ Runs("parse_factor",
          CASE currtok \in {"MC_UNS", "MC_CH"} -> <<currtok>>
            [] currtok = "SS_LPAR" -> <<"SS_LPAR", "parse_expr", "SS_RPAR">>
            [] currtok = "MC_ID" -> <<"MC_ID", "ident_factor">>
            [] OTHER -> <<"unlikely">>)
  \/ Runs("ident_factor",
          CASE currtok = "SS_LBRA" -> <<"READPREV", "SS_LBRA", "parse_expr", "SS_RBRA">>
            [] currtok = "SS_LPAR" -> <<"parse_call">>
            [] OTHER -> <<"READPREV">>)

parse_cond ==
  \/ Runs("parse_cond", <<"parse_expr", "relop", "parse_expr">>)
  \/ Runs("relop", Switch(Relop))

\* READCURR takes the name of currtok before it is matched, READPREV the
\* name that match has put aside.
parse_ident ==
  \/ Runs("READCURR", <<"MC_ID">>)
  \/ Runs("READPREV", <<>>)

-----------------------------------------------------------------------------
(* The phase                                                               *)

\* Variant: the phase ends without chkerr.
parse_unchecked ==
  /\ phase = "LEXICAL" /\ stack = <<>>
  /\ phase' = "SEMANTIC"
  /\ UNCHANGED <<currtok, prevtok, stack, errnum, live>>

\* What follows parse_pgm: chkerr, and the next phase.
parse ==
  /\ phase = "LEXICAL" /\ stack = <<>>
  /\ phase' = IF errnum # 0 THEN "EXIT" ELSE "SEMANTIC"
  /\ UNCHANGED <<currtok, prevtok, stack, errnum, live>>

Stopped == phase # "LEXICAL"

Next ==
  \/ match \/ panic \/ unlikely \/ null_idp \/ rescue
  \/ parse_pgm \/ parse_block \/ parse_const_dec \/ parse_const_def \/ parse_var_dec
  \/ parse_var_def \/ more_idents \/ basictype \/ parse_pf_dec_list
  \/ parse_proc_dec \/ parse_fun_dec \/ parse_proc_def \/ parse_fun_def
  \/ parse_proc_head \/ parse_fun_head \/ head_paras \/ parse_para_list \/ parse_para_def
  \/ parse_stmt \/ parse_assign_stmt \/ parse_if_stmt \/ parse_repe_stmt \/ parse_for_stmt
  \/ parse_comp_stmt \/ parse_read_stmt \/ parse_write_stmt \/ parse_call \/ parse_arg_list
  \/ parse_expr \/ parse_term \/ parse_factor \/ parse_cond \/ parse_ident
  \/ parse
  \/ (Stopped /\ UNCHANGED vars)

Spec == Init /\ [][Next]_vars

\* The parser is one thread that never waits.
FairSpec == Spec /\ WF_vars(Next)

-----------------------------------------------------------------------------
(* Properties                                                              *)

\* What passes the parser is a program: in particular a text with = for :=,
\* which the parser reads to its end, does not get past chkerr.
AcceptsPrograms == phase = "SEMANTIC" => <<>> \in live

\* A text is given up only at a token that no program has at that place.
RejectsNoProgram == phase \in {"EXIT", "CRASH"} => Takes(live, currtok) = {}

\* No text is read past the first token that no program has at that place,
\* but for the = of parse_stmt and a constant without a name.
StopsAtFirstError ==
  Running /\ live = {} =>
    \/ errnum = ERRTOK
    \/ \E i \in 1..Len(stack) : stack[i] \in {"rescue", "nameless_value", "null_idp", "unlikely"}

\* A node that takes its name from prevtokbuf takes an identifier's.
PreviousIsName == Running /\ Next1 = "READPREV" => prevtok = "MC_ID"

\* Every text is read on or given up: no loop of the parser goes round
\* without a match.
ReadsOn == <>Stopped \/ []<><<match>>_vars
=============================================================================
