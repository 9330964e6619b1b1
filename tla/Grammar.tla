-------------------------------- MODULE Grammar --------------------------------
(***************************************************************************)
(* The language the parser promises to read: the productions that stand    *)
(* above the functions of parse.c, as data, and the set of ways in which a *)
(* text read so far can be continued to a program.                         *)
(*                                                                         *)
(* A nonterminal is a string of Nonterminal, any other symbol is a token_t *)
(* of lexical.h.  [x] and {x} are nonterminals of their own.  Two places   *)
(* follow what parse.c does and not what its comments say: a block need    *)
(* not have a compstmt, and a character is a factor (the comments leave    *)
(* "const" undefined and never mention it).                                *)
(*                                                                         *)
(* Only the properties of Parser use this module.                          *)
(***************************************************************************)
EXTENDS Sequences

BasicType == {"KW_INTEGER", "KW_UINTEGER", "KW_CHAR"}
Relop == {"SS_EQU", "SS_LST", "SS_LEQ", "SS_GTT", "SS_GEQ", "SS_NEQ"}
Sign == {"SS_PLUS", "SS_MINUS"}
\* ERROR stands for the tokens that no function asks for.
Token ==
  BasicType \cup Relop \cup Sign \cup
  {"ENDFILE", "ERROR", "KW_ARRAY", "KW_BEGIN", "KW_CONST", "KW_DO", "KW_DOWNTO", "KW_ELSE",
   "KW_END", "KW_FOR", "KW_FUNCTION", "KW_IF", "KW_OF", "KW_PROCEDURE", "KW_READ", "KW_REPEAT",
   "KW_THEN", "KW_TO", "KW_UNTIL", "KW_VAR", "KW_WRITE", "MC_ID", "MC_CH", "MC_UNS", "MC_STR",
   "SS_STAR", "SS_OVER", "SS_COMMA", "SS_SEMI", "SS_ASGN", "SS_LPAR", "SS_RPAR", "SS_LBRA",
   "SS_RBRA", "SS_COLON", "SS_DOT"}

Nonterminal ==
  {"pgm", "block", "[constdec]", "constdec", "{,constdef}", "constdef", "const", "[+|-]",
   "[vardec]", "vardec", "{vardef;}", "vardef", "{,ident}", "type", "basictype",
   "[pfdeclist]", "procdec", "{procdef;}", "procdef", "prochead",
   "fundec", "{fundef;}", "fundef", "funhead",
   "[paralist]", "paralist", "{;paradef}", "paradef",
   "[compstmt]", "compstmt", "{;statement}", "statement", "assignstmt", "ifstmt",
   "[ELSE statement]", "repeatstmt", "forstmt", "to", "pcallstmt", "readstmt", "writestmt",
   "written", "[,expression]", "[arglist]", "arglist", "{,expression}",
   "expression", "{addop term}", "term", "{multop factor}", "factor", "fcallstmt",
   "condition", "relop"}

Optional(x) == {<<>>, x}

Production(n) ==
  CASE n = "pgm" -> {<<"block", "SS_DOT">>}
    [] n = "block" -> {<<"[constdec]", "[vardec]", "[pfdeclist]", "[compstmt]">>}
    [] n = "[constdec]" -> Optional(<<"constdec">>)
    [] n = "constdec" -> {<<"KW_CONST", "constdef", "{,constdef}", "SS_SEMI">>}
    [] n = "{,constdef}" -> Optional(<<"SS_COMMA", "constdef", "{,constdef}">>)
    [] n = "constdef" -> {<<"MC_ID", "SS_EQU", "const">>}
    [] n = "const" -> {<<"[+|-]", "MC_UNS">>, <<"MC_CH">>}
    [] n = "[+|-]" -> {<<>>, <<"SS_PLUS">>, <<"SS_MINUS">>}
    [] n = "[vardec]" -> Optional(<<"vardec">>)
    [] n = "vardec" -> {<<"KW_VAR", "vardef", "SS_SEMI", "{vardef;}">>}
    [] n = "{vardef;}" -> Optional(<<"vardef", "SS_SEMI", "{vardef;}">>)
    [] n = "vardef" -> {<<"MC_ID", "{,ident}", "SS_COLON", "type">>}
    [] n = "{,ident}" -> Optional(<<"SS_COMMA", "MC_ID", "{,ident}">>)
    [] n = "type" ->
         {<<"basictype">>,
          <<"KW_ARRAY", "SS_LBRA", "MC_UNS", "SS_RBRA", "KW_OF", "basictype">>}
    [] n = "basictype" -> {<<"KW_INTEGER">>, <<"KW_UINTEGER">>, <<"KW_CHAR">>}
    [] n = "[pfdeclist]" ->
         {<<>>, <<"procdec", "[pfdeclist]">>, <<"fundec", "[pfdeclist]">>}
    [] n = "procdec" -> {<<"procdef", "SS_SEMI", "{procdef;}">>}
    [] n = "{procdef;}" -> Optional(<<"procdef", "SS_SEMI", "{procdef;}">>)
    [] n = "procdef" -> {<<"prochead", "block">>}
    [] n = "prochead" ->
         {<<"KW_PROCEDURE", "MC_ID", "SS_LPAR", "[paralist]", "SS_RPAR", "SS_SEMI">>}
    [] n = "fundec" -> {<<"fundef", "SS_SEMI", "{fundef;}">>}
    [] n = "{fundef;}" -> Optional(<<"fundef", "SS_SEMI", "{fundef;}">>)
    [] n = "fundef" -> {<<"funhead", "block">>}
    [] n = "funhead" ->
         {<<"KW_FUNCTION", "MC_ID", "SS_LPAR", "[paralist]", "SS_RPAR", "SS_COLON",
            "basictype", "SS_SEMI">>}
    [] n = "[paralist]" -> Optional(<<"paralist">>)
    [] n = "paralist" -> {<<"paradef", "{;paradef}">>}
    [] n = "{;paradef}" -> Optional(<<"SS_SEMI", "paradef", "{;paradef}">>)
    [] n = "paradef" ->
         {<<"MC_ID", "{,ident}", "SS_COLON", "basictype">>,
          <<"KW_VAR", "MC_ID", "{,ident}", "SS_COLON", "basictype">>}
    [] n = "[compstmt]" -> Optional(<<"compstmt">>)
    [] n = "compstmt" -> {<<"KW_BEGIN", "statement", "{;statement}", "KW_END">>}
    [] n = "{;statement}" -> Optional(<<"SS_SEMI", "statement", "{;statement}">>)
    [] n = "statement" ->
         {<<"assignstmt">>, <<"ifstmt">>, <<"repeatstmt">>, <<"pcallstmt">>, <<"compstmt">>,
          <<"readstmt">>, <<"writestmt">>, <<"forstmt">>, <<>>}
    [] n = "assignstmt" ->
         {<<"MC_ID", "SS_ASGN", "expression">>,
          <<"MC_ID", "SS_LBRA", "expression", "SS_RBRA", "SS_ASGN", "expression">>}
    [] n = "ifstmt" -> {<<"KW_IF", "condition", "KW_THEN", "statement", "[ELSE statement]">>}
    [] n = "[ELSE statement]" -> Optional(<<"KW_ELSE", "statement">>)
    [] n = "repeatstmt" -> {<<"KW_REPEAT", "statement", "KW_UNTIL", "condition">>}
    [] n = "forstmt" ->
         {<<"KW_FOR", "MC_ID", "SS_ASGN", "expression", "to", "expression", "KW_DO",
            "statement">>}
    [] n = "to" -> {<<"KW_TO">>, <<"KW_DOWNTO">>}
    [] n \in {"pcallstmt", "fcallstmt"} -> {<<"MC_ID", "SS_LPAR", "[arglist]", "SS_RPAR">>}
    [] n = "readstmt" -> {<<"KW_READ", "SS_LPAR", "MC_ID", "{,ident}", "SS_RPAR">>}
    [] n = "writestmt" -> {<<"KW_WRITE", "SS_LPAR", "written", "SS_RPAR">>}
    [] n = "written" -> {<<"MC_STR", "[,expression]">>, <<"expression">>}
    [] n = "[,expression]" -> Optional(<<"SS_COMMA", "expression">>)
    [] n = "[arglist]" -> Optional(<<"arglist">>)
    [] n = "arglist" -> {<<"expression", "{,expression}">>}
    [] n = "{,expression}" -> Optional(<<"SS_COMMA", "expression", "{,expression}">>)
    [] n = "expression" -> {<<"[+|-]", "term", "{addop term}">>}
    [] n = "{addop term}" ->
         {<<>>, <<"SS_PLUS", "term", "{addop term}">>, <<"SS_MINUS", "term", "{addop term}">>}
    [] n = "term" -> {<<"factor", "{multop factor}">>}
    [] n = "{multop factor}" ->
         {<<>>, <<"SS_STAR", "factor", "{multop factor}">>,
          <<"SS_OVER", "factor", "{multop factor}">>}
    [] n = "factor" ->
         {<<"MC_ID">>, <<"MC_ID", "SS_LBRA", "expression", "SS_RBRA">>, <<"MC_UNS">>,
          <<"MC_CH">>, <<"SS_LPAR", "expression", "SS_RPAR">>, <<"fcallstmt">>}
    [] n = "condition" -> {<<"expression", "relop", "expression">>}
    [] n = "relop" ->
         {<<"SS_EQU">>, <<"SS_LST">>, <<"SS_LEQ">>, <<"SS_GTT">>, <<"SS_GEQ">>, <<"SS_NEQ">>}

Symbol == Token \cup Nonterminal
Form == Seq(Symbol)
Bare(form) == form = <<>> \/ Head(form) \notin Nonterminal

\* The forms of a form that begin with a token, or are empty.  No production
\* is left recursive, so the unfolding ends.
Unfold[form \in Form] ==
  IF Bare(form) THEN {form}
  ELSE UNION {Unfold[rhs \o Tail(form)] : rhs \in Production(Head(form))}

\* What may follow the empty text, and what may follow one token more.
Start == Unfold[<<"pgm">>]
Takes(forms, tok) == {form \in forms : form # <<>> /\ Head(form) = tok}
Advance(forms, tok) == UNION {Unfold[Tail(form)] : form \in Takes(forms, tok)}
=============================================================================
