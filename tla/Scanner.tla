------------------------------- MODULE Scanner -------------------------------
(***************************************************************************)
(* The scanner (scan.c): gettok's state machine over a line buffer that is *)
(* refilled from the source file, with one character of push-back.         *)
(*                                                                         *)
(* A character is a one-letter string; of those that the machine does not  *)
(* tell apart the sets Letter, Digit and Stray hold as many as needed.     *)
(***************************************************************************)
EXTENDS Naturals, Sequences, FiniteSets

CONSTANTS
  Letter, Digit,  \* isalpha, isdigit
  Stray,          \* printable characters that begin no token
  Keywords,       \* the words of PL0E_KEYWORDS
  Texts,          \* the source files
  MAXTOKSIZE,     \* the characters tokbuf holds, one more for the end
  Width,          \* the characters one fgets takes: MAXLINEBUF - 2
  MaxLineno       \* where the count of lines stops

EOF == "EOF"
NL == "nl"        \* the line feed, the one character here that is not printable
Space == {" ", NL}
Single ==
  [ch \in {".", "+", "-", "*", "/", "=", ",", ";", "(", ")", "[", "]", "}"} |->
     CASE ch = "." -> "SS_DOT"   [] ch = "+" -> "SS_PLUS"  [] ch = "-" -> "SS_MINUS"
       [] ch = "*" -> "SS_STAR"  [] ch = "/" -> "SS_OVER"  [] ch = "=" -> "SS_EQU"
       [] ch = "," -> "SS_COMMA" [] ch = ";" -> "SS_SEMI"  [] ch = "(" -> "SS_LPAR"
       [] ch = ")" -> "SS_RPAR"  [] ch = "[" -> "SS_LBRA"  [] ch = "]" -> "SS_RBRA"
       [] ch = "}" -> "SS_RBBR"]
Quote == "'"
DQuote == "\""
Brace == "{"
EndBrace == "}"
Special == Space \cup DOMAIN Single \cup {":", "<", ">", Brace, Quote, DQuote}
Char == Letter \cup Digit \cup Stray \cup Special

ASSUME ConstAssumption ==
  /\ Texts \subseteq Seq(Char)
  /\ Keywords \subseteq Seq(Letter)
  /\ {MAXTOKSIZE, Width, MaxLineno} \subseteq Nat \ {0}
  /\ \A t \in Texts : Len(t) + 2 < MaxLineno

\* A character is of one class, and the end of the file is none.
ASSUME ClassAssumption ==
  /\ Letter \cap Digit = {} /\ Stray \cap Special = {}
  /\ (Letter \cup Digit) \cap (Stray \cup Special) = {}
  /\ EOF \notin Letter \cup Digit \cup Stray

VARIABLES
  text, pos,      \* the file, and how much of it fgets has taken
  linebuf, colmno, lineno, fileend,
  state, tokbuf,  \* the machine's
  toks,           \* what gettok has returned: [tok, text, line]
  pc              \* "gettok", or why the parser does not call it again

vars == <<text, pos, linebuf, colmno, lineno, fileend, state, tokbuf, toks, pc>>

Init ==
  /\ text \in Texts /\ pos = 0
  /\ linebuf = <<>> /\ colmno = 0 /\ lineno = 0 /\ fileend = FALSE
  /\ state = "START" /\ tokbuf = <<>>
  /\ toks = <<>> /\ pc = "gettok"

-----------------------------------------------------------------------------
(* Reading                                                                 *)

\* The next line, or as much of it as fits.
fgets ==
  LET rest == SubSeq(text, pos + 1, Len(text))
      n == CHOOSE k \in 1..Len(rest) :
             /\ k = Width \/ k = Len(rest) \/ rest[k] = NL
             /\ k <= Width /\ \A j \in 1..k - 1 : rest[j] # NL
  IN  SubSeq(rest, 1, n)

\* The next line's number; a text never reaches the bound.
NextLine == IF lineno < MaxLineno THEN lineno + 1 ELSE lineno

\* Variant: a line is counted when its line feed is read.
readc_feed ==
  LET ch == IF colmno < Len(linebuf) THEN linebuf[colmno + 1]
            ELSE IF pos = Len(text) THEN EOF ELSE fgets[1]
      no == IF ch = NL \/ lineno = 0 THEN lineno + 1 ELSE lineno
  IN  IF colmno < Len(linebuf)
      THEN [ch |-> ch, line |-> linebuf, col |-> colmno + 1, no |-> no]
      ELSE [ch |-> ch, line |-> IF ch = EOF THEN linebuf ELSE fgets,
            col |-> IF ch = EOF THEN colmno ELSE 1, no |-> no]

\* The next character with the buffer, the column and the line behind it.
readc ==
  IF colmno < Len(linebuf)
  THEN [ch |-> linebuf[colmno + 1], line |-> linebuf, col |-> colmno + 1, no |-> lineno]
  ELSE IF pos = Len(text)
       THEN [ch |-> EOF, line |-> linebuf, col |-> colmno, no |-> NextLine]
       ELSE [ch |-> fgets[1], line |-> fgets, col |-> 1, no |-> NextLine]

\* The column once the last character is given back.
unreadc(col, atend) == IF atend THEN col ELSE col - 1

-----------------------------------------------------------------------------
(* The machine: what a state does with a character                         *)

Step(to, save, unread, tok) == [to |-> to, save |-> save, unread |-> unread, tok |-> tok]
Keep(to) == Step(to, TRUE, FALSE, "")
Skip(to) == Step(to, FALSE, FALSE, "")
Take(tok) == Step("DONE", TRUE, FALSE, tok)
Stop(tok) == Step("DONE", FALSE, FALSE, tok)
Back(tok) == Step("DONE", FALSE, TRUE, tok)
Panic == Step("PANIC", FALSE, FALSE, "")

Start(ch) ==
  CASE ch \in Space -> Skip("START")
    [] ch \in Digit -> Keep("INUNS")
    [] ch = DQuote -> Skip("INSTR")
    [] ch = Quote -> Skip("INCHA")
    [] ch = Brace -> Skip("INCMT")
    [] ch \in Letter -> Keep("INIDE")
    [] ch = ":" -> Keep("INCOM")
    [] ch = ">" -> Keep("INGRE")
    [] ch = "<" -> Keep("INLES")
    [] ch = EOF -> Stop("ENDFILE")
    [] ch \in DOMAIN Single -> Take(Single[ch])
    [] OTHER -> Take("ERROR")

\* Variant: a comment goes on at the end of the file.
InComment_open(ch) == IF ch = EndBrace THEN Skip("START") ELSE Skip("INCMT")

InComment(ch) ==
  CASE ch = EOF -> Stop("ENDFILE")
    [] ch = EndBrace -> Skip("START")
    [] OTHER -> Skip("INCMT")

\* A string holds printable characters: EOF is none either.
InString(ch) ==
  CASE ch = DQuote -> Stop("MC_STR")
    [] ch \in {EOF, NL} -> Panic
    [] OTHER -> Keep("INSTR")

InCharacter(ch) ==
  CASE ch = Quote -> Stop("MC_CH")
    [] ch = EOF -> Stop("ENDFILE")
    [] OTHER -> Keep("INCHA")

\* Variant: what follows < is not given back.
InLess_take(ch) ==
  CASE ch = "=" -> Take("SS_LEQ")
    [] ch = ">" -> Take("SS_NEQ")
    [] OTHER -> Stop("SS_LST")

InLess(ch) ==
  CASE ch = "=" -> Take("SS_LEQ")
    [] ch = ">" -> Take("SS_NEQ")
    [] OTHER -> Back("SS_LST")

Transition(ch) ==
  CASE state = "START" -> Start(ch)
    [] state = "INCMT" -> InComment(ch)
    [] state = "INSTR" -> InString(ch)
    [] state = "INCHA" -> InCharacter(ch)
    [] state = "INUNS" -> IF ch \in Digit THEN Keep("INUNS") ELSE Back("MC_UNS")
    [] state = "INIDE" -> IF ch \in Digit \cup Letter THEN Keep("INIDE") ELSE Back("MC_ID")
    [] state = "INLES" -> InLess(ch)
    [] state = "INCOM" -> IF ch = "=" THEN Take("SS_ASGN") ELSE Back("SS_COLON")
    [] state = "INGRE" -> IF ch = "=" THEN Take("SS_GEQ") ELSE Back("SS_GTT")

getkw(word) == IF word \in Keywords THEN "KEYWORD" ELSE "MC_ID"

\* One turn of the loop.  Saving a character at MAXTOKSIZE writes the end
\* mark behind tokbuf.  At the end of the file an open character constant
\* is dropped.
gettok ==
  /\ pc = "gettok"
  /\ LET in == readc
         ch == in.ch
         step == Transition(ch)
         atend == fileend \/ ch = EOF
         buf == IF state = "INCHA" /\ ch = EOF THEN <<>>
                ELSE IF step.save THEN Append(tokbuf, ch) ELSE tokbuf
         tok == IF step.tok = "MC_ID" THEN getkw(buf) ELSE step.tok
     IN  /\ linebuf' = in.line /\ lineno' = in.no /\ fileend' = atend
         /\ pos' = IF colmno >= Len(linebuf) /\ ch # EOF THEN pos + Len(in.line) ELSE pos
         /\ colmno' = IF step.unread THEN unreadc(in.col, atend) ELSE in.col
         /\ CASE step.to = "PANIC" ->
                   pc' = "panic" /\ UNCHANGED <<state, tokbuf, toks>>
              [] step.to # "PANIC" /\ Len(buf) > MAXTOKSIZE ->
                   pc' = "undefined" /\ UNCHANGED <<state, tokbuf, toks>>
              [] step.to = "DONE" /\ Len(buf) <= MAXTOKSIZE ->
                   /\ toks' = Append(toks, [tok |-> tok, text |-> buf, line |-> in.no])
                   /\ state' = "START" /\ tokbuf' = <<>>
                   /\ pc' = IF tok \in {"ENDFILE", "ERROR"} THEN tok ELSE pc
              [] OTHER -> /\ state' = step.to /\ tokbuf' = buf
                          /\ UNCHANGED <<toks, pc>>
  /\ UNCHANGED text

Next == gettok

Spec == Init /\ [][Next]_vars

\* The parser asks for the next token until it ends the run.
FairSpec == Spec /\ WF_vars(Next)

-----------------------------------------------------------------------------
(* What the tokens of a text are, read off the text as a whole             *)

Size == Len(text)
Between(i, j) == SubSeq(text, i, j)
AllIn(s, S) == \A i \in DOMAIN s : s[i] \in S
Quoted(s, q, S) ==
  /\ Len(s) >= 2 /\ s[1] = q /\ s[Len(s)] = q
  /\ AllIn(SubSeq(s, 2, Len(s) - 1), S \ {q})

\* The lexemes and their tokens.
TokensOf(s) ==
  {tok \in {"MC_UNS", "MC_ID", "KEYWORD", "MC_STR", "MC_CH", "SYMBOL"} :
     CASE tok = "MC_UNS" -> s # <<>> /\ AllIn(s, Digit)
       [] tok \in {"MC_ID", "KEYWORD"} ->
            /\ s # <<>> /\ AllIn(s, Letter \cup Digit) /\ s[1] \in Letter
            /\ (tok = "KEYWORD") <=> (s \in Keywords)
       [] tok = "MC_STR" -> Quoted(s, DQuote, Char \ {NL})
       [] tok = "MC_CH" -> Quoted(s, Quote, Char)
       [] tok = "SYMBOL" ->
            \/ Len(s) = 1 /\ s[1] \in DOMAIN Single \cup {":", "<", ">"}
            \/ s \in {<<":", "=">>, <<"<", "=">>, <<"<", ">">>, <<">", "=">>}}

\* The first character that is neither blank nor in a comment.
Solid[i \in 1..Size + 1] ==
  IF i > Size THEN i
  ELSE IF text[i] \in Space THEN Solid[i + 1]
  ELSE IF text[i] # Brace THEN i
  ELSE LET closed == {j \in i + 1..Size : text[j] = EndBrace}
       IN  IF closed = {} THEN Size + 1
           ELSE Solid[1 + CHOOSE j \in closed : \A k \in closed : j <= k]

\* The longest lexemes from i on, as [first, last], and behind them the end:
\* last is 0, and first is where it is found.
Lexemes[i \in 1..Size + 1] ==
  LET first == Solid[i]
      ends == {j \in first..Size : TokensOf(Between(first, j)) # {}}
      last == CHOOSE j \in ends : \A k \in ends : k <= j
  IN  IF ends = {} THEN <<[first |-> first, last |-> 0]>>
      ELSE <<[first |-> first, last |-> last]>> \o Lexemes[last + 1]

\* What ends a text whose rest begins at i: an open character constant is
\* taken for the end of the file, an open string is not.
EndAt(i) ==
  IF i > Size THEN "ENDFILE"
  ELSE CASE text[i] = Quote -> "ENDFILE"
         [] text[i] = DQuote -> "panic"
         [] OTHER -> "ERROR"

Unquoted(s) == IF s[1] \in {Quote, DQuote} THEN SubSeq(s, 2, Len(s) - 1) ELSE s

-----------------------------------------------------------------------------
(* Properties                                                              *)

\* One character of push-back is enough: character by character, over any
\* cut of the file into lines and buffers, gettok returns the longest
\* lexemes of the text one after the other, with their spelling, and ends
\* with what stands behind the last one.  Only a lexeme longer than tokbuf
\* is beyond this.
TokensAreLexemes ==
  pc # "gettok" =>
    LET lexemes == Lexemes[1]
        n == IF pc \in {"ENDFILE", "ERROR"} THEN Len(toks) - 1 ELSE Len(toks)
    IN  /\ n < Len(lexemes)
        /\ \A k \in 1..n :
             LET s == Between(lexemes[k].first, lexemes[k].last)
             IN  /\ toks[k].text = Unquoted(s)
                 /\ toks[k].tok \in TokensOf(s) \/ "SYMBOL" \in TokensOf(s)
        /\ IF pc = "undefined"
           THEN Size - lexemes[n + 1].first >= MAXTOKSIZE
           ELSE n + 1 = Len(lexemes) /\ pc = EndAt(lexemes[n + 1].first)

LineOf(i) == 1 + Cardinality({j \in 1..i - 1 : text[j] = NL})
LinesFit == \A i \in 1..Size - Width : \E j \in i..i + Width - 1 : text[j] = NL

\* A token that a character follows carries the line its last character
\* stands on (toklineno), although that character may have been given back
\* and the token may span lines; as long as every line fits the buffer.
LinesCounted ==
  pc # "gettok" /\ LinesFit =>
    LET lexemes == Lexemes[1]
    IN  \A k \in DOMAIN toks \cap DOMAIN lexemes :
          lexemes[k].last \in 1..Size - 1 => toks[k].line = LineOf(lexemes[k].last)

\* The scanner comes to the end of every file: what is given back is never
\* read for ever, and no state waits behind the end.
Scanned == <>(pc # "gettok")
=============================================================================
