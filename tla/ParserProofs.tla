---------------------------- MODULE ParserProofs ----------------------------
(***************************************************************************)
(* What the parser passes is a program, and what it reads past is no       *)
(* error: the theorems about Parser, for any number of open calls.         *)
(***************************************************************************)
EXTENDS Parser, SequenceTheorems, TLAPS

-----------------------------------------------------------------------------
(* The unfolding of a form                                                 *)

\* The right hand sides are forms.
LEMMA ProductionType == \A n \in Nonterminal : Production(n) \subseteq Form
<1>. USE DEF Production, Optional, Form, Symbol, Token, BasicType, Relop, Sign, Nonterminal
<1>1. /\ Production("pgm") \subseteq Form
      /\ Production("block") \subseteq Form
      /\ Production("[constdec]") \subseteq Form
      /\ Production("constdec") \subseteq Form
      /\ Production("{,constdef}") \subseteq Form
      /\ Production("constdef") \subseteq Form
  OBVIOUS
<1>2. /\ Production("const") \subseteq Form
      /\ Production("[+|-]") \subseteq Form
      /\ Production("[vardec]") \subseteq Form
      /\ Production("vardec") \subseteq Form
      /\ Production("{vardef;}") \subseteq Form
      /\ Production("vardef") \subseteq Form
  OBVIOUS
<1>3. /\ Production("{,ident}") \subseteq Form
      /\ Production("type") \subseteq Form
      /\ Production("basictype") \subseteq Form
      /\ Production("[pfdeclist]") \subseteq Form
      /\ Production("procdec") \subseteq Form
      /\ Production("{procdef;}") \subseteq Form
  OBVIOUS
<1>4. /\ Production("procdef") \subseteq Form
      /\ Production("prochead") \subseteq Form
      /\ Production("fundec") \subseteq Form
      /\ Production("{fundef;}") \subseteq Form
      /\ Production("fundef") \subseteq Form
      /\ Production("funhead") \subseteq Form
  OBVIOUS
<1>5. /\ Production("[paralist]") \subseteq Form
      /\ Production("paralist") \subseteq Form
      /\ Production("{;paradef}") \subseteq Form
      /\ Production("paradef") \subseteq Form
      /\ Production("[compstmt]") \subseteq Form
      /\ Production("compstmt") \subseteq Form
  OBVIOUS
<1>6. /\ Production("{;statement}") \subseteq Form
      /\ Production("statement") \subseteq Form
      /\ Production("assignstmt") \subseteq Form
      /\ Production("ifstmt") \subseteq Form
      /\ Production("[ELSE statement]") \subseteq Form
      /\ Production("repeatstmt") \subseteq Form
  OBVIOUS
<1>7. /\ Production("forstmt") \subseteq Form
      /\ Production("to") \subseteq Form
      /\ Production("pcallstmt") \subseteq Form
      /\ Production("readstmt") \subseteq Form
      /\ Production("writestmt") \subseteq Form
      /\ Production("written") \subseteq Form
  OBVIOUS
<1>8. /\ Production("[,expression]") \subseteq Form
      /\ Production("[arglist]") \subseteq Form
      /\ Production("arglist") \subseteq Form
      /\ Production("{,expression}") \subseteq Form
      /\ Production("expression") \subseteq Form
      /\ Production("{addop term}") \subseteq Form
  OBVIOUS
<1>9. /\ Production("term") \subseteq Form
      /\ Production("{multop factor}") \subseteq Form
      /\ Production("factor") \subseteq Form
      /\ Production("fcallstmt") \subseteq Form
      /\ Production("condition") \subseteq Form
      /\ Production("relop") \subseteq Form
  OBVIOUS
<1>. HIDE DEF Production, Form
<1>. QED  BY <1>1, <1>2, <1>3, <1>4, <1>5, <1>6, <1>7, <1>8, <1>9

Ways(form) == {rhs \o Tail(form) : rhs \in Production(Head(form))}

LEMMA WaysType == \A form \in Form : Bare(form) \/ Ways(form) \subseteq Form
<1>. SUFFICES ASSUME NEW form \in Form, ~Bare(form), NEW rhs \in Production(Head(form))
              PROVE  rhs \o Tail(form) \in Form
  BY DEF Ways
<1>1. rhs \in Form /\ Tail(form) \in Form  BY ProductionType DEF Bare, Form
<1>. QED  BY <1>1 DEF Form

\* Unfold is what its equation says: the equation has a solution, the bare
\* forms that a chain of replacements leads to.
LEMMA Unfolding ==
  \A form \in Form :
    Unfold[form] = IF Bare(form) THEN {form} ELSE UNION {Unfold[next] : next \in Ways(form)}
<1>. DEFINE Body(f, form) ==
              IF Bare(form) THEN {form}
              ELSE UNION {f[rhs \o Tail(form)] : rhs \in Production(Head(form))}
            Chain(n, c) ==
              /\ c \in [0..n -> Form] /\ Bare(c[n])
              /\ \A i \in 0..n - 1 : ~Bare(c[i]) /\ c[i + 1] \in Ways(c[i])
            Leads(form, end) == \E n \in Nat : \E c : Chain(n, c) /\ c[0] = form /\ c[n] = end
            u == [form \in Form |-> {end \in Form : Leads(form, end)}]
<1>1. ASSUME NEW form \in Form, Bare(form)  PROVE u[form] = {form}
  <2>1. ASSUME NEW end, Leads(form, end)  PROVE end = form
    <3>1. PICK n \in Nat : \E c : Chain(n, c) /\ c[0] = form /\ c[n] = end  BY <2>1
    <3>2. PICK c : Chain(n, c) /\ c[0] = form /\ c[n] = end  BY <3>1
    <3>3. n = 0  BY <1>1, <3>2
    <3>. QED  BY <3>2, <3>3
  <2>2. Leads(form, form)
    <3>. DEFINE c == [i \in 0..0 |-> form]
    <3>1. Chain(0, c) /\ c[0] = form  BY <1>1
    <3>. QED  BY <3>1
  <2>. QED  BY <2>1, <2>2
<1>2. ASSUME NEW form \in Form, ~Bare(form), NEW end
      PROVE  Leads(form, end) <=> \E next \in Ways(form) : Leads(next, end)
  <2>1. ASSUME Leads(form, end)  PROVE \E next \in Ways(form) : Leads(next, end)
    <3>1. PICK n \in Nat : \E c : Chain(n, c) /\ c[0] = form /\ c[n] = end  BY <2>1
    <3>2. PICK c : Chain(n, c) /\ c[0] = form /\ c[n] = end  BY <3>1
    <3>3. n # 0  BY <1>2, <3>2
    <3>. DEFINE d == [i \in 0..n - 1 |-> c[i + 1]]
    <3>4. Chain(n - 1, d) /\ d[0] = c[1] /\ d[n - 1] = end  BY <3>2, <3>3
    <3>5. c[1] \in Ways(form)  BY <3>2, <3>3
    <3>6. n - 1 \in Nat  BY <3>3
    <3>. QED  BY <3>4, <3>5, <3>6
  <2>2. ASSUME NEW next \in Ways(form), Leads(next, end)  PROVE Leads(form, end)
    <3>1. PICK n \in Nat : \E c : Chain(n, c) /\ c[0] = next /\ c[n] = end  BY <2>2
    <3>2. PICK c : Chain(n, c) /\ c[0] = next /\ c[n] = end  BY <3>1
    <3>. DEFINE d == [i \in 0..n + 1 |-> IF i = 0 THEN form ELSE c[i - 1]]
    <3>3. Chain(n + 1, d) /\ d[0] = form /\ d[n + 1] = end
      <4>1. d \in [0..n + 1 -> Form]  BY <3>2
      <4>2. d[n + 1] = c[n] /\ d[0] = form  OBVIOUS
      <4>3. ASSUME NEW i \in 0..n  PROVE ~Bare(d[i]) /\ d[i + 1] \in Ways(d[i])
        <5>1. CASE i = 0  BY <1>2, <2>2, <3>2, <5>1
        <5>2. CASE i # 0
          <6>1. i - 1 \in 0..n - 1 /\ d[i] = c[i - 1] /\ d[i + 1] = c[(i - 1) + 1]  BY <5>2
          <6>. QED  BY <3>2, <6>1
        <5>. QED  BY <5>1, <5>2
      <4>. QED  BY <3>2, <4>1, <4>2, <4>3
    <3>4. n + 1 \in Nat  OBVIOUS
    <3>. HIDE DEF Chain, d
    <3>. QED  BY <3>3, <3>4
  <2>. QED  BY <2>1, <2>2
<1>. HIDE DEF Leads
<1>i. \A form \in Form : u[form] = {end \in Form : Leads(form, end)}  OBVIOUS
<1>3. ASSUME NEW form \in Form, ~Bare(form)
      PROVE  u[form] = UNION {u[next] : next \in Ways(form)}
  <2>1. Ways(form) \subseteq Form  BY WaysType, <1>3
  <2>. HIDE DEF u
  <2>. QED  BY <1>2, <1>3, <1>i, <2>1
<1>4. ASSUME NEW form \in Form  PROVE u[form] = Body(u, form)
  <2>1. CASE Bare(form)  BY <1>1, <2>1
  <2>2. CASE ~Bare(form)
    <3>1. {u[next] : next \in Ways(form)} = {u[rhs \o Tail(form)] : rhs \in Production(Head(form))}
      BY DEF Ways
    <3>. QED  BY <1>3, <2>2, <3>1
  <2>. QED  BY <2>1, <2>2
<1>5. u = [form \in Form |-> Body(u, form)]  BY <1>4
<1>6. Unfold = CHOOSE f : f = [form \in Form |-> Body(f, form)]  BY DEF Unfold
<1>. HIDE DEF u, Body
<1>7. Unfold = [form \in Form |-> Body(Unfold, form)]  BY <1>5, <1>6
<1>8. \A form \in Form : Unfold[form] = Body(Unfold, form)  BY <1>7
<1>9. ASSUME NEW form \in Form
      PROVE  {Unfold[next] : next \in Ways(form)}
               = {Unfold[rhs \o Tail(form)] : rhs \in Production(Head(form))}
  BY DEF Ways
<1>10. ASSUME NEW form \in Form
       PROVE  Unfold[form] = IF Bare(form) THEN {form} ELSE UNION {Unfold[next] : next \in Ways(form)}
  <2>1. Unfold[form]
          = IF Bare(form) THEN {form}
            ELSE UNION {Unfold[rhs \o Tail(form)] : rhs \in Production(Head(form))}
    BY <1>8 DEF Body
  <2>. QED  BY <1>9, <2>1, Zenon
<1>. QED  BY <1>10

LEMMA UnfoldBare == \A form \in Form : Bare(form) => Unfold[form] = {form}
BY Unfolding

LEMMA UnfoldWays ==
  \A form \in Form : \A next \in Ways(form) : ~Bare(form) => Unfold[next] \subseteq Unfold[form]
BY Unfolding

LEMMA TokensAreBare == Token \cap Nonterminal = {}
BY DEF Token, Nonterminal, BasicType, Relop, Sign

\* A symbol put before a form.
LEMMA Before ==
  ASSUME NEW S, NEW x \in S, NEW w \in Seq(S)
  PROVE  /\ <<x>> \o w \in Seq(S) /\ <<x>> \o w # <<>>
         /\ Head(<<x>> \o w) = x /\ Tail(<<x>> \o w) = w
         /\ Len(<<x>> \o w) = Len(w) + 1 /\ (<<x>> \o w)[1] = x
<1>1. /\ <<x>> \o w \in Seq(S) /\ Len(<<x>> \o w) = Len(w) + 1
      /\ \A i \in 1..Len(w) : (<<x>> \o w)[i + 1] = w[i]
      /\ (<<x>> \o w)[1] = x
  OBVIOUS
<1>2. <<x>> \o w # <<>> /\ Head(<<x>> \o w) = x  BY <1>1
<1>3. Tail(<<x>> \o w) = w
  <2>. DEFINE t == Tail(<<x>> \o w)
  <2>1. t \in Seq(S) /\ Len(t) = Len(w)  BY <1>1, <1>2
  <2>2. \A i \in 1..Len(w) : t[i] = w[i]  BY <1>1, <1>2
  <2>. QED  BY <2>1, <2>2, SeqEqual
<1>. QED  BY <1>1, <1>2, <1>3

\* Every continuation of after is one of before, whatever follows them.
Yields(before, after) ==
  \A w \in Form : Unfold[after \o w] \subseteq Unfold[before \o w]

LEMMA YieldsRule ==
  ASSUME NEW n \in Nonterminal, NEW rhs \in Production(n)  PROVE Yields(<<n>>, rhs)
<1>. SUFFICES ASSUME NEW w \in Form  PROVE Unfold[rhs \o w] \subseteq Unfold[<<n>> \o w]
  BY DEF Yields
<1>1. n \in Symbol  BY DEF Symbol
<1>2. /\ <<n>> \o w \in Form /\ <<n>> \o w # <<>>
      /\ Head(<<n>> \o w) = n /\ Tail(<<n>> \o w) = w
  BY <1>1, Before DEF Form
<1>3. ~Bare(<<n>> \o w) /\ rhs \o w \in Ways(<<n>> \o w)  BY <1>2 DEF Bare, Ways
<1>. QED  BY <1>2, <1>3, UnfoldWays

LEMMA YieldsTwice ==
  ASSUME NEW a, NEW b, NEW c, Yields(a, b), Yields(b, c)  PROVE Yields(a, c)
BY DEF Yields

LEMMA YieldsBefore ==
  ASSUME NEW a \in Form, NEW b \in Form, NEW c \in Form, Yields(a, b)
  PROVE  Yields(a \o c, b \o c)
<1>. SUFFICES ASSUME NEW w \in Form  PROVE Unfold[(b \o c) \o w] \subseteq Unfold[(a \o c) \o w]
  BY DEF Yields
<1>1. c \o w \in Form  BY DEF Form
<1>2. (b \o c) \o w = b \o (c \o w)  BY ConcatAssociative DEF Form
<1>3. (a \o c) \o w = a \o (c \o w)  BY ConcatAssociative DEF Form
<1>. QED  BY <1>1, <1>2, <1>3 DEF Yields

\* Every form can be continued: no nonterminal is without a text, and each
\* has one that begins with a token.
Grows(n) == \A w \in Form : Unfold[<<n>> \o w] # {}

LEMMA GrowsToken ==
  ASSUME NEW n \in Nonterminal, NEW rhs \in Production(n), rhs # <<>>, Head(rhs) \in Token
  PROVE  Grows(n)
<1>. SUFFICES ASSUME NEW w \in Form  PROVE Unfold[<<n>> \o w] # {}
  BY DEF Grows
<1>1. rhs \in Form  BY ProductionType
<1>2. rhs \o w \in Form /\ rhs \o w # <<>> /\ Head(rhs \o w) = Head(rhs)
  BY <1>1 DEF Form
<1>3. Bare(rhs \o w)  BY <1>2, TokensAreBare DEF Bare
<1>4. Unfold[rhs \o w] # {}  BY <1>2, <1>3, UnfoldBare
<1>. QED  BY <1>4, YieldsRule DEF Yields

LEMMA GrowsOther ==
  ASSUME NEW n \in Nonterminal, NEW rhs \in Production(n), rhs # <<>>, Grows(Head(rhs))
  PROVE  Grows(n)
<1>. SUFFICES ASSUME NEW w \in Form  PROVE Unfold[<<n>> \o w] # {}
  BY DEF Grows
<1>1. rhs \in Form  BY ProductionType
<1>2. rhs = <<Head(rhs)>> \o Tail(rhs) /\ Head(rhs) \in Symbol /\ Tail(rhs) \in Form
  BY <1>1 DEF Form
<1>3. <<Head(rhs)>> \in Form  BY <1>2 DEF Form
<1>4. rhs \o w = <<Head(rhs)>> \o (Tail(rhs) \o w) /\ Tail(rhs) \o w \in Form
  BY <1>2, <1>3, ConcatAssociative DEF Form
<1>5. Unfold[rhs \o w] # {}  BY <1>4 DEF Grows
<1>. QED  BY <1>5, YieldsRule DEF Yields

Starts(n, x) == \E rhs \in Production(n) : rhs # <<>> /\ Head(rhs) = x

LEMMA StartsWith ==
  \A n, a, b, c, d, e, f, g, h :
    \/ <<a>> \in Production(n) \/ <<a, b>> \in Production(n) \/ <<a, b, c>> \in Production(n)
    \/ <<a, b, c, d>> \in Production(n) \/ <<a, b, c, d, e>> \in Production(n)
    \/ <<a, b, c, d, e, f>> \in Production(n) \/ <<a, b, c, d, e, f, g>> \in Production(n)
    \/ <<a, b, c, d, e, f, g, h>> \in Production(n)
    => Starts(n, a)
BY DEF Starts

LEMMA AllGrow == \A n \in Nonterminal : Grows(n)
<1>1. \A n \in Nonterminal, x \in Token : Starts(n, x) => Grows(n)  BY GrowsToken DEF Starts
<1>2. \A n \in Nonterminal : \A x : Starts(n, x) /\ Grows(x) => Grows(n)  BY GrowsOther DEF Starts
<1>t. /\ "KW_CONST" \in Token /\ "SS_COMMA" \in Token /\ "MC_ID" \in Token
      /\ "MC_CH" \in Token /\ "SS_PLUS" \in Token /\ "KW_VAR" \in Token
      /\ "KW_ARRAY" \in Token /\ "KW_INTEGER" \in Token /\ "KW_PROCEDURE" \in Token
      /\ "KW_FUNCTION" \in Token /\ "SS_SEMI" \in Token /\ "KW_BEGIN" \in Token
      /\ "KW_IF" \in Token /\ "KW_ELSE" \in Token /\ "KW_REPEAT" \in Token
      /\ "KW_FOR" \in Token /\ "KW_TO" \in Token /\ "KW_READ" \in Token
      /\ "KW_WRITE" \in Token /\ "MC_STR" \in Token /\ "SS_STAR" \in Token
      /\ "SS_EQU" \in Token
  BY DEF Token, BasicType, Relop, Sign
<1>3. /\ <<"KW_CONST", "constdef", "{,constdef}", "SS_SEMI">> \in Production("constdec")
      /\ <<"SS_COMMA", "constdef", "{,constdef}">> \in Production("{,constdef}")
      /\ <<"MC_ID", "SS_EQU", "const">> \in Production("constdef")
      /\ <<"MC_CH">> \in Production("const")
      /\ <<"SS_PLUS">> \in Production("[+|-]")
      /\ <<"KW_VAR", "vardef", "SS_SEMI", "{vardef;}">> \in Production("vardec")
  BY DEF Production, Optional
<1>4. /\ Starts("constdec", "KW_CONST")
      /\ Starts("{,constdef}", "SS_COMMA")
      /\ Starts("constdef", "MC_ID")
      /\ Starts("const", "MC_CH")
      /\ Starts("[+|-]", "SS_PLUS")
      /\ Starts("vardec", "KW_VAR")
  BY <1>3, StartsWith
<1>5. /\ Grows("constdec")
      /\ Grows("{,constdef}")
      /\ Grows("constdef")
      /\ Grows("const")
      /\ Grows("[+|-]")
      /\ Grows("vardec")
  BY <1>1, <1>t, <1>4 DEF Nonterminal
<1>6. /\ <<"MC_ID", "{,ident}", "SS_COLON", "type">> \in Production("vardef")
      /\ <<"SS_COMMA", "MC_ID", "{,ident}">> \in Production("{,ident}")
      /\ <<"KW_ARRAY", "SS_LBRA", "MC_UNS", "SS_RBRA", "KW_OF",
           "basictype">> \in Production("type")
      /\ <<"KW_INTEGER">> \in Production("basictype")
      /\ <<"KW_PROCEDURE", "MC_ID", "SS_LPAR", "[paralist]", "SS_RPAR",
           "SS_SEMI">> \in Production("prochead")
      /\ <<"KW_FUNCTION", "MC_ID", "SS_LPAR", "[paralist]", "SS_RPAR", "SS_COLON", "basictype",
           "SS_SEMI">> \in Production("funhead")
  BY DEF Production, Optional
<1>7. /\ Starts("vardef", "MC_ID")
      /\ Starts("{,ident}", "SS_COMMA")
      /\ Starts("type", "KW_ARRAY")
      /\ Starts("basictype", "KW_INTEGER")
      /\ Starts("prochead", "KW_PROCEDURE")
      /\ Starts("funhead", "KW_FUNCTION")
  BY <1>6, StartsWith
<1>8. /\ Grows("vardef")
      /\ Grows("{,ident}")
      /\ Grows("type")
      /\ Grows("basictype")
      /\ Grows("prochead")
      /\ Grows("funhead")
  BY <1>1, <1>t, <1>7 DEF Nonterminal
<1>9. /\ <<"SS_SEMI", "paradef", "{;paradef}">> \in Production("{;paradef}")
      /\ <<"MC_ID", "{,ident}", "SS_COLON", "basictype">> \in Production("paradef")
      /\ <<"KW_BEGIN", "statement", "{;statement}", "KW_END">> \in Production("compstmt")
      /\ <<"SS_SEMI", "statement", "{;statement}">> \in Production("{;statement}")
      /\ <<"MC_ID", "SS_ASGN", "expression">> \in Production("assignstmt")
      /\ <<"KW_IF", "condition", "KW_THEN", "statement",
           "[ELSE statement]">> \in Production("ifstmt")
  BY DEF Production, Optional
<1>10. /\ Starts("{;paradef}", "SS_SEMI")
      /\ Starts("paradef", "MC_ID")
      /\ Starts("compstmt", "KW_BEGIN")
      /\ Starts("{;statement}", "SS_SEMI")
      /\ Starts("assignstmt", "MC_ID")
      /\ Starts("ifstmt", "KW_IF")
  BY <1>9, StartsWith
<1>11. /\ Grows("{;paradef}")
      /\ Grows("paradef")
      /\ Grows("compstmt")
      /\ Grows("{;statement}")
      /\ Grows("assignstmt")
      /\ Grows("ifstmt")
  BY <1>1, <1>t, <1>10 DEF Nonterminal
<1>12. /\ <<"KW_ELSE", "statement">> \in Production("[ELSE statement]")
      /\ <<"KW_REPEAT", "statement", "KW_UNTIL", "condition">> \in Production("repeatstmt")
      /\ <<"KW_FOR", "MC_ID", "SS_ASGN", "expression", "to", "expression", "KW_DO",
           "statement">> \in Production("forstmt")
      /\ <<"KW_TO">> \in Production("to")
      /\ <<"MC_ID", "SS_LPAR", "[arglist]", "SS_RPAR">> \in Production("pcallstmt")
      /\ <<"KW_READ", "SS_LPAR", "MC_ID", "{,ident}", "SS_RPAR">> \in Production("readstmt")
  BY DEF Production, Optional
<1>13. /\ Starts("[ELSE statement]", "KW_ELSE")
      /\ Starts("repeatstmt", "KW_REPEAT")
      /\ Starts("forstmt", "KW_FOR")
      /\ Starts("to", "KW_TO")
      /\ Starts("pcallstmt", "MC_ID")
      /\ Starts("readstmt", "KW_READ")
  BY <1>12, StartsWith
<1>14. /\ Grows("[ELSE statement]")
      /\ Grows("repeatstmt")
      /\ Grows("forstmt")
      /\ Grows("to")
      /\ Grows("pcallstmt")
      /\ Grows("readstmt")
  BY <1>1, <1>t, <1>13 DEF Nonterminal
<1>15. /\ <<"KW_WRITE", "SS_LPAR", "written", "SS_RPAR">> \in Production("writestmt")
      /\ <<"MC_STR", "[,expression]">> \in Production("written")
      /\ <<"SS_COMMA", "expression">> \in Production("[,expression]")
      /\ <<"SS_COMMA", "expression", "{,expression}">> \in Production("{,expression}")
      /\ <<"SS_PLUS", "term", "{addop term}">> \in Production("{addop term}")
      /\ <<"SS_STAR", "factor", "{multop factor}">> \in Production("{multop factor}")
  BY DEF Production, Optional
<1>16. /\ Starts("writestmt", "KW_WRITE")
      /\ Starts("written", "MC_STR")
      /\ Starts("[,expression]", "SS_COMMA")
      /\ Starts("{,expression}", "SS_COMMA")
      /\ Starts("{addop term}", "SS_PLUS")
      /\ Starts("{multop factor}", "SS_STAR")
  BY <1>15, StartsWith
<1>17. /\ Grows("writestmt")
      /\ Grows("written")
      /\ Grows("[,expression]")
      /\ Grows("{,expression}")
      /\ Grows("{addop term}")
      /\ Grows("{multop factor}")
  BY <1>1, <1>t, <1>16 DEF Nonterminal
<1>18. /\ <<"MC_ID">> \in Production("factor")
      /\ <<"MC_ID", "SS_LPAR", "[arglist]", "SS_RPAR">> \in Production("fcallstmt")
      /\ <<"SS_EQU">> \in Production("relop")
  BY DEF Production, Optional
<1>19. /\ Starts("factor", "MC_ID")
      /\ Starts("fcallstmt", "MC_ID")
      /\ Starts("relop", "SS_EQU")
  BY <1>18, StartsWith
<1>20. /\ Grows("factor")
      /\ Grows("fcallstmt")
      /\ Grows("relop")
  BY <1>1, <1>t, <1>19 DEF Nonterminal
<1>21. /\ <<"constdec">> \in Production("[constdec]")
      /\ <<"vardec">> \in Production("[vardec]")
      /\ <<"vardef", "SS_SEMI", "{vardef;}">> \in Production("{vardef;}")
      /\ <<"prochead", "block">> \in Production("procdef")
      /\ <<"funhead", "block">> \in Production("fundef")
      /\ <<"paradef", "{;paradef}">> \in Production("paralist")
  BY DEF Production, Optional
<1>22. /\ Starts("[constdec]", "constdec")
      /\ Starts("[vardec]", "vardec")
      /\ Starts("{vardef;}", "vardef")
      /\ Starts("procdef", "prochead")
      /\ Starts("fundef", "funhead")
      /\ Starts("paralist", "paradef")
  BY <1>21, StartsWith
<1>23. /\ Grows("[constdec]")
      /\ Grows("[vardec]")
      /\ Grows("{vardef;}")
      /\ Grows("procdef")
      /\ Grows("fundef")
      /\ Grows("paralist")
  BY <1>2, <1>22, <1>5, <1>8, <1>11 DEF Nonterminal
<1>24. /\ <<"compstmt">> \in Production("[compstmt]")
      /\ <<"assignstmt">> \in Production("statement")
      /\ <<"[+|-]", "term", "{addop term}">> \in Production("expression")
      /\ <<"factor", "{multop factor}">> \in Production("term")
  BY DEF Production, Optional
<1>25. /\ Starts("[compstmt]", "compstmt")
      /\ Starts("statement", "assignstmt")
      /\ Starts("expression", "[+|-]")
      /\ Starts("term", "factor")
  BY <1>24, StartsWith
<1>26. /\ Grows("[compstmt]")
      /\ Grows("statement")
      /\ Grows("expression")
      /\ Grows("term")
  BY <1>2, <1>25, <1>5, <1>11, <1>20 DEF Nonterminal
<1>27. /\ <<"[constdec]", "[vardec]", "[pfdeclist]", "[compstmt]">> \in Production("block")
      /\ <<"procdef", "SS_SEMI", "{procdef;}">> \in Production("procdec")
      /\ <<"procdef", "SS_SEMI", "{procdef;}">> \in Production("{procdef;}")
      /\ <<"fundef", "SS_SEMI", "{fundef;}">> \in Production("fundec")
      /\ <<"fundef", "SS_SEMI", "{fundef;}">> \in Production("{fundef;}")
      /\ <<"paralist">> \in Production("[paralist]")
  BY DEF Production, Optional
<1>28. /\ Starts("block", "[constdec]")
      /\ Starts("procdec", "procdef")
      /\ Starts("{procdef;}", "procdef")
      /\ Starts("fundec", "fundef")
      /\ Starts("{fundef;}", "fundef")
      /\ Starts("[paralist]", "paralist")
  BY <1>27, StartsWith
<1>29. /\ Grows("block")
      /\ Grows("procdec")
      /\ Grows("{procdef;}")
      /\ Grows("fundec")
      /\ Grows("{fundef;}")
      /\ Grows("[paralist]")
  BY <1>2, <1>28, <1>23 DEF Nonterminal
<1>30. /\ <<"expression", "{,expression}">> \in Production("arglist")
      /\ <<"expression", "relop", "expression">> \in Production("condition")
  BY DEF Production, Optional
<1>31. /\ Starts("arglist", "expression")
      /\ Starts("condition", "expression")
  BY <1>30, StartsWith
<1>32. /\ Grows("arglist")
      /\ Grows("condition")
  BY <1>2, <1>31, <1>26 DEF Nonterminal
<1>33. /\ <<"block", "SS_DOT">> \in Production("pgm")
      /\ <<"procdec", "[pfdeclist]">> \in Production("[pfdeclist]")
      /\ <<"arglist">> \in Production("[arglist]")
  BY DEF Production, Optional
<1>34. /\ Starts("pgm", "block")
      /\ Starts("[pfdeclist]", "procdec")
      /\ Starts("[arglist]", "arglist")
  BY <1>33, StartsWith
<1>35. /\ Grows("pgm")
      /\ Grows("[pfdeclist]")
      /\ Grows("[arglist]")
  BY <1>2, <1>34, <1>29, <1>32 DEF Nonterminal
<1>. QED  BY <1>5, <1>8, <1>11, <1>14, <1>17, <1>20, <1>23, <1>26, <1>29, <1>32,
     <1>35 DEF Nonterminal

LEMMA SomeForm == \A form \in Form : Unfold[form] # {}
<1>. SUFFICES ASSUME NEW form \in Form, ~Bare(form)  PROVE Unfold[form] # {}
  BY UnfoldBare
<1>1. /\ form = <<Head(form)>> \o Tail(form)
      /\ Head(form) \in Nonterminal /\ Tail(form) \in Form
  BY DEF Bare, Form
<1>. QED  BY <1>1, AllGrow DEF Grows

-----------------------------------------------------------------------------
(* What the stack stands for                                               *)

\* The codes that stand for a symbol, those that go on behind a name that
\* has been matched, and those that are there only once the text is wrong.
Calling ==
  {"parse_pgm", "parse_block", "block_const", "block_var", "block_pf", "block_comp",
   "parse_const_dec", "const_dec_more", "parse_const_def", "const_value",
   "parse_var_dec", "var_dec_more", "parse_var_def", "var_type", "array_length",
   "more_idents", "basictype", "parse_pf_dec_list", "parse_proc_dec", "proc_dec_more",
   "parse_fun_dec", "fun_dec_more", "parse_proc_def", "parse_fun_def",
   "parse_proc_head", "parse_fun_head", "head_paras", "parse_para_list", "para_list_more",
   "parse_para_def", "parse_stmt", "parse_if_stmt", "if_else", "parse_repe_stmt",
   "parse_for_stmt", "for_to", "parse_comp_stmt", "comp_more", "parse_read_stmt",
   "parse_write_stmt", "written", "written_more", "arguments", "parse_arg_list",
   "arg_list_more", "parse_expr", "expr_more", "parse_term", "term_more",
   "parse_factor", "parse_cond", "relop", "READCURR"}
Looking == {"ident_stmt", "ident_factor"}
Naming == Looking \cup {"parse_assign_stmt", "parse_call", "READPREV"}
Erring == {"rescue", "nameless_value", "null_idp", "unlikely"}
Plain == Token \cup Calling

\* The symbol that a plain element of the stack reads.
Means(f) ==
  CASE f = "parse_pgm" -> "pgm"
    [] f = "parse_block" -> "block"
    [] f = "block_const" -> "[constdec]"
    [] f = "block_var" -> "[vardec]"
    [] f \in {"block_pf", "parse_pf_dec_list"} -> "[pfdeclist]"
    [] f = "block_comp" -> "[compstmt]"
    [] f = "parse_const_dec" -> "constdec"
    [] f = "const_dec_more" -> "{,constdef}"
    [] f = "parse_const_def" -> "constdef"
    [] f = "const_value" -> "const"
    [] f = "parse_var_dec" -> "vardec"
    [] f = "var_dec_more" -> "{vardef;}"
    [] f = "parse_var_def" -> "vardef"
    [] f = "var_type" -> "type"
    [] f = "array_length" -> "MC_UNS"
    [] f = "more_idents" -> "{,ident}"
    [] f = "parse_proc_dec" -> "procdec"
    [] f = "proc_dec_more" -> "{procdef;}"
    [] f = "parse_fun_dec" -> "fundec"
    [] f = "fun_dec_more" -> "{fundef;}"
    [] f = "parse_proc_def" -> "procdef"
    [] f = "parse_fun_def" -> "fundef"
    [] f = "parse_proc_head" -> "prochead"
    [] f = "parse_fun_head" -> "funhead"
    [] f = "head_paras" -> "[paralist]"
    [] f = "parse_para_list" -> "paralist"
    [] f = "para_list_more" -> "{;paradef}"
    [] f = "parse_para_def" -> "paradef"
    [] f = "parse_stmt" -> "statement"
    [] f = "parse_if_stmt" -> "ifstmt"
    [] f = "if_else" -> "[ELSE statement]"
    [] f = "parse_repe_stmt" -> "repeatstmt"
    [] f = "parse_for_stmt" -> "forstmt"
    [] f = "for_to" -> "to"
    [] f = "parse_comp_stmt" -> "compstmt"
    [] f = "comp_more" -> "{;statement}"
    [] f = "parse_read_stmt" -> "readstmt"
    [] f = "parse_write_stmt" -> "writestmt"
    [] f = "written_more" -> "[,expression]"
    [] f = "arguments" -> "[arglist]"
    [] f = "parse_arg_list" -> "arglist"
    [] f = "arg_list_more" -> "{,expression}"
    [] f = "parse_expr" -> "expression"
    [] f = "expr_more" -> "{addop term}"
    [] f = "parse_term" -> "term"
    [] f = "term_more" -> "{multop factor}"
    [] f = "parse_factor" -> "factor"
    [] f = "parse_cond" -> "condition"
    [] f = "READCURR" -> "MC_ID"
    [] OTHER -> f

\* What code that goes on behind a name may read.
Assigning ==
  {<<"SS_ASGN", "expression">>,
   <<"SS_LBRA", "expression", "SS_RBRA", "SS_ASGN", "expression">>}
Called == <<"SS_LPAR", "[arglist]", "SS_RPAR">>
Indexed == <<"SS_LBRA", "expression", "SS_RBRA">>
Rest(f) ==
  CASE f = "READPREV" -> {<<>>}
    [] f = "parse_call" -> {Called}
    [] f = "parse_assign_stmt" -> Assigning
    [] f = "ident_stmt" -> Assigning \cup {Called}
    [] f = "ident_factor" -> {<<>>, Indexed, Called}

Image(s) == [i \in 1..Len(s) |-> Means(s[i])]

\* The forms a stack reads: the tokens it can still match, in order.
Reading(s) ==
  IF s # <<>> /\ Head(s) \in Naming THEN {r \o Image(Tail(s)) : r \in Rest(Head(s))}
  ELSE IF s # <<>> /\ Tail(s) # <<>> /\ Head(Tail(s)) \in Looking
       THEN {<<"MC_ID">> \o (r \o Image(Tail(Tail(s)))) : r \in Rest(Head(Tail(s)))}
  ELSE {Image(s)}

LEMMA TokenMeans ==
  /\ Means("KW_INTEGER") = "KW_INTEGER" /\ Means("KW_UINTEGER") = "KW_UINTEGER"
  /\ Means("KW_CHAR") = "KW_CHAR" /\ Means("SS_EQU") = "SS_EQU"
  /\ Means("SS_LST") = "SS_LST" /\ Means("SS_LEQ") = "SS_LEQ"
  /\ Means("SS_GTT") = "SS_GTT" /\ Means("SS_GEQ") = "SS_GEQ"
  /\ Means("SS_NEQ") = "SS_NEQ" /\ Means("SS_PLUS") = "SS_PLUS"
  /\ Means("SS_MINUS") = "SS_MINUS" /\ Means("ENDFILE") = "ENDFILE"
  /\ Means("ERROR") = "ERROR" /\ Means("KW_ARRAY") = "KW_ARRAY"
  /\ Means("KW_BEGIN") = "KW_BEGIN" /\ Means("KW_CONST") = "KW_CONST"
  /\ Means("KW_DO") = "KW_DO" /\ Means("KW_DOWNTO") = "KW_DOWNTO"
  /\ Means("KW_ELSE") = "KW_ELSE" /\ Means("KW_END") = "KW_END"
  /\ Means("KW_FOR") = "KW_FOR" /\ Means("KW_FUNCTION") = "KW_FUNCTION"
  /\ Means("KW_IF") = "KW_IF" /\ Means("KW_OF") = "KW_OF"
  /\ Means("KW_PROCEDURE") = "KW_PROCEDURE" /\ Means("KW_READ") = "KW_READ"
  /\ Means("KW_REPEAT") = "KW_REPEAT" /\ Means("KW_THEN") = "KW_THEN"
  /\ Means("KW_TO") = "KW_TO" /\ Means("KW_UNTIL") = "KW_UNTIL"
  /\ Means("KW_VAR") = "KW_VAR" /\ Means("KW_WRITE") = "KW_WRITE"
  /\ Means("MC_ID") = "MC_ID" /\ Means("MC_CH") = "MC_CH"
  /\ Means("MC_UNS") = "MC_UNS" /\ Means("MC_STR") = "MC_STR"
  /\ Means("SS_STAR") = "SS_STAR" /\ Means("SS_OVER") = "SS_OVER"
  /\ Means("SS_COMMA") = "SS_COMMA" /\ Means("SS_SEMI") = "SS_SEMI"
  /\ Means("SS_ASGN") = "SS_ASGN" /\ Means("SS_LPAR") = "SS_LPAR"
  /\ Means("SS_RPAR") = "SS_RPAR" /\ Means("SS_LBRA") = "SS_LBRA"
  /\ Means("SS_RBRA") = "SS_RBRA" /\ Means("SS_COLON") = "SS_COLON"
  /\ Means("SS_DOT") = "SS_DOT"
BY DEF Means

LEMMA MeansToken == \A t \in Token : Means(t) = t
BY TokenMeans DEF Token, BasicType, Relop, Sign

LEMMA MeansAre ==
  /\ Means("parse_pgm") = "pgm" /\ Means("parse_block") = "block"
  /\ Means("block_const") = "[constdec]" /\ Means("block_var") = "[vardec]"
  /\ Means("block_pf") = "[pfdeclist]" /\ Means("parse_pf_dec_list") = "[pfdeclist]"
  /\ Means("block_comp") = "[compstmt]" /\ Means("parse_const_dec") = "constdec"
  /\ Means("const_dec_more") = "{,constdef}" /\ Means("parse_const_def") = "constdef"
  /\ Means("const_value") = "const" /\ Means("parse_var_dec") = "vardec"
  /\ Means("var_dec_more") = "{vardef;}" /\ Means("parse_var_def") = "vardef"
  /\ Means("var_type") = "type" /\ Means("array_length") = "MC_UNS"
  /\ Means("more_idents") = "{,ident}" /\ Means("parse_proc_dec") = "procdec"
  /\ Means("proc_dec_more") = "{procdef;}" /\ Means("parse_fun_dec") = "fundec"
  /\ Means("fun_dec_more") = "{fundef;}" /\ Means("parse_proc_def") = "procdef"
  /\ Means("parse_fun_def") = "fundef" /\ Means("parse_proc_head") = "prochead"
  /\ Means("parse_fun_head") = "funhead" /\ Means("head_paras") = "[paralist]"
  /\ Means("parse_para_list") = "paralist" /\ Means("para_list_more") = "{;paradef}"
  /\ Means("parse_para_def") = "paradef" /\ Means("parse_stmt") = "statement"
  /\ Means("parse_if_stmt") = "ifstmt" /\ Means("if_else") = "[ELSE statement]"
  /\ Means("parse_repe_stmt") = "repeatstmt" /\ Means("parse_for_stmt") = "forstmt"
  /\ Means("for_to") = "to" /\ Means("parse_comp_stmt") = "compstmt"
  /\ Means("comp_more") = "{;statement}" /\ Means("parse_read_stmt") = "readstmt"
  /\ Means("parse_write_stmt") = "writestmt" /\ Means("written_more") = "[,expression]"
  /\ Means("arguments") = "[arglist]" /\ Means("parse_arg_list") = "arglist"
  /\ Means("arg_list_more") = "{,expression}" /\ Means("parse_expr") = "expression"
  /\ Means("expr_more") = "{addop term}" /\ Means("parse_term") = "term"
  /\ Means("term_more") = "{multop factor}" /\ Means("parse_factor") = "factor"
  /\ Means("parse_cond") = "condition" /\ Means("READCURR") = "MC_ID"
  /\ Means("basictype") = "basictype" /\ Means("written") = "written"
  /\ Means("relop") = "relop"
BY DEF Means

LEMMA MeansType == \A f \in Plain : Means(f) \in Symbol
<1>1. /\ Means("parse_pgm") \in Symbol /\ Means("parse_block") \in Symbol
      /\ Means("block_const") \in Symbol /\ Means("block_var") \in Symbol
      /\ Means("block_pf") \in Symbol /\ Means("parse_pf_dec_list") \in Symbol
      /\ Means("block_comp") \in Symbol /\ Means("parse_const_dec") \in Symbol
  BY MeansAre DEF Symbol, Nonterminal, Token
<1>2. /\ Means("const_dec_more") \in Symbol /\ Means("parse_const_def") \in Symbol
      /\ Means("const_value") \in Symbol /\ Means("parse_var_dec") \in Symbol
      /\ Means("var_dec_more") \in Symbol /\ Means("parse_var_def") \in Symbol
      /\ Means("var_type") \in Symbol /\ Means("array_length") \in Symbol
  BY MeansAre DEF Symbol, Nonterminal, Token
<1>3. /\ Means("more_idents") \in Symbol /\ Means("parse_proc_dec") \in Symbol
      /\ Means("proc_dec_more") \in Symbol /\ Means("parse_fun_dec") \in Symbol
      /\ Means("fun_dec_more") \in Symbol /\ Means("parse_proc_def") \in Symbol
      /\ Means("parse_fun_def") \in Symbol /\ Means("parse_proc_head") \in Symbol
  BY MeansAre DEF Symbol, Nonterminal, Token
<1>4. /\ Means("parse_fun_head") \in Symbol /\ Means("head_paras") \in Symbol
      /\ Means("parse_para_list") \in Symbol /\ Means("para_list_more") \in Symbol
      /\ Means("parse_para_def") \in Symbol /\ Means("parse_stmt") \in Symbol
      /\ Means("parse_if_stmt") \in Symbol /\ Means("if_else") \in Symbol
  BY MeansAre DEF Symbol, Nonterminal, Token
<1>5. /\ Means("parse_repe_stmt") \in Symbol /\ Means("parse_for_stmt") \in Symbol
      /\ Means("for_to") \in Symbol /\ Means("parse_comp_stmt") \in Symbol
      /\ Means("comp_more") \in Symbol /\ Means("parse_read_stmt") \in Symbol
      /\ Means("parse_write_stmt") \in Symbol /\ Means("written_more") \in Symbol
  BY MeansAre DEF Symbol, Nonterminal, Token
<1>6. /\ Means("arguments") \in Symbol /\ Means("parse_arg_list") \in Symbol
      /\ Means("arg_list_more") \in Symbol /\ Means("parse_expr") \in Symbol
      /\ Means("expr_more") \in Symbol /\ Means("parse_term") \in Symbol
      /\ Means("term_more") \in Symbol /\ Means("parse_factor") \in Symbol
  BY MeansAre DEF Symbol, Nonterminal, Token
<1>7. /\ Means("parse_cond") \in Symbol /\ Means("READCURR") \in Symbol
      /\ Means("basictype") \in Symbol /\ Means("written") \in Symbol
      /\ Means("relop") \in Symbol
  BY MeansAre DEF Symbol, Nonterminal, Token
<1>8. \A f \in Calling : Means(f) \in Symbol  BY <1>1, <1>2, <1>3, <1>4, <1>5, <1>6,
      <1>7 DEF Calling
<1>. QED  BY <1>8, MeansToken DEF Plain, Symbol

LEMMA RestAre ==
  /\ Rest("READPREV") = {<<>>} /\ Rest("parse_call") = {Called}
  /\ Rest("parse_assign_stmt") = Assigning /\ Rest("ident_stmt") = Assigning \cup {Called}
  /\ Rest("ident_factor") = {<<>>, Indexed, Called}
BY DEF Rest

LEMMA RestType == \A f \in Naming : Rest(f) \subseteq Form /\ Rest(f) # {}
<1>1. <<>> \in Form /\ Called \in Form /\ Indexed \in Form /\ Assigning \subseteq Form
  BY DEF Assigning, Called, Indexed, Form, Symbol, Token, Nonterminal
<1>2. Assigning # {}  BY DEF Assigning
<1>3. /\ Rest("READPREV") \subseteq Form /\ Rest("READPREV") # {}
      /\ Rest("parse_call") \subseteq Form /\ Rest("parse_call") # {}
      /\ Rest("parse_assign_stmt") \subseteq Form /\ Rest("parse_assign_stmt") # {}
      /\ Rest("ident_stmt") \subseteq Form /\ Rest("ident_stmt") # {}
      /\ Rest("ident_factor") \subseteq Form /\ Rest("ident_factor") # {}
  BY <1>1, <1>2, RestAre
<1>. QED  BY <1>3 DEF Naming, Looking

LEMMA ApartCodes ==
  /\ Plain \cap Naming = {} /\ Plain \cap Erring = {} /\ Naming \cap Erring = {}
  /\ Token \cap Calling = {}
BY DEF Plain, Naming, Looking, Erring, Calling, Token, BasicType, Relop, Sign

LEMMA ImageType == \A s \in Seq(Plain) : Image(s) \in Form /\ Len(Image(s)) = Len(s)
BY MeansType DEF Image, Form

LEMMA ImageConcat ==
  \A s, t \in Seq(Plain) : Image(s \o t) = Image(s) \o Image(t)
BY DEF Image

LEMMA ImageTuple ==
  /\ Image(<<>>) = <<>>
  /\ \A a :
       Image(<<a>>) = <<Means(a)>>
  /\ \A a, b :
       Image(<<a, b>>) = <<Means(a), Means(b)>>
  /\ \A a, b, c :
       Image(<<a, b, c>>) = <<Means(a), Means(b), Means(c)>>
  /\ \A a, b, c, d :
       Image(<<a, b, c, d>>) = <<Means(a), Means(b), Means(c), Means(d)>>
  /\ \A a, b, c, d, e :
       Image(<<a, b, c, d, e>>) = <<Means(a), Means(b), Means(c), Means(d), Means(e)>>
  /\ \A a, b, c, d, e, g :
       Image(<<a, b, c, d, e, g>>) = <<Means(a), Means(b), Means(c), Means(d), Means(e),
                                       Means(g)>>
  /\ \A a, b, c, d, e, g, h :
       Image(<<a, b, c, d, e, g, h>>) = <<Means(a), Means(b), Means(c), Means(d), Means(e),
                                          Means(g), Means(h)>>
  /\ \A a, b, c, d, e, g, h, i :
       Image(<<a, b, c, d, e, g, h, i>>) = <<Means(a), Means(b), Means(c), Means(d), Means(e),
                                             Means(g), Means(h), Means(i)>>
BY DEF Image

LEMMA ReadPlain == \A s \in Seq(Plain) : Reading(s) = {Image(s)}
<1>. SUFFICES ASSUME NEW s \in Seq(Plain)  PROVE Reading(s) = {Image(s)}
  OBVIOUS
<1>1. ~(s # <<>> /\ Head(s) \in Naming)  BY ApartCodes
<1>2. s # <<>> => Tail(s) \in Seq(Plain)  OBVIOUS
<1>3. ~(s # <<>> /\ Tail(s) # <<>> /\ Head(Tail(s)) \in Looking)
  BY <1>2, ApartCodes DEF Naming
<1>. QED  BY <1>1, <1>3 DEF Reading

LEMMA ReadNaming ==
  ASSUME NEW f \in Naming, NEW t \in Seq(Plain)
  PROVE  Reading(<<f>> \o t) = {r \o Image(t) : r \in Rest(f)}
<1>. DEFINE S == Plain \cup Naming
<1>1. f \in S /\ t \in Seq(S)  OBVIOUS
<1>2. <<f>> \o t # <<>> /\ Head(<<f>> \o t) = f /\ Tail(<<f>> \o t) = t  BY <1>1, Before
<1>. QED  BY <1>2 DEF Reading

LEMMA ReadLooking ==
  ASSUME NEW f \in Looking, NEW t \in Seq(Plain)
  PROVE  Reading(<<"MC_ID">> \o (<<f>> \o t)) = {<<"MC_ID">> \o (r \o Image(t)) : r \in Rest(f)}
<1>. DEFINE S == Plain \cup Naming
            u == <<f>> \o t
            s == <<"MC_ID">> \o u
<1>1. f \in S /\ t \in Seq(S) /\ "MC_ID" \in S  BY DEF Naming, Plain, Token
<1>2. u \in Seq(S) /\ u # <<>> /\ Head(u) = f /\ Tail(u) = t  BY <1>1, Before
<1>. HIDE DEF u
<1>3. s # <<>> /\ Head(s) = "MC_ID" /\ Tail(s) = u  BY <1>1, <1>2, Before
<1>. HIDE DEF s
<1>4. "MC_ID" \notin Naming  BY DEF Naming, Looking
<1>5. Reading(s) = {<<"MC_ID">> \o (r \o Image(t)) : r \in Rest(f)}
  BY <1>2, <1>3, <1>4 DEF Reading
<1>. QED  BY <1>5 DEF s, u

-----------------------------------------------------------------------------
(* The invariant                                                           *)

ParserType ==
  /\ currtok \in Token
  /\ phase \in {"LEXICAL", "SEMANTIC", "EXIT", "CRASH"}
  /\ phase = "LEXICAL" => errnum \in {0, ERRTOK}

\* Nothing has been found wrong.
Right == errnum = 0 /\ \A i \in 1..Len(stack) : stack[i] \notin Erring

\* Code that goes on behind a name comes first, right behind the name, or
\* second with the name still to be matched.  An assignment that is begun
\* with any other token than := or [ is known to be wrong.
Later == Seq(Plain \cup Erring)
Shape ==
  \/ stack \in Later
  \/ /\ stack # <<>> /\ Head(stack) \in Naming /\ Tail(stack) \in Later
     /\ stack = <<Head(stack)>> \o Tail(stack)
     /\ prevtok = "MC_ID"
     /\ Right /\ Head(stack) = "parse_assign_stmt" => currtok \in {"SS_ASGN", "SS_LBRA"}
  \/ \E f \in Looking : \E rest \in Later : stack = <<"MC_ID">> \o (<<f>> \o rest)

\* As long as nothing is wrong, whatever the stack can still read continues
\* the text to a program.
Promise == Right => \A form \in Reading(stack) : Unfold[form] \subseteq live

Passed == phase = "SEMANTIC" => <<>> \in live

ParserInv == ParserType /\ Shape /\ Promise /\ Passed

\* What a step of a code works on.
LEMMA Opened ==
  ASSUME Shape, NEW f, f # "MC_ID", NEW body, Runs(f, body)
  PROVE  /\ Tail(stack) \in Later /\ stack = <<f>> \o Tail(stack)
         /\ f \in Plain \cup Erring \cup Naming
         /\ f \in Naming => prevtok = "MC_ID"
         /\ Right /\ f = "parse_assign_stmt" => currtok \in {"SS_ASGN", "SS_LBRA"}
<1>1. stack # <<>> /\ Head(stack) = f  BY DEF Runs, Running, Next1
<1>2. CASE stack \in Later
  <2>1. f \in Plain \cup Erring  BY <1>1, <1>2 DEF Later
  <2>2. Tail(stack) \in Later /\ stack = <<f>> \o Tail(stack)  BY <1>1, <1>2 DEF Later
  <2>3. "parse_assign_stmt" \in Naming  BY DEF Naming
  <2>. QED  BY <2>1, <2>2, <2>3, ApartCodes
<1>3. CASE /\ stack # <<>> /\ Head(stack) \in Naming /\ Tail(stack) \in Later
           /\ stack = <<Head(stack)>> \o Tail(stack)
           /\ prevtok = "MC_ID"
           /\ Right /\ Head(stack) = "parse_assign_stmt" => currtok \in {"SS_ASGN", "SS_LBRA"}
  BY <1>1, <1>3
<1>4. ASSUME NEW g \in Looking, NEW rest \in Later, stack = <<"MC_ID">> \o (<<g>> \o rest)
      PROVE  FALSE
  <2>. DEFINE S == Plain \cup Erring \cup Naming
              u == <<g>> \o rest
  <2>1. "MC_ID" \in S /\ g \in S /\ rest \in Seq(S)  BY DEF Plain, Token, Naming, Later
  <2>2. u \in Seq(S)  BY <2>1, Before
  <2>. HIDE DEF u
  <2>3. Head(<<"MC_ID">> \o u) = "MC_ID"  BY <2>1, <2>2, Before
  <2>. QED  BY <1>1, <1>4, <2>3 DEF u
<1>. QED  BY <1>2, <1>3, <1>4 DEF Shape

LEMMA Narrow ==
  ASSUME NEW S, NEW P, NEW t \in Seq(S), \A i \in 1..Len(t) : t[i] \in P
  PROVE  t \in Seq(P)
<1>1. t = [i \in 1..Len(t) |-> t[i]] /\ Len(t) \in Nat  OBVIOUS
<1>. QED  BY <1>1

LEMMA Remains ==
  ASSUME NEW S, NEW body \in Seq(S), NEW t \in Later,
         \A i \in 1..Len(body \o t) : (body \o t)[i] \notin Erring
  PROVE  t \in Seq(Plain)
<1>1. \A j \in 1..Len(t) : t[j] = (body \o t)[Len(body) + j] /\ Len(body) + j \in 1..Len(body \o t)
  BY DEF Later
<1>2. \A j \in 1..Len(t) : t[j] \in Plain  BY <1>1 DEF Later
<1>3. t = [j \in 1..Len(t) |-> t[j]] /\ Len(t) \in Nat  BY DEF Later
<1>. QED  BY <1>2, <1>3 DEF Later

\* A step that leaves the stack right found it right, and all behind the
\* code is plain.
LEMMA StillRight ==
  ASSUME Shape, NEW f \in Calling \cup Naming, NEW S, NEW body \in Seq(S), Runs(f, body), Right'
  PROVE  Right /\ Tail(stack) \in Seq(Plain)
<1>1. f # "MC_ID"  BY DEF Calling, Naming, Looking
<1>2. Tail(stack) \in Later /\ stack = <<f>> \o Tail(stack)  BY <1>1, Opened
<1>3. stack' = body \o Tail(stack) /\ errnum' = errnum  BY DEF Runs
<1>4. Tail(stack) \in Seq(Plain)  BY <1>2, <1>3, Remains DEF Right
<1>. DEFINE t == Tail(stack)
            C == Plain \cup Naming
<1>5. f \in C /\ t \in Seq(C)  BY <1>4 DEF Plain
<1>. HIDE DEF t
<1>6. \A i \in 1..Len(<<f>> \o t) : (<<f>> \o t)[i] \in C
  BY <1>5, Before, ElementOfSeq
<1>7. \A i \in 1..Len(stack) : stack[i] \in C  BY <1>2, <1>6 DEF t
<1>8. errnum = 0  BY <1>3 DEF Right
<1>. QED  BY <1>4, <1>7, <1>8, ApartCodes DEF Right

\* What the steps of the codes leave as it was.
LEMMA RunsKeeps ==
  ASSUME ParserInv, NEW f, NEW body, Runs(f, body)
  PROVE  ParserType' /\ Passed' /\ live' = live
<1>1. phase = "LEXICAL"  BY DEF Runs, Running
<1>2. UNCHANGED <<currtok, prevtok, errnum, phase, live>>  BY DEF Runs
<1>. QED  BY <1>1, <1>2 DEF ParserInv, ParserType, Passed

\* Plain code that is followed by plain code.
LEMMA PlainRun ==
  ASSUME ParserInv, NEW f \in Calling, NEW body \in Seq(Plain), Runs(f, body),
         Yields(<<Means(f)>>, Image(body))
  PROVE  ParserInv'
<1>. DEFINE t == Tail(stack)
<1>1. f # "MC_ID"  BY DEF Calling
<1>2. t \in Later /\ stack = <<f>> \o t /\ stack' = body \o t
  BY <1>1, Opened DEF ParserInv, Runs
<1>3. Shape'
  <2>1. body \in Later  BY DEF Later
  <2>2. stack' \in Later  BY <1>2, <2>1 DEF Later
  <2>. QED  BY <2>2 DEF Shape, Later
<1>4. ASSUME Right', NEW form \in Reading(stack')  PROVE Unfold[form] \subseteq live
  <2>1. Right /\ t \in Seq(Plain)  BY <1>4, StillRight DEF ParserInv
  <2>. HIDE DEF t
  <2>2. <<f>> \in Seq(Plain)  BY DEF Plain
  <2>3. stack \in Seq(Plain) /\ Image(stack) = Image(<<f>>) \o Image(t)
    <3>1. <<f>> \o t \in Seq(Plain)  BY <2>1, <2>2
    <3>2. Image(<<f>> \o t) = Image(<<f>>) \o Image(t)  BY <2>1, <2>2, ImageConcat
    <3>. QED  BY <1>2, <3>1, <3>2
  <2>4. Unfold[<<Means(f)>> \o Image(t)] \subseteq live
    BY <2>1, <2>3, ReadPlain, ImageTuple DEF ParserInv, Promise
  <2>5. stack' \in Seq(Plain) /\ Image(stack') = Image(body) \o Image(t)
    BY <1>2, <2>1, ImageConcat
  <2>6. form = Image(body) \o Image(t)  BY <1>4, <2>5, ReadPlain
  <2>7. Image(t) \in Form  BY <2>1, ImageType
  <2>. QED  BY <2>4, <2>6, <2>7 DEF Yields
<1>. QED  BY <1>3, <1>4, RunsKeeps DEF ParserInv, Promise

\* Code that finds the text wrong.
LEMMA ErringRun ==
  ASSUME ParserInv, NEW f, f # "MC_ID", NEW body \in Later, Runs(f, body),
         NEW k \in 1..Len(body), body[k] \in Erring
  PROVE  ParserInv'
<1>. DEFINE t == Tail(stack)
<1>1. t \in Later /\ stack' = body \o t  BY Opened DEF ParserInv, Runs
<1>2. stack' \in Later  BY <1>1 DEF Later
<1>3. k \in 1..Len(stack') /\ stack'[k] = body[k]  BY <1>1 DEF Later
<1>4. ~Right'  BY <1>3 DEF Right
<1>5. Shape'  BY <1>2 DEF Shape, Later
<1>. QED  BY <1>4, <1>5, RunsKeeps DEF ParserInv, Promise

\* Code that matches a name and goes on by what follows it.
LEMMA LookingRun ==
  ASSUME ParserInv, NEW f \in Calling, NEW g \in Looking, Runs(f, <<"MC_ID", g>>),
         \A r \in Rest(g) : Yields(<<Means(f)>>, <<"MC_ID">> \o r)
  PROVE  ParserInv'
<1>. DEFINE t == Tail(stack)
            S == Plain \cup Erring \cup Naming
<1>1. f # "MC_ID" /\ g \in Naming  BY DEF Calling, Naming
<1>2. t \in Later /\ stack = <<f>> \o t /\ stack' = <<"MC_ID", g>> \o t
  BY <1>1, Opened DEF ParserInv, Runs
<1>3. <<"MC_ID", g>> \o t = <<"MC_ID">> \o (<<g>> \o t)
  <2>1. t \in Seq(S) /\ g \in S /\ "MC_ID" \in S
    BY <1>1, <1>2 DEF Later, Plain, Token
  <2>2. <<"MC_ID">> \in Seq(S) /\ <<g>> \in Seq(S) /\ <<"MC_ID", g>> = <<"MC_ID">> \o <<g>>
    BY <2>1
  <2>. HIDE DEF t, S
  <2>. QED  BY <2>1, <2>2, ConcatAssociative
<1>4. Shape'
  <2>1. stack' = <<"MC_ID">> \o (<<g>> \o t)  BY <1>2, <1>3
  <2>. HIDE DEF t
  <2>. QED  BY <1>2, <2>1 DEF Shape, Later
<1>5. ASSUME Right', NEW form \in Reading(stack')  PROVE Unfold[form] \subseteq live
  <2>1. <<"MC_ID", g>> \in Seq(Plain \cup Naming)  BY <1>1 DEF Plain, Token
  <2>2. Right /\ t \in Seq(Plain)  BY <1>5, <2>1, StillRight DEF ParserInv
  <2>. HIDE DEF t
  <2>3. Unfold[<<Means(f)>> \o Image(t)] \subseteq live
    <3>1. <<f>> \in Seq(Plain)  BY DEF Plain
    <3>2. <<f>> \o t \in Seq(Plain)  BY <2>2, <3>1
    <3>3. Image(<<f>> \o t) = Image(<<f>>) \o Image(t)  BY <2>2, <3>1, ImageConcat
    <3>. QED  BY <1>2, <2>2, <3>2, <3>3, ReadPlain, ImageTuple DEF ParserInv, Promise
  <2>4. PICK r \in Rest(g) : form = <<"MC_ID">> \o (r \o Image(t))
    BY <1>2, <1>3, <1>5, <2>2, ReadLooking
  <2>5. Image(t) \in Form /\ r \in Form /\ <<"MC_ID">> \in Form
    BY <1>1, <2>2, ImageType, RestType DEF Form, Symbol, Token
  <2>6. form = (<<"MC_ID">> \o r) \o Image(t)  BY <2>4, <2>5, ConcatAssociative DEF Form
  <2>. QED  BY <2>3, <2>5, <2>6 DEF Yields
<1>. QED  BY <1>4, <1>5, RunsKeeps DEF ParserInv, Promise

\* Code behind a name that leaves other such code.
LEMMA NamingRun ==
  ASSUME ParserInv, NEW f \in Naming, NEW g \in Naming, NEW body \in Seq(Plain \cup Erring),
         Runs(f, <<g>> \o body),
         \A r \in Rest(g) : body \in Seq(Plain) => r \o Image(body) \in Rest(f),
         g = "parse_assign_stmt" /\ body \in Seq(Plain) => currtok \in {"SS_ASGN", "SS_LBRA"}
  PROVE  ParserInv'
<1>. DEFINE t == Tail(stack)
            S == Plain \cup Erring \cup Naming
            u == body \o t
<1>1. f # "MC_ID"  BY DEF Naming, Looking
<1>2. t \in Later /\ stack = <<f>> \o t /\ stack' = (<<g>> \o body) \o t /\ prevtok = "MC_ID"
  BY <1>1, Opened DEF ParserInv, Runs
<1>3. g \in S /\ t \in Seq(S) /\ body \in Seq(S) /\ <<g>> \in Seq(S) /\ u \in Later
  BY <1>2 DEF Later
<1>. HIDE DEF t, S
<1>4. stack' = <<g>> \o u  BY <1>2, <1>3, ConcatAssociative
<1>5. u \in Seq(S)  BY <1>3 DEF S, Later
<1>. HIDE DEF u
<1>6. stack' # <<>> /\ Head(stack') = g /\ Tail(stack') = u  BY <1>3, <1>4, <1>5, Before
<1>7. prevtok' = prevtok /\ currtok' = currtok  BY DEF Runs
<1>8. ASSUME Right'  PROVE body \in Seq(Plain) /\ u \in Seq(Plain)
  <2>1. <<g>> \in Seq(Naming)  OBVIOUS
  <2>2. u \in Seq(Plain)  BY <1>3, <1>4, <1>8, <2>1, Remains DEF Right
  <2>3. \A i \in 1..Len(body) : body[i] = u[i] /\ i \in 1..Len(u)  BY <1>3 DEF u
  <2>4. \A i \in 1..Len(body) : body[i] \in Plain  BY <2>2, <2>3, ElementOfSeq
  <2>5. body \in Seq(Plain)  BY <2>4
  <2>. QED  BY <2>2, <2>5
<1>9. Shape'
  <2>1. Right' /\ Head(stack') = "parse_assign_stmt" => currtok' \in {"SS_ASGN", "SS_LBRA"}
    BY <1>6, <1>7, <1>8
  <2>. QED  BY <1>2, <1>3, <1>4, <1>6, <1>7, <2>1 DEF Shape, Later
<1>10. ASSUME Right', NEW form \in Reading(stack')  PROVE Unfold[form] \subseteq live
  <2>1. <<g>> \o body \in Seq(S)  BY <1>3
  <2>2. Right /\ t \in Seq(Plain)  BY <1>10, <2>1, StillRight DEF ParserInv, t
  <2>3. body \in Seq(Plain) /\ u \in Seq(Plain)  BY <1>8, <1>10
  <2>4. Reading(stack') = {r \o Image(u) : r \in Rest(g)}  BY <1>4, <2>3, ReadNaming
  <2>5. Image(u) = Image(body) \o Image(t)  BY <2>2, <2>3, ImageConcat DEF u
  <2>6. PICK r \in Rest(g) : form = r \o (Image(body) \o Image(t))  BY <1>10, <2>4, <2>5
  <2>7. r \in Form /\ Image(body) \in Form /\ Image(t) \in Form
    BY <2>2, <2>3, ImageType, RestType
  <2>. DEFINE b == Image(body)
              e == Image(t)
  <2>8. form = (r \o b) \o e
    <3>1. r \in Form /\ b \in Form /\ e \in Form /\ form = r \o (b \o e)  BY <2>6, <2>7
    <3>. HIDE DEF b, e
    <3>. QED  BY <3>1, ConcatAssociative DEF Form
  <2>9. form \in Reading(stack)  BY <1>2, <2>2, <2>3, <2>8, ReadNaming
  <2>. QED  BY <2>2, <2>9 DEF ParserInv, Promise
<1>. QED  BY <1>9, <1>10, RunsKeeps DEF ParserInv, Promise

\* The name that a node takes is there.
LEMMA ReadPrev == ParserInv /\ Runs("READPREV", <<>>) => ParserInv'
<1>. SUFFICES ASSUME ParserInv, Runs("READPREV", <<>>)  PROVE ParserInv'
  OBVIOUS
<1>. DEFINE t == Tail(stack)
<1>1. "READPREV" \in Naming  BY DEF Naming
<1>2. t \in Later /\ stack = <<"READPREV">> \o t  BY Opened DEF ParserInv
<1>3. stack' = t  BY <1>2 DEF Runs, Later
<1>4. Shape'  BY <1>2, <1>3 DEF Shape, Later
<1>5. ASSUME Right', NEW form \in Reading(stack')  PROVE Unfold[form] \subseteq live
  <2>1. <<>> \in Seq(Plain)  OBVIOUS
  <2>2. Right /\ t \in Seq(Plain)  BY <1>1, <1>5, <2>1, StillRight DEF ParserInv
  <2>. HIDE DEF t
  <2>3. form = Image(t) /\ Image(t) \in Form  BY <1>3, <1>5, <2>2, ReadPlain, ImageType
  <2>4. form = <<>> \o Image(t)  BY <2>3 DEF Form
  <2>5. Reading(stack) = {r \o Image(t) : r \in Rest("READPREV")}
    BY <1>1, <1>2, <2>2, ReadNaming
  <2>6. form \in Reading(stack)  BY <2>4, <2>5, RestAre
  <2>. QED  BY <2>2, <2>6 DEF ParserInv, Promise
<1>. QED  BY <1>4, <1>5, RunsKeeps DEF ParserInv, Promise

\* A matched token is taken off the stack and off the ways to go on.
LEMMA Advances ==
  ASSUME NEW tok \in Token, NEW form \in Form, Unfold[<<tok>> \o form] \subseteq live
  PROVE  Unfold[form] \subseteq Advance(live, tok)
<1>. DEFINE whole == <<tok>> \o form
<1>1. tok \in Symbol  BY DEF Symbol
<1>2. whole \in Form /\ whole # <<>> /\ Head(whole) = tok /\ Tail(whole) = form
  BY <1>1, Before DEF Form
<1>. HIDE DEF whole
<1>3. Bare(whole)  BY <1>2, TokensAreBare DEF Bare
<1>4. whole \in live  BY <1>2, <1>3, UnfoldBare DEF whole
<1>. QED  BY <1>2, <1>4 DEF Advance, Takes

LEMMA MatchStep == ParserInv /\ match => ParserInv'
<1>. SUFFICES ASSUME ParserInv, match  PROVE ParserInv'
  OBVIOUS
<1>1. /\ stack # <<>> /\ Head(stack) = currtok /\ stack' = Tail(stack)
      /\ prevtok' = currtok /\ live' = Advance(live, currtok)
      /\ errnum' = errnum /\ phase' = "LEXICAL" /\ phase = "LEXICAL" /\ currtok \in Token
  BY DEF match, Running, Next1, ParserInv, ParserType
<1>2. currtok' \in Token
  <2>1. "ENDFILE" \in Token  BY DEF Token
  <2>. QED  BY <2>1 DEF match
<1>3. ParserType' /\ Passed'  BY <1>1, <1>2 DEF ParserInv, ParserType, Passed
<1>4. CASE stack \in Later
  <2>. DEFINE t == Tail(stack)
  <2>1. t \in Later /\ stack = <<currtok>> \o t  BY <1>1, <1>4 DEF Later
  <2>2. Shape'  BY <1>1, <2>1 DEF Shape, Later
  <2>3. ASSUME Right', NEW form \in Reading(stack')  PROVE Unfold[form] \subseteq live'
    <3>1. \A i \in 1..Len(t) : t[i] \in Plain  BY <1>1, <2>1, <2>3 DEF Right, Later
    <3>2. t \in Seq(Plain)  BY <2>1, <3>1, Narrow DEF Later
    <3>3. form = Image(t) /\ Image(t) \in Form  BY <1>1, <2>3, <3>2, ReadPlain, ImageType
    <3>. HIDE DEF t
    <3>4. <<currtok>> \in Seq(Plain)  BY <1>1 DEF Plain
    <3>5. <<currtok>> \o t \in Seq(Plain)  BY <3>2, <3>4
    <3>6. Image(stack) = Image(<<currtok>>) \o Image(t)  BY <2>1, <3>2, <3>4, ImageConcat
    <3>7. Image(<<currtok>>) = <<currtok>>  BY <1>1, ImageTuple, MeansToken
    <3>8. \A i \in 1..Len(stack) : stack[i] \in Plain  BY <2>1, <3>5, ElementOfSeq
    <3>9. Right  BY <1>1, <2>3, <3>8, ApartCodes DEF Right
    <3>10. Unfold[<<currtok>> \o form] \subseteq live
      BY <2>1, <3>3, <3>5, <3>6, <3>7, <3>9, ReadPlain DEF ParserInv, Promise
    <3>. QED  BY <1>1, <3>3, <3>10, Advances
  <2>. QED  BY <1>3, <2>2, <2>3 DEF ParserInv, Promise
<1>5. CASE Head(stack) \in Naming  BY <1>1, <1>5, ApartCodes DEF Plain
<1>6. ASSUME NEW f \in Looking, NEW t \in Later, stack = <<"MC_ID">> \o (<<f>> \o t)
      PROVE  ParserInv'
  <2>. DEFINE S == Plain \cup Erring \cup Naming
              u == <<f>> \o t
  <2>1. "MC_ID" \in S /\ f \in S /\ t \in Seq(S) /\ f \in Naming
    BY DEF Plain, Token, Naming, Later
  <2>2. u \in Seq(S) /\ u # <<>> /\ Head(u) = f /\ Tail(u) = t  BY <2>1, Before
  <2>. HIDE DEF u
  <2>3. Head(<<"MC_ID">> \o u) = "MC_ID" /\ Tail(<<"MC_ID">> \o u) = u  BY <2>1, <2>2, Before
  <2>. HIDE DEF S
  <2>4. currtok = "MC_ID" /\ stack' = u  BY <1>1, <1>6, <2>3 DEF u
  <2>5. u = <<Head(u)>> \o Tail(u)  BY <2>2 DEF u
  <2>6. Shape'
    <3>1. f # "parse_assign_stmt"  BY DEF Looking
    <3>. QED  BY <1>1, <2>1, <2>2, <2>4, <2>5, <3>1 DEF Shape, Later
  <2>7. ASSUME Right', NEW form \in Reading(stack')  PROVE Unfold[form] \subseteq live'
    <3>1. \A i \in 1..Len(u) : u[i] \notin Erring  BY <2>4, <2>7 DEF Right
    <3>2. <<f>> \in Seq(Naming)  BY <2>1
    <3>3. t \in Seq(Plain)  BY <3>1, <3>2, Remains DEF u
    <3>4. PICK r \in Rest(f) : form = r \o Image(t)
      BY <2>1, <2>4, <2>7, <3>3, ReadNaming DEF u
    <3>5. form \in Form
      <4>1. r \in Form /\ Image(t) \in Form  BY <2>1, <3>3, <3>4, ImageType, RestType
      <4>. QED  BY <3>4, <4>1 DEF Form
    <3>6. <<"MC_ID">> \o form \in Reading(stack)  BY <1>6, <3>3, <3>4, ReadLooking
    <3>7. Right
      <4>1. \A i \in 1..Len(<<"MC_ID">> \o u) : (<<"MC_ID">> \o u)[i] \notin Erring
        <5>. DEFINE P == S \ Erring
        <5>1. \A i \in 1..Len(u) : u[i] \in P  BY <2>2, <3>1, ElementOfSeq
        <5>2. u \in Seq(P)  BY <2>2, <5>1
        <5>3. "MC_ID" \in P  BY <2>1 DEF Erring
        <5>4. <<"MC_ID">> \o u \in Seq(P)  BY <5>2, <5>3, Before
        <5>. QED  BY <5>4, ElementOfSeq
      <4>2. stack = <<"MC_ID">> \o u  BY <1>6 DEF u
      <4>3. errnum = 0  BY <1>1, <2>7 DEF Right
      <4>. QED  BY <4>1, <4>2, <4>3 DEF Right
    <3>. QED  BY <1>1, <2>4, <3>5, <3>6, <3>7, Advances DEF ParserInv, Promise
  <2>. QED  BY <1>3, <2>6, <2>7 DEF ParserInv, Promise
<1>. QED  BY <1>4, <1>5, <1>6 DEF ParserInv, Shape

\* The steps that end the parse or turn a misspelt := into an error.
LEMMA StopStep == ParserInv /\ (panic \/ unlikely \/ null_idp) => ParserInv'
<1>. SUFFICES ASSUME ParserInv, panic \/ unlikely \/ null_idp  PROVE ParserInv'
  OBVIOUS
<1>1. /\ UNCHANGED <<currtok, prevtok, stack, live>> /\ phase' \in {"EXIT", "CRASH"}
      /\ errnum' \in {EPANIC, EABORT, errnum}
  BY DEF panic, unlikely, null_idp, Stops
<1>2. Right' => Right  BY <1>1 DEF Right, EPANIC, EABORT
<1>3. Reading(stack') = Reading(stack)  BY <1>1
<1>4. Promise'  BY <1>1, <1>2, <1>3 DEF ParserInv, Promise
<1>5. Shape'  BY <1>1, <1>2 DEF ParserInv, Shape
<1>6. ParserType' /\ Passed'  BY <1>1 DEF ParserInv, ParserType, Passed
<1>. QED  BY <1>4, <1>5, <1>6 DEF ParserInv

LEMMA RescueStep == ParserInv /\ rescue => ParserInv'
<1>. SUFFICES ASSUME ParserInv, rescue  PROVE ParserInv'
  OBVIOUS
<1>1. /\ stack # <<>> /\ Head(stack) = "rescue" /\ stack' = Tail(stack)
      /\ UNCHANGED <<currtok, prevtok, phase, live>> /\ phase = "LEXICAL"
      /\ errnum' = ERRTOK
  BY DEF rescue, Running, Next1
<1>2. ASSUME stack \in Later  PROVE Shape'
  <2>1. Tail(stack) \in Later  BY <1>1, <1>2 DEF Later
  <2>. QED  BY <1>1, <2>1 DEF Shape, Later
<1>3. Head(stack) \notin Naming  BY <1>1, ApartCodes DEF Erring
<1>4. ASSUME NEW f \in Looking, NEW t \in Later, stack = <<"MC_ID">> \o (<<f>> \o t)
      PROVE  FALSE
  <2>. DEFINE S == Plain \cup Erring \cup Naming
              u == <<f>> \o t
  <2>1. "MC_ID" \in S /\ f \in S /\ t \in Seq(S)  BY DEF Plain, Token, Naming, Later
  <2>2. u \in Seq(S)  BY <2>1, Before
  <2>. HIDE DEF u
  <2>3. Head(<<"MC_ID">> \o u) = "MC_ID"  BY <2>1, <2>2, Before
  <2>. QED  BY <1>1, <1>4, <2>3 DEF u
<1>5. Shape'  BY <1>2, <1>3, <1>4 DEF ParserInv, Shape
<1>6. ~Right'  BY <1>1 DEF Right, ERRTOK
<1>. QED  BY <1>1, <1>5, <1>6 DEF ParserInv, ParserType, Promise, Passed

-----------------------------------------------------------------------------
(* What each function reads is what a production says                      *)

Spells(f, body) ==
  f \in Calling /\ body \in Seq(Plain) /\ Yields(<<Means(f)>>, Image(body))

LEMMA SpellsRun ==
  \A f, body : ParserInv /\ Spells(f, body) /\ Runs(f, body) => ParserInv'
BY PlainRun DEF Spells

LEMMA SpellsRule ==
  \A f \in Calling : \A body \in Seq(Plain) :
    Means(f) \in Nonterminal /\ Image(body) \in Production(Means(f)) => Spells(f, body)
BY YieldsRule DEF Spells

LEMMA SpellsNothing ==
  \A f \in Calling :
    Means(f) \in Nonterminal /\ <<>> \in Production(Means(f)) => Spells(f, <<>>)
<1>1. <<>> \in Seq(Plain) /\ Image(<<>>) = <<>>  BY ImageTuple
<1>. QED  BY <1>1, SpellsRule

\* The first symbol of a right hand side replaced as well.
LEMMA YieldsTwo ==
  ASSUME NEW n \in Nonterminal, NEW m \in Nonterminal, NEW rest \in Form,
         <<m>> \o rest \in Production(n), NEW rhs \in Production(m)
  PROVE  Yields(<<n>>, rhs \o rest)
<1>1. Yields(<<n>>, <<m>> \o rest)  BY YieldsRule
<1>2. rhs \in Form /\ <<m>> \in Form  BY ProductionType DEF Form, Symbol
<1>3. Yields(<<m>>, rhs)  BY YieldsRule
<1>4. Yields(<<m>> \o rest, rhs \o rest)  BY <1>2, <1>3, YieldsBefore
<1>. QED  BY <1>1, <1>4, YieldsTwice

LEMMA PlainTuple ==
  /\ \A a \in Plain : <<a>> \in Seq(Plain)
  /\ \A a, b \in Plain : <<a, b>> \in Seq(Plain)
  /\ \A a, b, c \in Plain : <<a, b, c>> \in Seq(Plain)
  /\ \A a, b, c, d \in Plain : <<a, b, c, d>> \in Seq(Plain)
  /\ \A a, b, c, d, e \in Plain : <<a, b, c, d, e>> \in Seq(Plain)
  /\ \A a, b, c, d, e, g \in Plain : <<a, b, c, d, e, g>> \in Seq(Plain)
  /\ \A a, b, c, d, e, g, h \in Plain : <<a, b, c, d, e, g, h>> \in Seq(Plain)
  /\ \A a, b, c, d, e, g, h, i \in Plain : <<a, b, c, d, e, g, h, i>> \in Seq(Plain)
OBVIOUS

LEMMA PlainAre ==
  /\ "KW_ARRAY" \in Plain /\ "KW_BEGIN" \in Plain /\ "KW_CHAR" \in Plain
  /\ "KW_CONST" \in Plain /\ "KW_DO" \in Plain /\ "KW_DOWNTO" \in Plain
  /\ "KW_ELSE" \in Plain /\ "KW_END" \in Plain /\ "KW_FOR" \in Plain
  /\ "KW_FUNCTION" \in Plain /\ "KW_IF" \in Plain /\ "KW_INTEGER" \in Plain
  /\ "KW_OF" \in Plain /\ "KW_PROCEDURE" \in Plain /\ "KW_READ" \in Plain
  /\ "KW_REPEAT" \in Plain /\ "KW_THEN" \in Plain /\ "KW_TO" \in Plain
  /\ "KW_UINTEGER" \in Plain /\ "KW_UNTIL" \in Plain /\ "KW_VAR" \in Plain
  /\ "KW_WRITE" \in Plain /\ "MC_CH" \in Plain /\ "MC_ID" \in Plain
  /\ "MC_STR" \in Plain /\ "MC_UNS" \in Plain /\ "SS_ASGN" \in Plain
  /\ "SS_COLON" \in Plain /\ "SS_COMMA" \in Plain /\ "SS_DOT" \in Plain
  /\ "SS_EQU" \in Plain /\ "SS_GEQ" \in Plain /\ "SS_GTT" \in Plain
  /\ "SS_LBRA" \in Plain /\ "SS_LEQ" \in Plain /\ "SS_LPAR" \in Plain
  /\ "SS_LST" \in Plain /\ "SS_MINUS" \in Plain /\ "SS_NEQ" \in Plain
  /\ "SS_OVER" \in Plain /\ "SS_PLUS" \in Plain /\ "SS_RBRA" \in Plain
  /\ "SS_RPAR" \in Plain /\ "SS_SEMI" \in Plain /\ "SS_STAR" \in Plain
  /\ "parse_block" \in Plain /\ "block_const" \in Plain /\ "block_var" \in Plain
  /\ "block_pf" \in Plain /\ "block_comp" \in Plain /\ "parse_const_dec" \in Plain
  /\ "parse_var_dec" \in Plain /\ "parse_comp_stmt" \in Plain /\ "parse_const_def" \in Plain
  /\ "const_dec_more" \in Plain /\ "READCURR" \in Plain /\ "const_value" \in Plain
  /\ "parse_var_def" \in Plain /\ "var_dec_more" \in Plain /\ "more_idents" \in Plain
  /\ "var_type" \in Plain /\ "array_length" \in Plain /\ "basictype" \in Plain
  /\ "parse_proc_dec" \in Plain /\ "parse_pf_dec_list" \in Plain /\ "parse_fun_dec" \in Plain
  /\ "parse_proc_def" \in Plain /\ "proc_dec_more" \in Plain /\ "parse_fun_def" \in Plain
  /\ "fun_dec_more" \in Plain /\ "parse_proc_head" \in Plain /\ "parse_fun_head" \in Plain
  /\ "head_paras" \in Plain /\ "parse_para_list" \in Plain /\ "parse_para_def" \in Plain
  /\ "para_list_more" \in Plain /\ "parse_if_stmt" \in Plain /\ "parse_repe_stmt" \in Plain
  /\ "parse_read_stmt" \in Plain /\ "parse_write_stmt" \in Plain /\ "parse_for_stmt" \in Plain
  /\ "parse_cond" \in Plain /\ "parse_stmt" \in Plain /\ "if_else" \in Plain
  /\ "parse_expr" \in Plain /\ "for_to" \in Plain /\ "comp_more" \in Plain
  /\ "written" \in Plain /\ "written_more" \in Plain /\ "parse_arg_list" \in Plain
  /\ "arg_list_more" \in Plain /\ "parse_term" \in Plain /\ "expr_more" \in Plain
  /\ "parse_factor" \in Plain /\ "term_more" \in Plain /\ "relop" \in Plain
<1>1. /\ "KW_ARRAY" \in Plain /\ "KW_BEGIN" \in Plain /\ "KW_CHAR" \in Plain
      /\ "KW_CONST" \in Plain /\ "KW_DO" \in Plain /\ "KW_DOWNTO" \in Plain
      /\ "KW_ELSE" \in Plain /\ "KW_END" \in Plain /\ "KW_FOR" \in Plain
      /\ "KW_FUNCTION" \in Plain /\ "KW_IF" \in Plain /\ "KW_INTEGER" \in Plain
  BY DEF Plain, Calling, Token, BasicType, Relop, Sign
<1>2. /\ "KW_OF" \in Plain /\ "KW_PROCEDURE" \in Plain /\ "KW_READ" \in Plain
      /\ "KW_REPEAT" \in Plain /\ "KW_THEN" \in Plain /\ "KW_TO" \in Plain
      /\ "KW_UINTEGER" \in Plain /\ "KW_UNTIL" \in Plain /\ "KW_VAR" \in Plain
      /\ "KW_WRITE" \in Plain /\ "MC_CH" \in Plain /\ "MC_ID" \in Plain
  BY DEF Plain, Calling, Token, BasicType, Relop, Sign
<1>3. /\ "MC_STR" \in Plain /\ "MC_UNS" \in Plain /\ "SS_ASGN" \in Plain
      /\ "SS_COLON" \in Plain /\ "SS_COMMA" \in Plain /\ "SS_DOT" \in Plain
      /\ "SS_EQU" \in Plain /\ "SS_GEQ" \in Plain /\ "SS_GTT" \in Plain
      /\ "SS_LBRA" \in Plain /\ "SS_LEQ" \in Plain /\ "SS_LPAR" \in Plain
  BY DEF Plain, Calling, Token, BasicType, Relop, Sign
<1>4. /\ "SS_LST" \in Plain /\ "SS_MINUS" \in Plain /\ "SS_NEQ" \in Plain
      /\ "SS_OVER" \in Plain /\ "SS_PLUS" \in Plain /\ "SS_RBRA" \in Plain
      /\ "SS_RPAR" \in Plain /\ "SS_SEMI" \in Plain /\ "SS_STAR" \in Plain
      /\ "parse_block" \in Plain /\ "block_const" \in Plain /\ "block_var" \in Plain
  BY DEF Plain, Calling, Token, BasicType, Relop, Sign
<1>5. /\ "block_pf" \in Plain /\ "block_comp" \in Plain /\ "parse_const_dec" \in Plain
      /\ "parse_var_dec" \in Plain /\ "parse_comp_stmt" \in Plain /\ "parse_const_def" \in Plain
      /\ "const_dec_more" \in Plain /\ "READCURR" \in Plain /\ "const_value" \in Plain
      /\ "parse_var_def" \in Plain /\ "var_dec_more" \in Plain /\ "more_idents" \in Plain
  BY DEF Plain, Calling, Token, BasicType, Relop, Sign
<1>6. /\ "var_type" \in Plain /\ "array_length" \in Plain /\ "basictype" \in Plain
      /\ "parse_proc_dec" \in Plain /\ "parse_pf_dec_list" \in Plain /\ "parse_fun_dec" \in Plain
      /\ "parse_proc_def" \in Plain /\ "proc_dec_more" \in Plain /\ "parse_fun_def" \in Plain
      /\ "fun_dec_more" \in Plain /\ "parse_proc_head" \in Plain /\ "parse_fun_head" \in Plain
  BY DEF Plain, Calling, Token, BasicType, Relop, Sign
<1>7. /\ "head_paras" \in Plain /\ "parse_para_list" \in Plain /\ "parse_para_def" \in Plain
      /\ "para_list_more" \in Plain /\ "parse_if_stmt" \in Plain /\ "parse_repe_stmt" \in Plain
      /\ "parse_read_stmt" \in Plain /\ "parse_write_stmt" \in Plain /\ "parse_for_stmt" \in Plain
      /\ "parse_cond" \in Plain /\ "parse_stmt" \in Plain /\ "if_else" \in Plain
  BY DEF Plain, Calling, Token, BasicType, Relop, Sign
<1>8. /\ "parse_expr" \in Plain /\ "for_to" \in Plain /\ "comp_more" \in Plain
      /\ "written" \in Plain /\ "written_more" \in Plain /\ "parse_arg_list" \in Plain
      /\ "arg_list_more" \in Plain /\ "parse_term" \in Plain /\ "expr_more" \in Plain
      /\ "parse_factor" \in Plain /\ "term_more" \in Plain /\ "relop" \in Plain
  BY DEF Plain, Calling, Token, BasicType, Relop, Sign
<1>. QED  BY <1>1, <1>2, <1>3, <1>4, <1>5, <1>6, <1>7, <1>8

LEMMA Spells1 ==
  ASSUME NEW f \in Calling, NEW a \in Plain,
         Means(f) \in Nonterminal, <<Means(a)>> \in Production(Means(f))
  PROVE  Spells(f, <<a>>)
<1>1. <<a>> \in Seq(Plain)  BY PlainTuple
<1>2. Image(<<a>>) = <<Means(a)>>
  BY ImageTuple
<1>. QED  BY <1>1, <1>2, SpellsRule

LEMMA Spells2 ==
  ASSUME NEW f \in Calling, NEW a \in Plain, NEW b \in Plain,
         Means(f) \in Nonterminal, <<Means(a), Means(b)>> \in Production(Means(f))
  PROVE  Spells(f, <<a, b>>)
<1>1. <<a, b>> \in Seq(Plain)  BY PlainTuple
<1>2. Image(<<a, b>>) = <<Means(a), Means(b)>>
  BY ImageTuple
<1>. QED  BY <1>1, <1>2, SpellsRule

LEMMA Spells3 ==
  ASSUME NEW f \in Calling, NEW a \in Plain, NEW b \in Plain, NEW c \in Plain,
         Means(f) \in Nonterminal, <<Means(a), Means(b), Means(c)>> \in Production(Means(f))
  PROVE  Spells(f, <<a, b, c>>)
<1>1. <<a, b, c>> \in Seq(Plain)  BY PlainTuple
<1>2. Image(<<a, b, c>>) = <<Means(a), Means(b), Means(c)>>
  BY ImageTuple
<1>. QED  BY <1>1, <1>2, SpellsRule

LEMMA Spells4 ==
  ASSUME NEW f \in Calling, NEW a \in Plain, NEW b \in Plain, NEW c \in Plain, NEW d \in Plain,
         Means(f) \in Nonterminal, <<Means(a), Means(b), Means(c),
                                     Means(d)>> \in Production(Means(f))
  PROVE  Spells(f, <<a, b, c, d>>)
<1>1. <<a, b, c, d>> \in Seq(Plain)  BY PlainTuple
<1>2. Image(<<a, b, c, d>>) = <<Means(a), Means(b), Means(c), Means(d)>>
  BY ImageTuple
<1>. QED  BY <1>1, <1>2, SpellsRule

LEMMA Spells5 ==
  ASSUME NEW f \in Calling, NEW a \in Plain, NEW b \in Plain, NEW c \in Plain, NEW d \in Plain,
         NEW e \in Plain,
         Means(f) \in Nonterminal, <<Means(a), Means(b), Means(c), Means(d),
                                     Means(e)>> \in Production(Means(f))
  PROVE  Spells(f, <<a, b, c, d, e>>)
<1>1. <<a, b, c, d, e>> \in Seq(Plain)  BY PlainTuple
<1>2. Image(<<a, b, c, d, e>>) = <<Means(a), Means(b), Means(c), Means(d), Means(e)>>
  BY ImageTuple
<1>. QED  BY <1>1, <1>2, SpellsRule

LEMMA Spells6 ==
  ASSUME NEW f \in Calling, NEW a \in Plain, NEW b \in Plain, NEW c \in Plain, NEW d \in Plain,
         NEW e \in Plain, NEW g \in Plain,
         Means(f) \in Nonterminal, <<Means(a), Means(b), Means(c), Means(d), Means(e),
                                     Means(g)>> \in Production(Means(f))
  PROVE  Spells(f, <<a, b, c, d, e, g>>)
<1>1. <<a, b, c, d, e, g>> \in Seq(Plain)  BY PlainTuple
<1>2. Image(<<a, b, c, d, e, g>>) = <<Means(a), Means(b), Means(c), Means(d), Means(e), Means(g)>>
  BY ImageTuple
<1>. QED  BY <1>1, <1>2, SpellsRule

LEMMA Spells7 ==
  ASSUME NEW f \in Calling, NEW a \in Plain, NEW b \in Plain, NEW c \in Plain, NEW d \in Plain,
         NEW e \in Plain, NEW g \in Plain, NEW h \in Plain,
         Means(f) \in Nonterminal, <<Means(a), Means(b), Means(c), Means(d), Means(e),
                                     Means(g), Means(h)>> \in Production(Means(f))
  PROVE  Spells(f, <<a, b, c, d, e, g, h>>)
<1>1. <<a, b, c, d, e, g, h>> \in Seq(Plain)  BY PlainTuple
<1>2. Image(<<a, b, c, d, e, g, h>>) = <<Means(a), Means(b), Means(c), Means(d), Means(e),
                                         Means(g), Means(h)>>
  BY ImageTuple
<1>. QED  BY <1>1, <1>2, SpellsRule

LEMMA Spells8 ==
  ASSUME NEW f \in Calling, NEW a \in Plain, NEW b \in Plain, NEW c \in Plain, NEW d \in Plain,
         NEW e \in Plain, NEW g \in Plain, NEW h \in Plain, NEW i \in Plain,
         Means(f) \in Nonterminal, <<Means(a), Means(b), Means(c), Means(d), Means(e),
                                     Means(g), Means(h), Means(i)>> \in Production(Means(f))
  PROVE  Spells(f, <<a, b, c, d, e, g, h, i>>)
<1>1. <<a, b, c, d, e, g, h, i>> \in Seq(Plain)  BY PlainTuple
<1>2. Image(<<a, b, c, d, e, g, h, i>>) = <<Means(a), Means(b), Means(c), Means(d), Means(e),
                                            Means(g), Means(h), Means(i)>>
  BY ImageTuple
<1>. QED  BY <1>1, <1>2, SpellsRule

LEMMA CallingAre ==
  /\ "parse_pgm" \in Calling /\ Means("parse_pgm") \in Nonterminal
  /\ "parse_block" \in Calling /\ Means("parse_block") \in Nonterminal
  /\ "block_const" \in Calling /\ Means("block_const") \in Nonterminal
  /\ "block_var" \in Calling /\ Means("block_var") \in Nonterminal
  /\ "block_pf" \in Calling /\ Means("block_pf") \in Nonterminal
  /\ "block_comp" \in Calling /\ Means("block_comp") \in Nonterminal
  /\ "parse_const_dec" \in Calling /\ Means("parse_const_dec") \in Nonterminal
  /\ "const_dec_more" \in Calling /\ Means("const_dec_more") \in Nonterminal
  /\ "parse_const_def" \in Calling /\ Means("parse_const_def") \in Nonterminal
  /\ "const_value" \in Calling /\ Means("const_value") \in Nonterminal
  /\ "parse_var_dec" \in Calling /\ Means("parse_var_dec") \in Nonterminal
  /\ "var_dec_more" \in Calling /\ Means("var_dec_more") \in Nonterminal
  /\ "parse_var_def" \in Calling /\ Means("parse_var_def") \in Nonterminal
  /\ "var_type" \in Calling /\ Means("var_type") \in Nonterminal
  /\ "more_idents" \in Calling /\ Means("more_idents") \in Nonterminal
  /\ "basictype" \in Calling /\ Means("basictype") \in Nonterminal
  /\ "parse_pf_dec_list" \in Calling /\ Means("parse_pf_dec_list") \in Nonterminal
  /\ "parse_proc_dec" \in Calling /\ Means("parse_proc_dec") \in Nonterminal
  /\ "proc_dec_more" \in Calling /\ Means("proc_dec_more") \in Nonterminal
  /\ "parse_fun_dec" \in Calling /\ Means("parse_fun_dec") \in Nonterminal
  /\ "fun_dec_more" \in Calling /\ Means("fun_dec_more") \in Nonterminal
  /\ "parse_proc_def" \in Calling /\ Means("parse_proc_def") \in Nonterminal
  /\ "parse_fun_def" \in Calling /\ Means("parse_fun_def") \in Nonterminal
  /\ "parse_proc_head" \in Calling /\ Means("parse_proc_head") \in Nonterminal
  /\ "parse_fun_head" \in Calling /\ Means("parse_fun_head") \in Nonterminal
  /\ "head_paras" \in Calling /\ Means("head_paras") \in Nonterminal
  /\ "parse_para_list" \in Calling /\ Means("parse_para_list") \in Nonterminal
  /\ "para_list_more" \in Calling /\ Means("para_list_more") \in Nonterminal
  /\ "parse_para_def" \in Calling /\ Means("parse_para_def") \in Nonterminal
  /\ "parse_stmt" \in Calling /\ Means("parse_stmt") \in Nonterminal
  /\ "parse_if_stmt" \in Calling /\ Means("parse_if_stmt") \in Nonterminal
  /\ "if_else" \in Calling /\ Means("if_else") \in Nonterminal
  /\ "parse_repe_stmt" \in Calling /\ Means("parse_repe_stmt") \in Nonterminal
  /\ "parse_for_stmt" \in Calling /\ Means("parse_for_stmt") \in Nonterminal
  /\ "for_to" \in Calling /\ Means("for_to") \in Nonterminal
  /\ "parse_comp_stmt" \in Calling /\ Means("parse_comp_stmt") \in Nonterminal
  /\ "comp_more" \in Calling /\ Means("comp_more") \in Nonterminal
  /\ "parse_read_stmt" \in Calling /\ Means("parse_read_stmt") \in Nonterminal
  /\ "parse_write_stmt" \in Calling /\ Means("parse_write_stmt") \in Nonterminal
  /\ "written" \in Calling /\ Means("written") \in Nonterminal
  /\ "written_more" \in Calling /\ Means("written_more") \in Nonterminal
  /\ "arguments" \in Calling /\ Means("arguments") \in Nonterminal
  /\ "parse_arg_list" \in Calling /\ Means("parse_arg_list") \in Nonterminal
  /\ "arg_list_more" \in Calling /\ Means("arg_list_more") \in Nonterminal
  /\ "expr_more" \in Calling /\ Means("expr_more") \in Nonterminal
  /\ "parse_term" \in Calling /\ Means("parse_term") \in Nonterminal
  /\ "term_more" \in Calling /\ Means("term_more") \in Nonterminal
  /\ "parse_factor" \in Calling /\ Means("parse_factor") \in Nonterminal
  /\ "parse_cond" \in Calling /\ Means("parse_cond") \in Nonterminal
  /\ "relop" \in Calling /\ Means("relop") \in Nonterminal
<1>1. /\ "parse_pgm" \in Calling /\ Means("parse_pgm") \in Nonterminal
      /\ "parse_block" \in Calling /\ Means("parse_block") \in Nonterminal
      /\ "block_const" \in Calling /\ Means("block_const") \in Nonterminal
      /\ "block_var" \in Calling /\ Means("block_var") \in Nonterminal
      /\ "block_pf" \in Calling /\ Means("block_pf") \in Nonterminal
      /\ "block_comp" \in Calling /\ Means("block_comp") \in Nonterminal
      /\ "parse_const_dec" \in Calling /\ Means("parse_const_dec") \in Nonterminal
      /\ "const_dec_more" \in Calling /\ Means("const_dec_more") \in Nonterminal
  BY MeansAre DEF Calling, Nonterminal
<1>2. /\ "parse_const_def" \in Calling /\ Means("parse_const_def") \in Nonterminal
      /\ "const_value" \in Calling /\ Means("const_value") \in Nonterminal
      /\ "parse_var_dec" \in Calling /\ Means("parse_var_dec") \in Nonterminal
      /\ "var_dec_more" \in Calling /\ Means("var_dec_more") \in Nonterminal
      /\ "parse_var_def" \in Calling /\ Means("parse_var_def") \in Nonterminal
      /\ "var_type" \in Calling /\ Means("var_type") \in Nonterminal
      /\ "more_idents" \in Calling /\ Means("more_idents") \in Nonterminal
      /\ "basictype" \in Calling /\ Means("basictype") \in Nonterminal
  BY MeansAre DEF Calling, Nonterminal
<1>3. /\ "parse_pf_dec_list" \in Calling /\ Means("parse_pf_dec_list") \in Nonterminal
      /\ "parse_proc_dec" \in Calling /\ Means("parse_proc_dec") \in Nonterminal
      /\ "proc_dec_more" \in Calling /\ Means("proc_dec_more") \in Nonterminal
      /\ "parse_fun_dec" \in Calling /\ Means("parse_fun_dec") \in Nonterminal
      /\ "fun_dec_more" \in Calling /\ Means("fun_dec_more") \in Nonterminal
      /\ "parse_proc_def" \in Calling /\ Means("parse_proc_def") \in Nonterminal
      /\ "parse_fun_def" \in Calling /\ Means("parse_fun_def") \in Nonterminal
      /\ "parse_proc_head" \in Calling /\ Means("parse_proc_head") \in Nonterminal
  BY MeansAre DEF Calling, Nonterminal
<1>4. /\ "parse_fun_head" \in Calling /\ Means("parse_fun_head") \in Nonterminal
      /\ "head_paras" \in Calling /\ Means("head_paras") \in Nonterminal
      /\ "parse_para_list" \in Calling /\ Means("parse_para_list") \in Nonterminal
      /\ "para_list_more" \in Calling /\ Means("para_list_more") \in Nonterminal
      /\ "parse_para_def" \in Calling /\ Means("parse_para_def") \in Nonterminal
      /\ "parse_stmt" \in Calling /\ Means("parse_stmt") \in Nonterminal
      /\ "parse_if_stmt" \in Calling /\ Means("parse_if_stmt") \in Nonterminal
      /\ "if_else" \in Calling /\ Means("if_else") \in Nonterminal
  BY MeansAre DEF Calling, Nonterminal
<1>5. /\ "parse_repe_stmt" \in Calling /\ Means("parse_repe_stmt") \in Nonterminal
      /\ "parse_for_stmt" \in Calling /\ Means("parse_for_stmt") \in Nonterminal
      /\ "for_to" \in Calling /\ Means("for_to") \in Nonterminal
      /\ "parse_comp_stmt" \in Calling /\ Means("parse_comp_stmt") \in Nonterminal
      /\ "comp_more" \in Calling /\ Means("comp_more") \in Nonterminal
      /\ "parse_read_stmt" \in Calling /\ Means("parse_read_stmt") \in Nonterminal
      /\ "parse_write_stmt" \in Calling /\ Means("parse_write_stmt") \in Nonterminal
      /\ "written" \in Calling /\ Means("written") \in Nonterminal
  BY MeansAre DEF Calling, Nonterminal
<1>6. /\ "written_more" \in Calling /\ Means("written_more") \in Nonterminal
      /\ "arguments" \in Calling /\ Means("arguments") \in Nonterminal
      /\ "parse_arg_list" \in Calling /\ Means("parse_arg_list") \in Nonterminal
      /\ "arg_list_more" \in Calling /\ Means("arg_list_more") \in Nonterminal
      /\ "expr_more" \in Calling /\ Means("expr_more") \in Nonterminal
      /\ "parse_term" \in Calling /\ Means("parse_term") \in Nonterminal
      /\ "term_more" \in Calling /\ Means("term_more") \in Nonterminal
      /\ "parse_factor" \in Calling /\ Means("parse_factor") \in Nonterminal
  BY MeansAre DEF Calling, Nonterminal
<1>7. /\ "parse_cond" \in Calling /\ Means("parse_cond") \in Nonterminal
      /\ "relop" \in Calling /\ Means("relop") \in Nonterminal
  BY MeansAre DEF Calling, Nonterminal
<1>. QED  BY <1>1, <1>2, <1>3, <1>4, <1>5, <1>6, <1>7

LEMMA SpelledDeclarations ==
  /\ Spells("parse_pgm", <<"parse_block", "SS_DOT">>)
  /\ Spells("parse_block", <<"block_const", "block_var", "block_pf", "block_comp">>)
  /\ Spells("block_const", <<"parse_const_dec">>)
  /\ Spells("block_const", <<>>)
  /\ Spells("block_var", <<"parse_var_dec">>)
  /\ Spells("block_var", <<>>)
  /\ Spells("block_pf", <<>>)
  /\ Spells("block_comp", <<"parse_comp_stmt">>)
  /\ Spells("block_comp", <<>>)
  /\ Spells("parse_const_dec", <<"KW_CONST", "parse_const_def", "const_dec_more", "SS_SEMI">>)
  /\ Spells("const_dec_more", <<"SS_COMMA", "parse_const_def", "const_dec_more">>)
  /\ Spells("const_dec_more", <<>>)
  /\ Spells("parse_const_def", <<"READCURR", "SS_EQU", "const_value">>)
  /\ Spells("const_value", <<"MC_CH">>)
  /\ Spells("parse_var_dec", <<"KW_VAR", "parse_var_def", "SS_SEMI", "var_dec_more">>)
  /\ Spells("var_dec_more", <<"parse_var_def", "SS_SEMI", "var_dec_more">>)
  /\ Spells("var_dec_more", <<>>)
  /\ Spells("parse_var_def", <<"READCURR", "more_idents", "SS_COLON", "var_type">>)
  /\ Spells("var_type", <<"KW_ARRAY", "SS_LBRA", "array_length", "SS_RBRA", "KW_OF",
                          "basictype">>)
  /\ Spells("more_idents", <<"SS_COMMA", "READCURR", "more_idents">>)
  /\ Spells("more_idents", <<>>)
  /\ Spells("basictype", <<"KW_INTEGER">>)
  /\ Spells("basictype", <<"KW_UINTEGER">>)
  /\ Spells("basictype", <<"KW_CHAR">>)
  /\ Spells("parse_pf_dec_list", <<"parse_proc_dec", "parse_pf_dec_list">>)
  /\ Spells("parse_pf_dec_list", <<"parse_fun_dec", "parse_pf_dec_list">>)
  /\ Spells("parse_pf_dec_list", <<>>)
  /\ Spells("parse_proc_dec", <<"parse_proc_def", "SS_SEMI", "proc_dec_more">>)
  /\ Spells("proc_dec_more", <<"parse_proc_def", "SS_SEMI", "proc_dec_more">>)
  /\ Spells("proc_dec_more", <<>>)
  /\ Spells("parse_fun_dec", <<"parse_fun_def", "SS_SEMI", "fun_dec_more">>)
  /\ Spells("fun_dec_more", <<"parse_fun_def", "SS_SEMI", "fun_dec_more">>)
  /\ Spells("fun_dec_more", <<>>)
  /\ Spells("parse_proc_def", <<"parse_proc_head", "parse_block">>)
  /\ Spells("parse_fun_def", <<"parse_fun_head", "parse_block">>)
  /\ Spells("parse_proc_head", <<"KW_PROCEDURE", "READCURR", "SS_LPAR", "head_paras",
                                 "SS_RPAR", "SS_SEMI">>)
  /\ Spells("parse_fun_head", <<"KW_FUNCTION", "READCURR", "SS_LPAR", "head_paras", "SS_RPAR",
                                "SS_COLON", "basictype", "SS_SEMI">>)
  /\ Spells("head_paras", <<"parse_para_list">>)
  /\ Spells("head_paras", <<>>)
  /\ Spells("parse_para_list", <<"parse_para_def", "para_list_more">>)
  /\ Spells("para_list_more", <<"SS_SEMI", "parse_para_def", "para_list_more">>)
  /\ Spells("para_list_more", <<>>)
  /\ Spells("parse_para_def", <<"KW_VAR", "READCURR", "more_idents", "SS_COLON", "basictype">>)
  /\ Spells("parse_para_def", <<"READCURR", "more_idents", "SS_COLON", "basictype">>)
<1>1. /\ <<"block", "SS_DOT">> \in Production("pgm")
      /\ <<"[constdec]", "[vardec]", "[pfdeclist]", "[compstmt]">> \in Production("block")
      /\ <<"constdec">> \in Production("[constdec]")
      /\ <<>> \in Production("[constdec]")
      /\ <<"vardec">> \in Production("[vardec]")
      /\ <<>> \in Production("[vardec]")
  BY DEF Production, Optional
<1>2. /\ <<Means("parse_block"), Means("SS_DOT")>> = <<"block", "SS_DOT">>
      /\ <<Means("block_const"), Means("block_var"), Means("block_pf"), Means("block_comp")>>
           = <<"[constdec]", "[vardec]", "[pfdeclist]", "[compstmt]">>
  BY MeansAre, TokenMeans, ZenonT(30)
<1>3. /\ <<Means("parse_const_dec")>> = <<"constdec">>
      /\ <<Means("parse_var_dec")>> = <<"vardec">>
  BY MeansAre, TokenMeans, ZenonT(30)
<1>4. /\ Spells("parse_pgm", <<"parse_block", "SS_DOT">>)
      /\ Spells("parse_block", <<"block_const", "block_var", "block_pf", "block_comp">>)
      /\ Spells("block_const", <<"parse_const_dec">>)
      /\ Spells("block_const", <<>>)
      /\ Spells("block_var", <<"parse_var_dec">>)
      /\ Spells("block_var", <<>>)
  BY <1>1, <1>2, <1>3, SpellsNothing, Spells1, Spells2, Spells4, PlainAre, CallingAre,
     MeansAre, ZenonT(60)
<1>5. /\ <<>> \in Production("[pfdeclist]")
      /\ <<"compstmt">> \in Production("[compstmt]")
      /\ <<>> \in Production("[compstmt]")
      /\ <<"KW_CONST", "constdef", "{,constdef}", "SS_SEMI">> \in Production("constdec")
      /\ <<"SS_COMMA", "constdef", "{,constdef}">> \in Production("{,constdef}")
      /\ <<>> \in Production("{,constdef}")
  BY DEF Production, Optional
<1>6. /\ <<Means("parse_comp_stmt")>> = <<"compstmt">>
      /\ <<Means("KW_CONST"), Means("parse_const_def"), Means("const_dec_more"),
           Means("SS_SEMI")>>
           = <<"KW_CONST", "constdef", "{,constdef}", "SS_SEMI">>
  BY MeansAre, TokenMeans, ZenonT(30)
<1>7. /\ <<Means("SS_COMMA"), Means("parse_const_def"), Means("const_dec_more")>>
           = <<"SS_COMMA", "constdef", "{,constdef}">>
  BY MeansAre, TokenMeans, ZenonT(30)
<1>8. /\ Spells("block_pf", <<>>)
      /\ Spells("block_comp", <<"parse_comp_stmt">>)
      /\ Spells("block_comp", <<>>)
      /\ Spells("parse_const_dec", <<"KW_CONST", "parse_const_def", "const_dec_more", "SS_SEMI">>)
      /\ Spells("const_dec_more", <<"SS_COMMA", "parse_const_def", "const_dec_more">>)
      /\ Spells("const_dec_more", <<>>)
  BY <1>5, <1>6, <1>7, SpellsNothing, Spells1, Spells3, Spells4, PlainAre, CallingAre,
     MeansAre, ZenonT(60)
<1>9. /\ <<"MC_ID", "SS_EQU", "const">> \in Production("constdef")
      /\ <<"MC_CH">> \in Production("const")
      /\ <<"KW_VAR", "vardef", "SS_SEMI", "{vardef;}">> \in Production("vardec")
      /\ <<"vardef", "SS_SEMI", "{vardef;}">> \in Production("{vardef;}")
      /\ <<>> \in Production("{vardef;}")
      /\ <<"MC_ID", "{,ident}", "SS_COLON", "type">> \in Production("vardef")
  BY DEF Production, Optional
<1>10. /\ <<Means("READCURR"), Means("SS_EQU"), Means("const_value")>>
           = <<"MC_ID", "SS_EQU", "const">>
      /\ <<Means("MC_CH")>> = <<"MC_CH">>
  BY MeansAre, TokenMeans, ZenonT(30)
<1>11. /\ <<Means("KW_VAR"), Means("parse_var_def"), Means("SS_SEMI"), Means("var_dec_more")>>
           = <<"KW_VAR", "vardef", "SS_SEMI", "{vardef;}">>
      /\ <<Means("parse_var_def"), Means("SS_SEMI"), Means("var_dec_more")>>
           = <<"vardef", "SS_SEMI", "{vardef;}">>
  BY MeansAre, TokenMeans, ZenonT(30)
<1>12. /\ <<Means("READCURR"), Means("more_idents"), Means("SS_COLON"), Means("var_type")>>
           = <<"MC_ID", "{,ident}", "SS_COLON", "type">>
  BY MeansAre, TokenMeans, ZenonT(30)
<1>13. /\ Spells("parse_const_def", <<"READCURR", "SS_EQU", "const_value">>)
      /\ Spells("const_value", <<"MC_CH">>)
      /\ Spells("parse_var_dec", <<"KW_VAR", "parse_var_def", "SS_SEMI", "var_dec_more">>)
      /\ Spells("var_dec_more", <<"parse_var_def", "SS_SEMI", "var_dec_more">>)
      /\ Spells("var_dec_more", <<>>)
      /\ Spells("parse_var_def", <<"READCURR", "more_idents", "SS_COLON", "var_type">>)
  BY <1>9, <1>10, <1>11, <1>12, SpellsNothing, Spells1, Spells3, Spells4, PlainAre, CallingAre,
     MeansAre, ZenonT(60)
<1>14. /\ <<"KW_ARRAY", "SS_LBRA", "MC_UNS", "SS_RBRA", "KW_OF",
            "basictype">> \in Production("type")
      /\ <<"SS_COMMA", "MC_ID", "{,ident}">> \in Production("{,ident}")
      /\ <<>> \in Production("{,ident}")
      /\ <<"KW_INTEGER">> \in Production("basictype")
      /\ <<"KW_UINTEGER">> \in Production("basictype")
      /\ <<"KW_CHAR">> \in Production("basictype")
  BY DEF Production, Optional
<1>15. /\ <<Means("KW_ARRAY"), Means("SS_LBRA"), Means("array_length"), Means("SS_RBRA"),
            Means("KW_OF"), Means("basictype")>>
           = <<"KW_ARRAY", "SS_LBRA", "MC_UNS", "SS_RBRA", "KW_OF", "basictype">>
      /\ <<Means("SS_COMMA"), Means("READCURR"), Means("more_idents")>>
           = <<"SS_COMMA", "MC_ID", "{,ident}">>
  BY MeansAre, TokenMeans, ZenonT(30)
<1>16. /\ <<Means("KW_INTEGER")>> = <<"KW_INTEGER">>
      /\ <<Means("KW_UINTEGER")>> = <<"KW_UINTEGER">>
  BY MeansAre, TokenMeans, ZenonT(30)
<1>17. /\ <<Means("KW_CHAR")>> = <<"KW_CHAR">>
  BY MeansAre, TokenMeans, ZenonT(30)
<1>18. /\ Spells("var_type", <<"KW_ARRAY", "SS_LBRA", "array_length", "SS_RBRA", "KW_OF",
                               "basictype">>)
      /\ Spells("more_idents", <<"SS_COMMA", "READCURR", "more_idents">>)
      /\ Spells("more_idents", <<>>)
      /\ Spells("basictype", <<"KW_INTEGER">>)
      /\ Spells("basictype", <<"KW_UINTEGER">>)
      /\ Spells("basictype", <<"KW_CHAR">>)
  BY <1>14, <1>15, <1>16, <1>17, SpellsNothing, Spells1, Spells3, Spells6, PlainAre,
     CallingAre, MeansAre, ZenonT(60)
<1>19. /\ <<"procdec", "[pfdeclist]">> \in Production("[pfdeclist]")
      /\ <<"fundec", "[pfdeclist]">> \in Production("[pfdeclist]")
      /\ <<>> \in Production("[pfdeclist]")
      /\ <<"procdef", "SS_SEMI", "{procdef;}">> \in Production("procdec")
      /\ <<"procdef", "SS_SEMI", "{procdef;}">> \in Production("{procdef;}")
      /\ <<>> \in Production("{procdef;}")
  BY DEF Production, Optional
<1>20. /\ <<Means("parse_proc_dec"), Means("parse_pf_dec_list")>>
           = <<"procdec", "[pfdeclist]">>
      /\ <<Means("parse_fun_dec"), Means("parse_pf_dec_list")>> = <<"fundec", "[pfdeclist]">>
  BY MeansAre, TokenMeans, ZenonT(30)
<1>21. /\ <<Means("parse_proc_def"), Means("SS_SEMI"), Means("proc_dec_more")>>
           = <<"procdef", "SS_SEMI", "{procdef;}">>
  BY MeansAre, TokenMeans, ZenonT(30)
<1>22. /\ Spells("parse_pf_dec_list", <<"parse_proc_dec", "parse_pf_dec_list">>)
      /\ Spells("parse_pf_dec_list", <<"parse_fun_dec", "parse_pf_dec_list">>)
      /\ Spells("parse_pf_dec_list", <<>>)
      /\ Spells("parse_proc_dec", <<"parse_proc_def", "SS_SEMI", "proc_dec_more">>)
      /\ Spells("proc_dec_more", <<"parse_proc_def", "SS_SEMI", "proc_dec_more">>)
      /\ Spells("proc_dec_more", <<>>)
  BY <1>19, <1>20, <1>21, SpellsNothing, Spells2, Spells3, PlainAre, CallingAre, MeansAre,
     ZenonT(60)
<1>23. /\ <<"fundef", "SS_SEMI", "{fundef;}">> \in Production("fundec")
      /\ <<"fundef", "SS_SEMI", "{fundef;}">> \in Production("{fundef;}")
      /\ <<>> \in Production("{fundef;}")
      /\ <<"prochead", "block">> \in Production("procdef")
      /\ <<"funhead", "block">> \in Production("fundef")
      /\ <<"KW_PROCEDURE", "MC_ID", "SS_LPAR", "[paralist]", "SS_RPAR",
           "SS_SEMI">> \in Production("prochead")
  BY DEF Production, Optional
<1>24. /\ <<Means("parse_fun_def"), Means("SS_SEMI"), Means("fun_dec_more")>>
           = <<"fundef", "SS_SEMI", "{fundef;}">>
      /\ <<Means("parse_proc_head"), Means("parse_block")>> = <<"prochead", "block">>
  BY MeansAre, TokenMeans, ZenonT(30)
<1>25. /\ <<Means("parse_fun_head"), Means("parse_block")>> = <<"funhead", "block">>
      /\ <<Means("KW_PROCEDURE"), Means("READCURR"), Means("SS_LPAR"), Means("head_paras"),
           Means("SS_RPAR"), Means("SS_SEMI")>>
           = <<"KW_PROCEDURE", "MC_ID", "SS_LPAR", "[paralist]", "SS_RPAR", "SS_SEMI">>
  BY MeansAre, TokenMeans, ZenonT(30)
<1>26. /\ Spells("parse_fun_dec", <<"parse_fun_def", "SS_SEMI", "fun_dec_more">>)
      /\ Spells("fun_dec_more", <<"parse_fun_def", "SS_SEMI", "fun_dec_more">>)
      /\ Spells("fun_dec_more", <<>>)
      /\ Spells("parse_proc_def", <<"parse_proc_head", "parse_block">>)
      /\ Spells("parse_fun_def", <<"parse_fun_head", "parse_block">>)
      /\ Spells("parse_proc_head", <<"KW_PROCEDURE", "READCURR", "SS_LPAR", "head_paras",
                                     "SS_RPAR", "SS_SEMI">>)
  BY <1>23, <1>24, <1>25, SpellsNothing, Spells2, Spells3, Spells6, PlainAre, CallingAre,
     MeansAre, ZenonT(60)
<1>27. /\ <<"KW_FUNCTION", "MC_ID", "SS_LPAR", "[paralist]", "SS_RPAR", "SS_COLON",
            "basictype", "SS_SEMI">> \in Production("funhead")
      /\ <<"paralist">> \in Production("[paralist]")
      /\ <<>> \in Production("[paralist]")
      /\ <<"paradef", "{;paradef}">> \in Production("paralist")
      /\ <<"SS_SEMI", "paradef", "{;paradef}">> \in Production("{;paradef}")
      /\ <<>> \in Production("{;paradef}")
  BY DEF Production, Optional
<1>28. /\ <<Means("KW_FUNCTION"), Means("READCURR"), Means("SS_LPAR"), Means("head_paras"),
            Means("SS_RPAR"), Means("SS_COLON"), Means("basictype"), Means("SS_SEMI")>>
           = <<"KW_FUNCTION", "MC_ID", "SS_LPAR", "[paralist]", "SS_RPAR", "SS_COLON",
               "basictype", "SS_SEMI">>
      /\ <<Means("parse_para_list")>> = <<"paralist">>
  BY MeansAre, TokenMeans, ZenonT(30)
<1>29. /\ <<Means("parse_para_def"), Means("para_list_more")>> = <<"paradef", "{;paradef}">>
      /\ <<Means("SS_SEMI"), Means("parse_para_def"), Means("para_list_more")>>
           = <<"SS_SEMI", "paradef", "{;paradef}">>
  BY MeansAre, TokenMeans, ZenonT(30)
<1>30. /\ Spells("parse_fun_head", <<"KW_FUNCTION", "READCURR", "SS_LPAR", "head_paras",
                                     "SS_RPAR", "SS_COLON", "basictype", "SS_SEMI">>)
      /\ Spells("head_paras", <<"parse_para_list">>)
      /\ Spells("head_paras", <<>>)
      /\ Spells("parse_para_list", <<"parse_para_def", "para_list_more">>)
      /\ Spells("para_list_more", <<"SS_SEMI", "parse_para_def", "para_list_more">>)
      /\ Spells("para_list_more", <<>>)
  BY <1>27, <1>28, <1>29, SpellsNothing, Spells1, Spells2, Spells3, Spells8, PlainAre,
     CallingAre, MeansAre, ZenonT(60)
<1>31. /\ <<"KW_VAR", "MC_ID", "{,ident}", "SS_COLON", "basictype">> \in Production("paradef")
      /\ <<"MC_ID", "{,ident}", "SS_COLON", "basictype">> \in Production("paradef")
  BY DEF Production, Optional
<1>32. /\ <<Means("KW_VAR"), Means("READCURR"), Means("more_idents"), Means("SS_COLON"),
            Means("basictype")>>
           = <<"KW_VAR", "MC_ID", "{,ident}", "SS_COLON", "basictype">>
      /\ <<Means("READCURR"), Means("more_idents"), Means("SS_COLON"), Means("basictype")>>
           = <<"MC_ID", "{,ident}", "SS_COLON", "basictype">>
  BY MeansAre, TokenMeans, ZenonT(30)
<1>33. /\ Spells("parse_para_def", <<"KW_VAR", "READCURR", "more_idents", "SS_COLON",
                                     "basictype">>)
      /\ Spells("parse_para_def", <<"READCURR", "more_idents", "SS_COLON", "basictype">>)
  BY <1>31, <1>32, Spells4, Spells5, PlainAre, CallingAre, MeansAre, ZenonT(60)
<1>. QED  BY <1>4, <1>8, <1>13, <1>18, <1>22, <1>26, <1>30, <1>33

LEMMA SpelledStatements ==
  /\ Spells("parse_stmt", <<"parse_if_stmt">>)
  /\ Spells("parse_stmt", <<"parse_repe_stmt">>)
  /\ Spells("parse_stmt", <<"parse_comp_stmt">>)
  /\ Spells("parse_stmt", <<"parse_read_stmt">>)
  /\ Spells("parse_stmt", <<"parse_write_stmt">>)
  /\ Spells("parse_stmt", <<"parse_for_stmt">>)
  /\ Spells("parse_stmt", <<>>)
  /\ Spells("parse_if_stmt", <<"KW_IF", "parse_cond", "KW_THEN", "parse_stmt", "if_else">>)
  /\ Spells("if_else", <<"KW_ELSE", "parse_stmt">>)
  /\ Spells("if_else", <<>>)
  /\ Spells("parse_repe_stmt", <<"KW_REPEAT", "parse_stmt", "KW_UNTIL", "parse_cond">>)
  /\ Spells("parse_for_stmt", <<"KW_FOR", "READCURR", "SS_ASGN", "parse_expr", "for_to",
                                "parse_expr", "KW_DO", "parse_stmt">>)
  /\ Spells("for_to", <<"KW_TO">>)
  /\ Spells("for_to", <<"KW_DOWNTO">>)
  /\ Spells("parse_comp_stmt", <<"KW_BEGIN", "parse_stmt", "comp_more", "KW_END">>)
  /\ Spells("comp_more", <<"SS_SEMI", "parse_stmt", "comp_more">>)
  /\ Spells("comp_more", <<>>)
  /\ Spells("parse_read_stmt", <<"KW_READ", "SS_LPAR", "READCURR", "more_idents", "SS_RPAR">>)
  /\ Spells("parse_write_stmt", <<"KW_WRITE", "SS_LPAR", "written", "SS_RPAR">>)
  /\ Spells("written", <<"MC_STR", "written_more">>)
  /\ Spells("written", <<"parse_expr">>)
  /\ Spells("written_more", <<"SS_COMMA", "parse_expr">>)
  /\ Spells("written_more", <<>>)
  /\ Spells("arguments", <<"parse_arg_list">>)
  /\ Spells("arguments", <<>>)
  /\ Spells("parse_arg_list", <<"parse_expr", "arg_list_more">>)
  /\ Spells("arg_list_more", <<"SS_COMMA", "parse_expr", "arg_list_more">>)
  /\ Spells("arg_list_more", <<>>)
<1>1. /\ <<"ifstmt">> \in Production("statement")
      /\ <<"repeatstmt">> \in Production("statement")
      /\ <<"compstmt">> \in Production("statement")
      /\ <<"readstmt">> \in Production("statement")
      /\ <<"writestmt">> \in Production("statement")
      /\ <<"forstmt">> \in Production("statement")
  BY DEF Production, Optional
<1>2. /\ <<Means("parse_if_stmt")>> = <<"ifstmt">>
      /\ <<Means("parse_repe_stmt")>> = <<"repeatstmt">>
  BY MeansAre, TokenMeans, ZenonT(30)
<1>3. /\ <<Means("parse_comp_stmt")>> = <<"compstmt">>
      /\ <<Means("parse_read_stmt")>> = <<"readstmt">>
  BY MeansAre, TokenMeans, ZenonT(30)
<1>4. /\ <<Means("parse_write_stmt")>> = <<"writestmt">>
      /\ <<Means("parse_for_stmt")>> = <<"forstmt">>
  BY MeansAre, TokenMeans, ZenonT(30)
<1>5. /\ Spells("parse_stmt", <<"parse_if_stmt">>)
      /\ Spells("parse_stmt", <<"parse_repe_stmt">>)
      /\ Spells("parse_stmt", <<"parse_comp_stmt">>)
      /\ Spells("parse_stmt", <<"parse_read_stmt">>)
      /\ Spells("parse_stmt", <<"parse_write_stmt">>)
      /\ Spells("parse_stmt", <<"parse_for_stmt">>)
  BY <1>1, <1>2, <1>3, <1>4, Spells1, PlainAre, CallingAre, MeansAre, ZenonT(60)
<1>6. /\ <<>> \in Production("statement")
      /\ <<"KW_IF", "condition", "KW_THEN", "statement",
           "[ELSE statement]">> \in Production("ifstmt")
      /\ <<"KW_ELSE", "statement">> \in Production("[ELSE statement]")
      /\ <<>> \in Production("[ELSE statement]")
      /\ <<"KW_REPEAT", "statement", "KW_UNTIL", "condition">> \in Production("repeatstmt")
      /\ <<"KW_FOR", "MC_ID", "SS_ASGN", "expression", "to", "expression", "KW_DO",
           "statement">> \in Production("forstmt")
  BY DEF Production, Optional
<1>7. /\ <<Means("KW_IF"), Means("parse_cond"), Means("KW_THEN"), Means("parse_stmt"),
           Means("if_else")>>
           = <<"KW_IF", "condition", "KW_THEN", "statement", "[ELSE statement]">>
      /\ <<Means("KW_ELSE"), Means("parse_stmt")>> = <<"KW_ELSE", "statement">>
  BY MeansAre, TokenMeans, ZenonT(30)
<1>8. /\ <<Means("KW_REPEAT"), Means("parse_stmt"), Means("KW_UNTIL"), Means("parse_cond")>>
           = <<"KW_REPEAT", "statement", "KW_UNTIL", "condition">>
      /\ <<Means("KW_FOR"), Means("READCURR"), Means("SS_ASGN"), Means("parse_expr"),
           Means("for_to"), Means("parse_expr"), Means("KW_DO"), Means("parse_stmt")>>
           = <<"KW_FOR", "MC_ID", "SS_ASGN", "expression", "to", "expression", "KW_DO",
               "statement">>
  BY MeansAre, TokenMeans, ZenonT(30)
<1>9. /\ Spells("parse_stmt", <<>>)
      /\ Spells("parse_if_stmt", <<"KW_IF", "parse_cond", "KW_THEN", "parse_stmt", "if_else">>)
      /\ Spells("if_else", <<"KW_ELSE", "parse_stmt">>)
      /\ Spells("if_else", <<>>)
      /\ Spells("parse_repe_stmt", <<"KW_REPEAT", "parse_stmt", "KW_UNTIL", "parse_cond">>)
      /\ Spells("parse_for_stmt", <<"KW_FOR", "READCURR", "SS_ASGN", "parse_expr", "for_to",
                                    "parse_expr", "KW_DO", "parse_stmt">>)
  BY <1>6, <1>7, <1>8, SpellsNothing, Spells2, Spells4, Spells5, Spells8, PlainAre, CallingAre,
     MeansAre, ZenonT(60)
<1>10. /\ <<"KW_TO">> \in Production("to")
      /\ <<"KW_DOWNTO">> \in Production("to")
      /\ <<"KW_BEGIN", "statement", "{;statement}", "KW_END">> \in Production("compstmt")
      /\ <<"SS_SEMI", "statement", "{;statement}">> \in Production("{;statement}")
      /\ <<>> \in Production("{;statement}")
      /\ <<"KW_READ", "SS_LPAR", "MC_ID", "{,ident}", "SS_RPAR">> \in Production("readstmt")
  BY DEF Production, Optional
<1>11. /\ <<Means("KW_TO")>> = <<"KW_TO">>
      /\ <<Means("KW_DOWNTO")>> = <<"KW_DOWNTO">>
  BY MeansAre, TokenMeans, ZenonT(30)
<1>12. /\ <<Means("KW_BEGIN"), Means("parse_stmt"), Means("comp_more"), Means("KW_END")>>
           = <<"KW_BEGIN", "statement", "{;statement}", "KW_END">>
      /\ <<Means("SS_SEMI"), Means("parse_stmt"), Means("comp_more")>>
           = <<"SS_SEMI", "statement", "{;statement}">>
  BY MeansAre, TokenMeans, ZenonT(30)
<1>13. /\ <<Means("KW_READ"), Means("SS_LPAR"), Means("READCURR"), Means("more_idents"),
            Means("SS_RPAR")>>
           = <<"KW_READ", "SS_LPAR", "MC_ID", "{,ident}", "SS_RPAR">>
  BY MeansAre, TokenMeans, ZenonT(30)
<1>14. /\ Spells("for_to", <<"KW_TO">>)
      /\ Spells("for_to", <<"KW_DOWNTO">>)
      /\ Spells("parse_comp_stmt", <<"KW_BEGIN", "parse_stmt", "comp_more", "KW_END">>)
      /\ Spells("comp_more", <<"SS_SEMI", "parse_stmt", "comp_more">>)
      /\ Spells("comp_more", <<>>)
      /\ Spells("parse_read_stmt", <<"KW_READ", "SS_LPAR", "READCURR", "more_idents", "SS_RPAR">>)
  BY <1>10, <1>11, <1>12, <1>13, SpellsNothing, Spells1, Spells3, Spells4, Spells5, PlainAre,
     CallingAre, MeansAre, ZenonT(60)
<1>15. /\ <<"KW_WRITE", "SS_LPAR", "written", "SS_RPAR">> \in Production("writestmt")
      /\ <<"MC_STR", "[,expression]">> \in Production("written")
      /\ <<"expression">> \in Production("written")
      /\ <<"SS_COMMA", "expression">> \in Production("[,expression]")
      /\ <<>> \in Production("[,expression]")
      /\ <<"arglist">> \in Production("[arglist]")
  BY DEF Production, Optional
<1>16. /\ <<Means("KW_WRITE"), Means("SS_LPAR"), Means("written"), Means("SS_RPAR")>>
           = <<"KW_WRITE", "SS_LPAR", "written", "SS_RPAR">>
      /\ <<Means("MC_STR"), Means("written_more")>> = <<"MC_STR", "[,expression]">>
  BY MeansAre, TokenMeans, ZenonT(30)
<1>17. /\ <<Means("parse_expr")>> = <<"expression">>
      /\ <<Means("SS_COMMA"), Means("parse_expr")>> = <<"SS_COMMA", "expression">>
  BY MeansAre, TokenMeans, ZenonT(30)
<1>18. /\ <<Means("parse_arg_list")>> = <<"arglist">>
  BY MeansAre, TokenMeans, ZenonT(30)
<1>19. /\ Spells("parse_write_stmt", <<"KW_WRITE", "SS_LPAR", "written", "SS_RPAR">>)
      /\ Spells("written", <<"MC_STR", "written_more">>)
      /\ Spells("written", <<"parse_expr">>)
      /\ Spells("written_more", <<"SS_COMMA", "parse_expr">>)
      /\ Spells("written_more", <<>>)
      /\ Spells("arguments", <<"parse_arg_list">>)
  BY <1>15, <1>16, <1>17, <1>18, SpellsNothing, Spells1, Spells2, Spells4, PlainAre,
     CallingAre, MeansAre, ZenonT(60)
<1>20. /\ <<>> \in Production("[arglist]")
      /\ <<"expression", "{,expression}">> \in Production("arglist")
      /\ <<"SS_COMMA", "expression", "{,expression}">> \in Production("{,expression}")
      /\ <<>> \in Production("{,expression}")
  BY DEF Production, Optional
<1>21. /\ <<Means("parse_expr"), Means("arg_list_more")>> = <<"expression", "{,expression}">>
      /\ <<Means("SS_COMMA"), Means("parse_expr"), Means("arg_list_more")>>
           = <<"SS_COMMA", "expression", "{,expression}">>
  BY MeansAre, TokenMeans, ZenonT(30)
<1>22. /\ Spells("arguments", <<>>)
      /\ Spells("parse_arg_list", <<"parse_expr", "arg_list_more">>)
      /\ Spells("arg_list_more", <<"SS_COMMA", "parse_expr", "arg_list_more">>)
      /\ Spells("arg_list_more", <<>>)
  BY <1>20, <1>21, SpellsNothing, Spells2, Spells3, PlainAre, CallingAre, MeansAre, ZenonT(60)
<1>. QED  BY <1>5, <1>9, <1>14, <1>19, <1>22

LEMMA SpelledExpressions ==
  /\ Spells("expr_more", <<"SS_PLUS", "parse_term", "expr_more">>)
  /\ Spells("expr_more", <<"SS_MINUS", "parse_term", "expr_more">>)
  /\ Spells("expr_more", <<>>)
  /\ Spells("parse_term", <<"parse_factor", "term_more">>)
  /\ Spells("term_more", <<"SS_STAR", "parse_factor", "term_more">>)
  /\ Spells("term_more", <<"SS_OVER", "parse_factor", "term_more">>)
  /\ Spells("term_more", <<>>)
  /\ Spells("parse_factor", <<"MC_UNS">>)
  /\ Spells("parse_factor", <<"MC_CH">>)
  /\ Spells("parse_factor", <<"SS_LPAR", "parse_expr", "SS_RPAR">>)
  /\ Spells("parse_cond", <<"parse_expr", "relop", "parse_expr">>)
  /\ Spells("relop", <<"SS_EQU">>)
  /\ Spells("relop", <<"SS_LST">>)
  /\ Spells("relop", <<"SS_LEQ">>)
  /\ Spells("relop", <<"SS_GTT">>)
  /\ Spells("relop", <<"SS_GEQ">>)
  /\ Spells("relop", <<"SS_NEQ">>)
<1>1. /\ <<"SS_PLUS", "term", "{addop term}">> \in Production("{addop term}")
      /\ <<"SS_MINUS", "term", "{addop term}">> \in Production("{addop term}")
      /\ <<>> \in Production("{addop term}")
      /\ <<"factor", "{multop factor}">> \in Production("term")
      /\ <<"SS_STAR", "factor", "{multop factor}">> \in Production("{multop factor}")
      /\ <<"SS_OVER", "factor", "{multop factor}">> \in Production("{multop factor}")
  BY DEF Production, Optional
<1>2. /\ <<Means("SS_PLUS"), Means("parse_term"), Means("expr_more")>>
           = <<"SS_PLUS", "term", "{addop term}">>
      /\ <<Means("SS_MINUS"), Means("parse_term"), Means("expr_more")>>
           = <<"SS_MINUS", "term", "{addop term}">>
  BY MeansAre, TokenMeans, ZenonT(30)
<1>3. /\ <<Means("parse_factor"), Means("term_more")>> = <<"factor", "{multop factor}">>
      /\ <<Means("SS_STAR"), Means("parse_factor"), Means("term_more")>>
           = <<"SS_STAR", "factor", "{multop factor}">>
  BY MeansAre, TokenMeans, ZenonT(30)
<1>4. /\ <<Means("SS_OVER"), Means("parse_factor"), Means("term_more")>>
           = <<"SS_OVER", "factor", "{multop factor}">>
  BY MeansAre, TokenMeans, ZenonT(30)
<1>5. /\ Spells("expr_more", <<"SS_PLUS", "parse_term", "expr_more">>)
      /\ Spells("expr_more", <<"SS_MINUS", "parse_term", "expr_more">>)
      /\ Spells("expr_more", <<>>)
      /\ Spells("parse_term", <<"parse_factor", "term_more">>)
      /\ Spells("term_more", <<"SS_STAR", "parse_factor", "term_more">>)
      /\ Spells("term_more", <<"SS_OVER", "parse_factor", "term_more">>)
  BY <1>1, <1>2, <1>3, <1>4, SpellsNothing, Spells2, Spells3, PlainAre, CallingAre, MeansAre,
     ZenonT(60)
<1>6. /\ <<>> \in Production("{multop factor}")
      /\ <<"MC_UNS">> \in Production("factor")
      /\ <<"MC_CH">> \in Production("factor")
      /\ <<"SS_LPAR", "expression", "SS_RPAR">> \in Production("factor")
      /\ <<"expression", "relop", "expression">> \in Production("condition")
      /\ <<"SS_EQU">> \in Production("relop")
  BY DEF Production, Optional
<1>7. /\ <<Means("MC_UNS")>> = <<"MC_UNS">>
      /\ <<Means("MC_CH")>> = <<"MC_CH">>
  BY MeansAre, TokenMeans, ZenonT(30)
<1>8. /\ <<Means("SS_LPAR"), Means("parse_expr"), Means("SS_RPAR")>>
           = <<"SS_LPAR", "expression", "SS_RPAR">>
      /\ <<Means("parse_expr"), Means("relop"), Means("parse_expr")>>
           = <<"expression", "relop", "expression">>
  BY MeansAre, TokenMeans, ZenonT(30)
<1>9. /\ <<Means("SS_EQU")>> = <<"SS_EQU">>
  BY MeansAre, TokenMeans, ZenonT(30)
<1>10. /\ Spells("term_more", <<>>)
      /\ Spells("parse_factor", <<"MC_UNS">>)
      /\ Spells("parse_factor", <<"MC_CH">>)
      /\ Spells("parse_factor", <<"SS_LPAR", "parse_expr", "SS_RPAR">>)
      /\ Spells("parse_cond", <<"parse_expr", "relop", "parse_expr">>)
      /\ Spells("relop", <<"SS_EQU">>)
  BY <1>6, <1>7, <1>8, <1>9, SpellsNothing, Spells1, Spells3, PlainAre, CallingAre, MeansAre,
     ZenonT(60)
<1>11. /\ <<"SS_LST">> \in Production("relop")
      /\ <<"SS_LEQ">> \in Production("relop")
      /\ <<"SS_GTT">> \in Production("relop")
      /\ <<"SS_GEQ">> \in Production("relop")
      /\ <<"SS_NEQ">> \in Production("relop")
  BY DEF Production, Optional
<1>12. /\ <<Means("SS_LST")>> = <<"SS_LST">>
      /\ <<Means("SS_LEQ")>> = <<"SS_LEQ">>
  BY MeansAre, TokenMeans, ZenonT(30)
<1>13. /\ <<Means("SS_GTT")>> = <<"SS_GTT">>
      /\ <<Means("SS_GEQ")>> = <<"SS_GEQ">>
  BY MeansAre, TokenMeans, ZenonT(30)
<1>14. /\ <<Means("SS_NEQ")>> = <<"SS_NEQ">>
  BY MeansAre, TokenMeans, ZenonT(30)
<1>15. /\ Spells("relop", <<"SS_LST">>)
      /\ Spells("relop", <<"SS_LEQ">>)
      /\ Spells("relop", <<"SS_GTT">>)
      /\ Spells("relop", <<"SS_GEQ">>)
      /\ Spells("relop", <<"SS_NEQ">>)
  BY <1>11, <1>12, <1>13, <1>14, Spells1, PlainAre, CallingAre, MeansAre, ZenonT(60)
<1>. QED  BY <1>5, <1>10, <1>15

\* Tuples put together.
LEMMA Joined1 == ASSUME NEW a  PROVE <<>> \o <<a>> = <<a>> /\ <<a>> \o <<>> = <<a>>
<1>1. <<a>> \in Seq({a})  OBVIOUS
<1>. QED  BY <1>1

LEMMA JoinedNone == ASSUME NEW a, NEW b  PROVE <<>> \o <<a, b>> = <<a, b>>
<1>1. <<a, b>> \in Seq({a, b})  OBVIOUS
<1>. QED  BY <1>1

LEMMA Joined2 ==
  ASSUME NEW a, NEW b
  PROVE  <<a>> \o <<b>> = <<a, b>>
<1>. DEFINE S == {a, b}
            u == <<b>>
            s == <<a>> \o u
            w == <<a, b>>
<1>1. <<a>> \in Seq(S) /\ u \in Seq(S) /\ w \in Seq(S)  OBVIOUS
<1>. HIDE DEF S
<1>2. s \in Seq(S) /\ Len(s) = 2  BY <1>1
<1>3. s[1] = a /\ s[2] = b  BY <1>1
<1>. HIDE DEF s
<1>4. Len(w) = 2 /\ \A i \in 1..2 : s[i] = w[i]  BY <1>3
<1>5. s = w  BY <1>1, <1>2, <1>4, SeqEqual
<1>. QED  BY <1>5 DEF s, w

LEMMA Joined3 ==
  ASSUME NEW a, NEW b, NEW c
  PROVE  <<a>> \o <<b, c>> = <<a, b, c>>
<1>. DEFINE S == {a, b, c}
            u == <<b, c>>
            s == <<a>> \o u
            w == <<a, b, c>>
<1>1. <<a>> \in Seq(S) /\ u \in Seq(S) /\ w \in Seq(S)  OBVIOUS
<1>. HIDE DEF S
<1>2. s \in Seq(S) /\ Len(s) = 3  BY <1>1
<1>3. s[1] = a /\ s[2] = b /\ s[3] = c  BY <1>1
<1>. HIDE DEF s
<1>4. Len(w) = 3 /\ \A i \in 1..3 : s[i] = w[i]  BY <1>3
<1>5. s = w  BY <1>1, <1>2, <1>4, SeqEqual
<1>. QED  BY <1>5 DEF s, w

LEMMA Joined4 ==
  ASSUME NEW a, NEW b, NEW c, NEW d
  PROVE  <<a>> \o <<b, c, d>> = <<a, b, c, d>>
<1>. DEFINE S == {a, b, c, d}
            u == <<b, c, d>>
            s == <<a>> \o u
            w == <<a, b, c, d>>
<1>1. <<a>> \in Seq(S) /\ u \in Seq(S) /\ w \in Seq(S)  OBVIOUS
<1>. HIDE DEF S
<1>2. s \in Seq(S) /\ Len(s) = 4  BY <1>1
<1>3. s[1] = a /\ s[2] = b /\ s[3] = c /\ s[4] = d  BY <1>1
<1>. HIDE DEF s
<1>4. Len(w) = 4 /\ \A i \in 1..4 : s[i] = w[i]  BY <1>3
<1>5. s = w  BY <1>1, <1>2, <1>4, SeqEqual
<1>. QED  BY <1>5 DEF s, w

LEMMA Joined5 ==
  ASSUME NEW a, NEW b, NEW c, NEW d, NEW e
  PROVE  <<a>> \o <<b, c, d, e>> = <<a, b, c, d, e>>
<1>. DEFINE S == {a, b, c, d, e}
            u == <<b, c, d, e>>
            s == <<a>> \o u
            w == <<a, b, c, d, e>>
<1>1. <<a>> \in Seq(S) /\ u \in Seq(S) /\ w \in Seq(S)  OBVIOUS
<1>. HIDE DEF S
<1>2. s \in Seq(S) /\ Len(s) = 5  BY <1>1
<1>3. s[1] = a /\ s[2] = b /\ s[3] = c /\ s[4] = d /\ s[5] = e  BY <1>1
<1>. HIDE DEF s
<1>4. Len(w) = 5 /\ \A i \in 1..5 : s[i] = w[i]  BY <1>3
<1>5. s = w  BY <1>1, <1>2, <1>4, SeqEqual
<1>. QED  BY <1>5 DEF s, w

LEMMA Joined6 ==
  ASSUME NEW a, NEW b, NEW c, NEW d, NEW e, NEW g
  PROVE  <<a>> \o <<b, c, d, e, g>> = <<a, b, c, d, e, g>>
<1>. DEFINE S == {a, b, c, d, e, g}
            u == <<b, c, d, e, g>>
            s == <<a>> \o u
            w == <<a, b, c, d, e, g>>
<1>1. <<a>> \in Seq(S) /\ u \in Seq(S) /\ w \in Seq(S)  OBVIOUS
<1>. HIDE DEF S
<1>2. s \in Seq(S) /\ Len(s) = 6  BY <1>1
<1>3. s[1] = a /\ s[2] = b /\ s[3] = c /\ s[4] = d /\ s[5] = e /\ s[6] = g  BY <1>1
<1>. HIDE DEF s
<1>4. Len(w) = 6 /\ \A i \in 1..6 : s[i] = w[i]  BY <1>3
<1>5. s = w  BY <1>1, <1>2, <1>4, SeqEqual
<1>. QED  BY <1>5 DEF s, w

\* A function that reads the same symbol as the one code it leaves.
LEMMA SpellsSame ==
  ASSUME NEW f \in Calling, NEW a \in Plain, Means(a) = Means(f)  PROVE Spells(f, <<a>>)
<1>1. <<a>> \in Seq(Plain) /\ Image(<<a>>) = <<Means(f)>>  BY PlainTuple, ImageTuple
<1>2. Yields(<<Means(f)>>, Image(<<a>>))  BY <1>1 DEF Yields
<1>. QED  BY <1>1, <1>2 DEF Spells

LEMMA SpelledSame ==
  /\ Spells("array_length", <<"MC_UNS">>)
  /\ Spells("block_pf", <<"parse_pf_dec_list">>)
  /\ Spells("READCURR", <<"MC_ID">>)
<1>1. Spells("array_length", <<"MC_UNS">>)
  <2>1. "array_length" \in Calling  BY DEF Calling
  <2>2. Means("MC_UNS") = Means("array_length")  BY MeansAre, TokenMeans
  <2>. QED  BY <2>1, <2>2, SpellsSame, PlainAre
<1>2. Spells("block_pf", <<"parse_pf_dec_list">>)
  <2>1. "block_pf" \in Calling  BY DEF Calling
  <2>2. Means("parse_pf_dec_list") = Means("block_pf")  BY MeansAre
  <2>. QED  BY <2>1, <2>2, SpellsSame, PlainAre
<1>3. Spells("READCURR", <<"MC_ID">>)
  <2>1. "READCURR" \in Calling  BY DEF Calling
  <2>2. Means("MC_ID") = Means("READCURR")  BY MeansAre, TokenMeans
  <2>. QED  BY <2>1, <2>2, SpellsSame, PlainAre
<1>. QED  BY <1>1, <1>2, <1>3

\* A sign in front is a production of its own in the comments, and so is the
\* basic type of a variable.
LEMMA SpelledSigns ==
  /\ Spells("const_value", <<"SS_PLUS", "MC_UNS">>)
  /\ Spells("const_value", <<"SS_MINUS", "MC_UNS">>)
  /\ Spells("const_value", <<"MC_UNS">>)
  /\ Spells("parse_expr", <<"SS_PLUS", "parse_term", "expr_more">>)
  /\ Spells("parse_expr", <<"SS_MINUS", "parse_term", "expr_more">>)
  /\ Spells("parse_expr", <<"parse_term", "expr_more">>)
<1>1. /\ <<"SS_PLUS">> \in Production("[+|-]") /\ <<"SS_MINUS">> \in Production("[+|-]")
      /\ <<>> \in Production("[+|-]")
      /\ <<"[+|-]", "MC_UNS">> \in Production("const")
      /\ <<"[+|-]", "term", "{addop term}">> \in Production("expression")
  BY DEF Production
<1>2. /\ "[+|-]" \in Nonterminal /\ "const" \in Nonterminal /\ "expression" \in Nonterminal
      /\ <<"MC_UNS">> \in Form /\ <<"term", "{addop term}">> \in Form
  BY DEF Nonterminal, Form, Symbol, Token
<1>3. ASSUME NEW rhs \in Production("[+|-]")
      PROVE  /\ Yields(<<"const">>, rhs \o <<"MC_UNS">>)
             /\ Yields(<<"expression">>, rhs \o <<"term", "{addop term}">>)
  <2>1. /\ <<"[+|-]">> \o <<"MC_UNS">> \in Production("const")
        /\ <<"[+|-]">> \o <<"term", "{addop term}">> \in Production("expression")
    BY <1>1, Joined2, Joined3
  <2>. QED  BY <1>2, <2>1, YieldsTwo
<1>4. /\ Yields(<<"const">>, <<"SS_PLUS", "MC_UNS">>)
      /\ Yields(<<"const">>, <<"SS_MINUS", "MC_UNS">>)
      /\ Yields(<<"const">>, <<"MC_UNS">>)
      /\ Yields(<<"expression">>, <<"SS_PLUS", "term", "{addop term}">>)
      /\ Yields(<<"expression">>, <<"SS_MINUS", "term", "{addop term}">>)
      /\ Yields(<<"expression">>, <<"term", "{addop term}">>)
  BY <1>1, <1>3, Joined1, JoinedNone, Joined2, Joined3
<1>5. /\ Image(<<"SS_PLUS", "MC_UNS">>) = <<"SS_PLUS", "MC_UNS">>
      /\ Image(<<"SS_MINUS", "MC_UNS">>) = <<"SS_MINUS", "MC_UNS">>
      /\ Image(<<"MC_UNS">>) = <<"MC_UNS">>
  <2>1. /\ <<Means("SS_PLUS"), Means("MC_UNS")>> = <<"SS_PLUS", "MC_UNS">>
        /\ <<Means("SS_MINUS"), Means("MC_UNS")>> = <<"SS_MINUS", "MC_UNS">>
    BY TokenMeans, ZenonT(30)
  <2>2. <<Means("MC_UNS")>> = <<"MC_UNS">>  BY TokenMeans
  <2>. QED  BY <2>1, <2>2, ImageTuple
<1>6. /\ Image(<<"SS_PLUS", "parse_term", "expr_more">>) = <<"SS_PLUS", "term", "{addop term}">>
      /\ Image(<<"SS_MINUS", "parse_term", "expr_more">>) = <<"SS_MINUS", "term", "{addop term}">>
      /\ Image(<<"parse_term", "expr_more">>) = <<"term", "{addop term}">>
  <2>1. /\ <<Means("SS_PLUS"), Means("parse_term"), Means("expr_more")>>
             = <<"SS_PLUS", "term", "{addop term}">>
        /\ <<Means("SS_MINUS"), Means("parse_term"), Means("expr_more")>>
             = <<"SS_MINUS", "term", "{addop term}">>
    BY TokenMeans, MeansAre, ZenonT(30)
  <2>2. <<Means("parse_term"), Means("expr_more")>> = <<"term", "{addop term}">>
    BY MeansAre, ZenonT(30)
  <2>. QED  BY <2>1, <2>2, ImageTuple
<1>7. /\ <<"SS_PLUS", "MC_UNS">> \in Seq(Plain) /\ <<"SS_MINUS", "MC_UNS">> \in Seq(Plain)
      /\ <<"MC_UNS">> \in Seq(Plain)
      /\ <<"SS_PLUS", "parse_term", "expr_more">> \in Seq(Plain)
      /\ <<"SS_MINUS", "parse_term", "expr_more">> \in Seq(Plain)
      /\ <<"parse_term", "expr_more">> \in Seq(Plain)
  BY PlainTuple, PlainAre
<1>8. /\ "const_value" \in Calling /\ Means("const_value") = "const"
      /\ "parse_expr" \in Calling /\ Means("parse_expr") = "expression"
  <2>1. "const_value" \in Calling /\ "parse_expr" \in Calling  BY DEF Calling
  <2>. QED  BY <2>1, MeansAre
<1>. QED  BY <1>4, <1>5, <1>6, <1>7, <1>8 DEF Spells

LEMMA SpelledTypes ==
  \A t \in BasicType : Spells("basictype", <<t>>) /\ Spells("var_type", <<t>>)
<1>. SUFFICES ASSUME NEW t \in BasicType
              PROVE  Spells("basictype", <<t>>) /\ Spells("var_type", <<t>>)
  OBVIOUS
<1>1. Spells("basictype", <<t>>)  BY SpelledDeclarations DEF BasicType
<1>2. /\ "basictype" \in Nonterminal /\ <<"basictype">> \in Production("type")
      /\ "type" \in Nonterminal
  BY DEF Nonterminal, Production
<1>3. Yields(<<"type">>, <<"basictype">>)  BY <1>2, YieldsRule
<1>4. Yields(<<"basictype">>, Image(<<t>>)) /\ <<t>> \in Seq(Plain)
  BY <1>1, MeansAre DEF Spells
<1>5. "var_type" \in Calling /\ Means("var_type") = "type"  BY CallingAre, MeansAre
<1>6. Yields(<<"type">>, Image(<<t>>))  BY <1>3, <1>4, YieldsTwice
<1>. QED  BY <1>1, <1>4, <1>5, <1>6 DEF Spells

\* What follows a name in a statement, and in an expression.
LEMMA SpelledNames ==
  /\ \A r \in Rest("ident_stmt") : Yields(<<Means("parse_stmt")>>, <<"MC_ID">> \o r)
  /\ \A r \in Rest("ident_factor") : Yields(<<Means("parse_factor")>>, <<"MC_ID">> \o r)
<1>1. /\ <<"MC_ID">> \o <<"SS_ASGN", "expression">> = <<"MC_ID", "SS_ASGN", "expression">>
      /\ <<"MC_ID">> \o <<"SS_LBRA", "expression", "SS_RBRA", "SS_ASGN", "expression">>
           = <<"MC_ID", "SS_LBRA", "expression", "SS_RBRA", "SS_ASGN", "expression">>
      /\ <<"MC_ID">> \o Called = <<"MC_ID", "SS_LPAR", "[arglist]", "SS_RPAR">>
      /\ <<"MC_ID">> \o Indexed = <<"MC_ID", "SS_LBRA", "expression", "SS_RBRA">>
      /\ <<"MC_ID">> \o <<>> = <<"MC_ID">>
  BY Joined1, Joined3, Joined4, Joined6 DEF Called, Indexed
<1>2. /\ <<"assignstmt">> \in Production("statement")
      /\ <<"pcallstmt">> \in Production("statement")
      /\ <<"fcallstmt">> \in Production("factor")
  BY DEF Production
<1>3. /\ <<"MC_ID", "SS_ASGN", "expression">> \in Production("assignstmt")
      /\ <<"MC_ID", "SS_LBRA", "expression", "SS_RBRA", "SS_ASGN", "expression">>
           \in Production("assignstmt")
      /\ <<"MC_ID", "SS_LPAR", "[arglist]", "SS_RPAR">> \in Production("pcallstmt")
  BY DEF Production
<1>4. /\ <<"MC_ID", "SS_LPAR", "[arglist]", "SS_RPAR">> \in Production("fcallstmt")
      /\ <<"MC_ID">> \in Production("factor")
      /\ <<"MC_ID", "SS_LBRA", "expression", "SS_RBRA">> \in Production("factor")
  BY DEF Production
<1>5. /\ "statement" \in Nonterminal /\ "assignstmt" \in Nonterminal
      /\ "pcallstmt" \in Nonterminal /\ "factor" \in Nonterminal /\ "fcallstmt" \in Nonterminal
  BY DEF Nonterminal
<1>6. ASSUME NEW n \in Nonterminal, NEW m \in Nonterminal, <<m>> \in Production(n),
             NEW rhs \in Production(m)
      PROVE  Yields(<<n>>, rhs)
  <2>1. Yields(<<n>>, <<m>>) /\ Yields(<<m>>, rhs)  BY <1>6, YieldsRule
  <2>. QED  BY <2>1, YieldsTwice
<1>7. \A r \in Rest("ident_stmt") : Yields(<<"statement">>, <<"MC_ID">> \o r)
  <2>1. /\ Yields(<<"statement">>, <<"MC_ID", "SS_ASGN", "expression">>)
        /\ Yields(<<"statement">>,
                  <<"MC_ID", "SS_LBRA", "expression", "SS_RBRA", "SS_ASGN", "expression">>)
        /\ Yields(<<"statement">>, <<"MC_ID", "SS_LPAR", "[arglist]", "SS_RPAR">>)
    BY <1>2, <1>3, <1>5, <1>6
  <2>. QED  BY <1>1, <2>1, RestAre DEF Assigning
<1>8. \A r \in Rest("ident_factor") : Yields(<<"factor">>, <<"MC_ID">> \o r)
  <2>1. Yields(<<"factor">>, <<"MC_ID", "SS_LPAR", "[arglist]", "SS_RPAR">>)
    BY <1>2, <1>4, <1>5, <1>6
  <2>2. /\ Yields(<<"factor">>, <<"MC_ID">>)
        /\ Yields(<<"factor">>, <<"MC_ID", "SS_LBRA", "expression", "SS_RBRA">>)
    BY <1>4, <1>5, YieldsRule
  <2>. QED  BY <1>1, <2>1, <2>2, RestAre
<1>. QED  BY <1>7, <1>8, MeansAre

-----------------------------------------------------------------------------
(* The steps of the functions                                              *)

\* if (TOKANY...): what is left out may be left out.
LEMMA WhenRun ==
  \A f, toks, body :
    /\ ParserInv /\ Runs(f, WhenTok(toks, body))
    /\ currtok \in toks => Spells(f, body)
    /\ Spells(f, <<>>)
    => ParserInv'
BY SpellsRun DEF WhenTok

LEMMA Fails ==
  \A f : ParserInv /\ f # "MC_ID" /\ Runs(f, <<"unlikely">>) => ParserInv'
<1>1. <<"unlikely">> \in Later /\ 1 \in 1..Len(<<"unlikely">>) /\ <<"unlikely">>[1] \in Erring
  BY DEF Later, Erring
<1>. QED  BY <1>1, ErringRun

LEMMA SwitchRun ==
  \A f, toks :
    /\ ParserInv /\ Runs(f, Switch(toks))
    /\ \A t \in toks : Spells(f, <<t>>)
    /\ f # "MC_ID"
    => ParserInv'
BY SpellsRun, Fails DEF Switch

\* Code behind a name that leaves only other such code.
LEMMA NamingOnly ==
  ASSUME ParserInv, NEW f \in Naming, NEW g \in Naming, Runs(f, <<g>>),
         Rest(g) \subseteq Rest(f),
         g = "parse_assign_stmt" => currtok \in {"SS_ASGN", "SS_LBRA"}
  PROVE  ParserInv'
<1>1. <<g>> = <<g>> \o <<>> /\ <<>> \in Seq(Plain \cup Erring) /\ Image(<<>>) = <<>>
  <2>1. <<g>> = <<g>> \o <<>>  BY Joined1
  <2>2. <<>> \in Seq(Plain \cup Erring)  OBVIOUS
  <2>3. Image(<<>>) = <<>>  BY ImageTuple
  <2>. QED  BY <2>1, <2>2, <2>3
<1>2. \A r \in Rest(g) : r \o Image(<<>>) \in Rest(f)
  <2>1. \A r \in Rest(g) : r \in Seq(Symbol)  BY RestType DEF Form
  <2>2. \A r \in Rest(g) : r \o <<>> = r  BY <2>1
  <2>. QED  BY <1>1, <2>2
<1>3. Runs(f, <<g>> \o <<>>)  BY <1>1
<1>. QED  BY <1>1, <1>2, <1>3, NamingRun

LEMMA DeclarationSteps ==
  ASSUME ParserInv,
         \/ parse_pgm \/ parse_block \/ parse_const_dec \/ parse_var_dec
         \/ more_idents \/ basictype \/ parse_pf_dec_list
  PROVE  ParserInv'
<1>1. CASE parse_pgm  BY <1>1, SpellsRun, SpelledDeclarations DEF parse_pgm
<1>2. CASE parse_block
  <2>1. CASE Runs("parse_block", <<"block_const", "block_var", "block_pf", "block_comp">>)
    BY <2>1, SpellsRun, SpelledDeclarations
  <2>2. CASE Runs("block_const", WhenTok({"KW_CONST"}, <<"parse_const_dec">>))
    BY <2>2, WhenRun, SpelledDeclarations
  <2>3. CASE Runs("block_var", WhenTok({"KW_VAR"}, <<"parse_var_dec">>))
    BY <2>3, WhenRun, SpelledDeclarations
  <2>4. CASE Runs("block_pf", WhenTok({"KW_FUNCTION", "KW_PROCEDURE"}, <<"parse_pf_dec_list">>))
    BY <2>4, WhenRun, SpelledDeclarations, SpelledSame
  <2>5. CASE Runs("block_comp", WhenTok({"KW_BEGIN"}, <<"parse_comp_stmt">>))
    BY <2>5, WhenRun, SpelledDeclarations
  <2>. QED  BY <1>2, <2>1, <2>2, <2>3, <2>4, <2>5 DEF parse_block
<1>3. CASE parse_const_dec
  <2>1. CASE Runs("parse_const_dec", <<"KW_CONST", "parse_const_def", "const_dec_more",
                                       "SS_SEMI">>)
    BY <2>1, SpellsRun, SpelledDeclarations
  <2>2. CASE Runs("const_dec_more",
                  WhenTok({"SS_COMMA"}, <<"SS_COMMA", "parse_const_def", "const_dec_more">>))
    BY <2>2, WhenRun, SpelledDeclarations
  <2>. QED  BY <1>3, <2>1, <2>2 DEF parse_const_dec
<1>4. CASE parse_var_dec
  <2>1. CASE Runs("parse_var_dec", <<"KW_VAR", "parse_var_def", "SS_SEMI", "var_dec_more">>)
    BY <2>1, SpellsRun, SpelledDeclarations
  <2>2. CASE Runs("var_dec_more", WhenTok({"MC_ID"}, <<"parse_var_def", "SS_SEMI",
                                                       "var_dec_more">>))
    BY <2>2, WhenRun, SpelledDeclarations
  <2>. QED  BY <1>4, <2>1, <2>2 DEF parse_var_dec
<1>5. CASE more_idents  BY <1>5, WhenRun, SpelledDeclarations DEF more_idents
<1>6. CASE basictype  BY <1>6, SwitchRun, SpelledTypes DEF basictype
<1>7. CASE parse_pf_dec_list
  <2>1. CASE Runs("parse_pf_dec_list", <<"parse_proc_dec", "parse_pf_dec_list">>)
    BY <2>1, SpellsRun, SpelledDeclarations
  <2>2. CASE Runs("parse_pf_dec_list", <<"parse_fun_dec", "parse_pf_dec_list">>)
    BY <2>2, SpellsRun, SpelledDeclarations
  <2>3. CASE Runs("parse_pf_dec_list", <<>>)
    BY <2>3, SpellsRun, SpelledDeclarations
  <2>. QED  BY <1>7, <2>1, <2>2, <2>3 DEF parse_pf_dec_list
<1>. QED  BY <1>1, <1>2, <1>3, <1>4, <1>5, <1>6, <1>7

LEMMA DefinitionSteps == ParserInv /\ (parse_const_def \/ parse_var_def) => ParserInv'
<1>. SUFFICES ASSUME ParserInv, parse_const_def \/ parse_var_def  PROVE ParserInv'
  OBVIOUS
<1>1. CASE Runs("parse_const_def", IF currtok = "MC_ID" THEN <<"READCURR", "SS_EQU",
                                                               "const_value">>
                                                        ELSE <<"SS_EQU", "nameless_value">>)
  <2>1. CASE Runs("parse_const_def", <<"READCURR", "SS_EQU", "const_value">>)
    BY <2>1, SpellsRun, SpelledDeclarations
  <2>2. CASE Runs("parse_const_def", <<"SS_EQU", "nameless_value">>)
    <3>. DEFINE b == <<"SS_EQU", "nameless_value">>
    <3>1. b \in Later /\ 2 \in 1..Len(b) /\ b[2] \in Erring
      BY PlainAre DEF Later, Erring
    <3>. HIDE DEF b
    <3>2. Runs("parse_const_def", b)  BY <2>2 DEF b
    <3>. QED  BY <3>1, <3>2, ErringRun
  <2>. QED  BY <1>1, <2>1, <2>2
<1>2. CASE Runs("const_value", IF currtok \in Sign THEN <<currtok, "MC_UNS">>
                                                   ELSE Switch({"MC_UNS", "MC_CH"}))
  <2>1. CASE currtok \in Sign
    <3>1. Spells("const_value", <<currtok, "MC_UNS">>)  BY <2>1, SpelledSigns DEF Sign
    <3>. QED  BY <1>2, <2>1, <3>1, SpellsRun
  <2>2. CASE currtok \notin Sign
    <3>1. \A t \in {"MC_UNS", "MC_CH"} : Spells("const_value", <<t>>)
      BY SpelledSigns, SpelledDeclarations
    <3>. QED  BY <1>2, <2>2, <3>1, SwitchRun
  <2>. QED  BY <2>1, <2>2
<1>3. CASE Runs("nameless_value", IF currtok \in Sign THEN <<currtok, "null_idp">>
                                  ELSE IF currtok \in {"MC_UNS", "MC_CH"} THEN <<"null_idp">>
                                  ELSE <<"unlikely">>)
  <2>1. CASE Runs("nameless_value", <<currtok, "null_idp">>)
    <3>. DEFINE b == <<currtok, "null_idp">>
    <3>1. b \in Later /\ 2 \in 1..Len(b) /\ b[2] \in Erring
      BY DEF Later, Plain, Erring, ParserInv, ParserType
    <3>. HIDE DEF b
    <3>2. Runs("nameless_value", b)  BY <2>1 DEF b
    <3>. QED  BY <3>1, <3>2, ErringRun
  <2>2. CASE Runs("nameless_value", <<"null_idp">>)
    <3>. DEFINE b == <<"null_idp">>
    <3>1. b \in Later /\ 1 \in 1..Len(b) /\ b[1] \in Erring  BY DEF Later, Erring
    <3>. HIDE DEF b
    <3>2. Runs("nameless_value", b)  BY <2>2 DEF b
    <3>. QED  BY <3>1, <3>2, ErringRun
  <2>3. CASE Runs("nameless_value", <<"unlikely">>)  BY <2>3, Fails
  <2>. QED  BY <1>3, <2>1, <2>2, <2>3
<1>4. CASE Runs("parse_var_def", <<"READCURR", "more_idents", "SS_COLON", "var_type">>)
  BY <1>4, SpellsRun, SpelledDeclarations
<1>5. CASE Runs("var_type", IF currtok = "KW_ARRAY"
                            THEN <<"KW_ARRAY", "SS_LBRA", "array_length", "SS_RBRA", "KW_OF",
                                   "basictype">>
                            ELSE Switch(BasicType))
  <2>1. CASE Runs("var_type", <<"KW_ARRAY", "SS_LBRA", "array_length", "SS_RBRA", "KW_OF",
                                "basictype">>)
    BY <2>1, SpellsRun, SpelledDeclarations
  <2>2. CASE Runs("var_type", Switch(BasicType))  BY <2>2, SwitchRun, SpelledTypes
  <2>. QED  BY <1>5, <2>1, <2>2
<1>6. CASE Runs("array_length", Switch({"MC_UNS"}))  BY <1>6, SwitchRun, SpelledSame
<1>. QED  BY <1>1, <1>2, <1>3, <1>4, <1>5, <1>6 DEF parse_const_def, parse_var_def

LEMMA RoutineSteps ==
  ASSUME ParserInv,
         \/ parse_proc_dec \/ parse_fun_dec \/ parse_proc_def \/ parse_fun_def
         \/ parse_proc_head \/ parse_fun_head \/ head_paras
         \/ parse_para_list \/ parse_para_def
  PROVE  ParserInv'
<1>1. CASE parse_proc_dec
  <2>1. CASE Runs("parse_proc_dec", <<"parse_proc_def", "SS_SEMI", "proc_dec_more">>)
    BY <2>1, SpellsRun, SpelledDeclarations
  <2>2. CASE Runs("proc_dec_more",
                  WhenTok({"KW_PROCEDURE"}, <<"parse_proc_def", "SS_SEMI", "proc_dec_more">>))
    BY <2>2, WhenRun, SpelledDeclarations
  <2>. QED  BY <1>1, <2>1, <2>2 DEF parse_proc_dec
<1>2. CASE parse_fun_dec
  <2>1. CASE Runs("parse_fun_dec", <<"parse_fun_def", "SS_SEMI", "fun_dec_more">>)
    BY <2>1, SpellsRun, SpelledDeclarations
  <2>2. CASE Runs("fun_dec_more",
                  WhenTok({"KW_FUNCTION"}, <<"parse_fun_def", "SS_SEMI", "fun_dec_more">>))
    BY <2>2, WhenRun, SpelledDeclarations
  <2>. QED  BY <1>2, <2>1, <2>2 DEF parse_fun_dec
<1>3. CASE parse_proc_def  BY <1>3, SpellsRun, SpelledDeclarations DEF parse_proc_def
<1>4. CASE parse_fun_def  BY <1>4, SpellsRun, SpelledDeclarations DEF parse_fun_def
<1>5. CASE parse_proc_head  BY <1>5, SpellsRun, SpelledDeclarations DEF parse_proc_head
<1>6. CASE parse_fun_head  BY <1>6, SpellsRun, SpelledDeclarations DEF parse_fun_head
<1>7. CASE head_paras  BY <1>7, WhenRun, SpelledDeclarations DEF head_paras
<1>8. CASE parse_para_list
  <2>1. CASE Runs("parse_para_list", <<"parse_para_def", "para_list_more">>)
    BY <2>1, SpellsRun, SpelledDeclarations
  <2>2. CASE Runs("para_list_more",
                  WhenTok({"SS_SEMI"}, <<"SS_SEMI", "parse_para_def", "para_list_more">>))
    BY <2>2, WhenRun, SpelledDeclarations
  <2>. QED  BY <1>8, <2>1, <2>2 DEF parse_para_list
<1>9. CASE parse_para_def
  <2>. DEFINE rest == <<"READCURR", "more_idents", "SS_COLON", "basictype">>
  <2>1. /\ <<"KW_VAR">> \o rest = <<"KW_VAR", "READCURR", "more_idents", "SS_COLON", "basictype">>
        /\ <<>> \o rest = rest
    <3>1. rest \in Seq(Plain)  BY PlainAre
    <3>. QED  BY <3>1, Joined5
  <2>2. CASE currtok = "KW_VAR"
    <3>1. Runs("parse_para_def", <<"KW_VAR", "READCURR", "more_idents", "SS_COLON", "basictype">>)
      BY <1>9, <2>1, <2>2 DEF parse_para_def, WhenTok
    <3>. QED  BY <3>1, SpellsRun, SpelledDeclarations
  <2>3. CASE currtok # "KW_VAR"
    <3>1. Runs("parse_para_def", <<"READCURR", "more_idents", "SS_COLON", "basictype">>)
      BY <1>9, <2>1, <2>3 DEF parse_para_def, WhenTok
    <3>. QED  BY <3>1, SpellsRun, SpelledDeclarations
  <2>. QED  BY <2>2, <2>3
<1>. QED  BY <1>1, <1>2, <1>3, <1>4, <1>5, <1>6, <1>7, <1>8, <1>9

LEMMA StatementSteps ==
  ASSUME ParserInv,
         \/ parse_if_stmt \/ parse_repe_stmt \/ parse_for_stmt \/ parse_comp_stmt
         \/ parse_read_stmt \/ parse_write_stmt \/ parse_arg_list
  PROVE  ParserInv'
<1>1. CASE parse_if_stmt
  <2>1. CASE Runs("parse_if_stmt", <<"KW_IF", "parse_cond", "KW_THEN", "parse_stmt", "if_else">>)
    BY <2>1, SpellsRun, SpelledStatements
  <2>2. CASE Runs("if_else", WhenTok({"KW_ELSE"}, <<"KW_ELSE", "parse_stmt">>))
    BY <2>2, WhenRun, SpelledStatements
  <2>. QED  BY <1>1, <2>1, <2>2 DEF parse_if_stmt
<1>2. CASE parse_repe_stmt  BY <1>2, SpellsRun, SpelledStatements DEF parse_repe_stmt
<1>3. CASE parse_for_stmt
  <2>1. CASE Runs("parse_for_stmt", <<"KW_FOR", "READCURR", "SS_ASGN", "parse_expr", "for_to",
                                      "parse_expr", "KW_DO", "parse_stmt">>)
    BY <2>1, SpellsRun, SpelledStatements
  <2>2. CASE Runs("for_to", Switch({"KW_TO", "KW_DOWNTO"}))
    <3>1. \A t \in {"KW_TO", "KW_DOWNTO"} : Spells("for_to", <<t>>)  BY SpelledStatements
    <3>. QED  BY <2>2, <3>1, SwitchRun
  <2>. QED  BY <1>3, <2>1, <2>2 DEF parse_for_stmt
<1>4. CASE parse_comp_stmt
  <2>1. CASE Runs("parse_comp_stmt", <<"KW_BEGIN", "parse_stmt", "comp_more", "KW_END">>)
    BY <2>1, SpellsRun, SpelledStatements
  <2>2. CASE Runs("comp_more", WhenTok({"SS_SEMI"}, <<"SS_SEMI", "parse_stmt", "comp_more">>))
    BY <2>2, WhenRun, SpelledStatements
  <2>. QED  BY <1>4, <2>1, <2>2 DEF parse_comp_stmt
<1>5. CASE parse_read_stmt  BY <1>5, SpellsRun, SpelledStatements DEF parse_read_stmt
<1>6. CASE parse_write_stmt
  <2>1. CASE Runs("parse_write_stmt", <<"KW_WRITE", "SS_LPAR", "written", "SS_RPAR">>)
    BY <2>1, SpellsRun, SpelledStatements
  <2>2. CASE Runs("written", <<"MC_STR", "written_more">>)
    BY <2>2, SpellsRun, SpelledStatements
  <2>3. CASE Runs("written", <<"parse_expr">>)
    BY <2>3, SpellsRun, SpelledStatements
  <2>4. CASE Runs("written", <<"unlikely">>)  BY <2>4, Fails
  <2>5. CASE Runs("written_more", WhenTok({"SS_COMMA"}, <<"SS_COMMA", "parse_expr">>))
    BY <2>5, WhenRun, SpelledStatements
  <2>. QED  BY <1>6, <2>1, <2>2, <2>3, <2>4, <2>5 DEF parse_write_stmt
<1>7. CASE parse_arg_list
  <2>1. CASE Runs("parse_arg_list", <<"parse_expr", "arg_list_more">>)
    BY <2>1, SpellsRun, SpelledStatements
  <2>2. CASE Runs("arg_list_more",
                  WhenTok({"SS_COMMA"}, <<"SS_COMMA", "parse_expr", "arg_list_more">>))
    BY <2>2, WhenRun, SpelledStatements
  <2>. QED  BY <1>7, <2>1, <2>2 DEF parse_arg_list
<1>. QED  BY <1>1, <1>2, <1>3, <1>4, <1>5, <1>6, <1>7

LEMMA NamesAre ==
  /\ "ident_stmt" \in Looking /\ "ident_factor" \in Looking
  /\ "ident_stmt" \in Naming /\ "ident_factor" \in Naming
  /\ "parse_assign_stmt" \in Naming /\ "parse_call" \in Naming /\ "READPREV" \in Naming
BY DEF Looking, Naming

\* A statement that begins with a name: by the token behind it.
LEMMA NamedStatementSteps == ParserInv /\ parse_stmt => ParserInv'
<1>. SUFFICES ASSUME ParserInv, parse_stmt  PROVE ParserInv'
  OBVIOUS
<1>1. CASE Runs("parse_stmt",
                CASE currtok = "KW_IF" -> <<"parse_if_stmt">>
                  [] currtok = "KW_REPEAT" -> <<"parse_repe_stmt">>
                  [] currtok = "KW_BEGIN" -> <<"parse_comp_stmt">>
                  [] currtok = "KW_READ" -> <<"parse_read_stmt">>
                  [] currtok = "KW_WRITE" -> <<"parse_write_stmt">>
                  [] currtok = "KW_FOR" -> <<"parse_for_stmt">>
                  [] currtok = "MC_ID" -> <<"MC_ID", "ident_stmt">>
                  [] OTHER -> <<>>)
  <2>1. CASE Runs("parse_stmt", <<"MC_ID", "ident_stmt">>)
    <3>1. "parse_stmt" \in Calling  BY DEF Calling
    <3>. QED  BY <2>1, <3>1, LookingRun, SpelledNames, NamesAre
  <2>2. ASSUME NEW body, Runs("parse_stmt", body),
               body \in {<<"parse_if_stmt">>, <<"parse_repe_stmt">>, <<"parse_comp_stmt">>,
                         <<"parse_read_stmt">>, <<"parse_write_stmt">>, <<"parse_for_stmt">>,
                         <<>>}
        PROVE  ParserInv'
    <3>1. Spells("parse_stmt", body)  BY <2>2, SpelledStatements
    <3>. QED  BY <2>2, <3>1, SpellsRun
  <2>. QED  BY <1>1, <2>1, <2>2
<1>2. CASE Runs("ident_stmt",
                CASE currtok = "SS_LPAR" -> <<"parse_call">>
                  [] currtok \in {"SS_ASGN", "SS_LBRA"} -> <<"parse_assign_stmt">>
                  [] currtok = "SS_EQU" -> <<"parse_assign_stmt", "rescue">>
                  [] OTHER -> <<"unlikely">>)
  <2>1. CASE Runs("ident_stmt", <<"parse_call">>)
    <3>1. Rest("parse_call") \subseteq Rest("ident_stmt")  BY RestAre
    <3>. QED  BY <2>1, <3>1, NamingOnly, NamesAre
  <2>2. CASE currtok \in {"SS_ASGN", "SS_LBRA"}
    <3>1. Rest("parse_assign_stmt") \subseteq Rest("ident_stmt")  BY RestAre
    <3>2. Runs("ident_stmt", <<"parse_assign_stmt">>)  BY <1>2, <2>2
    <3>. QED  BY <2>2, <3>1, <3>2, NamingOnly, NamesAre
  <2>3. CASE Runs("ident_stmt", <<"parse_assign_stmt", "rescue">>)
    <3>. DEFINE b == <<"rescue">>
    <3>1. b \in Seq(Plain \cup Erring) /\ b \notin Seq(Plain)
      <4>1. "rescue" \in Erring  BY DEF Erring
      <4>2. b[1] \in Erring /\ 1 \in 1..Len(b)  BY <4>1
      <4>3. b \in Seq(Plain) => b[1] \in Plain  BY <4>2
      <4>. QED  BY <4>1, <4>2, <4>3, ApartCodes
    <3>2. Runs("ident_stmt", <<"parse_assign_stmt">> \o b)  BY <2>3, Joined2
    <3>. HIDE DEF b
    <3>. QED  BY <3>1, <3>2, NamingRun, NamesAre
  <2>4. CASE Runs("ident_stmt", <<"unlikely">>)  BY <2>4, Fails
  <2>. QED  BY <1>2, <2>1, <2>2, <2>3, <2>4
<1>. QED  BY <1>1, <1>2 DEF parse_stmt

\* READPREV and then plain code.
LEMMA TakesName ==
  ASSUME ParserInv, NEW f \in Naming, NEW body \in Seq(Plain),
         Runs(f, <<"READPREV">> \o body), Image(body) \in Rest(f)
  PROVE  ParserInv'
<1>1. \A r \in Rest("READPREV") : r \o Image(body) \in Rest(f)
  <2>1. Image(body) \in Seq(Symbol)  BY ImageType DEF Form
  <2>2. <<>> \o Image(body) = Image(body)  BY <2>1
  <2>. QED  BY <2>2, RestAre
<1>2. body \in Seq(Plain \cup Erring)  OBVIOUS
<1>. QED  BY <1>1, <1>2, NamingRun, NamesAre

LEMMA AssignSteps == ParserInv /\ parse_assign_stmt => ParserInv'
<1>. SUFFICES ASSUME ParserInv, parse_assign_stmt  PROVE ParserInv'
  OBVIOUS
<1>. DEFINE f == "parse_assign_stmt"
<1>1. CASE currtok = "SS_LBRA"
  <2>. DEFINE b == <<"SS_LBRA", "parse_expr", "SS_RBRA", "SS_ASGN", "parse_expr">>
  <2>1. Runs(f, <<"READPREV">> \o b)  BY <1>1, Joined6 DEF parse_assign_stmt
  <2>2. b \in Seq(Plain)  BY PlainAre, PlainTuple
  <2>3. Image(b) \in Rest(f)
    <3>1. <<Means("SS_LBRA"), Means("parse_expr"), Means("SS_RBRA"), Means("SS_ASGN"),
            Means("parse_expr")>>
            = <<"SS_LBRA", "expression", "SS_RBRA", "SS_ASGN", "expression">>
      BY TokenMeans, MeansAre, ZenonT(30)
    <3>2. Image(b) = <<"SS_LBRA", "expression", "SS_RBRA", "SS_ASGN", "expression">>
      BY <3>1, ImageTuple
    <3>. QED  BY <3>2, RestAre DEF Assigning
  <2>. HIDE DEF b
  <2>. QED  BY <2>1, <2>2, <2>3, TakesName, NamesAre
<1>2. CASE currtok = "SS_ASGN"
  <2>. DEFINE b == <<"SS_ASGN", "parse_expr">>
  <2>1. Runs(f, <<"READPREV">> \o b)  BY <1>2, Joined3 DEF parse_assign_stmt
  <2>2. b \in Seq(Plain)  BY PlainAre, PlainTuple
  <2>3. Image(b) \in Rest(f)
    <3>1. <<Means("SS_ASGN"), Means("parse_expr")>> = <<"SS_ASGN", "expression">>
      BY TokenMeans, MeansAre, ZenonT(30)
    <3>2. Image(b) = <<"SS_ASGN", "expression">>  BY <3>1, ImageTuple
    <3>. QED  BY <3>2, RestAre DEF Assigning
  <2>. HIDE DEF b
  <2>. QED  BY <2>1, <2>2, <2>3, TakesName, NamesAre
<1>3. CASE currtok \notin {"SS_LBRA", "SS_ASGN"}
  <2>. DEFINE t == Tail(stack)
              body == <<"READPREV", currtok, "parse_expr">>
              rest == <<currtok, "parse_expr">>
  <2>1. Runs(f, body)  BY <1>3 DEF parse_assign_stmt
  <2>2. t \in Later /\ stack = <<f>> \o t /\ prevtok = "MC_ID" /\ ~Right
    BY <1>3, <2>1, Opened, NamesAre DEF ParserInv
  <2>3. currtok \in Plain /\ "READPREV" \in Naming /\ "parse_expr" \in Plain
    BY NamesAre, PlainAre DEF ParserInv, ParserType, Plain
  <2>4. body = <<"READPREV">> \o rest  BY Joined3
  <2>. DEFINE S == Plain \cup Erring \cup Naming
              u == rest \o t
  <2>5. rest \in Seq(S) /\ rest \in Later /\ <<"READPREV">> \in Seq(S) /\ t \in Seq(S)
    BY <2>2, <2>3 DEF Later
  <2>6. u \in Later /\ u \in Seq(S)  BY <2>2, <2>5 DEF Later
  <2>. HIDE DEF rest, t, S
  <2>7. stack' = <<"READPREV">> \o u
    BY <2>1, <2>4, <2>5, ConcatAssociative DEF Runs, t
  <2>. HIDE DEF u
  <2>8. "READPREV" \in S  BY <2>3 DEF S
  <2>9. stack' # <<>> /\ Head(stack') = "READPREV" /\ Tail(stack') = u
    BY <2>6, <2>7, <2>8, Before
  <2>10. prevtok' = prevtok /\ errnum' = errnum  BY <2>1 DEF Runs
  <2>11. Shape'  BY <2>2, <2>3, <2>6, <2>7, <2>9, <2>10 DEF Shape, Later
  <2>12. Right' => Right
    <3>1. f \in Calling \cup Naming  BY NamesAre
    <3>2. body \in Seq(Plain \cup Naming)  BY <2>3
    <3>. HIDE DEF body
    <3>. QED  BY <2>1, <3>1, <3>2, StillRight DEF ParserInv
  <2>. QED  BY <2>1, <2>2, <2>11, <2>12, RunsKeeps DEF ParserInv, Promise
<1>. QED  BY <1>1, <1>2, <1>3

LEMMA CallSteps == ParserInv /\ parse_call => ParserInv'
<1>. SUFFICES ASSUME ParserInv, parse_call  PROVE ParserInv'
  OBVIOUS
<1>1. CASE Runs("parse_call", <<"READPREV", "SS_LPAR", "arguments", "SS_RPAR">>)
  <2>. DEFINE b == <<"SS_LPAR", "arguments", "SS_RPAR">>
  <2>1. Runs("parse_call", <<"READPREV">> \o b)  BY <1>1, Joined4
  <2>2. b \in Seq(Plain)
    <3>1. "arguments" \in Plain  BY DEF Plain, Calling
    <3>. QED  BY <3>1, PlainAre, PlainTuple
  <2>3. Image(b) \in Rest("parse_call")
    <3>1. <<Means("SS_LPAR"), Means("arguments"), Means("SS_RPAR")>>
            = <<"SS_LPAR", "[arglist]", "SS_RPAR">>
      BY TokenMeans, MeansAre, ZenonT(30)
    <3>2. Image(b) = Called  BY <3>1, ImageTuple DEF Called
    <3>. QED  BY <3>2, RestAre
  <2>. HIDE DEF b
  <2>. QED  BY <2>1, <2>2, <2>3, TakesName, NamesAre
<1>2. CASE Runs("arguments", WhenTok({"MC_ID", "MC_CH", "MC_UNS", "SS_LPAR"} \cup Sign,
                                     <<"parse_arg_list">>))
  BY <1>2, WhenRun, SpelledStatements
<1>. QED  BY <1>1, <1>2 DEF parse_call

LEMMA ExpressionSteps == ParserInv /\ (parse_expr \/ parse_term \/ parse_cond) => ParserInv'
<1>. SUFFICES ASSUME ParserInv, parse_expr \/ parse_term \/ parse_cond  PROVE ParserInv'
  OBVIOUS
<1>1. CASE Runs("parse_expr",
                CASE currtok \in Sign -> <<currtok, "parse_term", "expr_more">>
                  [] currtok \in {"MC_ID", "MC_CH", "MC_UNS", "SS_LPAR"}
                       -> <<"parse_term", "expr_more">>
                  [] OTHER -> <<"unlikely">>)
  <2>1. CASE currtok \in Sign
    <3>1. Spells("parse_expr", <<currtok, "parse_term", "expr_more">>)
      BY <2>1, SpelledSigns DEF Sign
    <3>2. Runs("parse_expr", <<currtok, "parse_term", "expr_more">>)
      BY <1>1, <2>1 DEF Sign
    <3>. QED  BY <3>1, <3>2, SpellsRun
  <2>2. CASE Runs("parse_expr", <<"parse_term", "expr_more">>)  BY <2>2, SpellsRun, SpelledSigns
  <2>3. CASE Runs("parse_expr", <<"unlikely">>)  BY <2>3, Fails
  <2>. QED  BY <1>1, <2>1, <2>2, <2>3
<1>2. CASE Runs("expr_more", WhenTok(Sign, <<currtok, "parse_term", "expr_more">>))
  <2>1. currtok \in Sign => Spells("expr_more", <<currtok, "parse_term", "expr_more">>)
    BY SpelledExpressions DEF Sign
  <2>2. Spells("expr_more", <<>>)  BY SpelledExpressions
  <2>. QED  BY <1>2, <2>1, <2>2, WhenRun
<1>3. CASE Runs("parse_term", <<"parse_factor", "term_more">>)
  BY <1>3, SpellsRun, SpelledExpressions
<1>4. CASE Runs("term_more", WhenTok({"SS_STAR", "SS_OVER"}, <<currtok, "parse_factor",
                                                               "term_more">>))
  <2>1. currtok \in {"SS_STAR", "SS_OVER"}
          => Spells("term_more", <<currtok, "parse_factor", "term_more">>)
    BY SpelledExpressions
  <2>2. Spells("term_more", <<>>)  BY SpelledExpressions
  <2>. QED  BY <1>4, <2>1, <2>2, WhenRun
<1>5. CASE Runs("parse_cond", <<"parse_expr", "relop", "parse_expr">>)
  BY <1>5, SpellsRun, SpelledExpressions
<1>6. CASE Runs("relop", Switch(Relop))
  <2>1. \A t \in Relop : Spells("relop", <<t>>)  BY SpelledExpressions DEF Relop
  <2>. QED  BY <1>6, <2>1, SwitchRun
<1>. QED  BY <1>1, <1>2, <1>3, <1>4, <1>5, <1>6 DEF parse_expr, parse_term, parse_cond

\* A factor that begins with a name: by the token behind it.
LEMMA FactorSteps == ParserInv /\ parse_factor => ParserInv'
<1>. SUFFICES ASSUME ParserInv, parse_factor  PROVE ParserInv'
  OBVIOUS
<1>1. CASE Runs("parse_factor",
                CASE currtok \in {"MC_UNS", "MC_CH"} -> <<currtok>>
                  [] currtok = "SS_LPAR" -> <<"SS_LPAR", "parse_expr", "SS_RPAR">>
                  [] currtok = "MC_ID" -> <<"MC_ID", "ident_factor">>
                  [] OTHER -> <<"unlikely">>)
  <2>1. CASE currtok \in {"MC_UNS", "MC_CH"}
    <3>1. Spells("parse_factor", <<currtok>>)  BY <2>1, SpelledExpressions
    <3>2. Runs("parse_factor", <<currtok>>)  BY <1>1, <2>1
    <3>. QED  BY <3>1, <3>2, SpellsRun
  <2>2. CASE Runs("parse_factor", <<"SS_LPAR", "parse_expr", "SS_RPAR">>)
    BY <2>2, SpellsRun, SpelledExpressions
  <2>3. CASE Runs("parse_factor", <<"MC_ID", "ident_factor">>)
    <3>1. "parse_factor" \in Calling  BY DEF Calling
    <3>. QED  BY <2>3, <3>1, LookingRun, SpelledNames, NamesAre
  <2>4. CASE Runs("parse_factor", <<"unlikely">>)  BY <2>4, Fails
  <2>. QED  BY <1>1, <2>1, <2>2, <2>3, <2>4
<1>2. CASE Runs("ident_factor",
                CASE currtok = "SS_LBRA" -> <<"READPREV", "SS_LBRA", "parse_expr", "SS_RBRA">>
                  [] currtok = "SS_LPAR" -> <<"parse_call">>
                  [] OTHER -> <<"READPREV">>)
  <2>1. CASE Runs("ident_factor", <<"READPREV", "SS_LBRA", "parse_expr", "SS_RBRA">>)
    <3>. DEFINE b == <<"SS_LBRA", "parse_expr", "SS_RBRA">>
    <3>1. Runs("ident_factor", <<"READPREV">> \o b)  BY <2>1, Joined4
    <3>2. b \in Seq(Plain)  BY PlainAre, PlainTuple
    <3>3. Image(b) \in Rest("ident_factor")
      <4>1. <<Means("SS_LBRA"), Means("parse_expr"), Means("SS_RBRA")>>
              = <<"SS_LBRA", "expression", "SS_RBRA">>
        BY TokenMeans, MeansAre, ZenonT(30)
      <4>2. Image(b) = Indexed  BY <4>1, ImageTuple DEF Indexed
      <4>. QED  BY <4>2, RestAre
    <3>. HIDE DEF b
    <3>. QED  BY <3>1, <3>2, <3>3, TakesName, NamesAre
  <2>2. CASE Runs("ident_factor", <<"parse_call">>)
    <3>1. Rest("parse_call") \subseteq Rest("ident_factor")  BY RestAre
    <3>. QED  BY <2>2, <3>1, NamingOnly, NamesAre
  <2>3. CASE Runs("ident_factor", <<"READPREV">>)
    <3>1. Rest("READPREV") \subseteq Rest("ident_factor")  BY RestAre
    <3>. QED  BY <2>3, <3>1, NamingOnly, NamesAre
  <2>. QED  BY <1>2, <2>1, <2>2, <2>3
<1>. QED  BY <1>1, <1>2 DEF parse_factor

LEMMA IdentSteps == ParserInv /\ parse_ident => ParserInv'
BY ReadPrev, SpellsRun, SpelledSame DEF parse_ident

\* The end of the phase: with nothing left on the stack and no error the
\* text is a program.
LEMMA PhaseStep == ParserInv /\ parse => ParserInv'
<1>. SUFFICES ASSUME ParserInv, parse  PROVE ParserInv'
  OBVIOUS
<1>1. /\ phase = "LEXICAL" /\ stack = <<>>
      /\ phase' = IF errnum # 0 THEN "EXIT" ELSE "SEMANTIC"
      /\ UNCHANGED <<currtok, prevtok, stack, errnum, live>>
  BY DEF parse
<1>2. errnum = 0 => <<>> \in live
  <2>1. <<>> \in Seq(Plain) /\ Image(<<>>) = <<>>  BY ImageTuple
  <2>2. Reading(<<>>) = {<<>>}  BY <2>1, ReadPlain
  <2>3. errnum = 0 => Right
    <3>1. \A i \in 1..Len(<<>>) : FALSE  OBVIOUS
    <3>. QED  BY <1>1, <3>1 DEF Right
  <2>4. Unfold[<<>>] = {<<>>}
    <3>1. <<>> \in Form  BY DEF Form
    <3>2. Bare(<<>>)  BY DEF Bare
    <3>. QED  BY <3>1, <3>2, UnfoldBare
  <2>. QED  BY <1>1, <2>2, <2>3, <2>4 DEF ParserInv, Promise
<1>3. Passed' /\ ParserType'  BY <1>1, <1>2 DEF Passed, ParserInv, ParserType
<1>4. Shape'  BY <1>1 DEF Shape, Later
<1>5. Right' = Right /\ Reading(stack') = Reading(stack)  BY <1>1 DEF Right
<1>6. Promise'  BY <1>1, <1>5 DEF Promise, ParserInv
<1>. QED  BY <1>3, <1>4, <1>6 DEF ParserInv

LEMMA StayStep == ParserInv /\ UNCHANGED vars => ParserInv'
<1>. SUFFICES ASSUME ParserInv, UNCHANGED vars  PROVE ParserInv'
  OBVIOUS
<1>1. UNCHANGED <<currtok, prevtok, stack, errnum, phase, live>>  BY DEF vars
<1>2. Right' = Right  BY <1>1 DEF Right
<1>3. Shape' /\ Promise'  BY <1>1, <1>2 DEF ParserInv, Shape, Promise
<1>4. ParserType' /\ Passed'  BY <1>1 DEF ParserInv, ParserType, Passed
<1>. QED  BY <1>3, <1>4 DEF ParserInv

LEMMA ParserInvInit == Init => ParserInv
<1>. SUFFICES ASSUME Init  PROVE ParserInv
  OBVIOUS
<1>1. /\ currtok \in Token /\ stack = <<"parse_pgm">> /\ errnum = 0 /\ phase = "LEXICAL"
      /\ live = Start
  BY DEF Init
<1>2. stack \in Seq(Plain)
  <2>1. "parse_pgm" \in Plain  BY DEF Plain, Calling
  <2>. QED  BY <1>1, <2>1
<1>3. Shape  BY <1>2 DEF Shape, Later
<1>4. Image(stack) = <<"pgm">>
  <2>1. <<Means("parse_pgm")>> = <<"pgm">>  BY MeansAre
  <2>. QED  BY <1>1, <2>1, ImageTuple
<1>5. Promise  BY <1>1, <1>2, <1>4, ReadPlain DEF Promise, Start
<1>6. ParserType /\ Passed  BY <1>1 DEF ParserType, Passed
<1>. QED  BY <1>3, <1>5, <1>6 DEF ParserInv

LEMMA ParserInvNext == ParserInv /\ [Next]_vars => ParserInv'
<1>. SUFFICES ASSUME ParserInv, [Next]_vars  PROVE ParserInv'
  OBVIOUS
<1>1. CASE match  BY <1>1, MatchStep
<1>2. CASE panic \/ unlikely \/ null_idp  BY <1>2, StopStep
<1>3. CASE rescue  BY <1>3, RescueStep
<1>4. CASE \/ parse_pgm \/ parse_block \/ parse_const_dec \/ parse_var_dec
           \/ more_idents \/ basictype \/ parse_pf_dec_list
  BY <1>4, DeclarationSteps
<1>5. CASE parse_const_def \/ parse_var_def  BY <1>5, DefinitionSteps
<1>6. CASE \/ parse_proc_dec \/ parse_fun_dec \/ parse_proc_def \/ parse_fun_def
           \/ parse_proc_head \/ parse_fun_head \/ head_paras
           \/ parse_para_list \/ parse_para_def
  BY <1>6, RoutineSteps
<1>7. CASE \/ parse_if_stmt \/ parse_repe_stmt \/ parse_for_stmt \/ parse_comp_stmt
           \/ parse_read_stmt \/ parse_write_stmt \/ parse_arg_list
  BY <1>7, StatementSteps
<1>8. CASE parse_stmt  BY <1>8, NamedStatementSteps
<1>9. CASE parse_assign_stmt  BY <1>9, AssignSteps
<1>10. CASE parse_call  BY <1>10, CallSteps
<1>11. CASE parse_expr \/ parse_term \/ parse_cond  BY <1>11, ExpressionSteps
<1>12. CASE parse_factor  BY <1>12, FactorSteps
<1>13. CASE parse_ident  BY <1>13, IdentSteps
<1>14. CASE parse  BY <1>14, PhaseStep
<1>15. CASE UNCHANGED vars  BY <1>15, StayStep
<1>. QED
  BY <1>1, <1>2, <1>3, <1>4, <1>5, <1>6, <1>7, <1>8, <1>9, <1>10, <1>11, <1>12, <1>13, <1>14,
     <1>15 DEF Next

LEMMA ParserInvAlways == Spec => []ParserInv
BY ParserInvInit, ParserInvNext, PTL DEF Spec

-----------------------------------------------------------------------------
(* The theorems                                                            *)

\* A text that the parser lets through to the semantic analysis is a program
\* by the productions above the functions of parse.c, for any text and any
\* depth of calls.
THEOREM AcceptsOnlyPrograms == Spec => []AcceptsPrograms
<1>1. ParserInv => AcceptsPrograms  BY DEF ParserInv, Passed, AcceptsPrograms
<1>. QED  BY <1>1, ParserInvAlways, PTL

\* As long as nothing has been found wrong the text read so far can be
\* continued to a program: match never passes a token that no program has at
\* that place, but for the = taken for := and a constant without a name.
THEOREM ErrorsStopTheParser == Spec => []StopsAtFirstError
<1>1. ParserInv => StopsAtFirstError
  <2>. SUFFICES ASSUME ParserInv, Running, live = {}, errnum # ERRTOK,
                       \A i \in 1..Len(stack) : stack[i] \notin Erring
                PROVE  FALSE
    BY DEF StopsAtFirstError, Erring
  <2>1. Right  BY DEF Right, ParserInv, ParserType, Running
  <2>2. \E form \in Form : form \in Reading(stack)
    <3>1. CASE stack \in Later
      <4>1. stack \in Seq(Plain)  BY <3>1, Narrow DEF Later
      <4>. QED  BY <4>1, ReadPlain, ImageType
    <3>2. CASE /\ stack # <<>> /\ Head(stack) \in Naming /\ Tail(stack) \in Later
               /\ stack = <<Head(stack)>> \o Tail(stack)
      <4>. DEFINE f == Head(stack)
                  t == Tail(stack)
      <4>1. <<f>> \in Seq(Naming) /\ t \in Later /\ stack = <<f>> \o t  BY <3>2
      <4>2. t \in Seq(Plain)
        <5>1. \A i \in 1..Len(<<f>> \o t) : (<<f>> \o t)[i] \notin Erring  BY <4>1
        <5>. HIDE DEF f, t
        <5>. QED  BY <4>1, <5>1, Remains
      <4>3. Reading(stack) = {r \o Image(t) : r \in Rest(f)}  BY <3>2, <4>2, ReadNaming
      <4>4. PICK r \in Rest(f) : TRUE  BY <3>2, RestType
      <4>5. r \in Form /\ Image(t) \in Form  BY <3>2, <4>2, <4>4, RestType, ImageType
      <4>6. r \o Image(t) \in Form  BY <4>5 DEF Form
      <4>. QED  BY <4>3, <4>4, <4>6
    <3>3. ASSUME NEW f \in Looking, NEW t \in Later, stack = <<"MC_ID">> \o (<<f>> \o t)
          PROVE  \E form \in Form : form \in Reading(stack)
      <4>1. f \in Naming /\ "MC_ID" \in Plain  BY PlainAre DEF Naming
      <4>2. stack = <<"MC_ID", f>> \o t
        <5>. DEFINE S == Plain \cup Erring \cup Naming
        <5>1. <<"MC_ID">> \in Seq(S) /\ <<f>> \in Seq(S) /\ t \in Seq(S)
          BY <4>1 DEF Later
        <5>. HIDE DEF S
        <5>2. stack = (<<"MC_ID">> \o <<f>>) \o t  BY <3>3, <5>1, ConcatAssociative
        <5>. QED  BY <5>2, Joined2
      <4>3. t \in Seq(Plain)
        <5>1. <<"MC_ID", f>> \in Seq(Plain \cup Naming)  BY <4>1
        <5>2. \A i \in 1..Len(<<"MC_ID", f>> \o t) : (<<"MC_ID", f>> \o t)[i] \notin Erring
          BY <4>2
        <5>. QED  BY <5>1, <5>2, Remains
      <4>4. PICK r \in Rest(f) : TRUE  BY <4>1, RestType
      <4>5. <<"MC_ID">> \o (r \o Image(t)) \in Reading(stack)  BY <3>3, <4>3, ReadLooking
      <4>6. r \in Form /\ Image(t) \in Form /\ <<"MC_ID">> \in Form
        BY <4>1, <4>3, <4>4, RestType, ImageType DEF Form, Symbol, Token
      <4>7. <<"MC_ID">> \o (r \o Image(t)) \in Form  BY <4>6 DEF Form
      <4>. QED  BY <4>5, <4>7
    <3>. QED  BY <3>1, <3>2, <3>3 DEF ParserInv, Shape
  <2>3. PICK form \in Form : form \in Reading(stack)  BY <2>2
  <2>4. Unfold[form] \subseteq live  BY <2>1, <2>3 DEF ParserInv, Promise
  <2>. QED  BY <2>3, <2>4, SomeForm
<1>. QED  BY <1>1, ParserInvAlways, PTL

\* A node that takes its name from prevtokbuf takes that of an identifier:
\* no token is matched between the name and the place where it is used.
THEOREM NamesAreIdentifiers == Spec => []PreviousIsName
<1>1. ParserInv => PreviousIsName
  <2>. SUFFICES ASSUME ParserInv, Running, Next1 = "READPREV"  PROVE prevtok = "MC_ID"
    BY DEF PreviousIsName
  <2>1. stack # <<>> /\ Head(stack) = "READPREV"  BY DEF Running, Next1
  <2>2. "READPREV" \notin Plain \cup Erring  BY NamesAre, ApartCodes
  <2>3. stack \notin Later  BY <2>1, <2>2 DEF Later
  <2>4. ASSUME NEW f \in Looking, NEW t \in Later, stack = <<"MC_ID">> \o (<<f>> \o t)
        PROVE  FALSE
    <3>. DEFINE S == Plain \cup Erring \cup Naming
                u == <<f>> \o t
    <3>1. "MC_ID" \in S /\ f \in S /\ t \in Seq(S)  BY DEF Plain, Token, Naming, Later
    <3>2. u \in Seq(S)  BY <3>1, Before
    <3>. HIDE DEF u
    <3>3. Head(<<"MC_ID">> \o u) = "MC_ID"  BY <3>1, <3>2, Before
    <3>. QED  BY <2>1, <2>4, <3>3 DEF u
  <2>. QED  BY <2>3, <2>4 DEF ParserInv, Shape
<1>. QED  BY <1>1, ParserInvAlways, PTL
=============================================================================
