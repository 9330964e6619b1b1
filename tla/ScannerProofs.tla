--------------------------- MODULE ScannerProofs ---------------------------
(***************************************************************************)
(* Proofs about the scanner: what it returns are the lexemes of the text,  *)
(* each with the line it ends on.                                          *)
(***************************************************************************)
EXTENDS Scanner, NumberFacts, FiniteSetTheorems

-----------------------------------------------------------------------------
(* Characters                                                              *)

SmallSymbols == {".", "+", "-", "*", "/", "=", ",", ";", "(", ")", "[", "]", "}"}

\* The characters of a token of their own, and none of them ends a text or
\* is a word.
LEMMA Singles ==
  /\ DOMAIN Single = SmallSymbols
  /\ \A ch \in SmallSymbols : Single[ch] \notin {"ENDFILE", "ERROR", "MC_ID"}
<1>1. DOMAIN Single = SmallSymbols  BY DEF Single, SmallSymbols
<1>2. ASSUME NEW ch \in SmallSymbols  PROVE Single[ch] \notin {"ENDFILE", "ERROR", "MC_ID"}
  BY <1>2 DEF Single, SmallSymbols
<1>. QED  BY <1>1, <1>2

\* The classes of characters, one by one.
LEMMA Classes ==
  /\ EOF \notin Char
  /\ \A ch \in Letter : ch \notin Digit \cup Stray \cup Special
  /\ \A ch \in Digit : ch \notin Letter \cup Stray \cup Special
  /\ \A ch \in Stray : ch \notin Letter \cup Digit \cup Special
  /\ \A ch \in Special : ch \notin Letter \cup Digit \cup Stray
<1>1. EOF \notin Special
  BY Singles DEF EOF, NL, Special, Space, SmallSymbols, Quote, DQuote, Brace
<1>. QED  BY <1>1, ClassAssumption DEF Char

\* Those that are special are not each other.
LEMMA Specials ==
  /\ {":", "<", ">", Brace, Quote, DQuote} \cup SmallSymbols \cup Space = Special
  /\ Space \cap (SmallSymbols \cup {":", "<", ">", Brace, Quote, DQuote}) = {}
  /\ SmallSymbols \cap {":", "<", ">", Brace, Quote, DQuote} = {}
  /\ "=" \in SmallSymbols /\ EndBrace \in SmallSymbols
  /\ NL \in Space /\ NL # Quote /\ NL # DQuote /\ Quote # DQuote
  /\ Quote \notin {":", "<", ">", Brace} /\ DQuote \notin {":", "<", ">", Brace}
<1>1. {":", "<", ">", Brace, Quote, DQuote} \cup SmallSymbols \cup Space = Special
  BY Singles DEF Special
<1>2. Space \cap (SmallSymbols \cup {":", "<", ">", Brace, Quote, DQuote}) = {}
  BY DEF NL, Space, SmallSymbols, Quote, DQuote, Brace
<1>3. SmallSymbols \cap {":", "<", ">", Brace, Quote, DQuote} = {}
  BY DEF SmallSymbols, Quote, DQuote, Brace
<1>. QED  BY <1>1, <1>2, <1>3 DEF SmallSymbols, NL, Space, Quote, DQuote, Brace, EndBrace

-----------------------------------------------------------------------------
(* Words of a text                                                         *)

Word(t, i, j) == SubSeq(t, i, j)

\* A word is the characters it is cut from.
LEMMA WordIs ==
  ASSUME NEW t \in Seq(Char), NEW i \in 1..Len(t) + 1, NEW j \in i - 1..Len(t)
  PROVE  /\ Word(t, i, j) \in Seq(Char)
         /\ Len(Word(t, i, j)) = j - i + 1
         /\ DOMAIN Word(t, i, j) = 1..j - i + 1
         /\ \A k \in 1..j - i + 1 : Word(t, i, j)[k] = t[i + k - 1]
         /\ \A k \in i..j : t[k] = Word(t, i, j)[k - i + 1] /\ t[k] \in Char
<1>1. j - i + 1 \in Nat  OBVIOUS
<1>2. Word(t, i, j) = [k \in 1..j - i + 1 |-> t[i + k - 1]]  BY DEF Word
<1>3. \A k \in i..j : t[k] \in Char /\ k - i + 1 \in 1..j - i + 1  OBVIOUS
<1>4. \A k \in 1..j - i + 1 : t[i + k - 1] \in Char  OBVIOUS
<1>5. Word(t, i, j) \in Seq(Char)  BY <1>1, <1>2, <1>4
<1>6. Len(Word(t, i, j)) = j - i + 1  BY <1>1, <1>2, <1>5
<1>7. \A k \in i..j : t[k] = Word(t, i, j)[k - i + 1]  BY <1>2, <1>3
<1>. QED  BY <1>2, <1>3, <1>5, <1>6, <1>7

\* The tokens a string of characters is, one by one.
LEMMA TokensOfIs ==
  \A s :
    /\ TokensOf(s) \subseteq {"MC_UNS", "MC_ID", "KEYWORD", "MC_STR", "MC_CH", "SYMBOL"}
    /\ "MC_UNS" \in TokensOf(s) <=> s # <<>> /\ AllIn(s, Digit)
    /\ "MC_ID" \in TokensOf(s) <=>
         s # <<>> /\ AllIn(s, Letter \cup Digit) /\ s[1] \in Letter /\ s \notin Keywords
    /\ "KEYWORD" \in TokensOf(s) <=>
         s # <<>> /\ AllIn(s, Letter \cup Digit) /\ s[1] \in Letter /\ s \in Keywords
    /\ "MC_STR" \in TokensOf(s) <=> Quoted(s, DQuote, Char \ {NL})
    /\ "MC_CH" \in TokensOf(s) <=> Quoted(s, Quote, Char)
    /\ "SYMBOL" \in TokensOf(s) <=>
         \/ Len(s) = 1 /\ s[1] \in DOMAIN Single \cup {":", "<", ">"}
         \/ s \in {<<":", "=">>, <<"<", "=">>, <<"<", ">">>, <<">", "=">>}
<1>. TAKE s
<1>1. TokensOf(s) \subseteq {"MC_UNS", "MC_ID", "KEYWORD", "MC_STR", "MC_CH", "SYMBOL"}
  BY DEF TokensOf
<1>2. "MC_UNS" \in TokensOf(s) <=> s # <<>> /\ AllIn(s, Digit)
  BY DEF TokensOf
<1>3. "MC_ID" \in TokensOf(s) <=>
         s # <<>> /\ AllIn(s, Letter \cup Digit) /\ s[1] \in Letter /\ s \notin Keywords
  BY DEF TokensOf
<1>4. "KEYWORD" \in TokensOf(s) <=>
         s # <<>> /\ AllIn(s, Letter \cup Digit) /\ s[1] \in Letter /\ s \in Keywords
  BY DEF TokensOf
<1>5. "MC_STR" \in TokensOf(s) <=> Quoted(s, DQuote, Char \ {NL})
  BY DEF TokensOf
<1>6. "MC_CH" \in TokensOf(s) <=> Quoted(s, Quote, Char)
  BY DEF TokensOf
<1>7. "SYMBOL" \in TokensOf(s) <=>
         \/ Len(s) = 1 /\ s[1] \in DOMAIN Single \cup {":", "<", ">"}
         \/ s \in {<<":", "=">>, <<"<", "=">>, <<"<", ">">>, <<">", "=">>}
  BY DEF TokensOf
<1>. QED  BY <1>1, <1>2, <1>3, <1>4, <1>5, <1>6, <1>7

AllOf(t, i, j, S) == \A k \in i..j : t[k] \in S
Paired == {<<":", "=">>, <<"<", "=">>, <<"<", ">">>, <<">", "=">>}
Alone == SmallSymbols \cup {":", "<", ">"}

\* A word from i to j holds characters of a set if the text does there.
LEMMA AllInWord ==
  ASSUME NEW t \in Seq(Char), NEW i \in 1..Len(t) + 1, NEW j \in i - 1..Len(t), NEW S
  PROVE  AllIn(Word(t, i, j), S) <=> AllOf(t, i, j, S)
<1>1. ASSUME AllIn(Word(t, i, j), S), NEW k \in i..j  PROVE t[k] \in S
  <2>1. k - i + 1 \in 1..j - i + 1  OBVIOUS
  <2>2. Word(t, i, j)[k - i + 1] \in S  BY <1>1, <2>1, WordIs DEF AllIn
  <2>. QED  BY <2>2, WordIs
<1>2. ASSUME AllOf(t, i, j, S), NEW k \in DOMAIN Word(t, i, j)  PROVE Word(t, i, j)[k] \in S
  <2>1. k \in 1..j - i + 1  BY <1>2, WordIs
  <2>2. i + k - 1 \in i..j  BY <2>1
  <2>. QED  BY <1>2, <2>1, <2>2, WordIs DEF AllOf
<1>. QED  BY <1>1, <1>2 DEF AllIn, AllOf

\* The first and the last character of a word.
LEMMA WordEnds ==
  ASSUME NEW t \in Seq(Char), NEW i \in 1..Len(t), NEW j \in i..Len(t)
  PROVE  /\ Word(t, i, j) \in Seq(Char) /\ Word(t, i, j) # <<>>
         /\ Len(Word(t, i, j)) = j - i + 1
         /\ Word(t, i, j)[1] = t[i]
         /\ Word(t, i, j)[Len(Word(t, i, j))] = t[j]
<1>1. Word(t, i, j) \in Seq(Char) /\ Len(Word(t, i, j)) = j - i + 1  BY WordIs
<1>2. 1 \in 1..j - i + 1 /\ i + 1 - 1 = i /\ j - i + 1 \in 1..j - i + 1 /\ i + (j - i + 1) - 1 = j
  OBVIOUS
<1>0. i \in 1..Len(t) + 1 /\ j \in i - 1..Len(t)  OBVIOUS
<1>3. \A k \in 1..j - i + 1 : Word(t, i, j)[k] = t[i + k - 1]  BY <1>0, WordIs
<1>. HIDE DEF Word
<1>4. Word(t, i, j)[1] = t[i + 1 - 1]  BY <1>2, <1>3
<1>5. Word(t, i, j)[j - i + 1] = t[i + (j - i + 1) - 1]  BY <1>2, <1>3
<1>6. Word(t, i, j) # <<>>  BY <1>1
<1>. QED  BY <1>1, <1>2, <1>4, <1>5, <1>6

\* A word without its ends.
LEMMA InnerWord ==
  ASSUME NEW t \in Seq(Char), NEW i \in 1..Len(t), NEW j \in i..Len(t), i < j
  PROVE  SubSeq(Word(t, i, j), 2, Len(Word(t, i, j)) - 1) = Word(t, i + 1, j - 1)
<1>. DEFINE w == Word(t, i, j)
<1>0. Len(w) = j - i + 1 /\ w[1] = t[i] /\ w[Len(w)] = t[j] /\ w \in Seq(Char)
  BY WordEnds
<1>1. i + 1 \in 1..Len(t) + 1 /\ j - 1 \in (i + 1) - 1..Len(t)  OBVIOUS
<1>2. Word(t, i + 1, j - 1) = [k \in 1..(j - 1) - (i + 1) + 1 |-> t[(i + 1) + k - 1]]
  BY <1>1 DEF Word
<1>3. SubSeq(w, 2, Len(w) - 1) = [k \in 1..(Len(w) - 1) - 2 + 1 |-> w[2 + k - 1]]
  BY <1>0
<1>4. (Len(w) - 1) - 2 + 1 = (j - 1) - (i + 1) + 1  BY <1>0
<1>5. ASSUME NEW k \in 1..(j - 1) - (i + 1) + 1  PROVE w[2 + k - 1] = t[(i + 1) + k - 1]
  <2>1. k + 1 \in 1..j - i + 1 /\ 2 + k - 1 = k + 1 /\ i + (k + 1) - 1 = (i + 1) + k - 1
    OBVIOUS
  <2>0. i \in 1..Len(t) + 1 /\ j \in i - 1..Len(t)  OBVIOUS
  <2>3. \A l \in 1..j - i + 1 : w[l] = t[i + l - 1]  BY <2>0, WordIs
  <2>2. w[k + 1] = t[i + (k + 1) - 1]  BY <2>1, <2>3
  <2>. HIDE DEF w
  <2>. QED  BY <2>1, <2>2
<1>. QED  BY <1>2, <1>3, <1>4, <1>5

\* A word in quotes, by its place in the text.
LEMMA QuotedWord ==
  ASSUME NEW t \in Seq(Char), NEW i \in 1..Len(t), NEW j \in i..Len(t), NEW q, NEW S
  PROVE  Quoted(Word(t, i, j), q, S) <=>
           /\ i < j /\ t[i] = q /\ t[j] = q
           /\ AllOf(t, i + 1, j - 1, S \ {q})
<1>. DEFINE w == Word(t, i, j)
<1>1. Len(w) = j - i + 1 /\ w[1] = t[i] /\ w[Len(w)] = t[j] /\ w \in Seq(Char)
  BY WordEnds
<1>2. i < j => SubSeq(w, 2, Len(w) - 1) = Word(t, i + 1, j - 1)  BY InnerWord
<1>3. ASSUME i < j
      PROVE  AllIn(SubSeq(w, 2, Len(w) - 1), S \ {q}) <=> AllOf(t, i + 1, j - 1, S \ {q})
  <2>1. i + 1 \in 1..Len(t) + 1 /\ j - 1 \in (i + 1) - 1..Len(t)  BY <1>3
  <2>. QED  BY <1>2, <1>3, <2>1, AllInWord
<1>. QED  BY <1>1, <1>3 DEF Quoted

\* The words that are lexemes, by the characters of the text.
LEMMA TokensOfWord ==
  ASSUME NEW t \in Seq(Char), NEW i \in 1..Len(t), NEW j \in i..Len(t)
  PROVE  /\ "MC_UNS" \in TokensOf(Word(t, i, j)) <=> AllOf(t, i, j, Digit)
         /\ getkw(Word(t, i, j)) \in TokensOf(Word(t, i, j)) <=>
              t[i] \in Letter /\ AllOf(t, i, j, Letter \cup Digit)
         /\ "MC_STR" \in TokensOf(Word(t, i, j)) <=>
              /\ i < j /\ t[i] = DQuote /\ t[j] = DQuote
              /\ AllOf(t, i + 1, j - 1, (Char \ {NL}) \ {DQuote})
         /\ "MC_CH" \in TokensOf(Word(t, i, j)) <=>
              /\ i < j /\ t[i] = Quote /\ t[j] = Quote
              /\ AllOf(t, i + 1, j - 1, Char \ {Quote})
         /\ "SYMBOL" \in TokensOf(Word(t, i, j)) <=>
              \/ i = j /\ t[i] \in Alone
              \/ j = i + 1 /\ <<t[i], t[j]>> \in Paired
         /\ \A tok \in TokensOf(Word(t, i, j)) :
              tok \in {"MC_UNS", getkw(Word(t, i, j)), "MC_STR", "MC_CH", "SYMBOL"}
<1>. DEFINE w == Word(t, i, j)
<1>1. Len(w) = j - i + 1 /\ w[1] = t[i] /\ w[Len(w)] = t[j] /\ w \in Seq(Char) /\ w # <<>>
  BY WordEnds
<1>2. "MC_UNS" \in TokensOf(w) <=> AllOf(t, i, j, Digit)
  BY <1>1, TokensOfIs, AllInWord
<1>3. AllIn(w, Letter \cup Digit) <=> AllOf(t, i, j, Letter \cup Digit)
  BY AllInWord
<1>4. getkw(w) \in TokensOf(w) <=> t[i] \in Letter /\ AllOf(t, i, j, Letter \cup Digit)
  <2>1. CASE w \in Keywords
    <3>1. getkw(w) = "KEYWORD"  BY <2>1 DEF getkw
    <3>. QED  BY <1>1, <1>3, <2>1, <3>1, TokensOfIs
  <2>2. CASE w \notin Keywords
    <3>1. getkw(w) = "MC_ID"  BY <2>2 DEF getkw
    <3>. QED  BY <1>1, <1>3, <2>2, <3>1, TokensOfIs
  <2>. QED  BY <2>1, <2>2
<1>5. "MC_STR" \in TokensOf(w) <=>
              /\ i < j /\ t[i] = DQuote /\ t[j] = DQuote
              /\ AllOf(t, i + 1, j - 1, (Char \ {NL}) \ {DQuote})
  BY TokensOfIs, QuotedWord
<1>6. "MC_CH" \in TokensOf(w) <=>
              /\ i < j /\ t[i] = Quote /\ t[j] = Quote
              /\ AllOf(t, i + 1, j - 1, Char \ {Quote})
  BY TokensOfIs, QuotedWord
<1>7. w \in Paired <=> j = i + 1 /\ <<t[i], t[j]>> \in Paired
  <2>1. ASSUME w \in Paired  PROVE j = i + 1 /\ <<t[i], t[j]>> \in Paired
    <3>1. Len(w) = 2  BY <2>1 DEF Paired
    <3>2. w = <<w[1], w[2]>>  BY <2>1 DEF Paired
    <3>3. j - i + 1 = 2 /\ w[2] = t[j]  BY <1>1, <3>1
    <3>4. j = i + 1  BY <3>3
    <3>5. w = <<t[i], t[j]>>  BY <1>1, <3>2, <3>3
    <3>. QED  BY <2>1, <3>4, <3>5
  <2>2. ASSUME j = i + 1, <<t[i], t[j]>> \in Paired  PROVE w \in Paired
    <3>1. Len(w) = 2 /\ w[1] = t[i] /\ w[2] = t[j]  BY <1>1, <2>2
    <3>2. w = <<t[i], t[j]>>
      <4>. HIDE DEF w
      <4>. QED  BY <1>1, <3>1
    <3>. QED  BY <2>2, <3>2
  <2>. QED  BY <2>1, <2>2
<1>8. "SYMBOL" \in TokensOf(w) <=>
              \/ i = j /\ t[i] \in Alone
              \/ j = i + 1 /\ <<t[i], t[j]>> \in Paired
  <2>1. "SYMBOL" \in TokensOf(w) <=> (Len(w) = 1 /\ w[1] \in Alone) \/ w \in Paired
    BY TokensOfIs, Singles DEF Alone, Paired
  <2>2. Len(w) = 1 <=> i = j  BY <1>1
  <2>. QED  BY <1>1, <1>7, <2>1, <2>2
<1>9. \A tok \in TokensOf(w) : tok \in {"MC_UNS", getkw(w), "MC_STR", "MC_CH", "SYMBOL"}
  BY TokensOfIs DEF getkw
<1>. QED  BY <1>2, <1>4, <1>5, <1>6, <1>8, <1>9

-----------------------------------------------------------------------------
(* The longest lexeme at a place                                           *)

Ends(t, i) == {j \in i..Len(t) : TokensOf(Word(t, i, j)) # {}}
Longest(t, i) == CHOOSE j \in Ends(t, i) : \A k \in Ends(t, i) : k <= j

\* Which pairs begin with a character.
LEMMA Pairs ==
  \A a, b : <<a, b>> \in Paired <=>
    \/ a = ":" /\ b = "="
    \/ a = "<" /\ b \in {"=", ">"}
    \/ a = ">" /\ b = "="
BY DEF Paired

\* What a lexeme's first character says of it.
LEMMA ByFirst ==
  ASSUME NEW t \in Seq(Char), NEW i \in 1..Len(t), NEW k \in Ends(t, i)
  PROVE  /\ t[i] \in Digit => AllOf(t, i, k, Digit)
         /\ t[i] \in Letter => AllOf(t, i, k, Letter \cup Digit)
         /\ t[i] = DQuote =>
              i < k /\ t[k] = DQuote /\ AllOf(t, i + 1, k - 1, (Char \ {NL}) \ {DQuote})
         /\ t[i] = Quote =>
              i < k /\ t[k] = Quote /\ AllOf(t, i + 1, k - 1, Char \ {Quote})
         /\ t[i] \in SmallSymbols => k = i
         /\ t[i] \in {":", "<", ">"} => k = i \/ (k = i + 1 /\ <<t[i], t[k]>> \in Paired)
         /\ t[i] \notin Stray \cup Space \cup {Brace}
<1>0. k \in i..Len(t) /\ TokensOf(Word(t, i, k)) # {}  BY DEF Ends
<1>. DEFINE digits == AllOf(t, i, k, Digit)
            name == t[i] \in Letter /\ AllOf(t, i, k, Letter \cup Digit)
            string == /\ i < k /\ t[i] = DQuote /\ t[k] = DQuote
                      /\ AllOf(t, i + 1, k - 1, (Char \ {NL}) \ {DQuote})
            constant == /\ i < k /\ t[i] = Quote /\ t[k] = Quote
                        /\ AllOf(t, i + 1, k - 1, Char \ {Quote})
            symbol == \/ i = k /\ t[i] \in Alone
                      \/ k = i + 1 /\ <<t[i], t[k]>> \in Paired
<1>1. digits \/ name \/ string \/ constant \/ symbol
  <2>1. PICK tok : tok \in TokensOf(Word(t, i, k))  BY <1>0
  <2>2. tok \in {"MC_UNS", getkw(Word(t, i, k)), "MC_STR", "MC_CH", "SYMBOL"}
    BY <1>0, <2>1, TokensOfWord
  <2>3. CASE tok = "MC_UNS"  BY <1>0, <2>1, <2>3, TokensOfWord
  <2>4. CASE tok = getkw(Word(t, i, k))  BY <1>0, <2>1, <2>4, TokensOfWord
  <2>5. CASE tok = "MC_STR"  BY <1>0, <2>1, <2>5, TokensOfWord
  <2>6. CASE tok = "MC_CH"  BY <1>0, <2>1, <2>6, TokensOfWord
  <2>7. CASE tok = "SYMBOL"  BY <1>0, <2>1, <2>7, TokensOfWord
  <2>. QED  BY <2>2, <2>3, <2>4, <2>5, <2>6, <2>7
<1>2. digits => t[i] \in Digit  BY <1>0 DEF AllOf
<1>3. symbol => t[i] \in Alone  BY Pairs DEF Alone
<1>4. /\ \A ch \in Digit : ch \notin Letter \cup Alone \cup {DQuote, Quote}
      /\ \A ch \in Letter : ch \notin Alone \cup {DQuote, Quote}
      /\ DQuote \notin Alone /\ Quote \notin Alone
      /\ \A ch \in Stray \cup Space \cup {Brace} :
           ch \notin Letter \cup Digit \cup Alone \cup {DQuote, Quote}
  BY Classes, Specials DEF Alone, DQuote, Quote, Brace
<1>. HIDE DEF digits, name, string, constant, symbol
<1>5. t[i] \in Digit => AllOf(t, i, k, Digit)
  <2>1. t[i] \in Digit => ~name /\ ~string /\ ~constant /\ ~symbol
    BY <1>3, <1>4 DEF name, string, constant
  <2>. QED  BY <1>1, <2>1 DEF digits
<1>6. t[i] \in Letter => AllOf(t, i, k, Letter \cup Digit)
  <2>1. t[i] \in Letter => ~digits /\ ~string /\ ~constant /\ ~symbol
    BY <1>2, <1>3, <1>4 DEF string, constant
  <2>. QED  BY <1>1, <2>1 DEF name
<1>7. t[i] = DQuote =>
        i < k /\ t[k] = DQuote /\ AllOf(t, i + 1, k - 1, (Char \ {NL}) \ {DQuote})
  <2>1. t[i] = DQuote => ~digits /\ ~name /\ ~constant /\ ~symbol
    BY <1>2, <1>3, <1>4, Specials DEF name, constant
  <2>. QED  BY <1>1, <2>1 DEF string
<1>8. t[i] = Quote => i < k /\ t[k] = Quote /\ AllOf(t, i + 1, k - 1, Char \ {Quote})
  <2>1. t[i] = Quote => ~digits /\ ~name /\ ~string /\ ~symbol
    BY <1>2, <1>3, <1>4, Specials DEF name, string
  <2>. QED  BY <1>1, <2>1 DEF constant
<1>9. t[i] \in Alone => symbol
  <2>1. t[i] \in Alone => ~digits /\ ~name /\ ~string /\ ~constant
    BY <1>2, <1>4 DEF name, string, constant
  <2>. QED  BY <1>1, <2>1
<1>10. t[i] \in SmallSymbols => k = i
  <2>1. t[i] \in SmallSymbols => t[i] \in Alone /\ t[i] \notin {":", "<", ">"}
    BY Specials DEF Alone
  <2>2. t[i] \in SmallSymbols => ~(<<t[i], t[k]>> \in Paired)
    BY <2>1, Pairs
  <2>. QED  BY <1>9, <2>1, <2>2 DEF symbol
<1>11. t[i] \in {":", "<", ">"} => k = i \/ (k = i + 1 /\ <<t[i], t[k]>> \in Paired)
  <2>1. t[i] \in {":", "<", ">"} => t[i] \in Alone  BY DEF Alone
  <2>2. symbol => k = i \/ (k = i + 1 /\ <<t[i], t[k]>> \in Paired)  BY DEF symbol
  <2>. QED  BY <1>9, <2>1, <2>2
<1>12. t[i] \notin Stray \cup Space \cup {Brace}
  BY <1>1, <1>2, <1>3, <1>4 DEF name, string, constant
<1>. QED  BY <1>5, <1>6, <1>7, <1>8, <1>10, <1>11, <1>12

\* The end that no other is beyond is the longest lexeme's.
LEMMA LongestIs ==
  ASSUME NEW t \in Seq(Char), NEW i \in 1..Len(t), NEW j \in Ends(t, i),
         \A k \in Ends(t, i) : k <= j
  PROVE  Longest(t, i) = j
<1>1. \A k \in Ends(t, i) : k \in Int  BY DEF Ends
<1>2. Longest(t, i) \in Ends(t, i) /\ \A k \in Ends(t, i) : k <= Longest(t, i)
  BY DEF Longest
<1>3. Longest(t, i) <= j /\ j <= Longest(t, i)  BY <1>2
<1>. QED  BY <1>1, <1>2, <1>3

\* A run of digits that no digit follows.
LEMMA NumberEnds ==
  ASSUME NEW t \in Seq(Char), NEW i \in 1..Len(t), NEW j \in i..Len(t),
         AllOf(t, i, j, Digit), j = Len(t) \/ t[j + 1] \notin Digit
  PROVE  /\ j \in Ends(t, i) /\ Longest(t, i) = j
         /\ "MC_UNS" \in TokensOf(Word(t, i, j))
<1>1. "MC_UNS" \in TokensOf(Word(t, i, j))  BY TokensOfWord
<1>2. j \in Ends(t, i)  BY <1>1 DEF Ends
<1>3. ASSUME NEW k \in Ends(t, i)  PROVE k <= j
  <2>1. t[i] \in Digit  BY DEF AllOf
  <2>2. AllOf(t, i, k, Digit) /\ k \in i..Len(t)  BY <2>1, ByFirst DEF Ends
  <2>. QED  BY <2>2 DEF AllOf
<1>. QED  BY <1>1, <1>2, <1>3, LongestIs

\* A word that no letter or digit follows.
LEMMA NameEnds ==
  ASSUME NEW t \in Seq(Char), NEW i \in 1..Len(t), NEW j \in i..Len(t),
         t[i] \in Letter, AllOf(t, i, j, Letter \cup Digit),
         j = Len(t) \/ t[j + 1] \notin Letter \cup Digit
  PROVE  /\ j \in Ends(t, i) /\ Longest(t, i) = j
         /\ getkw(Word(t, i, j)) \in TokensOf(Word(t, i, j))
<1>1. getkw(Word(t, i, j)) \in TokensOf(Word(t, i, j))  BY TokensOfWord
<1>2. j \in Ends(t, i)  BY <1>1 DEF Ends
<1>3. ASSUME NEW k \in Ends(t, i)  PROVE k <= j
  <2>1. AllOf(t, i, k, Letter \cup Digit) /\ k \in i..Len(t)  BY ByFirst DEF Ends
  <2>. QED  BY <2>1 DEF AllOf
<1>. QED  BY <1>1, <1>2, <1>3, LongestIs

\* A string up to its closing quote.
LEMMA StringEnds ==
  ASSUME NEW t \in Seq(Char), NEW i \in 1..Len(t), NEW j \in i + 1..Len(t),
         t[i] = DQuote, t[j] = DQuote,
         \A k \in i + 1..j - 1 : t[k] \notin {DQuote, NL}
  PROVE  /\ j \in Ends(t, i) /\ Longest(t, i) = j
         /\ "MC_STR" \in TokensOf(Word(t, i, j))
<1>1. AllOf(t, i + 1, j - 1, (Char \ {NL}) \ {DQuote})
  <2>1. \A k \in i + 1..j - 1 : k \in 1..Len(t) /\ t[k] \in Char  OBVIOUS
  <2>. QED  BY <2>1 DEF AllOf
<1>0. j \in i..Len(t) /\ i < j  OBVIOUS
<1>2. "MC_STR" \in TokensOf(Word(t, i, j))  BY <1>0, <1>1, TokensOfWord
<1>3. j \in Ends(t, i)  BY <1>0, <1>2 DEF Ends
<1>4. ASSUME NEW k \in Ends(t, i)  PROVE k <= j
  <2>1. AllOf(t, i + 1, k - 1, (Char \ {NL}) \ {DQuote}) /\ k \in i..Len(t)  BY ByFirst DEF Ends
  <2>2. ASSUME j < k  PROVE FALSE
    <3>1. j \in i + 1..k - 1  BY <2>1, <2>2
    <3>. QED  BY <2>1, <3>1 DEF AllOf
  <2>. QED  BY <2>1, <2>2
<1>. QED  BY <1>2, <1>3, <1>4, LongestIs

\* A character constant up to its closing quote.
LEMMA ConstantEnds ==
  ASSUME NEW t \in Seq(Char), NEW i \in 1..Len(t), NEW j \in i + 1..Len(t),
         t[i] = Quote, t[j] = Quote,
         \A k \in i + 1..j - 1 : t[k] # Quote
  PROVE  /\ j \in Ends(t, i) /\ Longest(t, i) = j
         /\ "MC_CH" \in TokensOf(Word(t, i, j))
<1>1. AllOf(t, i + 1, j - 1, Char \ {Quote})
  <2>1. \A k \in i + 1..j - 1 : k \in 1..Len(t) /\ t[k] \in Char  OBVIOUS
  <2>. QED  BY <2>1 DEF AllOf
<1>0. j \in i..Len(t) /\ i < j  OBVIOUS
<1>2. "MC_CH" \in TokensOf(Word(t, i, j))  BY <1>0, <1>1, TokensOfWord
<1>3. j \in Ends(t, i)  BY <1>0, <1>2 DEF Ends
<1>4. ASSUME NEW k \in Ends(t, i)  PROVE k <= j
  <2>1. AllOf(t, i + 1, k - 1, Char \ {Quote}) /\ k \in i..Len(t)  BY ByFirst DEF Ends
  <2>2. ASSUME j < k  PROVE FALSE
    <3>1. j \in i + 1..k - 1  BY <2>1, <2>2
    <3>. QED  BY <2>1, <3>1 DEF AllOf
  <2>. QED  BY <2>1, <2>2
<1>. QED  BY <1>2, <1>3, <1>4, LongestIs

\* A symbol of one character, unless the next one makes it a pair.
LEMMA AloneEnds ==
  ASSUME NEW t \in Seq(Char), NEW i \in 1..Len(t), t[i] \in Alone,
         i < Len(t) => ~(<<t[i], t[i + 1]>> \in Paired)
  PROVE  /\ i \in Ends(t, i) /\ Longest(t, i) = i
         /\ "SYMBOL" \in TokensOf(Word(t, i, i))
<1>0. i \in i..Len(t)  OBVIOUS
<1>1. "SYMBOL" \in TokensOf(Word(t, i, i))  BY <1>0, TokensOfWord
<1>2. i \in Ends(t, i)  BY <1>0, <1>1 DEF Ends
<1>3. ASSUME NEW k \in Ends(t, i)  PROVE k <= i
  <2>1. k \in i..Len(t)  BY DEF Ends
  <2>2. t[i] \in SmallSymbols \/ t[i] \in {":", "<", ">"}  BY DEF Alone
  <2>3. k = i \/ (k = i + 1 /\ <<t[i], t[k]>> \in Paired)  BY <2>2, ByFirst
  <2>. QED  BY <2>1, <2>3
<1>. QED  BY <1>1, <1>2, <1>3, LongestIs

\* A symbol of two characters.
LEMMA PairEnds ==
  ASSUME NEW t \in Seq(Char), NEW i \in 1..Len(t), i < Len(t), <<t[i], t[i + 1]>> \in Paired
  PROVE  /\ i + 1 \in Ends(t, i) /\ Longest(t, i) = i + 1
         /\ "SYMBOL" \in TokensOf(Word(t, i, i + 1))
<1>0. i + 1 \in i..Len(t)  OBVIOUS
<1>1. "SYMBOL" \in TokensOf(Word(t, i, i + 1))  BY <1>0, TokensOfWord
<1>2. i + 1 \in Ends(t, i)  BY <1>0, <1>1 DEF Ends
<1>3. ASSUME NEW k \in Ends(t, i)  PROVE k <= i + 1
  <2>1. k \in i..Len(t)  BY DEF Ends
  <2>2. t[i] \in {":", "<", ">"}  BY Pairs
  <2>3. k = i \/ (k = i + 1 /\ <<t[i], t[k]>> \in Paired)  BY <2>2, ByFirst
  <2>. QED  BY <2>1, <2>3
<1>. QED  BY <1>1, <1>2, <1>3, LongestIs

\* What begins no lexeme: a stray character, a quote that the text or, for a
\* string, the line does not close.
LEMMA NoEnds ==
  ASSUME NEW t \in Seq(Char), NEW i \in 1..Len(t),
         \/ t[i] \in Stray
         \/ t[i] = Quote /\ \A k \in i + 1..Len(t) : t[k] # Quote
         \/ t[i] = DQuote /\ \E m \in i + 1..Len(t) + 1 :
              /\ m = Len(t) + 1 \/ t[m] = NL
              /\ \A k \in i + 1..m - 1 : t[k] # DQuote
  PROVE  Ends(t, i) = {}
<1>. SUFFICES ASSUME NEW k \in Ends(t, i)  PROVE FALSE
  OBVIOUS
<1>0. k \in i..Len(t)  BY DEF Ends
<1>1. t[i] \notin Stray  BY ByFirst
<1>2. CASE t[i] = Quote /\ \A j \in i + 1..Len(t) : t[j] # Quote
  <2>1. i < k /\ t[k] = Quote  BY <1>2, ByFirst
  <2>. QED  BY <1>0, <1>2, <2>1
<1>3. CASE t[i] = DQuote /\ \E m \in i + 1..Len(t) + 1 :
              /\ m = Len(t) + 1 \/ t[m] = NL
              /\ \A j \in i + 1..m - 1 : t[j] # DQuote
  <2>1. i < k /\ t[k] = DQuote /\ AllOf(t, i + 1, k - 1, (Char \ {NL}) \ {DQuote})
    BY <1>3, ByFirst
  <2>2. PICK m \in i + 1..Len(t) + 1 : /\ m = Len(t) + 1 \/ t[m] = NL
                                       /\ \A j \in i + 1..m - 1 : t[j] # DQuote
    BY <1>3
  <2>3. k >= m  BY <1>0, <2>1, <2>2
  <2>4. t[m] = NL  BY <1>0, <2>2, <2>3
  <2>5. m # k  BY <2>1, <2>4, Specials
  <2>6. m \in i + 1..k - 1  BY <1>0, <2>2, <2>3, <2>5
  <2>. QED  BY <2>1, <2>4, <2>6 DEF AllOf
<1>. QED  BY <1>1, <1>2, <1>3

-----------------------------------------------------------------------------
(* Recursion towards the end of the text                                   *)

Closed(t, i) == {j \in i + 1..Len(t) : t[j] = EndBrace}
Nearest(S) == CHOOSE j \in S : \A k \in S : j <= k
SolidBody(t, f, i) ==
  IF i > Len(t) THEN i
  ELSE IF t[i] \in Space THEN f[i + 1]
  ELSE IF t[i] # Brace THEN i
  ELSE IF Closed(t, i) = {} THEN Len(t) + 1
  ELSE f[1 + Nearest(Closed(t, i))]
SolidIn(t) == CHOOSE f : f = [i \in 1..Len(t) + 1 |-> SolidBody(t, f, i)]

\* The closing bracket found is the first one.
LEMMA FirstClosed ==
  ASSUME NEW t \in Seq(Char), NEW i \in 1..Len(t), Closed(t, i) # {}
  PROVE  /\ Nearest(Closed(t, i)) \in Closed(t, i)
         /\ \A k \in Closed(t, i) : Nearest(Closed(t, i)) <= k
<1>0. Len(t) \in Nat  OBVIOUS
<1>3. Closed(t, i) \subseteq i + 1..Len(t)  BY Zenon DEF Closed
<1>4. i + 1..Len(t) \subseteq Nat  BY <1>0
<1>1. Closed(t, i) \subseteq Nat  BY <1>3, <1>4, Zenon
<1>2. \E j \in Closed(t, i) : \A k \in Closed(t, i) : j <= k  BY <1>1, LeastNat
<1>. QED  BY <1>2 DEF Nearest

\* A place's value depends on those behind it only.
LEMMA SolidBehind ==
  ASSUME NEW t \in Seq(Char), NEW i \in 1..Len(t) + 1, NEW f, NEW g,
         \A k \in i + 1..Len(t) + 1 : f[k] = g[k]
  PROVE  SolidBody(t, f, i) = SolidBody(t, g, i)
<1>0. Len(t) \in Nat  OBVIOUS
<1>1. CASE i > Len(t)  BY <1>1 DEF SolidBody
<1>2. CASE i <= Len(t) /\ t[i] \in Space
  <2>1. f[i + 1] = g[i + 1] /\ ~(i > Len(t))  BY <1>0, <1>2
  <2>. QED  BY <1>2, <2>1 DEF SolidBody
<1>3. CASE i <= Len(t) /\ t[i] \notin Space
  <2>0. ~(i > Len(t))  BY <1>0, <1>3
  <2>1. ASSUME Closed(t, i) # {}
        PROVE  f[1 + Nearest(Closed(t, i))] = g[1 + Nearest(Closed(t, i))]
    <3>1. i \in 1..Len(t)  BY <1>3
    <3>2. Nearest(Closed(t, i)) \in i + 1..Len(t)  BY <2>1, <3>1, FirstClosed DEF Closed
    <3>3. 1 + Nearest(Closed(t, i)) \in i + 1..Len(t) + 1  BY <1>0, <3>1, <3>2
    <3>. QED  BY <3>3
  <2>2. SolidBody(t, f, i) = IF t[i] # Brace THEN i
                             ELSE IF Closed(t, i) = {} THEN Len(t) + 1
                             ELSE f[1 + Nearest(Closed(t, i))]
    BY <1>3, <2>0 DEF SolidBody
  <2>3. SolidBody(t, g, i) = IF t[i] # Brace THEN i
                             ELSE IF Closed(t, i) = {} THEN Len(t) + 1
                             ELSE g[1 + Nearest(Closed(t, i))]
    BY <1>3, <2>0 DEF SolidBody
  <2>4. CASE t[i] # Brace  BY <2>2, <2>3, <2>4, Zenon
  <2>5. CASE t[i] = Brace /\ Closed(t, i) = {}  BY <2>2, <2>3, <2>5, Zenon
  <2>6. CASE t[i] = Brace /\ Closed(t, i) # {}  BY <2>1, <2>2, <2>3, <2>6, Zenon
  <2>. QED  BY <2>4, <2>5, <2>6
<1>. QED  BY <1>0, <1>1, <1>2, <1>3

\* So the recursion has a solution.
LEMMA SolidSolved ==
  ASSUME NEW t \in Seq(Char)
  PROVE  SolidIn(t) = [i \in 1..Len(t) + 1 |-> SolidBody(t, SolidIn(t), i)]
<1>. DEFINE N == Len(t) + 1
            Part(m) == \E f : f = [i \in m..N |-> SolidBody(t, f, i)]
            None == {m \in 1..N : ~Part(m)}
<1>1. None = {}
  <2>. SUFFICES ASSUME None # {}  PROVE FALSE
    OBVIOUS
  <2>0. N \in Nat /\ None \subseteq 1..N  OBVIOUS
  <2>. HIDE DEF None
  <2>1. PICK m \in None : \A k \in None : m >= k  BY <2>0, GreatestNat
  <2>2. \E f : \A i \in m + 1..N : f[i] = SolidBody(t, f, i)
    <3>1. CASE m = N
      <4>1. m + 1..N = {}  BY <2>0, <3>1
      <4>. QED  BY <4>1
    <3>2. CASE m # N
      <4>1. m + 1 \in 1..N /\ ~(m >= m + 1)  BY <2>0, <3>2
      <4>2. Part(m + 1)  BY <2>1, <4>1 DEF None
      <4>3. PICK f : f = [i \in m + 1..N |-> SolidBody(t, f, i)]  BY <4>2
      <4>. QED  BY <4>3
    <3>. QED  BY <3>1, <3>2
  <2>3. PICK f : \A i \in m + 1..N : f[i] = SolidBody(t, f, i)  BY <2>2
  <2>. DEFINE g == [i \in m..N |-> IF i = m THEN SolidBody(t, f, m) ELSE f[i]]
  <2>4. m \in 1..N  BY <2>0, <2>1
  <2>5. \A k \in m + 1..N : g[k] = f[k]  BY <2>4
  <2>6. g[m] = SolidBody(t, f, m)  BY <2>4
  <2>7. DOMAIN g = m..N /\ g = [i \in m..N |-> g[i]]  OBVIOUS
  <2>. HIDE DEF g
  <2>8. ASSUME NEW i \in m..N  PROVE g[i] = SolidBody(t, g, i)
    <3>1. i \in 1..N /\ \A k \in i + 1..N : k \in m + 1..N  BY <2>4
    <3>2. \A k \in i + 1..N : f[k] = g[k]  BY <2>5, <3>1
    <3>3. SolidBody(t, f, i) = SolidBody(t, g, i)  BY <3>1, <3>2, SolidBehind
    <3>4. CASE i = m  BY <2>6, <3>3, <3>4
    <3>5. CASE i # m
      <4>1. i \in m + 1..N  BY <2>4, <3>5
      <4>. QED  BY <2>3, <2>5, <3>3, <4>1
    <3>. QED  BY <3>4, <3>5
  <2>9. g = [i \in m..N |-> SolidBody(t, g, i)]  BY <2>7, <2>8
  <2>10. Part(m)  BY <2>9
  <2>. QED  BY <2>1, <2>10 DEF None
<1>2. 1 \in 1..N  OBVIOUS
<1>3. Part(1)  BY <1>1, <1>2
<1>4. \E f : f = [i \in 1..N |-> SolidBody(t, f, i)]  BY <1>3
<1>. QED  BY <1>4 DEF SolidIn

\* What the solution says of a place.
LEMMA SolidAt ==
  ASSUME NEW t \in Seq(Char), NEW i \in 1..Len(t) + 1
  PROVE  /\ i = Len(t) + 1 => SolidIn(t)[i] = i
         /\ i <= Len(t) /\ t[i] \in Space => SolidIn(t)[i] = SolidIn(t)[i + 1]
         /\ i <= Len(t) /\ t[i] \notin Space \cup {Brace} => SolidIn(t)[i] = i
         /\ i <= Len(t) /\ t[i] = Brace =>
              SolidIn(t)[i] = IF Closed(t, i) = {} THEN Len(t) + 1
                              ELSE SolidIn(t)[1 + Nearest(Closed(t, i))]
<1>0. Len(t) \in Nat  OBVIOUS
<1>1. SolidIn(t)[i] = SolidBody(t, SolidIn(t), i)  BY SolidSolved
<1>2. CASE i = Len(t) + 1
  <2>1. i > Len(t)  BY <1>0, <1>2
  <2>. QED  BY <1>0, <1>1, <1>2, <2>1 DEF SolidBody
<1>3. CASE i <= Len(t) /\ t[i] \in Space
  <2>1. ~(i > Len(t)) /\ t[i] # Brace  BY <1>0, <1>3, Specials
  <2>. QED  BY <1>0, <1>1, <1>3, <2>1 DEF SolidBody
<1>4. CASE i <= Len(t) /\ t[i] \notin Space \cup {Brace}
  <2>1. ~(i > Len(t))  BY <1>0, <1>4
  <2>. QED  BY <1>0, <1>1, <1>4, <2>1 DEF SolidBody
<1>5. CASE i <= Len(t) /\ t[i] = Brace
  <2>1. ~(i > Len(t)) /\ t[i] \notin Space  BY <1>0, <1>5, Specials
  <2>2. SolidBody(t, SolidIn(t), i) = IF Closed(t, i) = {} THEN Len(t) + 1
                                      ELSE SolidIn(t)[1 + Nearest(Closed(t, i))]
    BY <1>5, <2>1, Zenon DEF SolidBody
  <2>. QED  BY <1>0, <1>1, <1>5, <2>1, <2>2
<1>. QED  BY <1>0, <1>2, <1>3, <1>4, <1>5

\* A solid place is not before, and nothing that is skipped stands there.
LEMMA SolidIs ==
  ASSUME NEW t \in Seq(Char), NEW i \in 1..Len(t) + 1
  PROVE  /\ SolidIn(t)[i] \in i..Len(t) + 1
         /\ SolidIn(t)[i] <= Len(t) => t[SolidIn(t)[i]] \notin Space \cup {Brace}
<1>. DEFINE N == Len(t) + 1
            Holds(m) == /\ SolidIn(t)[m] \in m..N
                        /\ SolidIn(t)[m] <= Len(t) => t[SolidIn(t)[m]] \notin Space \cup {Brace}
            Fails == {m \in 1..N : ~Holds(m)}
<1>1. Fails = {}
  <2>. SUFFICES ASSUME Fails # {}  PROVE FALSE
    OBVIOUS
  <2>0. Len(t) \in Nat /\ N \in Nat /\ Fails \subseteq 1..N  OBVIOUS
  <2>. HIDE DEF Fails
  <2>1. PICK m \in Fails : \A k \in Fails : m >= k  BY <2>0, GreatestNat
  <2>2. m \in 1..N  BY <2>0, <2>1
  <2>3. \A k \in m + 1..N : Holds(k)
    <3>1. \A k \in m + 1..N : k \in 1..N /\ ~(m >= k)  BY <2>2
    <3>. HIDE DEF Holds
    <3>. QED  BY <2>1, <3>1 DEF Fails
  <2>4. Holds(m)
    <3>1. CASE m = Len(t) + 1
      <4>1. SolidIn(t)[m] = m  BY <2>2, <3>1, SolidAt
      <4>. QED  BY <2>0, <2>2, <3>1, <4>1
    <3>2. CASE m <= Len(t) /\ t[m] \in Space
      <4>1. SolidIn(t)[m] = SolidIn(t)[m + 1]  BY <2>2, <3>2, SolidAt
      <4>2. Holds(m + 1)
        <5>. HIDE DEF Holds
        <5>. QED  BY <2>0, <2>2, <2>3, <3>2
      <4>. QED  BY <2>0, <2>2, <4>1, <4>2
    <3>3. CASE m <= Len(t) /\ t[m] \notin Space \cup {Brace}
      <4>1. SolidIn(t)[m] = m  BY <2>2, <3>3, SolidAt
      <4>. QED  BY <2>0, <2>2, <3>3, <4>1
    <3>4. CASE m <= Len(t) /\ t[m] = Brace /\ Closed(t, m) = {}
      <4>1. SolidIn(t)[m] = Len(t) + 1  BY <2>2, <3>4, SolidAt
      <4>. QED  BY <2>0, <2>2, <3>4, <4>1
    <3>5. CASE m <= Len(t) /\ t[m] = Brace /\ Closed(t, m) # {}
      <4>. DEFINE c == Nearest(Closed(t, m))
      <4>1. SolidIn(t)[m] = SolidIn(t)[1 + c]  BY <2>2, <3>5, SolidAt
      <4>2. m \in 1..Len(t)  BY <2>0, <2>2, <3>5
      <4>3. c \in m + 1..Len(t)  BY <3>5, <4>2, FirstClosed DEF Closed
      <4>. HIDE DEF c
      <4>4. 1 + c \in m + 1..N  BY <2>0, <4>2, <4>3
      <4>5. Holds(1 + c)
        <5>. HIDE DEF Holds
        <5>. QED  BY <2>3, <4>4
      <4>. QED  BY <2>0, <2>2, <4>1, <4>4, <4>5
    <3>. QED  BY <2>0, <2>2, <3>1, <3>2, <3>3, <3>4, <3>5
  <2>. HIDE DEF Holds
  <2>. QED  BY <2>1, <2>4 DEF Fails
<1>2. Holds(i)
  <2>. HIDE DEF Holds
  <2>. QED  BY <1>1
<1>. QED  BY <1>2

\* What a comment leaves: what stands behind the bracket that closes it.
LEMMA SolidComment ==
  ASSUME NEW t \in Seq(Char), NEW o \in 1..Len(t), NEW j \in o + 1..Len(t),
         t[o] = Brace, t[j] = EndBrace, \A k \in o + 1..j - 1 : t[k] # EndBrace
  PROVE  SolidIn(t)[o] = SolidIn(t)[j + 1]
<1>0. Len(t) \in Nat /\ o \in 1..Len(t) + 1 /\ o <= Len(t)  OBVIOUS
<1>1. j \in Closed(t, o)  BY DEF Closed
<1>2. Nearest(Closed(t, o)) \in Closed(t, o) /\ \A k \in Closed(t, o) : Nearest(Closed(t, o)) <= k
  BY <1>1, FirstClosed
<1>3. Nearest(Closed(t, o)) \in o + 1..Len(t) /\ t[Nearest(Closed(t, o))] = EndBrace
  BY <1>2 DEF Closed
<1>4. Nearest(Closed(t, o)) <= j  BY <1>1, <1>2
<1>5. Nearest(Closed(t, o)) = j  BY <1>0, <1>3, <1>4
<1>6. SolidIn(t)[o] = SolidIn(t)[1 + Nearest(Closed(t, o))]  BY <1>0, <1>1, SolidAt
<1>. QED  BY <1>5, <1>6

\* What a comment leaves that nothing closes: nothing.
LEMMA SolidOpen ==
  ASSUME NEW t \in Seq(Char), NEW o \in 1..Len(t),
         t[o] = Brace, \A k \in o + 1..Len(t) : t[k] # EndBrace
  PROVE  SolidIn(t)[o] = Len(t) + 1
<1>0. Len(t) \in Nat /\ o \in 1..Len(t) + 1 /\ o <= Len(t)  OBVIOUS
<1>1. Closed(t, o) = {}  BY DEF Closed
<1>. QED  BY <1>0, <1>1, SolidAt

-----------------------------------------------------------------------------
(* The lexemes of a text                                                   *)

LexBody(t, f, i) ==
  IF Ends(t, SolidIn(t)[i]) = {} THEN <<[first |-> SolidIn(t)[i], last |-> 0]>>
  ELSE <<[first |-> SolidIn(t)[i], last |-> Longest(t, SolidIn(t)[i])]>>
         \o f[Longest(t, SolidIn(t)[i]) + 1]
LexemesIn(t) == CHOOSE f : f = [i \in 1..Len(t) + 1 |-> LexBody(t, f, i)]
Place(t) == [first : 1..Len(t) + 1, last : 0..Len(t)]

\* Where a lexeme ends, if one begins.
LEMMA LongestPlace ==
  ASSUME NEW t \in Seq(Char), NEW i \in 1..Len(t) + 1, Ends(t, SolidIn(t)[i]) # {}
  PROVE  /\ SolidIn(t)[i] \in i..Len(t)
         /\ Longest(t, SolidIn(t)[i]) \in SolidIn(t)[i]..Len(t)
         /\ Longest(t, SolidIn(t)[i]) \in Ends(t, SolidIn(t)[i])
<1>0. Len(t) \in Nat  OBVIOUS
<1>. DEFINE s == SolidIn(t)[i]
            S == Ends(t, s)
<1>1. s \in i..Len(t) + 1  BY SolidIs
<1>2. S \subseteq s..Len(t)  BY Zenon DEF Ends
<1>. HIDE DEF s
<1>3. s..Len(t) \subseteq 1..Len(t)  BY <1>0, <1>1
<1>4. S # {}  BY DEF s
<1>. HIDE DEF S
<1>5. S \subseteq 1..Len(t)  BY <1>2, <1>3
<1>6. PICK j \in S : \A k \in S : j >= k  BY <1>0, <1>4, <1>5, GreatestNat
<1>7. j \in S /\ \A k \in S : k <= j  BY <1>5, <1>6
<1>8. Longest(t, s) \in S  BY <1>7 DEF Longest, S
<1>9. Longest(t, s) \in s..Len(t)  BY <1>2, <1>8
<1>10. s \in i..Len(t)  BY <1>0, <1>1, <1>9
<1>. QED  BY <1>8, <1>9, <1>10 DEF s, S

\* A place's lexemes depend on those behind it only.
LEMMA LexBehind ==
  ASSUME NEW t \in Seq(Char), NEW i \in 1..Len(t) + 1, NEW f, NEW g,
         \A k \in i + 1..Len(t) + 1 : f[k] = g[k]
  PROVE  LexBody(t, f, i) = LexBody(t, g, i)
<1>0. Len(t) \in Nat  OBVIOUS
<1>1. CASE Ends(t, SolidIn(t)[i]) = {}  BY <1>1, Zenon DEF LexBody
<1>2. CASE Ends(t, SolidIn(t)[i]) # {}
  <2>1. /\ SolidIn(t)[i] \in i..Len(t)
        /\ Longest(t, SolidIn(t)[i]) \in SolidIn(t)[i]..Len(t)
    BY <1>2, LongestPlace
  <2>2. Longest(t, SolidIn(t)[i]) + 1 \in i + 1..Len(t) + 1  BY <1>0, <2>1
  <2>3. f[Longest(t, SolidIn(t)[i]) + 1] = g[Longest(t, SolidIn(t)[i]) + 1]  BY <2>2
  <2>. QED  BY <1>2, <2>3, Zenon DEF LexBody
<1>. QED  BY <1>1, <1>2

\* So this recursion has a solution, too.
LEMMA LexemesSolved ==
  ASSUME NEW t \in Seq(Char)
  PROVE  LexemesIn(t) = [i \in 1..Len(t) + 1 |-> LexBody(t, LexemesIn(t), i)]
<1>. DEFINE N == Len(t) + 1
            Part(m) == \E f : f = [i \in m..N |-> LexBody(t, f, i)]
            None == {m \in 1..N : ~Part(m)}
<1>1. None = {}
  <2>. SUFFICES ASSUME None # {}  PROVE FALSE
    OBVIOUS
  <2>0. N \in Nat /\ None \subseteq 1..N  OBVIOUS
  <2>. HIDE DEF None
  <2>1. PICK m \in None : \A k \in None : m >= k  BY <2>0, GreatestNat
  <2>2. \E f : \A i \in m + 1..N : f[i] = LexBody(t, f, i)
    <3>1. CASE m = N
      <4>1. m + 1..N = {}  BY <2>0, <3>1
      <4>. QED  BY <4>1
    <3>2. CASE m # N
      <4>1. m + 1 \in 1..N /\ ~(m >= m + 1)  BY <2>0, <3>2
      <4>2. Part(m + 1)  BY <2>1, <4>1 DEF None
      <4>3. PICK f : f = [i \in m + 1..N |-> LexBody(t, f, i)]  BY <4>2
      <4>. QED  BY <4>3
    <3>. QED  BY <3>1, <3>2
  <2>3. PICK f : \A i \in m + 1..N : f[i] = LexBody(t, f, i)  BY <2>2
  <2>. DEFINE g == [i \in m..N |-> IF i = m THEN LexBody(t, f, m) ELSE f[i]]
  <2>4. m \in 1..N  BY <2>0, <2>1
  <2>5. \A k \in m + 1..N : g[k] = f[k]  BY <2>4
  <2>6. g[m] = LexBody(t, f, m)  BY <2>4
  <2>7. DOMAIN g = m..N /\ g = [i \in m..N |-> g[i]]  OBVIOUS
  <2>. HIDE DEF g
  <2>8. ASSUME NEW i \in m..N  PROVE g[i] = LexBody(t, g, i)
    <3>1. i \in 1..N /\ \A k \in i + 1..N : k \in m + 1..N  BY <2>4
    <3>2. \A k \in i + 1..N : f[k] = g[k]  BY <2>5, <3>1
    <3>3. LexBody(t, f, i) = LexBody(t, g, i)  BY <3>1, <3>2, LexBehind
    <3>4. CASE i = m  BY <2>6, <3>3, <3>4
    <3>5. CASE i # m
      <4>1. i \in m + 1..N  BY <2>4, <3>5
      <4>. QED  BY <2>3, <2>5, <3>3, <4>1
    <3>. QED  BY <3>4, <3>5
  <2>9. g = [i \in m..N |-> LexBody(t, g, i)]  BY <2>7, <2>8
  <2>10. Part(m)  BY <2>9
  <2>. QED  BY <2>1, <2>10 DEF None
<1>2. 1 \in 1..N  OBVIOUS
<1>3. Part(1)  BY <1>1, <1>2
<1>4. \E f : f = [i \in 1..N |-> LexBody(t, f, i)]  BY <1>3
<1>. QED  BY <1>4 DEF LexemesIn

\* The lexemes from a place on are a sequence of places.
LEMMA LexemesType ==
  ASSUME NEW t \in Seq(Char), NEW i \in 1..Len(t) + 1
  PROVE  LexemesIn(t)[i] \in Seq(Place(t)) \ {<<>>}
<1>. DEFINE N == Len(t) + 1
            Holds(m) == LexemesIn(t)[m] \in Seq(Place(t)) \ {<<>>}
            Fails == {m \in 1..N : ~Holds(m)}
<1>1. Fails = {}
  <2>. SUFFICES ASSUME Fails # {}  PROVE FALSE
    OBVIOUS
  <2>0. Len(t) \in Nat /\ N \in Nat /\ Fails \subseteq 1..N  OBVIOUS
  <2>. HIDE DEF Fails
  <2>1. PICK m \in Fails : \A k \in Fails : m >= k  BY <2>0, GreatestNat
  <2>2. m \in 1..N  BY <2>0, <2>1
  <2>3. \A k \in m + 1..N : Holds(k)
    <3>1. \A k \in m + 1..N : k \in 1..N /\ ~(m >= k)  BY <2>2
    <3>. HIDE DEF Holds
    <3>. QED  BY <2>1, <3>1 DEF Fails
  <2>4. LexemesIn(t)[m] = LexBody(t, LexemesIn(t), m)  BY <2>2, LexemesSolved
  <2>. DEFINE s == SolidIn(t)[m]
  <2>5. s \in 1..N  BY <2>0, <2>2, SolidIs
  <2>6. Holds(m)
    <3>1. CASE Ends(t, s) = {}
      <4>1. LexemesIn(t)[m] = <<[first |-> s, last |-> 0]>>  BY <2>4, <3>1, Zenon DEF LexBody
      <4>. HIDE DEF s
      <4>2. [first |-> s, last |-> 0] \in Place(t)  BY <2>0, <2>5 DEF Place
      <4>. QED  BY <4>1, <4>2
    <3>2. CASE Ends(t, s) # {}
      <4>1. LexemesIn(t)[m] = <<[first |-> s, last |-> Longest(t, s)]>>
                                \o LexemesIn(t)[Longest(t, s) + 1]
        BY <2>4, <3>2, Zenon DEF LexBody
      <4>2. s \in m..Len(t) /\ Longest(t, s) \in s..Len(t)  BY <2>2, <3>2, LongestPlace
      <4>. HIDE DEF s
      <4>3. Longest(t, s) + 1 \in m + 1..N  BY <2>0, <2>2, <4>2
      <4>4. LexemesIn(t)[Longest(t, s) + 1] \in Seq(Place(t))  BY <2>3, <4>3
      <4>5. [first |-> s, last |-> Longest(t, s)] \in Place(t)
        BY <2>0, <2>2, <2>5, <4>2 DEF Place
      <4>. QED  BY <4>1, <4>4, <4>5
    <3>. QED  BY <3>1, <3>2
  <2>. HIDE DEF Holds
  <2>. QED  BY <2>1, <2>6 DEF Fails
<1>2. Holds(i)
  <2>. HIDE DEF Holds
  <2>. QED  BY <1>1
<1>. QED  BY <1>2

\* Where no lexeme begins, the lexemes end.
LEMMA LastLexeme ==
  ASSUME NEW t \in Seq(Char), NEW i \in 1..Len(t) + 1, Ends(t, SolidIn(t)[i]) = {}
  PROVE  /\ Len(LexemesIn(t)[i]) = 1
         /\ LexemesIn(t)[i][1] = [first |-> SolidIn(t)[i], last |-> 0]
<1>1. LexemesIn(t)[i] = LexBody(t, LexemesIn(t), i)  BY LexemesSolved
<1>2. LexemesIn(t)[i] = <<[first |-> SolidIn(t)[i], last |-> 0]>>  BY <1>1, Zenon DEF LexBody
<1>. QED  BY <1>2

\* Where one begins, it is followed by those from its end on.
LEMMA NextLexeme ==
  ASSUME NEW t \in Seq(Char), NEW i \in 1..Len(t) + 1, Ends(t, SolidIn(t)[i]) # {},
         NEW j \in 1..Len(t), j = Longest(t, SolidIn(t)[i])
  PROVE  /\ Len(LexemesIn(t)[i]) = 1 + Len(LexemesIn(t)[j + 1])
         /\ LexemesIn(t)[i][1] = [first |-> SolidIn(t)[i], last |-> j]
         /\ \A k \in 1..Len(LexemesIn(t)[j + 1]) :
              LexemesIn(t)[i][k + 1] = LexemesIn(t)[j + 1][k]
<1>. DEFINE l == [first |-> SolidIn(t)[i], last |-> j]
            rest == LexemesIn(t)[j + 1]
<1>1. LexemesIn(t)[i] = LexBody(t, LexemesIn(t), i)  BY LexemesSolved
<1>2. LexemesIn(t)[i] = <<l>> \o rest  BY <1>1, Zenon DEF LexBody
<1>3. j + 1 \in 1..Len(t) + 1  OBVIOUS
<1>4. rest \in Seq(Place(t))  BY <1>3, LexemesType
<1>. HIDE DEF l, rest
<1>5. Len(<<l>> \o rest) = 1 + Len(rest) /\ (<<l>> \o rest)[1] = l  BY <1>4
<1>6. \A k \in 1..Len(rest) : (<<l>> \o rest)[k + 1] = rest[k]  BY <1>4
<1>. QED  BY <1>2, <1>5, <1>6 DEF l, rest

\* The definitions of the component, for its text.
LEMMA OfText ==
  /\ Solid = SolidIn(text)
  /\ Lexemes = LexemesIn(text)
<1>1. Solid = SolidIn(text)  BY DEF Solid, SolidIn, SolidBody, Closed, Nearest, Size
<1>2. Lexemes = LexemesIn(text)
  BY <1>1 DEF Lexemes, LexemesIn, LexBody, Ends, Longest, Word, Between, Size
<1>. QED  BY <1>1, <1>2

-----------------------------------------------------------------------------
(* What the machine does with the next character                           *)

\* What is saved, the token that is named, and how far the reading gets.
Saved(ch) ==
  IF state = "INCHA" /\ ch = EOF THEN <<>>
  ELSE IF Transition(ch).save THEN Append(tokbuf, ch) ELSE tokbuf
Named(ch) == IF Transition(ch).tok = "MC_ID" THEN getkw(Saved(ch)) ELSE Transition(ch).tok
Reached(ch, at) == IF Transition(ch).unread \/ ch = EOF THEN at ELSE at + 1

Inside == {"START", "INCMT", "INSTR", "INCHA", "INUNS", "INIDE", "INLES", "INCOM", "INGRE"}

\* What a state means: where reading has got to in a lexeme, or before one.
Begun(t, st, buf, at, first) ==
  CASE st = "START" -> first = SolidIn(t)[at + 1] /\ buf = <<>>
    [] st = "INCMT" ->
         /\ buf = <<>>
         /\ \E o \in 1..at : /\ t[o] = Brace /\ first = SolidIn(t)[o]
                             /\ \A j \in o + 1..at : t[j] # EndBrace
    [] st = "INSTR" ->
         /\ first <= at /\ t[first] = DQuote /\ buf = Word(t, first + 1, at)
         /\ \A j \in first + 1..at : t[j] \notin {DQuote, NL}
    [] st = "INCHA" ->
         /\ first <= at /\ t[first] = Quote /\ buf = Word(t, first + 1, at)
         /\ \A j \in first + 1..at : t[j] # Quote
    [] st = "INUNS" ->
         first <= at /\ buf = Word(t, first, at) /\ AllOf(t, first, at, Digit)
    [] st = "INIDE" ->
         /\ first <= at /\ buf = Word(t, first, at)
         /\ t[first] \in Letter /\ AllOf(t, first, at, Letter \cup Digit)
    [] st = "INLES" -> first = at /\ t[first] = "<" /\ buf = Word(t, first, at)
    [] st = "INCOM" -> first = at /\ t[first] = ":" /\ buf = Word(t, first, at)
    [] st = "INGRE" -> first = at /\ t[first] = ">" /\ buf = Word(t, first, at)

\* A token is what stands at its place.
Tells(t, first, last, buf, tok) ==
  /\ buf = Unquoted(Word(t, first, last))
  /\ tok \in TokensOf(Word(t, first, last)) \/ "SYMBOL" \in TokensOf(Word(t, first, last))
EndIn(t, i) ==
  IF i > Len(t) THEN "ENDFILE"
  ELSE CASE t[i] = Quote -> "ENDFILE"
         [] t[i] = DQuote -> "panic"
         [] OTHER -> "ERROR"
CharAt(t, at) == IF at < Len(t) THEN t[at + 1] ELSE EOF

\* A character takes the machine further, to the end of a lexeme or to the
\* end of the text's lexemes.
Further(t, first, at, ch) ==
  /\ ch # EOF /\ Transition(ch).to \in Inside /\ ~Transition(ch).unread
  /\ Begun(t, Transition(ch).to, Saved(ch), at + 1, first)
EndsLexeme(t, first, at, ch) ==
  /\ Transition(ch).to = "DONE"
  /\ Reached(ch, at) \in Ends(t, first) /\ Longest(t, first) = Reached(ch, at)
  /\ Tells(t, first, Reached(ch, at), Saved(ch), Named(ch))
  /\ Named(ch) \notin {"ENDFILE", "ERROR"}
EndsText(t, first, ch) ==
  /\ Transition(ch).to = "DONE"
  /\ Ends(t, first) = {}
  /\ Named(ch) \in {"ENDFILE", "ERROR"} /\ Named(ch) = EndIn(t, first)
  /\ Saved(ch) \in {<<>>, <<ch>>}
Panics(t, first, ch) ==
  /\ Transition(ch).to = "PANIC" /\ Ends(t, first) = {} /\ EndIn(t, first) = "panic"

\* The parts of a transition.
LEMMA Parts ==
  /\ \A to : Keep(to).to = to /\ Keep(to).unread = FALSE /\ Keep(to).save = TRUE
  /\ \A to : Skip(to).to = to /\ Skip(to).unread = FALSE /\ Skip(to).save = FALSE
  /\ Panic.to = "PANIC"
<1>1. \A to : Keep(to).to = to /\ Keep(to).unread = FALSE /\ Keep(to).save = TRUE
  <2>. TAKE to
  <2>1. Keep(to).to = to  BY DEF Keep, Step
  <2>2. Keep(to).unread = FALSE  BY DEF Keep, Step
  <2>3. Keep(to).save = TRUE  BY DEF Keep, Step
  <2>. QED  BY <2>1, <2>2, <2>3, Zenon
<1>2. \A to : Skip(to).to = to /\ Skip(to).unread = FALSE /\ Skip(to).save = FALSE
  <2>. TAKE to
  <2>1. Skip(to).to = to  BY DEF Skip, Step
  <2>2. Skip(to).unread = FALSE  BY DEF Skip, Step
  <2>3. Skip(to).save = FALSE  BY DEF Skip, Step
  <2>. QED  BY <2>1, <2>2, <2>3, Zenon
<1>3. Panic.to = "PANIC"
  <2>1. Panic = [to |-> "PANIC", save |-> FALSE, unread |-> FALSE, tok |-> ""]  BY DEF Panic, Step
  <2>. QED  BY <2>1
<1>. QED  BY <1>1, <1>2, <1>3

\* The six kinds of transition.
LEMMA Kinds ==
  ASSUME NEW ch, NEW at, NEW to \in Inside, NEW tok
  PROVE  /\ Transition(ch) = Keep(to) /\ ch # EOF =>
              /\ Transition(ch).to = to /\ ~Transition(ch).unread
              /\ Saved(ch) = Append(tokbuf, ch)
         /\ Transition(ch) = Skip(to) /\ ch # EOF =>
              Transition(ch).to = to /\ ~Transition(ch).unread /\ Saved(ch) = tokbuf
         /\ Transition(ch) = Take(tok) /\ ch # EOF =>
              /\ Transition(ch).to = "DONE" /\ Reached(ch, at) = at + 1
              /\ Saved(ch) = Append(tokbuf, ch) /\ (tok # "MC_ID" => Named(ch) = tok)
         /\ Transition(ch) = Stop(tok) /\ ch # EOF =>
              /\ Transition(ch).to = "DONE" /\ Reached(ch, at) = at + 1
              /\ Saved(ch) = tokbuf /\ (tok # "MC_ID" => Named(ch) = tok)
         /\ Transition(ch) = Stop(tok) /\ ch = EOF =>
              /\ Transition(ch).to = "DONE"
              /\ Saved(ch) = (IF state = "INCHA" THEN <<>> ELSE tokbuf)
              /\ tok # "MC_ID" => Named(ch) = tok
         /\ Transition(ch) = Back(tok) /\ state # "INCHA" =>
              /\ Transition(ch).to = "DONE" /\ Reached(ch, at) = at /\ Saved(ch) = tokbuf
              /\ Named(ch) = IF tok = "MC_ID" THEN getkw(tokbuf) ELSE tok
         /\ Transition(ch) = Panic => Transition(ch).to = "PANIC"
<1>1. Transition(ch) = Keep(to) /\ ch # EOF =>
              /\ Transition(ch).to = to /\ ~Transition(ch).unread
              /\ Saved(ch) = Append(tokbuf, ch)
  BY Parts, Zenon DEF Saved
<1>2. Transition(ch) = Skip(to) /\ ch # EOF =>
              Transition(ch).to = to /\ ~Transition(ch).unread /\ Saved(ch) = tokbuf
  BY Parts, Zenon DEF Saved
<1>3. Transition(ch) = Take(tok) /\ ch # EOF =>
              /\ Transition(ch).to = "DONE" /\ Reached(ch, at) = at + 1
              /\ Saved(ch) = Append(tokbuf, ch) /\ (tok # "MC_ID" => Named(ch) = tok)
  BY DEF Saved, Named, Reached, Take, Step
<1>4. Transition(ch) = Stop(tok) /\ ch # EOF =>
              /\ Transition(ch).to = "DONE" /\ Reached(ch, at) = at + 1
              /\ Saved(ch) = tokbuf /\ (tok # "MC_ID" => Named(ch) = tok)
  BY DEF Saved, Named, Reached, Stop, Step
<1>5. Transition(ch) = Stop(tok) /\ ch = EOF =>
              /\ Transition(ch).to = "DONE"
              /\ Saved(ch) = (IF state = "INCHA" THEN <<>> ELSE tokbuf)
              /\ tok # "MC_ID" => Named(ch) = tok
  BY DEF Saved, Named, Stop, Step
<1>6. Transition(ch) = Back(tok) /\ state # "INCHA" =>
              /\ Transition(ch).to = "DONE" /\ Reached(ch, at) = at /\ Saved(ch) = tokbuf
              /\ Named(ch) = IF tok = "MC_ID" THEN getkw(tokbuf) ELSE tok
  BY DEF Saved, Named, Reached, Back, Step
<1>7. Transition(ch) = Panic => Transition(ch).to = "PANIC"
  BY Parts, Zenon
<1>. QED  BY <1>1, <1>2, <1>3, <1>4, <1>5, <1>6, <1>7

\* The next character, and that there is one.
LEMMA CharAtIs ==
  ASSUME NEW t \in Seq(Char), NEW at \in 0..Len(t)
  PROVE  /\ at < Len(t) => /\ at + 1 \in 1..Len(t) /\ CharAt(t, at) = t[at + 1]
                           /\ CharAt(t, at) \in Char /\ CharAt(t, at) # EOF
         /\ CharAt(t, at) = EOF <=> at = Len(t)
<1>0. Len(t) \in Nat  OBVIOUS
<1>1. ASSUME at < Len(t)  PROVE at + 1 \in 1..Len(t) /\ t[at + 1] \in Char
  BY <1>0, <1>1
<1>2. at < Len(t) => CharAt(t, at) = t[at + 1]  BY DEF CharAt
<1>3. ~(at < Len(t)) => CharAt(t, at) = EOF  BY DEF CharAt
<1>4. at = Len(t) <=> ~(at < Len(t))  BY <1>0
<1>. QED  BY <1>1, <1>2, <1>3, <1>4, Classes

\* A word with the next character.
LEMMA GrownWord ==
  ASSUME NEW t \in Seq(Char), NEW at \in 0..Len(t), at < Len(t), NEW i \in 1..at + 1
  PROVE  Append(Word(t, i, at), t[at + 1]) = Word(t, i, at + 1)
<1>0. Len(t) \in Nat  OBVIOUS
<1>1. /\ i \in 1..Len(t) + 1 /\ at \in i - 1..Len(t) /\ at + 1 \in i - 1..Len(t)
      /\ at - i + 1 \in Nat /\ (at + 1) - i + 1 = (at - i + 1) + 1
  BY <1>0
<1>2. Word(t, i, at) = [k \in 1..at - i + 1 |-> t[i + k - 1]]  BY <1>1 DEF Word
<1>3. Word(t, i, at + 1) = [k \in 1..(at + 1) - i + 1 |-> t[i + k - 1]]  BY <1>1 DEF Word
<1>4. Word(t, i, at) \in Seq(Char) /\ Len(Word(t, i, at)) = at - i + 1  BY <1>1, WordIs
<1>5. DOMAIN Append(Word(t, i, at), t[at + 1]) = 1..(at - i + 1) + 1  BY <1>4
<1>6. \A k \in 1..(at - i + 1) + 1 :
        Append(Word(t, i, at), t[at + 1])[k]
          = IF k = (at - i + 1) + 1 THEN t[at + 1] ELSE Word(t, i, at)[k]
  BY <1>4
<1>7. ASSUME NEW k \in 1..(at - i + 1) + 1
      PROVE  Append(Word(t, i, at), t[at + 1])[k] = t[i + k - 1]
  <2>1. CASE k = (at - i + 1) + 1
    <3>1. i + k - 1 = at + 1  BY <2>1
    <3>. QED  BY <1>6, <2>1, <3>1
  <2>2. CASE k # (at - i + 1) + 1
    <3>1. k \in 1..at - i + 1  BY <1>1, <2>2
    <3>. QED  BY <1>2, <1>6, <2>2, <3>1
  <2>. QED  BY <2>1, <2>2
<1>. DEFINE a == Append(Word(t, i, at), t[at + 1])
            b == Word(t, i, at + 1)
            n == (at - i + 1) + 1
<1>8. a \in Seq(Char)
  <2>1. t[at + 1] \in Char  BY <1>0
  <2>. QED  BY <1>4, <2>1
<1>9. b \in Seq(Char) /\ b = [k \in 1..n |-> t[i + k - 1]]  BY <1>1, <1>3, WordIs
<1>10. DOMAIN a = 1..n /\ \A k \in 1..n : a[k] = t[i + k - 1]  BY <1>5, <1>7
<1>. HIDE DEF a, b, n
<1>11. a = [k \in DOMAIN a |-> a[k]]  BY <1>8
<1>12. a = b  BY <1>9, <1>10, <1>11
<1>. QED  BY <1>12 DEF a, b

\* A word without its quotes.
LEMMA UnquotedIs ==
  ASSUME NEW t \in Seq(Char), NEW i \in 1..Len(t), NEW j \in i..Len(t)
  PROVE  /\ t[i] \notin {Quote, DQuote} => Unquoted(Word(t, i, j)) = Word(t, i, j)
         /\ t[i] \in {Quote, DQuote} /\ i < j =>
              Unquoted(Word(t, i, j)) = Word(t, i + 1, j - 1)
<1>1. Word(t, i, j)[1] = t[i]  BY WordEnds
<1>2. t[i] \notin {Quote, DQuote} => Unquoted(Word(t, i, j)) = Word(t, i, j)
  BY <1>1, Zenon DEF Unquoted
<1>3. i < j => SubSeq(Word(t, i, j), 2, Len(Word(t, i, j)) - 1) = Word(t, i + 1, j - 1)
  BY InnerWord
<1>. QED  BY <1>1, <1>2, <1>3, Zenon DEF Unquoted

\* In a number.
LEMMA InNumber ==
  ASSUME NEW t \in Seq(Char), NEW at \in 0..Len(t), NEW first \in 1..Len(t) + 1, NEW ch,
         ch = CharAt(t, at), state = "INUNS", Begun(t, state, tokbuf, at, first)
  PROVE  Further(t, first, at, ch) \/ EndsLexeme(t, first, at, ch)
<1>0. Len(t) \in Nat  OBVIOUS
<1>1. first <= at /\ tokbuf = Word(t, first, at) /\ AllOf(t, first, at, Digit)
  BY Zenon DEF Begun
<1>2. Transition(ch) = IF ch \in Digit THEN Keep("INUNS") ELSE Back("MC_UNS")
  BY DEF Transition
<1>3. first \in 1..Len(t) /\ at \in first..Len(t) /\ first \in 1..at + 1  BY <1>0, <1>1
<1>4. CASE ch \in Digit
  <2>1. at < Len(t) /\ ch = t[at + 1] /\ ch # EOF
    BY <1>0, <1>4, CharAtIs, Classes DEF Char
  <2>2. Append(tokbuf, ch) = Word(t, first, at + 1)  BY <1>1, <1>3, <2>1, GrownWord
  <2>3. AllOf(t, first, at + 1, Digit)  BY <1>1, <1>3, <1>4, <2>1 DEF AllOf
  <2>4. first <= at + 1  BY <1>3
  <2>5. "INUNS" \in Inside  BY DEF Inside
  <2>6. Transition(ch) = Keep("INUNS")  BY <1>2, <1>4
  <2>7. Transition(ch).to = "INUNS" /\ ~Transition(ch).unread /\ Saved(ch) = Append(tokbuf, ch)
    BY <2>1, <2>5, <2>6, Kinds
  <2>8. Begun(t, "INUNS", Word(t, first, at + 1), at + 1, first)
    BY <2>3, <2>4, Zenon DEF Begun
  <2>. QED  BY <2>1, <2>2, <2>5, <2>7, <2>8 DEF Further
<1>5. CASE ch \notin Digit
  <2>1. at = Len(t) \/ t[at + 1] \notin Digit  BY <1>0, <1>5, CharAtIs
  <2>2. /\ at \in Ends(t, first) /\ Longest(t, first) = at
        /\ "MC_UNS" \in TokensOf(Word(t, first, at))
    BY <1>1, <1>3, <2>1, NumberEnds
  <2>3. Transition(ch) = Back("MC_UNS")  BY <1>2, <1>5
  <2>4. /\ Transition(ch).to = "DONE" /\ Reached(ch, at) = at /\ Saved(ch) = tokbuf
        /\ Named(ch) = "MC_UNS"
    <3>1. state # "INCHA" /\ "MC_UNS" # "MC_ID" /\ "START" \in Inside  BY DEF Inside
    <3>. QED  BY <2>3, <3>1, Kinds, Zenon
  <2>5. t[first] \notin {Quote, DQuote}
    BY <1>1, <1>3, Classes, Specials DEF AllOf
  <2>6. Unquoted(Word(t, first, at)) = Word(t, first, at)  BY <1>3, <2>5, UnquotedIs
  <2>. QED  BY <1>1, <2>2, <2>4, <2>6 DEF EndsLexeme, Tells
<1>. QED  BY <1>4, <1>5

\* In a name.
LEMMA InName ==
  ASSUME NEW t \in Seq(Char), NEW at \in 0..Len(t), NEW first \in 1..Len(t) + 1, NEW ch,
         ch = CharAt(t, at), state = "INIDE", Begun(t, state, tokbuf, at, first)
  PROVE  Further(t, first, at, ch) \/ EndsLexeme(t, first, at, ch)
<1>0. Len(t) \in Nat  OBVIOUS
<1>1. /\ first <= at /\ tokbuf = Word(t, first, at)
      /\ t[first] \in Letter /\ AllOf(t, first, at, Letter \cup Digit)
  BY Zenon DEF Begun
<1>2. Transition(ch) = IF ch \in Digit \cup Letter THEN Keep("INIDE") ELSE Back("MC_ID")
  BY DEF Transition
<1>3. first \in 1..Len(t) /\ at \in first..Len(t) /\ first \in 1..at + 1  BY <1>0, <1>1
<1>4. CASE ch \in Digit \cup Letter
  <2>1. at < Len(t) /\ ch = t[at + 1] /\ ch # EOF
    BY <1>0, <1>4, CharAtIs, Classes DEF Char
  <2>2. Append(tokbuf, ch) = Word(t, first, at + 1)  BY <1>1, <1>3, <2>1, GrownWord
  <2>3. AllOf(t, first, at + 1, Letter \cup Digit)  BY <1>1, <1>3, <1>4, <2>1 DEF AllOf
  <2>4. first <= at + 1  BY <1>3
  <2>5. "INIDE" \in Inside  BY DEF Inside
  <2>6. Transition(ch) = Keep("INIDE")  BY <1>2, <1>4
  <2>7. Transition(ch).to = "INIDE" /\ ~Transition(ch).unread /\ Saved(ch) = Append(tokbuf, ch)
    BY <2>1, <2>5, <2>6, Kinds
  <2>8. Begun(t, "INIDE", Word(t, first, at + 1), at + 1, first)
    BY <1>1, <2>3, <2>4, Zenon DEF Begun
  <2>. QED  BY <2>1, <2>2, <2>5, <2>7, <2>8 DEF Further
<1>5. CASE ch \notin Digit \cup Letter
  <2>1. at = Len(t) \/ t[at + 1] \notin Letter \cup Digit  BY <1>0, <1>5, CharAtIs
  <2>2. /\ at \in Ends(t, first) /\ Longest(t, first) = at
        /\ getkw(Word(t, first, at)) \in TokensOf(Word(t, first, at))
    BY <1>1, <1>3, <2>1, NameEnds
  <2>3. Transition(ch) = Back("MC_ID")  BY <1>2, <1>5
  <2>4. /\ Transition(ch).to = "DONE" /\ Reached(ch, at) = at /\ Saved(ch) = tokbuf
        /\ Named(ch) = getkw(tokbuf)
    <3>1. state # "INCHA" /\ "START" \in Inside  BY DEF Inside
    <3>. QED  BY <2>3, <3>1, Kinds, Zenon
  <2>5. t[first] \notin {Quote, DQuote}  BY <1>1, Classes, Specials
  <2>6. Unquoted(Word(t, first, at)) = Word(t, first, at)  BY <1>3, <2>5, UnquotedIs
  <2>7. getkw(tokbuf) \notin {"ENDFILE", "ERROR"}  BY DEF getkw
  <2>. QED  BY <1>1, <2>2, <2>4, <2>6, <2>7 DEF EndsLexeme, Tells
<1>. QED  BY <1>4, <1>5

\* Behind a character that a second one may belong to, when it does.
LEMMA SecondTaken ==
  ASSUME NEW t \in Seq(Char), NEW at \in 1..Len(t), NEW ch, ch = CharAt(t, at),
         tokbuf = Word(t, at, at), state # "INCHA", <<t[at], ch>> \in Paired,
         NEW tok, tok \notin {"ENDFILE", "ERROR", "MC_ID"}, Transition(ch) = Take(tok)
  PROVE  EndsLexeme(t, at, at, ch)
<1>0. Len(t) \in Nat /\ at \in 0..Len(t) /\ at \in 1..at + 1 /\ at \in at..Len(t)  OBVIOUS
<1>1. ch # EOF  BY Pairs DEF EOF
<1>2. at < Len(t) /\ ch = t[at + 1]  BY <1>0, <1>1, CharAtIs
<1>3. /\ at + 1 \in Ends(t, at) /\ Longest(t, at) = at + 1
      /\ "SYMBOL" \in TokensOf(Word(t, at, at + 1))
  BY <1>2, PairEnds
<1>4. /\ Transition(ch).to = "DONE" /\ Reached(ch, at) = at + 1
      /\ Saved(ch) = Append(tokbuf, ch) /\ Named(ch) = tok
  <2>1. "START" \in Inside /\ tok # "MC_ID"  BY DEF Inside
  <2>. QED  BY <1>1, <2>1, Kinds, Zenon
<1>5. Append(tokbuf, ch) = Word(t, at, at + 1)  BY <1>0, <1>2, GrownWord
<1>6. t[at] \notin {Quote, DQuote}  BY Pairs, Specials
<1>7. at + 1 \in at..Len(t)  BY <1>0, <1>2
<1>8. Unquoted(Word(t, at, at + 1)) = Word(t, at, at + 1)  BY <1>6, <1>7, UnquotedIs
<1>. QED  BY <1>3, <1>4, <1>5, <1>8 DEF EndsLexeme, Tells

\* And when it does not.
LEMMA SecondGiven ==
  ASSUME NEW t \in Seq(Char), NEW at \in 1..Len(t), NEW ch, ch = CharAt(t, at),
         tokbuf = Word(t, at, at), state # "INCHA", t[at] \in {":", "<", ">"},
         ~(<<t[at], ch>> \in Paired),
         NEW tok, tok \notin {"ENDFILE", "ERROR", "MC_ID"}, Transition(ch) = Back(tok)
  PROVE  EndsLexeme(t, at, at, ch)
<1>0. Len(t) \in Nat /\ at \in 0..Len(t) /\ at \in at..Len(t)  OBVIOUS
<1>1. at < Len(t) => ~(<<t[at], t[at + 1]>> \in Paired)  BY <1>0, CharAtIs
<1>2. t[at] \in Alone  BY DEF Alone
<1>3. /\ at \in Ends(t, at) /\ Longest(t, at) = at
      /\ "SYMBOL" \in TokensOf(Word(t, at, at))
  BY <1>1, <1>2, AloneEnds
<1>4. /\ Transition(ch).to = "DONE" /\ Reached(ch, at) = at /\ Saved(ch) = tokbuf
      /\ Named(ch) = tok
  <2>1. "START" \in Inside /\ tok # "MC_ID"  BY DEF Inside
  <2>. QED  BY <2>1, Kinds, Zenon
<1>5. t[at] \notin {Quote, DQuote}  BY Specials
<1>6. Unquoted(Word(t, at, at)) = Word(t, at, at)  BY <1>0, <1>5, UnquotedIs
<1>. QED  BY <1>3, <1>4, <1>6 DEF EndsLexeme, Tells

\* Behind a less-than sign.
LEMMA InLessThan ==
  ASSUME NEW t \in Seq(Char), NEW at \in 0..Len(t), NEW first \in 1..Len(t) + 1, NEW ch,
         ch = CharAt(t, at), state = "INLES", Begun(t, state, tokbuf, at, first)
  PROVE  EndsLexeme(t, first, at, ch)
<1>1. first = at /\ t[first] = "<" /\ tokbuf = Word(t, first, at)  BY Zenon DEF Begun
<1>2. at \in 1..Len(t) /\ state # "INCHA"  BY <1>1
<1>3. Transition(ch) = InLess(ch)  BY DEF Transition
<1>4. CASE ch = "="
  <2>1. Transition(ch) = Take("SS_LEQ")  BY <1>3, <1>4 DEF InLess
  <2>2. <<t[at], ch>> \in Paired  BY <1>1, <1>4, Pairs
  <2>. QED  BY <1>1, <1>2, <2>1, <2>2, SecondTaken
<1>5. CASE ch = ">"
  <2>1. Transition(ch) = Take("SS_NEQ")  BY <1>3, <1>5 DEF InLess
  <2>2. <<t[at], ch>> \in Paired  BY <1>1, <1>5, Pairs
  <2>. QED  BY <1>1, <1>2, <2>1, <2>2, SecondTaken
<1>6. CASE ch # "=" /\ ch # ">"
  <2>1. Transition(ch) = Back("SS_LST")  BY <1>3, <1>6 DEF InLess
  <2>2. ~(<<t[at], ch>> \in Paired)  BY <1>1, <1>6, Pairs
  <2>. QED  BY <1>1, <1>2, <2>1, <2>2, SecondGiven
<1>. QED  BY <1>4, <1>5, <1>6

\* Behind a colon.
LEMMA InColon ==
  ASSUME NEW t \in Seq(Char), NEW at \in 0..Len(t), NEW first \in 1..Len(t) + 1, NEW ch,
         ch = CharAt(t, at), state = "INCOM", Begun(t, state, tokbuf, at, first)
  PROVE  EndsLexeme(t, first, at, ch)
<1>1. first = at /\ t[first] = ":" /\ tokbuf = Word(t, first, at)  BY Zenon DEF Begun
<1>2. at \in 1..Len(t) /\ state # "INCHA"  BY <1>1
<1>3. Transition(ch) = IF ch = "=" THEN Take("SS_ASGN") ELSE Back("SS_COLON")
  BY DEF Transition
<1>4. CASE ch = "="
  <2>1. Transition(ch) = Take("SS_ASGN")  BY <1>3, <1>4
  <2>2. <<t[at], ch>> \in Paired  BY <1>1, <1>4, Pairs
  <2>. QED  BY <1>1, <1>2, <2>1, <2>2, SecondTaken
<1>5. CASE ch # "="
  <2>1. Transition(ch) = Back("SS_COLON")  BY <1>3, <1>5
  <2>2. ~(<<t[at], ch>> \in Paired)  BY <1>1, <1>5, Pairs
  <2>. QED  BY <1>1, <1>2, <2>1, <2>2, SecondGiven
<1>. QED  BY <1>4, <1>5

\* Behind a greater-than sign.
LEMMA InGreater ==
  ASSUME NEW t \in Seq(Char), NEW at \in 0..Len(t), NEW first \in 1..Len(t) + 1, NEW ch,
         ch = CharAt(t, at), state = "INGRE", Begun(t, state, tokbuf, at, first)
  PROVE  EndsLexeme(t, first, at, ch)
<1>1. first = at /\ t[first] = ">" /\ tokbuf = Word(t, first, at)  BY Zenon DEF Begun
<1>2. at \in 1..Len(t) /\ state # "INCHA"  BY <1>1
<1>3. Transition(ch) = IF ch = "=" THEN Take("SS_GEQ") ELSE Back("SS_GTT")
  BY DEF Transition
<1>4. CASE ch = "="
  <2>1. Transition(ch) = Take("SS_GEQ")  BY <1>3, <1>4
  <2>2. <<t[at], ch>> \in Paired  BY <1>1, <1>4, Pairs
  <2>. QED  BY <1>1, <1>2, <2>1, <2>2, SecondTaken
<1>5. CASE ch # "="
  <2>1. Transition(ch) = Back("SS_GTT")  BY <1>3, <1>5
  <2>2. ~(<<t[at], ch>> \in Paired)  BY <1>1, <1>5, Pairs
  <2>. QED  BY <1>1, <1>2, <2>1, <2>2, SecondGiven
<1>. QED  BY <1>4, <1>5

\* Nothing is behind the end of a text.
LEMMA EndOfText ==
  ASSUME NEW t \in Seq(Char)
  PROVE  Ends(t, Len(t) + 1) = {} /\ EndIn(t, Len(t) + 1) = "ENDFILE"
<1>0. Len(t) \in Nat  OBVIOUS
<1>1. Len(t) + 1..Len(t) = {}  BY <1>0
<1>2. Ends(t, Len(t) + 1) = {}  BY <1>1, Zenon DEF Ends
<1>3. Len(t) + 1 > Len(t)  BY <1>0
<1>. QED  BY <1>2, <1>3 DEF EndIn

\* In a string.
LEMMA InStringConstant ==
  ASSUME NEW t \in Seq(Char), NEW at \in 0..Len(t), NEW first \in 1..Len(t) + 1, NEW ch,
         ch = CharAt(t, at), state = "INSTR", Begun(t, state, tokbuf, at, first)
  PROVE  Further(t, first, at, ch) \/ EndsLexeme(t, first, at, ch) \/ Panics(t, first, ch)
<1>0. Len(t) \in Nat  OBVIOUS
<1>1. /\ first <= at /\ t[first] = DQuote /\ tokbuf = Word(t, first + 1, at)
      /\ \A j \in first + 1..at : t[j] \notin {DQuote, NL}
  BY Zenon DEF Begun
<1>2. Transition(ch) = InString(ch)  BY DEF Transition
<1>3. first \in 1..Len(t) /\ at \in first..Len(t) /\ first + 1 \in 1..at + 1 /\ (at + 1) - 1 = at
  BY <1>0, <1>1
<1>4. CASE ch = DQuote
  <2>1. ch # EOF  BY <1>4, Classes, Specials DEF Char
  <2>2. at < Len(t) /\ ch = t[at + 1]  BY <1>0, <2>1, CharAtIs
  <2>3. at + 1 \in first + 1..Len(t) /\ at + 1 \in first..Len(t) /\ first < at + 1
    BY <1>0, <1>3, <2>2
  <2>4. /\ at + 1 \in Ends(t, first) /\ Longest(t, first) = at + 1
        /\ "MC_STR" \in TokensOf(Word(t, first, at + 1))
    BY <1>1, <1>3, <1>4, <2>2, <2>3, StringEnds
  <2>5. Transition(ch) = Stop("MC_STR")
    <3>1. InString(ch) = Stop("MC_STR")  BY <1>4, <2>1, Specials DEF InString
    <3>. QED  BY <1>2, <3>1
  <2>6. /\ Transition(ch).to = "DONE" /\ Reached(ch, at) = at + 1
        /\ Saved(ch) = tokbuf /\ Named(ch) = "MC_STR"
    <3>1. "START" \in Inside /\ "MC_STR" # "MC_ID"  BY DEF Inside
    <3>. QED  BY <2>1, <2>5, <3>1, Kinds, Zenon
  <2>7. Unquoted(Word(t, first, at + 1)) = Word(t, first + 1, (at + 1) - 1)
    BY <1>1, <1>3, <2>3, UnquotedIs
  <2>. QED  BY <1>1, <1>3, <2>4, <2>6, <2>7 DEF EndsLexeme, Tells
<1>5. CASE ch \in {EOF, NL}
  <2>1. Transition(ch) = Panic
    <3>1. ch # DQuote  BY <1>5, Specials, Classes DEF Char
    <3>2. InString(ch) = Panic  BY <1>5, <3>1 DEF InString
    <3>. QED  BY <1>2, <3>2
  <2>2. at + 1 = Len(t) + 1 \/ t[at + 1] = NL  BY <1>0, <1>5, CharAtIs
  <2>3. \A k \in first + 1..(at + 1) - 1 : t[k] # DQuote  BY <1>1, <1>3
  <2>4. at + 1 \in first + 1..Len(t) + 1  BY <1>0, <1>3
  <2>5. Ends(t, first) = {}  BY <1>1, <1>3, <2>2, <2>3, <2>4, NoEnds
  <2>6. EndIn(t, first) = "panic"
    <3>1. ~(first > Len(t))  BY <1>0, <1>3
    <3>2. DQuote # Quote  BY Specials
    <3>. QED  BY <1>1, <3>1, <3>2 DEF EndIn
  <2>7. Transition(ch).to = "PANIC"  BY <2>1, Parts
  <2>. QED  BY <2>5, <2>6, <2>7 DEF Panics
<1>6. CASE ch \notin {DQuote, EOF, NL}
  <2>1. at < Len(t) /\ ch = t[at + 1]  BY <1>0, <1>6, CharAtIs
  <2>2. Append(tokbuf, ch) = Word(t, first + 1, at + 1)  BY <1>1, <1>3, <2>1, GrownWord
  <2>3. Transition(ch) = Keep("INSTR")
    <3>1. InString(ch) = Keep("INSTR")  BY <1>6 DEF InString
    <3>. QED  BY <1>2, <3>1
  <2>4. "INSTR" \in Inside /\ ch # EOF  BY <1>6 DEF Inside
  <2>5. Transition(ch).to = "INSTR" /\ ~Transition(ch).unread /\ Saved(ch) = Append(tokbuf, ch)
    BY <2>3, <2>4, Kinds
  <2>6. \A j \in first + 1..at + 1 : t[j] \notin {DQuote, NL}
    <3>1. \A j \in first + 1..at + 1 : j \in first + 1..at \/ j = at + 1  BY <1>3
    <3>. QED  BY <1>1, <1>6, <2>1, <3>1
  <2>7. first <= at + 1  BY <1>3
  <2>8. Begun(t, "INSTR", Word(t, first + 1, at + 1), at + 1, first)
    BY <1>1, <2>6, <2>7, Zenon DEF Begun
  <2>. QED  BY <2>2, <2>4, <2>5, <2>8 DEF Further
<1>. QED  BY <1>4, <1>5, <1>6

\* In a character constant.
LEMMA InCharacterConstant ==
  ASSUME NEW t \in Seq(Char), NEW at \in 0..Len(t), NEW first \in 1..Len(t) + 1, NEW ch,
         ch = CharAt(t, at), state = "INCHA", Begun(t, state, tokbuf, at, first)
  PROVE  Further(t, first, at, ch) \/ EndsLexeme(t, first, at, ch) \/ EndsText(t, first, ch)
<1>0. Len(t) \in Nat  OBVIOUS
<1>1. /\ first <= at /\ t[first] = Quote /\ tokbuf = Word(t, first + 1, at)
      /\ \A j \in first + 1..at : t[j] # Quote
  BY Zenon DEF Begun
<1>2. Transition(ch) = InCharacter(ch)  BY DEF Transition
<1>3. first \in 1..Len(t) /\ at \in first..Len(t) /\ first + 1 \in 1..at + 1 /\ (at + 1) - 1 = at
  BY <1>0, <1>1
<1>4. CASE ch = Quote
  <2>1. ch # EOF  BY <1>4, Classes, Specials DEF Char
  <2>2. at < Len(t) /\ ch = t[at + 1]  BY <1>0, <2>1, CharAtIs
  <2>3. at + 1 \in first + 1..Len(t) /\ at + 1 \in first..Len(t) /\ first < at + 1
    BY <1>0, <1>3, <2>2
  <2>4. /\ at + 1 \in Ends(t, first) /\ Longest(t, first) = at + 1
        /\ "MC_CH" \in TokensOf(Word(t, first, at + 1))
    BY <1>1, <1>3, <1>4, <2>2, <2>3, ConstantEnds
  <2>5. Transition(ch) = Stop("MC_CH")
    <3>1. InCharacter(ch) = Stop("MC_CH")  BY <1>4, <2>1 DEF InCharacter
    <3>. QED  BY <1>2, <3>1
  <2>6. /\ Transition(ch).to = "DONE" /\ Reached(ch, at) = at + 1
        /\ Saved(ch) = tokbuf /\ Named(ch) = "MC_CH"
    <3>1. "START" \in Inside /\ "MC_CH" # "MC_ID"  BY DEF Inside
    <3>. QED  BY <2>1, <2>5, <3>1, Kinds, Zenon
  <2>7. Unquoted(Word(t, first, at + 1)) = Word(t, first + 1, (at + 1) - 1)
    BY <1>1, <1>3, <2>3, UnquotedIs
  <2>. QED  BY <1>1, <1>3, <2>4, <2>6, <2>7 DEF EndsLexeme, Tells
<1>5. CASE ch = EOF
  <2>1. Transition(ch) = Stop("ENDFILE")
    <3>1. ch # Quote  BY <1>5, Specials, Classes DEF Char
    <3>2. InCharacter(ch) = Stop("ENDFILE")  BY <1>5, <3>1 DEF InCharacter
    <3>. QED  BY <1>2, <3>2
  <2>2. at = Len(t)  BY <1>5, CharAtIs
  <2>3. Ends(t, first) = {}  BY <1>1, <1>3, <2>2, NoEnds
  <2>4. EndIn(t, first) = "ENDFILE"
    <3>1. ~(first > Len(t))  BY <1>0, <1>3
    <3>2. DQuote # Quote  BY Specials
    <3>. QED  BY <1>1, <3>1, <3>2 DEF EndIn
  <2>5. Transition(ch).to = "DONE" /\ Saved(ch) = <<>> /\ Named(ch) = "ENDFILE"
    <3>1. "START" \in Inside /\ "ENDFILE" # "MC_ID"  BY DEF Inside
    <3>. QED  BY <1>5, <2>1, <3>1, Kinds, Zenon
  <2>. QED  BY <2>3, <2>4, <2>5 DEF EndsText
<1>6. CASE ch \notin {Quote, EOF}
  <2>1. at < Len(t) /\ ch = t[at + 1]  BY <1>0, <1>6, CharAtIs
  <2>2. Append(tokbuf, ch) = Word(t, first + 1, at + 1)  BY <1>1, <1>3, <2>1, GrownWord
  <2>3. Transition(ch) = Keep("INCHA")
    <3>1. InCharacter(ch) = Keep("INCHA")  BY <1>6 DEF InCharacter
    <3>. QED  BY <1>2, <3>1
  <2>4. "INCHA" \in Inside /\ ch # EOF  BY <1>6 DEF Inside
  <2>5. Transition(ch).to = "INCHA" /\ ~Transition(ch).unread /\ Saved(ch) = Append(tokbuf, ch)
    BY <2>3, <2>4, Kinds
  <2>6. \A j \in first + 1..at + 1 : t[j] # Quote
    <3>1. \A j \in first + 1..at + 1 : j \in first + 1..at \/ j = at + 1  BY <1>3
    <3>. QED  BY <1>1, <1>6, <2>1, <3>1
  <2>7. first <= at + 1  BY <1>3
  <2>8. Begun(t, "INCHA", Word(t, first + 1, at + 1), at + 1, first)
    BY <1>1, <2>6, <2>7, Zenon DEF Begun
  <2>. QED  BY <2>2, <2>4, <2>5, <2>8 DEF Further
<1>. QED  BY <1>4, <1>5, <1>6

\* In a comment.
LEMMA InCommentText ==
  ASSUME NEW t \in Seq(Char), NEW at \in 0..Len(t), NEW first \in 1..Len(t) + 1, NEW ch,
         ch = CharAt(t, at), state = "INCMT", Begun(t, state, tokbuf, at, first)
  PROVE  Further(t, first, at, ch) \/ EndsText(t, first, ch)
<1>0. Len(t) \in Nat  OBVIOUS
<1>1. tokbuf = <<>>  BY Zenon DEF Begun
<1>2. \E o \in 1..at : /\ t[o] = Brace /\ first = SolidIn(t)[o]
                       /\ \A j \in o + 1..at : t[j] # EndBrace
  BY Zenon DEF Begun
<1>3. PICK o \in 1..at : /\ t[o] = Brace /\ first = SolidIn(t)[o]
                         /\ \A j \in o + 1..at : t[j] # EndBrace
  BY <1>2
<1>4. o \in 1..Len(t) /\ o \in 1..at + 1  BY <1>0
<1>5. Transition(ch) = InComment(ch)  BY DEF Transition
<1>6. CASE ch = EOF
  <2>1. Transition(ch) = Stop("ENDFILE")
    <3>1. InComment(ch) = Stop("ENDFILE")
      <4>1. ch # EndBrace  BY <1>6, Specials, Classes DEF Char
      <4>. QED  BY <1>6, <4>1 DEF InComment
    <3>. QED  BY <1>5, <3>1
  <2>2. at = Len(t)  BY <1>6, CharAtIs
  <2>3. first = Len(t) + 1  BY <1>3, <1>4, <2>2, SolidOpen
  <2>4. Ends(t, first) = {} /\ EndIn(t, first) = "ENDFILE"  BY <2>3, EndOfText
  <2>5. Transition(ch).to = "DONE" /\ Saved(ch) = <<>> /\ Named(ch) = "ENDFILE"
    <3>1. "START" \in Inside /\ "ENDFILE" # "MC_ID" /\ state # "INCHA"  BY DEF Inside
    <3>. QED  BY <1>1, <1>6, <2>1, <3>1, Kinds, Zenon
  <2>. QED  BY <2>4, <2>5 DEF EndsText
<1>7. CASE ch = EndBrace
  <2>1. ch # EOF  BY <1>7, Classes, Specials DEF Char
  <2>2. at < Len(t) /\ ch = t[at + 1]  BY <1>0, <2>1, CharAtIs
  <2>3. Transition(ch) = Skip("START")
    <3>1. InComment(ch) = Skip("START")  BY <1>7, <2>1 DEF InComment
    <3>. QED  BY <1>5, <3>1
  <2>4. "START" \in Inside  BY DEF Inside
  <2>5. Transition(ch).to = "START" /\ ~Transition(ch).unread /\ Saved(ch) = tokbuf
    BY <2>1, <2>3, <2>4, Kinds
  <2>6. at + 1 \in o + 1..Len(t) /\ (at + 1) - 1 = at  BY <1>0, <2>2
  <2>7. first = SolidIn(t)[(at + 1) + 1]  BY <1>3, <1>4, <1>7, <2>2, <2>6, SolidComment
  <2>8. Begun(t, "START", <<>>, at + 1, first)  BY <2>7, Zenon DEF Begun
  <2>. QED  BY <1>1, <2>1, <2>4, <2>5, <2>8 DEF Further
<1>8. CASE ch \notin {EOF, EndBrace}
  <2>1. at < Len(t) /\ ch = t[at + 1]  BY <1>0, <1>8, CharAtIs
  <2>2. Transition(ch) = Skip("INCMT")
    <3>1. InComment(ch) = Skip("INCMT")  BY <1>8 DEF InComment
    <3>. QED  BY <1>5, <3>1
  <2>3. "INCMT" \in Inside /\ ch # EOF  BY <1>8 DEF Inside
  <2>4. Transition(ch).to = "INCMT" /\ ~Transition(ch).unread /\ Saved(ch) = tokbuf
    BY <2>2, <2>3, Kinds
  <2>5. \A j \in o + 1..at + 1 : t[j] # EndBrace
    <3>1. \A j \in o + 1..at + 1 : j \in o + 1..at \/ j = at + 1  OBVIOUS
    <3>. QED  BY <1>3, <1>8, <2>1, <3>1
  <2>6. Begun(t, "INCMT", <<>>, at + 1, first)  BY <1>3, <1>4, <2>5, Zenon DEF Begun
  <2>. QED  BY <1>1, <2>3, <2>4, <2>6 DEF Further
<1>. QED  BY <1>6, <1>7, <1>8

\* The first character, by its class.
LEMMA StartIs ==
  ASSUME NEW ch \in Char \cup {EOF}
  PROVE  /\ ch \in Space => Start(ch) = Skip("START")
         /\ ch \in Digit => Start(ch) = Keep("INUNS")
         /\ ch = DQuote => Start(ch) = Skip("INSTR")
         /\ ch = Quote => Start(ch) = Skip("INCHA")
         /\ ch = Brace => Start(ch) = Skip("INCMT")
         /\ ch \in Letter => Start(ch) = Keep("INIDE")
         /\ ch = ":" => Start(ch) = Keep("INCOM")
         /\ ch = ">" => Start(ch) = Keep("INGRE")
         /\ ch = "<" => Start(ch) = Keep("INLES")
         /\ ch = EOF => Start(ch) = Stop("ENDFILE")
         /\ ch \in SmallSymbols => Start(ch) = Take(Single[ch])
         /\ ch \in Stray => Start(ch) = Take("ERROR")
<1>. DEFINE M == {":", "<", ">", Brace, Quote, DQuote}
<1>0. /\ DOMAIN Single = SmallSymbols
      /\ ":" # "<" /\ ":" # ">" /\ "<" # ">"
  BY Singles
<1>1. /\ M \cup SmallSymbols \cup Space = Special
      /\ Space \cap M = {} /\ Space \cap SmallSymbols = {} /\ SmallSymbols \cap M = {}
      /\ Quote # DQuote /\ Quote \notin {":", "<", ">", Brace}
      /\ DQuote \notin {":", "<", ">", Brace}
      /\ Brace \notin {":", "<", ">"}
  BY Specials DEF Brace
<1>. USE <1>0, <1>1, Classes DEF Char
<1>2. ch \in Space => Start(ch) = Skip("START")
  BY DEF Start
<1>3. ch \in Digit => Start(ch) = Keep("INUNS")
  BY DEF Start
<1>4. ch = DQuote => Start(ch) = Skip("INSTR")
  BY DEF Start
<1>5. ch = Quote => Start(ch) = Skip("INCHA")
  BY DEF Start
<1>6. ch = Brace => Start(ch) = Skip("INCMT")
  BY DEF Start
<1>7. ch \in Letter => Start(ch) = Keep("INIDE")
  BY DEF Start
<1>8. ch = ":" => Start(ch) = Keep("INCOM")
  BY DEF Start
<1>9. ch = ">" => Start(ch) = Keep("INGRE")
  BY DEF Start
<1>10. ch = "<" => Start(ch) = Keep("INLES")
  BY DEF Start
<1>11. ch = EOF => Start(ch) = Stop("ENDFILE")
  BY DEF Start
<1>12. ch \in SmallSymbols => Start(ch) = Take(Single[ch])
  BY DEF Start
<1>13. ch \in Stray => Start(ch) = Take("ERROR")
  BY DEF Start
<1>. QED  BY <1>2, <1>3, <1>4, <1>5, <1>6, <1>7, <1>8, <1>9, <1>10, <1>11, <1>12, <1>13

\* A word of nothing and of one character.
LEMMA FirstWord ==
  ASSUME NEW t \in Seq(Char), NEW at \in 0..Len(t), at < Len(t)
  PROVE  /\ Word(t, at + 1, at) = <<>> /\ Word(t, (at + 1) + 1, at + 1) = <<>>
         /\ Append(<<>>, t[at + 1]) = Word(t, at + 1, at + 1)
<1>0. /\ at + 1 \in 1..Len(t) + 1 /\ at \in (at + 1) - 1..Len(t) /\ at + 1 \in 1..at + 1
      /\ (at + 1) + 1 \in 1..Len(t) + 1 /\ at + 1 \in ((at + 1) + 1) - 1..Len(t)
      /\ at - (at + 1) + 1 = 0 /\ (at + 1) - ((at + 1) + 1) + 1 = 0
  OBVIOUS
<1>1. Word(t, at + 1, at) \in Seq(Char) /\ Len(Word(t, at + 1, at)) = 0  BY <1>0, WordIs
<1>2. Word(t, (at + 1) + 1, at + 1) \in Seq(Char) /\ Len(Word(t, (at + 1) + 1, at + 1)) = 0
  BY <1>0, WordIs
<1>3. Word(t, at + 1, at) = <<>>  BY <1>1
<1>4. Word(t, (at + 1) + 1, at + 1) = <<>>  BY <1>2
<1>5. Append(Word(t, at + 1, at), t[at + 1]) = Word(t, at + 1, at + 1)  BY <1>0, GrownWord
<1>. QED  BY <1>3, <1>4, <1>5

\* Before a lexeme.
LEMMA InStart ==
  ASSUME NEW t \in Seq(Char), NEW at \in 0..Len(t), NEW first \in 1..Len(t) + 1, NEW ch,
         ch = CharAt(t, at), state = "START", Begun(t, state, tokbuf, at, first)
  PROVE  Further(t, first, at, ch) \/ EndsLexeme(t, first, at, ch) \/ EndsText(t, first, ch)
<1>0. Len(t) \in Nat /\ state # "INCHA"  OBVIOUS
<1>1. first = SolidIn(t)[at + 1] /\ tokbuf = <<>>  BY Zenon DEF Begun
<1>2. Transition(ch) = Start(ch)  BY DEF Transition
<1>3. at + 1 \in 1..Len(t) + 1 /\ (at + 1) + 1 \in 1..Len(t) + 2  BY <1>0
<1>4. ch \in Char \cup {EOF}  BY <1>0, CharAtIs
<1>5. CASE ch = EOF
  <2>1. at = Len(t)  BY <1>5, CharAtIs
  <2>2. first = Len(t) + 1  BY <1>1, <1>3, <2>1, SolidAt
  <2>3. Ends(t, first) = {} /\ EndIn(t, first) = "ENDFILE"  BY <2>2, EndOfText
  <2>4. Transition(ch) = Stop("ENDFILE")  BY <1>2, <1>4, <1>5, StartIs
  <2>5. Transition(ch).to = "DONE" /\ Saved(ch) = <<>> /\ Named(ch) = "ENDFILE"
    <3>1. "START" \in Inside /\ "ENDFILE" # "MC_ID" /\ state # "INCHA"  BY DEF Inside
    <3>. QED  BY <1>1, <1>5, <2>4, <3>1, Kinds, Zenon
  <2>. QED  BY <2>3, <2>5 DEF EndsText
<1>6. CASE ch # EOF
  <2>1. at < Len(t) /\ ch = t[at + 1] /\ ch \in Char  BY <1>0, <1>6, CharAtIs
  <2>2. /\ at + 1 \in 1..Len(t) /\ at + 1 <= Len(t)
        /\ Word(t, (at + 1) + 1, at + 1) = <<>>
        /\ Append(tokbuf, ch) = Word(t, at + 1, at + 1)
    BY <1>0, <1>1, <2>1, FirstWord
  <2>3. ch \notin Space \cup {Brace} => first = at + 1  BY <1>1, <1>3, <2>1, <2>2, SolidAt
  <2>4. \A to \in Inside : Transition(ch) = Keep(to) =>
          /\ Transition(ch).to = to /\ ~Transition(ch).unread
          /\ Saved(ch) = Append(tokbuf, ch)
    BY <1>6, Kinds
  <2>5. \A to \in Inside : Transition(ch) = Skip(to) =>
          Transition(ch).to = to /\ ~Transition(ch).unread /\ Saved(ch) = tokbuf
    BY <1>6, Kinds
  <2>6. CASE ch \in Space
    <3>1. Transition(ch) = Skip("START")  BY <1>2, <1>4, <2>6, StartIs
    <3>2. "START" \in Inside  BY DEF Inside
    <3>3. first = SolidIn(t)[(at + 1) + 1]  BY <1>1, <1>3, <2>1, <2>2, <2>6, SolidAt
    <3>4. Begun(t, "START", <<>>, at + 1, first)  BY <3>3, Zenon DEF Begun
    <3>. QED  BY <1>1, <1>6, <2>5, <3>1, <3>2, <3>4 DEF Further
  <2>7. CASE ch = Brace
    <3>1. Transition(ch) = Skip("INCMT")  BY <1>2, <1>4, <2>7, StartIs
    <3>2. "INCMT" \in Inside  BY DEF Inside
    <3>3. at + 1 \in 1..at + 1 /\ t[at + 1] = Brace /\ first = SolidIn(t)[at + 1]
          /\ \A j \in (at + 1) + 1..at + 1 : t[j] # EndBrace
      BY <1>0, <1>1, <2>1, <2>7
    <3>4. Begun(t, "INCMT", <<>>, at + 1, first)
      <4>1. \E o \in 1..at + 1 : /\ t[o] = Brace /\ first = SolidIn(t)[o]
                                 /\ \A j \in o + 1..at + 1 : t[j] # EndBrace
        BY <3>3, Zenon
      <4>. QED  BY <4>1, Zenon DEF Begun
    <3>. QED  BY <1>1, <1>6, <2>5, <3>1, <3>2, <3>4 DEF Further
  <2>8. CASE ch \in Digit
    <3>1. first = at + 1 /\ "INUNS" \in Inside  BY <2>3, <2>8, Classes DEF Inside, Special
    <3>2. Transition(ch) = Keep("INUNS")  BY <1>2, <1>4, <2>8, StartIs
    <3>3. AllOf(t, at + 1, at + 1, Digit) /\ at + 1 <= at + 1
      BY <1>0, <2>1, <2>8 DEF AllOf
    <3>4. Begun(t, "INUNS", Word(t, at + 1, at + 1), at + 1, at + 1)
      BY <3>3, Zenon DEF Begun
    <3>. QED  BY <1>6, <2>2, <2>4, <3>1, <3>2, <3>4 DEF Further
  <2>9. CASE ch \in Letter
    <3>1. first = at + 1 /\ "INIDE" \in Inside  BY <2>3, <2>9, Classes DEF Inside, Special
    <3>2. Transition(ch) = Keep("INIDE")  BY <1>2, <1>4, <2>9, StartIs
    <3>3. AllOf(t, at + 1, at + 1, Letter \cup Digit) /\ at + 1 <= at + 1 /\ t[at + 1] \in Letter
      BY <1>0, <2>1, <2>9 DEF AllOf
    <3>4. Begun(t, "INIDE", Word(t, at + 1, at + 1), at + 1, at + 1)
      BY <3>3, Zenon DEF Begun
    <3>. QED  BY <1>6, <2>2, <2>4, <3>1, <3>2, <3>4 DEF Further
  <2>10. CASE ch \in {Quote, DQuote}
    <3>1. first = at + 1 /\ "INSTR" \in Inside /\ "INCHA" \in Inside
      BY <2>3, <2>10, Specials DEF Inside
    <3>2. at + 1 <= at + 1 /\ (at + 1) + 1..at + 1 = {}  BY <1>0
    <3>3. CASE ch = DQuote
      <4>1. Transition(ch) = Skip("INSTR")  BY <1>2, <1>4, <3>3, StartIs
      <4>2. Begun(t, "INSTR", <<>>, at + 1, at + 1)
        BY <2>1, <2>2, <3>2, <3>3, Zenon DEF Begun
      <4>. QED  BY <1>1, <1>6, <2>5, <3>1, <4>1, <4>2 DEF Further
    <3>4. CASE ch = Quote
      <4>1. Transition(ch) = Skip("INCHA")  BY <1>2, <1>4, <3>4, StartIs
      <4>2. Begun(t, "INCHA", <<>>, at + 1, at + 1)
        BY <2>1, <2>2, <3>2, <3>4, Zenon DEF Begun
      <4>. QED  BY <1>1, <1>6, <2>5, <3>1, <4>1, <4>2 DEF Further
    <3>. QED  BY <2>10, <3>3, <3>4
  <2>11. CASE ch \in {":", "<", ">"}
    <3>1. first = at + 1 /\ {"INCOM", "INLES", "INGRE"} \subseteq Inside
      <4>1. ch \notin Space \cup {Brace}  BY <2>11, Specials DEF Brace
      <4>. QED  BY <2>3, <4>1 DEF Inside
    <3>2. CASE ch = ":"
      <4>1. Transition(ch) = Keep("INCOM")  BY <1>2, <1>4, <3>2, StartIs
      <4>2. Begun(t, "INCOM", Word(t, at + 1, at + 1), at + 1, at + 1)
        BY <2>1, <3>2, Zenon DEF Begun
      <4>. QED  BY <1>6, <2>2, <2>4, <3>1, <4>1, <4>2 DEF Further
    <3>3. CASE ch = "<"
      <4>1. Transition(ch) = Keep("INLES")  BY <1>2, <1>4, <3>3, StartIs
      <4>2. Begun(t, "INLES", Word(t, at + 1, at + 1), at + 1, at + 1)
        BY <2>1, <3>3, Zenon DEF Begun
      <4>. QED  BY <1>6, <2>2, <2>4, <3>1, <4>1, <4>2 DEF Further
    <3>4. CASE ch = ">"
      <4>1. Transition(ch) = Keep("INGRE")  BY <1>2, <1>4, <3>4, StartIs
      <4>2. Begun(t, "INGRE", Word(t, at + 1, at + 1), at + 1, at + 1)
        BY <2>1, <3>4, Zenon DEF Begun
      <4>. QED  BY <1>6, <2>2, <2>4, <3>1, <4>1, <4>2 DEF Further
    <3>. QED  BY <2>11, <3>2, <3>3, <3>4
  <2>12. CASE ch \in SmallSymbols
    <3>1. ch \notin Space \cup {Brace} /\ ch \notin {":", "<", ">"} /\ ch \notin {Quote, DQuote}
      BY <2>12, Specials
    <3>2. first = at + 1  BY <2>3, <3>1
    <3>3. Transition(ch) = Take(Single[ch])  BY <1>2, <1>4, <2>12, StartIs
    <3>4. Single[ch] \notin {"ENDFILE", "ERROR", "MC_ID"}  BY <2>12, Singles
    <3>5. ~(<<t[at + 1], t[(at + 1) + 1]>> \in Paired) /\ t[at + 1] \in Alone
      BY <2>1, <2>12, <3>1, Pairs DEF Alone
    <3>6. /\ at + 1 \in Ends(t, at + 1) /\ Longest(t, at + 1) = at + 1
          /\ "SYMBOL" \in TokensOf(Word(t, at + 1, at + 1))
      BY <2>2, <3>5, AloneEnds
    <3>7. /\ Transition(ch).to = "DONE" /\ Reached(ch, at) = at + 1
          /\ Saved(ch) = Append(tokbuf, ch) /\ Named(ch) = Single[ch]
      <4>1. "START" \in Inside /\ Single[ch] # "MC_ID"  BY <3>4 DEF Inside
      <4>. QED  BY <1>6, <3>3, <4>1, Kinds, Zenon
    <3>8. at + 1 \in at + 1..Len(t) /\ t[at + 1] \notin {Quote, DQuote}  BY <1>0, <2>1, <2>2, <3>1
    <3>9. Unquoted(Word(t, at + 1, at + 1)) = Word(t, at + 1, at + 1)
      BY <2>2, <3>8, UnquotedIs
    <3>. QED  BY <2>2, <3>2, <3>4, <3>6, <3>7, <3>9 DEF EndsLexeme, Tells
  <2>13. CASE ch \in Stray
    <3>1. first = at + 1
      <4>1. ch \notin Space \cup {Brace}  BY <2>13, Classes DEF Special
      <4>. QED  BY <2>3, <4>1
    <3>2. Transition(ch) = Take("ERROR")  BY <1>2, <1>4, <2>13, StartIs
    <3>3. Ends(t, at + 1) = {}  BY <2>1, <2>2, <2>13, NoEnds
    <3>4. EndIn(t, at + 1) = "ERROR"
      <4>1. ~(at + 1 > Len(t))  BY <1>0, <2>2
      <4>2. t[at + 1] # Quote /\ t[at + 1] # DQuote  BY <2>1, <2>13, Classes DEF Special
      <4>. QED  BY <4>1, <4>2 DEF EndIn
    <3>5. Transition(ch).to = "DONE" /\ Saved(ch) = Append(tokbuf, ch) /\ Named(ch) = "ERROR"
      <4>1. "START" \in Inside /\ "ERROR" # "MC_ID"  BY DEF Inside
      <4>. QED  BY <1>6, <3>2, <4>1, Kinds, Zenon
    <3>6. Append(tokbuf, ch) = <<ch>>  BY <1>1
    <3>. QED  BY <3>1, <3>3, <3>4, <3>5, <3>6 DEF EndsText
  <2>14. \/ ch \in Space \/ ch = Brace \/ ch \in Digit \/ ch \in Letter
         \/ ch \in {Quote, DQuote} \/ ch \in {":", "<", ">"}
         \/ ch \in SmallSymbols \/ ch \in Stray
    BY <2>1, Specials DEF Char
  <2>. QED  BY <2>6, <2>7, <2>8, <2>9, <2>10, <2>11, <2>12, <2>13, <2>14
<1>. QED  BY <1>5, <1>6

\* Whatever the state, and whatever comes.
LEMMA Turn ==
  ASSUME NEW t \in Seq(Char), NEW at \in 0..Len(t), NEW first \in 1..Len(t) + 1, NEW ch,
         ch = CharAt(t, at), state \in Inside, Begun(t, state, tokbuf, at, first)
  PROVE  \/ Further(t, first, at, ch) \/ EndsLexeme(t, first, at, ch)
         \/ EndsText(t, first, ch) \/ Panics(t, first, ch)
<1>1. CASE state = "START"  BY <1>1, InStart
<1>2. CASE state = "INCMT"  BY <1>2, InCommentText
<1>3. CASE state = "INSTR"  BY <1>3, InStringConstant
<1>4. CASE state = "INCHA"  BY <1>4, InCharacterConstant
<1>5. CASE state = "INUNS"  BY <1>5, InNumber
<1>6. CASE state = "INIDE"  BY <1>6, InName
<1>7. CASE state = "INLES"  BY <1>7, InLessThan
<1>8. CASE state = "INCOM"  BY <1>8, InColon
<1>9. CASE state = "INGRE"  BY <1>9, InGreater
<1>. QED  BY <1>1, <1>2, <1>3, <1>4, <1>5, <1>6, <1>7, <1>8, <1>9, Zenon DEF Inside

\* A lexeme is never longer than the rest of the text.
LEMMA Fits ==
  ASSUME NEW t \in Seq(Char), NEW at \in 0..Len(t), NEW first \in 1..Len(t) + 1, NEW ch,
         ch = CharAt(t, at), Further(t, first, at, ch) \/ EndsLexeme(t, first, at, ch)
  PROVE  Len(Saved(ch)) <= Len(t) - first + 1
<1>0. Len(t) \in Nat  OBVIOUS
<1>1. CASE Further(t, first, at, ch)
  <2>1. at < Len(t)  BY <1>0, <1>1, CharAtIs DEF Further
  <2>. DEFINE to == Transition(ch).to
              buf == Saved(ch)
  <2>2. to \in Inside /\ Begun(t, to, buf, at + 1, first)  BY <1>1, Zenon DEF Further
  <2>. HIDE DEF to, buf
  <2>3. \/ buf = <<>>
        \/ first <= at + 1 /\ buf = Word(t, first, at + 1)
        \/ first <= at + 1 /\ buf = Word(t, first + 1, at + 1)
    <3>1. CASE to \in {"START", "INCMT"}  BY <2>2, <3>1, Zenon DEF Begun
    <3>2. CASE to \in {"INSTR", "INCHA"}  BY <2>2, <3>2, Zenon DEF Begun
    <3>3. CASE to \in {"INUNS", "INIDE"}  BY <2>2, <3>3, Zenon DEF Begun
    <3>4. CASE to \in {"INLES", "INCOM", "INGRE"}
      <4>1. first = at + 1 /\ buf = Word(t, first, at + 1)  BY <2>2, <3>4, Zenon DEF Begun
      <4>. QED  BY <1>0, <4>1
    <3>. QED  BY <2>2, <3>1, <3>2, <3>3, <3>4 DEF Inside
  <2>4. CASE buf = <<>>  BY <1>0, <2>4 DEF buf
  <2>5. CASE first <= at + 1 /\ buf = Word(t, first, at + 1)
    <3>1. at + 1 \in first - 1..Len(t)  BY <1>0, <2>1, <2>5
    <3>2. Len(Word(t, first, at + 1)) = (at + 1) - first + 1  BY <3>1, WordIs
    <3>. QED  BY <1>0, <2>1, <2>5, <3>2 DEF buf
  <2>6. CASE first <= at + 1 /\ buf = Word(t, first + 1, at + 1)
    <3>1. first + 1 \in 1..Len(t) + 1 /\ at + 1 \in (first + 1) - 1..Len(t)  BY <1>0, <2>1, <2>6
    <3>2. Len(Word(t, first + 1, at + 1)) = (at + 1) - (first + 1) + 1  BY <3>1, WordIs
    <3>. QED  BY <1>0, <2>1, <2>6, <3>2 DEF buf
  <2>. QED  BY <2>3, <2>4, <2>5, <2>6
<1>2. CASE EndsLexeme(t, first, at, ch)
  <2>. DEFINE last == Reached(ch, at)
  <2>1. last \in Ends(t, first) /\ Saved(ch) = Unquoted(Word(t, first, last))
    BY <1>2, Zenon DEF EndsLexeme, Tells
  <2>. HIDE DEF last
  <2>2. last \in first..Len(t)  BY <2>1 DEF Ends
  <2>3. first \in 1..Len(t)  BY <1>0, <2>2
  <2>4. CASE t[first] \in {Quote, DQuote}
    <3>1. first < last  BY <2>1, <2>3, <2>4, ByFirst
    <3>2. Saved(ch) = Word(t, first + 1, last - 1)  BY <2>1, <2>2, <2>3, <2>4, <3>1, UnquotedIs
    <3>3. first + 1 \in 1..Len(t) + 1 /\ last - 1 \in (first + 1) - 1..Len(t)
      BY <1>0, <2>2, <3>1
    <3>4. Len(Word(t, first + 1, last - 1)) = (last - 1) - (first + 1) + 1  BY <3>3, WordIs
    <3>. QED  BY <1>0, <2>2, <3>2, <3>4
  <2>5. CASE t[first] \notin {Quote, DQuote}
    <3>1. Saved(ch) = Word(t, first, last)  BY <2>1, <2>2, <2>3, <2>5, UnquotedIs
    <3>2. Len(Word(t, first, last)) = last - first + 1  BY <2>2, <2>3, WordEnds
    <3>. QED  BY <1>0, <2>2, <3>1, <3>2
  <2>. QED  BY <2>4, <2>5
<1>. QED  BY <1>1, <1>2

\* A lexeme does not end with a line feed.
LEMMA LexemeLast ==
  ASSUME NEW t \in Seq(Char), NEW i \in 1..Len(t), NEW k \in Ends(t, i)
  PROVE  t[k] # NL
<1>0. k \in i..Len(t) /\ k \in 1..Len(t)  BY DEF Ends
<1>1. NL \in Space /\ NL \notin Letter \cup Digit \cup Stray /\ NL # Quote /\ NL # DQuote
      /\ NL \notin SmallSymbols /\ NL \notin {":", "<", ">", Brace} /\ "=" \in SmallSymbols
  BY Classes, Specials
<1>2. CASE t[i] \in Letter \cup Digit
  <2>1. AllOf(t, i, k, Letter \cup Digit)  BY <1>2, ByFirst DEF AllOf
  <2>. QED  BY <1>0, <1>1, <2>1 DEF AllOf
<1>3. CASE t[i] \in {Quote, DQuote}  BY <1>1, <1>3, ByFirst
<1>4. CASE t[i] \in SmallSymbols  BY <1>1, <1>4, ByFirst
<1>5. CASE t[i] \in {":", "<", ">"}
  <2>1. k = i \/ <<t[i], t[k]>> \in Paired  BY <1>5, ByFirst
  <2>2. <<t[i], t[k]>> \in Paired => t[k] \in {"=", ">"}  BY Pairs, Zenon
  <2>3. NL \notin {"=", ">"} /\ t[i] # NL  BY <1>1, <1>5
  <2>4. CASE k = i  BY <2>3, <2>4, Zenon
  <2>5. CASE t[k] \in {"=", ">"}  BY <2>3, <2>5, Zenon
  <2>. QED  BY <2>1, <2>2, <2>4, <2>5
<1>8. t[i] \in Char  OBVIOUS
<1>6. t[i] \in Char /\ t[i] \notin Stray \cup Space \cup {Brace}  BY <1>8, ByFirst
<1>7. t[i] \in Letter \cup Digit \/ t[i] \in {Quote, DQuote} \/ t[i] \in SmallSymbols
      \/ t[i] \in {":", "<", ">"}
  BY <1>6, Specials DEF Char
<1>. QED  BY <1>2, <1>3, <1>4, <1>5, <1>7

-----------------------------------------------------------------------------
(* Reading                                                                 *)

\* How much of the text has been read and is not given back.
At == (pos - Len(linebuf)) + colmno
Moved == IF colmno >= Len(linebuf) /\ readc.ch # EOF THEN pos + Len(readc.line) ELSE pos

\* A piece of the text that ends where it has to: behind a line feed, at the
\* end of the text or when the buffer is full.
Piece(t, buf, to) ==
  /\ buf \in Seq(Char) /\ Len(buf) <= to
  /\ \A i \in 1..Len(buf) : buf[i] = t[to - Len(buf) + i]
  /\ \A i \in 1..Len(buf) - 1 : buf[i] # NL

Buffered ==
  /\ pos \in 0..Len(text) /\ Piece(text, linebuf, pos)
  /\ colmno \in 0..Len(linebuf) /\ lineno \in Nat
  /\ fileend \in BOOLEAN /\ (fileend => At = Len(text))

\* What fgets returns.
LEMMA Fetched ==
  ASSUME text \in Seq(Char), pos \in 0..Len(text), pos < Len(text)
  PROVE  \E n \in 1..Len(text) - pos :
           /\ fgets \in Seq(Char) /\ Len(fgets) = n
           /\ \A i \in 1..n : fgets[i] = text[pos + i]
           /\ \A i \in 1..n - 1 : text[pos + i] # NL
           /\ n <= Width
           /\ n = Width \/ pos + n = Len(text) \/ text[pos + n] = NL
<1>0. Len(text) \in Nat /\ Width \in Nat \ {0}  BY ConstAssumption
<1>. DEFINE rest == Word(text, pos + 1, Len(text))
            R == Len(rest)
            Fit(k) == /\ k = Width \/ k = R \/ rest[k] = NL
                      /\ k <= Width /\ \A j \in 1..k - 1 : rest[j] # NL
            n == CHOOSE k \in 1..R : Fit(k)
<1>1. pos + 1 \in 1..Len(text) + 1 /\ Len(text) \in (pos + 1) - 1..Len(text)
  BY <1>0
<1>2. rest \in Seq(Char) /\ R = Len(text) - (pos + 1) + 1
  BY <1>1, WordIs
<1>3. \A k \in 1..Len(text) - (pos + 1) + 1 : rest[k] = text[(pos + 1) + k - 1]
  BY <1>1, WordIs
<1>4. fgets = SubSeq(rest, 1, n)  BY Zenon DEF fgets, Word
<1>. HIDE DEF rest
<1>5. R = Len(text) - pos /\ R \in Nat \ {0}  BY <1>0, <1>2
<1>6. \A k \in 1..R : rest[k] = text[pos + k]
  <2>. TAKE k \in 1..R
  <2>1. (pos + 1) + k - 1 = pos + k /\ k \in 1..Len(text) - (pos + 1) + 1  BY <1>0, <1>5
  <2>. QED  BY <1>3, <2>1
<1>7. \E k \in 1..R : Fit(k)
  <2>. DEFINE K == {k \in 1..R : k = Width \/ k = R \/ rest[k] = NL}
  <2>1. K \subseteq Nat /\ R \in K  BY <1>5
  <2>. HIDE DEF K
  <2>2. PICK k \in K : \A j \in K : k <= j  BY <2>1, LeastNat
  <2>3. k \in 1..R /\ (k = Width \/ k = R \/ rest[k] = NL)  BY <2>2 DEF K
  <2>4. k <= Width
    <3>1. Width <= R => Width \in K  BY <1>0, <1>5 DEF K
    <3>. QED  BY <1>0, <1>5, <2>2, <2>3, <3>1
  <2>5. ASSUME NEW j \in 1..k - 1  PROVE rest[j] # NL
    <3>1. j \in 1..R /\ ~(k <= j)  BY <1>5, <2>3
    <3>2. j \notin K  BY <2>2, <3>1
    <3>. QED  BY <3>1, <3>2 DEF K
  <2>. QED  BY <2>3, <2>4, <2>5
<1>8. n \in 1..R /\ Fit(n)  BY <1>7
<1>. HIDE DEF n
<1>9. n \in 1..Len(text) - pos  BY <1>5, <1>8
<1>10. fgets = [i \in 1..n |-> rest[i]]
  <2>1. SubSeq(rest, 1, n) = [i \in 1..n - 1 + 1 |-> rest[1 + i - 1]]  BY <1>2, <1>8
  <2>2. n - 1 + 1 = n /\ \A i \in 1..n : 1 + i - 1 = i  BY <1>9
  <2>. QED  BY <1>4, <2>1, <2>2
<1>11. \A i \in 1..n : i \in 1..R /\ rest[i] \in Char  BY <1>2, <1>5, <1>8
<1>12. fgets \in Seq(Char) /\ Len(fgets) = n  BY <1>0, <1>9, <1>10, <1>11
<1>13. \A i \in 1..n : fgets[i] = text[pos + i]  BY <1>6, <1>10, <1>11
<1>14. \A i \in 1..n - 1 : text[pos + i] # NL
  <2>1. \A i \in 1..n - 1 : i \in 1..R  BY <1>5, <1>8
  <2>. QED  BY <1>6, <1>8, <2>1
<1>15. n = Width \/ pos + n = Len(text) \/ text[pos + n] = NL  BY <1>0, <1>5, <1>6, <1>8
<1>16. n <= Width  BY <1>8
<1>. QED  BY <1>9, <1>12, <1>13, <1>14, <1>15, <1>16

\* What readc returns: the next character, and a buffer it stands in.
LEMMA ReadIs ==
  ASSUME text \in Seq(Char), Buffered
  PROVE  /\ At \in 0..Len(text) /\ readc.ch = CharAt(text, At) /\ readc.no \in Nat
         /\ At = Len(text) =>
              /\ readc.ch = EOF /\ readc.line = linebuf /\ readc.col = colmno /\ Moved = pos
         /\ At < Len(text) =>
              /\ readc.ch # EOF /\ Moved \in 1..Len(text)
              /\ Piece(text, readc.line, Moved) /\ readc.col \in 1..Len(readc.line)
              /\ (Moved - Len(readc.line)) + readc.col = At + 1
<1>0. Len(text) \in Nat /\ MaxLineno \in Nat  BY ConstAssumption
<1>1. /\ pos \in 0..Len(text) /\ Piece(text, linebuf, pos)
      /\ colmno \in 0..Len(linebuf) /\ lineno \in Nat
      /\ linebuf \in Seq(Char) /\ Len(linebuf) <= pos /\ Len(linebuf) \in Nat
  BY DEF Buffered, Piece
<1>2. At \in 0..Len(text) /\ At <= pos  BY <1>0, <1>1 DEF At
<1>3. NextLine \in Nat  BY <1>1 DEF NextLine
<1>4. CASE colmno < Len(linebuf)
  <2>1. readc = [ch |-> linebuf[colmno + 1], line |-> linebuf, col |-> colmno + 1, no |-> lineno]
    BY <1>4 DEF readc
  <2>2. /\ readc.ch = linebuf[colmno + 1] /\ readc.line = linebuf
        /\ readc.col = colmno + 1 /\ readc.no = lineno
    BY <2>1
  <2>3. colmno + 1 \in 1..Len(linebuf) /\ At < Len(text) /\ ~(colmno >= Len(linebuf))
    BY <1>0, <1>1, <1>4 DEF At
  <2>4. pos - Len(linebuf) + (colmno + 1) = At + 1  BY <1>1 DEF At
  <2>5. linebuf[colmno + 1] = text[At + 1]  BY <1>1, <2>3, <2>4 DEF Piece
  <2>6. CharAt(text, At) = text[At + 1] /\ CharAt(text, At) # EOF  BY <1>2, <2>3, CharAtIs
  <2>7. Moved = pos  BY <2>3 DEF Moved
  <2>8. pos \in 1..Len(text) /\ (pos - Len(linebuf)) + (colmno + 1) = At + 1  BY <1>1, <2>3, <2>4
  <2>9. At # Len(text)  BY <1>0, <1>2, <2>3
  <2>. QED  BY <1>1, <1>2, <2>2, <2>3, <2>5, <2>6, <2>7, <2>8, <2>9
<1>5. CASE colmno = Len(linebuf) /\ pos = Len(text)
  <2>1. readc = [ch |-> EOF, line |-> linebuf, col |-> colmno, no |-> NextLine]
    <3>1. ~(colmno < Len(linebuf))  BY <1>1, <1>5
    <3>. QED  BY <1>5, <3>1 DEF readc
  <2>2. readc.ch = EOF /\ readc.line = linebuf /\ readc.col = colmno /\ readc.no = NextLine
    BY <2>1
  <2>3. At = Len(text)  BY <1>0, <1>1, <1>5 DEF At
  <2>4. CharAt(text, At) = EOF  BY <1>2, <2>3, CharAtIs
  <2>5. Moved = pos  BY <2>2 DEF Moved
  <2>6. ~(At < Len(text))  BY <1>0, <2>3
  <2>. QED  BY <1>2, <1>3, <2>2, <2>3, <2>4, <2>5, <2>6
<1>6. CASE colmno = Len(linebuf) /\ pos # Len(text)
  <2>1. readc = [ch |-> fgets[1], line |-> fgets, col |-> 1, no |-> NextLine]
    <3>1. ~(colmno < Len(linebuf))  BY <1>1, <1>6
    <3>. QED  BY <1>6, <3>1 DEF readc
  <2>2. readc.ch = fgets[1] /\ readc.line = fgets /\ readc.col = 1 /\ readc.no = NextLine
    BY <2>1
  <2>3. At = pos /\ pos < Len(text)  BY <1>0, <1>1, <1>6 DEF At
  <2>4. PICK n \in 1..Len(text) - pos :
           /\ fgets \in Seq(Char) /\ Len(fgets) = n
           /\ \A i \in 1..n : fgets[i] = text[pos + i]
           /\ \A i \in 1..n - 1 : text[pos + i] # NL
           /\ n <= Width
           /\ n = Width \/ pos + n = Len(text) \/ text[pos + n] = NL
    BY <1>1, <2>3, Fetched
  <2>5. fgets[1] = text[pos + 1]  BY <2>4
  <2>6. CharAt(text, At) = text[At + 1] /\ CharAt(text, At) # EOF  BY <1>2, <2>3, CharAtIs
  <2>7. Moved = pos + n
    <3>1. colmno >= Len(linebuf)  BY <1>1, <1>6
    <3>. QED  BY <2>2, <2>3, <2>4, <2>5, <2>6, <3>1 DEF Moved
  <2>8. Piece(text, fgets, pos + n)
    <3>1. \A i \in 1..n : (pos + n) - n + i = pos + i  BY <1>1
    <3>2. \A i \in 1..n - 1 : i \in 1..n  OBVIOUS
    <3>3. \A i \in 1..n : fgets[i] = text[(pos + n) - n + i]  BY <2>4, <3>1
    <3>4. n <= pos + n  BY <1>1
    <3>. QED  BY <2>4, <3>2, <3>3, <3>4 DEF Piece
  <2>9. /\ pos + n \in 1..Len(text) /\ ((pos + n) - n) + 1 = pos + 1 /\ 1 \in 1..n
        /\ pos # Len(text)
    BY <1>0, <1>1, <2>3
  <2>. QED  BY <1>2, <1>3, <2>2, <2>3, <2>4, <2>5, <2>6, <2>7, <2>8, <2>9
<1>. QED  BY <1>1, <1>4, <1>5, <1>6

\* What a turn of the loop changes of the reading.
LEMMA TurnReads ==
  ASSUME text \in Seq(Char), Buffered, gettok
  PROVE  /\ text' = text /\ At' = Reached(CharAt(text, At), At)
         /\ Buffered'
         /\ linebuf' = readc.line /\ lineno' = readc.no /\ pos' = Moved
         /\ fileend' <=> (fileend \/ At = Len(text))
<1>. DEFINE ch == readc.ch
<1>1. /\ text' = text /\ linebuf' = readc.line /\ lineno' = readc.no
      /\ fileend' = (fileend \/ ch = EOF)
      /\ colmno' = IF Transition(ch).unread THEN unreadc(readc.col, fileend \/ ch = EOF)
                   ELSE readc.col
      /\ pos' = Moved
  BY DEF gettok, Moved
<1>0. Len(text) \in Nat  OBVIOUS
<1>2. /\ pos \in 0..Len(text) /\ Piece(text, linebuf, pos)
      /\ colmno \in 0..Len(linebuf) /\ lineno \in Nat
      /\ linebuf \in Seq(Char) /\ Len(linebuf) <= pos /\ Len(linebuf) \in Nat
      /\ fileend \in BOOLEAN /\ (fileend => At = Len(text))
  BY DEF Buffered, Piece
<1>3. At \in 0..Len(text) /\ ch = CharAt(text, At) /\ readc.no \in Nat  BY ReadIs
<1>4. ch = EOF <=> At = Len(text)  BY <1>3, CharAtIs
<1>5. fileend' \in BOOLEAN /\ (fileend' <=> (fileend \/ At = Len(text)))  BY <1>1, <1>2, <1>4
<1>6. CASE At = Len(text)
  <2>1. readc.line = linebuf /\ readc.col = colmno /\ Moved = pos  BY <1>6, ReadIs
  <2>2. ch = EOF  BY <1>4, <1>6
  <2>3. colmno' = colmno  BY <1>1, <2>1, <2>2 DEF unreadc
  <2>4. At' = At  BY <1>1, <2>1, <2>3 DEF At
  <2>5. Reached(ch, At) = At  BY <2>2 DEF Reached
  <2>6. Buffered'
    <3>1. lineno' \in Nat /\ pos' = pos /\ linebuf' = linebuf  BY <1>1, <1>3, <2>1
    <3>2. fileend' => At' = Len(text')  BY <1>1, <1>6, <2>4
    <3>3. Piece(text', linebuf', pos')  BY <1>1, <1>2, <3>1
    <3>. QED  BY <1>1, <1>2, <1>5, <2>3, <3>1, <3>2, <3>3 DEF Buffered
  <2>. QED  BY <1>1, <1>3, <1>5, <2>4, <2>5, <2>6
<1>7. CASE At # Len(text)
  <2>0. At < Len(text) /\ ch # EOF /\ fileend = FALSE  BY <1>0, <1>2, <1>3, <1>4, <1>7
  <2>1. /\ Moved \in 1..Len(text)
        /\ Piece(text, readc.line, Moved) /\ readc.col \in 1..Len(readc.line)
        /\ (Moved - Len(readc.line)) + readc.col = At + 1
    BY <2>0, ReadIs
  <2>2. colmno' = IF Transition(ch).unread THEN readc.col - 1 ELSE readc.col
    BY <1>1, <2>0 DEF unreadc
  <2>3. readc.line \in Seq(Char) /\ Len(readc.line) \in Nat /\ Len(readc.line) <= Moved
    BY <2>1 DEF Piece
  <2>4. At' = (Moved - Len(readc.line)) + colmno'  BY <1>1 DEF At
  <2>5. colmno' \in 0..Len(readc.line)  BY <2>1, <2>2, <2>3
  <2>6. At' = IF Transition(ch).unread THEN At ELSE At + 1
    <3>1. CASE Transition(ch).unread
      <4>1. colmno' = readc.col - 1  BY <2>2, <3>1
      <4>. QED  BY <1>3, <2>1, <2>3, <2>4, <3>1, <4>1
    <3>2. CASE ~Transition(ch).unread
      <4>1. colmno' = readc.col  BY <2>2, <3>2
      <4>. QED  BY <1>3, <2>1, <2>3, <2>4, <3>2, <4>1
    <3>. QED  BY <3>1, <3>2
  <2>7. At' = Reached(ch, At)  BY <2>0, <2>6 DEF Reached
  <2>8. Buffered'
    <3>1. lineno' \in Nat /\ pos' = Moved /\ linebuf' = readc.line  BY <1>1, <1>3
    <3>2. ~fileend'  BY <1>5, <1>7, <2>0
    <3>3. Piece(text', linebuf', pos')  BY <1>1, <2>1
    <3>4. pos' \in 0..Len(text') /\ colmno' \in 0..Len(linebuf')  BY <1>1, <2>1, <2>5
    <3>. QED  BY <1>5, <3>1, <3>2, <3>3, <3>4 DEF Buffered
  <2>. QED  BY <1>1, <1>3, <1>5, <2>7, <2>8
<1>. QED  BY <1>6, <1>7

-----------------------------------------------------------------------------
(* Lines                                                                   *)

Feeds(t, i) == {j \in 1..i - 1 : t[j] = NL}
LineIn(t, i) == 1 + Cardinality(Feeds(t, i))
FitIn(t) == \A i \in 1..Len(t) - Width : \E j \in i..i + Width - 1 : t[j] = NL

\* A line's number is one up to its end, and one more behind it.
LEMMA LineIs ==
  ASSUME NEW t, NEW i \in Nat \ {0}
  PROVE  /\ IsFiniteSet(Feeds(t, i)) /\ Cardinality(Feeds(t, i)) \in Nat
         /\ LineIn(t, i) \in 1..i /\ LineIn(t, 1) = 1
         /\ \A j \in Nat : i <= j /\ (\A k \in i..j - 1 : t[k] # NL)
                              => LineIn(t, j) = LineIn(t, i)
         /\ t[i] = NL => LineIn(t, i + 1) = LineIn(t, i) + 1
<1>1. IsFiniteSet(1..i - 1) /\ Cardinality(1..i - 1) = i - 1
  <2>1. i - 1 \in Nat  OBVIOUS
  <2>2. IsFiniteSet(1..i - 1)  BY <2>1, FS_Interval
  <2>3. Cardinality(1..i - 1) = IF 1 > i - 1 THEN 0 ELSE (i - 1) - 1 + 1  BY <2>1, FS_Interval
  <2>. QED  BY <2>1, <2>2, <2>3
<1>2. Feeds(t, i) \subseteq 1..i - 1  BY DEF Feeds
<1>3. IsFiniteSet(Feeds(t, i)) /\ Cardinality(Feeds(t, i)) <= Cardinality(1..i - 1)
  BY <1>1, <1>2, FS_Subset
<1>4. Cardinality(Feeds(t, i)) \in Nat  BY <1>3, FS_CardinalityType
<1>5. LineIn(t, i) \in 1..i  BY <1>1, <1>3, <1>4 DEF LineIn
<1>6. LineIn(t, 1) = 1
  <2>1. Feeds(t, 1) = {}  BY DEF Feeds
  <2>. QED  BY <2>1, FS_EmptySet DEF LineIn
<1>7. ASSUME NEW j \in Nat, i <= j, \A k \in i..j - 1 : t[k] # NL
      PROVE  LineIn(t, j) = LineIn(t, i)
  <2>1. \A k \in 1..j - 1 : k \in 1..i - 1 \/ k \in i..j - 1  OBVIOUS
  <2>2. \A k \in 1..i - 1 : k \in 1..j - 1  BY <1>7
  <2>3. Feeds(t, j) = Feeds(t, i)  BY <1>7, <2>1, <2>2 DEF Feeds
  <2>. QED  BY <2>3 DEF LineIn
<1>8. ASSUME t[i] = NL  PROVE LineIn(t, i + 1) = LineIn(t, i) + 1
  <2>1. Feeds(t, i + 1) = Feeds(t, i) \cup {i} /\ i \notin Feeds(t, i)
    <3>1. (i + 1) - 1 = i /\ 1..i = (1..i - 1) \cup {i} /\ i \notin 1..i - 1  OBVIOUS
    <3>. QED  BY <1>8, <3>1 DEF Feeds
  <2>2. Cardinality(Feeds(t, i) \cup {i}) = Cardinality(Feeds(t, i)) + 1
    BY <1>3, <2>1, FS_AddElement
  <2>. QED  BY <1>4, <2>1, <2>2 DEF LineIn
<1>. QED  BY <1>3, <1>4, <1>5, <1>6, <1>7, <1>8

\* The buffers begin and end with lines when every line fits one.
Numbered ==
  FitIn(text) =>
    /\ \A s \in {pos, pos - Len(linebuf)} : 0 < s /\ s < Len(text) => text[s] = NL
    /\ ~fileend => lineno = IF pos = 0 THEN 0 ELSE LineIn(text, pos)

\* The next buffer keeps the count.
LEMMA TurnNumbers ==
  ASSUME text \in Texts, Buffered, Numbered, gettok
  PROVE  Numbered'
<1>. SUFFICES ASSUME FitIn(text')
     PROVE  /\ \A s \in {pos', pos' - Len(linebuf')} : 0 < s /\ s < Len(text') => text'[s] = NL
            /\ ~fileend' => lineno' = IF pos' = 0 THEN 0 ELSE LineIn(text', pos')
  BY DEF Numbered
<1>0. text \in Seq(Char) /\ Len(text) \in Nat /\ Len(text) + 2 < MaxLineno
      /\ MaxLineno \in Nat \ {0} /\ Width \in Nat \ {0}
  BY ConstAssumption
<1>1. /\ text' = text /\ linebuf' = readc.line /\ lineno' = readc.no /\ pos' = Moved
      /\ fileend' <=> (fileend \/ At = Len(text))
  BY <1>0, TurnReads
<1>2. /\ pos \in 0..Len(text)
      /\ colmno \in 0..Len(linebuf) /\ lineno \in Nat
      /\ linebuf \in Seq(Char) /\ Len(linebuf) <= pos /\ Len(linebuf) \in Nat
  BY DEF Buffered, Piece
<1>3. /\ FitIn(text)
      /\ \A s \in {pos, pos - Len(linebuf)} : 0 < s /\ s < Len(text) => text[s] = NL
      /\ ~fileend => lineno = IF pos = 0 THEN 0 ELSE LineIn(text, pos)
  BY <1>1 DEF Numbered
<1>4. CASE At = Len(text)
  <2>1. readc.line = linebuf /\ Moved = pos  BY <1>0, <1>4, ReadIs
  <2>2. fileend'  BY <1>1, <1>4
  <2>. QED  BY <1>1, <1>3, <2>1, <2>2
<1>5. CASE At # Len(text) /\ colmno < Len(linebuf)
  <2>1. readc = [ch |-> linebuf[colmno + 1], line |-> linebuf, col |-> colmno + 1, no |-> lineno]
    BY <1>5 DEF readc
  <2>2. readc.line = linebuf /\ readc.no = lineno  BY <2>1
  <2>3. Moved = pos
    <3>1. ~(colmno >= Len(linebuf))  BY <1>2, <1>5
    <3>. QED  BY <3>1 DEF Moved
  <2>. QED  BY <1>1, <1>3, <2>2, <2>3
<1>6. CASE At # Len(text) /\ ~(colmno < Len(linebuf))
  <2>0. colmno = Len(linebuf) /\ At = pos /\ pos < Len(text) /\ pos # Len(text)
    BY <1>0, <1>2, <1>6 DEF At
  <2>1. readc = [ch |-> fgets[1], line |-> fgets, col |-> 1, no |-> NextLine]
    BY <1>6, <2>0 DEF readc
  <2>2. readc.ch = fgets[1] /\ readc.line = fgets /\ readc.no = NextLine  BY <2>1
  <2>3. PICK n \in 1..Len(text) - pos :
           /\ fgets \in Seq(Char) /\ Len(fgets) = n
           /\ \A i \in 1..n : fgets[i] = text[pos + i]
           /\ \A i \in 1..n - 1 : text[pos + i] # NL
           /\ n <= Width
           /\ n = Width \/ pos + n = Len(text) \/ text[pos + n] = NL
    BY <1>0, <1>2, <2>0, Fetched
  <2>4. readc.ch # EOF  BY <1>0, <2>0, ReadIs
  <2>5. Moved = pos + n
    <3>1. colmno >= Len(linebuf)  BY <1>2, <2>0
    <3>. QED  BY <2>2, <2>3, <2>4, <3>1 DEF Moved
  <2>6. pos + n \in 1..Len(text) /\ (pos + n) - n = pos  BY <1>0, <1>2
  <2>7. pos + n < Len(text) => text[pos + n] = NL
    <3>. SUFFICES ASSUME pos + n < Len(text), n = Width  PROVE text[pos + n] = NL
      BY <2>3
    <3>1. pos + 1 \in 1..Len(text) - Width  BY <1>0, <1>2
    <3>2. PICK j \in pos + 1..(pos + 1) + Width - 1 : text[j] = NL  BY <1>3, <3>1 DEF FitIn
    <3>3. j - pos \in 1..n /\ pos + (j - pos) = j  BY <1>2
    <3>4. ~(j - pos \in 1..n - 1)  BY <2>3, <3>2, <3>3
    <3>5. j = pos + n  BY <1>2, <3>3, <3>4
    <3>. QED  BY <3>2, <3>5
  <2>8. pos > 0 => text[pos] = NL  BY <1>3, <2>0
  <2>9. \A k \in pos + 1..pos + n - 1 : text[k] # NL
    <3>. TAKE k \in pos + 1..pos + n - 1
    <3>1. k - pos \in 1..n - 1 /\ pos + (k - pos) = k  BY <1>2
    <3>. QED  BY <2>3, <3>1
  <2>10. LineIn(text, pos + n) = LineIn(text, pos + 1)
    <3>1. pos + 1 \in Nat \ {0} /\ pos + n \in Nat /\ pos + 1 <= pos + n  BY <1>2
    <3>2. \A j \in Nat : pos + 1 <= j /\ (\A k \in pos + 1..j - 1 : text[k] # NL)
                           => LineIn(text, j) = LineIn(text, pos + 1)
      BY <3>1, LineIs
    <3>4. (pos + n) - 1 = pos + n - 1  BY <1>2
    <3>3. \A k \in pos + 1..(pos + n) - 1 : text[k] # NL  BY <2>9, <3>4
    <3>. QED  BY <3>1, <3>2, <3>3, Zenon
  <2>11. fileend = FALSE /\ ~fileend'
    <3>1. fileend \in BOOLEAN /\ (fileend => At = Len(text))  BY DEF Buffered
    <3>. QED  BY <1>1, <1>6, <3>1
  <2>12. NextLine = LineIn(text, pos + n)
    <3>1. CASE pos = 0
      <4>1. lineno = 0 /\ pos + 1 = 1  BY <1>3, <2>11, <3>1
      <4>2. NextLine = 1  BY <1>0, <4>1 DEF NextLine
      <4>3. LineIn(text, 1) = 1  BY LineIs
      <4>. QED  BY <2>10, <4>1, <4>2, <4>3
    <3>2. CASE pos # 0
      <4>1. pos \in Nat \ {0} /\ lineno = LineIn(text, pos) /\ text[pos] = NL
        BY <1>2, <1>3, <2>8, <2>11, <3>2
      <4>2. LineIn(text, pos) \in 1..pos /\ LineIn(text, pos + 1) = LineIn(text, pos) + 1
        BY <4>1, LineIs
      <4>3. NextLine = lineno + 1
        <5>1. lineno < MaxLineno  BY <1>0, <1>2, <4>1, <4>2
        <5>. QED  BY <5>1 DEF NextLine
      <4>. QED  BY <2>10, <4>1, <4>2, <4>3
    <3>. QED  BY <3>1, <3>2
  <2>13. pos' = pos + n /\ pos' - Len(linebuf') = pos /\ pos' # 0  BY <1>1, <2>2, <2>3, <2>5, <2>6
  <2>. QED  BY <1>1, <2>2, <2>7, <2>8, <2>11, <2>12, <2>13
<1>. QED  BY <1>4, <1>5, <1>6

-----------------------------------------------------------------------------
(* The invariant                                                           *)

\* What has been returned is what stands at its place.
Told(t, k) ==
  LET l == LexemesIn(t)[1][k]
  IN  /\ Tells(t, l.first, l.last, toks[k].text, toks[k].tok)
      /\ FitIn(t) /\ l.last \in 1..Len(t) - 1 => toks[k].line = LineIn(t, l.last)

\* The lexemes behind those returned are those from i on.
Ahead(t, i) ==
  /\ Len(LexemesIn(t)[1]) = Len(toks) + Len(LexemesIn(t)[i])
  /\ \A k \in 1..Len(LexemesIn(t)[i]) : LexemesIn(t)[1][Len(toks) + k] = LexemesIn(t)[i][k]

Scanning ==
  /\ Buffered /\ Numbered /\ state \in Inside
  /\ \A k \in 1..Len(toks) : Told(text, k)
  /\ \E i \in 1..Len(text) + 1 :
       Ahead(text, i) /\ Begun(text, state, tokbuf, At, SolidIn(text)[i])

\* The machine is behind the n-th lexeme's token and will not go on.
Stopped(n) ==
  /\ n < Len(LexemesIn(text)[1])
  /\ \A k \in 1..n : Told(text, k)
  /\ IF pc = "undefined"
     THEN Len(toks) = n /\ Len(text) - LexemesIn(text)[1][n + 1].first >= MAXTOKSIZE
     ELSE /\ n + 1 = Len(LexemesIn(text)[1])
          /\ LexemesIn(text)[1][n + 1].last = 0
          /\ pc = EndIn(text, LexemesIn(text)[1][n + 1].first)
          /\ Len(toks) = IF pc \in {"ENDFILE", "ERROR"} THEN n + 1 ELSE n

IInv ==
  /\ text \in Texts /\ (\E S : toks \in Seq(S))
  /\ pc = "gettok" => Scanning
  /\ pc # "gettok" => \E n \in Nat : Stopped(n)

LEMMA InitHolds == Init => IInv
<1>. SUFFICES ASSUME Init  PROVE IInv
  OBVIOUS
<1>. USE DEF Init
<1>1. text \in Texts /\ text \in Seq(Char) /\ Len(text) \in Nat  BY ConstAssumption
<1>2. toks \in Seq({})  OBVIOUS
<1>3. Buffered
  <2>1. linebuf \in Seq(Char) /\ Len(linebuf) = 0  OBVIOUS
  <2>2. Piece(text, linebuf, pos)  BY <2>1 DEF Piece
  <2>3. pos \in 0..Len(text) /\ lineno \in Nat /\ fileend = FALSE  BY <1>1
  <2>4. colmno \in 0..Len(linebuf)  BY <2>1
  <2>. QED  BY <2>2, <2>3, <2>4 DEF Buffered
<1>4. Numbered
  <2>1. Len(linebuf) = 0 /\ pos = 0 /\ lineno = 0  OBVIOUS
  <2>3. pos - Len(linebuf) = 0 - 0  BY <2>1, Zenon
  <2>2. pos - Len(linebuf) = 0  BY <2>3, SMT
  <2>. QED  BY <2>1, <2>2 DEF Numbered
<1>5. state \in Inside  BY DEF Inside
<1>6. Len(toks) = 0  OBVIOUS
<1>7. \A k \in 1..Len(toks) : Told(text, k)  BY <1>6
<1>8. 1 \in 1..Len(text) + 1  BY <1>1
<1>9. LexemesIn(text)[1] \in Seq(Place(text))  BY <1>1, <1>8, LexemesType
<1>10. Ahead(text, 1)
  <2>1. \A k \in 1..Len(LexemesIn(text)[1]) : 0 + k = k  OBVIOUS
  <2>2. Len(LexemesIn(text)[1]) = 0 + Len(LexemesIn(text)[1])  BY <1>9
  <2>. QED  BY <1>6, <2>1, <2>2 DEF Ahead
<1>11. At = 0 /\ At + 1 = 1
  <2>1. Len(linebuf) = 0 /\ pos = 0 /\ colmno = 0  OBVIOUS
  <2>2. At = (0 - 0) + 0  BY <2>1 DEF At
  <2>. QED  BY <2>2
<1>12. Begun(text, state, tokbuf, At, SolidIn(text)[1])
  BY <1>11, Zenon DEF Begun
<1>. QED  BY <1>1, <1>2, <1>3, <1>4, <1>5, <1>7, <1>8, <1>10, <1>12 DEF IInv, Scanning

\* What a turn makes of what it saves and names.
LEMMA TurnGives ==
  ASSUME gettok, Len(Saved(readc.ch)) \in Nat
  PROVE  LET ch == readc.ch
         IN  /\ pc = "gettok"
             /\ Transition(ch).to = "PANIC" => pc' = "panic" /\ toks' = toks
             /\ Transition(ch).to # "PANIC" /\ Len(Saved(ch)) > MAXTOKSIZE =>
                  pc' = "undefined" /\ toks' = toks
             /\ Transition(ch).to = "DONE" /\ Len(Saved(ch)) <= MAXTOKSIZE =>
                  /\ toks' = Append(toks, [tok |-> Named(ch), text |-> Saved(ch),
                                           line |-> readc.no])
                  /\ state' = "START" /\ tokbuf' = <<>>
                  /\ pc' = IF Named(ch) \in {"ENDFILE", "ERROR"} THEN Named(ch) ELSE pc
             /\ Transition(ch).to \notin {"PANIC", "DONE"} /\ ~(Len(Saved(ch)) > MAXTOKSIZE) =>
                  state' = Transition(ch).to /\ tokbuf' = Saved(ch) /\ toks' = toks /\ pc' = pc
<1>. DEFINE ch == readc.ch
            to == Transition(ch).to
            buf == Saved(ch)
            tok == Named(ch)
<1>1. /\ pc = "gettok"
      /\ CASE to = "PANIC" -> pc' = "panic" /\ UNCHANGED <<state, tokbuf, toks>>
           [] to # "PANIC" /\ Len(buf) > MAXTOKSIZE ->
                pc' = "undefined" /\ UNCHANGED <<state, tokbuf, toks>>
           [] to = "DONE" /\ Len(buf) <= MAXTOKSIZE ->
                /\ toks' = Append(toks, [tok |-> tok, text |-> buf, line |-> readc.no])
                /\ state' = "START" /\ tokbuf' = <<>>
                /\ pc' = IF tok \in {"ENDFILE", "ERROR"} THEN tok ELSE pc
           [] OTHER -> /\ state' = to /\ tokbuf' = buf
                       /\ UNCHANGED <<toks, pc>>
  BY Zenon DEF gettok, Saved, Named
<1>6. Len(buf) \in Nat /\ MAXTOKSIZE \in Nat  BY ConstAssumption
<1>. HIDE DEF ch, to, buf, tok
<1>2. to = "PANIC" => pc' = "panic" /\ toks' = toks  BY <1>1, <1>6
<1>3. to # "PANIC" /\ Len(buf) > MAXTOKSIZE => pc' = "undefined" /\ toks' = toks  BY <1>1, <1>6
<1>4. to = "DONE" /\ Len(buf) <= MAXTOKSIZE =>
        /\ toks' = Append(toks, [tok |-> tok, text |-> buf, line |-> readc.no])
        /\ state' = "START" /\ tokbuf' = <<>>
        /\ pc' = IF tok \in {"ENDFILE", "ERROR"} THEN tok ELSE pc
  BY <1>1, <1>6
<1>5. to \notin {"PANIC", "DONE"} /\ ~(Len(buf) > MAXTOKSIZE) =>
        state' = to /\ tokbuf' = buf /\ toks' = toks /\ pc' = pc
  BY <1>1, <1>6
<1>. QED  BY <1>1, <1>2, <1>3, <1>4, <1>5 DEF ch, to, buf, tok

\* What is saved is a sequence.
LEMMA SavedType ==
  ASSUME NEW t \in Seq(Char), NEW at \in 0..Len(t), NEW first \in 1..Len(t) + 1, NEW ch,
         state \in Inside, Begun(t, state, tokbuf, at, first)
  PROVE  Len(Saved(ch)) \in Nat
<1>0. Len(t) \in Nat  OBVIOUS
<1>1. tokbuf = <<>> \/ (first <= at /\ tokbuf = Word(t, first, at))
      \/ (first <= at /\ tokbuf = Word(t, first + 1, at))
  <2>1. CASE state \in {"START", "INCMT"}  BY <2>1, Zenon DEF Begun
  <2>2. CASE state \in {"INSTR", "INCHA"}  BY <2>2, Zenon DEF Begun
  <2>3. CASE state \in {"INUNS", "INIDE"}  BY <2>3, Zenon DEF Begun
  <2>4. CASE state \in {"INLES", "INCOM", "INGRE"}
    <3>1. first = at /\ tokbuf = Word(t, first, at)  BY <2>4, Zenon DEF Begun
    <3>. QED  BY <1>0, <3>1
  <2>. QED  BY <2>1, <2>2, <2>3, <2>4 DEF Inside
<1>2. tokbuf \in Seq(Char)
  <2>1. CASE tokbuf = <<>>  BY <2>1
  <2>2. CASE first <= at /\ tokbuf = Word(t, first, at)
    <3>1. at \in first - 1..Len(t)  BY <1>0, <2>2
    <3>2. Word(t, first, at) \in Seq(Char)  BY <3>1, WordIs
    <3>. QED  BY <2>2, <3>2
  <2>3. CASE first <= at /\ tokbuf = Word(t, first + 1, at)
    <3>1. first + 1 \in 1..Len(t) + 1 /\ at \in (first + 1) - 1..Len(t)  BY <1>0, <2>3
    <3>2. Word(t, first + 1, at) \in Seq(Char)  BY <3>1, WordIs
    <3>. QED  BY <2>3, <3>2
  <2>. QED  BY <1>1, <2>1, <2>2, <2>3
<1>3. \A s \in Seq(Char) : s \in Seq(Char \cup {ch}) /\ Append(s, ch) \in Seq(Char \cup {ch})
  OBVIOUS
<1>4. Saved(ch) \in {<<>>, tokbuf, Append(tokbuf, ch)}  BY Zenon DEF Saved
<1>5. Saved(ch) \in Seq(Char \cup {ch})
  <2>1. <<>> \in Seq(Char \cup {ch})  OBVIOUS
  <2>. QED  BY <1>2, <1>3, <1>4, <2>1
<1>. QED  BY <1>5

\* A lexeme's token carries the line on which its last character stands.
LEMMA TurnLine ==
  ASSUME text \in Texts, Buffered, Numbered, gettok, FitIn(text),
         NEW first \in 1..Len(text), NEW last \in 1..Len(text) - 1,
         last \in Ends(text, first), last = Reached(CharAt(text, At), At)
  PROVE  readc.no = LineIn(text, last)
<1>0. text \in Seq(Char) /\ Len(text) \in Nat  BY ConstAssumption
<1>1. /\ text' = text /\ linebuf' = readc.line /\ lineno' = readc.no /\ pos' = Moved
      /\ fileend' <=> (fileend \/ At = Len(text))
  BY <1>0, TurnReads
<1>2. At \in 0..Len(text) /\ readc.ch = CharAt(text, At)  BY <1>0, ReadIs
<1>3. At # Len(text)
  <2>. SUFFICES ASSUME At = Len(text)  PROVE FALSE
    OBVIOUS
  <2>1. CharAt(text, At) = EOF  BY <1>0, <1>2, CharAtIs
  <2>2. last = At  BY <2>1 DEF Reached
  <2>. QED  BY <1>0, <2>2
<1>4. At < Len(text)  BY <1>0, <1>2, <1>3
<1>5. fileend = FALSE /\ ~fileend'
  <2>1. fileend \in BOOLEAN /\ (fileend => At = Len(text))  BY DEF Buffered
  <2>. QED  BY <1>1, <1>3, <2>1
<1>6. /\ Moved \in 1..Len(text)
      /\ Piece(text, readc.line, Moved) /\ readc.col \in 1..Len(readc.line)
      /\ (Moved - Len(readc.line)) + readc.col = At + 1
  BY <1>0, <1>4, ReadIs
<1>. DEFINE buf == readc.line
            begin == Moved - Len(buf)
<1>7. /\ buf \in Seq(Char) /\ Len(buf) \in Nat /\ Len(buf) <= Moved
      /\ \A i \in 1..Len(buf) : buf[i] = text[Moved - Len(buf) + i]
      /\ \A i \in 1..Len(buf) - 1 : buf[i] # NL
  <2>1. Piece(text, buf, Moved)  BY <1>6
  <2>. HIDE DEF buf
  <2>2. buf \in Seq(Char) /\ Len(buf) <= Moved  BY <2>1 DEF Piece
  <2>3. \A i \in 1..Len(buf) : buf[i] = text[Moved - Len(buf) + i]  BY <2>1 DEF Piece
  <2>4. \A i \in 1..Len(buf) - 1 : buf[i] # NL  BY <2>1 DEF Piece
  <2>. QED  BY <2>2, <2>3, <2>4
<1>8. Numbered'  BY TurnNumbers
<1>9. /\ 0 < begin /\ begin < Len(text) => text[begin] = NL
      /\ readc.no = LineIn(text, Moved)
  <2>1. /\ \A s \in {pos', pos' - Len(linebuf')} : 0 < s /\ s < Len(text') => text'[s] = NL
        /\ ~fileend' => lineno' = IF pos' = 0 THEN 0 ELSE LineIn(text', pos')
    BY <1>1, <1>8 DEF Numbered
  <2>. QED  BY <1>1, <1>5, <1>6, <2>1
<1>10. last \in {At, At + 1}  BY DEF Reached
<1>11. last # begin
  <2>. SUFFICES ASSUME last = begin  PROVE FALSE
    OBVIOUS
  <2>1. 0 < begin /\ begin < Len(text)  BY <1>0
  <2>2. text[last] = NL  BY <1>9, <2>1
  <2>. QED  BY <1>0, <2>2, LexemeLast
<1>. HIDE DEF buf
<1>12. last \in begin + 1..Moved /\ begin \in Nat
  <2>1. begin \in Nat /\ readc.col \in 1..Len(buf)  BY <1>6, <1>7 DEF buf
  <2>2. begin + readc.col = At + 1 /\ begin + Len(buf) = Moved  BY <1>6, <1>7 DEF buf
  <2>. QED  BY <1>2, <1>6, <1>7, <1>10, <1>11, <2>1, <2>2
<1>13. \A k \in last..Moved - 1 : text[k] # NL
  <2>. TAKE k \in last..Moved - 1
  <2>1. k - begin \in 1..Len(buf) - 1 /\ begin + (k - begin) = k /\ k - begin \in 1..Len(buf)
    BY <1>6, <1>7, <1>12
  <2>2. buf[k - begin] # NL /\ buf[k - begin] = text[begin + (k - begin)]  BY <1>7, <2>1
  <2>. QED  BY <2>1, <2>2
<1>14. last \in Nat \ {0} /\ Moved \in Nat /\ last <= Moved  BY <1>6, <1>12
<1>15. \A j \in Nat : last <= j /\ (\A k \in last..j - 1 : text[k] # NL)
                        => LineIn(text, j) = LineIn(text, last)
  BY <1>14, LineIs
<1>. HIDE DEF begin
<1>16. LineIn(text, Moved) = LineIn(text, last)  BY <1>13, <1>14, <1>15, Zenon
<1>. QED  BY <1>9, <1>16

LEMMA TurnKeeps ==
  ASSUME IInv, gettok
  PROVE  IInv'
<1>. DEFINE L == LexemesIn(text)[1]
            ch == readc.ch
            at == At
<1>0. PICK n : n = Len(toks)  OBVIOUS
<1>1. text \in Texts /\ text \in Seq(Char) /\ Len(text) \in Nat /\ MAXTOKSIZE \in Nat \ {0}
  BY ConstAssumption DEF IInv
<1>2. pc = "gettok" /\ Scanning  BY DEF gettok, IInv
<1>3. Buffered /\ Numbered /\ state \in Inside /\ \A k \in 1..n : Told(text, k)
  BY <1>0, <1>2 DEF Scanning
<1>4. PICK i \in 1..Len(text) + 1 :
        Ahead(text, i) /\ Begun(text, state, tokbuf, At, SolidIn(text)[i])
  BY <1>2 DEF Scanning
<1>5. PICK S : toks \in Seq(S)  BY DEF IInv
<1>. DEFINE first == SolidIn(text)[i]
            M == LexemesIn(text)[i]
<1>6. first \in i..Len(text) + 1 /\ first \in 1..Len(text) + 1  BY <1>1, SolidIs
<1>7. at \in 0..Len(text) /\ ch = CharAt(text, at)  BY <1>1, <1>3, ReadIs
<1>8. /\ text' = text /\ At' = Reached(ch, at) /\ Buffered' /\ Numbered'
  BY <1>1, <1>3, <1>7, TurnReads, TurnNumbers
<1>9. Len(Saved(ch)) \in Nat  BY <1>1, <1>3, <1>4, <1>6, <1>7, SavedType
<1>10. 1 \in 1..Len(text) + 1  BY <1>1
<1>11. L \in Seq(Place(text)) /\ M \in Seq(Place(text)) \ {<<>>}  BY <1>1, <1>10, LexemesType
<1>12. n \in Nat /\ Len(M) \in Nat \ {0} /\ Len(L) = n + Len(M) /\ n < Len(L)
       /\ L[n + 1] = M[1]
  <2>1. n \in Nat /\ Len(M) \in Nat \ {0}  BY <1>0, <1>5, <1>11
  <2>2. Len(L) = n + Len(M) /\ \A k \in 1..Len(M) : L[n + k] = M[k]  BY <1>0, <1>4 DEF Ahead
  <2>3. 1 \in 1..Len(M)  BY <2>1
  <2>. QED  BY <2>1, <2>2, <2>3
<1>13. M[1].first = first
  <2>1. CASE Ends(text, first) = {}
    <3>1. M[1] = [first |-> first, last |-> 0]  BY <1>1, <2>1, LastLexeme
    <3>. QED  BY <3>1
  <2>2. CASE Ends(text, first) # {}
    <3>1. first \in i..Len(text) /\ Longest(text, first) \in first..Len(text)
      BY <1>1, <2>2, LongestPlace
    <3>2. Longest(text, first) \in 1..Len(text)  BY <1>1, <3>1
    <3>3. M[1] = [first |-> first, last |-> Longest(text, first)]
      BY <1>1, <2>2, <3>2, NextLexeme
    <3>. QED  BY <3>3
  <2>. QED  BY <2>1, <2>2
<1>14. Ends(text, first) = {} => Len(M) = 1 /\ M[1].last = 0
  <2>. SUFFICES ASSUME Ends(text, first) = {}  PROVE Len(M) = 1 /\ M[1].last = 0
    OBVIOUS
  <2>1. Len(M) = 1 /\ M[1] = [first |-> first, last |-> 0]  BY <1>1, LastLexeme
  <2>. QED  BY <2>1
<1>15. /\ Transition(ch).to = "PANIC" => pc' = "panic" /\ toks' = toks
       /\ Transition(ch).to # "PANIC" /\ Len(Saved(ch)) > MAXTOKSIZE =>
            pc' = "undefined" /\ toks' = toks
       /\ Transition(ch).to = "DONE" /\ Len(Saved(ch)) <= MAXTOKSIZE =>
            /\ toks' = Append(toks, [tok |-> Named(ch), text |-> Saved(ch), line |-> readc.no])
            /\ state' = "START" /\ tokbuf' = <<>>
            /\ pc' = IF Named(ch) \in {"ENDFILE", "ERROR"} THEN Named(ch) ELSE pc
       /\ Transition(ch).to \notin {"PANIC", "DONE"} /\ ~(Len(Saved(ch)) > MAXTOKSIZE) =>
            state' = Transition(ch).to /\ tokbuf' = Saved(ch) /\ toks' = toks /\ pc' = pc
  BY <1>9, TurnGives
<1>16. \/ Further(text, first, at, ch) \/ EndsLexeme(text, first, at, ch)
       \/ EndsText(text, first, ch) \/ Panics(text, first, ch)
  BY <1>1, <1>3, <1>4, <1>6, <1>7, Turn
<1>17. Further(text, first, at, ch) =>
         Transition(ch).to \in Inside /\ Transition(ch).to \notin {"PANIC", "DONE"}
  BY DEF Further, Inside
<1>18. text' \in Texts  BY <1>1, <1>8
<1>. HIDE DEF ch, at, L, M, first
<1>19. CASE /\ Further(text, first, at, ch) \/ EndsLexeme(text, first, at, ch)
            /\ Len(Saved(ch)) > MAXTOKSIZE
  <2>1. Len(Saved(ch)) <= Len(text) - first + 1  BY <1>1, <1>6, <1>7, <1>19, Fits
  <2>2. Len(text) - first >= MAXTOKSIZE  BY <1>1, <1>6, <1>9, <1>19, <2>1
  <2>3. Transition(ch).to # "PANIC"  BY <1>17, <1>19 DEF EndsLexeme
  <2>4. pc' = "undefined" /\ toks' = toks  BY <1>15, <1>19, <2>3
  <2>5. Stopped(n)'
    <3>1. LexemesIn(text')[1] = L /\ L[n + 1].first = first  BY <1>8, <1>12, <1>13 DEF L
    <3>2. Len(toks') = n  BY <1>0, <2>4
    <3>3. \A k \in 1..n : Told(text, k)'
      BY <1>3, <1>8, <2>4 DEF Told
    <3>. QED  BY <1>8, <1>12, <2>2, <2>4, <3>1, <3>2, <3>3 DEF Stopped
  <2>. QED  BY <1>5, <1>12, <1>18, <2>4, <2>5 DEF IInv
<1>20. CASE Further(text, first, at, ch) /\ ~(Len(Saved(ch)) > MAXTOKSIZE)
  <2>1. state' = Transition(ch).to /\ tokbuf' = Saved(ch) /\ toks' = toks /\ pc' = pc
    BY <1>15, <1>17, <1>20
  <2>2. state' \in Inside  BY <1>17, <1>20, <2>1
  <2>3. ch # EOF /\ ~Transition(ch).unread
        /\ Begun(text, Transition(ch).to, Saved(ch), at + 1, first)
    BY <1>20, Zenon DEF Further
  <2>4. At' = at + 1  BY <1>8, <2>3 DEF Reached
  <2>5. Begun(text', state', tokbuf', At', SolidIn(text')[i])
    BY <1>8, <2>1, <2>3, <2>4 DEF first
  <2>6. Ahead(text, i)'  BY <1>4, <1>8, <2>1 DEF Ahead
  <2>7. \A k \in 1..Len(toks') : Told(text, k)'  BY <1>0, <1>3, <1>8, <2>1 DEF Told
  <2>8. Scanning'  BY <1>8, <2>2, <2>5, <2>6, <2>7 DEF Scanning
  <2>. QED  BY <1>2, <1>5, <1>18, <2>1, <2>8 DEF IInv
<1>21. CASE EndsLexeme(text, first, at, ch) /\ ~(Len(Saved(ch)) > MAXTOKSIZE)
  <2>0. PICK last : last = Reached(ch, at)  OBVIOUS
  <2>. DEFINE e == [tok |-> Named(ch), text |-> Saved(ch), line |-> readc.no]
  <2>1. /\ Transition(ch).to = "DONE"
        /\ last \in Ends(text, first) /\ Longest(text, first) = last
        /\ Tells(text, first, last, Saved(ch), Named(ch))
        /\ Named(ch) \notin {"ENDFILE", "ERROR"}
    BY <1>21, <2>0, Zenon DEF EndsLexeme
  <2>2. toks' = Append(toks, e) /\ state' = "START" /\ tokbuf' = <<>> /\ pc' = pc
    BY <1>1, <1>9, <1>15, <1>21, <2>1
  <2>3. first \in 1..Len(text) /\ last \in first..Len(text) /\ last \in 1..Len(text)
    BY <1>1, <1>6, <2>1 DEF Ends
  <2>4. /\ Len(M) = 1 + Len(LexemesIn(text)[last + 1])
        /\ M[1] = [first |-> first, last |-> last]
        /\ \A k \in 1..Len(LexemesIn(text)[last + 1]) :
             M[k + 1] = LexemesIn(text)[last + 1][k]
    <3>1. Ends(text, SolidIn(text)[i]) # {} /\ last = Longest(text, SolidIn(text)[i])
      BY <2>1 DEF first
    <3>. QED  BY <1>1, <2>3, <3>1, NextLexeme DEF M, first
  <2>5. last + 1 \in 1..Len(text) + 1  BY <1>1, <2>3
  <2>6. LexemesIn(text)[last + 1] \in Seq(Place(text))  BY <1>1, <2>5, LexemesType
  <2>. HIDE DEF e
  <2>7. toks' \in Seq(S \cup {e}) /\ Len(toks') = n + 1
        /\ toks'[n + 1] = e /\ \A k \in 1..n : toks'[k] = toks[k]
    BY <1>0, <1>5, <2>2
  <2>8. Ahead(text, last + 1)'
    <3>. DEFINE R == LexemesIn(text)[last + 1]
    <3>1. Len(R) \in Nat /\ Len(M) = 1 + Len(R)  BY <2>4, <2>6
    <3>2. Len(L) = (n + 1) + Len(R)
      <4>. HIDE DEF R
      <4>1. n \in Nat /\ Len(L) = n + Len(M)  BY <1>12
      <4>. QED  BY <3>1, <4>1
    <3>3. ASSUME NEW k \in 1..Len(R)  PROVE L[(n + 1) + k] = R[k]
      <4>1. \A j \in 1..Len(M) : L[n + j] = M[j]  BY <1>0, <1>4 DEF Ahead, L, M
      <4>2. k + 1 \in 1..Len(M) /\ n + (k + 1) = (n + 1) + k  BY <1>12, <3>1
      <4>3. M[k + 1] = R[k]  BY <2>4
      <4>. QED  BY <4>1, <4>2, <4>3
    <3>. HIDE DEF R
    <3>4. Len(toks') = n + 1 /\ LexemesIn(text')[1] = L  BY <1>8, <2>7 DEF L
    <3>5. LexemesIn(text')[last + 1] = R  BY <1>8 DEF R
    <3>. QED  BY <3>2, <3>3, <3>4, <3>5 DEF Ahead
  <2>9. ASSUME NEW k \in 1..n  PROVE Told(text, k)'
    <3>1. Told(text, k) /\ toks'[k] = toks[k]  BY <1>3, <2>7
    <3>. QED  BY <1>8, <3>1 DEF Told
  <2>10. Told(text, n + 1)'
    <3>1. LexemesIn(text')[1][n + 1] = [first |-> first, last |-> last]
      BY <1>8, <1>12, <2>4 DEF L
    <3>2. /\ toks'[n + 1].tok = Named(ch) /\ toks'[n + 1].text = Saved(ch)
          /\ toks'[n + 1].line = readc.no
      BY <2>7 DEF e
    <3>3. FitIn(text) /\ last \in 1..Len(text) - 1 => readc.no = LineIn(text, last)
      <4>. SUFFICES ASSUME FitIn(text), last \in 1..Len(text) - 1
           PROVE readc.no = LineIn(text, last)
        OBVIOUS
      <4>1. last = Reached(CharAt(text, At), At)  BY <1>7, <2>0 DEF at
      <4>. QED  BY <1>1, <1>3, <2>1, <2>3, <4>1, TurnLine
    <3>4. LexemesIn(text')[1][n + 1].first = first /\ LexemesIn(text')[1][n + 1].last = last
      BY <3>1
    <3>. QED  BY <1>8, <2>1, <3>2, <3>3, <3>4 DEF Told
  <2>11. \A k \in 1..Len(toks') : Told(text, k)'
    <3>. TAKE k \in 1..Len(toks')
    <3>1. k \in 1..n \/ k = n + 1  BY <1>12, <2>7
    <3>. QED  BY <2>9, <2>10, <3>1
  <2>12. Begun(text', state', tokbuf', At', SolidIn(text')[last + 1])
    <3>1. At' = last /\ state' = "START" /\ tokbuf' = <<>> /\ text' = text
      BY <1>8, <2>0, <2>2
    <3>2. Begun(text, "START", <<>>, last, SolidIn(text)[last + 1])  BY Zenon DEF Begun
    <3>. QED  BY <3>1, <3>2
  <2>13. state' \in Inside  BY <2>2 DEF Inside
  <2>14. Scanning'  BY <1>8, <2>5, <2>8, <2>11, <2>12, <2>13 DEF Scanning
  <2>. QED  BY <1>2, <1>18, <2>2, <2>7, <2>14 DEF IInv
<1>22. CASE EndsText(text, first, ch)
  <2>. DEFINE e == [tok |-> Named(ch), text |-> Saved(ch), line |-> readc.no]
  <2>1. /\ Transition(ch).to = "DONE" /\ Ends(text, first) = {}
        /\ Named(ch) \in {"ENDFILE", "ERROR"} /\ Named(ch) = EndIn(text, first)
        /\ Saved(ch) \in {<<>>, <<ch>>}
    BY <1>22, Zenon DEF EndsText
  <2>2. Len(Saved(ch)) <= MAXTOKSIZE
    <3>1. Len(<<>>) = 0 /\ Len(<<ch>>) = 1  OBVIOUS
    <3>2. Len(Saved(ch)) \in {0, 1}  BY <2>1, <3>1
    <3>. QED  BY <1>1, <3>2
  <2>3. toks' = Append(toks, e) /\ pc' = Named(ch)  BY <1>15, <2>1, <2>2
  <2>. HIDE DEF e
  <2>4. toks' \in Seq(S \cup {e}) /\ Len(toks') = n + 1 /\ \A k \in 1..n : toks'[k] = toks[k]
    BY <1>0, <1>5, <2>3
  <2>5. ASSUME NEW k \in 1..n  PROVE Told(text, k)'
    <3>1. Told(text, k) /\ toks'[k] = toks[k]  BY <1>3, <2>4
    <3>. QED  BY <1>8, <3>1 DEF Told
  <2>6. /\ LexemesIn(text')[1] = L /\ L[n + 1].first = first
        /\ L[n + 1].last = 0 /\ Len(L) = n + 1
    BY <1>8, <1>12, <1>13, <1>14, <2>1 DEF L
  <2>7. pc' # "undefined" /\ pc' # "gettok" /\ pc' \in {"ENDFILE", "ERROR"}  BY <2>1, <2>3
  <2>8. pc' = EndIn(text', L[n + 1].first)  BY <1>8, <2>1, <2>3, <2>6
  <2>9. Stopped(n)'  BY <1>12, <2>4, <2>5, <2>6, <2>7, <2>8 DEF Stopped
  <2>. QED  BY <1>12, <1>18, <2>4, <2>7, <2>9 DEF IInv
<1>23. CASE Panics(text, first, ch)
  <2>1. Transition(ch).to = "PANIC" /\ Ends(text, first) = {} /\ EndIn(text, first) = "panic"
    BY <1>23, Zenon DEF Panics
  <2>2. pc' = "panic" /\ toks' = toks  BY <1>15, <2>1
  <2>3. /\ LexemesIn(text')[1] = L /\ L[n + 1].first = first
        /\ L[n + 1].last = 0 /\ Len(L) = n + 1
    BY <1>8, <1>12, <1>13, <1>14, <2>1 DEF L
  <2>4. ASSUME NEW k \in 1..n  PROVE Told(text, k)'
    BY <1>3, <1>8, <2>2 DEF Told
  <2>5. pc' # "undefined" /\ pc' # "gettok" /\ pc' \notin {"ENDFILE", "ERROR"}  BY <2>2
  <2>6. pc' = EndIn(text', L[n + 1].first)  BY <1>8, <2>1, <2>2, <2>3
  <2>7. Len(toks') = n  BY <1>0, <2>2
  <2>8. Stopped(n)'  BY <1>12, <2>3, <2>4, <2>5, <2>6, <2>7 DEF Stopped
  <2>. QED  BY <1>5, <1>12, <1>18, <2>2, <2>5, <2>8 DEF IInv
<1>24. Len(Saved(ch)) > MAXTOKSIZE \/ ~(Len(Saved(ch)) > MAXTOKSIZE)  OBVIOUS
<1>. QED  BY <1>16, <1>19, <1>20, <1>21, <1>22, <1>23, <1>24

\* Nothing of the invariant changes when nothing does.
LEMMA StutterKeeps ==
  ASSUME IInv, UNCHANGED vars
  PROVE  IInv'
<1>. USE DEF vars
<1>1. At' = At  BY DEF At
<1>2. Buffered' = Buffered  BY <1>1 DEF Buffered, Piece
<1>3. Numbered' = Numbered  BY DEF Numbered
<1>4. \A k : Told(text, k)' = Told(text, k)  BY DEF Told
<1>5. \A i : Ahead(text, i)' = Ahead(text, i)  BY DEF Ahead
<1>6. Scanning' = Scanning  BY <1>1, <1>2, <1>3, <1>4, <1>5 DEF Scanning
<1>7. \A n : Stopped(n)' = Stopped(n)  BY <1>4 DEF Stopped
<1>. QED  BY <1>6, <1>7 DEF IInv

LEMMA Inductive == Spec => []IInv
<1>1. Init => IInv  BY InitHolds
<1>2. IInv /\ [Next]_vars => IInv'  BY TurnKeeps, StutterKeeps DEF Next
<1>. QED  BY <1>1, <1>2, PTL DEF Spec

-----------------------------------------------------------------------------
(* What is returned                                                        *)

\* Of a stopped machine, the lexemes and how many of the tokens are theirs.
LEMMA StoppedIs ==
  ASSUME NEW n \in Nat, Stopped(n), pc # "gettok", text \in Texts
  PROVE  /\ n < Len(Lexemes[1]) /\ \A k \in 1..n : Told(text, k)
         /\ n = IF pc \in {"ENDFILE", "ERROR"} THEN Len(toks) - 1 ELSE Len(toks)
         /\ IF pc = "undefined"
            THEN Len(text) - Lexemes[1][n + 1].first >= MAXTOKSIZE
            ELSE /\ n + 1 = Len(Lexemes[1]) /\ Lexemes[1][n + 1].last = 0
                 /\ pc = EndIn(text, Lexemes[1][n + 1].first)
<1>1. Lexemes[1] = LexemesIn(text)[1]  BY OfText
<1>. DEFINE L == Lexemes[1]
<1>2. n < Len(L) /\ \A k \in 1..n : Told(text, k)  BY <1>1 DEF Stopped
<1>3. CASE pc = "undefined"
  <2>1. Len(toks) = n /\ Len(text) - L[n + 1].first >= MAXTOKSIZE
    BY <1>1, <1>3 DEF Stopped
  <2>. QED  BY <1>2, <1>3, <2>1
<1>4. CASE pc # "undefined"
  <2>1. /\ n + 1 = Len(L) /\ L[n + 1].last = 0 /\ pc = EndIn(text, L[n + 1].first)
        /\ Len(toks) = IF pc \in {"ENDFILE", "ERROR"} THEN n + 1 ELSE n
    BY <1>1, <1>4 DEF Stopped
  <2>2. n = IF pc \in {"ENDFILE", "ERROR"} THEN Len(toks) - 1 ELSE Len(toks)  BY <2>1
  <2>. QED  BY <1>2, <1>4, <2>1, <2>2
<1>. QED  BY <1>3, <1>4

\* However the text is cut into lines and buffers, what gettok has returned
\* when it is not called again are the longest lexemes of the text, each with
\* its spelling and its token, in their order; and what ended the run is what
\* stands behind the last of them, or a lexeme that tokbuf does not hold.
THEOREM TokensAreTheLexemes == Spec => []TokensAreLexemes
<1>1. IInv => TokensAreLexemes
  <2>. SUFFICES ASSUME IInv, pc # "gettok"  PROVE TokensAreLexemes
    BY DEF TokensAreLexemes
  <2>1. PICK n \in Nat : Stopped(n)  BY DEF IInv
  <2>2. text \in Texts  BY DEF IInv
  <2>. DEFINE L == Lexemes[1]
  <2>3. /\ n < Len(L) /\ \A k \in 1..n : Told(text, k)
        /\ n = IF pc \in {"ENDFILE", "ERROR"} THEN Len(toks) - 1 ELSE Len(toks)
        /\ IF pc = "undefined"
           THEN Len(text) - L[n + 1].first >= MAXTOKSIZE
           ELSE n + 1 = Len(L) /\ pc = EndIn(text, L[n + 1].first)
    BY <2>1, <2>2, StoppedIs
  <2>4. LexemesIn(text)[1] = L  BY OfText
  <2>. HIDE DEF L
  <2>5. ASSUME NEW k \in 1..n
        PROVE  LET s == Between(L[k].first, L[k].last)
               IN  /\ toks[k].text = Unquoted(s)
                   /\ toks[k].tok \in TokensOf(s) \/ "SYMBOL" \in TokensOf(s)
    <3>1. Tells(text, L[k].first, L[k].last, toks[k].text, toks[k].tok)
      BY <2>3, <2>4 DEF Told
    <3>. QED  BY <3>1, Zenon DEF Tells, Word, Between
  <2>6. \A i : EndIn(text, i) = EndAt(i)  BY DEF EndIn, EndAt, Size
  <2>. QED  BY <2>3, <2>5, <2>6 DEF TokensAreLexemes, L, Size
<1>. QED  BY <1>1, Inductive, PTL

\* A token that a character follows carries the line its last character
\* stands on, in every text whose lines fit the buffer (readc, toklineno).
THEOREM LinesAreCounted == Spec => []LinesCounted
<1>1. IInv => LinesCounted
  <2>. SUFFICES ASSUME IInv, pc # "gettok", LinesFit  PROVE LinesCounted
    BY DEF LinesCounted
  <2>1. PICK n \in Nat : Stopped(n)  BY DEF IInv
  <2>2. text \in Texts  BY DEF IInv
  <2>. DEFINE L == Lexemes[1]
  <2>3. /\ \A k \in 1..n : Told(text, k)
        /\ n = IF pc \in {"ENDFILE", "ERROR"} THEN Len(toks) - 1 ELSE Len(toks)
        /\ pc # "undefined" => L[n + 1].last = 0
    BY <2>1, <2>2, StoppedIs
  <2>4. LexemesIn(text)[1] = L /\ FitIn(text)  BY OfText DEF LinesFit, FitIn, Size
  <2>. HIDE DEF L
  <2>5. PICK S : toks \in Seq(S)  BY DEF IInv
  <2>6. ASSUME NEW k \in DOMAIN toks, L[k].last \in 1..Len(text) - 1
        PROVE  toks[k].line = LineOf(L[k].last)
    <3>1. k \in 1..Len(toks) /\ Len(toks) \in Nat  BY <2>5
    <3>2. k \in 1..n \/ (k = n + 1 /\ pc # "undefined")  BY <2>3, <3>1
    <3>3. CASE k = n + 1 /\ pc # "undefined"
      <4>1. L[k].last = 0  BY <2>3, <3>3
      <4>. QED  BY <2>6, <4>1
    <3>4. CASE k \in 1..n
      <4>1. toks[k].line = LineIn(text, L[k].last)  BY <2>3, <2>4, <2>6, <3>4 DEF Told
      <4>. QED  BY <4>1 DEF LineIn, LineOf, Feeds
    <3>. QED  BY <3>2, <3>3, <3>4
  <2>. QED  BY <2>6 DEF LinesCounted, L, Size
<1>. QED  BY <1>1, Inductive, PTL
=============================================================================
