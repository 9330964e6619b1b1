----------------------------- MODULE MCScanner -----------------------------
(* Small instances of Scanner for TLC: every text of up to four characters *)
(* that take the machine through all its states.                           *)
EXTENDS Scanner

Alphabet == {"a", "0", "=", "<", ":", ">", "{", "}", Quote, DQuote, NL, "?"}
ShortTexts == UNION {[1..n -> Alphabet] : n \in 0..4}
Reserved == {<<"a", "a">>}
=============================================================================
