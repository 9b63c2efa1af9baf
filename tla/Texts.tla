------------------------------- MODULE Texts -------------------------------
(***************************************************************************)
(* Texts, as ids and settings are: sequences of characters, of which only  *)
(* a few matter (or of words, where what is inside a word does not).       *)
(***************************************************************************)
EXTENDS Integers, Sequences

CONSTANTS
    Chars,  \* what texts are made of
    Blank   \* white space

Text == Seq(Chars)

\* strings.TrimSpace.
TrimSpace(text) ==
    LET ink == {i \in DOMAIN text : text[i] # Blank}
    IN  IF ink = {}
        THEN <<>>
        ELSE SubSeq(text, CHOOSE i \in ink : \A j \in ink : i <= j,
                          CHOOSE i \in ink : \A j \in ink : j <= i)

=============================================================================
