---------------------------- MODULE TextsProofs ----------------------------
(***************************************************************************)
(* What TrimSpace computes, for texts of any length: the facts the proofs  *)
(* about ids and about the configuration rest on.                          *)
(***************************************************************************)
EXTENDS Texts, SequenceTheorems, WellFoundedInduction, TLAPS

\* A nonempty set of natural numbers has a least element.
LEMMA LeastElement ==
  ASSUME NEW T, T \subseteq Nat, T # {}
  PROVE  \E m \in T : \A n \in T : m <= n
<1>1. PICK m \in T : \A n \in T : ~ (<<n, m>> \in OpToRel(<, Nat))
  BY NatLessThanWellFounded, WFMin
<1>2. ASSUME NEW n \in T  PROVE m <= n
  <2>1. m \in Nat /\ n \in Nat  BY <1>2
  <2>2. <<n, m>> \in Nat \X Nat  BY <2>1
  <2>3. ~ (n < m)  BY <1>1, <1>2, <2>2 DEF OpToRel
  <2> QED  BY <2>1, <2>3
<1> QED  BY <1>2

\* A nonempty set of numbers up to a bound has a greatest element.
LEMMA GreatestElement ==
  ASSUME NEW k \in Nat, NEW T, T \subseteq 1 .. k, T # {}
  PROVE  \E m \in T : \A n \in T : n <= m
<1> DEFINE D == {k - n : n \in T}
<1>1. D \subseteq Nat /\ D # {}
  <2>1. \A n \in T : n \in Nat /\ n <= k  OBVIOUS
  <2>2. \A n \in T : k - n \in Nat  BY <2>1
  <2> QED  BY <2>2
<1>2. PICK d \in D : \A e \in D : d <= e  BY <1>1, LeastElement
<1>3. PICK m \in T : d = k - m  BY <1>2
<1>4. \A n \in T : k - m <= k - n  BY <1>2, <1>3
<1> QED  BY <1>3, <1>4

-----------------------------------------------------------------------------
\* Where a text has ink.

Ink(text) == {i \in DOMAIN text : text[i] # Blank}

\* The places of a text that has ink include a first and a last one.
LEMMA InkHasEnds ==
  ASSUME NEW text \in Text, Ink(text) # {}
  PROVE  \E lo, hi \in Ink(text) :
            /\ \A i \in Ink(text) : lo <= i /\ i <= hi
            /\ lo \in 1 .. Len(text) /\ hi \in 1 .. Len(text) /\ lo <= hi
<1>1. Len(text) \in Nat /\ DOMAIN text = 1 .. Len(text)  BY LenProperties DEF Text
<1>2. Ink(text) \subseteq 1 .. Len(text) /\ Ink(text) \subseteq Nat  BY <1>1 DEF Ink
<1>3. PICK lo \in Ink(text) : \A i \in Ink(text) : lo <= i  BY <1>2, LeastElement
<1>4. PICK hi \in Ink(text) : \A i \in Ink(text) : i <= hi  BY <1>1, <1>2, GreatestElement
<1> QED  BY <1>2, <1>3, <1>4

\* TrimSpace cuts a text at its first and last ink.
LEMMA TrimSpaceCuts ==
  ASSUME NEW text, NEW lo \in Ink(text), NEW hi \in Ink(text), Ink(text) \subseteq Int,
         \A i \in Ink(text) : lo <= i /\ i <= hi
  PROVE  TrimSpace(text) = SubSeq(text, lo, hi)
<1> DEFINE ink == Ink(text)
           first == CHOOSE i \in ink : \A j \in ink : i <= j
           last == CHOOSE i \in ink : \A j \in ink : j <= i
<1>1. TrimSpace(text) = SubSeq(text, first, last)  BY DEF TrimSpace, Ink
<1>2. first \in ink /\ \A j \in ink : first <= j  OBVIOUS
<1>3. last \in ink /\ \A j \in ink : j <= last  OBVIOUS
<1> HIDE DEF ink, first, last
<1>4. first <= lo /\ lo <= first /\ last <= hi /\ hi <= last
      /\ {first, last, lo, hi} \subseteq Int
  BY <1>2, <1>3 DEF ink
<1>5. first = lo /\ last = hi  BY <1>4
<1> QED  BY <1>1, <1>5

\* A text without ink is trimmed to nothing.
LEMMA BlankTrimsAway ==
  ASSUME NEW text, Ink(text) = {}
  PROVE  TrimSpace(text) = <<>>
BY DEF TrimSpace, Ink

\* A text with ink at both ends.
Trimmed(text) == text \in Text /\ text # <<>> /\ text[1] # Blank /\ text[Len(text)] # Blank

\* TrimSpace returns nothing, if there is no ink, or a text with ink at both
\* ends whose characters are all characters of the argument.
LEMMA TrimSpaceTrims ==
  ASSUME NEW text \in Text
  PROVE  /\ TrimSpace(text) \in Text
         /\ TrimSpace(text) # <<>> => Trimmed(TrimSpace(text))
         /\ TrimSpace(text) = <<>> <=> Ink(text) = {}
         /\ \A i \in DOMAIN TrimSpace(text) :
               \E j \in DOMAIN text : TrimSpace(text)[i] = text[j]
<1>1. CASE Ink(text) = {}
  <2>1. TrimSpace(text) = <<>>  BY <1>1, BlankTrimsAway
  <2> QED  BY <1>1, <2>1, EmptySeq DEF Text
<1>2. CASE Ink(text) # {}
  <2>2. text \in Seq(Chars) /\ Len(text) \in Nat /\ DOMAIN text = 1 .. Len(text)
    BY LenProperties DEF Text
  <2>3. PICK lo \in Ink(text), hi \in Ink(text) :
            /\ \A i \in Ink(text) : lo <= i /\ i <= hi
            /\ lo \in 1 .. Len(text) /\ hi \in 1 .. Len(text) /\ lo <= hi
    BY <1>2, InkHasEnds
  <2>4. Ink(text) \subseteq Int  BY <2>2 DEF Ink
  <2>5. TrimSpace(text) = SubSeq(text, lo, hi)  BY <2>3, <2>4, TrimSpaceCuts
  <2>7. text[lo] # Blank /\ text[hi] # Blank  BY DEF Ink
  <2> DEFINE sub == SubSeq(text, lo, hi)
  <2>8. \A i \in lo .. hi : text[i] \in Chars  BY <2>2, <2>3, ElementOfSeq
  <2>9. lo \in Int /\ hi \in Int  BY <2>2, <2>3
  <2>10. /\ sub \in Seq(Chars)
         /\ Len(sub) = hi - lo + 1
         /\ \A i \in 1 .. hi - lo + 1 : sub[i] = text[lo + i - 1]
    BY <2>3, <2>8, <2>9, SubSeqProperties
  <2> HIDE DEF sub
  <2>11. DOMAIN sub = 1 .. hi - lo + 1  BY <2>10, LenProperties
  <2>12. sub # <<>>  BY <2>3, <2>9, <2>10, EmptySeq
  <2>13. 1 \in 1 .. hi - lo + 1 /\ lo + 1 - 1 = lo  BY <2>3, <2>9
  <2>14. hi - lo + 1 \in 1 .. hi - lo + 1 /\ lo + (hi - lo + 1) - 1 = hi  BY <2>3, <2>9
  <2>15. sub[1] = text[lo]  BY <2>10, <2>13
  <2>16. sub[Len(sub)] = text[hi]  BY <2>10, <2>14
  <2>17. Trimmed(sub)  BY <2>7, <2>10, <2>12, <2>15, <2>16 DEF Trimmed, Text
  <2>18. ASSUME NEW i \in 1 .. hi - lo + 1
         PROVE  lo + i - 1 \in DOMAIN text /\ sub[i] = text[lo + i - 1]
    BY <2>2, <2>3, <2>10
  <2> QED  BY <1>2, <2>5, <2>10, <2>11, <2>12, <2>17, <2>18 DEF sub, Text
<1> QED  BY <1>1, <1>2

\* TrimSpace returns a text that has ink at both ends as it is.
LEMMA TrimmedStays ==
  ASSUME NEW text, Trimmed(text)
  PROVE  TrimSpace(text) = text
<1>1. text \in Seq(Chars) /\ Len(text) \in Nat \ {0} /\ DOMAIN text = 1 .. Len(text)
  BY LenProperties, EmptySeq DEF Text, Trimmed
<1>2. 1 \in Ink(text) /\ Len(text) \in Ink(text)  BY <1>1 DEF Trimmed, Ink
<1>3. Ink(text) \subseteq Int /\ \A i \in Ink(text) : 1 <= i /\ i <= Len(text)
  BY <1>1 DEF Ink
<1>4. TrimSpace(text) = SubSeq(text, 1, Len(text))  BY <1>2, <1>3, TrimSpaceCuts
<1> QED  BY <1>1, <1>4, SubSeqFull

\* TrimSpace trims for good.
LEMMA TrimSpaceTwice ==
  ASSUME NEW text \in Text
  PROVE  TrimSpace(TrimSpace(text)) = TrimSpace(text)
<1>1. CASE TrimSpace(text) = <<>>
  <2>1. Ink(<<>>) = {}  BY DEF Ink
  <2> QED  BY <1>1, <2>1, BlankTrimsAway
<1>2. CASE TrimSpace(text) # <<>>  BY <1>2, TrimSpaceTrims, TrimmedStays
<1> QED  BY <1>1, <1>2

\* It makes no difference to TrimSpace if some of the blanks at the ends were
\* cut off before.
LEMMA TrimSpaceOfPart ==
  ASSUME NEW text \in Text, NEW a \in 1 .. Len(text), NEW b \in a .. Len(text),
         \A i \in Ink(text) : a <= i /\ i <= b
  PROVE  TrimSpace(SubSeq(text, a, b)) = TrimSpace(text)
<1> DEFINE part == SubSeq(text, a, b)
<1>1. /\ text \in Seq(Chars) /\ Len(text) \in Nat /\ DOMAIN text = 1 .. Len(text)
      /\ a \in Int /\ b \in Int /\ a <= b /\ b <= Len(text) /\ 1 <= a
  BY LenProperties DEF Text
<1>2. \A i \in a .. b : text[i] \in Chars  BY <1>1, ElementOfSeq
<1>3. /\ part \in Seq(Chars) /\ Len(part) = b - a + 1
      /\ \A i \in 1 .. b - a + 1 : part[i] = text[a + i - 1]
  BY <1>1, <1>2, SubSeqProperties
<1> HIDE DEF part
<1>4. DOMAIN part = 1 .. b - a + 1 /\ part \in Text  BY <1>3, LenProperties DEF Text
<1>5. \A i \in Ink(part) : i \in Int /\ a + i - 1 \in Ink(text)
  BY <1>1, <1>3, <1>4 DEF Ink
<1>6. ASSUME NEW i \in Ink(text)  PROVE i \in Int /\ i - a + 1 \in Ink(part)
  <2>1. i \in Int /\ i \in DOMAIN text /\ text[i] # Blank  BY <1>1 DEF Ink
  <2>2. i - a + 1 \in 1 .. b - a + 1 /\ a + (i - a + 1) - 1 = i  BY <1>1, <2>1
  <2> QED  BY <1>3, <1>4, <2>1, <2>2 DEF Ink
<1>7. CASE Ink(text) = {}
  <2>1. Ink(part) = {}  BY <1>5, <1>7
  <2> QED  BY <1>7, <2>1, BlankTrimsAway DEF part
<1>8. CASE Ink(text) # {}
  <2>1. PICK lo \in Ink(text), hi \in Ink(text) :
            /\ \A i \in Ink(text) : lo <= i /\ i <= hi
            /\ lo \in 1 .. Len(text) /\ hi \in 1 .. Len(text) /\ lo <= hi
    BY <1>8, InkHasEnds
  <2> DEFINE m == lo - a + 1
             n == hi - a + 1
  <2>2. lo \in Int /\ hi \in Int /\ a <= lo /\ hi <= b /\ Ink(text) \subseteq Int
    BY <1>1, <1>6, <2>1
  <2>3. m \in Ink(part) /\ n \in Ink(part)  BY <1>6
  <2>4. Ink(part) \subseteq Int  BY <1>5
  <2>5. ASSUME NEW i \in Ink(part)  PROVE m <= i /\ i <= n
    <3>1. i \in Int /\ lo <= a + i - 1 /\ a + i - 1 <= hi  BY <1>5, <2>1
    <3> QED  BY <1>1, <2>2, <3>1
  <2>6. m \in 1 .. b - a + 1 /\ n \in 1 .. b - a + 1 /\ a + m - 1 = lo /\ a + n - 1 = hi
    BY <1>1, <2>1, <2>2
  <2> HIDE DEF m, n
  <2>7. TrimSpace(part) = SubSeq(part, m, n)  BY <2>3, <2>4, <2>5, TrimSpaceCuts
  <2>8. SubSeq(SubSeq(text, a, b), m, n) = SubSeq(text, a + m - 1, a + n - 1)
    <3>1. a \in 1 .. Len(text) /\ b \in 1 .. Len(text)  BY <1>1
    <3> QED  BY <1>1, <2>6, <3>1, SubSeqOfSubSeq
  <2>9. TrimSpace(text) = SubSeq(text, lo, hi)  BY <2>1, <2>2, TrimSpaceCuts
  <2> QED  BY <2>6, <2>7, <2>8, <2>9 DEF part
<1> QED  BY <1>7, <1>8

=============================================================================
