-------------------------- MODULE TokenAuthProofs --------------------------
(***************************************************************************)
(* Proofs about TokenAuth, for every set of ids and every lifetime: first  *)
(* what TrimSpace and ParseAppGroup compute, then that the tokens the      *)
(* service issues admit their users, and not for too long.                 *)
(***************************************************************************)
EXTENDS TokenAuth, TextsProofs

-----------------------------------------------------------------------------
\* Texts.

\* A text with no separator in it.
Plain(text) == \A i \in DOMAIN text : text[i] # Colon

\* The id of an app and a user.
Joined(app, user) == app \o <<Colon>> \o user

\* Where the app, the separator and the user are in it.
LEMMA JoinedPlaces ==
  ASSUME NEW app \in Text, NEW user \in Text
  PROVE  LET id == Joined(app, user)
             n  == Len(app)
             k  == Len(user)
         IN  /\ n \in Nat /\ k \in Nat
             /\ id \in Text /\ Len(id) = n + 1 + k
             /\ \A i \in 1 .. n : id[i] = app[i]
             /\ id[n + 1] = Colon
             /\ \A i \in 1 .. k : id[n + 1 + i] = user[i]
             /\ \A i \in 1 .. n : SubSeq(id, i, n) = SubSeq(app, i, n)
             /\ \A i \in 1 .. k : SubSeq(id, n + 2, n + 1 + i) = SubSeq(user, 1, i)
<1> DEFINE head == app \o <<Colon>>
           id == head \o user
           n == Len(app)
           k == Len(user)
<1>1. /\ app \in Seq(Chars) /\ n \in Nat /\ user \in Seq(Chars) /\ k \in Nat
  BY LenProperties DEF Text
<1>2. <<Colon>> \in Seq(Chars) /\ Len(<<Colon>>) = 1 /\ <<Colon>>[1] = Colon
  BY TextAssumption
<1> HIDE DEF n, k
<1>3. /\ head \in Seq(Chars) /\ Len(head) = n + 1
      /\ \A i \in 1 .. n + 1 : head[i] = IF i <= n THEN app[i] ELSE <<Colon>>[i - n]
      /\ \A i \in 1 .. n : SubSeq(head, i, n) = SubSeq(app, i, n)
  <2>1. \A i \in 1 .. n : SubSeq(head, i, n) = SubSeq(app, i, n)
    <3> SUFFICES ASSUME NEW i \in 1 .. n  PROVE SubSeq(head, i, n) = SubSeq(app, i, n)
      OBVIOUS
    <3>1. i \in 1 .. Len(app) /\ n \in 1 .. Len(app)  BY <1>1 DEF n
    <3> QED  BY <1>1, <1>2, <3>1, SubSeqOfConcat1
  <2> QED  BY <1>1, <1>2, <2>1, ConcatProperties DEF n
<1> HIDE DEF head
<1>4. /\ id \in Seq(Chars) /\ Len(id) = n + 1 + k
      /\ \A i \in 1 .. n + 1 + k : id[i] = IF i <= n + 1 THEN head[i] ELSE user[i - (n + 1)]
  <2>2. /\ id \in Seq(Chars) /\ Len(id) = Len(head) + Len(user)
        /\ \A i \in 1 .. Len(head) + Len(user) :
              id[i] = IF i <= Len(head) THEN head[i] ELSE user[i - Len(head)]
    BY <1>1, <1>3, ConcatProperties
  <2> QED  BY <1>3, <2>2 DEF k
<1>5. ASSUME NEW i \in 1 .. n  PROVE SubSeq(id, i, n) = SubSeq(app, i, n)
  <2>1. i \in 1 .. Len(head) /\ n \in 1 .. Len(head)  BY <1>1, <1>3
  <2>2. SubSeq(id, i, n) = SubSeq(head, i, n)  BY <1>1, <1>3, <2>1, SubSeqOfConcat1
  <2> QED  BY <1>3, <2>2
<1>6. ASSUME NEW i \in 1 .. k  PROVE SubSeq(id, n + 2, n + 1 + i) = SubSeq(user, 1, i)
  <2>1. /\ n + 2 \in Len(head) + 1 .. Len(head) + Len(user)
        /\ n + 1 + i \in Len(head) + 1 .. Len(head) + Len(user)
        /\ n + 2 - Len(head) = 1 /\ n + 1 + i - Len(head) = i
    BY <1>1, <1>3 DEF k
  <2>2. SubSeq(id, n + 2, n + 1 + i) = SubSeq(user, n + 2 - Len(head), n + 1 + i - Len(head))
    BY <1>1, <1>3, <2>1, SubSeqOfConcat2
  <2> QED  BY <2>1, <2>2
<1> HIDE DEF id
<1>7. \A i \in 1 .. n : id[i] = app[i]  BY <1>1, <1>3, <1>4
<1>8. id[n + 1] = Colon
  <2>1. n + 1 \in 1 .. n + 1 /\ n + 1 \in 1 .. n + 1 + k /\ ~ (n + 1 <= n) /\ n + 1 - n = 1
    BY <1>1
  <2>2. id[n + 1] = head[n + 1]  BY <1>1, <1>4, <2>1
  <2>3. head[n + 1] = <<Colon>>[n + 1 - n]  BY <1>1, <1>3, <2>1
  <2> QED  BY <1>2, <2>1, <2>2, <2>3
<1>9. ASSUME NEW i \in 1 .. k  PROVE id[n + 1 + i] = user[i]
  <2>1. n + 1 + i \in 1 .. n + 1 + k /\ ~ (n + 1 + i <= n + 1) /\ n + 1 + i - (n + 1) = i
    BY <1>1
  <2>2. id[n + 1 + i] = user[n + 1 + i - (n + 1)]  BY <1>1, <1>4, <2>1
  <2> QED  BY <2>1, <2>2
<1> QED
  BY <1>1, <1>4, <1>5, <1>6, <1>7, <1>8, <1>9 DEF Text, Joined, id, head, n, k

\* An app and a user with ink at both ends and no separator make an id that
\* is trimmed already and whose group is the app's.
LEMMA PlainIdParses ==
  ASSUME NEW app, NEW user, Trimmed(app), Trimmed(user), Plain(app), Plain(user)
  PROVE  LET id == Joined(app, user)
         IN  id # <<>> /\ TrimSpace(id) = id /\ ParseAppGroup(id) = {app}
<1> DEFINE id == Joined(app, user)
           n == Len(app)
           k == Len(user)
<1>1. /\ app \in Text /\ user \in Text /\ app \in Seq(Chars) /\ user \in Seq(Chars)
      /\ n \in Nat \ {0} /\ DOMAIN app = 1 .. n /\ k \in Nat \ {0} /\ DOMAIN user = 1 .. k
  BY LenProperties, EmptySeq DEF Trimmed, Text
<1>2. /\ id \in Text /\ Len(id) = n + 1 + k
      /\ \A i \in 1 .. n : id[i] = app[i]
      /\ id[n + 1] = Colon
      /\ \A i \in 1 .. k : id[n + 1 + i] = user[i]
      /\ SubSeq(id, 1, n) = SubSeq(app, 1, n)
      /\ SubSeq(id, n + 2, n + 1 + k) = SubSeq(user, 1, k)
  <2>1. 1 \in 1 .. n /\ k \in 1 .. k  BY <1>1
  <2> QED  BY <1>1, <2>1, JoinedPlaces
<1> HIDE DEF id, n, k
<1>3. DOMAIN id = 1 .. n + 1 + k  BY <1>2, LenProperties DEF Text
<1>4. Trimmed(id)
  <2>1. id # <<>>  BY <1>1, <1>2, EmptySeq DEF Text
  <2>2. id[1] = app[1]  BY <1>1, <1>2
  <2>3. id[n + 1 + k] = user[k]  BY <1>1, <1>2
  <2> QED  BY <1>2, <2>1, <2>2, <2>3 DEF Trimmed, k
<1>5. TrimSpace(id) = id  BY <1>4, TrimmedStays
<1>6. Colons(id) = {n + 1}
  <2>1. ASSUME NEW i \in 1 .. n PROVE id[i] # Colon  BY <1>1, <1>2 DEF Plain
  <2>2. ASSUME NEW i \in n + 2 .. n + 1 + k PROVE id[i] # Colon
    <3>1. i - (n + 1) \in 1 .. k /\ n + 1 + (i - (n + 1)) = i  BY <1>1
    <3>2. id[i] = user[i - (n + 1)]  BY <1>2, <3>1
    <3> QED  BY <1>1, <3>1, <3>2 DEF Plain
  <2>3. \A i \in 1 .. n + 1 + k : i \in 1 .. n \/ i = n + 1 \/ i \in n + 2 .. n + 1 + k
    BY <1>1
  <2>4. n + 1 \in 1 .. n + 1 + k  BY <1>1
  <2> QED  BY <1>2, <1>3, <2>1, <2>2, <2>3, <2>4 DEF Colons
<1>7. SubSeq(id, 1, (n + 1) - 1) = app
  <2>1. (n + 1) - 1 = n  BY <1>1
  <2> QED  BY <1>1, <1>2, <2>1, SubSeqFull DEF n
<1>8. SubSeq(id, n + 1 + 1, Len(id)) = user
  <2>1. n + 1 + 1 = n + 2  BY <1>1
  <2> QED  BY <1>1, <1>2, <2>1, SubSeqFull DEF k
<1>9. TrimSpace(app) = app /\ TrimSpace(user) = user /\ app # <<>> /\ user # <<>>
  BY TrimmedStays DEF Trimmed
<1>10. ParseAppGroup(id) = {app}
  <2> DEFINE part(i) == TrimSpace(SubSeq(id, 1, i - 1))
             rest(i) == TrimSpace(SubSeq(id, i + 1, Len(id)))
             cuts == {i \in Colons(id) : Colons(id) = {i} /\ part(i) # <<>> /\ rest(i) # <<>>}
  <2>1. ParseAppGroup(id) = {part(i) : i \in cuts}  BY <1>5 DEF ParseAppGroup
  <2>2. part(n + 1) = app /\ rest(n + 1) = user
    <3>1. part(n + 1) = TrimSpace(app)  BY <1>7
    <3>2. rest(n + 1) = TrimSpace(user)  BY <1>8
    <3> HIDE DEF part, rest
    <3> QED  BY <1>9, <3>1, <3>2
  <2> HIDE DEF part, rest
  <2>3. cuts = {n + 1}  BY <1>6, <1>9, <2>2
  <2> QED  BY <2>1, <2>2, <2>3
<1> QED  BY <1>4, <1>5, <1>10 DEF id, Trimmed

\* What is left of an id when ParseAppGroup has cut off the app.
ParseUser(id) ==
    LET t       == TrimSpace(id)
        app(i)  == TrimSpace(SubSeq(t, 1, i - 1))
        user(i) == TrimSpace(SubSeq(t, i + 1, Len(t)))
    IN  {user(i) : i \in {i \in Colons(t) :
            Colons(t) = {i} /\ app(i) # <<>> /\ user(i) # <<>>}}

\* If ParseAppGroup accepts the id of an app and a user, whatever characters
\* they have and wherever the separators are, the id names them both.
LEMMA AcceptedIdNamesPair ==
  ASSUME NEW app \in Text, NEW user \in Text,
         NEW group \in ParseAppGroup(TrimSpace(Joined(app, user)))
  PROVE  /\ group = TrimSpace(app)
         /\ ParseUser(TrimSpace(Joined(app, user))) = {TrimSpace(user)}
<1> DEFINE full == Joined(app, user)
           id == TrimSpace(full)
           n == Len(app)
           k == Len(user)
           part(i) == TrimSpace(SubSeq(id, 1, i - 1))
           rest(i) == TrimSpace(SubSeq(id, i + 1, Len(id)))
           cuts == {i \in Colons(id) : Colons(id) = {i} /\ part(i) # <<>> /\ rest(i) # <<>>}
<1>1. /\ n \in Nat /\ k \in Nat
      /\ full \in Text /\ Len(full) = n + 1 + k
      /\ \A i \in 1 .. n : full[i] = app[i]
      /\ full[n + 1] = Colon
      /\ \A i \in 1 .. k : full[n + 1 + i] = user[i]
      /\ \A i \in 1 .. n : SubSeq(full, i, n) = SubSeq(app, i, n)
      /\ \A i \in 1 .. k : SubSeq(full, n + 2, n + 1 + i) = SubSeq(user, 1, i)
  BY JoinedPlaces
<1>2. TrimSpace(id) = id /\ id \in Text  BY <1>1, TrimSpaceTwice, TrimSpaceTrims
<1>3. ParseAppGroup(id) = {part(i) : i \in cuts} /\ ParseUser(id) = {rest(i) : i \in cuts}
  BY <1>2 DEF ParseAppGroup, ParseUser
<1>4. /\ full \in Seq(Chars) /\ DOMAIN full = 1 .. n + 1 + k
      /\ DOMAIN app = 1 .. n /\ DOMAIN user = 1 .. k
  BY <1>1, LenProperties DEF Text
<1> HIDE DEF full, n, k, id
<1>5. n + 1 \in Ink(full) /\ Ink(full) \subseteq Int
  BY <1>1, <1>4, TextAssumption DEF Ink
<1>6. PICK lo \in Ink(full), hi \in Ink(full) :
            /\ \A i \in Ink(full) : lo <= i /\ i <= hi
            /\ lo \in 1 .. Len(full) /\ hi \in 1 .. Len(full) /\ lo <= hi
  BY <1>1, <1>5, InkHasEnds
<1>7. id = SubSeq(full, lo, hi)  BY <1>5, <1>6, TrimSpaceCuts DEF id
<1>8. /\ lo \in Int /\ hi \in Int /\ 1 <= lo /\ lo <= n + 1 /\ n + 1 <= hi /\ hi <= n + 1 + k
  BY <1>1, <1>5, <1>6
<1> DEFINE m == hi - lo + 1
           p == n + 2 - lo
<1>9. /\ Len(id) = m /\ \A i \in 1 .. m : id[i] = full[lo + i - 1]
  <2>1. \A i \in lo .. hi : full[i] \in Chars  BY <1>1, <1>4, <1>8, ElementOfSeq
  <2>2. /\ Len(SubSeq(full, lo, hi)) = hi - lo + 1
        /\ \A i \in 1 .. hi - lo + 1 : SubSeq(full, lo, hi)[i] = full[lo + i - 1]
    BY <1>6, <1>8, <2>1, SubSeqProperties
  <2> QED  BY <1>7, <2>2
<1>10. DOMAIN id = 1 .. m  BY <1>2, <1>9, LenProperties DEF Text
<1>11. p \in 1 .. m /\ lo + p - 1 = n + 1  BY <1>1, <1>8
<1>12. p \in Colons(id)  BY <1>1, <1>9, <1>10, <1>11 DEF Colons
<1>13. \A i \in cuts : i = p /\ part(p) # <<>> /\ rest(p) # <<>>  BY <1>12
<1>14. PICK q \in cuts : group = part(q)  BY <1>3 DEF id, full
<1>15. q = p /\ part(p) # <<>> /\ rest(p) # <<>>  BY <1>13, <1>14
<1>16. TrimSpace(<<>>) = <<>>
  <2>1. Ink(<<>>) = {}  BY DEF Ink
  <2> QED  BY <2>1, BlankTrimsAway
<1>17. part(p) = TrimSpace(app)
  <2>1. p # 1
    <3> SUFFICES ASSUME p = 1 PROVE FALSE  OBVIOUS
    <3>1. SubSeq(id, 1, p - 1) = <<>>  BY <1>11, SubSeqEmpty
    <3> QED  BY <1>15, <1>16, <3>1
  <2>2. /\ lo \in 1 .. n /\ n \in lo .. n
        /\ 1 \in 1 .. hi - lo + 1 /\ p - 1 \in 1 .. hi - lo + 1
        /\ lo + 1 - 1 = lo /\ lo + (p - 1) - 1 = n
    BY <1>1, <1>8, <1>11, <2>1
  <2>3. lo \in 1 .. Len(full) /\ hi \in 1 .. Len(full) /\ n \in 1 .. n  BY <1>6, <2>2
  <2> HIDE DEF p
  <2>4. SubSeq(SubSeq(full, lo, hi), 1, p - 1) = SubSeq(full, lo + 1 - 1, lo + (p - 1) - 1)
    BY <1>4, <2>2, <2>3, SubSeqOfSubSeq
  <2>5. SubSeq(id, 1, p - 1) = SubSeq(app, lo, n)  BY <1>1, <1>7, <2>2, <2>4
  <2>6. ASSUME NEW i \in Ink(app)  PROVE lo <= i /\ i <= n
    <3>1. i \in 1 .. n /\ app[i] # Blank  BY <1>4 DEF Ink
    <3>2. i \in Ink(full)  BY <1>1, <1>4, <3>1 DEF Ink
    <3> QED  BY <1>1, <1>6, <3>1, <3>2
  <2>7. TrimSpace(SubSeq(app, lo, n)) = TrimSpace(app)
    <3>1. lo \in 1 .. Len(app) /\ n \in lo .. Len(app)  BY <2>2 DEF n
    <3> QED  BY <2>6, <3>1, TrimSpaceOfPart
  <2> QED  BY <2>5, <2>7
<1>18. rest(p) = TrimSpace(user)
  <2> DEFINE b == hi - (n + 1)
  <2>1. p # m
    <3> SUFFICES ASSUME p = m PROVE FALSE  OBVIOUS
    <3>1. SubSeq(id, p + 1, Len(id)) = <<>>
      <4>1. p + 1 \in Int /\ m \in Int /\ m < p + 1  BY <1>11
      <4> QED  BY <1>9, <4>1, SubSeqEmpty
    <3> QED  BY <1>15, <1>16, <3>1
  <2>2. /\ b \in 1 .. k /\ n + 1 + b = hi /\ b \in Int
        /\ p + 1 \in 1 .. hi - lo + 1 /\ m \in 1 .. hi - lo + 1
        /\ lo + (p + 1) - 1 = n + 2 /\ lo + m - 1 = hi
    BY <1>1, <1>8, <1>11, <2>1
  <2>3. lo \in 1 .. Len(full) /\ hi \in 1 .. Len(full)  BY <1>6
  <2> DEFINE u == p + 1
  <2>4. u \in 1 .. hi - lo + 1 /\ lo + u - 1 = n + 2  BY <2>2
  <2> HIDE DEF p, m, b, u
  <2>8. SubSeq(SubSeq(full, lo, hi), u, m) = SubSeq(full, lo + u - 1, lo + m - 1)
    BY <1>4, <2>2, <2>3, <2>4, SubSeqOfSubSeq
  <2>5. SubSeq(id, p + 1, Len(id)) = SubSeq(user, 1, b)
    BY <1>1, <1>7, <1>9, <2>2, <2>4, <2>8 DEF u
  <2>6. ASSUME NEW i \in Ink(user)  PROVE 1 <= i /\ i <= b
    <3>1. i \in 1 .. k /\ user[i] # Blank  BY <1>4 DEF Ink
    <3>2. n + 1 + i \in Ink(full)  BY <1>1, <1>4, <3>1 DEF Ink
    <3>3. n + 1 + i <= hi /\ i \in Int /\ 1 <= i  BY <1>1, <1>6, <3>1, <3>2
    <3> QED  BY <1>1, <1>8, <3>3 DEF b
  <2>7. TrimSpace(SubSeq(user, 1, b)) = TrimSpace(user)
    <3>1. 1 \in 1 .. Len(user) /\ b \in 1 .. Len(user)  BY <1>1, <2>2 DEF k
    <3> QED  BY <2>6, <3>1, TrimSpaceOfPart
  <2> QED  BY <2>5, <2>7
<1> HIDE DEF part, rest, p
<1>19. cuts = {p}  BY <1>13, <1>14
<1> QED  BY <1>3, <1>14, <1>15, <1>17, <1>18, <1>19 DEF id, full

-----------------------------------------------------------------------------
\* Times.

\* A claim is a time cut by less than a second.
LEMMA NumericDateBounds ==
  ASSUME NEW t \in Nat
  PROVE  NumericDate(t) \in Nat /\ NumericDate(t) <= t /\ t < NumericDate(t) + Second
<1> DEFINE q == t \div Second
<1>1. Second \in Nat /\ Second > 0  BY AuthAssumption
<1>2. q \in Nat /\ q * Second <= t /\ t < q * Second + Second  BY <1>1
<1>3. q * Second \in Nat  BY <1>1, <1>2
<1> QED  BY <1>2, <1>3 DEF NumericDate

\* A whole number of seconds is not cut.
LEMMA NumericDateShifts ==
  ASSUME NEW t \in Nat, Expiration % Second = 0
  PROVE  NumericDate(t + Expiration) = NumericDate(t) + Expiration
<1> DEFINE k == Expiration \div Second
           q == t \div Second
           p == (t + Expiration) \div Second
<1>1. Second \in Nat /\ Second > 0 /\ Expiration \in Nat  BY AuthAssumption
<1>2. k \in Nat /\ Expiration = k * Second  BY <1>1
<1>3. q \in Nat /\ q * Second <= t /\ t < q * Second + Second  BY <1>1
<1>4. p \in Nat /\ p * Second <= t + Expiration /\ t + Expiration < p * Second + Second
  BY <1>1
<1> HIDE DEF k, q, p
<1>5. p * Second < (q + k + 1) * Second  BY <1>1, <1>2, <1>3, <1>4
<1>6. (q + k) * Second < (p + 1) * Second  BY <1>1, <1>2, <1>3, <1>4
<1>7. p < q + k + 1  BY <1>1, <1>2, <1>3, <1>4, <1>5
<1>8. q + k < p + 1  BY <1>1, <1>2, <1>3, <1>4, <1>6
<1>9. p = q + k  BY <1>2, <1>3, <1>4, <1>7, <1>8
<1>10. p * Second = q * Second + Expiration  BY <1>1, <1>2, <1>3, <1>9
<1> QED  BY <1>10 DEF p, q, NumericDate

-----------------------------------------------------------------------------
\* The invariant.

\* What an answer of GetToken holds.
Answer(i) ==
    /\ Secret # NoSecret
    /\ Trimmed(i.token.app) /\ Trimmed(i.token.user)
    /\ (\A id \in Ids : Plain(id)) => Plain(i.token.app) /\ Plain(i.token.user)
    /\ i.token.iat = NumericDate(i.at)
    /\ i.token.exp = NumericDate(i.at + Expiration)
    /\ i.expiresAt = i.token.exp

Answers == \A i \in issued : Answer(i)

SessionsInTime == \A s \in sessions : s.token.exp # Absent => s.since < s.token.exp

\* The id of a session is its token's, and its group the one the id is in.
Admitted(s) ==
    /\ s.id = TrimSpace(Joined(s.token.app, s.token.user))
    /\ s.group \in ParseAppGroup(s.id)

SessionsAdmitted == \A s \in sessions : Admitted(s)

IInv == TypeOK /\ Answers /\ SessionsInTime /\ SessionsAdmitted

LEMMA OwnTokensAreTokens == OwnToken \subseteq Token
BY DEF OwnToken, Token

\* The group ParseAppGroup finds is a text.
LEMMA GroupsAreTexts ==
  ASSUME NEW id \in Text
  PROVE  ParseAppGroup(id) \subseteq Text
<1> DEFINE t == TrimSpace(id)
           part(i) == TrimSpace(SubSeq(t, 1, i - 1))
           rest(i) == TrimSpace(SubSeq(t, i + 1, Len(t)))
           cuts == {i \in Colons(t) : Colons(t) = {i} /\ part(i) # <<>> /\ rest(i) # <<>>}
<1>1. t \in Seq(Chars) /\ Len(t) \in Nat /\ DOMAIN t = 1 .. Len(t)
  BY TrimSpaceTrims, LenProperties DEF Text
<1>2. ParseAppGroup(id) = {part(i) : i \in cuts}  BY DEF ParseAppGroup
<1> HIDE DEF t
<1>3. ASSUME NEW i \in cuts  PROVE part(i) \in Text
  <2>1. i \in 1 .. Len(t)  BY <1>1, <1>3 DEF Colons
  <2>2. 1 \in Int /\ i - 1 \in Int /\ \A j \in 1 .. i - 1 : j \in 1 .. Len(t)
    BY <1>1, <2>1
  <2>3. \A j \in 1 .. i - 1 : t[j] \in Chars  BY <1>1, <2>2, ElementOfSeq
  <2>4. SubSeq(t, 1, i - 1) \in Text  BY <2>2, <2>3, SubSeqProperties DEF Text
  <2> QED  BY <2>4, TrimSpaceTrims
<1> HIDE DEF part, cuts
<1> QED  BY <1>2, <1>3

\* The id of a session is a text.
LEMMA IdsAreTexts ==
  ASSUME NEW t \in Token
  PROVE  GetUserID(t) \subseteq Text
<1>1. <<Colon>> \in Seq(Chars)  BY TextAssumption
<1>2. t.app \in Seq(Chars) /\ t.user \in Seq(Chars)  BY DEF Token, Text
<1>3. t.app \o <<Colon>> \in Seq(Chars)  BY <1>1, <1>2, ConcatProperties
<1>4. t.app \o <<Colon>> \o t.user \in Text  BY <1>2, <1>3, ConcatProperties DEF Text
<1>5. \A id \in ResolveToken(t) : id \in Text  BY <1>4 DEF ResolveToken
<1> QED  BY <1>5, TrimSpaceTrims DEF GetUserID

LEMMA TokenInit == Init => IInv
BY DEF Init, IInv, TypeOK, Answers, SessionsInTime, SessionsAdmitted

LEMMA GetTokenStep ==
  ASSUME IInv, NEW appId \in Ids, NEW userId \in Ids, GetToken(appId, userId)
  PROVE  IInv'
<1> DEFINE app == TrimSpace(appId)
           user == TrimSpace(userId)
           i == [token |-> GenerateToken(app, user), at |-> now,
                 expiresAt |-> NumericDate(now + Expiration)]
<1>1. appId \in Text /\ userId \in Text  BY TextAssumption
<1>2. Trimmed(app) /\ Trimmed(user)  BY <1>1, TrimSpaceTrims DEF GetToken
<1>3. (\A id \in Ids : Plain(id)) => Plain(app) /\ Plain(user)
  BY <1>1, TrimSpaceTrims DEF Plain
<1>4. now \in Nat /\ now + Expiration \in Nat  BY AuthAssumption DEF IInv, TypeOK
<1>5. NumericDate(now) \in Nat /\ NumericDate(now + Expiration) \in Nat
  BY <1>4, NumericDateBounds
<1>6. Secret # NoSecret /\ issued' = issued \cup {i} /\ UNCHANGED <<now, sessions>>
  BY DEF GetToken
<1> HIDE DEF app, user
<1>7. GenerateToken(app, user) \in OwnToken
  BY <1>2, <1>5 DEF GenerateToken, OwnToken, Trimmed
<1>8. i \in Issued  BY <1>4, <1>5, <1>7 DEF Issued
<1>9. Answer(i)  BY <1>2, <1>3, <1>6 DEF Answer, GenerateToken
<1> HIDE DEF i
<1>10. TypeOK'  BY <1>6, <1>8 DEF IInv, TypeOK
<1>11. Answers'  BY <1>6, <1>9 DEF IInv, Answers, Answer
<1>12. SessionsInTime'  BY <1>6 DEF IInv, SessionsInTime
<1>13. SessionsAdmitted'
  BY <1>6 DEF IInv, SessionsAdmitted, Admitted, Joined, ParseAppGroup, Colons, TrimSpace
<1> QED  BY <1>10, <1>11, <1>12, <1>13 DEF IInv

LEMMA ConnectStep ==
  ASSUME IInv, NEW t \in Foreign \cup {i.token : i \in issued}, Connect(t)
  PROVE  IInv'
<1>1. PICK id \in GetUserID(t) : \E app \in ParseAppGroup(id) :
        sessions' = sessions \cup {[id |-> id, group |-> app, token |-> t, since |-> now]}
  BY DEF Connect
<1>1a. PICK app \in ParseAppGroup(id) :
        sessions' = sessions \cup {[id |-> id, group |-> app, token |-> t, since |-> now]}
  BY <1>1
<1> DEFINE s == [id |-> id, group |-> app, token |-> t, since |-> now]
<1>2. UNCHANGED <<now, issued>>  BY DEF Connect
<1>3. t \in Token
  BY AuthAssumption, OwnTokensAreTokens DEF IInv, TypeOK, Issued
<1>4. id \in Text /\ app \in Text  BY <1>3, IdsAreTexts, GroupsAreTexts
<1>5. s \in Session  BY <1>3, <1>4 DEF Session, IInv, TypeOK
<1>6. t.exp # Absent => now < t.exp  BY <1>1 DEF GetUserID, ResolveToken
<1>7. s.token.exp # Absent => s.since < s.token.exp  BY <1>6
<1>8. Admitted(s)
  <2>1. id = TrimSpace(Joined(t.app, t.user))  BY <1>1 DEF GetUserID, ResolveToken, Joined
  <2> QED  BY <2>1 DEF Admitted
<1> HIDE DEF s
<1>9. sessions' = sessions \cup {s}  BY <1>1a DEF s
<1>10. TypeOK'  BY <1>2, <1>5, <1>9 DEF IInv, TypeOK
<1>11. Answers'  BY <1>2 DEF IInv, Answers, Answer
<1>12. SessionsInTime'  BY <1>7, <1>9 DEF IInv, SessionsInTime
<1>13. SessionsAdmitted'
  <2> SUFFICES ASSUME NEW q \in sessions'  PROVE Admitted(q)
    BY DEF SessionsAdmitted, Admitted, Joined, ParseAppGroup, Colons, TrimSpace
  <2> QED  BY <1>8, <1>9 DEF IInv, SessionsAdmitted
<1> QED  BY <1>10, <1>11, <1>12, <1>13 DEF IInv

LEMMA TokenStep == IInv /\ [Next]_vars => IInv'
<1> SUFFICES ASSUME IInv, [Next]_vars  PROVE IInv'  OBVIOUS
<1>1. CASE Tick
  <2>1. UNCHANGED <<issued, sessions>> /\ now' \in Nat
    BY <1>1 DEF Tick, IInv, TypeOK
  <2> QED
    BY <2>1
    DEF IInv, TypeOK, Answers, Answer, SessionsInTime, SessionsAdmitted, Admitted, Joined,
        ParseAppGroup, Colons, TrimSpace
<1>2. CASE \E appId, userId \in Ids : GetToken(appId, userId)  BY <1>2, GetTokenStep
<1>3. CASE \E t \in Foreign \cup {i.token : i \in issued} : Connect(t)
  BY <1>3, ConnectStep
<1>4. CASE UNCHANGED vars
  BY <1>4
  DEF vars, IInv, TypeOK, Answers, Answer, SessionsInTime, SessionsAdmitted, Admitted, Joined,
      ParseAppGroup, Colons, TrimSpace
<1> QED  BY <1>1, <1>2, <1>3, <1>4 DEF Next

LEMMA TokenInvariance == Spec => []IInv
BY TokenInit, TokenStep, PTL DEF Spec

-----------------------------------------------------------------------------
\* The theorems.

\* The state always has its types: what GenerateToken signs has both times,
\* and what a session keeps are texts.
THEOREM TokenTypes == Spec => []TypeOK
<1>1. IInv => TypeOK  BY DEF IInv
<1> QED  BY <1>1, TokenInvariance, PTL

\* For every lifetime that is a positive whole number of seconds, and ids
\* without a separator, the tokens the service issues admit their users until
\* they expire.
THEOREM TokensAdmit ==
  ASSUME Expiration > 0, Expiration % Second = 0, \A id \in Ids : Plain(id)
  PROVE  Spec => []IssuedTokenAdmits
<1>1. ASSUME IInv  PROVE IssuedTokenAdmits
  <2> SUFFICES ASSUME NEW i \in issued, now = i.at \/ now < i.expiresAt
               PROVE  \E id \in GetUserID(i.token) : ParseAppGroup(id) = {i.token.app}
    BY DEF IssuedTokenAdmits
  <2> DEFINE t == i.token
             id == t.app \o <<Colon>> \o t.user
  <2>1. i \in Issued /\ Answer(i)  BY <1>1 DEF IInv, TypeOK, Answers
  <2>2. i.at \in Nat /\ t.iat \in Nat /\ t.exp \in Nat /\ t.key = Secret /\ now \in Nat
    BY <1>1, <2>1 DEF Issued, OwnToken, IInv, TypeOK
  <2>3. Second \in Nat /\ Second > 0 /\ Expiration \in Nat  BY AuthAssumption
  <2>4. t.exp = t.iat + Expiration
    BY <2>1, <2>2, NumericDateShifts DEF Answer
  <2>5. t.exp - t.iat <= Expiration  BY <2>2, <2>3, <2>4
  <2>6. Second <= Expiration
    <3>1. CASE Expiration < Second
      <4>1. Expiration % Second = Expiration  BY <2>3, <3>1
      <4> QED  BY <2>3, <4>1
    <3> QED  BY <2>3, <3>1
  <2>7. i.at < t.iat + Second  BY <2>1, <2>2, NumericDateBounds DEF Answer
  <2>8. now < t.exp
    BY <2>1, <2>2, <2>3, <2>4, <2>6, <2>7 DEF Answer
  <2>9. t.exp # Absent /\ t.iat # Absent  BY <2>2 DEF Absent
  <2>10. Trimmed(t.app) /\ Trimmed(t.user) /\ Plain(t.app) /\ Plain(t.user)
    BY <2>1 DEF Answer
  <2>11. t.app # <<>> /\ t.user # <<>> /\ Secret # NoSecret  BY <2>1, <2>10 DEF Trimmed, Answer
  <2>12. ResolveToken(t) = {id}  BY <2>2, <2>5, <2>8, <2>9, <2>11 DEF ResolveToken
  <2>13. id # <<>> /\ TrimSpace(id) = id /\ ParseAppGroup(id) = {t.app}
    BY <2>10, PlainIdParses DEF Joined
  <2> HIDE DEF id, t
  <2>14. id \in GetUserID(t)  BY <2>12, <2>13 DEF GetUserID
  <2> QED  BY <2>13, <2>14 DEF t
<1> QED  BY <1>1, TokenInvariance, PTL

\* For every lifetime, whole seconds or not, no token opens a session when
\* the lifetime has passed since it was asked for.
THEOREM TokensDie == Spec => []IssuedTokenDies
<1>1. ASSUME IInv  PROVE IssuedTokenDies
  <2> SUFFICES ASSUME NEW i \in issued, NEW s \in sessions, s.token = i.token
               PROVE  s.since < i.at + Expiration
    BY DEF IssuedTokenDies
  <2>1. i \in Issued /\ Answer(i) /\ s \in Session
    BY <1>1 DEF IInv, TypeOK, Answers
  <2>2. i.at \in Nat /\ i.token.exp \in Nat /\ s.since \in Nat /\ Expiration \in Nat
    BY <2>1, AuthAssumption DEF Issued, OwnToken, Session
  <2>3. s.since < i.token.exp
    BY <1>1, <2>2 DEF IInv, SessionsInTime, Absent
  <2>4. i.at + Expiration \in Nat  BY <2>2
  <2>5. i.token.exp <= i.at + Expiration
    BY <2>1, <2>4, NumericDateBounds DEF Answer
  <2> QED  BY <2>2, <2>3, <2>4, <2>5
<1> QED  BY <1>1, TokenInvariance, PTL

\* Whoever signed the tokens, whatever characters their apps and users have:
\* sessions with one id are of one app and one user, in that app's group.
THEOREM OneUser == Spec => []OneUserPerId
<1>1. ASSUME IInv  PROVE OneUserPerId
  <2> SUFFICES ASSUME NEW s \in sessions, NEW r \in sessions, s.id = r.id
               PROVE  /\ TrimSpace(s.token.app) = TrimSpace(r.token.app)
                      /\ TrimSpace(s.token.user) = TrimSpace(r.token.user)
                      /\ s.group = TrimSpace(r.token.app)
    BY DEF OneUserPerId
  <2>1. ASSUME NEW q \in sessions
        PROVE  /\ \A group \in ParseAppGroup(q.id) : group = TrimSpace(q.token.app)
               /\ ParseUser(q.id) = {TrimSpace(q.token.user)}
               /\ q.group \in ParseAppGroup(q.id)
    <3>1. q.token.app \in Text /\ q.token.user \in Text
      BY <1>1 DEF IInv, TypeOK, Session, Token
    <3>2. /\ q.id = TrimSpace(Joined(q.token.app, q.token.user))
          /\ q.group \in ParseAppGroup(q.id)
      BY <1>1 DEF IInv, SessionsAdmitted, Admitted
    <3> QED  BY <3>1, <3>2, AcceptedIdNamesPair
  <2>2. s.group \in ParseAppGroup(r.id) /\ ParseUser(s.id) = ParseUser(r.id)  BY <2>1
  <2> QED  BY <2>1, <2>2
<1> QED  BY <1>1, TokenInvariance, PTL

=============================================================================
