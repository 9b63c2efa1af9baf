----------------------------- MODULE TokenAuth -----------------------------
(***************************************************************************)
(* From a token request to a websocket in its app's group: GetToken of the *)
(* gRPC service (src/internal/rpc/service.go), the signer and the checker  *)
(* of tokens (src/internal/auth/jwt.go), GetUserID, which signalg calls    *)
(* when a websocket is opened (src/internal/auth/auth.go), and the id's    *)
(* app group (src/internal/gateway/app_group.go).                          *)
(*                                                                         *)
(* An id is a text: a sequence of characters, two of which matter.  Time   *)
(* is in units of a fraction of a second, because a token's claims are     *)
(* cut to whole seconds and the configured lifetime is not.  Which header  *)
(* or query parameter carries the token, and the claims platform, br and   *)
(* nbf, are left out: the service sets no nbf and reads none of the three  *)
(* (the library refuses a token of another program before its nbf).        *)
(***************************************************************************)
EXTENDS Texts

CONSTANTS
    Colon,       \* the separator
    Ids,         \* app and user ids GetToken is asked for
    Secret,      \* config.JWTSecret
    NoSecret,    \* the empty secret
    Expiration,  \* config.JWTExpiration, in time units
    Second,      \* time units in a second
    Foreign,     \* tokens other programs signed
    MaxTime      \* bound: time stops here

\* A claim a token does not have.
Absent == -1

\* A token that parses: its claims, and the key of its signature.
Token == [app : Text, user : Text, iat : Int, exp : Int, key : {Secret, NoSecret, "other"}]

ASSUME TextAssumption ==
    /\ {Colon, Blank} \subseteq Chars
    /\ Colon # Blank
    /\ \A id \in Ids : id \in Text

ASSUME AuthAssumption ==
    /\ Expiration \in Nat
    /\ Second \in Nat \ {0}
    /\ MaxTime \in Nat
    /\ \A t \in Foreign : t \in Token

VARIABLES
    now,      \* elapsed time
    issued,   \* answers of GetToken, with the time of the request
    sessions  \* websockets accepted

vars == <<now, issued, sessions>>

Init ==
    /\ now = 0
    /\ issued = {}
    /\ sessions = {}

-----------------------------------------------------------------------------
\* Ids.

Colons(text) == {i \in DOMAIN text : text[i] = Colon}

\* Mutant: further separators belong to the user.
CutAtFirst(id) ==
    LET t     == TrimSpace(id)
        app(i)  == TrimSpace(SubSeq(t, 1, i - 1))
        user(i) == TrimSpace(SubSeq(t, i + 1, Len(t)))
    IN  {app(i) : i \in {i \in Colons(t) :
            (\A j \in Colons(t) : i <= j) /\ app(i) # <<>> /\ user(i) # <<>>}}

\* The app whose group the id is in; no element when the id is refused.
ParseAppGroup(id) ==
    LET t     == TrimSpace(id)
        app(i)  == TrimSpace(SubSeq(t, 1, i - 1))
        user(i) == TrimSpace(SubSeq(t, i + 1, Len(t)))
    IN  {app(i) : i \in {i \in Colons(t) :
            Colons(t) = {i} /\ app(i) # <<>> /\ user(i) # <<>>}}

-----------------------------------------------------------------------------
\* Tokens.

\* jwt.NumericDate: a time cut to its second.
NumericDate(t) == (t \div Second) * Second

\* Mutant: the token has no iat.
SignsWithoutIat(app, user) ==
    [app |-> app, user |-> user, iat |-> Absent,
     exp |-> NumericDate(now + Expiration), key |-> Secret]

GenerateToken(app, user) ==
    [app |-> app, user |-> user, iat |-> NumericDate(now),
     exp |-> NumericDate(now + Expiration), key |-> Secret]

\* Mutant: a token is accepted for a second after it expired.
ResolvesWithLeeway(t) ==
    IF /\ Secret # NoSecret /\ t.key = Secret
       /\ t.exp # Absent => now < t.exp + Second
       /\ Expiration > 0 =>
            t.iat # Absent /\ t.exp # Absent /\ t.exp - t.iat <= Expiration
       /\ t.app # <<>> /\ t.user # <<>>
    THEN {t.app \o <<Colon>> \o t.user}
    ELSE {}

\* Mutant: a lifetime equal to the limit is refused.
ResolvesShorterOnly(t) ==
    IF /\ Secret # NoSecret /\ t.key = Secret
       /\ t.exp # Absent => now < t.exp
       /\ Expiration > 0 =>
            t.iat # Absent /\ t.exp # Absent /\ t.exp - t.iat < Expiration
       /\ t.app # <<>> /\ t.user # <<>>
    THEN {t.app \o <<Colon>> \o t.user}
    ELSE {}

\* The id of the token's user; no element when the token is refused.
ResolveToken(t) ==
    IF /\ Secret # NoSecret /\ t.key = Secret
       /\ t.exp # Absent => now < t.exp
       /\ Expiration > 0 =>
            t.iat # Absent /\ t.exp # Absent /\ t.exp - t.iat <= Expiration
       /\ t.app # <<>> /\ t.user # <<>>
    THEN {t.app \o <<Colon>> \o t.user}
    ELSE {}

GetUserID(t) == {TrimSpace(id) : id \in ResolveToken(t)} \ {<<>>}

-----------------------------------------------------------------------------

Tick ==
    /\ now < MaxTime
    /\ now' = now + 1
    /\ UNCHANGED <<issued, sessions>>

GetToken(appId, userId) ==
    LET app  == TrimSpace(appId)
        user == TrimSpace(userId)
    IN  /\ Secret # NoSecret
        /\ app # <<>> /\ user # <<>>
        /\ issued' = issued \cup
              {[token |-> GenerateToken(app, user), at |-> now,
                expiresAt |-> NumericDate(now + Expiration)]}
        /\ UNCHANGED <<now, sessions>>

\* A websocket is opened with a token; Hub.OnConnected puts it in its group.
Connect(t) ==
    /\ \E id \in GetUserID(t) : \E app \in ParseAppGroup(id) :
         sessions' = sessions \cup
            {[id |-> id, group |-> app, token |-> t, since |-> now]}
    /\ UNCHANGED <<now, issued>>

Next ==
    \/ Tick
    \/ \E appId, userId \in Ids : GetToken(appId, userId)
    \/ \E t \in Foreign \cup {i.token : i \in issued} : Connect(t)

Spec == Init /\ [][Next]_vars

-----------------------------------------------------------------------------

\* What GenerateToken signs.
OwnToken == [app : Text, user : Text, iat : Nat, exp : Nat, key : {Secret}]

Issued == [token : OwnToken, at : Nat, expiresAt : Nat]

Session == [id : Text, group : Text, token : Token, since : Nat]

TypeOK ==
    /\ now \in Nat
    /\ \A i \in issued : i \in Issued
    /\ \A s \in sessions : s \in Session

\* A token admits its user to its app's group at the moment GetToken returns
\* it and then until the expires_at it was returned with: cutting two times
\* to seconds never makes the token's own lifetime exceed the limit the
\* checker compares it with.
IssuedTokenAdmits ==
    \A i \in issued :
        now = i.at \/ now < i.expiresAt =>
            \E id \in GetUserID(i.token) : ParseAppGroup(id) = {i.token.app}

\* A token opens no session once the configured lifetime has passed since it
\* was asked for.
IssuedTokenDies ==
    \A i \in issued, s \in sessions :
        s.token = i.token => s.since < i.at + Expiration

\* The routes and messages of an id are those of one user of one app: two
\* sessions with one id come from tokens of the same app and user, up to the
\* blanks around them, and are in that app's group.
OneUserPerId ==
    \A s, r \in sessions :
        s.id = r.id =>
            /\ TrimSpace(s.token.app) = TrimSpace(r.token.app)
            /\ TrimSpace(s.token.user) = TrimSpace(r.token.user)
            /\ s.group = TrimSpace(r.token.app)

\* The id a token resolves to is one ParseAppGroup accepts, as the design of
\* the resolver says ("compatible with existing ParseAppGroup").
ResolvedIdParses ==
    \A i \in issued : \A id \in ResolveToken(i.token) : ParseAppGroup(id) # {}

=============================================================================
