--------------------------- MODULE MCTokenAuth ---------------------------
(* Small instances of TokenAuth: ids over one letter, a blank and a colon. *)
EXTENDS TokenAuth, TLC

MCChars == {"a", " ", ":"}

MCPlainIds == {<<"a">>, <<" ", "a">>, <<" ">>}

MCColonIds == {<<"a">>, <<"a", ":", "a">>}

\* Tokens of a program that shares the secret but does not look at ids or keep
\* to the lifetime, and some it signed with another key.
MCForeign ==
    LET a == <<"a">>
        ids == {<<a, <<"a", ":", "a">>>>, <<<<"a", ":", "a">>, a>>, <<<<"a", " ">>, a>>}
    IN  {[app |-> id[1], user |-> id[2], iat |-> 0, exp |-> Second, key |-> "secret"] :
            id \in ids}
        \cup {[app |-> a, user |-> a, iat |-> i, exp |-> e, key |-> k] :
                i \in {Absent, 0}, e \in {Absent, 3 * Second}, k \in {"secret", "other"}}

MCNone == {}

=============================================================================
