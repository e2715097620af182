------------------------------ MODULE MCPolicy ------------------------------
\* Instances of Policy for TLC: globs and names that put a dot, an "@" and a
\* metacharacter on either side of each other.
EXTENDS Policy

MCTokens == {"a", "r", "s", "x", ".", "@", "+", "/", "*", "unit", "data"} \cup Placeholders

Joined(A, B, C) == {a \o b \o c : a \in A, b \in B, c \in C}

MCUnits == Joined({<<"a">>, <<"a", ".", "a">>, <<".">>},
                  {<<>>, <<"@">>, <<"@", "a">>, <<"@", "a", "@", "a">>, <<"@", ".">>},
                  {<<".", "s">>})
              \cup {<<>>, <<"a", "/", "a">>}
MCCredentialIDs == {<<"a">>, <<"+">>, <<".">>, <<>>, <<"a", "/", "a">>}

\* What lies between the slashes of an address: no part, or one that looks like
\* the marker, at any place; and an address that is not abstract.
Parts == {<<>>, <<"a">>, <<"unit">>}
MCAddresses ==
  LET Follow(A) == {a \o <<"/">> \o p : a \in A, p \in Parts}
      Two == Follow(Follow({<<"@", "r">>}))
  IN  Two \cup Follow(Two) \cup Follow(Follow(Two))
      \cup {<<"r", "/", "unit", "/", "a", "/", "a">>}

UnitGlobs == Joined({<<"*">>, <<"a">>, <<"a", "*">>, <<"a", ".", "a">>},
                    {<<>>, <<"@", "*">>, <<"@", "a">>, <<"*", "@", "a">>},
                    {<<>>, <<".", "s">>, <<".", "*">>})
             \cup {<<"+">>, <<"{prefix}">>}
CredentialGlobs == {<<"*">>, <<"a">>, <<"+">>, <<".">>}

Whole == {<<p>> : p \in Placeholders}
Mixed == {<<"x", p>> : p \in Placeholders}
Paths == {<<s>> : s \in Whole \cup Mixed \cup {<<"x">>, <<"+">>, <<"x", "*">>}}
         \cup {<<s, <<"{credential}">>>> : s \in Whole}

\* Three backends, and a file for every rule.
Backends == {<<"raw", <<>>>>, <<"kv", <<<<"x">>>>>>, <<"kv", <<<<"{instance}">>>>>>}
RulesOf(units, credentials, backends, paths) ==
  {[unit |-> u, credential |-> c, backend |-> b[1], mount |-> b[2], path |-> p] :
     u \in units, c \in credentials, b \in backends, p \in paths}

OneRule == {<<r>> : r \in RulesOf(UnitGlobs, CredentialGlobs, Backends, Paths)}

\* Two rules that share grants and compete for requests.
TwoRules ==
  LET few == RulesOf({<<"*">>, <<"a", "@", "*">>}, {<<"*">>, <<"a">>}, {<<"raw", <<>>>>},
                     {<<<<"x">>>>, <<<<"{credential}">>>>, <<<<"x", "{credential}">>>>})
  IN  {<<r, s>> : r \in few, s \in few}

MCFiles == OneRule \cup TwoRules
=============================================================================
