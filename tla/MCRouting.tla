----------------------------- MODULE MCRouting -----------------------------
(***************************************************************************)
(* An instance of Routing for TLC: a group that can be nested under the    *)
(* other and compiled on its own too, a raw handler whose prefix extends a *)
(* group's, and paths whose text only begins with it.                      *)
(***************************************************************************)
EXTENDS Routing, TLC

CONSTANTS api, v1, a, b, c

MCPrefix == [g \in {api, v1} |-> IF g = api THEN <<"api">> ELSE <<"v1">>]
MCDepth  == [g \in {api, v1} |-> IF g = api THEN 1 ELSE 2]

MCRawPrefixes == {<<"api", "v1">>}

MCBegins == {<<s, s>> : s \in {"api", "apiary", "v1"}} \cup {<<"api", "apiary">>}

MCBytes == [p \in ModulePrefixes |->
              CASE p = <<"api">> -> 4 [] p = <<"v1">> -> 3 [] OTHER -> 7]

MCPatterns == {<<>>}
MCRouteMw  == {<<None, c>>}

MCSymmetry == Permutations({a, b})

MCNativePaths == {<<"v1">>}

MCPaths == {<<"api">>, <<"api", "v1">>, <<"apiary">>, <<"v1">>, <<"apiary", "v1">>,
            <<"api", "v1", "v1">>}
=============================================================================
