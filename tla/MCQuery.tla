------------------------------ MODULE MCQuery ------------------------------
(***************************************************************************)
(* Requests for TLC: every combination of the four reserved parameters     *)
(* around their bounds, and every set of up to three filter keys, the      *)
(* malformed ones of each form included.  MaxInt is small, so that the     *)
(* last addressable page is within the values tried.                       *)
(***************************************************************************)
EXTENDS Query

MCNames == <<"created", "cursor", "gte", "lt", "name", "page", "size", "sort">>

Word    == [kind |-> "word", n |-> 0, tokens |-> <<>>]
Number(n) == [kind |-> "int", n |-> n, tokens |-> <<>>]
Token(field, desc) == [field |-> field, desc |-> desc]
Tokens(tokens) == [kind |-> "list", n |-> 0, tokens |-> tokens]

\* A parameter the request may lack: no pair, or the pair of key and values.
Optional(key, lists) == {<<>>} \union {key :> list : list \in lists}

Numbers(hi) == {<<Empty>>, <<Empty, Number(2)>>, <<Word>>}
                 \union {<<Number(n)>> : n \in -1..hi}

Sorts == { <<Tokens(<<Token("name", FALSE), Token("created", TRUE)>>)>>,
           <<Empty, Tokens(<<Token("name", TRUE)>>)>>,
           <<Tokens(<<Token("name", FALSE), Token(Nameless, FALSE)>>)>> }

Addresses ==
  {onPage @@ atCursor @@ ofSize :
     onPage \in Optional(<<"page">>, Numbers(9)),
     atCursor \in Optional(<<"cursor">>, {<<Empty>>, <<Word>>}),
     ofSize \in Optional(<<"size">>, Numbers(4))}

Keys ==
  { <<>>, <<"name">>, <<"created">>, <<"created", "[", "gte", "]">>,
    <<"created", "[", "lt", "]">>, <<"page", "[", "lt", "]">>,
    <<"name", "[">>, <<"name", "]">>, <<"name", "]", "gte", "[">>,
    <<"[", "gte", "]">>, <<"name", "[", "]">>,
    <<"name", "[", "gte", "]", "[", "lt", "]">>,
    <<"name", "[", "gte", "]", "lt">>, <<"name", "[", "gte">> }

Filtered ==
  {[key \in keys |-> IF key = <<"name">> THEN <<Empty>> ELSE <<Word>>]
     @@ (<<"page">> :> <<Number(2)>>) @@ sorted :
     keys \in UNION {kSubset(n, Keys) : n \in 1..3},
     sorted \in Optional(<<"sort">>, Sorts)}

MCQueries == Addresses \union Filtered

MCPolicies ==
  { [defaultSize |-> 2, maxSize |-> 3, cursor |-> TRUE],
    [defaultSize |-> 2, maxSize |-> 3, cursor |-> FALSE],
    [defaultSize |-> 1, maxSize |-> 1, cursor |-> TRUE],
    [defaultSize |-> 0, maxSize |-> 3, cursor |-> TRUE],
    [defaultSize |-> 2, maxSize |-> 1, cursor |-> TRUE] }

=============================================================================
