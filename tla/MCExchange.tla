----------------------------- MODULE MCExchange -----------------------------
(***************************************************************************)
(* An instance of Exchange for TLC.  The bodies are every short one and    *)
(* some of the length where a limit falls within a value, within what      *)
(* trails it, or on the boundary of either.                                *)
(***************************************************************************)
EXTENDS Exchange

MCBodies ==
  { <<>>, <<"space">>, <<"space", "space">>, <<"junk">>, <<"part", "junk", "end">>,
    <<"digit">>, <<"digit", "digit">>, <<"digit", "space", "digit">>,
    <<"space", "part", "end">>, <<"part", "end", "space">>, <<"part", "part">>,
    <<"part", "end", "junk">>, <<"part", "end", "space", "space", "junk">>,
    <<"end", "part", "end">>, <<"end", "part", "part", "end">>,
    <<"end", "digit", "digit", "digit">>, <<"digit", "digit", "digit", "digit">>,
    <<"end", "space", "space", "space">> }

MCDescribed ==
  { [tagged |-> TRUE,  dated |-> TRUE,  sized |-> TRUE,  length |-> 2],
    [tagged |-> TRUE,  dated |-> FALSE, sized |-> FALSE, length |-> 2],
    [tagged |-> FALSE, dated |-> TRUE,  sized |-> TRUE,  length |-> 0] }

MCCallers == {{}, {"Cache-Control", "Content-Disposition", "ETag"}}
=============================================================================
