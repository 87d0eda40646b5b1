----------------------------- MODULE MCResponse -----------------------------
(***************************************************************************)
(* Instances of Response for TLC.  The chains hold both orders of          *)
(* RequestLogger and Recoverer, two Recoverers, and a foreign wrapper      *)
(* outside, between and inside them.  The errors take each way through     *)
(* ErrorWriter.problem at least once.                                      *)
(***************************************************************************)
EXTENDS Response

MCChains ==
  { <<>>, <<"recoverer">>, <<"logger">>,
    <<"logger", "recoverer">>, <<"recoverer", "logger">>,
    <<"recoverer", "logger", "recoverer">>,
    <<"foreign", "logger", "recoverer">>,
    <<"logger", "foreign", "recoverer">>,
    <<"recoverer", "foreign", "logger">>,
    <<"logger", "recoverer", "foreign">> }

Own(type, flag, header) == [type |-> type, flag |-> flag, header |-> header]

Pass       == [ok |-> FALSE, problem |-> Problem(500)]
Claim(p)   == [ok |-> TRUE, problem |-> p]
Detailed(p) == [p EXCEPT !.detail = "own"]

Error(own, form, problem, claims, canceled) ==
  [own |-> own, form |-> form, problem |-> problem, claims |-> claims,
   canceled |-> canceled]

Plain(claims) == Error(None, "other", Problem(500), claims, FALSE)

\* This package's errors, also under a matcher that would claim them.
OwnErrors ==
  {Error(own, "other", Problem(500), <<Claim(Problem(409)), Pass>>, FALSE) :
     own \in { Own("query", FALSE, "none"), Own("path", FALSE, "none"),
               Own("precondition", TRUE, "none"), Own("precondition", FALSE, "none"),
               Own("body", TRUE, "none"), Own("body", FALSE, "none"),
               Own("upload", TRUE, "Content-Length"),
               Own("upload", FALSE, "Content-Length"),
               Own("upload", FALSE, "Content-Type") }}

MCErrors ==
  OwnErrors \cup
  { Plain(<<Pass, Pass>>),
    Plain(<<Claim(Problem(409)), Claim(Problem(503))>>),
    Plain(<<Pass, Claim(Problem(400))>>),
    Plain(<<Claim(Problem(0)), Pass>>),
    Plain(<<Pass, Claim(Detailed(Problem(404)))>>),
    Error(None, "other", Problem(500), <<Pass, Claim(Problem(503))>>, TRUE),
    Error(None, "other", Problem(500), <<Pass, Pass>>, TRUE),
    Error(None, "problem", Problem(404), <<Claim(Problem(409)), Pass>>, FALSE),
    Error(None, "problem", Problem(0), <<Pass, Pass>>, FALSE),
    Error(None, "problem", Problem(400), <<Pass, Pass>>, FALSE),
    Error(None, "problem", [Problem(409) EXCEPT !.encodes = FALSE],
          <<Pass, Pass>>, FALSE) }

\* A nil *Problem, typed, is an error that is not nil.
NilProblem == {Error(None, "nil", Problem(500), <<Pass, Pass>>, FALSE)}
MCErrorsOrNil == MCErrors \cup NilProblem
=============================================================================
