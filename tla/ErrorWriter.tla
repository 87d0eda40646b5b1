---------------------------- MODULE ErrorWriter ----------------------------
(***************************************************************************)
(* ErrorWriter (errorwriter.go) and the errors that carry a status of      *)
(* their own (errors.go), as operators: which problem reports an error,    *)
(* whether the error's text is its detail, and at which level a 5xx's      *)
(* cause is logged.                                                        *)
(*                                                                         *)
(* An error is a record of what the code asks of it:                       *)
(*   own       the first of this package's errors in its chain, or None    *)
(*   form      "problem" for a Problem or a non-nil *Problem, "nil" for a  *)
(*             nil *Problem, "other" for any other error                   *)
(*   problem   that Problem                                                *)
(*   claims    what each matcher, in argument order, answers for it        *)
(*   canceled  errors.Is(err, context.Canceled)                            *)
(* A problem keeps its status, where its detail comes from ("none", its    *)
(* "own" or the error's "text") and whether its Extras can be encoded.     *)
(***************************************************************************)
EXTENDS Naturals, Sequences

None == [type |-> "none", flag |-> FALSE, header |-> "none"]

OwnErrorType ==
  [type : {"query", "path", "precondition", "body", "upload"},
   flag : BOOLEAN, header : STRING]

\* A problem reports an error: a status it names is an error's.
ProblemType ==
  [status : {0} \cup 400 .. 599, detail : {"none", "own"}, encodes : BOOLEAN]

ErrorType ==
  [own      : OwnErrorType \cup {None},
   form     : {"problem", "nil", "other"},
   problem  : ProblemType,
   claims   : Seq([ok : BOOLEAN, problem : ProblemType]),
   canceled : BOOLEAN]

\* The status() methods; flag is Missing of a PreconditionError and TooLarge
\* of a BodyError or an UploadError.
status(own) ==
  CASE own.type \in {"query", "path"}              -> 400
    [] own.type = "precondition" /\ own.flag       -> 428
    [] own.type = "precondition" /\ ~own.flag      -> 400
    [] own.type = "body" /\ own.flag               -> 413
    [] own.type = "body" /\ ~own.flag              -> 400
    [] own.type = "upload" /\ own.flag             -> 413
    [] own.type = "upload" /\ ~own.flag /\ own.header = "Content-Length" -> 411
    [] OTHER                                       -> 415

Problem(code) == [status |-> code, detail |-> "none", encodes |-> TRUE]

withStatus(p) == IF p.status = 0 THEN [p EXCEPT !.status = 500] ELSE p

\* The matchers that claim err, by position.
Claiming(err) == {i \in DOMAIN err.claims : err.claims[i].ok}

\* Mutated FirstClaim: the last matcher wins.
LastClaim(err) ==
  err.claims[CHOOSE i \in Claiming(err) : \A j \in Claiming(err) : j <= i]

FirstClaim(err) ==
  err.claims[CHOOSE i \in Claiming(err) : \A j \in Claiming(err) : i <= j]

Whole(err) == err.own = None /\ err.form = "problem"

\* (*ErrorWriter).problem: this package's errors, a returned Problem as it
\* is, the first matcher that claims the error, and otherwise a 500.
ProblemOf(err) ==
  CASE err.own # None                          -> Problem(status(err.own))
    [] Whole(err)                              -> withStatus(err.problem)
    [] OTHER                                   ->
         IF Claiming(err) # {} THEN withStatus(FirstClaim(err).problem)
                               ELSE Problem(500)

\* The statuses whose problems carry the error text, before Detail adds any.
BuiltInDetail == {400, 411, 413, 415, 428}

\* Mutated WithDetail: every status carries the error text.
WithDetailAlways(err, p, detail) ==
  IF ~Whole(err) /\ p.detail = "none" THEN [p EXCEPT !.detail = "text"] ELSE p

\* The error text becomes the detail where none was supplied and the status
\* is in the detail set, but never on a Problem that was returned whole.
WithDetail(err, p, detail) ==
  IF ~Whole(err) /\ p.detail = "none" /\ p.status \in detail
  THEN [p EXCEPT !.detail = "text"] ELSE p

\* The problem Write sends.
Answer(err, detail) == WithDetail(err, ProblemOf(err), detail)

\* Mutated CauseLogged: only the errors nothing claims are logged.
CauseLoggedUnclaimed(err) == ProblemOf(err).status = 500 /\ Claiming(err) = {}

\* Write logs the cause of a 5xx, before it sends anything.
CauseLogged(err) == ProblemOf(err).status >= 500

\* logCause: the client's own cancellation at debug, a 503 at warn, any other
\* 5xx at error.  gone says that the request's context has ended.
CauseLevel(err, gone) ==
  CASE err.canceled /\ gone -> "debug"
    [] ~(err.canceled /\ gone) /\ ProblemOf(err).status = 503 -> "warn"
    [] OTHER -> "error"

\* err.Error() panics on a nil *Problem, whose Error method needs a value.
TextPanics(err) == err.form = "nil"

\* The text is asked for by every log record about err, and for the detail.
WritePanics(err, detail) ==
  TextPanics(err) /\ (CauseLogged(err) \/ Answer(err, detail).detail = "text")
=============================================================================
