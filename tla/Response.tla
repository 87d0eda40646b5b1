------------------------------ MODULE Response ------------------------------
(***************************************************************************)
(* One request through a chain of middleware: the Recorder that Handle,    *)
(* Recoverer and RequestLogger share (recorder.go), what the handler does  *)
(* with it, and the way back out, by a return, a panic or                  *)
(* http.ErrAbortHandler (handler.go, recoverer.go, logger.go).             *)
(*                                                                         *)
(* The writers stand in a stack, net/http's own response beneath them.     *)
(* The response is committed at net/http when it has a status, but is only *)
(* certain to reach the client once enough of it is written or flushed, or *)
(* when the handler chain returns: a panic drops what net/http still       *)
(* buffers.  The attributes of a log record other than its status and, for *)
(* an error's, its level are left out, and with them the debug level of a  *)
(* successful probe.                                                       *)
(***************************************************************************)
EXTENDS ErrorWriter

CONSTANTS
  Chains,   \* middleware chains, outermost first, of the elements of Layers
  Errors,   \* the errors a HandlerFunc may return
  Codes,    \* the codes a handler may give WriteHeader
  Reads,    \* how much a ReadFrom source holds: "nothing", "small", "large"
  Flushes,  \* how a flush may end: "ok", "unsupported", "broken", "stuck"
  Details,  \* the statuses ErrorWriter.Detail has added
  MaxOps    \* bound: how often a handler uses its writer

\* "foreign" is a middleware that wraps the writer in a type of its own.
Layers == {"recoverer", "logger", "foreign"}

\* 0 stands for no status: as a code it is one of those net/http refuses.
ASSUME ResponseAssumption ==
  /\ Chains \subseteq Seq(Layers)
  /\ Errors \subseteq ErrorType
  /\ Codes \subseteq Nat \ {0}
  /\ Reads \subseteq {"nothing", "small", "large"}
  /\ Flushes \subseteq {"ok", "unsupported", "broken", "stuck"}
  /\ MaxOps \in Nat

VARIABLES
  chain,    \* the middleware the handler is wrapped in
  adapted,  \* whether the innermost handler is a HandlerFunc under Handle
  mode,     \* where control is, and how it got there
  held,     \* for each layer entered, the height of its writer in the stack
  writers,  \* the stack of writers, outermost first
  wire,     \* net/http's response
  ops,      \* how often the handler has used its writer
  outcome,  \* history: how the handler ended, and what was committed then
  answers,  \* history: the problems handed to net/http, and over what
  logs      \* the records logged

vars == <<chain, adapted, mode, held, writers, wire, ops, outcome, answers, logs>>

Mode == {"down", "handler", "return", "panic", "abort", "complete", "cut"}

Done == mode \in {"complete", "cut"}

Unended == [kind |-> "running", clean |-> TRUE, err |-> [own |-> None]]

Init ==
  /\ chain \in Chains
  /\ adapted \in BOOLEAN
  /\ mode = "down"
  /\ held = <<>>
  /\ writers = <<>>
  /\ wire = [status |-> 0, sent |-> FALSE, broken |-> FALSE, stuck |-> FALSE,
             hijacked |-> FALSE]
  /\ ops = 0
  /\ outcome = Unended
  /\ answers = <<>>
  /\ logs = <<>>

-----------------------------------------------------------------------------
(***************************************************************************)
(* net/http's response                                                     *)
(***************************************************************************)

Valid(code) == code \in 100..999

\* A 1xx other than 101 is informational and commits nothing.
Final(code) == code \notin 100..199 \/ code = 101

BodyAllowed(code) == code \notin (100..199) \cup {204, 304}

\* WriteHeader panics on an invalid code, unless the response is committed
\* already or hijacked, when it is ignored.
HttpPanics(wi, code) == wi.status = 0 /\ ~wi.hijacked /\ ~Valid(code)

HttpWriteHeader(wi, code) ==
  IF wi.status = 0 /\ ~wi.hijacked /\ Valid(code) /\ Final(code)
  THEN [wi EXCEPT !.status = code] ELSE wi

\* net/http writes through two buffers, the response's own and beneath it the
\* connection's, and an error stays with the buffer that met it.  broken is
\* the connection's: a small body still goes into the response's buffer, and
\* its write succeeds, until that one has met the error too and is stuck.
HttpWriteFails(wi, size) ==
  \/ wi.hijacked \/ ~BodyAllowed(HttpWriteHeader(wi, 200).status)
  \/ wi.stuck \/ (wi.broken /\ size = "large")

Stuck(wi) == [wi EXCEPT !.stuck = TRUE]

\* A large body overflows the response's buffer, which sends the header and
\* what came before, or meets the connection's error.
HttpWrite(wi, size) ==
  LET headed   == HttpWriteHeader(wi, 200)
      overflow == size = "large" /\ ~wi.hijacked /\ BodyAllowed(headed.status)
  IN CASE ~overflow             -> headed
       [] overflow /\ wi.broken  -> Stuck(headed)
       [] overflow /\ ~wi.broken -> [headed EXCEPT !.sent = TRUE]

\* A flush commits before it writes, so one that fails on a broken
\* connection has committed too.  It fails as "stuck" when the response's
\* buffer had something to hand down that the connection refused.
HttpFlush(wi, result) ==
  LET headed == HttpWriteHeader(wi, 200)
  IN CASE result = "ok"          -> [headed EXCEPT !.sent = TRUE]
       [] result = "broken"      -> [headed EXCEPT !.broken = TRUE]
       [] result = "stuck"       -> Stuck([headed EXCEPT !.broken = TRUE])
       [] result = "unsupported" -> wi

\* The status the client receives, or 0 for none.
Client == IF wire.sent THEN wire.status ELSE 0

-----------------------------------------------------------------------------
(***************************************************************************)
(* Recorder                                                                *)
(***************************************************************************)

NewRecorder == [recorder |-> TRUE, committed |-> FALSE, status |-> 0]
Foreign     == [recorder |-> FALSE, committed |-> FALSE, status |-> 0]

Top(ws) == ws[Len(ws)]

\* WrapWriter reuses a Recorder and wraps any other writer in one.
WrapWriter(ws) ==
  IF ws # <<>> /\ Top(ws).recorder THEN ws ELSE Append(ws, NewRecorder)

\* Mutated Committing: the status is not recorded.
CommittingUnrecorded(w, code) ==
  IF w.recorder /\ ~w.committed THEN [w EXCEPT !.committed = TRUE] ELSE w

Committing(w, code) ==
  IF w.recorder /\ ~w.committed
  THEN [w EXCEPT !.committed = TRUE, !.status = code] ELSE w

\* A call passes through every writer of the stack, and every Recorder in it
\* that has recorded no status records this one.
Commit(ws, code) == [i \in DOMAIN ws |-> Committing(ws[i], code)]

\* A Recorder takes the first final code, before net/http has accepted it.
WriteHeader(ws, code) == IF Final(code) THEN Commit(ws, code) ELSE ws

Write(ws) == Commit(ws, 200)

\* A Recorder records a ReadFrom before it has read anything.  A source that
\* yields nothing, because it is empty or its first read fails, causes no
\* write beneath it.
ReadFrom(ws, size) ==
  IF size = "nothing"
  THEN [i \in DOMAIN ws |-> IF i = Len(ws) THEN Committing(ws[i], 200) ELSE ws[i]]
  ELSE Write(ws)

\* Mutated FlushError: a flush leaves the Recorder alone.
FlushErrorUnrecorded(ws, result) == ws

\* A Recorder records a flush only when the flush succeeded.
FlushError(ws, result) == IF result = "ok" THEN Commit(ws, 200) ELSE ws

\* Problem.Write on the top of the stack: the status, then the document.
\* It ends with the error the encoder or the writer gave, or in a panic.
ProblemWrite(p) ==
  LET headed == HttpWriteHeader(wire, p.status)
      marked == WriteHeader(writers, p.status)
  IN CASE HttpPanics(wire, p.status) ->
            [writers |-> marked, wire |-> headed, end |-> "panic"]
       [] ~HttpPanics(wire, p.status) /\ ~p.encodes ->
            [writers |-> marked, wire |-> headed, end |-> "error"]
       [] OTHER ->
            [writers |-> Write(marked),
             wire    |-> HttpWrite(headed, "small"),
             end     |-> IF HttpWriteFails(headed, "small") THEN "error" ELSE "ok"]

Answered(p) ==
  answers' = Append(answers, [status |-> p.status, detail |-> p.detail,
                              over |-> wire.status])

-----------------------------------------------------------------------------
(***************************************************************************)
(* Entering the chain                                                      *)
(***************************************************************************)

Depth == Len(held)
Layer == chain[Depth]

Entered(ws) == /\ writers' = ws
               /\ held' = Append(held, Len(ws))

\* Recoverer and RequestLogger wrap the writer and call the next handler.
EnterMiddleware ==
  /\ mode = "down"
  /\ Depth < Len(chain)
  /\ chain[Depth + 1] \in {"recoverer", "logger"}
  /\ Entered(WrapWriter(writers))
  /\ UNCHANGED <<chain, adapted, mode, wire, ops, outcome, answers, logs>>

EnterForeign ==
  /\ mode = "down"
  /\ Depth < Len(chain)
  /\ chain[Depth + 1] = "foreign"
  /\ Entered(Append(writers, Foreign))
  /\ UNCHANGED <<chain, adapted, mode, wire, ops, outcome, answers, logs>>

\* The innermost handler runs; Handle wraps the writer for its HandlerFunc.
EnterHandler ==
  /\ mode = "down"
  /\ Depth = Len(chain)
  /\ Entered(IF adapted THEN WrapWriter(writers) ELSE writers)
  /\ mode' = "handler"
  /\ UNCHANGED <<chain, adapted, wire, ops, outcome, answers, logs>>

-----------------------------------------------------------------------------
(***************************************************************************)
(* The handler                                                             *)
(***************************************************************************)

\* A handler that took the connection over leaves its writer alone.
Writing ==
  /\ mode = "handler"
  /\ ~wire.hijacked
  /\ ops < MaxOps
  /\ ops' = ops + 1
  /\ UNCHANGED <<chain, adapted, answers, logs>>

HandlerWriteHeader(code) ==
  /\ Writing
  /\ ~HttpPanics(wire, code)
  /\ writers' = WriteHeader(writers, code)
  /\ wire' = HttpWriteHeader(wire, code)
  /\ UNCHANGED <<mode, held, outcome>>

HandlerWrite(size) ==
  /\ Writing
  /\ writers' = Write(writers)
  /\ wire' = HttpWrite(wire, size)
  /\ UNCHANGED <<mode, held, outcome>>

HandlerReadFrom(size) ==
  /\ Writing
  /\ writers' = ReadFrom(writers, size)
  /\ wire' = IF size = "nothing" THEN wire ELSE HttpWrite(wire, size)
  /\ UNCHANGED <<mode, held, outcome>>

\* Only a foreign writer that does not unwrap has no flush, only a connection
\* that still works takes one, and only a response that has been committed
\* may have a body in its buffer.
HandlerFlush(result) ==
  /\ Writing
  /\ result = "ok" => ~wire.broken
  /\ result = "stuck" => wire.status # 0 /\ BodyAllowed(wire.status)
  /\ result = "unsupported" => \E i \in DOMAIN writers : ~writers[i].recorder
  /\ writers' = FlushError(writers, result)
  /\ wire' = HttpFlush(wire, result)
  /\ UNCHANGED <<mode, held, outcome>>

\* A hijack through http.ResponseController bypasses every Recorder.
HandlerHijack ==
  /\ Writing
  /\ wire' = [wire EXCEPT !.hijacked = TRUE]
  /\ UNCHANGED <<mode, held, writers, outcome>>

\* The stack as the next layer out sees it.
Beneath(ws) == SubSeq(ws, 1, IF Depth = 1 THEN 0 ELSE held[Depth - 1])

Left(ws) == /\ writers' = Beneath(ws)
            /\ held' = SubSeq(held, 1, Depth - 1)

Ended(kind, err) ==
  outcome' = [kind |-> kind, clean |-> wire.status = 0, err |-> err]

\* The handler panics, of itself or in a WriteHeader that net/http refuses.
HandlerPanics ==
  /\ mode = "handler"
  /\ \/ Left(writers)
     \/ \E code \in Codes :
          /\ ops < MaxOps
          /\ HttpPanics(wire, code)
          /\ Left(WriteHeader(writers, code))
  /\ mode' = "panic"
  /\ Ended("panic", Unended.err)
  /\ UNCHANGED <<chain, adapted, wire, ops, answers, logs>>

\* The handler panics with http.ErrAbortHandler.
HandlerAborts ==
  /\ mode = "handler"
  /\ Left(writers)
  /\ mode' = "abort"
  /\ Ended("abort", Unended.err)
  /\ UNCHANGED <<chain, adapted, wire, ops, answers, logs>>

\* The handler returns, or the HandlerFunc returns nil.
HandlerReturns ==
  /\ mode = "handler"
  /\ Left(writers)
  /\ mode' = "return"
  /\ Ended("nil", Unended.err)
  /\ UNCHANGED <<chain, adapted, wire, ops, answers, logs>>

Log(kind, code, level) == [kind |-> kind, status |-> code, level |-> level]

\* Handle logs an error returned after commit, and writes nothing.
ErrorAfterCommit(err) ==
  /\ Top(writers).committed
  /\ Left(writers)
  /\ \/ /\ ~TextPanics(err)
        /\ logs' = Append(logs, Log("afterCommit", Top(writers).status, "error"))
        /\ mode' = "return"
     \/ /\ TextPanics(err)
        /\ mode' = "panic"
        /\ UNCHANGED logs
  /\ UNCHANGED <<wire, answers>>

\* Otherwise the error writer logs the cause of a 5xx and writes the error as
\* a problem, and Handle logs what kept that problem from being written.
ErrorWritten(err) ==
  /\ ~Top(writers).committed
  /\ ~WritePanics(err, BuiltInDetail \cup Details)
  /\ LET p == Answer(err, BuiltInDetail \cup Details)
         result == ProblemWrite(p)
     IN /\ Answered(p)
        /\ wire' = result.wire
        /\ Left(result.writers)
        /\ \E gone \in BOOLEAN :
             logs' = logs
               \o (IF CauseLogged(err)
                   THEN <<Log("cause", p.status, CauseLevel(err, gone))>> ELSE <<>>)
               \o (IF result.end = "error"
                   THEN <<Log("writeFailed", Top(result.writers).status, "error")>>
                   ELSE <<>>)
        /\ mode' = IF result.end = "panic" THEN "panic" ELSE "return"

\* A log record or a detail that asks a nil *Problem for its text panics.
ErrorTextPanics(err) ==
  /\ ~Top(writers).committed
  /\ WritePanics(err, BuiltInDetail \cup Details)
  /\ Left(writers)
  /\ mode' = "panic"
  /\ UNCHANGED <<wire, answers, logs>>

\* The HandlerFunc returns an error to Handle.
HandlerReturnsError(err) ==
  /\ mode = "handler"
  /\ adapted
  /\ ErrorAfterCommit(err) \/ ErrorWritten(err) \/ ErrorTextPanics(err)
  /\ Ended("error", err)
  /\ UNCHANGED <<chain, adapted, ops>>

-----------------------------------------------------------------------------
(***************************************************************************)
(* Leaving the chain                                                       *)
(***************************************************************************)

Leaving(layer) ==
  /\ mode \in {"return", "panic", "abort"}
  /\ Depth > 0
  /\ Layer = layer
  /\ UNCHANGED <<chain, adapted, ops, outcome>>

\* Recoverer lets a return and http.ErrAbortHandler pass.
RecovererPasses ==
  /\ Leaving("recoverer")
  /\ mode \in {"return", "abort"}
  /\ Left(writers)
  /\ UNCHANGED <<mode, wire, answers, logs>>

\* Mutated RecovererAborts: the panic ends here.
RecovererSwallows ==
  /\ Leaving("recoverer")
  /\ mode = "panic"
  /\ Top(writers).committed
  /\ logs' = Append(logs, Log("panic", Top(writers).status, "error"))
  /\ mode' = "return"
  /\ Left(writers)
  /\ UNCHANGED <<wire, answers>>

\* Mutated RecovererAborts: the panic is raised again as it was.
RecovererReRaises ==
  /\ Leaving("recoverer")
  /\ mode = "panic"
  /\ Top(writers).committed
  /\ logs' = Append(logs, Log("panic", Top(writers).status, "error"))
  /\ Left(writers)
  /\ UNCHANGED <<mode, wire, answers>>

\* It logs a panic and, once the response is committed, aborts it.
RecovererAborts ==
  /\ Leaving("recoverer")
  /\ mode = "panic"
  /\ Top(writers).committed
  /\ logs' = Append(logs, Log("panic", Top(writers).status, "error"))
  /\ mode' = "abort"
  /\ Left(writers)
  /\ UNCHANGED <<wire, answers>>

\* Mutated RecovererAnswers: it answers whatever has been committed.
RecovererAnswersAlways ==
  /\ Leaving("recoverer")
  /\ mode = "panic"
  /\ LET p == [Problem(500) EXCEPT !.detail = "own"]
         result == ProblemWrite(p)
     IN /\ Answered(p)
        /\ wire' = result.wire
        /\ Left(result.writers)
        /\ logs' = Append(logs, Log("panic", 0, "error"))
  /\ mode' = "return"

\* Mutated RecovererAnswers: the problem is written but the panic goes on.
RecovererAnswersRaising ==
  /\ Leaving("recoverer")
  /\ mode = "panic"
  /\ ~Top(writers).committed
  /\ LET p == [Problem(500) EXCEPT !.detail = "own"]
         result == ProblemWrite(p)
     IN /\ Answered(p)
        /\ wire' = result.wire
        /\ Left(result.writers)
        /\ logs' = Append(logs, Log("panic", 0, "error"))
  /\ UNCHANGED mode

\* Otherwise it answers with a 500 problem, and logs a failure to write it.
RecovererAnswers ==
  /\ Leaving("recoverer")
  /\ mode = "panic"
  /\ ~Top(writers).committed
  /\ LET p == [Problem(500) EXCEPT !.detail = "own"]
         result == ProblemWrite(p)
     IN /\ Answered(p)
        /\ wire' = result.wire
        /\ Left(result.writers)
        /\ logs' = logs \o <<Log("panic", 0, "error")>>
             \o (IF result.end = "error"
                 THEN <<Log("writeFailed", Top(result.writers).status, "error")>>
                 ELSE <<>>)
  /\ mode' = "return"

\* Mutated LoggedStatus: a panic is taken for a handler that wrote nothing.
LoggedStatusOK ==
  IF Top(writers).committed THEN Top(writers).status ELSE 200

\* The status RequestLogger's deferred function logs.
LoggedStatus ==
  CASE Top(writers).committed                     -> Top(writers).status
    [] ~Top(writers).committed /\ mode = "return" -> 200
    [] OTHER                                      -> 500

\* RequestLogger logs one record, whichever way it is left, and recovers
\* nothing.
LoggerLogs ==
  /\ Leaving("logger")
  /\ logs' = Append(logs, Log("request", LoggedStatus, "info"))
  /\ Left(writers)
  /\ UNCHANGED <<mode, wire, answers>>

ForeignPasses ==
  /\ Leaving("foreign")
  /\ Left(writers)
  /\ UNCHANGED <<mode, wire, answers, logs>>

\* net/http ends a request whose handler returned: it sends what it buffers,
\* an implicit 200 if nothing was written.
FinishRequest ==
  /\ mode = "return"
  /\ Depth = 0
  /\ mode' = "complete"
  /\ wire' = IF wire.hijacked \/ wire.broken THEN HttpWriteHeader(wire, 200)
             ELSE [HttpWriteHeader(wire, 200) EXCEPT !.sent = TRUE]
  /\ UNCHANGED <<chain, adapted, held, writers, ops, outcome, answers, logs>>

\* It closes the connection under a panic, dropping what it buffers.
CutConnection ==
  /\ mode \in {"panic", "abort"}
  /\ Depth = 0
  /\ mode' = "cut"
  /\ UNCHANGED <<chain, adapted, held, writers, wire, ops, outcome, answers, logs>>

-----------------------------------------------------------------------------
Enter == EnterMiddleware \/ EnterForeign \/ EnterHandler

Handler ==
  \/ \E code \in Codes : HandlerWriteHeader(code)
  \/ \E size \in {"small", "large"} : HandlerWrite(size)
  \/ \E size \in Reads : HandlerReadFrom(size)
  \/ \E result \in Flushes : HandlerFlush(result)
  \/ HandlerHijack
  \/ HandlerPanics \/ HandlerAborts \/ HandlerReturns
  \/ \E err \in Errors : HandlerReturnsError(err)

Leave ==
  \/ RecovererPasses \/ RecovererAborts \/ RecovererAnswers
  \/ LoggerLogs \/ ForeignPasses
  \/ FinishRequest \/ CutConnection

Next == Enter \/ Handler \/ Leave

Spec == Init /\ [][Next]_vars

-----------------------------------------------------------------------------
(***************************************************************************)
(* Properties                                                              *)
(***************************************************************************)

TypeOK ==
  /\ chain \in Chains
  /\ adapted \in BOOLEAN
  /\ mode \in Mode
  /\ Depth \in 0 .. Len(chain) + 1
  /\ \A i \in DOMAIN held : held[i] \in 0 .. Len(writers)
  /\ \A i \in DOMAIN writers :
       /\ writers[i] \in [recorder : BOOLEAN, committed : BOOLEAN, status : Nat]
       /\ writers[i].committed = (writers[i].status # 0)
  /\ wire \in [status : Nat, sent : BOOLEAN, broken : BOOLEAN, stuck : BOOLEAN,
              hijacked : BOOLEAN]
  /\ ops \in 0 .. MaxOps
  /\ outcome.kind \in {"running", "nil", "error", "panic", "abort"}

Logged(kind) == {i \in DOMAIN logs : logs[i].kind = kind}

\* Every Recorder on the stack agrees with net/http: it has committed exactly
\* when the response has, with the same status.  What Handle, Recoverer and
\* RequestLogger decide rests on it.
RecorderMatchesWire ==
  ~wire.hijacked =>
    \A i \in DOMAIN writers :
      writers[i].recorder =>
        /\ writers[i].committed = (wire.status # 0)
        /\ writers[i].status = wire.status

\* The reply the client is promised, under every order of the chain.
Promise == INSTANCE Reply WITH
  chosen   <- wire.status,
  sent     <- wire.sent,
  taken    <- wire.hijacked,
  problems <- Len(answers),
  end      <- IF Done THEN mode ELSE "open"

\* Two handlers of a failure, Handle and Recoverer, may both act on one
\* request, and every writer of the stack may record a status, yet the client
\* is promised one reply: no problem is written over a status or another
\* problem, no status changes, and nothing follows the end.
ImplementsReply == Promise!Spec

\* Whatever the order of the chain and however the handler ended, every
\* status logged by RequestLogger is the one the client received, if it
\* received one.
LogMatchesClient ==
  Done /\ Client # 0 => \A i \in Logged("request") : logs[i].status = Client

\* A request whose handler panicked or aborted never looks like a success:
\* its connection is cut, unless nothing was committed and a Recoverer
\* answered with a 500.
PanicNeverLooksComplete ==
  mode = "complete" /\ outcome.kind \in {"panic", "abort"}
    /\ ~wire.hijacked /\ ~wire.broken
    => outcome.kind = "panic" /\ outcome.clean /\ Client = 500

\* recoverer.go:12: "Recoverer recovers a handler panic ... It then writes a
\* 500 problem or, when the response is already committed, re-raises": with
\* nothing committed, the client of a chain that holds a Recoverer gets the
\* 500, wherever in the chain it stands.
PanicAnswered ==
  /\ Done /\ outcome.kind = "panic" /\ outcome.clean /\ ~wire.hijacked
  /\ \E i \in DOMAIN chain : chain[i] = "recoverer"
  => Client = 500

\* However many Recoverers a chain nests, a panic is logged once, and
\* http.ErrAbortHandler never.
PanicLoggedOnce ==
  Done /\ outcome.kind \in {"panic", "abort"} =>
    \A i, j \in Logged("panic") : i = j /\ outcome.kind = "panic"

\* handler.go:9: "a non-nil return is written as a problem by the ErrorWriter
\* the handler is adapted with": when nothing was committed, the client gets
\* the status of the problem that reports the error, from this package's
\* error anywhere in its chain, a returned Problem, or the first matcher that
\* claims it, whatever the others would say.
ErrorAnswered ==
  /\ Done /\ outcome.kind = "error" /\ outcome.clean /\ ~wire.hijacked
  => LET err == outcome.err
         claimed == {i \in DOMAIN err.claims : err.claims[i].ok}
     IN \/ err.own # None /\ Client = status(err.own)
        \/ /\ err.own = None
           /\ err.form = "problem"
           /\ Client \in {err.problem.status, 500}
           /\ Client = 500 => err.problem.status \in {0, 500}
        \/ /\ err.own = None
           /\ err.form # "problem"
           /\ claimed = {} /\ Client = 500
        \/ /\ err.own = None
           /\ err.form # "problem"
           /\ \E i \in claimed :
                /\ \A j \in claimed : i <= j
                /\ Client = withStatus(err.claims[i].problem).status

\* A returned error does not vanish: the client is told of it with a 4xx; or
\* a record at warn or error says it, save when the client itself cancelled;
\* or it is a nil *Problem, whose text panics on the way to either, and the
\* panic is logged by a Recoverer or, without one, cuts the connection.  The
\* exception is a 4xx for a client that a flush has found gone: its problem
\* goes into the response's buffer and no write fails, so nothing is logged.
ErrorNotLost ==
  Done /\ outcome.kind = "error" =>
    \/ Client \in 400 .. 499 /\ answers # <<>>
    \/ \E i \in DOMAIN logs :
         /\ logs[i].kind \in {"cause", "afterCommit", "writeFailed"}
         /\ logs[i].level \in {"warn", "error"} \/ outcome.err.canceled
    \/ outcome.err.form = "nil" /\ (mode = "cut" \/ Logged("panic") # {})
    \/ wire.broken /\ ~wire.stuck /\ ~CauseLogged(outcome.err)

\* errorwriter.go:51: "every other status sends no error text, so an internal
\* error's text never reaches the wire by default": an error that is none of
\* this package's and that no matcher claims keeps its text inside.
InternalTextStaysInside ==
  /\ outcome.kind = "error" /\ outcome.err.own = None
  /\ Claiming(outcome.err) = {} /\ 500 \notin Details
  => \A i \in DOMAIN answers : answers[i].detail # "text"
=============================================================================
