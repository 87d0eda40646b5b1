# Verification of go-web-sdk

TLA+ models of `github.com/standards-lab/go-web-sdk`, the TLC configurations that check them on small instances, and
TLAPS proofs of what matters most for instances of any size. Every definition is translated from the Go source beside
this directory; `PROJECT.json` maps each to the lines it models. Code outside the repository (net/http, go-core's
lifecycle, `net/url`, `strconv`) is modelled from how this code uses it and is marked external there.

    tlc -config Server_safety.cfg MCServer.tla      # any run: the cfg names below
    tlapm ServerProofs.tla                          # any module named *Proofs

## 1. The system

go-web-sdk is a library between an application and net/http. Its parts, the state each keeps and how they meet:

| Part | Source | State | Operations | Meets |
|---|---|---|---|---|
| Server | `server.go` | mutex, listener, `errs` channel, the inner `http.Server` | `NewServer`, `Start`, the serving goroutine, `Err`, `Addr`, `Shutdown` | a lifecycle Coordinator calls it; net/http owns connections and handlers |
| Recorder | `recorder.go` | `status`, `committed` per request | `WrapWriter`, `WriteHeader`, `Write`, `ReadFrom`, `FlushError`/`Flush`, `Unwrap` | shared by `Handle`, `RequestLogger`, `Recoverer` |
| Error handling | `handler.go`, `errorwriter.go`, `errors.go`, `problem.go` | matchers, detail statuses | `Handle`, `ErrorWriter.Problem/Write/Detail`, `Problem.Write/WriteFor` | writes through the Recorder, logs |
| Recoverer, RequestLogger | `middleware/recoverer.go`, `middleware/logger.go`, `middleware.go` | none but the Recorder | one wrapper each, `Chain` | panics unwind through both |
| Health probes | `health.go` | none; reads a `Doctor` | `Liveness`, `Readiness`, `RegisterHealth` | go-core's lifecycle |
| Read contract | `query.go` | none | `ParseQuery`, `parseFilterKey` | `QueryError` reaches `ErrorWriter` |
| Configuration | `config.go` | optional fields | `Merge`, `Finalize`, `Transfer` | `NewServer`, `Transfer` |
| Transfer | `transfer.go` | limit, rate, grace | `Duration`, `WidenUpload`, `WidenDownload` | a connection's deadlines |
| Routing | `router.go`, `group.go`, `module.go`, `miss.go` | routes, groups, seal, modules | `Handle`, `Use`, `Mount`, `NewModule`, `ServeHTTP` | `http.ServeMux` |
| Objects, pages | `response.go` | none | `WriteObject`, `WriteJSON`, `NewPage`, `Attachment` | an open callback, response headers |
| Request bodies | `request.go` | none | `DecodeJSON`, `ReadUpload`, `IfMatch`, `PathUUID` | `BodyLimit` outside |
| Other middleware | `middleware/*.go`, `requestid.go` | none | `RequestID`, `Timeout`, `BodyLimit`, `Headers`, `ContentType`, `Maybe`, rate limit | the request and its context |
| Test support | `webtest/`, `internal/handlertest/` | an HTTP client | | a running server |

What is hard here, and what makes each part correct:

- **Server.** Calls race: two `Start`s, `Shutdown` against the goroutine `Start` spawned, two `Shutdown`s with
  different deadlines, a connection accepted or a request read as a drain begins. Correct: it starts once; `Err` carries
  a failure exactly when there was one and always closes; a nil `Shutdown` means drained; an expired one leaves no
  tracked connection; the port is released; `Shutdown` returns; no request meets a dependency that is down.
- **Response path.** Returns, errors, panics and `http.ErrAbortHandler` unwind through any chain while the response may
  be uncommitted, committed in a buffer, or on the wire. Correct: the Recorder agrees with the wire, one response is
  sent, what is logged is what was sent, a panic never looks like success, an error is answered or logged while anyone is
  there to answer, and internal text stays inside.
- **Problem documents.** Requests that run at once hold one declared problem and its map, a correlation id is added to it,
  and its members may override the standard ones. Correct: no request writes into another's document, and a client reads
  back the status, and a conforming problem whole.
- **Probes.** A probe is not atomic: it lists the checks, asks them in turn, and answers, while the lifecycle is bound,
  started and drained and other probes run. Correct: every reported state was true during the probe, no probe mixes with
  another, and an unbound lifecycle is never ready.
- **Reads.** A bound on two numbers whose product must fit an int, and a map whose order varies. Correct: the offset
  fits, the read is where it was asked, and acceptance and filters do not depend on the order.
- **Configuration and deadlines.** A field may be unset, zero or set by several sources, and Finalize may fail half-way;
  a handler then moves a connection's deadlines while net/http moves them too, over several requests. Correct: the last
  setting wins and an explicit zero survives; a disabled timeout is never enabled; widening never shortens; a body that
  keeps the rate is never cut.
- **Routing.** Groups are shared, nested, sealed and compiled in any order, a compilation may panic half-way, and the sort
  that orders modules is not stable. Correct: a request is served by the longest prefix, with exactly what its tree
  declares.
- **Bodies and objects.** A body comes in chunks through two limits, and the end of either may come with a value, in what
  trails it, or after it; an object changes while clients hold validators, and its copy fails after the status is sent.
  Correct: the verdict on a body is decided by its bytes; a client never takes a problem or a part for the object.

`PROJECT.json` lists every hazard at its line with the properties that cover it.

## 2. The modules

| Module | Models | Checked by | Proofs |
|---|---|---|---|
| `Server` | `server.go` and the part of `http.Server` it relies on | `MCServer` | `ServerProofs` |
| `Subsystem` | what a Coordinator is promised of the server, abstractly | `Server` implements it | `ServerProofs` |
| `Lifecycle` (extends `Server`) | the server above what its handlers use, under a Coordinator | itself | `ServerProofs` |
| `ErrorWriter` | the pure mapping of an error to a problem, its detail and its log level | through `Response` | through `Response` |
| `Response` (extends `ErrorWriter`) | a request through Recorder, Handle, Recoverer, RequestLogger | `MCResponse` | `ResponseProofs` |
| `Reply` | what a client is promised of one reply, abstractly | `Response` implements it | `ResponseProofs` |
| `Readiness` | the readiness probe over a lifecycle | through `Documents`; `MCReadiness` for section 4 | `ReadinessProofs` |
| `Problem` | a problem's defaults, id and JSON, as operators | through `Documents` | through `Documents` |
| `Documents` (extends `Readiness`, `Problem`) | the problem documents of concurrent requests | `MCDocuments` | `ReadinessProofs` |
| `Query` | `ParseQuery` | `MCQuery` | `QueryProofs` |
| `Config` | `web.Config`, as operators | through `Transfer` | through `Transfer` |
| `Transfer` (extends `Config`) | a Config merged and finalized, a Transfer, and a connection's deadlines | `MCTransfer` | `TransferProofs` |
| `Routing` | groups, modules, the router, and what a request meets | `MCRouting` | `RoutingProofs` |
| `Body` | `DecodeJSON` and `ReadUpload` over a body in chunks, under `BodyLimit` | through `Exchange` | through `Exchange` |
| `Object` | `WriteObject`, step by step | through `Exchange` | through `Exchange` |
| `Exchange` (extends `Body`, `Object`) | a client's exchanges with handlers of both kinds, under `Handle` and `Recoverer` | `MCExchange` | `ExchangeProofs` |
| `SequenceLemmas` | nothing: facts about sequences that the proofs of `Query`, `Response` and `Routing` share | | itself |

A definition whose comment begins with "Mutated", or that stands just before the one it varies and has its name with
a suffix, is not part of the model: it is a plausible bug, used to show that a property fails when the code has it.

### Server

Each call of `Start` and `Shutdown` is made by its own goroutine, at most once: a `Server` is single-use, and a second
call is another element of the set. `start[c]` and `stop[c]` say how far a call has got; every place where another
goroutine can interleave is a step of its own: the mutex is taken and the bind begins (`StartBinds`), the bind ends
(`StartFails`, `StartServes`), the goroutine reaches `Serve` (`ServeEnters`), the accept loop fails and unregisters its
listener (`ServeStops`, `ServeFails`), `Serve` closes the listener and returns (`ServeLeaves`), the failure is sent
(`ServeReports`), the channel closes (`ServeCloses`); `Shutdown` reads the listener (`ShutdownUnstarted`,
`ShutdownStarted`), marks the shutdown (`HttpShutdown`), closes the registered listener (`CloseListeners`), waits for
the accept loop (`ListenerGroupWait`), polls (`CloseIdleConns`, `PollAgain`), and ends by its context (`CtxExpires`,
`HttpClose`). `errs` is the one-place channel.

A connection goes from the kernel's backlog through net/http's states. The mark and the listener's close are two steps,
and so are the return of `Accept` and the tracking of what it returned (`Track`), so a connection may be accepted,
tracked and read from once a shutdown has begun; the drain waits for the accept loop before it first polls, and so
polls what was tracked. The connection's goroutine reads a request while the connection still counts as new or idle
(`ReadRequest`), so the drain or `Close` may close it under the read. The request read, the goroutine marks the
connection active (`Activate`) and, as net/http does since Go 1.24 (`go.mod` names a later one), looks for a shutdown
again (`CheckShutdown`): it drops the request in one, and otherwise calls the handler (`ServeHTTP`). A `Close` can still
come between the last two. `broke` and `delivered` are history variables that only properties read.

`Subsystem` keeps what a Coordinator sees: whether the server is down, up or over, what each call returned, and what
`Err` delivers. `Contract` in `Server` is the mapping: the server is up from the step that spawns the serving goroutine
to the step that closes the channel. `Lifecycle` puts a dependency under the server: it is started before `Start` is
called, `Shutdown` is called only after `Start` returned nil, and the dependency is shut down once any `Shutdown` has
returned, with nil or an error.

### Response and ErrorWriter

`writers` is the stack of `ResponseWriter`s, each a Recorder or a foreign wrapper, with net/http's response (`wire`)
beneath; `held` says which of them each layer entered writes to, so that `WrapWriter` sharing one Recorder, or making
another above a foreign wrapper, is what the code does. `mode` is where control is: going down the chain, in the
handler, or unwinding by a return, a panic or an abort. The handler uses its writer up to `MaxOps` times, then ends one
way; each layer then runs its deferred code. `wire.sent` tells a response certain to reach the client from one still in
net/http's buffers, which a panic drops. There are two of those, and an error stays with the one that met it: a flush that
fails breaks the connection's (`wire.broken`), and later a small body still goes into the response's own and its write
succeeds, unless that one has met the error too (`wire.stuck`), in the same flush or in a body too large for it. `answers`, `logs` and `outcome` are the history the properties are about.
`ErrorWriter` holds the mapping as operators, in the order of `problem`: this package's errors, a returned `Problem`,
the first matcher that claims, 500. An error is abstracted to which of these it is, what its matchers say, and whether
the client cancelled. `Reply` forgets the chain: one status is chosen, once, at most one problem reports a failure and
only while nothing was chosen, and nothing changes once the reply has ended. `Promise` in `Response` is the mapping.

### Readiness

A probe lists the checks and begins (`Begin`), asks one check per step (`AskNext`), and answers (`AnswerReady`, or
`CopyExtras` then `AnswerNotReady`). `mount` chooses between `Readiness` over fixed checks and `RegisterHealth` over a
`lifecycle.Readiness`. `Bind`, `Run` and `Toggle` are the environment. `seen` and `missed` record which checks were
ready, or unready, at some moment of each probe.

### Problem and Documents

A `Problem` is a record of its fields; its Extras, and a JSON document, are functions from member names to values.
`MarshalJSON` puts the Extras over the standard members and the status over both. `UnmarshalJSON` reads a field from
every member with its name in any case, as `encoding/json` does, in the document's order (`Field`), and keeps what is
left as Extras. `WriteFor` is what it makes of the problem it was called on, `Write`'s defaults included.

In `Documents` a probe that is not ready and handlers that fail hold problems at once. Go copies a `Problem` by value
and shares its map, so `held[r]` is the request's copy and `owned[r]` says whether its Extras are a map of its own:
until they are, `Extras(r)` reads the program's map, `given`, as it is at that moment. The copy for the probe's checks
(`ProbeFails`), the copy for the id (`Stamp`) and the encoding (`Encode`) are steps of their own, so other requests come
between. Any correlation id, or none, comes with a request, which stands for whatever `RequestID` finds. A handler fails
with any declared problem: a problem that a matcher returns is shared in the same way, and which errors become which
problem is `ErrorWriter`'s. Encoding always succeeds here; `Response` models an encoding that fails.

### Query

The parser's parts are the values of `pc`; the range over the map takes any key not yet taken. A key is the sequence of
its brackets and the names between them, which is all `parseFilterKey` looks at; two names never adjoin
(`QueryAssumption`). `InOrder` is every order `slices.SortFunc`, which is not stable, may leave. `MaxInt` is a constant,
so the bound on the page is checked at a small integer width and proved for every one.

### Config and Transfer

A Config is a function from its fields to a number or `Unset`. `Merge`, `applyDefaults`, `applyEnv`, `validate` and
`finalized` are operators named as in the code; `EnvRead` is the part of the overrides read before the first that does
not parse, so `Finalize` gives the Config a failed one leaves behind, which `NewServer` and `Transfer` accept (`Wire`).
`Transfer` then serves a keep-alive connection. A deadline is the ticks left until it. `HeadRead`, `Arrive` and `Finish`
set the deadlines as net/http does from the server's timeouts; `WidenUpload` and `WidenDownload` set them as the code
does, with every way it may fail (`WidenFails`) or have none to set (`WidenUnsupported`); `Tick` is the clock. The
division of a size by the rate is cut down to a whole tick, as the code's is to a nanosecond: a body is on time while it
is within that tick of the rate, so MCTransfer has a rate that does not divide a second. `slow` and `heard` record
whether the body has fallen behind the rate and whether its writer has deadlines to set.

### Routing

The actions are the wiring's calls. One that panics without a trace, such as one on a sealed group, is not a step;
compilation is one step for each call of `compile`, whose pending calls are `work`, because one may panic
(`compilePanics`) with some groups sealed and no module built. A route's entry carries the chain it was registered with;
`Serve` says what a request passes and where it ends. Mounting leaves the modules in any order `slices.SortFunc` may
(`Orders`). A prefix is a sequence of segments, with the relation `Begins` for the texts that begin others, so that
`/api` and `/apiary` differ in `matches` as they do in the code. Groups are mounted only under shallower ones (`Depth`):
a cycle of groups makes `compile` recurse for ever.

### Body, Object and Exchange

A body is a sequence of kinds of bytes (`Body`); a byte that cannot stand where it does in a value is refused before the
value ends. It arrives by any number of `Read`s through two `MaxBytesReader`s, and
`Decoded` is what `DecodeJSON` makes of what it has so far. `Object` takes `WriteObject` one step for each place it can
fail: the preconditions, `open`, each part of the copy, its end. `Exchange` makes both part of exchanges in which the
client keeps what it got whole, asks again with its validators, and the object changes at any moment; `Handle` answers
an error before commit and logs one after it, and net/http cuts a reply that is short of its declared length (`Finish`).

## 3. What is checked

Bounds are named constants of each module, given values in the cfg.

| Run | Module, cfg | Shows |
|---|---|---|
| `server_safety` | `MCServer`, `Server_safety.cfg` | 2 Starts, 2 Shutdowns, 2 connections, all interleavings: `DrainIsComplete`, `CutClosesConnections`, `ShutdownLeavesNoListener`, and the refinement `ImplementsSubsystem`, by which `Err` carries a failure exactly when there was one. `DrainIsComplete` is about drains with no deadline cut: `Close` empties the table that another `Shutdown` polls, and the code promises nothing there. Two of each kind is the least at which they race; symmetry is sound because they are interchangeable and no liveness is checked. |
| `server_liveness` | `MCServer`, `Server_liveness.cfg` | 1 Start, 2 Shutdowns, 1 connection, no symmetry: `ShutdownReturns`, `ServingEnds`. |
| `lifecycle` | `Lifecycle`, `Lifecycle_drain.cfg` | 1 Start, 2 Shutdowns, 2 connections and a dependency: `RequestsUseWhatRuns`, that no request reaches a handler before what it uses has started or after it has shut down (`doc.go:46-48`). Two Shutdowns, so that one drains while another cuts; two connections, so that one is accepted or read from while the other keeps the drain from ending. The exception is in the property: `Close` may cut off a request between net/http's last look for a shutdown and the handler's call, and `server.go:129` has nothing wait for it. |
| `response_chain` | `MCResponse`, `Response_chain.cfg` | 10 chains, 20 errors, 2 writes: the Recorder matches the wire (`RecorderMatchesWire`), the log names the client's status (`LogMatchesClient`), panics and errors are answered (`PanicAnswered`, `ErrorAnswered`), an unclaimed error's text is not sent (`InternalTextStaysInside`), and the chain implements one reply (`ImplementsReply`). |
| `response_edges` | `MCResponse`, `Response_edges.cfg` | Also invalid codes, empty sources, nil problems, flushes that break the connection with or without the response's own buffer, and 3 uses of the writer: `PanicNeverLooksComplete`, `PanicLoggedOnce`, `ErrorNotLost`. The third use is a write after a flush after a write. The first is about a connection still net/http's and unbroken; the last has the exception that section 4 gives. |
| `documents_probes` | `MCDocuments`, `Documents_probes.cfg` | 2 probes of the lifecycle and a check, 1 failing handler, 2 problems whose Extras hold members that are replaced and standard members in two spellings: `VerdictsWereTrue` (each check by itself: a probe promises no consistent whole), `DocumentsAreOwn`, `ReadsAsWritten`. A probe's copy races another probe's and the handler's shared map. One id and none are the two ways a map is copied or shared; a request without an id would show any other's. |
| `query_parse` | `MCQuery`, `Query_parse.cfg` | About 2,300 requests around every bound under 5 policies with `MaxInt` 8: `OffsetFits`, `ReadsWhereAsked`, `FiltersDetermined`, `RejectsOnlyFaults`. |
| `transfer` | `MCTransfer`, `Transfer_deadlines.cfg` | Up to 2 merged layers, 4 environments (one that does not parse, two that do not validate), limits 0 and 4, sizes on both sides of both and one that saturates, 12 ticks in a phase: `LastSettingWins`, `DisabledStaysDisabled`, `RateIsEnough`, `WideningNeverShortens`. |
| `routing` | `MCRouting`, `Routing_wiring.cfg` | 2 groups of which one may nest, a raw handler under a longer prefix, 4 declarations, 2 error writers, 2 modules: `LongestPrefixServes`, `ServedAsDeclared`. Four declarations are a nesting, a middleware, a route, and one made too late; or a writer, a route adapted with it, and another writer. |
| `exchange` | `MCExchange`, `Exchange_replies.cfg` | 2 requests, 16 bodies of up to 5 bytes under limits of 2 and 3, 3 kinds of object that change twice: `BodyDetermined`, `ProblemIsNotTheObject`, `TruncationShows`, `FreshMeansCurrent`. The second request is the one with validators. |
| `response_emptyread`, `readiness_alone` | | One violated property each: section 4. |

Each of these that passes also checks its module's `TypeOK` (`DocumentsTypeOK` for `Documents`), or is a second run of a
module whose first run does; `Lifecycle`'s one variable has its type in `ServerProofs`. The largest runs are `routing`
(1.5 million states), `lifecycle` and `server_safety` (under 0.4 million each). `Response` needs two writes for a response that is written and then flushed or continued;
two Recoverers, a logger between them, and a foreign wrapper at each height are the chains at which sharing or not
sharing a Recorder differs. `Transfer` needs no bound on requests: a connection's state is finite, and a run visits
every number of them.

`CHECK_DEADLOCK FALSE` is set where the system may stop: a server whose calls have all been made, a request that has
ended, a parse that has returned, a connection that is closed, a wiring or a client that has nothing left to do. Probes
never stop, and their runs check for deadlock.

**Fairness.** `Scheduling` says that a goroutine that can run does: weakly fair steps of the serving goroutine and of
calls under way, down to each of net/http's steps in `Serve`, in `Shutdown` and between `Accept` and the tracking of a
connection. `CtxExpires` is strongly fair because the poll loop's `select` keeps alternating with the poll, and Go
chooses at random among ready cases. Nobody is obliged to call `Shutdown`, to connect or to send, and no bind need
fail. `ShutdownReturns` assumes either that callers' contexts end (`ContextsEnd`) or that requests that were read go on, handlers return and
net/http's clock ages a connection that never sends, its five-second rule (`HandlersEnd`); `ServingEnds` assumes
neither. The assumptions are part of the property, so one behaviour with neither is no excuse for the other.

## 4. Where the code and its comments disagree

Each is a run whose single property restates the comment, and which TLC violates.

1. `response_emptyread`: `ReadFrom` records a commit before reading. If the source yields nothing and the handler
   returns the read's error, nothing is answered and net/http sends an empty 200 (`recorder.go:60`, `handler.go:10-11`).
2. `readiness_alone`: the checks are read before the lifecycle's own readiness; a bind and start between the two yield
   200 with `lifecycle` alone (`health.go:110`, `health.go:102-103`).

Others have no run. The first three can be seen in `Response`: let `Flushes` contain "broken" and check
`ImplementsReply`; let `Codes` contain 42 and check `PanicAnswered`; let `Errors` be `MCErrorsOrNil` and check
`ErrorAnswered`.

- net/http commits before its flush can fail, but `FlushError` records nothing on failure, and a problem is then written
  into the response (`recorder.go:79`, `handler.go:15-16`). That write goes into the response's buffer and succeeds, so
  `Handle` logs no failed write (`handler.go:38-45`); a cause that is not logged as such, an unremarkable 4xx's, is then
  neither received, the client being gone, nor logged. It is the one way an error disappears, and `ErrorNotLost`'s exception.
- An invalid status is recorded before net/http panics on it, so `Recoverer` aborts an uncommitted response instead of
  answering 500 (`recorder.go:45`, `recoverer.go:13-14`).
- A nil `*Problem` is mapped to a 500, but logging its cause calls `Error` on it and panics before anything is written
  (`errorwriter.go:126`, `errorwriter.go:61-63`).
- `logger.go:39-40` says of a committed status that "the client got this status": one that was written, not flushed, and
  then lost to a panic was not received; `LogMatchesClient` is therefore about clients that received a status.
- `query.go:48-49` says "an empty parameter value reads as omitted": an empty filter value is kept.
- `response.go:99` clears "every representation header" when `open` fails; the list at `response.go:150` has no
  Content-Language or Content-Location, and a Content-Type the problem replaces. A panic of `open` clears nothing, so the
  Recoverer's 500 carries the object's validators and the caller's Cache-Control. `ProblemIsNotTheObject` is therefore
  about the list, and about an error.
- `request.go:85` says that what is not a token is trailing data too: a string or number the body ends within is
  reported as an unexpected end of the input, since the decoder does not call that a syntax error. It is refused with a
  400 all the same, which is what `BodyDetermined` says.
- A Transfer of `NewTransfer` sets a write deadline on a server that has no write timeout to renew it, and the next
  request on the connection meets it (`transfer.go:42`). `DisabledStaysDisabled` and `WideningNeverShortens` are
  therefore about a Config's Transfer, and `RateIsEnough` about both.
- An object whose size is not declared, cut by a copy that fails, looks whole (`response.go:143`): Handle can only log
  the error. `TruncationShows` is therefore about declared sizes.

## 5. What is proved

TLAPS checks the eight proof modules from nothing: seven of components, and `SequenceLemmas`. Every safety invariant,
action property and refinement of every passing run is a theorem, for any values of the constants within the named
assumptions; a run shows that the assumptions can be met and the properties broken, a proof that no size makes a
difference. In each module the invariants are conjunctions of named parts, an action preserves them in a lemma or step
of its own, and the temporal step comes last.

**`ServerProofs`**: for any sets of Start calls, Shutdown calls and connections, assuming only that `NoCall`, the free
mutex's holder, is no Start call (`NoCallAssumption`), the theorems `Typing`, `StartsOnce`, `ErrIsExact`, `Drained`,
`CutsEverything` and `NothingListens` establish `TypeOK`, that a server is started once (`SingleUse`),
that `Err` carries exactly the failure (`ErrReportsFailure`), and the safety properties of `server_safety`. None of the
properties but `TypeOK` is inductive: that a second `Start` is refused rests on the mutex holding off `listener` through
the bind; that the channel reports exactly the failure rests on what each position of the goroutine says of `errs`; that
a drain is complete rests on no accept loop, with what it has in hand, surviving the wait for it, on a request read under
a shutdown being dropped, and on one that goes on keeping its connection active until a Close. `IInv` is the conjunction
of `TypeOK` and one part for each: `StartInv`, `ErrInv`, `StopInv`, `EndInv`, `ReadInv`, `ConnInv`. Each part is proved
to hold initially and to be preserved by every action, using the parts before it (`Initially`, `Invariance`); each
property follows from `IInv`.

`UsesWhatRuns` proves `RequestsUseWhatRuns` of `Lifecycle`, for any numbers too. A Coordinator only restricts the server
(`Layering`), so `IInv` holds of it; `LayerInv` adds that before the dependency is up nothing has been bound or read, and
that once it is over some `Shutdown` has returned. A request that reaches its handler was due (`ReachesFromDue`), and
`ConnInv` says that a request is due on an active connection or, after a cut, on a closed one; a `Shutdown` that has
returned has left none active.

`Implements` proves the refinement, `Spec => ImplementsSubsystem`: the initial states map to
Subsystem's (`ContractInit`), and each step of Start, of the serving goroutine and of Shutdown maps to a step of
Subsystem or to none (`ContractStart`, `ContractServe`, `ContractShutdown`, `ContractStutter`), given `IInv`: without
`ErrInv` the channel might close before the failure is sent, and without `EndInv` outside a shutdown.

**`ResponseProofs`**: a chain of any length with foreign wrappers anywhere, any errors with any number of matchers, any
codes and any number of writes. `ResponseAssumption` gives the constants their types; its one assumption about programs
is `ProblemType`'s, that a problem which reports an error has no status or one from 400 to 599. Two invariants carry it.

- `IInv` holds whatever the handlers do. `StackInv` relates the layers entered to the writers: each holds a height no
  lower than the layer outside it, and each of this package's layers has a Recorder at its height, whether it made one
  or shares the one it was given. `WireInv` says that no Recorder is without the commit of a response that has one,
  unless its connection broke in a flush. `EndInv` is what each mode still knows of how the handler ended; `PanicInv`
  and `ErrorInv` follow a panic and an error out of the chain, the latter as answered (`Told`), logged (`Said`), panicking
  (`Raised`) or lost in a buffer (`Buffered`). They give `Typing`, `LoggedOnce`, `NeverLooksComplete`,
  `NotLost` and `TextStaysInside`, without a hypothesis.
- `OInv` needs handlers that are `Orderly`: no status that net/http refuses, no `ReadFrom` of an empty source, no flush
  on a connection that breaks. `AgreeInv` is that each Recorder has exactly net/http's status; `LogInv` and `AnswerInv`
  are what a log record and the status of the answer are until the end. They give `RecordersMatch`, `LogIsClient`,
  `PanicIsAnswered` and, where no error is a nil `*Problem`, `ErrorIsAnswered`. The hypotheses are those of
  `response_chain`'s instance, and none can be dropped: section 4 names the violation that each prevents.

`RepliesAsPromised` is the refinement of `Reply`, where no flush breaks the connection: each of the handler's uses, each
answer and the end map to a step of Reply or to none, of which `IInv` is needed for the one that matters, that a
Recorder not committed has nothing beneath it that is.

**`ReadinessProofs`**: `Typing`, that a probe answers its own states (`OwnStates`) and `TrueVerdicts`, for any probes
and checks in any order, assuming that no check has the name "lifecycle". `Taken` ties each state a probe has read to a
moment of that probe; `AnswerInv` says that what it answers with, and the Extras it is about to encode, are all it has
read and nothing else.

`Documents` is proved about in the same module, for any probes, handlers, declared problems, paths and ids.
`ProbesAsBefore` says that its steps are `Readiness`'s or none, so what is proved of the probes holds of it too.
`DocInv` adds that no step writes to `given`, and `DocumentInv` what each request holds: what it failed with, then what
`WriteFor` makes of that, and in its answer the document of that, whatever others do between. None of the properties is
inductive: each is about an answer, and what the answer says rests on the map it is encoded from being unwritten since.
They give `DocumentsTyping`, `OwnDocuments` and `DocumentsReadBack`, with two facts about one document:
`StatusReadsBack`, that a status is read back whatever spellings the Extras bring in, and `RoundTrip`, that a problem
whose Extras name no standard member is read back whole. Both rest on `MembersAssumption`: names are ASCII, where
capitals come before small letters, so the standard spelling is the last to be read. `DocumentsAssumption` says that
declared problems are well formed and that an id is not the empty text.

**`QueryProofs`**: for every `MaxInt`, policies and requests, assuming that `MaxInt` is positive and a policy's sizes
are ints, and that values and keys have the forms that `QueryAssumption` gives.

- `OffsetsFit`: `PageInv` says that the page is 0, 1 or compared with the last page; `QuotientBounds` and
  `ProductMonotonic` are the arithmetic.
- `Typing` and `ReadsAtAddress`: `AddressInv` is the types and `PlaceInv`, where page and cursor are between the parts.
- `FiltersAreDetermined`: `FilterInv` says that the filters are those of the keys yielded so far, no two of one field and
  operator, so `Before` orders them totally and a sort that is not stable leaves them in one order. That two keys give
  two filters rests on the form of a key: accepted, it is a name, or a name and a bracketed one.
- `RefusesOnlyFaults`: `FaultInv` says that a part passed excludes its fault, and that a refusal names one. `Faulty`
  lists what a request may not hold and `Malformed` what the parser looks for; that they agree on every key is proved.

**`TransferProofs`**: for any layers, environments, defaults, limits, rates, graces and sizes, any width of Duration and
any second.

- `Typing`, `StaysDisabled` and `OnlyWidens`: two parts beside `TypeOK`. `WiringInv` says that a Config's Transfer has a
  grace no shorter than either timeout and leaves alone the deadlines of those that are disabled; `HandlerInv` that what
  the server's timeouts left of a deadline is within that grace whenever a handler runs, in this request and after any
  number of others.
- `LastWins`: `LayersInv` says that the merged Config has, for each field, what the last layer to set it says.
- `RateSuffices`: `RateInv` says how far behind the rate a body must be when its deadline passes (`MovingOwed`), and how
  much of the grace is left to an upload's answer (`AnswerOwed`). It rests on a quotient's bounds, on what saturation
  leaves, and on both deadlines being set at one moment. The attempt showed that a first model, in which a body at
  exactly the rate was never cut, was right only for rates that divide a second: `Duration` cuts the allowance down to a
  whole tick (`transfer.go:79`), so `slow` begins within a tick of the rate.

**`RoutingProofs`**: for any segments, prefixes, groups, number of modules and calls, and paths, assuming that prefixes
are not empty, that a text begins itself, that a prefix with more segments over the same path is longer in bytes, which
slashes make true, and that a depth is a positive number (`RoutingAssumption`).

- `ServesLongest`: `IInv` says that the mounted modules lie in an order of decreasing length, each at a prefix of its
  own. `MatchesLeadingSegments` shows that comparing text and the next byte is comparing segments; `MoreSegmentsMoreBytes`
  and `SameSegmentsSamePrefix` that the first match by bytes is the longest by segments.
- `DeclaredIsServed`: `ServedInv`'s `CompileInv` says that while a tree is compiled, each of its branches is compiled, its
  routes registered and its last group sealed, or lies below a call still to be made; `BuiltInv` that a module built
  serves exactly what its tree declares, and that the whole tree is sealed. No call changes what a sealed tree declares
  (`SealedTreeKept`), whichever trees share its groups and even when their compilation panics half-way.
- `Typing` adds `RestInv`: a tree is compiled only while there is room for its module.

**`ExchangeProofs`**: for bodies of any length, any two limits, kinds of object and number of exchanges and changes.
`IInv` has five parts. `ReadInv` says that the two readers of a body act as the one with the tighter limit and that an
ending tells the truth about the bytes; `ResultInv` what each handler holds; `PhaseInv` what is committed, open and
answered in each phase; `ProxyInv` what the headers, the conditions and the parts written say of the object found;
`TruncationShows` is inductive given the others. They give `Typing`, `ProblemStandsAlone`, `WholeIsWhole` and
`FreshIsCurrent`. `DecidedByBytes` also needs what the decoder does: once it has an answer from the start of a body,
more bytes and another ending leave that answer (so the cuts do not matter), and what it accepts is what `OneValue`
describes.

**`SequenceLemmas`** proves by the least counterexample what would be an induction over a sequence: that `FlattenSeq` is
defined, unique, and grows by one piece at a time, which a branch's path and middleware and the list of sort keys need.
The first matcher that claims is a least element too.

Only model-checked: `ShutdownReturns` and `ServingEnds`, since fairness and `ENABLED` are beyond the prover. The two
violated properties are TLC's counterexamples. The models' own abstractions hold for the proofs too: durations are whole
ticks, and `SelectSeq`, which `Routing` uses to leave out nil middleware, is never unfolded, since no property depends
on what it keeps.

## 6. What is not modelled, and the plan

Left out of the models above: log wording and attributes other than status and level; a problem's `Error` text and
member names outside ASCII; `Addr` and `Limit`, which only read; TLS and HTTP/2; the texts of errors;
`http.ServeMux`'s wildcards, subtrees and redirects, the `*` request, and the Allow header; the names of environment
variables; the lexical side of validators (weak tags, quoting), of media types and of prefixes.

Not modelled at all:

- the rate limit, whose counting is another library's; its Config has the shape of the one that is modelled;
- `PathUUID`, `IfMatch`, `Attachment`, `WriteJSON` and `NewPage`, which format or parse one value and change no state;
- `Headers`, `ContentType` and `Maybe`, each of which sets, tests or chooses one value on the way down, and which of its
  sources `RequestID` takes an id from; `Timeout`, which gives the request a context that nothing in this repository waits on;
- test support, scripts and generated files.

What is left to do, in this order:

1. `IfMatch` and the validators' lexical side, so that a client's precondition meets the version its handler reads.
2. An invariant of a kept copy over several objects behind one client, of which `FreshMeansCurrent` is the case of one.
