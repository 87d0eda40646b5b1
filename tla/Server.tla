------------------------------- MODULE Server -------------------------------
(***************************************************************************)
(* web.Server (server.go): an http.Server whose bind and serve phases are  *)
(* split.  Start binds under the mutex and spawns the serving goroutine;   *)
(* Shutdown drains, and closes what is left when its context ends first;   *)
(* the errs channel carries a serve failure and closes when serving stops. *)
(*                                                                         *)
(* Every call is made by a goroutine of its own, so any number of Start    *)
(* and Shutdown calls overlap each other, the serving goroutine, the       *)
(* connections and their handlers.  net/http is not in the repository: its *)
(* part is modelled step by step, in the order its goroutines read and     *)
(* write what they share (the shutdown mark, the listeners, the states of  *)
(* connections), and is marked external in the map.  A server in shutdown  *)
(* may still accept a connection, and read a request it then drops.        *)
(***************************************************************************)
EXTENDS Naturals

CONSTANTS
  Starts,      \* calls of Start, each made at most once
  Shutdowns,   \* calls of Shutdown, each made at most once
  Conns,       \* client connections, each dialled at most once
  NoCall       \* the mutex's holder when it is free

ASSUME NoCallAssumption == NoCall \notin Starts

VARIABLES
  mu,          \* s.mu: the Start call that holds it across the bind
  listener,    \* s.listener # nil
  errs,        \* s.errs: a queued failure, and whether the channel is closed
  start,       \* where each Start call is, or what it returned
  stop,        \* where each Shutdown call is, or what it returned
  ended,       \* whether the context of a Shutdown call has ended
  socket,      \* the bound TCP socket
  serve,       \* the goroutine Start spawns
  inShutdown,  \* http.Server.inShutdown
  conn,        \* each connection as net/http's connection states have it
  handler,     \* the request a connection's goroutine has read
  broke,       \* history: Serve returns a failure of Accept
  delivered    \* history: a receiver on Err has taken the failure

vars == <<mu, listener, errs, start, stop, ended, socket, serve, inShutdown,
          conn, handler, broke, delivered>>

callVars == <<mu, listener, start, stop, ended>>
httpVars == <<socket, serve, inShutdown>>
connVars == <<conn, handler>>
errVars  == <<errs, broke, delivered>>

StartPhase == {"idle", "binding", "refused", "failed", "served"}
StopPhase  == {"idle", "started", "marked", "group", "poll", "select",
               "expired", "noop", "drained", "cut"}
ServePhase == {"none", "spawned", "accepting", "leaving", "failed",
               "reported", "stopped", "done"}
ConnState  == {"away", "backlog", "accepted", "new", "aged", "active",
               "idle", "hijacked", "closed"}

HandlerPhase == {"none", "reading", "read", "due", "running"}

\* The connections http.Server tracks, and so the ones Close reaches.
Tracked == {"new", "aged", "active", "idle"}

TypeOK ==
  /\ mu \in Starts \cup {NoCall}
  /\ \A c \in Starts : mu = c <=> start[c] = "binding"
  /\ listener \in BOOLEAN
  /\ errs \in [queued : BOOLEAN, closed : BOOLEAN]
  /\ start \in [Starts -> StartPhase]
  /\ stop \in [Shutdowns -> StopPhase]
  /\ ended \in [Shutdowns -> BOOLEAN]
  /\ socket \in {"none", "listening", "closed"}
  /\ serve \in ServePhase
  /\ inShutdown \in BOOLEAN
  /\ conn \in [Conns -> ConnState]
  /\ handler \in [Conns -> HandlerPhase]
  /\ broke \in BOOLEAN
  /\ delivered \in BOOLEAN

Init ==
  /\ mu = NoCall
  /\ listener = FALSE
  /\ errs = [queued |-> FALSE, closed |-> FALSE]
  /\ start = [c \in Starts |-> "idle"]
  /\ stop = [c \in Shutdowns |-> "idle"]
  /\ ended = [c \in Shutdowns |-> FALSE]
  /\ socket = "none"
  /\ serve = "none"
  /\ inShutdown = FALSE
  /\ conn = [k \in Conns |-> "away"]
  /\ handler = [k \in Conns |-> "none"]
  /\ broke = FALSE
  /\ delivered = FALSE

\* Closing the socket resets the connections the kernel had queued for it.
Without(states) ==
  [k \in Conns |-> IF conn[k] \in states THEN "closed" ELSE conn[k]]

CloseSocket ==
  /\ socket' = "closed"
  /\ conn' = Without({"backlog"})

\* The accept loop has a connection in hand that it has yet to track.
Holding == \E k \in Conns : conn[k] = "accepted"

-----------------------------------------------------------------------------
(***************************************************************************)
(* Start                                                                   *)
(***************************************************************************)

\* Start takes the mutex and finds the server already started.
StartRefused(c) ==
  /\ start[c] = "idle"
  /\ mu = NoCall
  /\ listener
  /\ start' = [start EXCEPT ![c] = "refused"]
  /\ UNCHANGED <<mu, listener, stop, ended, httpVars, connVars, errVars>>

\* Mutated StartBinds: the listener is tested without holding the mutex.
StartBindsUnlocked(c) ==
  /\ start[c] = "idle"
  /\ ~listener
  /\ mu' = c
  /\ start' = [start EXCEPT ![c] = "binding"]
  /\ UNCHANGED <<listener, stop, ended, httpVars, connVars, errVars>>

\* Start takes the mutex, finds no listener and begins to bind, the mutex
\* held until it returns.
StartBinds(c) ==
  /\ start[c] = "idle"
  /\ mu = NoCall
  /\ ~listener
  /\ mu' = c
  /\ start' = [start EXCEPT ![c] = "binding"]
  /\ UNCHANGED <<listener, stop, ended, httpVars, connVars, errVars>>

\* The bind fails, or its context ends first: Start returns the error and the
\* server can be started again.
StartFails(c) ==
  /\ start[c] = "binding"
  /\ mu' = NoCall
  /\ start' = [start EXCEPT ![c] = "failed"]
  /\ UNCHANGED <<listener, stop, ended, httpVars, connVars, errVars>>

\* The bind succeeds: Start records the listener, spawns the serving
\* goroutine and returns nil.
StartServes(c) ==
  /\ start[c] = "binding"
  /\ listener' = TRUE
  /\ socket' = "listening"
  /\ serve' = "spawned"
  /\ mu' = NoCall
  /\ start' = [start EXCEPT ![c] = "served"]
  /\ UNCHANGED <<stop, ended, inShutdown, connVars, errVars>>

-----------------------------------------------------------------------------
(***************************************************************************)
(* The goroutine Start spawns: Serve, then errs                            *)
(***************************************************************************)

\* Serve refuses to run in a shutdown, closing the listener it was given, and
\* otherwise registers it and enters the accept loop.
ServeEnters ==
  /\ serve = "spawned"
  /\ \/ /\ ~inShutdown
        /\ serve' = "accepting"
        /\ UNCHANGED <<socket, conn>>
     \/ /\ inShutdown
        /\ serve' = "stopped"
        /\ CloseSocket
  /\ UNCHANGED <<callVars, inShutdown, handler, errVars>>

\* Shutdown has closed the listener, so Accept fails: Serve unregisters it and
\* will return http.ErrServerClosed.
ServeStops ==
  /\ serve = "accepting"
  /\ socket = "closed"
  /\ ~Holding
  /\ serve' = "leaving"
  /\ UNCHANGED <<callVars, socket, inShutdown, connVars, errVars>>

\* Accept fails for good on an open listener: Serve unregisters it and will
\* return the failure, or http.ErrServerClosed where a shutdown has begun.
ServeFails ==
  /\ serve = "accepting"
  /\ socket = "listening"
  /\ ~Holding
  /\ serve' = "leaving"
  /\ broke' = ~inShutdown
  /\ UNCHANGED <<callVars, socket, inShutdown, connVars, errs, delivered>>

\* Serve closes the listener it was given and returns.
ServeLeaves ==
  /\ serve = "leaving"
  /\ serve' = IF broke THEN "failed" ELSE "stopped"
  /\ CloseSocket
  /\ UNCHANGED <<callVars, inShutdown, handler, errVars>>

\* Mutated ServeReports: a non-blocking send on an unbuffered channel, which
\* drops the failure when nobody is receiving yet.
ServeReportsNobody ==
  /\ serve = "failed"
  /\ serve' = "reported"
  /\ UNCHANGED <<callVars, socket, inShutdown, connVars, errVars>>

\* The failure, which is not http.ErrServerClosed, is sent.  The channel's
\* buffer of one takes it, so the send never waits for a receiver.
ServeReports ==
  /\ serve = "failed"
  /\ ~errs.queued
  /\ errs' = [errs EXCEPT !.queued = TRUE]
  /\ serve' = "reported"
  /\ UNCHANGED <<callVars, socket, inShutdown, connVars, broke, delivered>>

\* Mutated ServeCloses: the close is not deferred, so only a clean stop
\* reaches it.
ServeClosesOnCleanStop ==
  /\ serve = "stopped"
  /\ errs' = [errs EXCEPT !.closed = TRUE]
  /\ serve' = "done"
  /\ UNCHANGED <<callVars, socket, inShutdown, connVars, broke, delivered>>

\* The deferred close of errs ends the goroutine.
ServeCloses ==
  /\ serve \in {"stopped", "reported"}
  /\ errs' = [errs EXCEPT !.closed = TRUE]
  /\ serve' = "done"
  /\ UNCHANGED <<callVars, socket, inShutdown, connVars, broke, delivered>>

\* A receiver on Err, such as the Coordinator, takes the queued failure; a
\* closed channel still yields it.
ErrDelivers ==
  /\ errs.queued
  /\ errs' = [errs EXCEPT !.queued = FALSE]
  /\ delivered' = TRUE
  /\ UNCHANGED <<callVars, httpVars, connVars, broke>>

-----------------------------------------------------------------------------
(***************************************************************************)
(* Shutdown                                                                *)
(***************************************************************************)

\* Before a successful Start, Shutdown returns nil and changes nothing.
ShutdownUnstarted(c) ==
  /\ stop[c] = "idle"
  /\ mu = NoCall
  /\ ~listener
  /\ stop' = [stop EXCEPT ![c] = "noop"]
  /\ UNCHANGED <<mu, listener, start, ended, httpVars, connVars, errVars>>

\* Shutdown reads the listener under the mutex and lets the mutex go.
ShutdownStarted(c) ==
  /\ stop[c] = "idle"
  /\ mu = NoCall
  /\ listener
  /\ stop' = [stop EXCEPT ![c] = "started"]
  /\ UNCHANGED <<mu, listener, start, ended, httpVars, connVars, errVars>>

\* Mutated HttpShutdown: http.Server.Close is called in its place, which
\* waits for no handler.
HttpShutdownAbruptly(c) ==
  /\ stop[c] = "started"
  /\ inShutdown' = TRUE
  /\ socket' = IF serve = "accepting" THEN "closed" ELSE socket
  /\ conn' = Without(Tracked \cup {"backlog"})
  /\ stop' = [stop EXCEPT ![c] = "drained"]
  /\ UNCHANGED <<mu, listener, start, ended, serve, handler, errVars>>

\* Mutated HttpShutdown: a second Shutdown is taken to have nothing left to do
\* and returns at once.
HttpShutdownOnce(c) ==
  /\ stop[c] = "started"
  /\ inShutdown' = TRUE
  /\ stop' = [stop EXCEPT ![c] = IF inShutdown THEN "drained" ELSE "marked"]
  /\ UNCHANGED <<mu, listener, start, ended, socket, serve, connVars, errVars>>

\* http.Server.Shutdown marks the shutdown, ...
HttpShutdown(c) ==
  /\ stop[c] = "started"
  /\ inShutdown' = TRUE
  /\ stop' = [stop EXCEPT ![c] = "marked"]
  /\ UNCHANGED <<mu, listener, start, ended, socket, serve, connVars, errVars>>

\* ... then closes the listener Serve has registered, if it has registered one.
CloseListeners(c) ==
  /\ stop[c] = "marked"
  /\ stop' = [stop EXCEPT ![c] = "group"]
  /\ \/ serve = "accepting" /\ CloseSocket
     \/ serve # "accepting" /\ UNCHANGED <<socket, conn>>
  /\ UNCHANGED <<mu, listener, start, ended, serve, inShutdown, handler, errVars>>

\* It waits for Serve to unregister its listener, whatever its context says.
ListenerGroupWait(c) ==
  /\ stop[c] = "group"
  /\ serve # "accepting"
  /\ stop' = [stop EXCEPT ![c] = "poll"]
  /\ UNCHANGED <<mu, listener, start, ended, httpVars, connVars, errVars>>

\* It closes the idle connections, and is done when none is left in use.  A
\* connection that has sent nothing counts as in use until it has aged.
CloseIdleConns(c) ==
  /\ stop[c] = "poll"
  /\ conn' = Without({"idle", "aged"})
  /\ stop' = [stop EXCEPT ![c] =
                IF \E k \in Conns : conn[k] \in {"new", "active"}
                THEN "select" ELSE "drained"]
  /\ UNCHANGED <<mu, listener, start, ended, httpVars, handler, errVars>>

\* Otherwise it waits for its timer, then polls again, ...
PollAgain(c) ==
  /\ stop[c] = "select"
  /\ stop' = [stop EXCEPT ![c] = "poll"]
  /\ UNCHANGED <<mu, listener, start, ended, httpVars, connVars, errVars>>

\* Mutated CtxExpires: the drain runs under context.Background.
CtxNeverExpires(c) ==
  /\ stop[c] = "select"
  /\ FALSE
  /\ UNCHANGED vars

\* ... or for its context, whose error it returns to Shutdown.
CtxExpires(c) ==
  /\ stop[c] = "select"
  /\ ended[c]
  /\ stop' = [stop EXCEPT ![c] = "expired"]
  /\ UNCHANGED <<mu, listener, start, ended, httpVars, connVars, errVars>>

\* Mutated HttpClose: Shutdown returns the context's error and no more.
HttpCloseForgotten(c) ==
  /\ stop[c] = "expired"
  /\ stop' = [stop EXCEPT ![c] = "cut"]
  /\ UNCHANGED <<mu, listener, start, ended, httpVars, connVars, errVars>>

\* Mutated HttpClose: Shutdown returns Close's nil, not the context's error.
HttpCloseReturned(c) ==
  /\ stop[c] = "expired"
  /\ conn' = Without(Tracked)
  /\ stop' = [stop EXCEPT ![c] = "drained"]
  /\ UNCHANGED <<mu, listener, start, ended, httpVars, handler, errVars>>

\* Shutdown closes the connections net/http still tracks, waits for no
\* handler, and returns the context's error.
HttpClose(c) ==
  /\ stop[c] = "expired"
  /\ conn' = Without(Tracked)
  /\ stop' = [stop EXCEPT ![c] = "cut"]
  /\ UNCHANGED <<mu, listener, start, ended, httpVars, handler, errVars>>

\* The context of a Shutdown call is cancelled or passes its deadline.
CtxEnds(c) ==
  /\ ~ended[c]
  /\ ended' = [ended EXCEPT ![c] = TRUE]
  /\ UNCHANGED <<mu, listener, start, stop, httpVars, connVars, errVars>>

-----------------------------------------------------------------------------
(***************************************************************************)
(* Connections and their handlers                                          *)
(***************************************************************************)

\* A client connects: the kernel completes the handshake and queues it.
Dial(k) ==
  /\ conn[k] = "away"
  /\ socket = "listening"
  /\ conn' = [conn EXCEPT ![k] = "backlog"]
  /\ UNCHANGED <<callVars, httpVars, handler, errVars>>

\* Accept returns a queued connection to Serve, ...
Accept(k) ==
  /\ serve = "accepting"
  /\ socket = "listening"
  /\ conn[k] = "backlog"
  /\ ~Holding
  /\ conn' = [conn EXCEPT ![k] = "accepted"]
  /\ UNCHANGED <<callVars, httpVars, handler, errVars>>

\* ... which tracks it, in a shutdown too, and spawns its goroutine.
Track(k) ==
  /\ conn[k] = "accepted"
  /\ conn' = [conn EXCEPT ![k] = "new"]
  /\ UNCHANGED <<callVars, httpVars, handler, errVars>>

\* A connection that sends no request for five seconds counts as idle.
Age(k) ==
  /\ conn[k] = "new"
  /\ conn' = [conn EXCEPT ![k] = "aged"]
  /\ UNCHANGED <<callVars, httpVars, handler, errVars>>

\* The connection's goroutine begins to read a request; http.Server still
\* counts the connection as new or idle, and so may close it.
ReadRequest(k) ==
  /\ conn[k] \in {"new", "aged", "idle"}
  /\ handler[k] = "none"
  /\ handler' = [handler EXCEPT ![k] = "reading"]
  /\ UNCHANGED <<callVars, httpVars, conn, errVars>>

\* The request is read.  Its connection is active, unless it was closed under
\* the read with the whole request buffered.
Activate(k) ==
  /\ handler[k] = "reading"
  /\ handler' = [handler EXCEPT ![k] = "read"]
  /\ conn' = [conn EXCEPT ![k] = IF conn[k] \in Tracked THEN "active" ELSE conn[k]]
  /\ UNCHANGED <<callVars, httpVars, errVars>>

\* With the connection active the goroutine looks for a shutdown once more,
\* and drops the request where one has begun.
CheckShutdown(k) ==
  /\ handler[k] = "read"
  /\ \/ /\ inShutdown
        /\ handler' = [handler EXCEPT ![k] = "none"]
        /\ conn' = [conn EXCEPT ![k] = "closed"]
     \/ /\ ~inShutdown
        /\ handler' = [handler EXCEPT ![k] = "due"]
        /\ UNCHANGED conn
  /\ UNCHANGED <<callVars, httpVars, errVars>>

\* The read fails, and the goroutine closes the connection.
ReadFails(k) ==
  /\ handler[k] = "reading"
  /\ conn' = [conn EXCEPT ![k] = "closed"]
  /\ handler' = [handler EXCEPT ![k] = "none"]
  /\ UNCHANGED <<callVars, httpVars, errVars>>

\* The goroutine calls the server's handler, even on a connection Close has
\* closed in the meantime.
ServeHTTP(k) ==
  /\ handler[k] = "due"
  /\ handler' = [handler EXCEPT ![k] = "running"]
  /\ UNCHANGED <<callVars, httpVars, conn, errVars>>

\* The handler takes the connection over.
Hijack(k) ==
  /\ handler[k] = "running"
  /\ conn[k] = "active"
  /\ conn' = [conn EXCEPT ![k] = "hijacked"]
  /\ UNCHANGED <<callVars, httpVars, handler, errVars>>

\* The handler returns: the connection is kept for another request only
\* outside a shutdown.
HandlerReturns(k) ==
  /\ handler[k] = "running"
  /\ handler' = [handler EXCEPT ![k] = "none"]
  /\ \/ /\ conn[k] = "active"
        /\ ~inShutdown
        /\ conn' = [conn EXCEPT ![k] = "idle"]
     \/ /\ conn[k] = "active"
        /\ conn' = [conn EXCEPT ![k] = "closed"]
     \/ /\ conn[k] # "active"
        /\ UNCHANGED conn
  /\ UNCHANGED <<callVars, httpVars, errVars>>

\* The client leaves, or a timeout ends a connection that serves no request.
Disconnect(k) ==
  /\ conn[k] \in {"backlog", "new", "aged", "idle"}
  /\ handler[k] = "none"
  /\ conn' = [conn EXCEPT ![k] = "closed"]
  /\ UNCHANGED <<callVars, httpVars, handler, errVars>>

-----------------------------------------------------------------------------
Start(c) == StartRefused(c) \/ StartBinds(c) \/ StartFails(c) \/ StartServes(c)

Serve ==
  \/ ServeEnters \/ ServeStops \/ ServeFails \/ ServeLeaves
  \/ ServeReports \/ ServeCloses

Shutdown(c) ==
  \/ ShutdownUnstarted(c) \/ ShutdownStarted(c)
  \/ HttpShutdown(c) \/ CloseListeners(c) \/ ListenerGroupWait(c)
  \/ CloseIdleConns(c) \/ PollAgain(c)
  \/ CtxExpires(c) \/ HttpClose(c)

Connection(k) ==
  \/ Dial(k) \/ Accept(k) \/ Track(k) \/ Age(k)
  \/ ReadRequest(k) \/ Activate(k) \/ CheckShutdown(k) \/ ReadFails(k)
  \/ ServeHTTP(k) \/ Hijack(k) \/ HandlerReturns(k) \/ Disconnect(k)

Next ==
  \/ \E c \in Starts : Start(c)
  \/ Serve
  \/ ErrDelivers
  \/ \E c \in Shutdowns : Shutdown(c) \/ CtxEnds(c)
  \/ \E k \in Conns : Connection(k)

Spec == Init /\ [][Next]_vars

\* Goroutines that can run do run, except that nobody promises a Shutdown is
\* called.  A select whose context case stays ready takes it eventually, since
\* Go chooses among the ready cases at random.
Scheduling ==
  /\ WF_vars(ServeEnters) /\ WF_vars(ServeStops) /\ WF_vars(ServeLeaves)
  /\ \A k \in Conns : WF_vars(Track(k))
  /\ WF_vars(ServeReports) /\ WF_vars(ServeCloses)
  /\ \A c \in Starts : WF_vars(StartFails(c) \/ StartServes(c))
  /\ \A c \in Shutdowns :
       /\ WF_vars(HttpShutdown(c)) /\ WF_vars(CloseListeners(c))
       /\ WF_vars(ListenerGroupWait(c))
       /\ WF_vars(CloseIdleConns(c)) /\ WF_vars(PollAgain(c))
       /\ SF_vars(CtxExpires(c)) /\ WF_vars(HttpClose(c))

FairSpec == Spec /\ Scheduling

\* The caller bounds the drain.
ContextsEnd == \A c \in Shutdowns : WF_vars(CtxEnds(c))

\* Every handler returns, net/http's clock ages the connections that send
\* nothing, and a goroutine that has read a request goes on.
HandlersEnd ==
  \A k \in Conns :
    /\ WF_vars(Age(k)) /\ WF_vars(CheckShutdown(k))
    /\ WF_vars(ServeHTTP(k)) /\ WF_vars(HandlerReturns(k))

-----------------------------------------------------------------------------
(***************************************************************************)
(* Properties                                                              *)
(***************************************************************************)

\* A server is single-use: however Start calls race, at most one returns nil,
\* so one goroutine owns the errs channel and closes it once.
SingleUse ==
  \A c, d \in Starts : start[c] = "served" /\ start[d] = "served" => c = d

\* When serving has stopped, Err has carried a failure exactly when Accept
\* failed before any shutdown was marked: a clean end is silent, and a failure
\* is not lost for want of a receiver.
ErrReportsFailure ==
  serve = "done" => /\ errs.closed
                    /\ (errs.queued \/ delivered) = broke

\* A drain that returned nil left nothing behind, though connections may be
\* accepted and requests read until the listener has closed: no connection is
\* tracked, and no request is running or about to run, save on hijacked
\* connections.  Only the deadline path of another Shutdown call breaks this,
\* since Close forgets connections whose handlers still run.
DrainIsComplete ==
  (\E c \in Shutdowns : stop[c] = "drained")
    /\ (\A c \in Shutdowns : stop[c] # "cut")
  => \A k \in Conns :
       /\ conn[k] \notin Tracked
       /\ handler[k] \in {"due", "running"} => conn[k] = "hijacked"

\* A Shutdown that returned its context's error left no connection that
\* net/http tracks open, so no client waits on a handler that never answers.
CutClosesConnections ==
  (\E c \in Shutdowns : stop[c] = "cut")
    => \A k \in Conns : conn[k] \notin Tracked

\* A Shutdown that returned, nil or not, left nothing listening, unless the
\* serving goroutine has yet to run or Accept has just failed in it: either
\* way it closes the socket itself, and accepts no connection before it does.
ShutdownLeavesNoListener ==
  \A c \in Shutdowns :
    stop[c] \in {"drained", "cut"}
      => /\ ~Holding
         /\ socket = "closed" \/ serve \in {"spawned", "leaving"}

\* A Shutdown of a started server returns: once its context ends though a
\* handler never does, and though no context ends once the handlers return,
\* since nothing it waits for can be renewed for ever.
ShutdownReturns ==
  ContextsEnd \/ HandlersEnd =>
    \A c \in Shutdowns : stop[c] = "started" ~> stop[c] \in {"drained", "cut"}

\* Shutting a started server down stops serving for good, whatever handlers
\* and contexts do: the errs channel closes, though nobody may be receiving
\* on it, and the port is released, even when Shutdown runs before the
\* serving goroutine has registered the listener.
ServingEnds ==
  \A c \in Shutdowns : stop[c] = "started" ~> errs.closed /\ socket = "closed"

\* What a Coordinator sees of the server (server.go:15), however Start and
\* Shutdown calls overlap the serving goroutine.
Contract == INSTANCE Subsystem WITH
  run       <- IF serve = "none" THEN "down" ELSE IF serve = "done" THEN "over" ELSE "up",
  started   <- {c \in Starts : start[c] = "served"},
  refused   <- {c \in Starts : start[c] = "refused"},
  unstarted <- {c \in Shutdowns : stop[c] = "noop"},
  stopped   <- {c \in Shutdowns : stop[c] \in {"drained", "cut"}},
  stopping  <- inShutdown,
  broken    <- broke,
  err       <- IF errs.queued THEN "queued" ELSE IF delivered THEN "taken" ELSE "none"

\* The server keeps the promises of a lifecycle.Subsystem: it starts once,
\* delivers a failure at most once and before Err closes, and closes Err only
\* when it broke or was shut down.
ImplementsSubsystem == Contract!Spec
=============================================================================
