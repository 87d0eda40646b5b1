---------------------------- MODULE ServerProofs ----------------------------
(***************************************************************************)
(* Proofs about Server, and about it under a Coordinator, for any number   *)
(* of Start and Shutdown calls and of connections.  The safety properties  *)
(* are the visible part of one inductive invariant, IInv, whose parts are  *)
(* proved one after the other, each from those before it.                  *)
(***************************************************************************)
EXTENDS Lifecycle, TLAPS

\* Start: the mutex covers the bind, so nothing is listening or serving while
\* a Start call binds, and only one ever returns nil.
StartInv ==
  /\ SingleUse
  /\ \A c \in Starts : start[c] = "binding" => ~listener
  /\ \A c \in Starts : start[c] = "served" => listener
  /\ listener <=> serve # "none"
  /\ listener <=> socket # "none"

\* Serve: how far the goroutine has got says what errs has carried.
ErrInv ==
  /\ serve \in {"none", "spawned", "accepting", "stopped"}
       => ~broke /\ ~errs.queued /\ ~delivered
  /\ serve = "leaving" => ~errs.queued /\ ~delivered
  /\ serve = "failed" => broke /\ ~errs.queued /\ ~delivered
  /\ serve = "reported" => broke /\ (errs.queued \/ delivered)
  /\ serve = "done" => errs.closed /\ (broke <=> errs.queued \/ delivered)

Engaged == {"marked", "group", "poll", "select", "expired", "drained", "cut"}

\* The listener group has been waited for.
Polling == {"poll", "select", "expired", "drained", "cut"}

\* Shutdown: a call that got as far as http.Server.Shutdown has marked the
\* shutdown, and one that has waited for the listener group has no accept loop
\* beside it, so none that could still hold a connection.
StopInv ==
  /\ \A c \in Shutdowns : stop[c] = "started" => listener
  /\ \A c \in Shutdowns : stop[c] \in Engaged => inShutdown
  /\ \A c \in Shutdowns : stop[c] \in Polling => serve # "accepting"
  /\ inShutdown => listener
  /\ serve \in {"failed", "reported", "stopped", "done"} => socket = "closed"

\* How serving ends: Serve returns cleanly only because a shutdown has begun.
EndInv ==
  /\ serve = "spawned" => socket = "listening"
  /\ serve = "accepting" /\ socket = "closed" => inShutdown
  /\ serve = "leaving" /\ ~broke => inShutdown
  /\ serve = "stopped" => inShutdown

\* Reading: a connection in the accept loop's hand keeps the loop from ending,
\* and outside a shutdown nothing is closed under a request being read.
ReadInv ==
  /\ \A k \in Conns : conn[k] = "accepted" => serve = "accepting"
  /\ ~inShutdown => \A k \in Conns :
       /\ handler[k] = "reading" => conn[k] \in {"new", "aged", "idle"}
       /\ handler[k] = "read" => conn[k] = "active"

Uncut == \A c \in Shutdowns : stop[c] # "cut"

\* Connections: until Close is called an admitted request's connection is
\* open, so a drain that found none active left no request.
ConnInv ==
  /\ CutClosesConnections
  /\ (\E c \in Shutdowns : stop[c] = "drained") /\ Uncut
       => \A k \in Conns : conn[k] \notin Tracked
  /\ \A k \in Conns : handler[k] = "due"
       => conn[k] = "active" \/ (conn[k] = "closed" /\ ~Uncut)
  /\ Uncut => \A k \in Conns : handler[k] = "running"
                                 => conn[k] \in {"active", "hijacked"}

IInv == TypeOK /\ StartInv /\ ErrInv /\ StopInv /\ EndInv /\ ReadInv /\ ConnInv

\* The Coordinator: before the dependency is up nothing has been bound or
\* dialled, and once it is over a Shutdown has returned.
LayerInv ==
  /\ dependency \in {"down", "up", "over"}
  /\ dependency = "down"
       => socket = "none" /\ \A k \in Conns : conn[k] = "away" /\ handler[k] = "none"
  /\ dependency = "over" => \E c \in Shutdowns : stop[c] \in {"drained", "cut"}

-----------------------------------------------------------------------------
\* The type invariant holds initially.
LEMMA TypeInit == Init => TypeOK
<1> SUFFICES ASSUME Init PROVE TypeOK
  OBVIOUS
<1>1. \A c \in Starts : NoCall # c
  BY NoCallAssumption DEF NoCallAssumption
<1>2. \A c \in Starts : mu = c <=> start[c] = "binding"
  BY <1>1 DEF Init
<1> QED
  BY <1>2 DEF Init, TypeOK, StartPhase, StopPhase, ServePhase, ConnState,
              HandlerPhase

\* A Start call, of whatever outcome, preserves the type invariant.
LEMMA TypeStart ==
  ASSUME TypeOK, NEW c \in Starts, Start(c)
  PROVE  TypeOK'
<1> USE NoCallAssumption DEF NoCallAssumption, TypeOK, StartPhase, StopPhase, ServePhase,
        callVars, httpVars, connVars, errVars
<1>1. CASE StartRefused(c)  BY <1>1 DEF StartRefused
<1>2. CASE StartBinds(c)    BY <1>2 DEF StartBinds
<1>3. CASE StartFails(c)    BY <1>3 DEF StartFails
<1>4. CASE StartServes(c)   BY <1>4 DEF StartServes
<1> QED BY <1>1, <1>2, <1>3, <1>4 DEF Start

\* A step of the serving goroutine, or of a receiver on Err, does.
LEMMA TypeServe ==
  ASSUME TypeOK, Serve \/ ErrDelivers
  PROVE  TypeOK'
<1> USE DEF TypeOK, ServePhase, ConnState, callVars, httpVars, connVars, errVars,
        CloseSocket, Without
<1>1. CASE ServeEnters   BY <1>1 DEF ServeEnters
<1>2. CASE ServeStops    BY <1>2 DEF ServeStops
<1>3. CASE ServeFails    BY <1>3 DEF ServeFails
<1>4. CASE ServeReports  BY <1>4 DEF ServeReports
<1>5. CASE ServeCloses   BY <1>5 DEF ServeCloses
<1>7. CASE ServeLeaves   BY <1>7 DEF ServeLeaves
<1>6. CASE ErrDelivers
  <2>1. errs' \in [queued : BOOLEAN, closed : BOOLEAN] /\ delivered' \in BOOLEAN
    BY <1>6 DEF ErrDelivers
  <2>2. UNCHANGED <<mu, listener, start, stop, ended, socket, serve, inShutdown, conn,
                    handler, broke>>
    BY <1>6 DEF ErrDelivers
  <2> QED BY <2>1, <2>2
<1> QED BY <1>1, <1>2, <1>3, <1>4, <1>5, <1>6, <1>7 DEF Serve

\* A step of a Shutdown call, or the end of its context, does.
LEMMA TypeShutdown ==
  ASSUME TypeOK, NEW c \in Shutdowns, Shutdown(c) \/ CtxEnds(c)
  PROVE  TypeOK'
<1> USE DEF TypeOK, StopPhase, ServePhase, ConnState, callVars, httpVars,
        connVars, errVars, CloseSocket, Without
<1>1. CASE ShutdownUnstarted(c)  BY <1>1 DEF ShutdownUnstarted
<1>2. CASE ShutdownStarted(c)    BY <1>2 DEF ShutdownStarted
<1>3. CASE HttpShutdown(c)       BY <1>3 DEF HttpShutdown
<1>4. CASE ListenerGroupWait(c)  BY <1>4 DEF ListenerGroupWait
<1>5. CASE CloseIdleConns(c)     BY <1>5 DEF CloseIdleConns
<1>6. CASE PollAgain(c)          BY <1>6 DEF PollAgain
<1>7. CASE CtxExpires(c)         BY <1>7 DEF CtxExpires
<1>8. CASE HttpClose(c)          BY <1>8 DEF HttpClose
<1>9. CASE CtxEnds(c)            BY <1>9 DEF CtxEnds
<1>10. CASE CloseListeners(c)    BY <1>10 DEF CloseListeners
<1> QED
  BY <1>1, <1>2, <1>3, <1>4, <1>5, <1>6, <1>7, <1>8, <1>9, <1>10 DEF Shutdown

\* A step of a connection or its handler does.
LEMMA TypeConnection ==
  ASSUME TypeOK, NEW k \in Conns, Connection(k)
  PROVE  TypeOK'
<1> USE DEF TypeOK, ConnState, HandlerPhase, callVars, httpVars, connVars, errVars
<1>1.  CASE Dial(k)            BY <1>1 DEF Dial
<1>2.  CASE Accept(k)          BY <1>2 DEF Accept
<1>3.  CASE Age(k)             BY <1>3 DEF Age
<1>4.  CASE ReadRequest(k)     BY <1>4 DEF ReadRequest
<1>5.  CASE Activate(k)        BY <1>5 DEF Activate
<1>6.  CASE ReadFails(k)       BY <1>6 DEF ReadFails
<1>7.  CASE ServeHTTP(k)       BY <1>7 DEF ServeHTTP
<1>8.  CASE Hijack(k)          BY <1>8 DEF Hijack
<1>9.  CASE HandlerReturns(k)  BY <1>9 DEF HandlerReturns
<1>10. CASE Disconnect(k)      BY <1>10 DEF Disconnect
<1>11. CASE Track(k)           BY <1>11 DEF Track
<1>12. CASE CheckShutdown(k)   BY <1>12 DEF CheckShutdown
<1> QED
  BY <1>1, <1>2, <1>3, <1>4, <1>5, <1>6, <1>7, <1>8, <1>9, <1>10, <1>11, <1>12
     DEF Connection

\* Every state of the server is well typed, and s.mu is held by the Start
\* call that binds (server.go, Server).
THEOREM Typing == Spec => []TypeOK
<1>1. TypeOK /\ [Next]_vars => TypeOK'
  <2> SUFFICES ASSUME TypeOK, [Next]_vars
               PROVE  TypeOK'
    OBVIOUS
  <2>1. CASE UNCHANGED vars
    BY <2>1 DEF TypeOK, vars
  <2>2. CASE Next
    BY <2>2, TypeStart, TypeServe, TypeShutdown, TypeConnection DEF Next
  <2> QED BY <2>1, <2>2
<1> QED BY <1>1, TypeInit, PTL DEF Spec

-----------------------------------------------------------------------------
\* What a Start call leaves alone: the shutdown, connections and errs.
LEMMA StartFrame ==
  ASSUME NEW c \in Starts, Start(c)
  PROVE  UNCHANGED <<stop, ended, inShutdown, connVars, errVars>>
  BY DEF Start, StartRefused, StartBinds, StartFails, StartServes, httpVars

\* What the serving goroutine and a receiver on Err leave alone.
LEMMA ServeFrame ==
  ASSUME Serve \/ ErrDelivers
  PROVE  UNCHANGED <<callVars, inShutdown, handler>>
  BY DEF Serve, ServeEnters, ServeStops, ServeFails, ServeLeaves, ServeReports, ServeCloses,
         ErrDelivers, httpVars, connVars

\* What a Shutdown call leaves alone: the mutex, Start calls and errs.
LEMMA ShutdownFrame ==
  ASSUME NEW c \in Shutdowns, Shutdown(c) \/ CtxEnds(c)
  PROVE  UNCHANGED <<mu, listener, start, serve, handler, errVars>>
<1> USE DEF httpVars, connVars
<1>1. CASE ShutdownUnstarted(c) \/ ShutdownStarted(c) \/ CtxEnds(c)
  BY <1>1 DEF ShutdownUnstarted, ShutdownStarted, CtxEnds
<1>2. CASE \/ HttpShutdown(c) \/ CloseListeners(c) \/ ListenerGroupWait(c)
           \/ CloseIdleConns(c)
  BY <1>2 DEF HttpShutdown, CloseListeners, ListenerGroupWait, CloseIdleConns
<1>3. CASE PollAgain(c) \/ CtxExpires(c) \/ HttpClose(c)
  BY <1>3 DEF PollAgain, CtxExpires, HttpClose
<1> QED BY <1>1, <1>2, <1>3 DEF Shutdown

\* What a connection leaves alone: every call, the socket and errs.
LEMMA ConnectionFrame ==
  ASSUME NEW k \in Conns, Connection(k)
  PROVE  UNCHANGED <<callVars, httpVars, errVars>>
  BY DEF Connection, Dial, Accept, Track, Age, ReadRequest, Activate,
         CheckShutdown, ReadFails, ServeHTTP, Hijack, HandlerReturns, Disconnect

-----------------------------------------------------------------------------
\* However the calls race, Start's part of the invariant is kept.
LEMMA StartStep ==
  ASSUME TypeOK, StartInv, [Next]_vars
  PROVE  StartInv'
<1> USE DEF StartInv, SingleUse
<1>1. ASSUME NEW c \in Starts, Start(c)
      PROVE  StartInv'
  <2> USE DEF TypeOK, httpVars
  <2>1. CASE StartRefused(c) \/ StartBinds(c) \/ StartFails(c)
    BY <2>1 DEF StartRefused, StartBinds, StartFails
  <2>2. CASE StartServes(c)
    BY <2>2, NoCallAssumption DEF StartServes, NoCallAssumption
  <2> QED BY <1>1, <2>1, <2>2 DEF Start
<1>2. CASE Serve \/ ErrDelivers
  <2>1. UNCHANGED <<listener, start>>
    BY <1>2, ServeFrame DEF callVars
  <2>2. /\ serve # "none" /\ serve' # "none"
        /\ socket # "none" => socket' # "none"
    \/ UNCHANGED <<serve, socket>>
    BY <1>2 DEF Serve, ServeEnters, ServeStops, ServeFails, ServeLeaves, ServeReports,
                ServeCloses, ErrDelivers, CloseSocket, httpVars
  <2> QED BY <2>1, <2>2
<1>3. ASSUME NEW c \in Shutdowns, Shutdown(c) \/ CtxEnds(c)
      PROVE  StartInv'
  <2>1. UNCHANGED <<listener, start, serve>>
    BY <1>3, ShutdownFrame
  <2>2. UNCHANGED socket \/ (serve = "accepting" /\ socket' = "closed")
    BY <1>3 DEF Shutdown, ShutdownUnstarted, ShutdownStarted, HttpShutdown, CloseListeners,
                ListenerGroupWait, CloseIdleConns, PollAgain, CtxExpires,
                HttpClose, CtxEnds, CloseSocket, httpVars
  <2> QED BY <2>1, <2>2
<1>4. ASSUME NEW k \in Conns, Connection(k)
      PROVE  StartInv'
  BY <1>4, ConnectionFrame DEF callVars, httpVars
<1>5. CASE UNCHANGED vars
  BY <1>5 DEF vars
<1> QED BY <1>1, <1>2, <1>3, <1>4, <1>5 DEF Next

\* errs carries a failure if and only if Accept broke.
LEMMA ErrStep ==
  ASSUME TypeOK, StartInv, ErrInv, [Next]_vars
  PROVE  ErrInv'
<1> USE DEF ErrInv
<1>1. ASSUME NEW c \in Starts, Start(c)
      PROVE  ErrInv'
  <2>1. UNCHANGED errVars
    BY <1>1, StartFrame
  <2>2. UNCHANGED serve \/ (serve = "none" /\ serve' = "spawned")
    BY <1>1 DEF Start, StartRefused, StartBinds, StartFails, StartServes,
                StartInv, httpVars
  <2> QED BY <2>1, <2>2 DEF errVars
<1>2. CASE Serve \/ ErrDelivers
  <2> USE DEF errVars, httpVars
  <2>1. CASE ServeEnters   BY <2>1 DEF ServeEnters
  <2>2. CASE ServeStops    BY <2>2 DEF ServeStops
  <2>3. CASE ServeFails    BY <2>3 DEF ServeFails
  <2>4. CASE ServeReports  BY <2>4 DEF ServeReports, TypeOK
  <2>5. CASE ServeCloses   BY <2>5 DEF ServeCloses, TypeOK
  <2>6. CASE ErrDelivers   BY <2>6 DEF ErrDelivers, TypeOK, ServePhase
  <2>7. CASE ServeLeaves   BY <2>7 DEF ServeLeaves, TypeOK
  <2> QED BY <1>2, <2>1, <2>2, <2>3, <2>4, <2>5, <2>6, <2>7 DEF Serve
<1>3. ASSUME NEW c \in Shutdowns, Shutdown(c) \/ CtxEnds(c)
      PROVE  ErrInv'
  BY <1>3, ShutdownFrame DEF errVars
<1>4. ASSUME NEW k \in Conns, Connection(k)
      PROVE  ErrInv'
  BY <1>4, ConnectionFrame DEF httpVars, errVars
<1>5. CASE UNCHANGED vars
  BY <1>5 DEF vars
<1> QED BY <1>1, <1>2, <1>3, <1>4, <1>5 DEF Next

\* Nothing accepts once a Shutdown has waited for the listener group.
LEMMA StopStep ==
  ASSUME TypeOK, StartInv, StopInv, [Next]_vars
  PROVE  StopInv'
<1> USE DEF StopInv, Engaged, Polling
<1>1. ASSUME NEW c \in Starts, Start(c)
      PROVE  StopInv'
  <2>1. UNCHANGED <<stop, inShutdown>>
    BY <1>1, StartFrame
  <2>2. \/ UNCHANGED <<listener, socket, serve>>
        \/ ~listener /\ listener' /\ serve' = "spawned"
    BY <1>1 DEF Start, StartRefused, StartBinds, StartFails, StartServes,
                StartInv, httpVars
  <2> QED BY <2>1, <2>2
<1>2. CASE Serve \/ ErrDelivers
  <2>1. UNCHANGED <<listener, stop, inShutdown>>
    BY <1>2, ServeFrame DEF callVars
  <2> USE DEF httpVars, CloseSocket
  <2>2. CASE ServeEnters   BY <2>1, <2>2 DEF ServeEnters
  <2>3. CASE ServeStops    BY <2>1, <2>3 DEF ServeStops
  <2>4. CASE ServeFails    BY <2>1, <2>4 DEF ServeFails
  <2>5. CASE ServeReports  BY <2>1, <2>5 DEF ServeReports
  <2>6. CASE ServeCloses   BY <2>1, <2>6 DEF ServeCloses
  <2>7. CASE ErrDelivers   BY <2>1, <2>7 DEF ErrDelivers
  <2>8. CASE ServeLeaves   BY <2>1, <2>8 DEF ServeLeaves
  <2> QED BY <1>2, <2>2, <2>3, <2>4, <2>5, <2>6, <2>7, <2>8 DEF Serve
<1>3. ASSUME NEW c \in Shutdowns, Shutdown(c) \/ CtxEnds(c)
      PROVE  StopInv'
  <2>1. UNCHANGED <<listener, serve>>
    BY <1>3, ShutdownFrame
  <2> USE DEF TypeOK, httpVars, CloseSocket
  <2>2. CASE ShutdownUnstarted(c)  BY <2>1, <2>2 DEF ShutdownUnstarted
  <2>3. CASE ShutdownStarted(c)    BY <2>1, <2>3 DEF ShutdownStarted
  <2>4. CASE HttpShutdown(c)       BY <2>1, <2>4 DEF HttpShutdown
  <2>5. CASE ListenerGroupWait(c)  BY <2>1, <2>5 DEF ListenerGroupWait
  <2>6. CASE CloseIdleConns(c)     BY <2>1, <2>6 DEF CloseIdleConns
  <2>7. CASE PollAgain(c)          BY <2>1, <2>7 DEF PollAgain
  <2>8. CASE CtxExpires(c)         BY <2>1, <2>8 DEF CtxExpires
  <2>9. CASE HttpClose(c)          BY <2>1, <2>9 DEF HttpClose
  <2>10. CASE CtxEnds(c)           BY <2>1, <2>10 DEF CtxEnds
  <2>11. CASE CloseListeners(c)    BY <2>1, <2>11 DEF CloseListeners
  <2> QED
    BY <1>3, <2>2, <2>3, <2>4, <2>5, <2>6, <2>7, <2>8, <2>9, <2>10, <2>11
       DEF Shutdown
<1>4. ASSUME NEW k \in Conns, Connection(k)
      PROVE  StopInv'
  BY <1>4, ConnectionFrame DEF callVars, httpVars
<1>5. CASE UNCHANGED vars
  BY <1>5 DEF vars
<1> QED BY <1>1, <1>2, <1>3, <1>4, <1>5 DEF Next

\* A clean end of Serve is the shutdown's doing.
LEMMA EndStep ==
  ASSUME TypeOK, StartInv, ErrInv, StopInv, EndInv, [Next]_vars
  PROVE  EndInv'
<1> USE DEF EndInv
<1>1. ASSUME NEW c \in Starts, Start(c)
      PROVE  EndInv'
  <2>1. UNCHANGED <<inShutdown, broke>>
    BY <1>1, StartFrame DEF errVars
  <2>2. \/ UNCHANGED <<socket, serve>>
        \/ socket' = "listening" /\ serve' = "spawned"
    BY <1>1 DEF Start, StartRefused, StartBinds, StartFails, StartServes, httpVars
  <2> QED BY <2>1, <2>2
<1>2. CASE Serve \/ ErrDelivers
  <2>1. UNCHANGED inShutdown
    BY <1>2, ServeFrame
  <2> USE DEF httpVars, errVars, CloseSocket
  <2>2. CASE ServeEnters   BY <2>1, <2>2 DEF ServeEnters
  <2>3. CASE ServeStops    BY <2>1, <2>3 DEF ServeStops
  <2>4. CASE ServeFails
    <3>1. ~broke' => inShutdown
      BY <2>4, Zenon DEF ServeFails
    <3> QED BY <2>1, <2>4, <3>1 DEF ServeFails
  <2>5. CASE ServeLeaves   BY <2>1, <2>5 DEF ServeLeaves
  <2>6. CASE ServeReports  BY <2>1, <2>6 DEF ServeReports
  <2>7. CASE ServeCloses   BY <2>1, <2>7 DEF ServeCloses
  <2>8. CASE ErrDelivers   BY <2>1, <2>8 DEF ErrDelivers
  <2> QED BY <1>2, <2>2, <2>3, <2>4, <2>5, <2>6, <2>7, <2>8 DEF Serve
<1>3. ASSUME NEW c \in Shutdowns, Shutdown(c) \/ CtxEnds(c)
      PROVE  EndInv'
  <2>1. UNCHANGED <<serve, broke>>
    BY <1>3, ShutdownFrame DEF errVars
  <2>2. \/ UNCHANGED <<socket, inShutdown>>
        \/ inShutdown' /\ (UNCHANGED socket \/ serve = "accepting")
    BY <1>3 DEF Shutdown, ShutdownUnstarted, ShutdownStarted, HttpShutdown,
                CloseListeners, ListenerGroupWait, CloseIdleConns, PollAgain,
                CtxExpires, HttpClose, CtxEnds, CloseSocket, httpVars, StopInv, Engaged
  <2> QED BY <2>1, <2>2
<1>4. ASSUME NEW k \in Conns, Connection(k)
      PROVE  EndInv'
  BY <1>4, ConnectionFrame DEF httpVars, errVars
<1>5. CASE UNCHANGED vars
  BY <1>5 DEF vars
<1> QED BY <1>1, <1>2, <1>3, <1>4, <1>5 DEF Next

-----------------------------------------------------------------------------
\* What a step that is no connection's own may do to a connection.
Closes(k, states) == conn'[k] = conn[k] \/ (conn[k] \in states /\ conn'[k] = "closed")

\* A Start call, the serving goroutine and a receiver on Err close queued
\* connections at most.
LEMMA OthersClose ==
  ASSUME TypeOK, (\E c \in Starts : Start(c)) \/ Serve \/ ErrDelivers
  PROVE  \A k \in Conns : Closes(k, {"backlog"})
<1>1. UNCHANGED conn \/ CloseSocket
  BY StartFrame DEF Serve, ServeEnters, ServeStops, ServeFails, ServeLeaves,
     ServeReports, ServeCloses, ErrDelivers, connVars
<1> QED BY <1>1 DEF Closes, CloseSocket, Without

\* A Shutdown call closes, before the listener group, queued connections at
\* most, and never one Accept has just returned.
LEMMA ShutdownCloses ==
  ASSUME TypeOK, NEW c \in Shutdowns, Shutdown(c) \/ CtxEnds(c)
  PROVE  /\ \A k \in Conns : Closes(k, Tracked \cup {"backlog"})
         /\ stop[c] \notin Engaged => UNCHANGED conn
<1> USE DEF Closes, Engaged, Tracked, connVars
<1>1. CASE ShutdownUnstarted(c) \/ ShutdownStarted(c) \/ CtxEnds(c)
  BY <1>1 DEF ShutdownUnstarted, ShutdownStarted, CtxEnds
<1>2. CASE HttpShutdown(c) \/ ListenerGroupWait(c)
  BY <1>2 DEF HttpShutdown, ListenerGroupWait
<1>3. CASE CloseListeners(c)
  BY <1>3 DEF CloseListeners, CloseSocket, Without
<1>4. CASE PollAgain(c) \/ CtxExpires(c)
  BY <1>4 DEF PollAgain, CtxExpires
<1>5. CASE CloseIdleConns(c) \/ HttpClose(c)
  BY <1>5 DEF CloseIdleConns, HttpClose, Without
<1> QED BY <1>1, <1>2, <1>3, <1>4, <1>5 DEF Shutdown

\* The accept loop lasts while it holds a connection, and nothing closes a
\* connection under its request before a shutdown.
LEMMA ReadStep ==
  ASSUME TypeOK, StartInv, StopInv, ReadInv, [Next]_vars
  PROVE  ReadInv'
<1> USE DEF ReadInv
<1>1. ASSUME NEW c \in Starts, Start(c)
      PROVE  ReadInv'
  <2>1. UNCHANGED <<inShutdown, connVars>>
    BY <1>1, StartFrame
  <2>2. serve' = serve \/ serve # "accepting"
    BY <1>1 DEF Start, StartRefused, StartBinds, StartFails, StartServes, httpVars, StartInv
  <2> QED BY <2>1, <2>2 DEF connVars
<1>2. CASE Serve \/ ErrDelivers
  <2>1. UNCHANGED <<inShutdown, handler>>
    BY <1>2, ServeFrame
  <2>2. \A k \in Conns : Closes(k, {"backlog"})
    BY <1>2, OthersClose
  <2>3. serve = "accepting" /\ serve' # "accepting" => ~Holding
    BY <1>2 DEF Serve, ServeEnters, ServeStops, ServeFails, ServeLeaves, ServeReports,
                ServeCloses, ErrDelivers, httpVars
  <2> QED BY <2>1, <2>2, <2>3 DEF Holding, Closes
<1>3. ASSUME NEW c \in Shutdowns, Shutdown(c) \/ CtxEnds(c)
      PROVE  ReadInv'
  <2>1. UNCHANGED <<serve, handler>>
    BY <1>3, ShutdownFrame
  <2>2. \A k \in Conns : Closes(k, Tracked \cup {"backlog"})
    BY <1>3, ShutdownCloses
  <2>3. inShutdown' \/ UNCHANGED <<inShutdown, conn>>
    <3>1. stop[c] \in Engaged => inShutdown
      BY DEF StopInv
    <3>2. inShutdown' = TRUE \/ UNCHANGED inShutdown
      BY <1>3 DEF Shutdown, ShutdownUnstarted, ShutdownStarted, HttpShutdown,
                  CloseListeners, ListenerGroupWait, CloseIdleConns, PollAgain,
                  CtxExpires, HttpClose, CtxEnds, httpVars
    <3> QED BY <1>3, <3>1, <3>2, ShutdownCloses
  <2> QED BY <2>1, <2>2, <2>3 DEF Closes
<1>4. ASSUME NEW k \in Conns, Connection(k)
      PROVE  ReadInv'
  <2>1. UNCHANGED <<serve, inShutdown>>
    BY <1>4, ConnectionFrame DEF httpVars
  <2> USE <2>1 DEF TypeOK
  <2>2. CASE Dial(k)            BY <2>2 DEF Dial
  <2>3. CASE Accept(k)          BY <2>3 DEF Accept
  <2>4. CASE Track(k)           BY <2>4 DEF Track
  <2>5. CASE Age(k)             BY <2>5 DEF Age
  <2>6. CASE ReadRequest(k)     BY <2>6 DEF ReadRequest
  <2>7. CASE Activate(k)        BY <2>7 DEF Activate, Tracked
  <2>8. CASE CheckShutdown(k)   BY <2>8 DEF CheckShutdown
  <2>9. CASE ReadFails(k)       BY <2>9 DEF ReadFails
  <2>10. CASE ServeHTTP(k)      BY <2>10 DEF ServeHTTP
  <2>11. CASE Hijack(k)         BY <2>11 DEF Hijack
  <2>12. CASE HandlerReturns(k) BY <2>12 DEF HandlerReturns
  <2>13. CASE Disconnect(k)     BY <2>13 DEF Disconnect
  <2> QED
    BY <1>4, <2>2, <2>3, <2>4, <2>5, <2>6, <2>7, <2>8, <2>9, <2>10, <2>11, <2>12, <2>13
       DEF Connection
<1>5. CASE UNCHANGED vars
  BY <1>5 DEF vars
<1> QED BY <1>1, <1>2, <1>3, <1>4, <1>5 DEF Next

-----------------------------------------------------------------------------
\* Closing the socket, or connections that serve no request, keeps what is
\* known of the connections that do.
LEMMA ConnStep ==
  ASSUME TypeOK, StopInv, ReadInv, ConnInv, [Next]_vars
  PROVE  ConnInv'
<1> USE DEF ConnInv, CutClosesConnections, Uncut, Tracked
<1>1. ASSUME UNCHANGED <<stop, handler>>, \A k \in Conns : Closes(k, {"backlog"})
      PROVE  ConnInv'
  BY <1>1 DEF Closes
<1>2. ASSUME NEW c \in Starts, Start(c)
      PROVE  ConnInv'
  BY <1>1, <1>2, StartFrame, OthersClose DEF connVars
<1>3. CASE Serve \/ ErrDelivers
  BY <1>1, <1>3, ServeFrame, OthersClose DEF callVars
<1>4. ASSUME NEW c \in Shutdowns, Shutdown(c) \/ CtxEnds(c)
      PROVE  ConnInv'
  <2>1. UNCHANGED handler
    BY <1>4, ShutdownFrame
  <2> USE <2>1 DEF TypeOK
  <2>2. CASE ShutdownUnstarted(c) \/ ShutdownStarted(c) \/ CtxEnds(c)
    BY <2>2 DEF ShutdownUnstarted, ShutdownStarted, CtxEnds, connVars
  <2>3. CASE HttpShutdown(c) \/ ListenerGroupWait(c)
    BY <2>3 DEF HttpShutdown, ListenerGroupWait, connVars
  <2>4. CASE CloseListeners(c)
    BY <2>4 DEF CloseListeners, CloseSocket, Without
  <2>5. CASE PollAgain(c) \/ CtxExpires(c)
    BY <2>5 DEF PollAgain, CtxExpires, connVars
  <2>6. CASE CloseIdleConns(c)
    BY <2>6 DEF CloseIdleConns, Without, ConnState
  <2>7. CASE HttpClose(c)
    BY <2>7 DEF HttpClose, Without
  <2> QED BY <1>4, <2>2, <2>3, <2>4, <2>5, <2>6, <2>7 DEF Shutdown
<1>5. ASSUME NEW k \in Conns, Connection(k)
      PROVE  ConnInv'
  <2>1. UNCHANGED <<stop, inShutdown>>
    BY <1>5, ConnectionFrame DEF callVars, httpVars
  <2> USE <2>1 DEF TypeOK
  <2>2. CASE Dial(k)            BY <2>2 DEF Dial
  <2>3. CASE Accept(k)          BY <2>3 DEF Accept
  <2>4. CASE Track(k)
    <3>1. \A c \in Shutdowns : stop[c] # "cut" /\ stop[c] # "drained"
      BY <2>4 DEF Track, ReadInv, StopInv, Polling
    <3> QED BY <2>4, <3>1 DEF Track
  <2>5. CASE Age(k)             BY <2>5 DEF Age
  <2>6. CASE ReadRequest(k)     BY <2>6 DEF ReadRequest
  <2>7. CASE Activate(k)        BY <2>7 DEF Activate
  <2>8. CASE CheckShutdown(k)
    <3>1. ~inShutdown => conn[k] = "active"
      BY <2>8 DEF CheckShutdown, ReadInv
    <3> QED BY <2>8, <3>1 DEF CheckShutdown
  <2>9. CASE ReadFails(k)       BY <2>9 DEF ReadFails
  <2>10. CASE ServeHTTP(k)      BY <2>10 DEF ServeHTTP
  <2>11. CASE Hijack(k)         BY <2>11 DEF Hijack
  <2>12. CASE HandlerReturns(k) BY <2>12 DEF HandlerReturns
  <2>13. CASE Disconnect(k)     BY <2>13 DEF Disconnect
  <2> QED
    BY <1>5, <2>2, <2>3, <2>4, <2>5, <2>6, <2>7, <2>8, <2>9, <2>10, <2>11, <2>12, <2>13
       DEF Connection
<1>6. CASE UNCHANGED vars
  BY <1>6 DEF vars
<1> QED BY <1>2, <1>3, <1>4, <1>5, <1>6 DEF Next

-----------------------------------------------------------------------------
\* A server nobody has started satisfies the invariant.
LEMMA Initially == Init => IInv
<1> SUFFICES ASSUME Init PROVE IInv
  OBVIOUS
<1>1. TypeOK
  BY TypeInit
<1>2. StartInv
  BY DEF Init, StartInv, SingleUse
<1>3. ErrInv /\ StopInv /\ EndInv /\ ReadInv
  BY DEF Init, ErrInv, StopInv, EndInv, ReadInv, Engaged, Polling
<1>4. ConnInv
  BY DEF Init, ConnInv, CutClosesConnections, Uncut, Tracked
<1> QED BY <1>1, <1>2, <1>3, <1>4 DEF IInv

\* The invariant that every safety theorem rests on.
THEOREM Invariance == Spec => []IInv
<1>1. IInv /\ TypeOK' /\ [Next]_vars => IInv'
  BY StartStep, ErrStep, StopStep, EndStep, ReadStep, ConnStep DEF IInv
<1>2. IInv => TypeOK
  BY DEF IInv
<1> QED BY <1>1, <1>2, Initially, Typing, PTL DEF Spec

\* However many Start calls race (server.go:69), at most one returns nil.
THEOREM StartsOnce == Spec => []SingleUse
<1>1. IInv => SingleUse
  BY DEF IInv, StartInv
<1> QED BY <1>1, Invariance, PTL

\* Err (server.go:106) has carried a failure exactly when Accept broke, though
\* nobody may have been receiving at the time.
THEOREM ErrIsExact == Spec => []ErrReportsFailure
<1>1. IInv => ErrReportsFailure
  BY DEF IInv, ErrInv, ErrReportsFailure, TypeOK
<1> QED BY <1>1, Invariance, PTL

\* A Shutdown that returned nil (server.go:126) drained every admitted request,
\* unless the deadline path of another one cut it off.
THEOREM Drained == Spec => []DrainIsComplete
<1>1. IInv => DrainIsComplete
  <2> SUFFICES ASSUME IInv,
                      \E c \in Shutdowns : stop[c] = "drained", Uncut,
                      NEW k \in Conns
               PROVE  /\ conn[k] \notin Tracked
                      /\ handler[k] \in {"due", "running"} => conn[k] = "hijacked"
    BY DEF DrainIsComplete, Uncut
  <2>1. conn[k] \notin Tracked
    BY DEF IInv, ConnInv
  <2>2. handler[k] \in {"due", "running"} => conn[k] \in {"active", "hijacked"}
    BY DEF IInv, ConnInv, Uncut
  <2> QED BY <2>1, <2>2 DEF Tracked
<1> QED BY <1>1, Invariance, PTL

\* A Shutdown past its deadline (server.go:127) leaves no connection open that
\* net/http tracks.
THEOREM CutsEverything == Spec => []CutClosesConnections
<1>1. IInv => CutClosesConnections
  BY DEF IInv, ConnInv
<1> QED BY <1>1, Invariance, PTL

\* A Shutdown that returned (server.go:132) left nothing listening, unless the
\* serving goroutine has not run yet or is on its way to close the socket.
THEOREM NothingListens == Spec => []ShutdownLeavesNoListener
<1>1. IInv => ShutdownLeavesNoListener
  <2> SUFFICES ASSUME IInv, NEW c \in Shutdowns, stop[c] \in {"drained", "cut"}
               PROVE  ~Holding /\ (socket = "closed" \/ serve \in {"spawned", "leaving"})
    BY DEF ShutdownLeavesNoListener
  <2>1. serve # "accepting"
    BY DEF IInv, StopInv, Polling
  <2>2. serve # "none"
    BY DEF IInv, StopInv, StartInv, Engaged
  <2> QED BY <2>1, <2>2 DEF IInv, TypeOK, ServePhase, StopInv, ReadInv, Holding
<1> QED BY <1>1, Invariance, PTL

-----------------------------------------------------------------------------
\* The server starts as a Subsystem does.
LEMMA ContractInit == Init => Contract!Init
  BY DEF Init, Contract!Init

\* One Start call starts the Subsystem, and the others are refused.
LEMMA ContractStart ==
  ASSUME IInv, NEW c \in Starts, Start(c)
  PROVE  [Contract!Next]_(Contract!vars)
<1> USE DEF IInv, TypeOK, StartInv
<1>1. UNCHANGED <<stop, inShutdown, errs, broke, delivered>>
  BY StartFrame DEF errVars
<1>2. CASE StartRefused(c)
  <2>1. {d \in Starts : start'[d] = "refused"}
          = {d \in Starts : start[d] = "refused"} \cup {c}
    BY <1>2 DEF StartRefused
  <2>2. {d \in Starts : start'[d] = "served"} = {d \in Starts : start[d] = "served"}
    BY <1>2 DEF StartRefused
  <2>3. serve # "none" /\ UNCHANGED serve
    BY <1>2 DEF StartRefused, httpVars
  <2>4. Contract!StartAgain(c)
    BY <1>1, <2>1, <2>2, <2>3 DEF Contract!StartAgain
  <2> QED BY <2>4 DEF Contract!Next
<1>3. CASE StartBinds(c) \/ StartFails(c)
  <2>1. {d \in Starts : start'[d] = "refused"} = {d \in Starts : start[d] = "refused"}
    BY <1>3 DEF StartBinds, StartFails
  <2>2. {d \in Starts : start'[d] = "served"} = {d \in Starts : start[d] = "served"}
    BY <1>3 DEF StartBinds, StartFails
  <2>3. UNCHANGED serve
    BY <1>3 DEF StartBinds, StartFails, httpVars
  <2> QED BY <1>1, <2>1, <2>2, <2>3 DEF Contract!vars
<1>4. CASE StartServes(c)
  <2>1. {d \in Starts : start'[d] = "refused"} = {d \in Starts : start[d] = "refused"}
    BY <1>4 DEF StartServes
  <2>2. {d \in Starts : start'[d] = "served"} = {c}
    BY <1>4 DEF StartServes
  <2>3. serve = "none" /\ serve' = "spawned"
    BY <1>4 DEF StartServes
  <2>4. Contract!Start(c)
    BY <1>1, <2>1, <2>2, <2>3 DEF Contract!Start
  <2> QED BY <2>4 DEF Contract!Next
<1> QED BY <1>2, <1>3, <1>4 DEF Start

\* Serving breaks, reports and ends as a Subsystem's does.
LEMMA ContractServe ==
  ASSUME IInv, Serve \/ ErrDelivers
  PROVE  [Contract!Next]_(Contract!vars)
<1> USE DEF IInv, TypeOK
<1>1. UNCHANGED <<start, stop, inShutdown>>
  BY ServeFrame DEF callVars
<1>2. CASE ServeEnters \/ ServeStops \/ ServeLeaves
  <2>1. UNCHANGED <<errs, broke, delivered>>
    BY <1>2 DEF ServeEnters, ServeStops, ServeLeaves, errVars
  <2>2. serve \notin {"none", "done"} /\ serve' \notin {"none", "done"}
    BY <1>2 DEF ServeEnters, ServeStops, ServeLeaves
  <2> QED BY <1>1, <2>1, <2>2 DEF Contract!vars
<1>3. CASE ServeFails
  <2>1. UNCHANGED <<errs, delivered>> /\ serve = "accepting" /\ serve' = "leaving"
    BY <1>3 DEF ServeFails
  <2>2. ~broke /\ broke' = ~inShutdown
    BY <1>3 DEF ServeFails, ErrInv
  <2>3. CASE inShutdown
    BY <1>1, <2>1, <2>2, <2>3 DEF Contract!vars
  <2>4. CASE ~inShutdown
    <3>1. Contract!Break
      BY <1>1, <2>1, <2>2, <2>4 DEF Contract!Break
    <3> QED BY <3>1 DEF Contract!Next
  <2> QED BY <2>3, <2>4
<1>4. CASE ServeReports
  <2>1. Contract!Report
    BY <1>1, <1>4 DEF ServeReports, Contract!Report, ErrInv
  <2> QED BY <2>1 DEF Contract!Next
<1>5. CASE ServeCloses
  <2>1. Contract!End
    BY <1>1, <1>5 DEF ServeCloses, Contract!End, EndInv, ErrInv
  <2> QED BY <2>1 DEF Contract!Next
<1>6. CASE ErrDelivers
  <2>1. Contract!Take
    BY <1>1, <1>6 DEF ErrDelivers, Contract!Take, httpVars
  <2> QED BY <2>1 DEF Contract!Next
<1> QED BY <1>2, <1>3, <1>4, <1>5, <1>6 DEF Serve

\* A Shutdown call begins to stop the Subsystem, and returns, as one does.
LEMMA ContractShutdown ==
  ASSUME IInv, NEW c \in Shutdowns, Shutdown(c) \/ CtxEnds(c)
  PROVE  [Contract!Next]_(Contract!vars)
<1> USE DEF IInv, TypeOK
<1> DEFINE Noop == {d \in Shutdowns : stop[d] = "noop"}
           Over == {d \in Shutdowns : stop[d] \in {"drained", "cut"}}
<1>1. UNCHANGED <<start, serve, errs, broke, delivered>>
  BY ShutdownFrame DEF errVars
<1>2. CASE ShutdownUnstarted(c)
  <2>1. Noop' = Noop \cup {c} /\ Over' = Over /\ UNCHANGED inShutdown
    BY <1>2 DEF ShutdownUnstarted, httpVars
  <2>2. serve = "none"
    BY <1>2 DEF ShutdownUnstarted, StartInv
  <2>3. Contract!StopUnstarted(c)
    BY <1>1, <2>1, <2>2 DEF Contract!StopUnstarted
  <2> QED BY <2>3 DEF Contract!Next
<1>3. CASE HttpShutdown(c)
  <2>1. Noop' = Noop /\ Over' = Over /\ inShutdown'
    BY <1>3 DEF HttpShutdown
  <2>2. serve # "none"
    BY <1>3 DEF HttpShutdown, StartInv, StopInv
  <2>3. Contract!Stop
    BY <1>1, <2>1, <2>2 DEF Contract!Stop
  <2> QED BY <2>3 DEF Contract!Next
<1>4. CASE HttpClose(c) \/ CloseIdleConns(c)
  <2>1. Noop' = Noop /\ Over' \in {Over, Over \cup {c}} /\ UNCHANGED inShutdown
    BY <1>4 DEF HttpClose, CloseIdleConns, httpVars
  <2>2. inShutdown
    BY <1>4 DEF HttpClose, CloseIdleConns, StopInv, Engaged
  <2>3. CASE Over' = Over
    BY <1>1, <2>1, <2>3 DEF Contract!vars
  <2>4. CASE Over' = Over \cup {c}
    <3>1. Contract!Stopped(c)
      BY <1>1, <2>1, <2>2, <2>4 DEF Contract!Stopped
    <3> QED BY <3>1 DEF Contract!Next
  <2> QED BY <2>1, <2>3, <2>4
<1>5. CASE \/ ShutdownStarted(c) \/ CloseListeners(c) \/ ListenerGroupWait(c)
           \/ PollAgain(c) \/ CtxExpires(c) \/ CtxEnds(c)
  <2>1. Noop' = Noop /\ Over' = Over /\ UNCHANGED inShutdown
    BY <1>5 DEF ShutdownStarted, CloseListeners, ListenerGroupWait, PollAgain, CtxExpires,
                CtxEnds, httpVars
  <2> QED BY <1>1, <2>1 DEF Contract!vars
<1> QED BY <1>2, <1>3, <1>4, <1>5 DEF Shutdown

\* What connections do is below the Subsystem.
LEMMA ContractStutter ==
  ASSUME UNCHANGED <<start, stop, errs, serve, inShutdown, broke, delivered>>
  PROVE  UNCHANGED Contract!vars
  BY DEF Contract!vars

\* The server keeps a lifecycle.Subsystem's promises (server.go:15), however
\* many calls of Start and Shutdown overlap and whatever connections do: each
\* of its steps is a step of Subsystem's or none.
THEOREM Implements == Spec => ImplementsSubsystem
<1>1. IInv /\ [Next]_vars => [Contract!Next]_(Contract!vars)
  <2> SUFFICES ASSUME IInv, [Next]_vars
               PROVE  [Contract!Next]_(Contract!vars)
    OBVIOUS
  <2>1. ASSUME NEW k \in Conns, Connection(k)
        PROVE  [Contract!Next]_(Contract!vars)
    BY <2>1, ConnectionFrame, ContractStutter DEF callVars, httpVars, errVars
  <2>2. CASE UNCHANGED vars
    BY <2>2, ContractStutter DEF vars
  <2> QED
    BY <2>1, <2>2, ContractStart, ContractServe, ContractShutdown DEF Next
<1> QED
  BY <1>1, ContractInit, Invariance, PTL
     DEF Spec, ImplementsSubsystem, Contract!Spec

-----------------------------------------------------------------------------
(***************************************************************************)
(* The server under a Coordinator                                          *)
(***************************************************************************)

\* Under a Coordinator the server takes its own steps and no others.
LEMMA Layering == LifecycleSpec => Spec
<1>1. LifecycleInit => Init
  BY DEF LifecycleInit
<1>2. [LifecycleNext]_lifecycleVars => [Next]_vars
  BY DEF LifecycleNext, DependencyStarts, DependencyStops, Layered, Next, lifecycleVars
<1> QED BY <1>1, <1>2, PTL DEF LifecycleSpec, Spec

\* A Shutdown call that has returned stays so.
LEMMA ReturnedStays ==
  ASSUME TypeOK, [Next]_vars, NEW d \in Shutdowns, stop[d] \in {"drained", "cut"}
  PROVE  stop'[d] \in {"drained", "cut"}
<1>1. ASSUME NEW c \in Shutdowns, Shutdown(c) \/ CtxEnds(c)
      PROVE  stop'[d] \in {"drained", "cut"}
  BY <1>1 DEF TypeOK, Shutdown, ShutdownUnstarted, ShutdownStarted, HttpShutdown,
              CloseListeners, ListenerGroupWait, CloseIdleConns, PollAgain,
              CtxExpires, HttpClose, CtxEnds
<1>2. CASE (\E c \in Starts : Start(c)) \/ Serve \/ ErrDelivers \/ UNCHANGED vars
  BY <1>2, StartFrame, ServeFrame DEF callVars, vars
<1>3. CASE \E k \in Conns : Connection(k)
  BY <1>3, ConnectionFrame DEF callVars
<1> QED BY <1>1, <1>2, <1>3 DEF Next

\* Nothing serves before the dependency is up, and a Shutdown has returned
\* before it is over.
LEMMA LayerStep ==
  ASSUME TypeOK, StartInv, LayerInv, [LifecycleNext]_lifecycleVars
  PROVE  LayerInv'
<1> USE DEF LayerInv
<1>1. CASE UNCHANGED lifecycleVars
  BY <1>1 DEF lifecycleVars, vars
<1>2. CASE DependencyStarts \/ DependencyStops
  BY <1>2 DEF DependencyStarts, DependencyStops, vars
<1>3. CASE Layered /\ UNCHANGED dependency
  <2>1. [Next]_vars
    BY <1>3 DEF Layered, Next
  <2>2. CASE dependency = "over"
    BY <1>3, <2>1, <2>2, ReturnedStays
  <2>3. CASE dependency = "down"
    <3>1. ~listener /\ serve = "none"
      BY <2>3 DEF StartInv
    <3>2. ~Started
      BY <3>1 DEF Started, StartInv
    <3>3. ASSUME NEW k \in Conns, Connection(k) PROVE FALSE
      BY <2>3, <3>3 DEF Connection, Dial, Accept, Track, Age, ReadRequest, Activate,
                        CheckShutdown, ReadFails, ServeHTTP, Hijack, HandlerReturns,
                        Disconnect
    <3>4. ~Serve
      BY <3>1 DEF Serve, ServeEnters, ServeStops, ServeFails, ServeLeaves,
                  ServeReports, ServeCloses
    <3>5. ErrDelivers
      BY <1>3, <2>3, <3>2, <3>3, <3>4 DEF Layered
    <3> QED BY <1>3, <2>3, <3>5 DEF ErrDelivers, httpVars, connVars
  <2>4. CASE dependency = "up"
    BY <1>3, <2>4
  <2> QED BY <2>2, <2>3, <2>4
<1> QED BY <1>1, <1>2, <1>3 DEF LifecycleNext

\* Only ServeHTTP hands a request to its handler.
LEMMA ReachesFromDue ==
  ASSUME TypeOK, [Next]_vars, NEW k \in Conns, Reaches(k)
  PROVE  handler[k] = "due"
<1> USE DEF Reaches
<1>1. ~UNCHANGED handler
  OBVIOUS
<1>2. PICK j \in Conns : Connection(j)
  BY <1>1, StartFrame, ServeFrame, ShutdownFrame DEF Next, connVars, vars
<1> QED
  BY <1>2 DEF TypeOK, Connection, Dial, Accept, Track, Age, ReadRequest, Activate,
              CheckShutdown, ReadFails, ServeHTTP, Hijack, HandlerReturns, Disconnect

\* What handlers use is up whenever a request reaches one (doc.go:47), except
\* for a request the deadline path has cut off (server.go:129).
THEOREM UsesWhatRuns == LifecycleSpec => RequestsUseWhatRuns
<1>1. LifecycleInit => LayerInv
  BY DEF LifecycleInit, Init, LayerInv
<1>2. IInv /\ LayerInv /\ [LifecycleNext]_lifecycleVars => LayerInv'
  BY LayerStep DEF IInv
<1>3. IInv /\ LayerInv /\ [LifecycleNext]_lifecycleVars
        => [\A k \in Conns : Reaches(k) => dependency = "up" \/ CutOff(k)]_lifecycleVars
  <2> SUFFICES ASSUME IInv, LayerInv, LifecycleNext, NEW k \in Conns, Reaches(k),
                      dependency # "up"
               PROVE  CutOff(k)
    OBVIOUS
  <2>1. [Next]_vars
    BY DEF LifecycleNext, DependencyStarts, DependencyStops, Layered, Next
  <2>2. handler[k] = "due"
    BY <2>1, ReachesFromDue DEF IInv
  <2>3. dependency = "over"
    BY <2>2 DEF LayerInv
  <2>4. conn[k] = "active" \/ (conn[k] = "closed" /\ ~Uncut)
    BY <2>2 DEF IInv, ConnInv
  <2>5. conn[k] # "active"
    BY <2>3 DEF LayerInv, IInv, ConnInv, CutClosesConnections, Uncut, Tracked
  <2> QED BY <2>4, <2>5 DEF Uncut, CutOff
<1> QED
  BY <1>1, <1>2, <1>3, Layering, Invariance, PTL DEF LifecycleSpec, RequestsUseWhatRuns
=============================================================================
