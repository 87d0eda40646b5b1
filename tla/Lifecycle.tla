----------------------------- MODULE Lifecycle -----------------------------
(***************************************************************************)
(* The server under the lifecycle.Coordinator doc.go describes: its Start  *)
(* is called once what its handlers use is up, its Shutdown once that      *)
(* Start has returned nil, and what they use is shut down once Shutdown    *)
(* has returned.  The Coordinator and what handlers use are not in the     *)
(* repository.                                                             *)
(***************************************************************************)
EXTENDS Server

VARIABLE dependency  \* what handlers use: "down", "up" or "over"

lifecycleVars == <<vars, dependency>>

LifecycleInit == Init /\ dependency = "down"

Started == \E c \in Starts : start[c] = "served"

DependencyStarts ==
  /\ dependency = "down"
  /\ dependency' = "up"
  /\ UNCHANGED vars

\* The layer above is down once its Shutdown has returned, with an error too.
DependencyStops ==
  /\ dependency = "up"
  /\ \E c \in Shutdowns : stop[c] \in {"drained", "cut"}
  /\ dependency' = "over"
  /\ UNCHANGED vars

Layered ==
  \/ \E c \in Starts : dependency = "up" /\ Start(c)
  \/ Serve \/ ErrDelivers
  \/ \E c \in Shutdowns : Started /\ (Shutdown(c) \/ CtxEnds(c))
  \/ \E k \in Conns : Connection(k)

LifecycleNext ==
  \/ DependencyStarts \/ DependencyStops
  \/ Layered /\ UNCHANGED dependency

LifecycleSpec == LifecycleInit /\ [][LifecycleNext]_lifecycleVars

\* The request on k is handed to the server's handler.
Reaches(k) == handler[k] # "running" /\ handler'[k] = "running"

\* A Shutdown past its deadline has closed the connection of the request on k.
CutOff(k) == conn[k] = "closed" /\ \E c \in Shutdowns : stop[c] = "cut"

\* No request reaches its handler before what it uses has started or after
\* that has shut down (doc.go:47), however Shutdown calls overlap connections
\* being accepted and requests being read.  The deadline path is the exception
\* (server.go:129): Close cuts off a request whose goroutine is about to call
\* the handler, and nothing waits for it.
RequestsUseWhatRuns ==
  [][\A k \in Conns : Reaches(k) => dependency = "up" \/ CutOff(k)]_lifecycleVars
=============================================================================
