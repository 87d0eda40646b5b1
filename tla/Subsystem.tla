----------------------------- MODULE Subsystem -----------------------------
(***************************************************************************)
(* What web.Server promises the Coordinator that runs it, as a             *)
(* lifecycle.Subsystem that is lifecycle.Monitored (server.go:15): it      *)
(* starts once, a failure is delivered on Err at most once and before Err  *)
(* closes, and Err closes only when it broke or was shut down.  How calls  *)
(* interleave, and what is drained or cut, is below this module.           *)
(***************************************************************************)
CONSTANTS Starts, Shutdowns

VARIABLES
  run,       \* "down", "up" or "over"
  started,   \* the calls of Start that returned nil
  refused,   \* and those that were told it had started already
  unstarted, \* the calls of Shutdown that found nothing started
  stopped,   \* and those that returned after stopping it
  stopping,  \* whether a shutdown has begun
  broken,    \* whether serving failed outside a shutdown
  err        \* the failure: "none", "queued" or "taken"

vars == <<run, started, refused, unstarted, stopped, stopping, broken, err>>

Init ==
  /\ run = "down"
  /\ started = {} /\ refused = {} /\ unstarted = {} /\ stopped = {}
  /\ stopping = FALSE
  /\ broken = FALSE
  /\ err = "none"

Start(c) ==
  /\ run = "down"
  /\ run' = "up"
  /\ started' = {c}
  /\ UNCHANGED <<refused, unstarted, stopped, stopping, broken, err>>

StartAgain(c) ==
  /\ run # "down"
  /\ refused' = refused \cup {c}
  /\ UNCHANGED <<run, started, unstarted, stopped, stopping, broken, err>>

\* Nothing to stop, and the server may be started still.
StopUnstarted(c) ==
  /\ run = "down"
  /\ unstarted' = unstarted \cup {c}
  /\ UNCHANGED <<run, started, refused, stopped, stopping, broken, err>>

Stop ==
  /\ run # "down"
  /\ stopping' = TRUE
  /\ UNCHANGED <<run, started, refused, unstarted, stopped, broken, err>>

Stopped(c) ==
  /\ stopping
  /\ stopped' = stopped \cup {c}
  /\ UNCHANGED <<run, started, refused, unstarted, stopping, broken, err>>

Break ==
  /\ run = "up" /\ ~stopping
  /\ ~broken
  /\ broken' = TRUE
  /\ UNCHANGED <<run, started, refused, unstarted, stopped, stopping, err>>

Report ==
  /\ run = "up" /\ broken
  /\ err = "none"
  /\ err' = "queued"
  /\ UNCHANGED <<run, started, refused, unstarted, stopped, stopping, broken>>

Take ==
  /\ err = "queued"
  /\ err' = "taken"
  /\ UNCHANGED <<run, started, refused, unstarted, stopped, stopping, broken>>

\* Err closes.
End ==
  /\ run = "up"
  /\ \/ broken /\ err # "none"
     \/ ~broken /\ stopping
  /\ run' = "over"
  /\ UNCHANGED <<started, refused, unstarted, stopped, stopping, broken, err>>

Next ==
  \/ \E c \in Starts : Start(c) \/ StartAgain(c)
  \/ \E c \in Shutdowns : StopUnstarted(c) \/ Stopped(c)
  \/ Stop \/ Break \/ Report \/ Take \/ End

Spec == Init /\ [][Next]_vars
=============================================================================
