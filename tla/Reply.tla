------------------------------- MODULE Reply -------------------------------
(***************************************************************************)
(* What a client is promised of its reply (handler.go:9, recoverer.go:12,  *)
(* recorder.go:10): one status is chosen, once, whoever handles a failure; *)
(* a failure is reported by at most one problem, and only while nothing    *)
(* else was chosen; and the reply is over when the request ends.           *)
(***************************************************************************)
EXTENDS Naturals

VARIABLES
  chosen,    \* the status chosen, or 0
  sent,      \* whether the client is certain to receive it
  taken,     \* whether the handler took the connection over
  problems,  \* how many problems were written as the reply
  end        \* "open", "complete" or "cut"

vars == <<chosen, sent, taken, problems, end>>

Init ==
  /\ chosen = 0
  /\ sent = FALSE
  /\ taken = FALSE
  /\ problems = 0
  /\ end = "open"

\* The first write, status or flush chooses it.
Choose ==
  /\ end = "open" /\ ~taken
  /\ chosen = 0
  /\ chosen' \in 101 .. 999
  /\ sent' \in BOOLEAN
  /\ UNCHANGED <<taken, problems, end>>

\* A problem reports a failure, in vain on a connection that was taken over.
Report ==
  /\ end = "open"
  /\ chosen = 0 /\ problems = 0
  /\ problems' = 1
  /\ chosen' \in IF taken THEN {0} ELSE 400 .. 599
  /\ UNCHANGED <<sent, taken, end>>

Send ==
  /\ end = "open" /\ ~taken
  /\ chosen # 0 /\ ~sent
  /\ sent' = TRUE
  /\ UNCHANGED <<chosen, taken, problems, end>>

Take ==
  /\ end = "open"
  /\ taken' = TRUE
  /\ UNCHANGED <<chosen, sent, problems, end>>

\* A reply nobody chose is an empty 200.
Complete ==
  /\ end = "open"
  /\ end' = "complete"
  /\ chosen' = IF chosen = 0 /\ ~taken THEN 200 ELSE chosen
  /\ sent' \in {sent, ~taken}
  /\ UNCHANGED <<taken, problems>>

Cut ==
  /\ end = "open"
  /\ end' = "cut"
  /\ UNCHANGED <<chosen, sent, taken, problems>>

Next == Choose \/ Report \/ Send \/ Take \/ Complete \/ Cut

Spec == Init /\ [][Next]_vars
=============================================================================
