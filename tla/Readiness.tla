----------------------------- MODULE Readiness -----------------------------
(***************************************************************************)
(* The readiness probe (health.go): Readiness over fixed checks, or        *)
(* RegisterHealth's over a Doctor, here go-core's lifecycle.Readiness,     *)
(* which lifecycle.New binds to its Coordinator at some moment.            *)
(*                                                                         *)
(* A probe lists the checks, asks them one by one, and answers.  Probes    *)
(* overlap each other, the bind, the Coordinator's start and drain, and    *)
(* the checks' own changes.  go-core is not in the repository: an unbound  *)
(* Readiness has no checks and is not ready, a bound one is ready while    *)
(* its Coordinator is.                                                     *)
(***************************************************************************)
EXTENDS Naturals, Sequences

CONSTANTS
  Order,   \* the checks in the order they are reported
  Probes   \* handler goroutines, each serving one probe after another

Checks == {Order[i] : i \in DOMAIN Order}

ASSUME ChecksAssumption == Order \in Seq(Checks) /\ "lifecycle" \notin Checks

VARIABLES
  mount,    \* what serves the probe: "readiness" or "health"
  bound,    \* whether lifecycle.New has bound the Readiness
  up,       \* the Coordinator: "starting", "ready", "draining"
  ok,       \* the checks that are ready now
  phase,    \* where each probe is
  list,     \* the checks the probe listed
  results,  \* the states it has read so far
  extras,   \* the problem's Extras as the probe copied and extended them
  answer,   \* the probe's answer, once it has one
  seen,     \* history: the checks ready at some moment of the probe
  missed    \* history: the checks unready at some moment of the probe

vars == <<mount, bound, up, ok, phase, list, results, extras, answer, seen, missed>>

probeVars == <<phase, list, results, extras, answer>>

Names == Checks \cup {"lifecycle"}

NoAnswer == [status |-> 0, checks |-> <<>>]

TypeOK ==
  /\ mount \in {"readiness", "health"}
  /\ bound \in BOOLEAN
  /\ up \in {"starting", "ready", "draining"}
  /\ ok \subseteq Checks
  /\ phase \in [Probes -> {"idle", "checking", "encoding"}]
  /\ list \in [Probes -> Seq(Names)]
  /\ results \in [Probes -> Seq(BOOLEAN)]
  /\ \A p \in Probes : /\ Len(results[p]) <= Len(list[p])
                       /\ answer[p].status \in {0, 200, 503}
  /\ seen \in [Probes -> SUBSET Names]
  /\ missed \in [Probes -> SUBSET Names]

Init ==
  /\ mount \in {"readiness", "health"}
  /\ bound = FALSE
  /\ up = "starting"
  /\ ok = {}
  /\ phase = [p \in Probes |-> "idle"]
  /\ list = [p \in Probes |-> <<>>]
  /\ results = [p \in Probes |-> <<>>]
  /\ extras = [p \in Probes |-> <<>>]
  /\ answer = [p \in Probes |-> NoAnswer]
  /\ seen = [p \in Probes |-> {}]
  /\ missed = [p \in Probes |-> {}]

\* Ready of the Doctor and of its checks.  A check with a nil Checker is one
\* that never becomes ready.
CheckReady(n) == IF n = "lifecycle" THEN bound /\ up = "ready" ELSE n \in ok

\* What the probes under way have witnessed once a step is taken.
Witness ==
  LET now == {n \in Names : CheckReady(n)'}
      Kept(old, p) == IF phase[p] = "idle" THEN {} ELSE old[p]
  IN /\ seen' = [p \in Probes |-> IF phase'[p] = "idle" THEN seen[p]
                                  ELSE Kept(seen, p) \cup now]
     /\ missed' = [p \in Probes |-> IF phase'[p] = "idle" THEN missed[p]
                                    ELSE Kept(missed, p) \cup (Names \ now)]

-----------------------------------------------------------------------------
\* lifecycle.New binds the Readiness to the Coordinator it returns.
Bind ==
  /\ ~bound
  /\ bound' = TRUE
  /\ UNCHANGED <<mount, up, ok, probeVars>>

\* The Coordinator has started every layer; later it drains.
Run ==
  /\ bound
  /\ \/ up = "starting" /\ up' = "ready"
     \/ up \in {"starting", "ready"} /\ up' = "draining"
  /\ UNCHANGED <<mount, bound, ok, probeVars>>

\* A subsystem becomes ready or ceases to be.
Toggle(n) ==
  /\ ok' = IF n \in ok THEN ok \ {n} ELSE ok \cup {n}
  /\ UNCHANGED <<mount, bound, up, probeVars>>

-----------------------------------------------------------------------------
\* Mutated Begin: the results of the goroutine's last probe are kept.
BeginKeepingResults(p) ==
  /\ phase[p] = "idle"
  /\ list' = [list EXCEPT ![p] =
                IF mount = "readiness" THEN Order
                ELSE <<"lifecycle">> \o (IF bound THEN Order ELSE <<>>)]
  /\ phase' = [phase EXCEPT ![p] = "checking"]
  /\ answer' = [answer EXCEPT ![p] = NoAnswer]
  /\ UNCHANGED <<mount, bound, up, ok, results, extras>>

\* A request arrives and lists its checks: the fixed ones, or the Doctor
\* under the name "lifecycle" and the checks it has at this moment.
Begin(p) ==
  /\ phase[p] = "idle"
  /\ list' = [list EXCEPT ![p] =
                IF mount = "readiness" THEN Order
                ELSE <<"lifecycle">> \o (IF bound THEN Order ELSE <<>>)]
  /\ results' = [results EXCEPT ![p] = <<>>]
  /\ phase' = [phase EXCEPT ![p] = "checking"]
  /\ answer' = [answer EXCEPT ![p] = NoAnswer]
  /\ UNCHANGED <<mount, bound, up, ok, extras>>

\* The probe asks the next check it listed.
AskNext(p) ==
  /\ phase[p] = "checking"
  /\ Len(results[p]) < Len(list[p])
  /\ LET n == list[p][Len(results[p]) + 1]
     IN results' = [results EXCEPT ![p] = Append(@, CheckReady(n))]
  /\ UNCHANGED <<mount, bound, up, ok, phase, list, extras, answer>>

AllReady(p) == \A i \in DOMAIN results[p] : results[p][i]

Asked(p) == phase[p] = "checking" /\ Len(results[p]) = Len(list[p])

\* Every check was ready: 200 with their states.
AnswerReady(p) ==
  /\ Asked(p)
  /\ AllReady(p)
  /\ answer' = [answer EXCEPT ![p] = [status |-> 200, checks |-> results[p]]]
  /\ phase' = [phase EXCEPT ![p] = "idle"]
  /\ UNCHANGED <<mount, bound, up, ok, list, results, extras>>

\* Some check was not: the notReady problem's Extras are copied for this
\* request and the states set in the copy, ...
CopyExtras(p) ==
  /\ Asked(p)
  /\ ~AllReady(p)
  /\ extras' = [extras EXCEPT ![p] = results[p]]
  /\ phase' = [phase EXCEPT ![p] = "encoding"]
  /\ UNCHANGED <<mount, bound, up, ok, list, results, answer>>

\* ... and the problem is sent as a 503.
AnswerNotReady(p) ==
  /\ phase[p] = "encoding"
  /\ answer' = [answer EXCEPT ![p] = [status |-> 503, checks |-> extras[p]]]
  /\ extras' = [extras EXCEPT ![p] = <<>>]
  /\ phase' = [phase EXCEPT ![p] = "idle"]
  /\ UNCHANGED <<mount, bound, up, ok, list, results>>

Probe(p) ==
  Begin(p) \/ AskNext(p) \/ AnswerReady(p) \/ CopyExtras(p) \/ AnswerNotReady(p)

Next ==
  /\ \/ Bind \/ Run
     \/ \E n \in Checks : Toggle(n)
     \/ \E p \in Probes : Probe(p)
  /\ Witness

Spec == Init /\ [][Next]_vars

-----------------------------------------------------------------------------
(***************************************************************************)
(* Properties.  answer[p] is the answer to the probe whose list, results   *)
(* and witnesses stand until p begins the next one.                        *)
(***************************************************************************)

\* The names a probe reports.
Listed(p) == {list[p][i] : i \in DOMAIN list[p]}

Answered(p) == phase[p] = "idle" /\ answer[p].status # 0

\* No verdict is a guess though the checks are asked at different moments: a
\* 200's checks were each ready at some moment of the probe, none left over
\* from an earlier one, and some check of a 503's was unready at one.
VerdictsWereTrue ==
  \A p \in Probes :
    /\ Answered(p) /\ answer[p].status = 200 => Listed(p) \subseteq seen[p]
    /\ Answered(p) /\ answer[p].status = 503 => Listed(p) \cap missed[p] # {}

\* Concurrent probes share the notReady problem, yet each reports the states
\* it has read itself.
AnswersOwnStates ==
  \A p \in Probes : Answered(p) => answer[p].checks = results[p]

\* health.go:102: until it is bound a Readiness "reports "lifecycle" alone,
\* not ready": of any answer that reports "lifecycle" alone, for a System that
\* has checks.
AloneIsUnready ==
  \A p \in Probes :
    Order # <<>> /\ Answered(p) /\ list[p] = <<"lifecycle">>
      => answer[p].status = 503
=============================================================================
