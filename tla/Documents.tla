----------------------------- MODULE Documents -----------------------------
(***************************************************************************)
(* The problem documents of concurrent requests: the readiness probe's     *)
(* (health.go) and those of handlers that fail, with a problem the program *)
(* declares once and shares between requests (problem.go, errorwriter.go). *)
(*                                                                         *)
(* A Problem is copied by value, but its Extras are a reference: until     *)
(* they are copied, a request that holds the problem holds the program's   *)
(* map.  Readiness goes on as in its own module; what is added to it is    *)
(* what a probe that is not ready writes, beside Handlers that fail.       *)
(***************************************************************************)
EXTENDS Readiness, Problem

CONSTANTS
  Handlers,  \* goroutines, each serving one failing request after another
  Declared,  \* the problems that the program declares, notReady among them
  PathOf,    \* the path of the requests that each goroutine serves
  Ids        \* correlation ids

Requests == Probes \cup Handlers

ASSUME DocumentsAssumption ==
  /\ Probes \cap Handlers = {}
  /\ "notReady" \in DOMAIN Declared
  /\ \A s \in DOMAIN Declared : IsProblem(Declared[s])
  /\ PathOf \in [Requests -> Texts]
  /\ Ids \subseteq Texts \ {Empty}

VARIABLES
  given,  \* the program's maps: the Extras of each declared problem
  step,   \* where each request is: "idle", "failed", "stamped"
  which,  \* the declared problem that the request fails with
  id,     \* the request's correlation id, Empty without RequestID
  held,   \* its copy of the problem
  owned,  \* whether held's Extras are the request's own map
  sent    \* the status and the document of its answer, once it has one

docVars == <<given, step, which, id, held, owned, sent>>

Nothing == [status |-> 0, doc |-> <<>>]

RequestsTypeOK ==
  /\ DOMAIN given = DOMAIN Declared /\ \A s \in DOMAIN given : IsMap(given[s])
  /\ step \in [Requests -> {"idle", "failed", "stamped"}]
  /\ which \in [Requests -> DOMAIN Declared]
  /\ id \in [Requests -> Ids \cup {Empty}]
  /\ owned \in [Requests -> BOOLEAN]
  /\ \A r \in Requests :
       /\ IsProblem(held[r])
       /\ \/ sent[r] = Nothing
          \/ sent[r].status \in Statuses \ {0} /\ IsMap(sent[r].doc)

DocumentsTypeOK == TypeOK /\ RequestsTypeOK

DocumentsInit ==
  /\ Init
  /\ given = [s \in DOMAIN Declared |-> Declared[s].extras]
  /\ step = [r \in Requests |-> "idle"]
  /\ which = [r \in Requests |-> "notReady"]
  /\ id = [r \in Requests |-> Empty]
  /\ held = [r \in Requests |-> Declared["notReady"]]
  /\ owned = [r \in Requests |-> FALSE]
  /\ sent = [r \in Requests |-> Nothing]

\* The Extras of the problem a request holds.
Extras(r) == IF owned[r] THEN held[r].extras ELSE given[which[r]]

\* notReady as the probe was built with it, over these Extras with the states
\* the probe has read.
NotReady(base, states) ==
  LET p == Declared["notReady"]
  IN [type |-> p.type, title |-> p.title, status |-> 503,
      detail |-> IF p.detail = Empty THEN "failed" ELSE p.detail,
      instance |-> p.instance,
      extras |-> Over([checks |-> List(states)], base)]

-----------------------------------------------------------------------------
\* The lifecycle and the checks change.
SurroundingsChange ==
  /\ Bind \/ Run \/ \E n \in Checks : Toggle(n)
  /\ Witness
  /\ UNCHANGED docVars

\* A probe's request begins.
ProbeBegins(p) ==
  /\ Begin(p)
  /\ Witness
  /\ id' = [id EXCEPT ![p] = Empty]
  /\ sent' = [sent EXCEPT ![p] = Nothing]
  /\ UNCHANGED <<given, step, which, held, owned>>

\* A probe asks a check, or reports that all are ready.
ProbeGoesOn(p) ==
  /\ AskNext(p) \/ AnswerReady(p)
  /\ Witness
  /\ UNCHANGED docVars

\* A probe that is not ready copies notReady's Extras and sets its checks.  The
\* id is the one that RequestID found for the request, which nothing reads
\* before this.
ProbeFails(p) ==
  /\ CopyExtras(p)
  /\ Witness
  /\ held' = [held EXCEPT ![p] = NotReady(given["notReady"], results[p])]
  /\ owned' = [owned EXCEPT ![p] = TRUE]
  /\ which' = [which EXCEPT ![p] = "notReady"]
  /\ \E i \in Ids \cup {Empty} : id' = [id EXCEPT ![p] = i]
  /\ step' = [step EXCEPT ![p] = "failed"]
  /\ UNCHANGED <<given, sent>>

\* A handler returns a declared problem, or calls its WriteFor: one without a
\* status is a 500 either way.
HandlerFails(h) ==
  /\ step[h] = "idle"
  /\ \E s \in DOMAIN Declared : /\ which' = [which EXCEPT ![h] = s]
                                /\ held' = [held EXCEPT ![h] = Declared[s]]
  /\ \E i \in Ids \cup {Empty} : id' = [id EXCEPT ![h] = i]
  /\ owned' = [owned EXCEPT ![h] = FALSE]
  /\ step' = [step EXCEPT ![h] = "failed"]
  /\ sent' = [sent EXCEPT ![h] = Nothing]
  /\ UNCHANGED <<vars, given>>

\* Mutated Stamp: the id is set in the map the problem has.
StampInPlace(r) ==
  /\ step[r] = "failed"
  /\ LET p == WriteFor([held[r] EXCEPT !.extras = Extras(r)], PathOf[r], id[r])
     IN /\ held' = [held EXCEPT ![r] = p]
        /\ given' = [given EXCEPT ![which[r]] = IF owned[r] THEN @ ELSE p.extras]
  /\ step' = [step EXCEPT ![r] = "stamped"]
  /\ UNCHANGED <<vars, which, id, owned, sent>>

\* WriteFor: the problem takes its defaults, and if the request has an id the
\* Extras are copied and the copy takes it, ...
Stamp(r) ==
  /\ step[r] = "failed"
  /\ held' = [held EXCEPT ![r] =
                WriteFor([@ EXCEPT !.extras = Extras(r)], PathOf[r], id[r])]
  /\ owned' = [owned EXCEPT ![r] = @ \/ id[r] # Empty]
  /\ step' = [step EXCEPT ![r] = "stamped"]
  /\ UNCHANGED <<vars, given, which, id, sent>>

\* ... and the document is encoded from the Extras as they are then.
Encode(r) ==
  /\ step[r] = "stamped"
  /\ sent' = [sent EXCEPT ![r] =
                [status |-> held[r].status,
                 doc    |-> MarshalJSON([held[r] EXCEPT !.extras = Extras(r)])]]
  /\ held' = [held EXCEPT ![r] = Declared["notReady"]]
  /\ owned' = [owned EXCEPT ![r] = FALSE]
  /\ step' = [step EXCEPT ![r] = "idle"]
  /\ UNCHANGED <<given, which, id>>

ProbeAnswers(p) == AnswerNotReady(p) /\ Witness /\ Encode(p)

HandlerAnswers(h) == Encode(h) /\ UNCHANGED vars

DocumentsNext ==
  \/ SurroundingsChange
  \/ \E p \in Probes : \/ ProbeBegins(p) \/ ProbeGoesOn(p) \/ ProbeFails(p)
                       \/ ProbeAnswers(p)
  \/ \E h \in Handlers : HandlerFails(h) \/ HandlerAnswers(h)
  \/ \E r \in Requests : Stamp(r)

DocumentsSpec == DocumentsInit /\ [][DocumentsNext]_<<vars, docVars>>

-----------------------------------------------------------------------------
(***************************************************************************)
(* Properties                                                              *)
(***************************************************************************)

Sent(r) == sent[r] # Nothing

\* Whether two documents agree on a member, which neither may have.
Alike(m, n, k) ==
  (k \in DOMAIN m <=> k \in DOMAIN n) /\ (k \in DOMAIN m => m[k] = n[k])

\* Requests that share a problem, and its Extras, write nothing into each
\* other's documents: each has its answer's status, its own id or, without
\* one, the member that the program declared, and a probe the states that it
\* has read, where a handler's has the member that the program declared
\* (health.go:46, problem.go:135-137).
DocumentsAreOwn ==
  \A r \in Requests : Sent(r) =>
    LET doc == sent[r].doc
    IN /\ doc["status"] = Number(sent[r].status)
       /\ id[r] # Empty => doc["request_id"] = Text(id[r])
       /\ id[r] = Empty => Alike(doc, Declared[which[r]].extras, "request_id")
       /\ r \in Probes => doc["checks"] = List(results[r])
       /\ r \in Handlers => Alike(doc, Declared[which[r]].extras, "checks")

\* The problem that request r fails with, and what WriteFor makes of it.
Failing(r) ==
  IF r \in Probes THEN NotReady(Declared["notReady"].extras, results[r])
  ELSE Declared[which[r]]

Written(r) == WriteFor(Failing(r), PathOf[r], id[r])

\* Extras that name no standard member, in any case.
Conforming(m) == \A k \in DOMAIN m : Folded[k] \notin Standard

\* A client that decodes a document finds the status it was sent with, whatever
\* spellings of "status" the Extras hold; and all of the problem, if they name
\* no standard member (problem.go:64-66, webtest/client.go:156-167).
ReadsAsWritten ==
  \A r \in Requests : Sent(r) =>
    /\ Decodes(sent[r].doc) => UnmarshalJSON(sent[r].doc).status = sent[r].status
    /\ Conforming(Declared[which[r]].extras) =>
         Decodes(sent[r].doc) /\ UnmarshalJSON(sent[r].doc) = Written(r)
=============================================================================
