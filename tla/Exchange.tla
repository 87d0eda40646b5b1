------------------------------ MODULE Exchange ------------------------------
(***************************************************************************)
(* The exchanges of one client with handlers that read bodies and proxy an *)
(* object, each adapted by Handle under a Recoverer and a BodyLimit: what  *)
(* the client ends up with, over several requests and while others change  *)
(* the object.                                                             *)
(***************************************************************************)
EXTENDS Body, Object

CONSTANTS
  Bodies,       \* what clients send as bodies
  Limits,       \* the limits of the routes and of BodyLimit
  Callers,      \* the headers a caller of WriteObject may have set
  Lengths,      \* of objects
  Described,    \* which of an object's tag, date and length a store knows,
                \* and how long the object is at first
  MaxVersions,  \* bound: how often the object changes
  MaxRequests   \* bound: how many requests the client makes

ASSUME ExchangeAssumption ==
  /\ Bodies \subseteq Seq(Bytes)
  /\ Limits \subseteq Nat \ {0}
  /\ Lengths \subseteq Nat
  /\ Described \subseteq
       [tagged : BOOLEAN, dated : BOOLEAN, sized : BOOLEAN, length : Lengths]
  /\ MaxVersions \in Nat

VARIABLES
  kind,      \* of the request: "command", "upload" or "object"
  phase,     \* of the exchange
  declared,  \* an upload's Content-Length
  result,    \* of DecodeJSON or ReadUpload
  reply,     \* what the client got: "none", "whole" or "cut"
  store,     \* the object as it is now
  cache,     \* the object the client has stored, of version -1 when none
  requests

exchangeVars == <<kind, phase, declared, result, reply, requests>>
vars == <<bodyVars, objectVars, exchangeVars, store, cache>>

NoCond   == [tags |-> <<>>, since |-> NoDate]
NoObject == [version |-> -1, second |-> 0, tagged |-> FALSE, dated |-> FALSE,
             sized |-> FALSE, length |-> 0]

Init ==
  /\ sent = <<>> /\ fits = TRUE /\ ending = "eof"
  /\ limits = [outer |-> 1, inner |-> 1] /\ got = 0 /\ stop = Open
  /\ object = NoObject /\ method = "GET" /\ cond = NoCond
  /\ header = {} /\ status = 0 /\ file = "none" /\ wire = 0 /\ ended = "no"
  /\ kind = "none" /\ phase = "idle" /\ declared = 0 /\ result = Open
  /\ reply = "none"
  /\ \E o \in Described :
       store = [version |-> 0, second |-> 0, tagged |-> o.tagged, dated |-> o.dated,
                sized |-> o.sized, length |-> o.length]
  /\ cache = NoObject
  /\ requests = 0

-----------------------------------------------------------------------------
(***************************************************************************)
(* The client and the store                                                *)
(***************************************************************************)

\* The object changes, within the second it last changed in or later.
Change(later, length) ==
  /\ store.version < MaxVersions
  /\ store' = [store EXCEPT !.version = @ + 1, !.second = @ + later, !.length = length]
  /\ UNCHANGED <<bodyVars, objectVars, exchangeVars, cache>>

Request(k, p) ==
  /\ phase = "idle"
  /\ requests < MaxRequests
  /\ requests' = requests + 1
  /\ kind' = k
  /\ phase' = p
  /\ UNCHANGED <<status, file, wire, ended, reply, store, cache>>

\* A body bounded by the route's limit within BodyLimit's.
SendBody(b, how, outer, inner) ==
  /\ sent' = b /\ ending' = how
  /\ limits' = [outer |-> outer, inner |-> inner]
  /\ got' = 0 /\ stop' = Open
  /\ UNCHANGED <<object, method, cond, header>>

Command(b, how, outer, inner, f) ==
  /\ Request("command", "reading")
  /\ SendBody(b, how, outer, inner)
  /\ fits' = f
  /\ result' = Open
  /\ UNCHANGED declared

\* net/http ends a body at its declared length, and fails one that is cut
\* short of it.  A body that declares none is never read.
Upload(n, typed, size, outer, inner) ==
  /\ result' = ReadUpload(typed, size, inner)
  /\ Request("upload", IF result' = Accepted THEN "reading" ELSE "returned")
  /\ SendBody([i \in 1 .. n |-> "part"], IF n = size THEN "eof" ELSE "failed", outer, inner)
  /\ declared' = size
  /\ UNCHANGED fits

\* What the client may ask for with what it has stored.
Conditions ==
  {NoCond, [tags |-> <<AnyTag>>, since |-> NoDate]} \cup
  IF cache.version < 0 THEN {}
  ELSE { [tags |-> tags, since |-> since] :
           tags \in (IF cache.tagged
                     THEN {<<>>, <<cache.version>>, <<Malformed, cache.version>>}
                     ELSE {<<>>}),
           since \in {NoDate} \cup (IF cache.dated THEN {cache.second} ELSE {}) }

\* The handler describes the object as it is now.
Get(m, c) ==
  /\ Request("object", "handling")
  /\ object' = store
  /\ header' \in Callers
  /\ method' = m
  /\ cond' = c
  /\ UNCHANGED <<bodyVars, declared, result>>

-----------------------------------------------------------------------------
(***************************************************************************)
(* The handlers                                                            *)
(***************************************************************************)

\* DecodeJSON reads while what it has decides nothing; an upload is read to
\* its end.
ReadBody ==
  /\ phase = "reading"
  /\ kind = "command" => Decoded = Open
  /\ \E n \in 0 .. Tighter - got + 1, end \in BOOLEAN : Read(n, end)
  /\ UNCHANGED <<objectVars, exchangeVars, store, cache>>

BodyIsRead ==
  /\ phase = "reading"
  /\ \/ kind = "command" /\ Decoded # Open /\ result' = Decoded
     \/ kind = "upload" /\ stop # Open /\ UNCHANGED result
  /\ phase' = "returned"
  /\ UNCHANGED <<bodyVars, objectVars, kind, declared, reply, requests, store, cache>>

Proxy ==
  /\ phase = "handling"
  /\ WriteObject
  /\ phase' = IF ended' = "no" THEN "handling" ELSE "returned"
  /\ UNCHANGED <<bodyVars, kind, declared, result, reply, requests, store, cache>>

\* A handler's error before it committed, and a panic then, are answered by
\* a problem.  After that an error is only logged, and a panic is raised
\* again and ends the connection.
Failed == CASE kind = "command" -> result # Accepted
            [] kind = "upload"  -> result # Accepted \/ stop.is # "eof"
            [] OTHER            -> ended \in {"error", "panic"}

\* The status of the problem that answers a failure; an error nothing
\* claims, such as a read's or an open's, is a 500.
ProblemStatus ==
  IF kind = "object" \/ result = Accepted THEN 500
  ELSE CASE result.is = "tooLarge" -> 413
         [] result.is = "unsized"  -> 411
         [] result.is = "untyped"  -> 415
         [] OTHER                  -> 400

Handle ==
  /\ phase = "returned"
  /\ status' = IF status # 0 THEN status ELSE IF Failed THEN ProblemStatus ELSE 200
  /\ header' = IF status = 0 THEN header \cup {"Content-Type"} ELSE header
  /\ phase' = "replied"
  /\ reply' = IF status # 0 /\ kind = "object" /\ ended = "panic" THEN "cut" ELSE "none"
  /\ UNCHANGED <<bodyVars, object, method, cond, file, wire, ended, kind, declared,
                 result, requests, store, cache>>

\* net/http ends the response: a body short of the length it declared ends
\* the connection, and any other looks whole.
Finish ==
  /\ phase = "replied"
  /\ phase' = "done"
  /\ LET short == /\ kind = "object" /\ method = "GET" /\ status = 200
                  /\ "Content-Length" \in header /\ wire < object.length
         got200 == kind = "object" /\ method = "GET" /\ status = 200
     IN /\ reply' = IF reply = "cut" \/ short THEN "cut" ELSE "whole"
        /\ cache' = IF got200 /\ reply' = "whole" THEN object ELSE cache
  /\ UNCHANGED <<bodyVars, objectVars, kind, declared, result, requests, store>>

\* The next exchange finds nothing of this one but what the client stored.
Rest ==
  /\ phase = "done"
  /\ sent' = <<>> /\ fits' = TRUE /\ ending' = "eof"
  /\ limits' = [outer |-> 1, inner |-> 1] /\ got' = 0 /\ stop' = Open
  /\ object' = NoObject /\ method' = "GET" /\ cond' = NoCond
  /\ header' = {} /\ status' = 0 /\ file' = "none" /\ wire' = 0 /\ ended' = "no"
  /\ kind' = "none" /\ phase' = "idle" /\ declared' = 0 /\ result' = Open
  /\ reply' = "none"
  /\ UNCHANGED <<store, cache, requests>>

Next ==
  \/ \E later \in {0, 1}, length \in Lengths : Change(later, length)
  \/ \E b \in Bodies, how \in {"eof", "failed"}, outer, inner \in Limits, f \in BOOLEAN :
       Command(b, how, outer, inner, f)
  \/ \E size \in Limits \cup {-1, 0}, typed \in BOOLEAN, outer, inner \in Limits :
       \E n \in {0} \cup 0 .. size : Upload(n, typed, size, outer, inner)
  \/ \E m \in {"GET", "HEAD"}, c \in Conditions : Get(m, c)
  \/ ReadBody \/ BodyIsRead \/ Proxy \/ Handle \/ Finish \/ Rest

Spec == Init /\ [][Next]_vars

-----------------------------------------------------------------------------
(***************************************************************************)
(* Properties                                                              *)
(***************************************************************************)

Objects == [version : -1 .. MaxVersions, second : 0 .. MaxVersions, tagged : BOOLEAN,
            dated : BOOLEAN, sized : BOOLEAN, length : Nat]

TypeOK ==
  /\ sent \in Seq(Bytes)
  /\ got \in 0 .. Min({Len(sent), Tighter})
  /\ stop.is \in {"open", "eof", "failed", "over"}
  /\ kind \in {"none", "command", "upload", "object"}
  /\ phase \in {"idle", "reading", "handling", "returned", "replied", "done"}
  /\ reply \in {"none", "whole", "cut"}
  /\ {object, store, cache} \subseteq Objects
  /\ status \in {0, 200, 304, 400, 411, 413, 415, 500}
  /\ phase = "replied" => status # 0 /\ file # "open"
  /\ file = "open" => status = 200

\* request.go:69: "exactly one JSON value", "bounded at limit bytes", and
\* bodylimit.go:10: "the tighter of its limit and n".  However a body is cut
\* into chunks and wherever its end arrives, what DecodeJSON makes of it is
\* decided by its bytes alone; it accepts one fitting value and nothing
\* else, whole and within both limits; and an accepted upload is read to its
\* declared size unless the client or a tighter BodyLimit cuts it.
BodyDetermined ==
  phase \in {"returned", "replied"} =>
    /\ kind = "command" =>
         /\ result = Whole
         /\ result = Accepted <=> /\ OneValue(sent) /\ fits /\ ending = "eof"
                                  /\ Len(sent) <= Tighter
         /\ result.is = "tooLarge" => result.limit = Tighter /\ Len(sent) > Tighter
    /\ kind = "upload" =>
         /\ result # Accepted => got = 0
         /\ stop.is = "eof" => got = declared
         /\ stop.is = "over" => limits.outer < declared /\ stop.limit = limits.outer

\* response.go:99: an error from open is answered "with every representation
\* header cleared, the caller's included, and Cache-Control set to no-store",
\* so that the problem is not kept in the object's place.
ProblemIsNotTheObject ==
  phase = "replied" /\ kind = "object" /\ status >= 400 /\ ended = "error" =>
    header \cap representation = {} /\ "no-store" \in header

\* What looks whole to the client is whole, when the object's length was
\* declared: a copy that fails after the response is committed, which Handle
\* can only log, cannot pass for the object.
TruncationShows ==
  reply = "whole" /\ kind = "object" /\ method = "GET" /\ status = 200 /\ object.sized
    => wire = object.length

\* A 304 tells a client that asked with the entity tag it stored that what it
\* stored is the object as the handler found it, whatever has changed in the
\* meantime, within the same second too, and whatever date it sent along.
FreshMeansCurrent ==
  phase = "replied" /\ kind = "object" /\ status = 304
    /\ cond.tags \notin {<<>>, <<AnyTag>>}
    => cache.version = object.version
=============================================================================
