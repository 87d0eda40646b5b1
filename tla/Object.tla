------------------------------- MODULE Object -------------------------------
(***************************************************************************)
(* WriteObject (response.go): the response to a GET or HEAD of a stored    *)
(* object, step by step.  An object is described by its version, which its *)
(* entity tag names when it has one; the second it last changed in, when   *)
(* that is known; and its length, when that is declared.                   *)
(*                                                                         *)
(* A header is the set of the names set in it, a Cache-Control of the      *)
(* caller's and the one WriteObject sets being two names.                  *)
(***************************************************************************)
EXTENDS Integers, Sequences

VARIABLES
  object,  \* what the handler described to WriteObject
  method,  \* of the request
  cond,    \* its If-None-Match, a sequence of tags, and its If-Modified-Since
  header,  \* the response's
  status,  \* committed, or 0
  file,    \* what open returned: "none", "open" or "closed"
  wire,    \* the bytes of the object that are written
  ended    \* how WriteObject ended: "no", "nil", "error" or "panic"

objectVars == <<object, method, cond, header, status, file, wire, ended>>

NoDate    == -1  \* no If-Modified-Since, or one that does not parse
Malformed == -1  \* what no entity tag can be read from
AnyTag    == -2  \* the * form

\* The * form alone, or a listed tag before what is malformed.
noneMatch(tags, o) ==
  \/ tags = <<AnyTag>>
  \/ /\ o.tagged
     /\ \E k \in DOMAIN tags :
          /\ tags[k] = o.version
          /\ \A j \in 1 .. k - 1 : tags[j] >= 0

\* Mutated notModified: either precondition will do.
notModifiedEither(c, o) ==
  /\ method \in {"GET", "HEAD"}
  /\ \/ c.tags # <<>> /\ noneMatch(c.tags, o)
     \/ c.since # NoDate /\ o.dated /\ o.second <= c.since

\* If-None-Match decides when it is present.
notModified(c, o) ==
  /\ method \in {"GET", "HEAD"}
  /\ IF c.tags # <<>> THEN noneMatch(c.tags, o)
     ELSE c.since # NoDate /\ o.dated /\ o.second <= c.since

Validators(o) == (IF o.tagged THEN {"ETag"} ELSE {})
                 \cup (IF o.dated THEN {"Last-Modified"} ELSE {})

representation ==
  { "Cache-Control", "Content-Disposition", "Content-Encoding", "Content-Length",
    "Content-Range", "ETag", "Expires", "Last-Modified" }

\* Mutated clearObject: the caller's own headers are kept.
clearObjectOwn(h) == (h \ Validators(object)) \cup {"no-store"}

\* What the header is left as when open returns an error.
clearObject(h) == (h \ representation) \cup {"no-store"}

\* Mutated describe: the length is not declared.
describeChunked(h) == h \cup {"Content-Type", "X-Content-Type-Options"}

\* The header of the 200.
describe(h) == h \cup {"Content-Type", "X-Content-Type-Options"}
                 \cup (IF object.sized THEN {"Content-Length"} ELSE {})

-----------------------------------------------------------------------------
NotModified ==
  /\ ended = "no" /\ status = 0 /\ file = "none"
  /\ notModified(cond, object)
  /\ header' = header \cup Validators(object)
  /\ status' = 304
  /\ ended' = "nil"
  /\ UNCHANGED <<object, method, cond, file, wire>>

Modified ==
  /\ ended = "no" /\ status = 0 /\ file = "none"
  /\ ~notModified(cond, object)

\* A HEAD opens nothing.
HeadersAlone ==
  /\ Modified /\ method = "HEAD"
  /\ header' = describe(header \cup Validators(object))
  /\ status' = 200
  /\ ended' = "nil"
  /\ UNCHANGED <<object, method, cond, file, wire>>

OpenFails ==
  /\ Modified /\ method # "HEAD"
  /\ header' = clearObject(header \cup Validators(object))
  /\ ended' = "error"
  /\ UNCHANGED <<object, method, cond, status, file, wire>>

OpenPanics ==
  /\ Modified /\ method # "HEAD"
  /\ header' = header \cup Validators(object)
  /\ ended' = "panic"
  /\ UNCHANGED <<object, method, cond, status, file, wire>>

Opens ==
  /\ Modified /\ method # "HEAD"
  /\ header' = describe(header \cup Validators(object))
  /\ status' = 200
  /\ file' = "open"
  /\ UNCHANGED <<object, method, cond, wire, ended>>

\* io.Copy moves some of the bytes.
Copy(n) ==
  /\ file = "open"
  /\ wire + n <= object.length
  /\ wire' = wire + n
  /\ UNCHANGED <<object, method, cond, header, status, file, ended>>

\* Mutated CopyEnds: the object is closed after the copy, not deferred.
CopyEndsLeaking(how) ==
  /\ file = "open"
  /\ how = "nil" => wire = object.length
  /\ file' = IF how = "panic" THEN "open" ELSE "closed"
  /\ ended' = how
  /\ UNCHANGED <<object, method, cond, header, status, wire>>

\* The deferred Close runs however the copy ends.
CopyEnds(how) ==
  /\ file = "open"
  /\ how = "nil" => wire = object.length
  /\ file' = "closed"
  /\ ended' = how
  /\ UNCHANGED <<object, method, cond, header, status, wire>>

WriteObject ==
  \/ NotModified \/ HeadersAlone
  \/ OpenFails \/ OpenPanics \/ Opens
  \/ \E n \in 1 .. object.length : Copy(n)
  \/ \E how \in {"nil", "error", "panic"} : CopyEnds(how)
=============================================================================
