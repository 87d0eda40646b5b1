-------------------------------- MODULE Body --------------------------------
(***************************************************************************)
(* Reading a request body (request.go, middleware/bodylimit.go): the raw   *)
(* body arrives in chunks of any size through BodyLimit's MaxBytesReader   *)
(* and, within it, the one DecodeJSON or ReadUpload makes.                 *)
(*                                                                         *)
(* A body is a sequence of bytes of these kinds: "space"; "part" and "end" *)
(* of a value that says itself where it ends; "digit" of a number that     *)
(* stands by itself, which ends where something else begins; and "junk",   *)
(* which is a token of its own or none at all.  Neither of these two may   *)
(* stand within a value of the other sort.  The decoder scans all it has   *)
(* before it looks at how the read ended, and a read that has ended stays  *)
(* ended.                                                                  *)
(***************************************************************************)
EXTENDS Integers, Sequences, FiniteSetsExt

Bytes == {"space", "part", "end", "digit", "junk"}

VARIABLES
  sent,    \* the bytes the client sends
  fits,    \* whether the first value is one of the type wanted
  ending,  \* how the raw body ends, "eof" or "failed"
  limits,  \* of the outer and the inner MaxBytesReader
  got,     \* how many bytes have come through both
  stop     \* how reading ended, and the limit of a MaxBytesError

bodyVars == <<sent, fits, ending, limits, got, stop>>

Open    == [is |-> "open", limit |-> 0]
Ends(e) == [is |-> e, limit |-> 0]
Over(n) == [is |-> "over", limit |-> n]

Tighter == Min({limits.outer, limits.inner})

\* One MaxBytesReader: what it makes of the n bytes and the ending that the
\* reader beneath returned.
MaxBytesReader(limit, n, end) ==
  IF got + n > limit THEN [n |-> limit - got, end |-> Over(limit)]
  ELSE [n |-> n, end |-> end]

\* A read through both.  Each asks for one byte more than it has left, and
\* an ending may come with the last bytes or after them.
Read(n, ended) ==
  /\ stop = Open
  /\ n <= Tighter - got + 1
  /\ got + n <= Len(sent)
  /\ ended => got + n = Len(sent)
  /\ n = 0 => ended
  /\ LET outer == MaxBytesReader(limits.outer, n, IF ended THEN Ends(ending) ELSE Open)
         inner == MaxBytesReader(limits.inner, outer.n, outer.end)
     IN got' = got + inner.n /\ stop' = inner.end
  /\ UNCHANGED <<sent, fits, ending, limits>>

-----------------------------------------------------------------------------
(***************************************************************************)
(* DecodeJSON over the bytes b and the end e it has so far                 *)
(***************************************************************************)

First(S, otherwise) == IF S = {} THEN otherwise ELSE Min(S)

\* Where what is not space begins, at i or after.
Start(b, i) == First({j \in i .. Len(b) : b[j] # "space"}, Len(b) + 1)

\* What begins at i is no item, or breaks off within one.
Broken(b, i) ==
  /\ b[i] # "digit"
  /\ \E k \in i .. Len(b) : /\ b[k] \in {"digit", "junk"}
                           /\ \A j \in i .. k : b[j] # "end"

\* Where the item that begins at i has ended, or 0 when it has not yet.
After(b, e, i) ==
  IF b[i] = "digit"
  THEN First({j \in i + 1 .. Len(b) : b[j] # "digit"},
             IF e.is = "eof" THEN Len(b) + 1 ELSE 0)
  ELSE LET k == First({j \in i .. Len(b) : b[j] = "end"}, 0)
       IN IF k = 0 THEN 0 ELSE k + 1

Accepted   == [is |-> "accepted", limit |-> 0]
Refused    == [is |-> "refused", limit |-> 0]
TooLarge(n) == [is |-> "tooLarge", limit |-> n]

\* bodyError, and reading on while nothing has ended.
bodyError(e) ==
  CASE e.is = "open" -> Open
    [] e.is = "over" -> TooLarge(e.limit)
    [] OTHER         -> Refused

\* Mutated trailing: only what the decoder has buffered is looked at.
trailingBuffered(b, e, i) == IF Start(b, i) > Len(b) THEN Accepted ELSE Refused

\* dec.Token after the value: a token that must be read whole may meet the
\* end of the read first.
trailing(b, e, i) ==
  LET j == Start(b, i)
  IN IF j > Len(b) THEN (IF e.is = "eof" THEN Accepted ELSE bodyError(e))
     ELSE IF Broken(b, j) \/ After(b, e, j) # 0 THEN Refused
     ELSE bodyError(e)

DecodeJSON(b, e) ==
  LET i == Start(b, 1)
  IN IF i > Len(b) THEN bodyError(e)
     ELSE IF Broken(b, i) THEN Refused
     ELSE IF After(b, e, i) = 0 THEN bodyError(e)
     ELSE IF ~fits THEN Refused
     ELSE trailing(b, e, After(b, e, i))

Decoded == DecodeJSON(SubSeq(sent, 1, got), stop)

-----------------------------------------------------------------------------
(***************************************************************************)
(* ReadUpload's refusals, by the headers alone                             *)
(***************************************************************************)

Untyped == [is |-> "untyped", limit |-> 0]
Unsized == [is |-> "unsized", limit |-> 0]

ReadUpload(typed, declared, limit) ==
  IF ~typed THEN Untyped
  ELSE IF declared < 0 THEN Unsized
  ELSE IF declared > limit THEN TooLarge(limit)
  ELSE Accepted

-----------------------------------------------------------------------------
(***************************************************************************)
(* What a body amounts to, however it arrives                              *)
(***************************************************************************)

OneValue(b) ==
  \E i, j \in 1 .. Len(b) :
    /\ i <= j
    /\ \A k \in (1 .. i - 1) \cup (j + 1 .. Len(b)) : b[k] = "space"
    /\ \/ \A k \in i .. j : b[k] = "digit"
       \/ b[j] = "end" /\ \A k \in i .. j - 1 : b[k] \in {"part", "space"}
          /\ b[i] # "space"

\* What reading it whole comes to.
Whole ==
  IF Len(sent) > Tighter
  THEN DecodeJSON(SubSeq(sent, 1, Tighter), Over(Tighter))
  ELSE DecodeJSON(sent, Ends(ending))
=============================================================================
