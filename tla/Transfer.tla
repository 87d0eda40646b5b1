------------------------------ MODULE Transfer ------------------------------
(***************************************************************************)
(* web.Transfer (transfer.go) at work: a Config is merged and finalized,   *)
(* the server and the route's Transfer are built from it, and a keep-alive *)
(* connection then serves uploads and downloads, each of which widens the  *)
(* deadlines net/http set for the request.                                 *)
(*                                                                         *)
(* A deadline is kept as the ticks left until it.  net/http's own use of   *)
(* the timeouts is external: the read deadline covers the header, then the *)
(* whole request from its first byte, then the idle wait; the write        *)
(* deadline is set when the header has been read and, by a server without  *)
(* a write timeout, never touched.                                         *)
(***************************************************************************)
EXTENDS Config, FiniteSetsExt

CONSTANTS
  Layers,       \* configurations that may be merged, such as files
  Envs,         \* environments that may override them
  Limits,       \* body limits a route may have
  Direct,       \* the [rate, grace] a route may give NewTransfer
  Sizes,        \* declared sizes, negative for none
  Second,       \* ticks in a second, the unit of a rate
  MaxDuration,  \* the largest Duration
  MaxLayers,    \* bound: how many configurations are merged
  MaxTicks      \* bound: how long a phase of a request is timed

ASSUME TransferAssumption ==
  /\ Layers \subseteq [Fields -> Int \cup {Unset}]
  /\ Envs \subseteq [Defaulted -> Int \cup {Unset, Malformed}]
  /\ Limits \subseteq Nat
  /\ Direct \subseteq [rate : Nat \ {0}, grace : Nat]
  /\ Sizes \subseteq Int
  /\ Second \in Nat \ {0}
  /\ MaxDuration \in Nat \ {0}

VARIABLES
  stage,    \* of the wiring
  cfg,      \* the Config
  layers,   \* history: what was merged into it
  env,      \* history: the environment it was finalized under
  tr,       \* the route's Transfer
  made,     \* by which constructor
  phase,    \* of the connection's request
  readBy,   \* the connection's read deadline
  writeBy,  \* and its write deadline
  kind,     \* "upload" or "download"
  size,     \* the size declared
  body,     \* the bytes that move
  elapsed,  \* ticks since the phase began, while it is timed
  slow,     \* history: the body has been moving slower than the rate
  heard,    \* history: the writer has connection deadlines, and they were set
  lost      \* history: what a deadline cut, "body" or "answer"

wiringVars   == <<stage, cfg, layers, env, tr, made>>
requestVars  == <<kind, size, body, slow, heard>>
deadlineVars == <<readBy, writeBy>>
vars == <<wiringVars, requestVars, deadlineVars, phase, elapsed, lost>>

Never == -1  \* no deadline: the zero time
Past  == -2  \* a deadline that has passed

By(d)       == IF d > 0 THEN d ELSE Never
NextTick(b) == IF b > 0 THEN b - 1 ELSE IF b = 0 THEN Past ELSE b

-----------------------------------------------------------------------------
(***************************************************************************)
(* Transfer's values                                                       *)
(***************************************************************************)

ZeroTransfer == [limit |-> 0, rate |-> 0, grace |-> 0, read |-> FALSE, write |-> FALSE]

NewTransfer(limit, rate, grace) ==
  [limit |-> limit, rate |-> rate, grace |-> grace, read |-> TRUE, write |-> TRUE]

Larger(a, b)  == IF a >= b THEN a ELSE b
Smaller(a, b) == IF a <= b THEN a ELSE b

\* Mutated ConfigTransfer: the grace is the shorter timeout.
ConfigTransferShorter(c, limit) ==
  [limit |-> limit, rate |-> c["transferRate"],
   grace |-> Larger(0, Smaller(c["readTimeout"], c["writeTimeout"])),
   read  |-> c["readTimeout"] > 0,
   write |-> c["writeTimeout"] > 0]

\* Mutated ConfigTransfer: it sets both deadlines, as NewTransfer does.
ConfigTransferBoth(c, limit) ==
  NewTransfer(limit, c["transferRate"], Larger(c["readTimeout"], c["writeTimeout"]))

\* Config.Transfer: the longer timeout is the grace, and the deadline of a
\* disabled timeout is left alone.
ConfigTransfer(c, limit) ==
  [limit |-> limit, rate |-> c["transferRate"],
   grace |-> Larger(c["readTimeout"], c["writeTimeout"]),
   read  |-> c["readTimeout"] > 0,
   write |-> c["writeTimeout"] > 0]

\* Mutated Duration: an undeclared size counts as an empty body.
DurationUndeclared(t, n) ==
  LET d == t.grace + (Larger(0, Smaller(n, t.limit)) * Second) \div t.rate
  IN IF d >= MaxDuration THEN MaxDuration ELSE d

\* The grace and the time the body takes at the rate, saturating, and cut
\* down to whole ticks.
Duration(t, n) ==
  LET counted == IF n < 0 \/ n > t.limit THEN t.limit ELSE n
      d       == t.grace + (counted * Second) \div t.rate
  IN IF d >= MaxDuration THEN MaxDuration ELSE d

deadline(d) == IF d = MaxDuration THEN Never ELSE d

\* What WidenUpload sets the deadlines to.
UploadReadBy(t, n) == deadline(Duration(t, n))

UploadWriteBy(t, n) ==
  IF UploadReadBy(t, n) = Never THEN Never ELSE UploadReadBy(t, n) + t.grace

-----------------------------------------------------------------------------
(***************************************************************************)
(* Wiring                                                                  *)
(***************************************************************************)

Init ==
  /\ stage = "merging"
  /\ cfg = NewConfig
  /\ layers = <<>>
  /\ env = [f \in Defaulted |-> Unset]
  /\ tr = ZeroTransfer
  /\ made = "none"
  /\ phase = "none"
  /\ readBy = Never /\ writeBy = Never
  /\ kind = "none" /\ size = 0 /\ body = 0
  /\ elapsed = 0
  /\ slow = FALSE /\ heard = FALSE
  /\ lost = "nothing"

MergeLayer(src) ==
  /\ stage = "merging"
  /\ Len(layers) < MaxLayers
  /\ cfg' = Merge(cfg, src)
  /\ layers' = Append(layers, src)
  /\ UNCHANGED <<stage, env, tr, made, requestVars, deadlineVars, phase, elapsed, lost>>

FinalizeConfig(e) ==
  /\ stage = "merging"
  /\ cfg' = Finalize(cfg, e).cfg
  /\ env' = e
  /\ stage' = IF Finalize(cfg, e).ok THEN "finalized" ELSE "rejected"
  /\ UNCHANGED <<layers, tr, made, requestVars, deadlineVars, phase, elapsed, lost>>

\* NewServer and the Transfer take any Config whose pointers are set, a
\* rejected one included, save that NewTransfer panics on a rate that is not
\* positive and on a negative grace.  The first connection is accepted.
Wire(t, by) ==
  /\ finalized(cfg)
  /\ t.rate > 0 /\ t.grace >= 0
  /\ stage # "serving"
  /\ stage' = "serving"
  /\ layers' = <<>>
  /\ tr' = t
  /\ made' = by
  /\ phase' = "head"
  /\ readBy' = By(IF cfg["readHeaderTimeout"] # 0
                  THEN cfg["readHeaderTimeout"] ELSE cfg["readTimeout"])
  /\ UNCHANGED <<cfg, env, requestVars, writeBy, elapsed, lost>>

WireConfig(limit) == Wire(ConfigTransfer(cfg, limit), "config")

WireDirect(limit, d) == Wire(NewTransfer(limit, d.rate, d.grace), "direct")

-----------------------------------------------------------------------------
(***************************************************************************)
(* The connection: net/http's part                                         *)
(***************************************************************************)

\* The connection goes on with what a request has left of its deadlines.
Turn(p) ==
  /\ phase' = p
  /\ elapsed' = 0
  /\ UNCHANGED wiringVars

\* Another request's first byte arrives.
Arrive ==
  /\ phase = "idle"
  /\ readBy # Past
  /\ readBy' = By(IF cfg["readHeaderTimeout"] # 0
                  THEN cfg["readHeaderTimeout"] ELSE cfg["readTimeout"])
  /\ Turn("head")
  /\ UNCHANGED <<requestVars, writeBy, lost>>

\* The header has been read: what is left of the read timeout bounds the
\* rest of the request, and the write timeout begins.
HeadRead(k, n) ==
  /\ phase = "head"
  /\ readBy # Past
  /\ readBy' = IF cfg["readTimeout"] <= 0 THEN Never
               ELSE IF elapsed <= cfg["readTimeout"]
                    THEN cfg["readTimeout"] - elapsed ELSE Past
  /\ writeBy' = IF cfg["writeTimeout"] > 0 THEN cfg["writeTimeout"] ELSE writeBy
  /\ kind' = k
  /\ size' = n
  /\ body' = 0
  /\ slow' = FALSE
  /\ heard' = FALSE
  /\ Turn("handler")
  /\ UNCHANGED lost

\* A response is complete, and the connection waits for another request.
Finish ==
  /\ readBy' = By(IF cfg["idleTimeout"] # 0
                  THEN cfg["idleTimeout"] ELSE cfg["readTimeout"])
  /\ Turn("idle")
  /\ UNCHANGED <<requestVars, writeBy, lost>>

\* No request, or no whole header, came in time.
WaitTimesOut ==
  /\ phase \in {"idle", "head"}
  /\ readBy = Past
  /\ Turn("closed")
  /\ UNCHANGED <<requestVars, deadlineVars, lost>>

\* The deadline the moving body is under.
Moving == IF kind = "upload" THEN readBy ELSE writeBy

\* What is read or written under a passed deadline fails at once; anything
\* else may take its time.
Tick ==
  /\ phase \in {"idle", "head", "handler", "moving", "answering"}
  /\ ~(phase \in {"idle", "head"} /\ readBy = Past)
  /\ ~(phase = "moving" /\ Moving = Past)
  /\ elapsed < MaxTicks
  /\ readBy' = NextTick(readBy)
  /\ writeBy' = NextTick(writeBy)
  /\ elapsed' = IF phase \in {"head", "moving", "answering"} THEN elapsed + 1 ELSE 0
  /\ slow' = (slow \/ (phase = "moving" /\ elapsed' * tr.rate > body * Second))
  /\ UNCHANGED <<wiringVars, kind, size, body, heard, phase, lost>>

-----------------------------------------------------------------------------
(***************************************************************************)
(* The handler                                                             *)
(***************************************************************************)

\* A route's body is at most its limit: an upload is read no further.
Bodies == IF size < 0 THEN 0 .. tr.limit ELSE {Smaller(size, tr.limit)}

Moves(reached) ==
  /\ body' \in Bodies
  /\ heard' = reached
  /\ Turn("moving")
  /\ UNCHANGED <<kind, size, slow, lost>>

WidenUpload ==
  /\ phase = "handler" /\ kind = "upload"
  /\ readBy'  = IF tr.read  THEN UploadReadBy(tr, size)  ELSE readBy
  /\ writeBy' = IF tr.write THEN UploadWriteBy(tr, size) ELSE writeBy
  /\ Moves(TRUE)

WidenDownload ==
  /\ phase = "handler" /\ kind = "download"
  /\ writeBy' = IF tr.write THEN deadline(Duration(tr, size)) ELSE writeBy
  /\ UNCHANGED readBy
  /\ Moves(TRUE)

\* A writer that reaches no connection deadlines has none to set, which is
\* no error, and the handler goes on.
WidenUnsupported ==
  /\ phase = "handler"
  /\ UNCHANGED deadlineVars
  /\ Moves(FALSE)

\* Setting a deadline fails otherwise: the handler returns the error, a read
\* deadline that was set before the write deadline failed staying set.
WidenFails ==
  /\ phase = "handler"
  /\ \/ /\ kind = "upload" /\ tr.read
        /\ UNCHANGED readBy
     \/ /\ kind = "upload" /\ tr.write
        /\ readBy' = IF tr.read THEN UploadReadBy(tr, size) ELSE readBy
     \/ /\ kind = "download" /\ tr.write
        /\ UNCHANGED readBy
  /\ Turn("answering")
  /\ UNCHANGED <<requestVars, writeBy, lost>>

\* The whole upload is in, and the handler answers it.
BodyRead ==
  /\ phase = "moving" /\ kind = "upload"
  /\ readBy # Past
  /\ Turn("answering")
  /\ UNCHANGED <<requestVars, deadlineVars, lost>>

\* The whole download is out, which ends the response.
BodyWritten ==
  /\ phase = "moving" /\ kind = "download"
  /\ writeBy # Past
  /\ Finish

\* The deadline passes under the body.  An upload's handler is told by its
\* read and answers; a download is cut.
BodyTimesOut ==
  /\ phase = "moving"
  /\ Moving = Past
  /\ lost' = "body"
  /\ Turn(IF kind = "upload" THEN "answering" ELSE "closed")
  /\ UNCHANGED <<requestVars, deadlineVars>>

\* The answer to an upload is written.  A body net/http has not read whole
\* costs the connection.
Answer ==
  /\ phase = "answering"
  /\ writeBy # Past
  /\ \/ lost = "nothing" /\ Finish
     \/ /\ Turn("closed")
        /\ UNCHANGED <<requestVars, deadlineVars, lost>>

AnswerTimesOut ==
  /\ phase = "answering"
  /\ writeBy = Past
  /\ lost' = "answer"
  /\ phase' = "closed"
  /\ UNCHANGED <<wiringVars, requestVars, deadlineVars, elapsed>>

-----------------------------------------------------------------------------
Wiring ==
  \/ \E src \in Layers : MergeLayer(src)
  \/ \E e \in Envs : FinalizeConfig(e)
  \/ \E limit \in Limits : WireConfig(limit)
  \/ \E limit \in Limits, d \in Direct : WireDirect(limit, d)

Connection ==
  \/ Arrive
  \/ \E k \in {"upload", "download"}, n \in Sizes : HeadRead(k, n)
  \/ WaitTimesOut \/ Tick

Handler ==
  \/ WidenUpload \/ WidenDownload \/ WidenUnsupported \/ WidenFails
  \/ BodyRead \/ BodyWritten \/ BodyTimesOut
  \/ Answer \/ AnswerTimesOut

Next == Wiring \/ Connection \/ Handler

Spec == Init /\ [][Next]_vars

-----------------------------------------------------------------------------
(***************************************************************************)
(* Properties                                                              *)
(***************************************************************************)

DeadlineValue == Nat \cup {Never, Past}

TypeOK ==
  /\ stage \in {"merging", "finalized", "rejected", "serving"}
  /\ cfg \in [Fields -> Int \cup {Unset}]
  /\ stage = "serving" => finalized(cfg) /\ tr.rate # 0
  /\ tr \in [limit : Nat, rate : Nat, grace : Nat, read : BOOLEAN, write : BOOLEAN]
  /\ made \in {"none", "config", "direct"}
  /\ phase \in {"none", "idle", "head", "handler", "moving", "answering", "closed"}
  /\ phase # "none" => stage = "serving"
  /\ readBy \in DeadlineValue
  /\ writeBy \in DeadlineValue
  /\ kind \in {"none", "upload", "download"}
  /\ size \in Int
  /\ body \in Nat
  /\ elapsed \in Nat
  /\ slow \in BOOLEAN
  /\ heard \in BOOLEAN
  /\ lost \in {"nothing", "body", "answer"}

\* config.go:49: a field takes the default only when no file and no variable
\* sets it, a later setting overrides an earlier one, and "an explicit zero
\* survives", through any number of merges and a successful Finalize.
LastSettingWins ==
  stage = "finalized" =>
    \A f \in Fields :
      LET set == {i \in DOMAIN layers : layers[i][f] # Unset}
      IN \/ f \in Defaulted /\ env[f] # Unset /\ cfg[f] = env[f]
         \/ /\ f \in Defaulted => env[f] = Unset
            /\ \/ set # {} /\ cfg[f] = layers[Max(set)][f]
               \/ set = {} /\ f \in Defaulted /\ cfg[f] = Default[f]
               \/ set = {} /\ f \notin Defaulted /\ cfg[f] = Unset

\* transfer.go:47: "A timeout the Config disables ... stays disabled": under
\* a Config's Transfer no handler ever meets a deadline of a disabled
\* timeout, in any request of the connection.
DisabledStaysDisabled ==
  made = "config" =>
    /\ cfg["writeTimeout"] <= 0 => writeBy = Never
    /\ cfg["readTimeout"] <= 0 /\ phase \in {"handler", "moving", "answering"}
         => readBy = Never

NoEarlier(new, old) == new = Never \/ (old # Never /\ new >= old)

\* Widening never brings a deadline forward: whatever the size, the limit and
\* the time the handler has taken, a Config's Transfer leaves each deadline
\* no earlier than the server's own timeouts had it.
WideningNeverShortens ==
  [][ made = "config" /\ phase = "handler" /\ phase' = "moving"
        => NoEarlier(readBy', readBy) /\ NoEarlier(writeBy', writeBy) ]_vars

\* transfer.go:14: each deadline "allows the grace plus the time the body
\* takes at the rate, the slowest pace a client is allowed": once widened, a
\* body that moves at the rate is never cut, save for the fraction of a tick
\* the allowance is cut down by, and the answer to an upload, even to one the
\* read deadline has cut, still has the grace.
RateIsEnough ==
  heard =>
    /\ lost = "body" => slow
    /\ lost = "answer" => elapsed >= tr.grace \/ (slow /\ ~tr.read)
=============================================================================
