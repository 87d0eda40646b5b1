--------------------------- MODULE ResponseProofs ---------------------------
(***************************************************************************)
(* Proofs about Response, for any chains, errors, codes and number of uses *)
(* of the writer.                                                          *)
(***************************************************************************)
EXTENDS Response, SequenceLemmas, SequenceTheorems

Writer == [recorder : BOOLEAN, committed : BOOLEAN, status : Nat]

-----------------------------------------------------------------------------
(***************************************************************************)
(* The Recorder and net/http                                               *)
(***************************************************************************)

AllCommitted(ws) == \A i \in DOMAIN ws : ws[i].recorder => ws[i].committed

Statuses == {0} \cup 101 .. 999

Wire == [status : Statuses, sent : BOOLEAN, broken : BOOLEAN, stuck : BOOLEAN,
         hijacked : BOOLEAN]

\* No flush finds the connection broken.
Unbreaking == "broken" \notin Flushes /\ "stuck" \notin Flushes

\* What becomes of one writer, v of w.
Grown(w, v) ==
  /\ v \in Writer /\ v.recorder = w.recorder
  /\ w.committed => v = w
  /\ w.committed = (w.status # 0) => v.committed = (v.status # 0)

\* A commit changes a Recorder once, and records the status it was given.
LEMMA CommittingGrows ==
  ASSUME NEW w \in Writer, NEW code \in Nat \ {0}
  PROVE  /\ Grown(w, w) /\ Grown(w, Committing(w, code))
         /\ w.recorder => Committing(w, code).committed
         /\ w.recorder /\ ~w.committed => Committing(w, code).status = code
BY DEF Committing, Writer, Grown

\* What a call may do to the writers on the stack: it leaves those that have
\* committed alone, and makes no Recorder of another writer.
Shaped(ws, new) ==
  /\ new \in Seq(Writer) /\ Len(new) = Len(ws)
  /\ \A i \in DOMAIN ws : Grown(ws[i], new[i])

\* It commits every Recorder of the stack.
LEMMA CommitKeeps ==
  ASSUME NEW ws \in Seq(Writer), NEW code \in Nat \ {0}
  PROVE  /\ Shaped(ws, Commit(ws, code)) /\ AllCommitted(Commit(ws, code))
         /\ \A i \in DOMAIN ws : Commit(ws, code)[i] = Committing(ws[i], code)
<1> DEFINE new == Commit(ws, code)
<1>1. new = [i \in 1 .. Len(ws) |-> Committing(ws[i], code)]
  BY DEF Commit
<1>2. \A i \in 1 .. Len(ws) :
        /\ Grown(ws[i], Committing(ws[i], code))
        /\ ws[i].recorder => Committing(ws[i], code).committed
  BY CommittingGrows
<1>3. \A i \in 1 .. Len(ws) : Committing(ws[i], code) \in Writer
  BY <1>2 DEF Grown
<1>4. new \in Seq(Writer) /\ Len(new) = Len(ws)
  BY <1>1, <1>3
<1>5. \A i \in DOMAIN ws : new[i] = Committing(ws[i], code)
  BY <1>1
<1> HIDE DEF new
<1>6. Shaped(ws, new)
  BY <1>2, <1>4, <1>5 DEF Shaped
<1>7. AllCommitted(new)
  BY <1>2, <1>4, <1>5 DEF AllCommitted, Grown
<1> QED BY <1>5, <1>6, <1>7 DEF new

\* Writers that are left alone keep their shape.
LEMMA NothingKeeps ==
  ASSUME NEW ws \in Seq(Writer)
  PROVE  Shaped(ws, ws)
<1>1. 200 \in Nat \ {0}
  OBVIOUS
<1> QED BY <1>1, CommittingGrows DEF Shaped

\* Every way a handler's call reaches the Recorders.
LEMMA RecorderKeeps ==
  ASSUME NEW ws \in Seq(Writer), NEW code \in Nat \ {0},
         NEW size \in {"nothing", "small", "large"}, NEW flush
  PROVE  /\ Shaped(ws, ws)
         /\ Shaped(ws, WriteHeader(ws, code))
         /\ Final(code) => AllCommitted(WriteHeader(ws, code))
         /\ Shaped(ws, Write(ws)) /\ AllCommitted(Write(ws))
         /\ Shaped(ws, ReadFrom(ws, size))
         /\ size # "nothing" => AllCommitted(ReadFrom(ws, size))
         /\ Shaped(ws, FlushError(ws, flush))
         /\ flush = "ok" => AllCommitted(FlushError(ws, flush))
<1>1. Shaped(ws, ws)
  BY NothingKeeps
<1>2. Shaped(ws, Write(ws)) /\ AllCommitted(Write(ws))
  BY CommitKeeps DEF Write
<1>3. Shaped(ws, ReadFrom(ws, "nothing"))
  <2> DEFINE new == ReadFrom(ws, "nothing")
  <2>1. new = [i \in 1 .. Len(ws) |-> IF i = Len(ws) THEN Committing(ws[i], 200) ELSE ws[i]]
    BY DEF ReadFrom
  <2>2. \A i \in 1 .. Len(ws) : Grown(ws[i], ws[i]) /\ Grown(ws[i], Committing(ws[i], 200))
    BY CommittingGrows
  <2>3. \A i \in 1 .. Len(ws) : Grown(ws[i], new[i])
    BY <2>1, <2>2
  <2>4. new \in Seq(Writer) /\ Len(new) = Len(ws)
    BY <2>1, <2>2 DEF Grown
  <2> QED BY <2>3, <2>4 DEF Shaped
<1> QED BY <1>1, <1>2, <1>3, CommitKeeps DEF WriteHeader, FlushError, ReadFrom

\* A field of net/http's response is set without changing the others.
LEMMA SetsStatus ==
  ASSUME NEW w \in Wire, NEW code \in Statuses
  PROVE  LET v == [w EXCEPT !.status = code]
         IN /\ v \in Wire /\ v.status = code /\ v.sent = w.sent /\ v.broken = w.broken
            /\ v.stuck = w.stuck /\ v.hijacked = w.hijacked
<1>1. [w EXCEPT !.status = code] \in Wire
  BY DEF Wire
<1>2. [w EXCEPT !.status = code].status = code
  BY DEF Wire
<1> QED BY <1>1, <1>2 DEF Wire

\* The assignments to a response, field by field.
LEMMA SetsSent ==
  ASSUME NEW w \in Wire
  PROVE  LET v == [w EXCEPT !.sent = TRUE]
         IN /\ v \in Wire /\ v.sent /\ v.status = w.status /\ v.broken = w.broken
            /\ v.stuck = w.stuck /\ v.hijacked = w.hijacked
<1>1. [w EXCEPT !.sent = TRUE] \in Wire
  BY DEF Wire
<1>2. [w EXCEPT !.sent = TRUE].sent
  BY DEF Wire
<1> QED BY <1>1, <1>2 DEF Wire

\* The next of them: the connection broke.
LEMMA SetsBroken ==
  ASSUME NEW w \in Wire
  PROVE  LET v == [w EXCEPT !.broken = TRUE]
         IN /\ v \in Wire /\ v.broken /\ v.status = w.status /\ v.sent = w.sent
            /\ v.hijacked = w.hijacked
<1>1. [w EXCEPT !.broken = TRUE] \in Wire
  BY DEF Wire
<1>2. [w EXCEPT !.broken = TRUE].broken
  BY DEF Wire
<1> QED BY <1>1, <1>2 DEF Wire

\* The response's buffer met the connection's error.
LEMMA SetsStuck ==
  ASSUME NEW w \in Wire
  PROVE  LET v == Stuck(w)
         IN /\ v \in Wire /\ v.status = w.status /\ v.sent = w.sent
            /\ v.broken = w.broken /\ v.hijacked = w.hijacked
  BY DEF Wire, Stuck

\* And the last: the connection was hijacked.
LEMMA SetsHijacked ==
  ASSUME NEW w \in Wire
  PROVE  LET v == [w EXCEPT !.hijacked = TRUE]
         IN /\ v \in Wire /\ v.hijacked /\ v.status = w.status /\ v.sent = w.sent
            /\ v.broken = w.broken
<1>1. [w EXCEPT !.hijacked = TRUE] \in Wire
  BY DEF Wire
<1>2. [w EXCEPT !.hijacked = TRUE].hijacked
  BY DEF Wire
<1> QED BY <1>1, <1>2 DEF Wire

\* w takes a status, the first final one, and nothing else of it changes.
Headed(w, v, code) ==
  /\ v \in Wire /\ v.sent = w.sent /\ v.broken = w.broken /\ v.stuck = w.stuck
  /\ v.hijacked = w.hijacked
  /\ v.status = IF w.status = 0 /\ ~w.hijacked /\ Valid(code) /\ Final(code)
                THEN code ELSE w.status

\* WriteHeader decides the status of a response that has none, once.
LEMMA HeaderSets ==
  ASSUME NEW w \in Wire, NEW code \in Nat
  PROVE  Headed(w, HttpWriteHeader(w, code), code)
<1>1. CASE w.status = 0 /\ ~w.hijacked /\ Valid(code) /\ Final(code)
  <2>1. code \in 101 .. 999
    BY <1>1 DEF Valid, Final
  <2>2. code \in Statuses
    BY <2>1 DEF Statuses
  <2>3. HttpWriteHeader(w, code) = [w EXCEPT !.status = code]
    BY <1>1 DEF HttpWriteHeader
  <2> DEFINE v == [w EXCEPT !.status = code]
  <2>4. /\ v \in Wire /\ v.status = code /\ v.sent = w.sent /\ v.broken = w.broken
        /\ v.stuck = w.stuck /\ v.hijacked = w.hijacked
    BY <2>2, SetsStatus
  <2> HIDE DEF v
  <2>5. Headed(w, v, code)
    BY <1>1, <2>4 DEF Headed
  <2> QED BY <2>3, <2>5 DEF v
<1>2. CASE ~(w.status = 0 /\ ~w.hijacked /\ Valid(code) /\ Final(code))
  BY <1>2 DEF Headed, HttpWriteHeader
<1> QED BY <1>1, <1>2

\* A write or a flush that works commits a 200 where nothing is committed.
LEMMA WriteSends ==
  ASSUME NEW w \in Wire, NEW size, ~w.hijacked, w.sent => w.status # 0
  PROVE  LET v == HttpWrite(w, size)
         IN /\ v \in Wire /\ v.broken = w.broken /\ ~v.hijacked
            /\ v.status = IF w.status = 0 THEN 200 ELSE w.status
            /\ w.sent => v.sent
<1> DEFINE h == HttpWriteHeader(w, 200)
<1>1. Headed(w, h, 200)
  BY HeaderSets
<1>2. /\ h \in Wire /\ h.broken = w.broken /\ ~h.hijacked /\ h.sent = w.sent
      /\ h.status = IF w.status = 0 THEN 200 ELSE w.status
  BY <1>1 DEF Headed, Valid, Final
<1> HIDE DEF h
<1> DEFINE g == [h EXCEPT !.sent = TRUE]
           f == Stuck(h)
<1>3. HttpWrite(w, size) \in {h, g, f}
  BY DEF HttpWrite, h
<1>4. /\ g \in Wire /\ g.sent /\ g.status = h.status /\ g.broken = h.broken
      /\ g.hijacked = h.hijacked
  BY <1>2, SetsSent
<1>5. /\ f \in Wire /\ f.sent = h.sent /\ f.status = h.status /\ f.broken = h.broken
      /\ f.hijacked = h.hijacked
  BY <1>2, SetsStuck
<1> DEFINE v == HttpWrite(w, size)
<1> HIDE DEF g, f
<1>6. v = h \/ v = g \/ v = f
  BY <1>3
<1> HIDE DEF v
<1>7. /\ v \in Wire /\ v.broken = w.broken /\ ~v.hijacked /\ (w.sent => v.sent)
      /\ v.status = IF w.status = 0 THEN 200 ELSE w.status
  BY <1>2, <1>4, <1>5, <1>6
<1> QED BY <1>7 DEF v

\* A flush sends the response, unless the writer cannot or the connection breaks.
LEMMA FlushSends ==
  ASSUME NEW w \in Wire, NEW flush \in Flushes, ~w.hijacked
  PROVE  LET v == HttpFlush(w, flush)
         IN /\ v \in Wire /\ ~v.hijacked
            /\ flush = "unsupported" => v = w
            /\ flush # "unsupported" => v.status = IF w.status = 0 THEN 200 ELSE w.status
            /\ flush = "ok" => v.sent /\ v.broken = w.broken
            /\ flush \in {"broken", "stuck"} => v.sent = w.sent /\ v.broken
<1> DEFINE h == HttpWriteHeader(w, 200)
<1>1. Headed(w, h, 200)
  BY HeaderSets
<1>2. /\ h \in Wire /\ h.broken = w.broken /\ ~h.hijacked /\ h.sent = w.sent
      /\ h.status = IF w.status = 0 THEN 200 ELSE w.status
  BY <1>1 DEF Headed, Valid, Final
<1> HIDE DEF h
<1>3. CASE flush = "unsupported"
  BY <1>3 DEF HttpFlush
<1>4. CASE flush = "ok"
  <2>1. HttpFlush(w, flush) = [h EXCEPT !.sent = TRUE]
    BY <1>4 DEF HttpFlush, h
  <2> DEFINE v == HttpFlush(w, flush)
  <2>2. v \in Wire /\ v.sent /\ v.status = h.status /\ v.broken = h.broken /\ ~v.hijacked
    BY <1>2, <2>1, SetsSent
  <2> HIDE DEF v
  <2> QED BY <1>2, <1>4, <2>2 DEF v
<1> DEFINE g == [h EXCEPT !.broken = TRUE]
<1>5. g \in Wire /\ g.broken /\ g.status = h.status /\ g.sent = h.sent /\ ~g.hijacked
  BY <1>2, SetsBroken
<1>6. CASE flush = "broken"
  <2>1. HttpFlush(w, flush) = g
    BY <1>6 DEF HttpFlush, h
  <2> HIDE DEF g
  <2> QED BY <1>2, <1>5, <1>6, <2>1
<1>7. CASE flush = "stuck"
  <2>1. HttpFlush(w, flush) = Stuck(g)
    BY <1>7 DEF HttpFlush, h
  <2> HIDE DEF g
  <2>2. /\ Stuck(g) \in Wire /\ Stuck(g).broken /\ Stuck(g).status = h.status
        /\ Stuck(g).sent = h.sent /\ ~Stuck(g).hijacked
    BY <1>5, SetsStuck
  <2> QED BY <1>2, <1>7, <2>1, <2>2
<1> QED BY <1>3, <1>4, <1>6, <1>7, ResponseAssumption

\* A layer may put one writer above the others; a new one has committed
\* nothing.
Extended(ws, new) ==
  /\ new \in Seq(Writer) /\ Len(ws) <= Len(new)
  /\ \A i \in DOMAIN ws : new[i] = ws[i]
  /\ \A i \in DOMAIN new \ DOMAIN ws : ~new[i].committed /\ new[i].status = 0

\* WrapWriter leaves a Recorder on top of the writers it was given.
LEMMA WrapExtends ==
  ASSUME NEW ws \in Seq(Writer)
  PROVE  /\ Extended(ws, ws)
         /\ Extended(ws, Append(ws, Foreign))
         /\ Extended(ws, WrapWriter(ws))
         /\ WrapWriter(ws) # <<>> /\ Top(WrapWriter(ws)).recorder
<1>1. NewRecorder \in Writer /\ ~NewRecorder.committed /\ NewRecorder.status = 0
        /\ NewRecorder.recorder
  BY DEF NewRecorder, Writer
<1>2. Foreign \in Writer /\ ~Foreign.committed /\ Foreign.status = 0
  BY DEF Foreign, Writer
<1> HIDE DEF Writer
<1>3. Extended(ws, ws)
  BY DEF Extended
<1>4. ASSUME NEW w \in Writer, ~w.committed, w.status = 0
      PROVE  Extended(ws, Append(ws, w)) /\ Top(Append(ws, w)) = w /\ Append(ws, w) # <<>>
  BY <1>4 DEF Extended, Top
<1> QED BY <1>1, <1>2, <1>3, <1>4 DEF WrapWriter

-----------------------------------------------------------------------------
(***************************************************************************)
(* Problems                                                                *)
(***************************************************************************)

\* A problem of an error status marks every writer and heads net/http's
\* response, whether or not its document could be written, and never panics.
LEMMA ProblemWrites ==
  ASSUME wire \in Wire, writers \in Seq(Writer), NEW p, p.status \in 400 .. 599
  PROVE  /\ Shaped(writers, ProblemWrite(p).writers)
         /\ AllCommitted(ProblemWrite(p).writers)
         /\ \A i \in DOMAIN writers :
              ProblemWrite(p).writers[i] = Committing(writers[i], p.status)
         /\ Headed(wire, ProblemWrite(p).wire, p.status)
         /\ ProblemWrite(p).end \in {"ok", "error"}
         /\ ProblemWrite(p).end = "ok" => ~wire.hijacked /\ ~wire.stuck
<1> DEFINE headed == HttpWriteHeader(wire, p.status)
           marked == WriteHeader(writers, p.status)
<1>1. Valid(p.status) /\ Final(p.status) /\ p.status \in Nat \ {0}
  <2> DEFINE code == p.status
  <2>1. code \in 400 .. 599
    OBVIOUS
  <2> HIDE DEF code
  <2>2. Valid(code) /\ Final(code) /\ code \in Nat \ {0}
    BY <2>1 DEF Valid, Final
  <2> QED BY <2>2 DEF code
<1>2. ~HttpPanics(wire, p.status)
  BY <1>1 DEF HttpPanics
<1>3. Headed(wire, headed, p.status)
  BY <1>1, HeaderSets
<1>4. headed.status # 0 \/ headed.hijacked
  BY <1>1, <1>3 DEF Headed
<1>5. marked = Commit(writers, p.status)
  BY <1>1 DEF WriteHeader
<1>6. /\ Shaped(writers, marked) /\ AllCommitted(marked)
      /\ \A i \in DOMAIN writers : marked[i] = Committing(writers[i], p.status)
  BY <1>1, <1>5, CommitKeeps
<1> HIDE DEF headed, marked
<1>7. HttpWrite(headed, "small") = headed
  BY <1>4 DEF HttpWrite, HttpWriteHeader
<1>8. Write(marked) = marked
  <2>1. ASSUME NEW i \in DOMAIN marked PROVE Committing(marked[i], 200) = marked[i]
    <3>1. marked[i].recorder => marked[i].committed
      BY <1>6 DEF AllCommitted
    <3> QED BY <3>1 DEF Committing
  <2>2. Write(marked) = [i \in DOMAIN marked |-> marked[i]]
    BY <2>1 DEF Write, Commit
  <2> QED BY <1>6, <2>2 DEF Shaped
<1>9. \E e \in {"ok", "error"} :
        /\ ProblemWrite(p) = [writers |-> marked, wire |-> headed, end |-> e]
        /\ e = "ok" => ~HttpWriteFails(headed, "small")
  <2>1. CASE ~p.encodes
    BY <1>2, <2>1 DEF ProblemWrite, headed, marked
  <2>2. CASE p.encodes
    <3>1. ProblemWrite(p) = [writers |-> Write(marked), wire |-> HttpWrite(headed, "small"),
                             end |-> IF HttpWriteFails(headed, "small") THEN "error"
                                     ELSE "ok"]
      BY <1>2, <2>2 DEF ProblemWrite, headed, marked
    <3> QED BY <1>7, <1>8, <3>1
  <2> QED BY <2>1, <2>2
<1>10. ~HttpWriteFails(headed, "small") => ~wire.hijacked /\ ~wire.stuck
  BY <1>3 DEF HttpWriteFails, Headed
<1> QED BY <1>3, <1>6, <1>9, <1>10

\* This package's errors have built-in statuses.
LEMMA StatusIsBuiltIn ==
  ASSUME NEW own
  PROVE  status(own) \in BuiltInDetail
BY DEF status, BuiltInDetail

\* A field of a problem is set without changing the others.
LEMMA ProblemFields ==
  ASSUME NEW S, NEW D, NEW p \in [status : S, detail : D, encodes : BOOLEAN], NEW s, NEW d
  PROVE  /\ [p EXCEPT !.status = s].status = s
         /\ [p EXCEPT !.status = s].detail = p.detail
         /\ [p EXCEPT !.status = s] \in [status : {s}, detail : D, encodes : BOOLEAN]
         /\ [p EXCEPT !.detail = d].status = p.status
         /\ [p EXCEPT !.detail = d].detail = d
<1>1. [p EXCEPT !.status = s].status = s /\ [p EXCEPT !.status = s].detail = p.detail
  OBVIOUS
<1>2. [p EXCEPT !.status = s] \in [status : {s}, detail : D, encodes : BOOLEAN]
  OBVIOUS
<1>3. [p EXCEPT !.detail = d].status = p.status /\ [p EXCEPT !.detail = d].detail = d
  OBVIOUS
<1> QED BY <1>1, <1>2, <1>3

\* A matcher's problem and a returned one get an error status, and have no
\* error text of their own.
Reported == [status : 400 .. 599, detail : {"none", "own"}, encodes : BOOLEAN]

\* A problem without a status is reported as a 500.
LEMMA StatusIsGiven ==
  ASSUME NEW p \in ProblemType
  PROVE  /\ withStatus(p).status = IF p.status = 0 THEN 500 ELSE p.status
         /\ withStatus(p) \in Reported
<1> DEFINE v == [p EXCEPT !.status = 500]
<1>1. p.status \in {0} \cup 400 .. 599
  BY DEF ProblemType
<1>2. v.status = 500 /\ v \in [status : {500}, detail : {"none", "own"}, encodes : BOOLEAN]
  BY ProblemFields DEF ProblemType
<1> HIDE DEF v
<1>3. v \in Reported
  <2>1. {500} \subseteq 400 .. 599
    OBVIOUS
  <2> QED BY <1>2, <2>1 DEF Reported
<1>4. p.status # 0 => p \in Reported
  BY <1>1 DEF ProblemType, Reported
<1>5. CASE p.status = 0
  <2>1. withStatus(p) = v
    BY <1>5 DEF withStatus, v
  <2> QED BY <1>2, <1>3, <1>5, <2>1
<1>6. CASE p.status # 0
  <2>1. withStatus(p) = p
    BY <1>6 DEF withStatus
  <2> QED BY <1>4, <1>6, <2>1
<1> QED BY <1>5, <1>6

\* The first matcher that claims an error exists where one claims it.
LEMMA FirstIsFirst ==
  ASSUME NEW err \in ErrorType, Claiming(err) # {}
  PROVE  \E i \in Claiming(err) : /\ \A j \in Claiming(err) : i <= j
                                  /\ FirstClaim(err) = err.claims[i]
                                  /\ err.claims[i].problem \in ProblemType
<1>1. err.claims \in Seq([ok : BOOLEAN, problem : ProblemType])
  BY DEF ErrorType
<1>2. Claiming(err) \subseteq 1 .. Len(err.claims) /\ Len(err.claims) \in Nat
  BY <1>1 DEF Claiming
<1>3. \E i \in Claiming(err) : \A j \in Claiming(err) : i <= j
  BY <1>2, LeastExists
<1> DEFINE first == CHOOSE i \in Claiming(err) : \A j \in Claiming(err) : i <= j
<1>4. first \in Claiming(err) /\ \A j \in Claiming(err) : first <= j
  BY <1>3
<1>5. \A i \in 1 .. Len(err.claims) : err.claims[i].problem \in ProblemType
  <2>1. \A i \in 1 .. Len(err.claims) :
          err.claims[i] \in [ok : BOOLEAN, problem : ProblemType]
    <3>1. ASSUME NEW S, NEW seq \in Seq(S)
          PROVE  \A i \in 1 .. Len(seq) : seq[i] \in S
      OBVIOUS
    <3> QED BY <1>1, <3>1
  <2> QED BY <2>1
<1> HIDE DEF first
<1> QED BY <1>2, <1>4, <1>5 DEF FirstClaim, first

\* The problem of an error, before the text is put into it.
LEMMA ProblemIsReported ==
  ASSUME NEW err \in ErrorType
  PROVE  /\ ProblemOf(err) \in Reported
         /\ err.own = None /\ Claiming(err) = {} /\ ~Whole(err) => ProblemOf(err).status = 500
<1>1. ASSUME NEW code \in 400 .. 599
      PROVE  Problem(code) \in Reported /\ Problem(code).status = code
  BY <1>1 DEF Problem, Reported
<1>2. CASE err.own # None
  <2>1. ProblemOf(err) = Problem(status(err.own))
    BY <1>2 DEF ProblemOf, Whole
  <2>2. status(err.own) \in 400 .. 599
    BY StatusIsBuiltIn DEF BuiltInDetail
  <2>3. Problem(status(err.own)) \in Reported
    BY <1>1, <2>2
  <2> QED BY <1>2, <2>1, <2>3
<1>3. CASE err.own = None /\ Whole(err)
  <2>1. ProblemOf(err) = withStatus(err.problem)
    BY <1>3 DEF ProblemOf
  <2>2. err.problem \in ProblemType
    BY DEF ErrorType
  <2> QED BY <1>3, <2>1, <2>2, StatusIsGiven
<1>4. CASE err.own = None /\ ~Whole(err) /\ Claiming(err) # {}
  <2>1. ProblemOf(err) = withStatus(FirstClaim(err).problem)
    BY <1>4 DEF ProblemOf
  <2>2. FirstClaim(err).problem \in ProblemType
    BY <1>4, FirstIsFirst
  <2> QED BY <1>4, <2>1, <2>2, StatusIsGiven
<1>5. CASE err.own = None /\ ~Whole(err) /\ Claiming(err) = {}
  <2>1. ProblemOf(err) = Problem(500)
    BY <1>5 DEF ProblemOf
  <2> QED BY <1>1, <2>1
<1> QED BY <1>2, <1>3, <1>4, <1>5

\* The problem that is sent has the same status, and the error's text only
\* where its status is in the detail set.
LEMMA AnswerIsProblem ==
  ASSUME NEW err \in ErrorType, NEW detail
  PROVE  /\ Answer(err, detail).status = ProblemOf(err).status
         /\ Answer(err, detail).status \in 400 .. 599
         /\ Answer(err, detail).detail = "text" =>
              ~Whole(err) /\ ProblemOf(err).status \in detail
<1> DEFINE p == ProblemOf(err)
<1>1. p \in Reported
  BY ProblemIsReported
<1> HIDE DEF p
<1>2. CASE ~Whole(err) /\ p.detail = "none" /\ p.status \in detail
  <2>1. Answer(err, detail) = [p EXCEPT !.detail = "text"]
    BY <1>2 DEF Answer, WithDetail, p
  <2>2. Answer(err, detail).status = p.status
    <3>1. [p EXCEPT !.detail = "text"].status = p.status
      BY <1>1, ProblemFields DEF Reported
    <3> QED BY <2>1, <3>1
  <2> QED BY <1>1, <1>2, <2>2 DEF Reported, p
<1>3. CASE ~(~Whole(err) /\ p.detail = "none" /\ p.status \in detail)
  <2>1. Answer(err, detail) = p
    BY <1>3 DEF Answer, WithDetail, p
  <2> QED BY <1>1, <2>1 DEF Reported, p
<1> QED BY <1>2, <1>3

-----------------------------------------------------------------------------
(***************************************************************************)
(* The invariants                                                          *)
(***************************************************************************)

\* The writers are as many as the innermost layer's height in them says, and
\* each of the middleware, and Handle, has a Recorder at its own height.
OnRecorder(ws, height) == height \in DOMAIN ws /\ ws[height].recorder

StackInv ==
  /\ chain \in Chains /\ adapted \in BOOLEAN /\ mode \in Mode
  /\ held \in Seq(Nat) /\ writers \in Seq(Writer)
  /\ mode = "handler" => Depth = Len(chain) + 1
  /\ mode # "handler" => Depth <= Len(chain)
  /\ Done => Depth = 0
  /\ Len(writers) = IF Depth = 0 THEN 0 ELSE held[Depth]
  /\ \A i, j \in 1 .. Depth : i <= j => held[i] <= held[j]
  /\ \A i \in 1 .. Depth : i <= Len(chain) /\ chain[i] # "foreign" =>
       OnRecorder(writers, held[i])
  /\ mode = "handler" /\ adapted => OnRecorder(writers, held[Depth])

\* No Recorder is without the commit of a response that has one, unless its
\* connection broke in a flush.
Marked(ws, w) ==
  \A i \in DOMAIN ws :
    /\ ws[i].committed = (ws[i].status # 0)
    /\ ws[i].recorder /\ w.status # 0 /\ ~w.broken => ws[i].committed

WireInv ==
  /\ wire \in Wire
  /\ wire.sent => wire.status # 0
  /\ mode = "down" => wire.status = 0 /\ ~wire.broken /\ ~wire.hijacked
  /\ ops \in 0 .. MaxOps
  /\ Marked(writers, wire)

\* How the handler ended, and what of it each mode still knows.
Record == [kind   : {"panic", "request", "cause", "afterCommit", "writeFailed"},
           status : Nat,
           level  : {"debug", "info", "warn", "error"}]

EndInv ==
  /\ logs \in Seq(Record)
  /\ mode \in {"down", "handler"} =>
       outcome = Unended /\ answers = <<>> /\ logs = <<>>
  /\ mode \notin {"down", "handler"} => outcome.kind \in {"nil", "error", "panic", "abort"}
  /\ mode = "panic" => outcome.kind \in {"panic", "error"} /\ answers = <<>>
  /\ outcome.kind = "abort" => mode \in {"abort", "cut"}
  /\ outcome.kind = "error" => outcome.err \in Errors
  /\ outcome.kind = "panic" /\ mode \notin {"return", "complete"} =>
       outcome.clean = (wire.status = 0)

\* A panic is logged when it stops being one.
PanicInv ==
  /\ mode = "panic" \/ outcome.kind = "abort" => Logged("panic") = {}
  /\ \A i, j \in Logged("panic") : i = j
  /\ outcome.kind = "panic" /\ mode \in {"return", "complete"}
       /\ ~wire.hijacked /\ ~wire.broken
       => outcome.clean /\ wire.status = 500 /\ (mode = "complete" => wire.sent)

\* The client is being told of the error, or a record says it.
Told == /\ mode \in {"return", "complete"}
        /\ wire.status \in 400 .. 499 /\ ~wire.broken /\ ~wire.hijacked
        /\ mode = "complete" => wire.sent
        /\ answers # <<>>

Said == \E i \in DOMAIN logs :
          /\ logs[i].kind \in {"cause", "afterCommit", "writeFailed"}
          /\ logs[i].level \in {"warn", "error"} \/ outcome.err.canceled

\* A nil *Problem has panicked, or is panicking, when asked for its text.
Raised == /\ outcome.err.form = "nil"
          /\ mode \in {"panic", "cut"} \/ Logged("panic") # {}

\* The error's problem went into a buffer nobody empties.
Buffered == wire.broken /\ ~wire.stuck /\ ~CauseLogged(outcome.err)

ErrorInv ==
  /\ outcome.kind = "error" => Told \/ Said \/ Raised \/ Buffered
  /\ \A i \in DOMAIN answers : answers[i].detail = "text" =>
       /\ outcome.kind = "error"
       /\ \/ outcome.err.own # None \/ Claiming(outcome.err) # {}
          \/ 500 \in Details

IInv == StackInv /\ WireInv /\ EndInv /\ PanicInv /\ ErrorInv

-----------------------------------------------------------------------------
\* What the Recorders need of the handlers to agree with net/http: no code
\* that net/http refuses, no ReadFrom of a source that yields nothing, and no
\* flush on a connection that breaks.
Orderly ==
  /\ Codes \subseteq 100 .. 999
  /\ "nothing" \notin Reads
  /\ Unbreaking

Agrees(ws, w) ==
  \A i \in DOMAIN ws : ws[i].recorder =>
    /\ w.status # 0 => ws[i].committed /\ ws[i].status = w.status
    /\ w.status = 0 /\ ~w.hijacked => ~ws[i].committed /\ ws[i].status = 0

AgreeInv == ~wire.broken /\ Agrees(writers, wire)

LogInv ==
  \A i \in Logged("request") :
    /\ wire.status # 0 => logs[i].status = wire.status
    /\ wire.status = 0 /\ ~wire.hijacked /\ mode = "return" => logs[i].status = 200
    /\ wire.status = 0 /\ ~wire.hijacked /\ mode = "panic"  => logs[i].status = 500

Recoverers == {i \in DOMAIN chain : chain[i] = "recoverer"}

AnswerInv ==
  /\ outcome.kind = "panic" /\ outcome.clean /\ ~wire.hijacked =>
       /\ mode = "panic" => Recoverers \subseteq 1 .. Depth
       /\ mode \in {"abort", "cut"} => Recoverers = {}
  /\ outcome.kind = "error" /\ outcome.clean /\ ~wire.hijacked /\ outcome.err.form # "nil" =>
       /\ mode \in {"return", "complete"}
       /\ wire.status = ProblemOf(outcome.err).status
       /\ mode = "complete" => wire.sent

OInv == AgreeInv /\ LogInv /\ AnswerInv

-----------------------------------------------------------------------------
(***************************************************************************)
(* The stack                                                               *)
(***************************************************************************)

\* A layer that is entered has its writers on top of those it was given.
LEMMA EnterFacts ==
  ASSUME StackInv, Enter
  PROVE  /\ mode = "down" /\ mode' \in {"down", "handler"}
         /\ UNCHANGED <<chain, adapted, wire, ops, outcome, answers, logs>>
         /\ Extended(writers, writers')
         /\ held' = Append(held, Len(writers'))
         /\ Depth < Len(chain) => mode' = "down"
         /\ Depth >= Len(chain) => mode' = "handler"
         /\ mode' = "down" /\ chain[Depth + 1] # "foreign" =>
              writers' # <<>> /\ Top(writers').recorder
         /\ mode' = "handler" /\ adapted => writers' # <<>> /\ Top(writers').recorder
<1> USE DEF StackInv
<1>1. CASE EnterMiddleware
  BY <1>1, WrapExtends DEF EnterMiddleware, Entered, Depth
<1>2. CASE EnterForeign
  BY <1>2, WrapExtends DEF EnterForeign, Entered, Depth
<1>3. CASE EnterHandler
  BY <1>3, WrapExtends DEF EnterHandler, Entered, Depth
<1> QED BY <1>1, <1>2, <1>3 DEF Enter

\* What of the stack's invariant a step may rely on, as facts about its
\* sequences.
LEMMA StackFacts ==
  ASSUME StackInv
  PROVE  /\ chain \in Seq(Layers) /\ held \in Seq(Nat) /\ writers \in Seq(Writer)
         /\ Len(held) \in Nat /\ Len(writers) \in Nat /\ Len(chain) \in Nat
         /\ Depth > 0 => Len(writers) = held[Depth]
         /\ Depth = 0 => Len(writers) = 0
         /\ \A i \in 1 .. Depth : held[i] \in Nat /\ held[i] <= Len(writers)
<1>1. chain \in Seq(Layers) /\ held \in Seq(Nat) /\ writers \in Seq(Writer)
  BY ResponseAssumption DEF StackInv
<1>2. Len(writers) = IF Depth = 0 THEN 0 ELSE held[Depth]
  BY DEF StackInv
<1>3. \A i, j \in 1 .. Depth : i <= j => held[i] <= held[j]
  BY DEF StackInv
<1>4. Depth \in Nat /\ \A i \in 1 .. Depth : held[i] \in Nat
  BY <1>1 DEF Depth
<1> QED BY <1>1, <1>2, <1>3, <1>4

\* The stack of the writers grows with the layers.
LEMMA EnterKeepsStack ==
  ASSUME StackInv, Enter
  PROVE  StackInv'
<1> DEFINE n == Len(held)
           m == Len(writers')
<1>1. /\ writers' \in Seq(Writer) /\ held' = Append(held, m) /\ m \in Nat
      /\ Len(writers) <= m /\ \A i \in DOMAIN writers : writers'[i] = writers[i]
  BY EnterFacts DEF Extended
<1>2. n \in Nat /\ held' \in Seq(Nat) /\ Len(held') = n + 1
      /\ held'[n + 1] = m /\ \A i \in 1 .. n : held'[i] = held[i]
  BY <1>1, StackFacts
<1>3. chain' = chain /\ adapted' = adapted /\ chain \in Chains /\ adapted \in BOOLEAN
      /\ mode' \in {"down", "handler"} /\ n <= Len(chain)
      /\ (mode' = "handler" <=> n >= Len(chain))
  BY StackFacts, EnterFacts DEF StackInv, Depth
<1>4. \A i \in 1 .. n : held[i] \in Nat /\ held[i] <= m
  BY <1>1, StackFacts DEF Depth
<1>5. \A i, j \in 1 .. n + 1 : i <= j => held'[i] <= held'[j]
  <2>1. \A i, j \in 1 .. n : i <= j => held[i] <= held[j]
    BY DEF StackInv, Depth
  <2> QED BY <1>1, <1>2, <1>4, <2>1
<1>6. \A h : OnRecorder(writers, h) => OnRecorder(writers', h)
  <2>1. DOMAIN writers \subseteq DOMAIN writers'
    BY <1>1, StackFacts
  <2> QED BY <1>1, <2>1 DEF OnRecorder
<1>7. writers' # <<>> /\ Top(writers').recorder => OnRecorder(writers', held'[n + 1])
  BY <1>1, <1>2 DEF OnRecorder, Top
<1>8. ASSUME NEW i \in 1 .. n + 1, i <= Len(chain), chain[i] # "foreign"
      PROVE  OnRecorder(writers', held'[i])
  <2>1. CASE i \in 1 .. n
    <3>1. OnRecorder(writers, held[i])
      BY <1>8, <2>1 DEF StackInv, Depth
    <3> QED BY <1>2, <1>6, <2>1, <3>1
  <2>2. CASE i = n + 1
    <3>1. mode' = "down" /\ chain[Depth + 1] # "foreign"
      BY <1>2, <1>3, <1>8, <2>2, StackFacts DEF Depth
    <3> QED BY <1>7, <2>2, <3>1, EnterFacts
  <2> QED BY <1>2, <2>1, <2>2
<1>9. mode' = "handler" /\ adapted' => OnRecorder(writers', held'[n + 1])
  BY <1>3, <1>7, EnterFacts
<1>10. mode' = "handler" => Len(held') = Len(chain') + 1
  BY <1>2, <1>3, StackFacts
<1>11. mode' # "handler" => Len(held') <= Len(chain')
  BY <1>2, <1>3, StackFacts
<1>12. mode' \in Mode /\ ~Done'
  BY <1>3 DEF Mode, Done
<1> HIDE DEF n, m
<1> QED
  BY <1>1, <1>2, <1>3, <1>5, <1>8, <1>9, <1>10, <1>11, <1>12 DEF StackInv, Depth, m

\* The innermost layer is left, whatever was done to its writers first.
LEMMA LeftKeepsStack ==
  ASSUME StackInv, Depth > 0, NEW ws, Shaped(writers, ws), Left(ws),
         UNCHANGED <<chain, adapted>>, mode' \in {"return", "panic", "abort"}
  PROVE  /\ StackInv' /\ Len(held') = Len(held) - 1
         /\ \A i \in DOMAIN writers' : i \in DOMAIN ws /\ writers'[i] = ws[i]
<1> DEFINE n == Len(held)
           k == IF n = 1 THEN 0 ELSE held[n - 1]
<1>0. n \in Nat /\ n > 0
  BY StackFacts DEF Depth
<1>1. k \in 0 .. Len(writers)
  <2>1. n # 1 => n - 1 \in 1 .. Depth
    <3> HIDE DEF n
    <3>1. n # 1 => n - 1 \in 1 .. n
      BY <1>0
    <3> QED BY <3>1 DEF n, Depth
  <2>2. n # 1 => held[n - 1] \in Nat /\ held[n - 1] <= Len(writers)
    BY <2>1, StackFacts
  <2> QED BY <2>2, StackFacts
<1>2. /\ writers' = SubSeq(ws, 1, k) /\ held' = SubSeq(held, 1, n - 1)
      /\ ws \in Seq(Writer) /\ Len(ws) = Len(writers)
  BY DEF Left, Beneath, Shaped, Depth
<1> HIDE DEF k
<1>3. /\ writers' \in Seq(Writer) /\ Len(writers') = k
      /\ \A i \in 1 .. k : writers'[i] = ws[i] /\ i \in DOMAIN ws
  BY <1>1, <1>2
<1>4. /\ held' \in Seq(Nat) /\ Len(held') = n - 1
      /\ \A i \in 1 .. n - 1 : held'[i] = held[i]
  <2>1. held \in Seq(Nat)
    BY StackFacts
  <2>2. n - 1 \in 0 .. Len(held) /\ n - 1 - 1 + 1 = n - 1
    BY <1>0
  <2> QED BY <1>0, <1>2, <2>1, <2>2
<1>5. n - 1 <= Len(chain)
  BY StackFacts DEF StackInv, Depth
<1>6. k = IF n - 1 = 0 THEN 0 ELSE held'[n - 1]
  BY <1>0, <1>4 DEF k
<1>7. \A i, j \in 1 .. n - 1 : i <= j => held'[i] <= held'[j]
  <2>1. \A i, j \in 1 .. n : i <= j => held[i] <= held[j]
    BY DEF StackInv, Depth
  <2>2. ASSUME NEW i \in 1 .. n - 1 PROVE i \in 1 .. n /\ held'[i] = held[i]
    BY <1>0, <1>4
  <2> HIDE DEF n
  <2> QED BY <2>1, <2>2
<1>8. ASSUME NEW i \in 1 .. n - 1, i <= Len(chain), chain[i] # "foreign"
      PROVE  OnRecorder(writers', held'[i])
  <2>1. i \in 1 .. n /\ held'[i] = held[i]
    BY <1>0, <1>4
  <2>2. OnRecorder(writers, held[i])
    BY <1>8, <2>1 DEF StackInv, Depth
  <2>3. held[i] \in Nat /\ held[i] >= 1
    BY <2>1, <2>2, StackFacts DEF OnRecorder, Depth
  <2>4. held[i] <= k
    <3>1. n - 1 # 0 /\ n - 1 \in 1 .. n - 1 /\ i <= n - 1
      <4> HIDE DEF n
      <4> QED BY <1>0, <1>8
    <3>2. held'[i] <= held'[n - 1]
      BY <1>7, <3>1
    <3> QED BY <1>6, <2>1, <3>1, <3>2
  <2>5. ws[held[i]].recorder /\ held[i] \in 1 .. k
    BY <1>1, <2>2, <2>3, <2>4 DEF OnRecorder, Shaped, Grown
  <2> QED BY <1>3, <2>1, <2>5 DEF OnRecorder
<1>9. mode' \in Mode /\ mode' # "handler" /\ ~Done'
  BY DEF Mode, Done
<1>10. chain' = chain /\ adapted' = adapted /\ chain \in Chains /\ adapted \in BOOLEAN
  BY DEF StackInv
<1> HIDE DEF n
<1>11. StackInv'
  BY <1>3, <1>4, <1>5, <1>6, <1>7, <1>8, <1>9, <1>10 DEF StackInv, Depth
<1> QED BY <1>3, <1>4, <1>11 DEF n

\* The innermost layer's writer is a Recorder where the code asks it whether
\* it has committed, and an uncommitted one means that nothing is committed.
LEMMA TopIsRecorder ==
  ASSUME StackInv, WireInv, Depth > 0,
         \/ mode = "handler" /\ adapted
         \/ mode # "handler" /\ Layer # "foreign"
  PROVE  /\ writers # <<>> /\ Len(writers) \in DOMAIN writers
         /\ Top(writers) = writers[Len(writers)] /\ Top(writers).recorder
         /\ Top(writers).status \in Nat
         /\ ~Top(writers).committed => wire.status = 0 \/ wire.broken
<1>1. Depth \in Nat /\ Len(writers) = held[Depth] /\ writers \in Seq(Writer)
  BY StackFacts DEF Depth
<1>2. OnRecorder(writers, held[Depth])
  <2>1. CASE mode = "handler" /\ adapted
    BY <2>1 DEF StackInv
  <2>2. CASE mode # "handler" /\ Layer # "foreign"
    <3>1. Depth <= Len(chain) /\ Depth \in 1 .. Depth
      BY <1>1, <2>2 DEF StackInv
    <3> QED BY <2>2, <3>1 DEF StackInv, Layer
  <2> QED BY <2>1, <2>2
<1>3. Len(writers) \in DOMAIN writers /\ writers[Len(writers)].recorder
  BY <1>1, <1>2 DEF OnRecorder
<1>4. ~writers[Len(writers)].committed => wire.status = 0 \/ wire.broken
  BY <1>3 DEF WireInv, Marked
<1>5. writers[Len(writers)].status \in Nat /\ writers # <<>>
  <2>1. writers[Len(writers)] \in Writer
    BY <1>1, <1>3
  <2> QED BY <1>3, <2>1 DEF Writer
<1> QED BY <1>3, <1>4, <1>5 DEF Top

\* Writers that a call has marked stay in step with net/http's response.
LEMMA MarksStay ==
  ASSUME NEW ws \in Seq(Writer), NEW new, NEW kept, NEW w \in Wire, NEW v \in Wire,
         Marked(ws, w), Shaped(ws, new),
         \A i \in DOMAIN kept : i \in DOMAIN new /\ kept[i] = new[i],
         v.status # 0 /\ ~v.broken => (w.status # 0 /\ ~w.broken) \/ AllCommitted(new)
  PROVE  Marked(kept, v)
<1> SUFFICES ASSUME NEW i \in DOMAIN kept
             PROVE  /\ kept[i].committed = (kept[i].status # 0)
                    /\ kept[i].recorder /\ v.status # 0 /\ ~v.broken => kept[i].committed
  BY DEF Marked
<1>1. kept[i] = new[i] /\ i \in DOMAIN ws /\ i \in DOMAIN new
  BY DEF Shaped
<1>2. Grown(ws[i], new[i]) /\ ws[i].committed = (ws[i].status # 0)
  BY <1>1 DEF Shaped, Marked
<1>3. ws[i].recorder /\ w.status # 0 /\ ~w.broken => ws[i].committed
  BY <1>1 DEF Marked
<1>4. kept[i].committed = (kept[i].status # 0)
  BY <1>1, <1>2 DEF Grown
<1>5. ASSUME kept[i].recorder, v.status # 0, ~v.broken
      PROVE  kept[i].committed
  <2>1. CASE AllCommitted(new)
    BY <1>1, <1>5, <2>1 DEF AllCommitted
  <2>2. CASE w.status # 0 /\ ~w.broken
    BY <1>1, <1>2, <1>3, <1>5, <2>2 DEF Grown
  <2> QED BY <1>5, <2>1, <2>2
<1> QED BY <1>4, <1>5

\* A step that leaves the innermost layer.
LEMMA LeavingKeeps ==
  ASSUME StackInv, WireInv, Depth > 0, NEW ws, Shaped(writers, ws), Left(ws),
         UNCHANGED <<chain, adapted, ops>>, mode' \in {"return", "panic", "abort"},
         wire' \in Wire, wire'.sent => wire'.status # 0,
         wire'.status # 0 /\ ~wire'.broken =>
           (wire.status # 0 /\ ~wire.broken) \/ AllCommitted(ws)
  PROVE  StackInv' /\ WireInv' /\ Len(held') = Len(held) - 1
<1>1. /\ StackInv' /\ Len(held') = Len(held) - 1
      /\ \A i \in DOMAIN writers' : i \in DOMAIN ws /\ writers'[i] = ws[i]
  BY LeftKeepsStack
<1>2. Marked(writers', wire')
  <2>1. writers \in Seq(Writer) /\ wire \in Wire /\ Marked(writers, wire)
    BY DEF StackInv, WireInv
  <2> QED BY <1>1, <2>1, MarksStay
<1> QED BY <1>1, <1>2 DEF WireInv

\* The records of a step follow those that were there.
LEMMA RecordsFollow ==
  ASSUME NEW S, NEW old \in Seq(S), NEW new \in Seq(S)
  PROVE  /\ old \o new \in Seq(S)
         /\ \A i \in DOMAIN old : i \in DOMAIN (old \o new) /\ (old \o new)[i] = old[i]
         /\ \A j \in DOMAIN new : /\ Len(old) + j \in DOMAIN (old \o new)
                                  /\ (old \o new)[Len(old) + j] = new[j]
         /\ \A i \in DOMAIN (old \o new) \ DOMAIN old :
              \E j \in DOMAIN new : i = Len(old) + j /\ (old \o new)[i] = new[j]
<1> DEFINE all == old \o new
           m == Len(old)
           n == Len(new)
<1>1. m \in Nat /\ n \in Nat /\ all \in Seq(S) /\ Len(all) = m + n
  OBVIOUS
<1>2. \A i \in 1 .. m + n : all[i] = IF i <= m THEN old[i] ELSE new[i - m]
  BY ConcatProperties
<1>3. DOMAIN old = 1 .. m /\ DOMAIN new = 1 .. n /\ DOMAIN all = 1 .. m + n
  BY <1>1
<1> HIDE DEF all, m, n
<1>4. \A i \in DOMAIN old : i \in DOMAIN all /\ all[i] = old[i]
  BY <1>1, <1>2, <1>3
<1>5. \A j \in DOMAIN new : m + j \in DOMAIN all /\ all[m + j] = new[j]
  <2> SUFFICES ASSUME NEW j \in 1 .. n
               PROVE  m + j \in 1 .. m + n /\ all[m + j] = new[j]
    BY <1>3
  <2> DEFINE k == m + j
  <2>1. k \in 1 .. m + n /\ ~(k <= m) /\ k - m = j
    BY <1>1
  <2> HIDE DEF k
  <2>2. all[k] = new[j]
    BY <1>2, <2>1
  <2> QED BY <2>1, <2>2 DEF k
<1>6. \A i \in DOMAIN all \ DOMAIN old : \E j \in DOMAIN new : i = m + j /\ all[i] = new[j]
  <2> TAKE i \in DOMAIN all \ DOMAIN old
  <2>1. i - m \in DOMAIN new /\ i = m + (i - m) /\ all[i] = new[i - m]
    BY <1>1, <1>2, <1>3
  <2> QED BY <2>1
<1> QED BY <1>1, <1>4, <1>5, <1>6 DEF all, m, n

\* A step notes a, b or both, in this order, after the records in old.
Noted(old, all, x, a, y, b) ==
  /\ all \in Seq(Record)
  /\ \A i \in DOMAIN old : i \in DOMAIN all /\ all[i] = old[i]
  /\ x => Len(old) + 1 \in DOMAIN all /\ all[Len(old) + 1] = a
  /\ y => \E i \in DOMAIN all : all[i] = b
  /\ \A i \in DOMAIN all \ DOMAIN old :
       (x /\ i = Len(old) + 1 /\ all[i] = a) \/ (y /\ all[i] = b)

\* Log records are appended: none,
LEMMA NothingNoted ==
  ASSUME NEW old \in Seq(Record), NEW a, NEW b
  PROVE  Noted(old, old, FALSE, a, FALSE, b)
BY DEF Noted

\* one,
LEMMA OneNoted ==
  ASSUME NEW old \in Seq(Record), NEW a \in Record, NEW b
  PROVE  Noted(old, Append(old, a), TRUE, a, FALSE, b)
<1> DEFINE all == Append(old, a)
<1>1. /\ all \in Seq(Record) /\ Len(all) = Len(old) + 1 /\ Len(old) \in Nat
      /\ \A i \in 1 .. Len(old) : all[i] = old[i]
      /\ all[Len(old) + 1] = a
  BY AppendProperties
<1>2. DOMAIN all = 1 .. Len(old) + 1 /\ DOMAIN old = 1 .. Len(old)
  BY <1>1
<1> HIDE DEF all
<1>3. Noted(old, all, TRUE, a, FALSE, b)
  BY <1>1, <1>2 DEF Noted
<1> QED BY <1>3 DEF all

\* or two.
LEMMA TwoNoted ==
  ASSUME NEW old \in Seq(Record), NEW x \in BOOLEAN, NEW y \in BOOLEAN,
         NEW a \in Record, NEW b \in Record
  PROVE  Noted(old, old \o (IF x THEN <<a>> ELSE <<>>) \o (IF y THEN <<b>> ELSE <<>>),
               x, a, y, b)
<1> DEFINE A == IF x THEN <<a>> ELSE <<>>
           B == IF y THEN <<b>> ELSE <<>>
           half == old \o A
           all == half \o B
<1>1. /\ A \in Seq(Record) /\ B \in Seq(Record)
      /\ DOMAIN A = IF x THEN {1} ELSE {}
      /\ DOMAIN B = IF y THEN {1} ELSE {}
      /\ x => A[1] = a
      /\ y => B[1] = b
  <2> HIDE DEF Record
  <2>1. <<>> \in Seq(Record) /\ <<a>> \in Seq(Record) /\ <<b>> \in Seq(Record)
    OBVIOUS
  <2>2. /\ DOMAIN <<>> = {} /\ DOMAIN <<a>> = {1} /\ DOMAIN <<b>> = {1}
        /\ <<a>>[1] = a /\ <<b>>[1] = b
    OBVIOUS
  <2> QED BY <2>1, <2>2
<1> HIDE DEF A, B
<1>2. /\ half \in Seq(Record)
      /\ \A i \in DOMAIN old : i \in DOMAIN half /\ half[i] = old[i]
      /\ \A j \in DOMAIN A : Len(old) + j \in DOMAIN half /\ half[Len(old) + j] = A[j]
      /\ \A i \in DOMAIN half \ DOMAIN old :
           \E j \in DOMAIN A : i = Len(old) + j /\ half[i] = A[j]
  BY <1>1, RecordsFollow
<1> HIDE DEF half
<1>3. /\ all \in Seq(Record)
      /\ \A i \in DOMAIN half : i \in DOMAIN all /\ all[i] = half[i]
      /\ \A j \in DOMAIN B : Len(half) + j \in DOMAIN all /\ all[Len(half) + j] = B[j]
      /\ \A i \in DOMAIN all \ DOMAIN half :
           \E j \in DOMAIN B : i = Len(half) + j /\ all[i] = B[j]
  BY <1>1, <1>2, RecordsFollow
<1> HIDE DEF all
<1>4. x => Len(old) + 1 \in DOMAIN all /\ all[Len(old) + 1] = a
  BY <1>1, <1>2, <1>3
<1>5. y => \E i \in DOMAIN all : all[i] = b
  BY <1>1, <1>3
<1>6. \A i \in DOMAIN all \ DOMAIN old :
        (x /\ i = Len(old) + 1 /\ all[i] = a) \/ (y /\ all[i] = b)
  <2> SUFFICES ASSUME NEW i \in DOMAIN all, i \notin DOMAIN old
               PROVE  (x /\ i = Len(old) + 1 /\ all[i] = a) \/ (y /\ all[i] = b)
    OBVIOUS
  <2>1. CASE i \in DOMAIN half
    <3>1. PICK j \in DOMAIN A : i = Len(old) + j /\ half[i] = A[j]
      BY <1>2, <2>1
    <3>2. j = 1 /\ x
      BY <1>1, <3>1
    <3> QED BY <1>1, <1>3, <2>1, <3>1, <3>2
  <2>2. CASE i \notin DOMAIN half
    <3>1. PICK j \in DOMAIN B : all[i] = B[j]
      BY <1>3, <2>2
    <3>2. j = 1 /\ y
      BY <1>1, <3>1
    <3> QED BY <1>1, <3>1, <3>2
  <2> QED BY <2>1, <2>2
<1>7. Noted(old, all, x, a, y, b)
  BY <1>2, <1>3, <1>4, <1>5, <1>6 DEF Noted
<1> QED BY <1>7 DEF all, half, A, B

-----------------------------------------------------------------------------
(***************************************************************************)
(* What each step does                                                     *)
(***************************************************************************)

Use == \/ \E code \in Codes : HandlerWriteHeader(code)
       \/ \E size \in {"small", "large"} : HandlerWrite(size)
       \/ \E size \in Reads : HandlerReadFrom(size)
       \/ \E result \in Flushes : HandlerFlush(result)
       \/ HandlerHijack

\* A call of the handler's marks the writers when it commits the response, and
\* unless its flush breaks the connection.
LEMMA UseFacts ==
  ASSUME StackInv, WireInv, Use
  PROVE  /\ mode = "handler" /\ mode' = "handler" /\ ~wire.hijacked
         /\ ops' \in 0 .. MaxOps
         /\ UNCHANGED <<chain, adapted, held, outcome, answers, logs>>
         /\ Shaped(writers, writers') /\ wire' \in Wire
         /\ wire'.sent => wire'.status # 0
         /\ wire'.status # 0 /\ ~wire'.broken =>
              (wire.status # 0 /\ ~wire.broken) \/ AllCommitted(writers')
<1>1. /\ writers \in Seq(Writer) /\ wire \in Wire /\ (wire.sent => wire.status # 0)
      /\ wire.status # 0 /\ ~wire.broken => wire.status # 0 /\ ~wire.broken
  BY DEF StackInv, WireInv
<1>2. Writing /\ UNCHANGED <<mode, held, outcome>>
  BY DEF Use, HandlerWriteHeader, HandlerWrite, HandlerReadFrom, HandlerFlush, HandlerHijack
<1>3. /\ mode = "handler" /\ mode' = "handler" /\ ~wire.hijacked
      /\ UNCHANGED <<chain, adapted, held, outcome, answers, logs>>
  BY <1>2 DEF Writing
<1>4. ops' \in 0 .. MaxOps
  BY <1>2, ResponseAssumption DEF Writing, WireInv
<1> DEFINE Goal == /\ Shaped(writers, writers') /\ wire' \in Wire
                   /\ wire'.sent => wire'.status # 0
                   /\ wire'.status # 0 /\ ~wire'.broken =>
                        (wire.status # 0 /\ ~wire.broken) \/ AllCommitted(writers')
<1>5. ASSUME NEW code \in Codes, HandlerWriteHeader(code) PROVE Goal
  <2>1. code \in Nat \ {0} /\ code \in Nat
    BY ResponseAssumption
  <2>2. writers' = WriteHeader(writers, code) /\ wire' = HttpWriteHeader(wire, code)
    BY <1>5 DEF HandlerWriteHeader
  <2>3. Headed(wire, wire', code)
    BY <1>1, <2>1, <2>2, HeaderSets
  <2>4. Shaped(writers, writers') /\ (Final(code) => AllCommitted(writers'))
    BY <1>1, <2>1, <2>2, RecorderKeeps
  <2> QED BY <1>1, <2>1, <2>3, <2>4 DEF Headed
<1>6. ASSUME NEW size \in {"small", "large"}, HandlerWrite(size) PROVE Goal
  <2>1. writers' = Write(writers) /\ wire' = HttpWrite(wire, size)
    BY <1>6 DEF HandlerWrite
  <2>2. wire' \in Wire /\ wire'.status = IF wire.status = 0 THEN 200 ELSE wire.status
    BY <1>1, <1>3, <2>1, WriteSends
  <2>3. Shaped(writers, writers') /\ AllCommitted(writers')
    BY <1>1, <2>1, RecorderKeeps
  <2> QED BY <2>2, <2>3
<1>7. ASSUME NEW size \in Reads, HandlerReadFrom(size) PROVE Goal
  <2>1. /\ writers' = ReadFrom(writers, size) /\ size \in {"nothing", "small", "large"}
        /\ wire' = IF size = "nothing" THEN wire ELSE HttpWrite(wire, size)
    BY <1>7, ResponseAssumption DEF HandlerReadFrom
  <2>2. size # "nothing" =>
          wire' \in Wire /\ wire'.status = IF wire.status = 0 THEN 200 ELSE wire.status
    BY <1>1, <1>3, <2>1, WriteSends
  <2>3. Shaped(writers, writers') /\ (size # "nothing" => AllCommitted(writers'))
    BY <1>1, <2>1, RecorderKeeps
  <2> QED BY <1>1, <2>1, <2>2, <2>3
<1>8. ASSUME NEW result \in Flushes, HandlerFlush(result) PROVE Goal
  <2>1. /\ writers' = FlushError(writers, result) /\ wire' = HttpFlush(wire, result)
        /\ result \in {"ok", "unsupported", "broken", "stuck"}
    BY <1>8, ResponseAssumption DEF HandlerFlush
  <2>2. /\ wire' \in Wire
        /\ result = "unsupported" => wire' = wire
        /\ result # "unsupported" => wire'.status = IF wire.status = 0 THEN 200 ELSE wire.status
        /\ result \in {"broken", "stuck"} => wire'.broken
    BY <1>1, <1>3, <2>1, FlushSends
  <2>3. Shaped(writers, writers') /\ (result = "ok" => AllCommitted(writers'))
    BY <1>1, <2>1, RecorderKeeps
  <2> QED BY <1>1, <2>1, <2>2, <2>3
<1>9. ASSUME HandlerHijack PROVE Goal
  <2>1. writers' = writers /\ wire' = [wire EXCEPT !.hijacked = TRUE]
    BY <1>9 DEF HandlerHijack
  <2>2. /\ wire' \in Wire /\ wire'.status = wire.status /\ wire'.sent = wire.sent
        /\ wire'.broken = wire.broken
    BY <1>1, <2>1, SetsHijacked
  <2>3. Shaped(writers, writers')
    BY <1>1, <2>1, NothingKeeps
  <2> QED BY <1>1, <2>2, <2>3
<1>10. Goal
  BY <1>5, <1>6, <1>7, <1>8, <1>9 DEF Use
<1> QED BY <1>3, <1>4, <1>10

\* The handler's use of its writer keeps the stack and the wire,
LEMMA UseKeeps ==
  ASSUME StackInv, WireInv, Use
  PROVE  StackInv' /\ WireInv'
<1>1. /\ writers \in Seq(Writer) /\ wire \in Wire /\ Marked(writers, wire)
      /\ writers' \in Seq(Writer) /\ Len(writers') = Len(writers)
      /\ Shaped(writers, writers')
  BY UseFacts DEF StackInv, WireInv, Shaped
<1>2. Marked(writers', wire')
  BY <1>1, MarksStay, UseFacts
<1>3. \A h : OnRecorder(writers, h) => OnRecorder(writers', h)
  BY <1>1 DEF Shaped, Grown, OnRecorder
<1>4. StackInv'
  BY <1>1, <1>3, UseFacts DEF StackInv, Depth, Done
<1> QED BY <1>2, <1>4, UseFacts DEF WireInv

\* and so does the entering of a layer.
LEMMA EnterKeeps ==
  ASSUME StackInv, WireInv, Enter
  PROVE  StackInv' /\ WireInv'
<1>1. StackInv'
  BY EnterKeepsStack
<1>2. Marked(writers', wire')
  <2>1. /\ Marked(writers, wire) /\ wire' = wire /\ wire.status = 0
        /\ \A i \in DOMAIN writers : writers'[i] = writers[i]
        /\ \A i \in DOMAIN writers' \ DOMAIN writers :
             ~writers'[i].committed /\ writers'[i].status = 0
    BY EnterFacts DEF WireInv, Extended
  <2>2. \A i \in DOMAIN writers' : writers'[i].committed \in BOOLEAN
    <3>1. \A i \in DOMAIN writers' : writers'[i] \in Writer
      BY <1>1 DEF StackInv
    <3> QED BY <3>1 DEF Writer
  <2> QED BY <2>1, <2>2 DEF Marked
<1> QED BY <1>1, <1>2, EnterFacts DEF WireInv

\* How the handler ends of itself.
End == HandlerPanics \/ HandlerAborts \/ HandlerReturns

\* A handler ends once, having logged nothing and answered nothing.
LEMMA EndFacts ==
  ASSUME StackInv, WireInv, EndInv, End
  PROVE  /\ mode = "handler" /\ Depth > 0
         /\ UNCHANGED <<chain, adapted, wire, ops, answers, logs>>
         /\ outcome'.clean = (wire.status = 0) /\ logs = <<>> /\ answers = <<>>
         /\ \/ mode' = "panic" /\ outcome'.kind = "panic"
            \/ mode' = "abort" /\ outcome'.kind = "abort"
            \/ mode' = "return" /\ outcome'.kind = "nil"
         /\ \E ws : /\ Shaped(writers, ws) /\ Left(ws)
                    /\ Codes \subseteq 100 .. 999 => ws = writers
<1>1. mode = "handler" /\ UNCHANGED <<chain, adapted, wire, ops, answers, logs>>
  BY DEF End, HandlerPanics, HandlerAborts, HandlerReturns
<1>2. Depth > 0 /\ logs = <<>> /\ answers = <<>>
  BY <1>1, StackFacts DEF StackInv, EndInv
<1>3. /\ outcome'.clean = (wire.status = 0)
      /\ \/ mode' = "panic" /\ outcome'.kind = "panic"
         \/ mode' = "abort" /\ outcome'.kind = "abort"
         \/ mode' = "return" /\ outcome'.kind = "nil"
  BY DEF End, HandlerPanics, HandlerAborts, HandlerReturns, Ended
<1>4. \/ Left(writers)
      \/ \E code \in Codes : HttpPanics(wire, code) /\ Left(WriteHeader(writers, code))
  BY DEF End, HandlerPanics, HandlerAborts, HandlerReturns
<1>5. writers \in Seq(Writer)
  BY DEF StackInv
<1>6. Shaped(writers, writers)
  BY <1>5, NothingKeeps
<1>7. ASSUME NEW code \in Codes, HttpPanics(wire, code), Left(WriteHeader(writers, code))
      PROVE  /\ Shaped(writers, WriteHeader(writers, code))
             /\ ~(Codes \subseteq 100 .. 999)
  BY <1>5, <1>7, RecorderKeeps, ResponseAssumption DEF HttpPanics, Valid
<1>8. \E ws : /\ Shaped(writers, ws) /\ Left(ws)
              /\ Codes \subseteq 100 .. 999 => ws = writers
  BY <1>4, <1>6, <1>7
<1> QED BY <1>1, <1>2, <1>3, <1>8

\* Its end keeps the stack and the wire.
LEMMA EndKeeps ==
  ASSUME StackInv, WireInv, EndInv, End
  PROVE  StackInv' /\ WireInv'
<1>1. wire \in Wire /\ (wire.sent => wire.status # 0)
  BY DEF WireInv
<1>2. PICK ws : Shaped(writers, ws) /\ Left(ws)
  BY EndFacts
<1> QED BY <1>1, <1>2, EndFacts, LeavingKeeps

\* The innermost layer is left with a status marked on every Recorder.
LeftMarked(code) ==
  \E ws : /\ Shaped(writers, ws) /\ AllCommitted(ws) /\ Left(ws)
          /\ \A i \in DOMAIN writers : ws[i] = Committing(writers[i], code)

\* What the layers log as they are left.
LogsAfterCommit ==
  \E a \in Record : /\ a.kind = "afterCommit" /\ a.level = "error"
                    /\ Noted(logs, logs', TRUE, a, FALSE, a)

LogsCause(err) ==
  \E a, b \in Record, y \in BOOLEAN :
    /\ a.kind = "cause" /\ b.kind = "writeFailed" /\ b.level = "error"
    /\ a.level \in {"warn", "error"} \/ err.canceled
    /\ wire.hijacked \/ wire.stuck => y
    /\ Noted(logs, logs', CauseLogged(err), a, y, b)

LogsRequest ==
  \E a \in Record :
    /\ a.kind = "request" /\ Noted(logs, logs', TRUE, a, FALSE, a)
    /\ Top(writers).committed => a.status = Top(writers).status
    /\ ~Top(writers).committed /\ mode = "return" => a.status = 200
    /\ ~Top(writers).committed /\ mode # "return" => a.status = 500

LogsAbort ==
  \E a \in Record : a.kind = "panic" /\ Noted(logs, logs', TRUE, a, FALSE, a)

LogsPanic ==
  \E a, b \in Record, y \in BOOLEAN :
    a.kind = "panic" /\ b.kind = "writeFailed" /\ Noted(logs, logs', TRUE, a, y, b)

\* Handle logs an error returned after commit, or panics asking for its text.
LEMMA AfterCommitFacts ==
  ASSUME StackInv, WireInv, EndInv, NEW err \in Errors,
         HandlerReturnsError(err), ErrorAfterCommit(err)
  PROVE  /\ Top(writers).committed /\ Left(writers) /\ UNCHANGED <<wire, answers>>
         /\ \/ mode' = "return" /\ LogsAfterCommit
            \/ mode' = "panic" /\ err.form = "nil" /\ logs' = logs
<1>1. Top(writers).committed /\ Left(writers) /\ UNCHANGED <<wire, answers>>
  BY DEF ErrorAfterCommit
<1>2. CASE ~TextPanics(err)
  <2> DEFINE a == Log("afterCommit", Top(writers).status, "error")
  <2>1. Top(writers).status \in Nat
    BY StackFacts, TopIsRecorder DEF HandlerReturnsError, StackInv
  <2>2. a \in Record /\ a.kind = "afterCommit" /\ a.level = "error"
    BY <2>1 DEF Log, Record
  <2>3. logs' = Append(logs, a) /\ mode' = "return"
    BY <1>2 DEF ErrorAfterCommit
  <2> HIDE DEF a
  <2>4. Noted(logs, logs', TRUE, a, FALSE, a)
    BY <2>2, <2>3, OneNoted DEF EndInv
  <2>5. LogsAfterCommit
    BY <2>2, <2>4 DEF LogsAfterCommit
  <2> QED BY <1>1, <2>3, <2>5
<1>3. CASE TextPanics(err)
  BY <1>1, <1>3 DEF ErrorAfterCommit, TextPanics
<1> QED BY <1>2, <1>3

\* The level of a cause that is the client's own cancellation is debug.
LEMMA CauseLevels ==
  ASSUME NEW err, NEW gone
  PROVE  /\ CauseLevel(err, gone) \in {"debug", "warn", "error"}
         /\ CauseLevel(err, gone) \in {"warn", "error"} \/ err.canceled
<1>1. CASE err.canceled /\ gone
  <2>1. CauseLevel(err, gone) = "debug"
    BY <1>1 DEF CauseLevel
  <2> QED BY <1>1, <2>1
<1>2. CASE ~(err.canceled /\ gone)
  <2>1. CauseLevel(err, gone) \in {"warn", "error"}
    BY <1>2 DEF CauseLevel
  <2> QED BY <2>1
<1> QED BY <1>1, <1>2

\* Handle has the error written as a problem: what it says of the error in the
\* log, on the wire and to every writer.
LEMMA WrittenFacts ==
  ASSUME StackInv, WireInv, EndInv, NEW err \in Errors,
         HandlerReturnsError(err), ErrorWritten(err)
  PROVE  LET p == Answer(err, BuiltInDetail \cup Details)
         IN /\ ~Top(writers).committed /\ mode' = "return"
            /\ LeftMarked(p.status)
            /\ Headed(wire, wire', p.status)
            /\ answers' = Append(answers, [status |-> p.status, detail |-> p.detail,
                                           over |-> wire.status])
            /\ LogsCause(err)
<1> DEFINE p == Answer(err, BuiltInDetail \cup Details)
           result == ProblemWrite(p)
<1>1. err \in ErrorType /\ p.status \in 400 .. 599
  BY ResponseAssumption, AnswerIsProblem
<1>2. wire \in Wire /\ writers \in Seq(Writer)
  BY DEF WireInv, StackInv
<1> HIDE DEF p
<1>3. /\ Shaped(writers, result.writers) /\ AllCommitted(result.writers)
      /\ \A i \in DOMAIN writers : result.writers[i] = Committing(writers[i], p.status)
      /\ Headed(wire, result.wire, p.status) /\ result.end \in {"ok", "error"}
      /\ result.end = "ok" => ~wire.hijacked /\ ~wire.stuck
  BY <1>1, <1>2, ProblemWrites
<1>4. PICK gone \in BOOLEAN :
        logs' = logs
          \o (IF CauseLogged(err)
              THEN <<Log("cause", p.status, CauseLevel(err, gone))>> ELSE <<>>)
          \o (IF result.end = "error"
              THEN <<Log("writeFailed", Top(result.writers).status, "error")>>
              ELSE <<>>)
  BY DEF ErrorWritten, p
<1>5. ~Top(writers).committed /\ Left(result.writers) /\ wire' = result.wire /\ Answered(p)
  BY DEF ErrorWritten, p
<1>6. mode' = IF result.end = "panic" THEN "panic" ELSE "return"
  BY DEF ErrorWritten, p
<1> HIDE DEF result
<1>7. mode' = "return"
  BY <1>3, <1>6
<1> DEFINE a == Log("cause", p.status, CauseLevel(err, gone))
           b == Log("writeFailed", Top(result.writers).status, "error")
<1>8. a \in Record /\ a.kind = "cause" /\ (a.level \in {"warn", "error"} \/ err.canceled)
  BY <1>1, CauseLevels DEF Log, Record
<1>9. b \in Record /\ b.kind = "writeFailed" /\ b.level = "error"
  <2>1. writers # <<>> /\ Len(writers) \in DOMAIN writers
    BY StackFacts, TopIsRecorder DEF HandlerReturnsError, StackInv
  <2>2. Len(result.writers) = Len(writers) /\ result.writers \in Seq(Writer)
    BY <1>3 DEF Shaped
  <2>3. Top(result.writers) \in Writer
    BY <1>2, <2>1, <2>2 DEF Top
  <2>4. Top(result.writers).status \in Nat
    BY <2>3 DEF Writer
  <2> QED BY <2>4 DEF Log, Record
<1>10. /\ logs \in Seq(Record)
       /\ logs' = logs \o (IF CauseLogged(err) THEN <<a>> ELSE <<>>)
                       \o (IF result.end = "error" THEN <<b>> ELSE <<>>)
  BY <1>4 DEF EndInv
<1> HIDE DEF a, b
<1>11. Noted(logs, logs', CauseLogged(err), a, result.end = "error", b)
  <2>1. CauseLogged(err) \in BOOLEAN /\ (result.end = "error") \in BOOLEAN
    BY DEF CauseLogged
  <2> QED BY <1>8, <1>9, <1>10, <2>1, TwoNoted
<1>12. wire.hijacked \/ wire.stuck => result.end = "error"
  BY <1>3
<1>13. LogsCause(err)
  <2>1. (result.end = "error") \in BOOLEAN
    OBVIOUS
  <2> QED BY <1>8, <1>9, <1>11, <1>12, <2>1 DEF LogsCause
<1>14. LeftMarked(p.status)
  BY <1>3, <1>5 DEF LeftMarked
<1>15. answers' = Append(answers, [status |-> p.status, detail |-> p.detail,
                                   over |-> wire.status])
  BY <1>5 DEF Answered
<1>16. Headed(wire, wire', p.status)
  BY <1>3, <1>5
<1> QED BY <1>5, <1>7, <1>13, <1>14, <1>15, <1>16 DEF p

\* An error whose text panics leaves the layer in a panic, with nothing written.
LEMMA TextPanicsFacts ==
  ASSUME NEW err, ErrorTextPanics(err)
  PROVE  /\ Left(writers) /\ mode' = "panic" /\ err.form = "nil"
         /\ UNCHANGED <<wire, answers, logs>>
BY DEF ErrorTextPanics, WritePanics, TextPanics

\* A layer that only lets its caller's end pass.
Pass == RecovererPasses \/ ForeignPasses

\* A layer that is passed changes nothing but the height.
LEMMA PassFacts ==
  ASSUME Pass
  PROVE  /\ mode \in {"return", "panic", "abort"} /\ Depth > 0 /\ Left(writers)
         /\ UNCHANGED <<chain, adapted, mode, wire, ops, outcome, answers, logs>>
         /\ Layer = "recoverer" => mode # "panic"
BY DEF Pass, RecovererPasses, ForeignPasses, Leaving

\* What RequestLogger logs: the status its Recorder took, and otherwise the
\* one a return or a panic stands for.
LEMMA LoggerFacts ==
  ASSUME StackInv, WireInv, EndInv, LoggerLogs
  PROVE  /\ mode \in {"return", "panic", "abort"} /\ Depth > 0 /\ Layer = "logger"
         /\ Left(writers)
         /\ UNCHANGED <<chain, adapted, mode, wire, ops, outcome, answers>>
         /\ LogsRequest
<1> DEFINE a == Log("request", LoggedStatus, "info")
<1>1. /\ mode \in {"return", "panic", "abort"} /\ Depth > 0 /\ Layer = "logger"
      /\ Left(writers) /\ logs' = Append(logs, a)
      /\ UNCHANGED <<chain, adapted, mode, wire, ops, outcome, answers>>
  BY DEF LoggerLogs, Leaving
<1>2. Top(writers).status \in Nat
  BY <1>1, TopIsRecorder
<1>3. /\ Top(writers).committed => LoggedStatus = Top(writers).status
      /\ ~Top(writers).committed /\ mode = "return" => LoggedStatus = 200
      /\ ~Top(writers).committed /\ mode # "return" => LoggedStatus = 500
  <2>1. Top(writers).committed => LoggedStatus = Top(writers).status
    BY DEF LoggedStatus
  <2>2. ~Top(writers).committed /\ mode = "return" => LoggedStatus = 200
    BY DEF LoggedStatus
  <2>3. ~Top(writers).committed /\ mode # "return" => LoggedStatus = 500
    BY DEF LoggedStatus
  <2> QED BY <2>1, <2>2, <2>3
<1>4. a \in Record /\ a.kind = "request" /\ a.status = LoggedStatus
  BY <1>2, <1>3 DEF Log, Record
<1> HIDE DEF a
<1>5. Noted(logs, logs', TRUE, a, FALSE, a)
  BY <1>1, <1>4, OneNoted DEF EndInv
<1>6. LogsRequest
  <2>1. /\ Top(writers).committed => a.status = Top(writers).status
        /\ ~Top(writers).committed /\ mode = "return" => a.status = 200
        /\ ~Top(writers).committed /\ mode # "return" => a.status = 500
    BY <1>3, <1>4
  <2> QED BY <1>4, <1>5, <2>1 DEF LogsRequest
<1> QED BY <1>1, <1>6

\* The Recoverer that aborts logs the panic and leaves the wire alone.
LEMMA AbortsFacts ==
  ASSUME StackInv, WireInv, EndInv, RecovererAborts
  PROVE  /\ mode = "panic" /\ mode' = "abort" /\ Depth > 0 /\ Layer = "recoverer"
         /\ Left(writers) /\ Top(writers).committed
         /\ UNCHANGED <<chain, adapted, wire, ops, outcome, answers>>
         /\ LogsAbort
<1> DEFINE a == Log("panic", Top(writers).status, "error")
<1>1. /\ mode = "panic" /\ mode' = "abort" /\ Depth > 0 /\ Layer = "recoverer"
      /\ Left(writers) /\ Top(writers).committed /\ logs' = Append(logs, a)
      /\ UNCHANGED <<chain, adapted, wire, ops, outcome, answers>>
  BY DEF RecovererAborts, Leaving
<1>2. Top(writers).status \in Nat
  BY <1>1, TopIsRecorder
<1>3. a \in Record /\ a.kind = "panic"
  BY <1>2 DEF Log, Record
<1> HIDE DEF a
<1>4. Noted(logs, logs', TRUE, a, FALSE, a)
  BY <1>1, <1>3, OneNoted DEF EndInv
<1>5. LogsAbort
  BY <1>3, <1>4 DEF LogsAbort
<1> QED BY <1>1, <1>5

\* The Recoverer that answers commits a 500 and logs the panic once.
LEMMA AnswersFacts ==
  ASSUME StackInv, WireInv, EndInv, RecovererAnswers
  PROVE  /\ mode = "panic" /\ mode' = "return" /\ Depth > 0 /\ Layer = "recoverer"
         /\ wire.status = 0 \/ wire.broken
         /\ UNCHANGED <<chain, adapted, ops, outcome>>
         /\ LeftMarked(500)
         /\ Headed(wire, wire', 500)
         /\ answers' = Append(answers, [status |-> 500, detail |-> "own",
                                        over |-> wire.status])
         /\ LogsPanic
<1> DEFINE p == [Problem(500) EXCEPT !.detail = "own"]
           result == ProblemWrite(p)
<1>1. /\ mode = "panic" /\ mode' = "return" /\ Depth > 0 /\ Layer = "recoverer"
      /\ ~Top(writers).committed /\ UNCHANGED <<chain, adapted, ops, outcome>>
      /\ Answered(p) /\ wire' = result.wire /\ Left(result.writers)
      /\ logs' = logs \o <<Log("panic", 0, "error")>>
             \o (IF result.end = "error"
                 THEN <<Log("writeFailed", Top(result.writers).status, "error")>>
                 ELSE <<>>)
  BY DEF RecovererAnswers, Leaving
<1>2. p.status = 500 /\ p.detail = "own"
  BY DEF Problem
<1> HIDE DEF p
<1>3. wire \in Wire /\ writers \in Seq(Writer)
  BY DEF WireInv, StackInv
<1>4. /\ Shaped(writers, result.writers) /\ AllCommitted(result.writers)
      /\ \A i \in DOMAIN writers : result.writers[i] = Committing(writers[i], 500)
      /\ Headed(wire, result.wire, 500)
  BY <1>2, <1>3, ProblemWrites
<1> HIDE DEF result
<1>5. /\ wire.status = 0 \/ wire.broken
      /\ Len(writers) \in DOMAIN writers
  BY <1>1, TopIsRecorder
<1> DEFINE a == Log("panic", 0, "error")
           b == Log("writeFailed", Top(result.writers).status, "error")
<1>6. a \in Record /\ a.kind = "panic"
  BY DEF Log, Record
<1>7. b \in Record /\ b.kind = "writeFailed"
  <2>1. Len(result.writers) = Len(writers) /\ result.writers \in Seq(Writer)
    BY <1>4 DEF Shaped
  <2>2. Top(result.writers) \in Writer
    BY <1>3, <1>5, <2>1 DEF Top
  <2>3. Top(result.writers).status \in Nat
    BY <2>2 DEF Writer
  <2> QED BY <2>3 DEF Log, Record
<1>8. logs \in Seq(Record)
  BY DEF EndInv
<1>9. logs' = logs \o <<a>> \o (IF result.end = "error" THEN <<b>> ELSE <<>>)
  BY <1>1
<1> HIDE DEF a, b
<1>10. Noted(logs, logs', TRUE, a, result.end = "error", b)
  <2>1. TRUE \in BOOLEAN /\ (result.end = "error") \in BOOLEAN
    OBVIOUS
  <2>2. logs' = logs \o (IF TRUE THEN <<a>> ELSE <<>>)
                     \o (IF result.end = "error" THEN <<b>> ELSE <<>>)
    BY <1>9
  <2> QED BY <1>6, <1>7, <1>8, <2>1, <2>2, TwoNoted
<1>11. LogsPanic
  <2>1. (result.end = "error") \in BOOLEAN
    OBVIOUS
  <2> QED BY <1>6, <1>7, <1>10, <2>1 DEF LogsPanic
<1>12. answers' = Append(answers, [status |-> 500, detail |-> "own", over |-> wire.status])
  BY <1>1, <1>2 DEF Answered
<1>13. LeftMarked(500)
  BY <1>1, <1>4 DEF LeftMarked
<1>14. Headed(wire, wire', 500)
  BY <1>1, <1>4
<1> QED BY <1>1, <1>5, <1>11, <1>12, <1>13, <1>14

\* net/http ends the request.
LEMMA FinishFacts ==
  ASSUME WireInv, FinishRequest \/ CutConnection
  PROVE  /\ Depth = 0
         /\ UNCHANGED <<chain, adapted, held, writers, ops, outcome, answers, logs>>
         /\ \/ mode = "return" /\ mode' = "complete"
            \/ mode \in {"panic", "abort"} /\ mode' = "cut" /\ wire' = wire
         /\ wire' \in Wire /\ (wire'.sent => wire'.status # 0)
         /\ wire'.hijacked = wire.hijacked /\ wire'.broken = wire.broken
         /\ wire'.stuck = wire.stuck
         /\ mode' = "complete" =>
              /\ wire'.status = IF wire.status = 0 /\ ~wire.hijacked THEN 200 ELSE wire.status
              /\ ~wire.hijacked /\ ~wire.broken => wire'.sent
<1>1. wire \in Wire /\ (wire.sent => wire.status # 0)
  BY DEF WireInv
<1>2. CASE FinishRequest
  <2> DEFINE h == HttpWriteHeader(wire, 200)
  <2>1. Headed(wire, h, 200)
    BY <1>1, HeaderSets
  <2>2. /\ h \in Wire /\ h.sent = wire.sent /\ h.broken = wire.broken
        /\ h.stuck = wire.stuck /\ h.hijacked = wire.hijacked
        /\ h.status = IF wire.status = 0 /\ ~wire.hijacked THEN 200 ELSE wire.status
    BY <2>1 DEF Headed, Valid, Final
  <2>3. /\ Depth = 0 /\ mode = "return" /\ mode' = "complete"
        /\ UNCHANGED <<chain, adapted, held, writers, ops, outcome, answers, logs>>
        /\ wire' = IF wire.hijacked \/ wire.broken THEN h ELSE [h EXCEPT !.sent = TRUE]
    BY <1>2 DEF FinishRequest
  <2> HIDE DEF h
  <2>4. CASE wire.hijacked \/ wire.broken
    BY <1>1, <2>2, <2>3, <2>4
  <2>5. CASE ~wire.hijacked /\ ~wire.broken
    <3>1. wire' = [h EXCEPT !.sent = TRUE]
      BY <2>3, <2>5
    <3>2. /\ wire' \in Wire /\ wire'.sent /\ wire'.status = h.status
          /\ wire'.broken = h.broken /\ wire'.stuck = h.stuck
          /\ wire'.hijacked = h.hijacked
      BY <2>2, <3>1, SetsSent
    <3> HIDE <3>1
    <3> QED BY <2>2, <2>3, <2>5, <3>2
  <2> QED BY <2>4, <2>5
<1>3. CASE CutConnection
  BY <1>1, <1>3 DEF CutConnection
<1> QED BY <1>2, <1>3

\* An error that is returned is the one written, logged or that panics.
LEMMA ErrorFacts ==
  ASSUME StackInv, EndInv, NEW err \in Errors, HandlerReturnsError(err)
  PROVE  /\ mode = "handler" /\ adapted /\ Depth > 0 /\ logs = <<>> /\ answers = <<>>
         /\ UNCHANGED <<chain, adapted, ops>>
         /\ outcome'.kind = "error" /\ outcome'.clean = (wire.status = 0)
         /\ outcome'.err = err
         /\ ErrorAfterCommit(err) \/ ErrorWritten(err) \/ ErrorTextPanics(err)
<1>1. /\ mode = "handler" /\ adapted /\ UNCHANGED <<chain, adapted, ops>>
      /\ outcome'.kind = "error" /\ outcome'.clean = (wire.status = 0)
      /\ outcome'.err = err
      /\ ErrorAfterCommit(err) \/ ErrorWritten(err) \/ ErrorTextPanics(err)
  BY DEF HandlerReturnsError, Ended
<1>2. Depth > 0 /\ logs = <<>> /\ answers = <<>>
  BY <1>1, StackFacts DEF StackInv, EndInv
<1> QED BY <1>1, <1>2

\* The steps of a request.
LEMMA NextCases ==
  ASSUME Next
  PROVE  \/ Enter \/ Use \/ End
         \/ \E err \in Errors : HandlerReturnsError(err)
         \/ Pass \/ LoggerLogs \/ RecovererAborts \/ RecovererAnswers
         \/ FinishRequest \/ CutConnection
BY DEF Next, Handler, Leave, Use, End, Pass

-----------------------------------------------------------------------------
(***************************************************************************)
(* The invariant is inductive                                              *)
(***************************************************************************)

\* An error that is returned keeps the stack and the wire,
LEMMA ErrorKeeps ==
  ASSUME StackInv, WireInv, EndInv, NEW err \in Errors, HandlerReturnsError(err)
  PROVE  StackInv' /\ WireInv'
<1>1. /\ wire \in Wire /\ (wire.sent => wire.status # 0) /\ writers \in Seq(Writer)
      /\ Shaped(writers, writers)
  BY NothingKeeps DEF WireInv, StackInv
<1>2. CASE ErrorAfterCommit(err)
  <2>1. Left(writers) /\ wire' = wire /\ mode' \in {"return", "panic"}
    BY <1>2, AfterCommitFacts
  <2> QED BY <1>1, <2>1, ErrorFacts, LeavingKeeps
<1>3. CASE ErrorWritten(err)
  <2> DEFINE code == Answer(err, BuiltInDetail \cup Details).status
  <2>1. PICK ws : Shaped(writers, ws) /\ AllCommitted(ws) /\ Left(ws)
    BY <1>3, WrittenFacts DEF LeftMarked
  <2>2. mode' = "return" /\ Headed(wire, wire', code)
    BY <1>3, WrittenFacts
  <2>3. code # 0
    <3>1. err \in ErrorType
      BY ResponseAssumption
    <3>2. code \in 400 .. 599
      BY <3>1, AnswerIsProblem
    <3> HIDE DEF code
    <3> QED BY <3>2
  <2> HIDE DEF code
  <2>4. wire' \in Wire /\ (wire'.sent => wire'.status # 0)
    BY <1>1, <2>2, <2>3 DEF Headed
  <2> QED BY <1>1, <2>1, <2>2, <2>4, ErrorFacts, LeavingKeeps
<1>4. CASE ErrorTextPanics(err)
  BY <1>1, <1>4, TextPanicsFacts, ErrorFacts, LeavingKeeps
<1> QED BY <1>2, <1>3, <1>4, ErrorFacts

\* and so does the leaving of a layer,
LEMMA LeaveKeeps ==
  ASSUME StackInv, WireInv, EndInv,
         Pass \/ LoggerLogs \/ RecovererAborts \/ RecovererAnswers
  PROVE  StackInv' /\ WireInv' /\ Len(held') = Len(held) - 1
<1>1. /\ wire \in Wire /\ (wire.sent => wire.status # 0) /\ writers \in Seq(Writer)
      /\ Shaped(writers, writers)
  BY NothingKeeps DEF WireInv, StackInv
<1>2. CASE Pass
  BY <1>1, <1>2, PassFacts, LeavingKeeps
<1>3. CASE LoggerLogs
  BY <1>1, <1>3, LoggerFacts, LeavingKeeps
<1>4. CASE RecovererAborts
  BY <1>1, <1>4, AbortsFacts, LeavingKeeps
<1>5. CASE RecovererAnswers
  <2>1. PICK ws : Shaped(writers, ws) /\ AllCommitted(ws) /\ Left(ws)
    BY <1>5, AnswersFacts DEF LeftMarked
  <2>2. mode' = "return" /\ Headed(wire, wire', 500)
    BY <1>5, AnswersFacts
  <2>3. wire' \in Wire /\ (wire'.sent => wire'.status # 0)
    BY <1>1, <2>2 DEF Headed
  <2> QED BY <1>1, <1>5, <2>1, <2>2, <2>3, AnswersFacts, LeavingKeeps
<1> QED BY <1>2, <1>3, <1>4, <1>5

\* and the end of the request.
LEMMA FinishKeeps ==
  ASSUME StackInv, WireInv, FinishRequest \/ CutConnection
  PROVE  StackInv' /\ WireInv'
<1>1. /\ Depth = 0 /\ UNCHANGED <<chain, adapted, held, writers, ops>>
      /\ mode' \in {"complete", "cut"}
      /\ wire' \in Wire /\ (wire'.sent => wire'.status # 0)
  BY FinishFacts
<1>2. Len(writers) = 0 /\ DOMAIN writers' = {}
  BY <1>1, StackFacts
<1>3. Marked(writers', wire')
  BY <1>2 DEF Marked
<1>4. StackInv'
  BY <1>1, <1>2 DEF StackInv, Depth, Done, Mode, OnRecorder
<1> QED BY <1>1, <1>3, <1>4 DEF WireInv

\* So does every step.
LEMMA StackAndWireKept ==
  ASSUME StackInv, WireInv, EndInv, [Next]_vars
  PROVE  StackInv' /\ WireInv'
<1>1. CASE UNCHANGED vars
  <2>1. UNCHANGED <<chain, adapted, mode, held, writers, wire, ops>>
    BY <1>1 DEF vars
  <2> QED BY <2>1 DEF StackInv, WireInv, Depth, Done
<1>2. CASE Next
  BY <1>2, NextCases, EnterKeeps, UseKeeps, EndKeeps, ErrorKeeps, LeaveKeeps, FinishKeeps
<1> QED BY <1>1, <1>2

\* Nothing is logged or answered before the handler ends.
LEMMA EndKept ==
  ASSUME StackInv, WireInv, EndInv, [Next]_vars
  PROVE  EndInv'
<1> USE DEF EndInv
<1>1. CASE UNCHANGED vars
  BY <1>1 DEF vars
<1>2. CASE Enter
  BY <1>2, EnterFacts
<1>3. CASE Use
  BY <1>3, UseFacts DEF Unended
<1>4. CASE End
  BY <1>4, EndFacts
<1>5. ASSUME NEW err \in Errors, HandlerReturnsError(err) PROVE EndInv'
  <2>1. /\ logs \in Seq(Record) /\ mode' \in {"return", "panic"}
        /\ mode' = "panic" => answers' = answers
        /\ logs' \in Seq(Record)
    <3>1. CASE ErrorAfterCommit(err)
      BY <1>5, <3>1, AfterCommitFacts DEF LogsAfterCommit, Noted
    <3>2. CASE ErrorWritten(err)
      BY <1>5, <3>2, WrittenFacts DEF LogsCause, Noted
    <3>3. CASE ErrorTextPanics(err)
      BY <3>3, TextPanicsFacts
    <3> QED BY <1>5, <3>1, <3>2, <3>3, ErrorFacts
  <2> QED BY <1>5, <2>1, ErrorFacts
<1>6. CASE Pass
  BY <1>6, PassFacts
<1>7. CASE LoggerLogs
  BY <1>7, LoggerFacts DEF LogsRequest, Noted
<1>8. CASE RecovererAborts
  BY <1>8, AbortsFacts DEF LogsAbort, Noted
<1>9. CASE RecovererAnswers
  BY <1>9, AnswersFacts DEF LogsPanic, Noted
<1>10. CASE FinishRequest \/ CutConnection
  BY <1>10, FinishFacts
<1> QED
  BY <1>1, <1>2, <1>3, <1>4, <1>5, <1>6, <1>7, <1>8, <1>9, <1>10, NextCases

\* A panic is logged once, where it is recovered, and the response it cut stays so.
LEMMA PanicKept ==
  ASSUME StackInv, WireInv, EndInv, PanicInv, [Next]_vars
  PROVE  PanicInv'
<1>0. logs \in Seq(Record)
  BY DEF EndInv
<1>1. CASE UNCHANGED vars
  BY <1>1 DEF vars, PanicInv, Logged
<1>2. CASE Enter
  BY <1>2, EnterFacts DEF PanicInv, EndInv, Logged
<1>3. CASE Use
  <2>1. /\ mode = "handler" /\ mode' = "handler" /\ logs' = logs /\ outcome' = outcome
        /\ outcome = Unended
    BY <1>3, UseFacts DEF EndInv
  <2>2. outcome'.kind = "running" /\ Logged("panic")' = Logged("panic")
    BY <2>1 DEF Unended, Logged
  <2>3. \A i, j \in Logged("panic")' : i = j
    BY <2>1 DEF PanicInv, Logged
  <2>4. mode' # "panic" /\ outcome'.kind # "abort" /\ outcome'.kind # "panic"
    BY <2>1, <2>2
  <2> QED BY <2>3, <2>4 DEF PanicInv
<1>4. CASE End
  <2>1. /\ logs = <<>> /\ logs' = logs
        /\ outcome'.kind = "panic" => mode' = "panic"
    BY <1>4, EndFacts
  <2>2. Logged("panic")' = {}
    BY <2>1 DEF Logged
  <2> QED BY <2>1, <2>2 DEF PanicInv
<1>5. ASSUME NEW err \in Errors, HandlerReturnsError(err) PROVE PanicInv'
  <2>1. Logged("panic") = {} /\ outcome'.kind = "error"
    BY <1>5, ErrorFacts DEF Logged
  <2>2. Logged("panic")' = {}
    <3>1. CASE ErrorAfterCommit(err)
      <4>1. CASE logs' = logs
        BY <2>1, <4>1 DEF Logged
      <4>2. ASSUME NEW a \in Record, a.kind = "afterCommit",
                   Noted(logs, logs', TRUE, a, FALSE, a)
            PROVE  Logged("panic")' = {}
        <5>1. a.kind # "panic"
          BY <4>2
        <5>2. /\ Logged("panic")' = Logged("panic")
              /\ \A i \in Logged("panic") : logs'[i] = logs[i]
          BY <4>2, <5>1 DEF Noted, Logged
        <5> QED BY <2>1, <5>2
      <4> QED BY <1>5, <3>1, <4>1, <4>2, AfterCommitFacts DEF LogsAfterCommit
    <3>2. CASE ErrorWritten(err)
      <4>1. PICK a \in Record, b \in Record, y \in BOOLEAN :
              /\ a.kind = "cause" /\ b.kind = "writeFailed"
              /\ Noted(logs, logs', CauseLogged(err), a, y, b)
        BY <1>5, <3>2, WrittenFacts DEF LogsCause
      <4>3. a.kind # "panic" /\ b.kind # "panic"
        BY <4>1
      <4>4. /\ Logged("panic")' = Logged("panic")
            /\ \A i \in Logged("panic") : logs'[i] = logs[i]
        BY <4>1, <4>3 DEF Noted, Logged
      <4> QED BY <2>1, <4>4
    <3>3. CASE ErrorTextPanics(err)
      BY <2>1, <3>3, TextPanicsFacts DEF Logged
    <3> QED BY <1>5, <3>1, <3>2, <3>3, ErrorFacts
  <2> QED BY <2>1, <2>2 DEF PanicInv
<1>6. CASE Pass
  BY <1>6, PassFacts DEF PanicInv, Logged
<1>7. CASE LoggerLogs
  <2>1. Logged("panic")' = Logged("panic")
    <3>0. LogsRequest
      BY <1>7, LoggerFacts
    <3>1. PICK a \in Record : a.kind = "request" /\ Noted(logs, logs', TRUE, a, FALSE, a)
      BY <3>0 DEF LogsRequest
    <3>2. a.kind # "panic"
      BY <3>1
    <3>3. /\ Logged("panic")' = Logged("panic")
          /\ \A i \in Logged("panic") : logs'[i] = logs[i]
      BY <3>1, <3>2 DEF Noted, Logged
    <3> QED BY <3>3
  <2> QED BY <1>7, <2>1, LoggerFacts DEF PanicInv
<1>8. CASE RecovererAborts
  <2>1. Logged("panic") = {} /\ outcome'.kind # "abort"
    BY <1>8, AbortsFacts DEF PanicInv, EndInv
  <2>2. \A i \in Logged("panic")' : i = Len(logs) + 1
    <3>1. PICK a \in Record : Noted(logs, logs', TRUE, a, FALSE, a)
      BY <1>8, AbortsFacts DEF LogsAbort
    <3> QED BY <2>1, <3>1 DEF Noted, Logged
  <2> QED BY <1>8, <2>1, <2>2, AbortsFacts DEF PanicInv
<1>9. CASE RecovererAnswers
  <2>1. Logged("panic") = {} /\ outcome'.kind # "abort"
    BY <1>9, AnswersFacts DEF PanicInv, EndInv
  <2>2. \A i \in Logged("panic")' : i = Len(logs) + 1
    <3>0. LogsPanic
      BY <1>9, AnswersFacts
    <3>1. PICK a \in Record, b \in Record, y \in BOOLEAN :
            b.kind = "writeFailed" /\ Noted(logs, logs', TRUE, a, y, b)
      BY <3>0 DEF LogsPanic
    <3>2. b.kind # "panic"
      BY <3>1
    <3> QED BY <2>1, <3>1, <3>2 DEF Noted, Logged
  <2>3. outcome.kind = "panic" /\ ~wire'.hijacked /\ ~wire'.broken
          => outcome.clean /\ wire'.status = 500
    <3>1. mode = "panic" /\ (wire.status = 0 \/ wire.broken) /\ Headed(wire, wire', 500)
      BY <1>9, AnswersFacts
    <3>2. outcome.kind = "panic" => outcome.clean = (wire.status = 0)
      BY <3>1 DEF EndInv
    <3>3. ~wire'.hijacked /\ ~wire'.broken => wire.status = 0 /\ wire'.status = 500
      BY <3>1 DEF Headed, Valid, Final
    <3> QED BY <3>2, <3>3
  <2>4. mode' = "return" /\ outcome' = outcome
    BY <1>9, AnswersFacts
  <2> QED BY <2>1, <2>2, <2>3, <2>4 DEF PanicInv
<1>10. CASE FinishRequest \/ CutConnection
  BY <1>10, FinishFacts DEF PanicInv, EndInv, Logged
<1> QED
  BY <1>1, <1>2, <1>3, <1>4, <1>5, <1>6, <1>7, <1>8, <1>9, <1>10, NextCases

\* The error's own text in a problem, and what explains it.
TextInv ==
  \A i \in DOMAIN answers : answers[i].detail = "text" =>
    /\ outcome.kind = "error"
    /\ \/ outcome.err.own # None \/ Claiming(outcome.err) # {}
       \/ 500 \in Details

\* What was logged or answered of an error stays so.
LEMMA SaidStays ==
  ASSUME Said, NEW x, NEW a, NEW y, NEW b, Noted(logs, logs', x, a, y, b),
         outcome' = outcome
  PROVE  Said'
<1>1. PICK i \in DOMAIN logs :
        /\ logs[i].kind \in {"cause", "afterCommit", "writeFailed"}
        /\ logs[i].level \in {"warn", "error"} \/ outcome.err.canceled
  BY DEF Said
<1>2. i \in DOMAIN logs' /\ logs'[i] = logs[i]
  BY DEF Noted
<1> QED BY <1>1, <1>2 DEF Said

\* A panic is logged,
LEMMA PanicNoted ==
  ASSUME NEW a, a.kind = "panic", NEW y, NEW b, Noted(logs, logs', TRUE, a, y, b)
  PROVE  Logged("panic")' # {}
BY DEF Noted, Logged

\* and stays logged.
LEMMA RaisedStays ==
  ASSUME Raised, NEW x, NEW a, NEW y, NEW b, Noted(logs, logs', x, a, y, b),
         outcome' = outcome, mode' = mode
  PROVE  Raised'
<1>1. ASSUME NEW i \in Logged("panic") PROVE i \in Logged("panic")'
  BY <1>1 DEF Noted, Logged
<1> QED BY <1>1 DEF Raised

\* An error that is returned is answered or logged at once.
LEMMA ErrorTold ==
  ASSUME StackInv, WireInv, EndInv, NEW err \in Errors, HandlerReturnsError(err)
  PROVE  ErrorInv'
<1>1. outcome'.kind = "error" /\ outcome'.err = err /\ answers = <<>>
  BY ErrorFacts
<1>2. CASE ErrorAfterCommit(err)
  <2>1. answers' = <<>>
    BY <1>1, <1>2, AfterCommitFacts
  <2>2. CASE mode' = "panic" /\ err.form = "nil"
    BY <1>1, <2>1, <2>2 DEF ErrorInv, Raised
  <2>3. CASE LogsAfterCommit
    <3>1. PICK a \in Record : /\ a.kind = "afterCommit" /\ a.level = "error"
                              /\ Noted(logs, logs', TRUE, a, FALSE, a)
      BY <2>3 DEF LogsAfterCommit
    <3>2. \E i \in DOMAIN logs' : logs'[i] = a
      BY <3>1 DEF Noted
    <3>3. Said'
      BY <3>1, <3>2 DEF Said
    <3> QED BY <2>1, <3>3 DEF ErrorInv
  <2> QED BY <1>2, <2>2, <2>3, AfterCommitFacts
<1>3. CASE ErrorWritten(err)
  <2> DEFINE p == Answer(err, BuiltInDetail \cup Details)
             q == [status |-> p.status, detail |-> p.detail, over |-> wire.status]
  <2>1. err \in ErrorType
    BY ResponseAssumption
  <2>2. /\ p.status = ProblemOf(err).status /\ p.status \in 400 .. 599
        /\ p.detail = "text" => ~Whole(err) /\ p.status \in BuiltInDetail \cup Details
    BY <2>1, AnswerIsProblem
  <2>3. err.own = None /\ Claiming(err) = {} /\ ~Whole(err) => p.status = 500
    BY <2>1, <2>2, ProblemIsReported
  <2>4. answers' = <<q>> /\ mode' = "return" /\ Headed(wire, wire', p.status)
        /\ ~Top(writers).committed
    <3>1. answers' = Append(<<>>, q)
      BY <1>1, <1>3, WrittenFacts
    <3>2. mode' = "return" /\ Headed(wire, wire', p.status) /\ ~Top(writers).committed
      BY <1>3, WrittenFacts
    <3> HIDE DEF q, p
    <3> QED BY <3>1, <3>2
  <2>5. PICK a \in Record, b \in Record, y \in BOOLEAN :
          /\ a.kind = "cause" /\ b.kind = "writeFailed" /\ b.level = "error"
          /\ a.level \in {"warn", "error"} \/ err.canceled
          /\ wire.hijacked \/ wire.stuck => y
          /\ Noted(logs, logs', CauseLogged(err), a, y, b)
    BY <1>3, WrittenFacts DEF LogsCause
  <2> DEFINE code == p.status
  <2>6. q.detail = p.detail
    OBVIOUS
  <2> HIDE DEF p, q
  <2>7. TextInv'
    <3>1. ASSUME p.detail = "text"
          PROVE  \/ err.own # None \/ Claiming(err) # {} \/ 500 \in Details
      BY <2>2, <2>3, <3>1 DEF BuiltInDetail
    <3>2. \A i \in DOMAIN answers' : answers'[i].detail = p.detail
      BY <2>4, <2>6
    <3> QED BY <1>1, <3>1, <3>2 DEF TextInv
  <2>8. Told' \/ Said' \/ Buffered'
    <3>1. CASE CauseLogged(err)
      <4>1. \E i \in DOMAIN logs' : logs'[i] = a
        BY <2>5, <3>1 DEF Noted
      <4> QED BY <1>1, <2>5, <4>1 DEF Said
    <3>2. CASE y
      <4>1. \E i \in DOMAIN logs' : logs'[i] = b
        BY <2>5, <3>2 DEF Noted
      <4> QED BY <2>5, <4>1 DEF Said
    <3>4. CASE ~CauseLogged(err) /\ ~wire.stuck /\ wire.broken
      BY <1>1, <2>4, <3>4 DEF Headed, Buffered
    <3>3. CASE ~CauseLogged(err) /\ ~wire.hijacked /\ ~wire.broken
      <4>1. wire.status = 0
        BY <1>1, <2>4, <3>3, ErrorFacts, TopIsRecorder
      <4>2. p.status \in 400 .. 499
        BY <2>2, <3>3 DEF CauseLogged
      <4>3. wire'.status = p.status /\ ~wire'.broken /\ ~wire'.hijacked
        <5> HIDE DEF code
        <5> QED BY <2>4, <3>3, <4>1, <4>2 DEF Headed, Valid, Final
      <4>4. answers' # <<>>
        BY <2>4
      <4> QED BY <2>4, <4>2, <4>3, <4>4 DEF Told
    <3> QED BY <2>5, <3>1, <3>2, <3>3, <3>4
  <2> QED BY <2>7, <2>8 DEF ErrorInv, TextInv
<1>4. CASE ErrorTextPanics(err)
  BY <1>1, <1>4, TextPanicsFacts DEF ErrorInv, Raised
<1> QED BY <1>2, <1>3, <1>4, ErrorFacts

\* And so it stays in every step.
LEMMA ErrorKept ==
  ASSUME StackInv, WireInv, EndInv, ErrorInv, [Next]_vars
  PROVE  ErrorInv'
<1>1. CASE UNCHANGED vars
  BY <1>1 DEF vars, ErrorInv, Told, Said, Raised, Buffered, Logged
<1>2. CASE Enter \/ Use \/ End
  <2>1. outcome'.kind # "error" /\ answers' = <<>>
    <3>1. CASE Enter
      BY <3>1, EnterFacts DEF EndInv, Unended
    <3>2. CASE Use
      BY <3>2, UseFacts DEF EndInv, Unended
    <3>3. CASE End
      BY <3>3, EndFacts
    <3> QED BY <1>2, <3>1, <3>2, <3>3
  <2> QED BY <2>1 DEF ErrorInv
<1>3. ASSUME NEW err \in Errors, HandlerReturnsError(err) PROVE ErrorInv'
  BY <1>3, ErrorTold
<1>4. CASE Pass
  <2>1. UNCHANGED <<mode, wire, outcome, answers, logs>>
    BY <1>4, PassFacts
  <2>2. (Told => Told') /\ (Said => Said') /\ (Raised => Raised')
    BY <2>1 DEF Told, Said, Raised, Logged
  <2> QED BY <2>1, <2>2 DEF ErrorInv, Buffered
<1>5. CASE LoggerLogs
  <2>1. UNCHANGED <<mode, wire, outcome, answers>> /\ LogsRequest
    BY <1>5, LoggerFacts
  <2>2. (Said => Said') /\ (Raised => Raised')
    BY <2>1, SaidStays, RaisedStays DEF LogsRequest
  <2> QED BY <2>1, <2>2 DEF ErrorInv, Told, Buffered
<1>6. CASE RecovererAborts
  <2>1. mode = "panic" /\ UNCHANGED <<wire, outcome, answers>> /\ LogsAbort
    BY <1>6, AbortsFacts
  <2>2. Said => Said'
    BY <2>1, SaidStays DEF LogsAbort
  <2>3. Logged("panic")' # {}
    BY <2>1, PanicNoted DEF LogsAbort
  <2> QED BY <2>1, <2>2, <2>3 DEF ErrorInv, Told, Raised, Buffered
<1>7. CASE RecovererAnswers
  <2>1. mode = "panic" /\ outcome' = outcome /\ answers = <<>> /\ LogsPanic
    BY <1>7, AnswersFacts DEF EndInv
  <2>3. Said => Said'
    BY <2>1, SaidStays DEF LogsPanic
  <2>2. \A i \in DOMAIN answers' : answers'[i].detail # "text"
    <3> DEFINE q == [status |-> 500, detail |-> "own", over |-> wire.status]
    <3>1. answers' = Append(<<>>, q) /\ q.detail = "own"
      BY <1>7, <2>1, AnswersFacts
    <3> HIDE DEF q
    <3> QED BY <3>1
  <2>4. Logged("panic")' # {}
    BY <2>1, PanicNoted DEF LogsPanic
  <2>5. Buffered => Buffered'
    BY <1>7, <2>1, AnswersFacts DEF Headed, Buffered
  <2> QED BY <2>1, <2>2, <2>3, <2>4, <2>5 DEF ErrorInv, Told, Raised
<1>8. CASE FinishRequest \/ CutConnection
  <2>1. UNCHANGED <<outcome, answers, logs>> /\ (Said => Said')
    BY <1>8, FinishFacts DEF Said
  <2>2. Told => Told'
    <3>1. ASSUME Told PROVE Told'
      <4>1. /\ mode \in {"return", "complete"} /\ wire.status \in 400 .. 499
            /\ ~wire.broken /\ ~wire.hijacked /\ answers # <<>>
        BY <3>1 DEF Told
      <4>0. wire.status # 0
        <5>1. 0 \notin 400 .. 499
          OBVIOUS
        <5> QED BY <4>1, <5>1
      <4>2. mode' = "complete" /\ wire'.broken = wire.broken /\ wire'.hijacked = wire.hijacked
        BY <1>8, <4>1, FinishFacts
      <4>3. /\ wire'.status = IF wire.status = 0 /\ ~wire.hijacked THEN 200 ELSE wire.status
            /\ ~wire.hijacked /\ ~wire.broken => wire'.sent
        BY <1>8, <4>2, FinishFacts
      <4> QED BY <2>1, <4>0, <4>1, <4>2, <4>3 DEF Told
    <3> QED BY <3>1
  <2>3. Raised => Raised'
    BY <1>8, <2>1, FinishFacts DEF Raised, Logged
  <2>4. Buffered => Buffered'
    BY <1>8, <2>1, FinishFacts DEF Buffered
  <2> QED BY <2>1, <2>2, <2>3, <2>4 DEF ErrorInv
<1> QED
  BY <1>1, <1>2, <1>3, <1>4, <1>5, <1>6, <1>7, <1>8, NextCases

-----------------------------------------------------------------------------
(***************************************************************************)
(* The invariant, and what it says                                         *)
(***************************************************************************)

\* Before the first layer the invariant holds.
LEMMA Initially ==
  ASSUME Init
  PROVE  IInv
<1>1. /\ chain \in Chains /\ adapted \in BOOLEAN /\ mode = "down" /\ held = <<>>
      /\ writers = <<>> /\ ops = 0 /\ outcome = Unended /\ answers = <<>> /\ logs = <<>>
      /\ wire = [status |-> 0, sent |-> FALSE, broken |-> FALSE, stuck |-> FALSE,
                hijacked |-> FALSE]
  BY DEF Init
<1>2. chain \in Seq(Layers) /\ MaxOps \in Nat
  BY <1>1, ResponseAssumption
<1>3. StackInv
  BY <1>1, <1>2 DEF StackInv, Depth, Done, Mode, OnRecorder
<1>4. WireInv
  BY <1>1, <1>2 DEF WireInv, Wire, Statuses, Marked
<1>5. EndInv /\ PanicInv /\ ErrorInv
  BY <1>1 DEF EndInv, PanicInv, ErrorInv, Logged, Unended
<1> QED BY <1>3, <1>4, <1>5 DEF IInv

\* Every step keeps it.
LEMMA Kept ==
  ASSUME IInv, [Next]_vars
  PROVE  IInv'
BY StackAndWireKept, EndKept, PanicKept, ErrorKept DEF IInv

\* The invariant holds throughout.
LEMMA Invariance == Spec => []IInv
BY Initially, Kept, PTL DEF Spec

\* Every variable keeps its type, and a writer has committed exactly when it
\* has a status, whatever is committed twice, refused, or left half-done.
THEOREM Typing == Spec => []TypeOK
<1>1. ASSUME IInv PROVE TypeOK
  <2> USE <1>1 DEF IInv
  <2>1. /\ chain \in Chains /\ adapted \in BOOLEAN /\ mode \in Mode
        /\ chain \in Seq(Layers) /\ held \in Seq(Nat) /\ writers \in Seq(Writer)
    BY StackFacts DEF StackInv
  <2>2. Depth \in 0 .. Len(chain) + 1
    BY StackFacts DEF StackInv, Depth
  <2>3. \A i \in DOMAIN held : held[i] \in 0 .. Len(writers)
    <3>1. DOMAIN held = 1 .. Depth
      BY <2>1 DEF Depth
    <3> QED BY <3>1, StackFacts
  <2>4. \A i \in DOMAIN writers : writers[i] \in Writer
    BY <2>1
  <2>5. \A i \in DOMAIN writers : writers[i].committed = (writers[i].status # 0)
    BY DEF WireInv, Marked
  <2>6. wire \in [status : Nat, sent : BOOLEAN, broken : BOOLEAN, stuck : BOOLEAN,
                 hijacked : BOOLEAN]
    <3>1. Statuses \subseteq Nat
      BY DEF Statuses
    <3> QED BY <3>1 DEF WireInv, Wire
  <2>7. ops \in 0 .. MaxOps
    BY DEF WireInv
  <2>8. outcome.kind \in {"running", "nil", "error", "panic", "abort"}
    BY DEF EndInv, Unended
  <2> QED BY <2>1, <2>2, <2>3, <2>4, <2>5, <2>6, <2>7, <2>8 DEF TypeOK, Writer
<1> QED BY <1>1, Invariance, PTL

\* A chain of any length with any number of Recoverers logs a panic once, and
\* never an http.ErrAbortHandler of the handler's own.
THEOREM LoggedOnce == Spec => []PanicLoggedOnce
<1>1. ASSUME IInv PROVE PanicLoggedOnce
  BY <1>1 DEF IInv, PanicInv, PanicLoggedOnce
<1> QED BY <1>1, Invariance, PTL

\* No order of middleware makes a request whose handler panicked look like one
\* that completed, but for the Recoverer's own 500 over nothing committed.
THEOREM NeverLooksComplete == Spec => []PanicNeverLooksComplete
<1>1. ASSUME IInv PROVE PanicNeverLooksComplete
  BY <1>1 DEF IInv, PanicInv, EndInv, PanicNeverLooksComplete, Client
<1> QED BY <1>1, Invariance, PTL

\* Whatever the matchers, the detail set and the chain, an error that Handle
\* was given reaches the client as a 4xx, or the log at warn or error, or, a
\* nil *Problem, ends in a panic that is logged or cuts the connection; but
\* for a 4xx in the buffer of a response whose connection a flush found broken.
THEOREM NotLost == Spec => []ErrorNotLost
<1>1. ASSUME IInv PROVE ErrorNotLost
  <2> SUFFICES ASSUME Done, outcome.kind = "error"
               PROVE  \/ Client \in 400 .. 499 /\ answers # <<>>
                      \/ \E i \in DOMAIN logs :
                           /\ logs[i].kind \in {"cause", "afterCommit", "writeFailed"}
                           /\ logs[i].level \in {"warn", "error"} \/ outcome.err.canceled
                      \/ outcome.err.form = "nil"
                           /\ (mode = "cut" \/ Logged("panic") # {})
                      \/ wire.broken /\ ~wire.stuck /\ ~CauseLogged(outcome.err)
    BY DEF ErrorNotLost
  <2>1. CASE Said
    BY <2>1 DEF Said
  <2>2. CASE Told
    BY <2>2 DEF Told, Done, Client
  <2>3. CASE Raised
    BY <2>3 DEF Raised, Done
  <2>4. CASE Buffered
    BY <2>4 DEF Buffered
  <2> QED BY <1>1, <2>1, <2>2, <2>3, <2>4 DEF IInv, ErrorInv
<1> QED BY <1>1, Invariance, PTL

\* No problem carries the text of an error that is none of this package's and
\* that no matcher claims, unless Detail has added 500.
THEOREM TextStaysInside == Spec => []InternalTextStaysInside
<1>1. ASSUME IInv PROVE InternalTextStaysInside
  BY <1>1 DEF IInv, ErrorInv, InternalTextStaysInside
<1> QED BY <1>1, Invariance, PTL

-----------------------------------------------------------------------------
(***************************************************************************)
(* The Recorders agree with net/http                                       *)
(***************************************************************************)

\* What a call of the handler's does to net/http's response.
LEMMA UseOnWire ==
  ASSUME StackInv, WireInv, Use
  PROVE  /\ wire.status # 0 => wire'.status = wire.status
         /\ wire.sent => wire'.sent
         /\ Unbreaking => wire'.broken = wire.broken
         /\ wire'.hijacked => wire'.status = wire.status /\ wire'.sent = wire.sent
<1>1. wire \in Wire /\ (wire.sent => wire.status # 0) /\ ~wire.hijacked
  BY UseFacts DEF WireInv
<1> DEFINE Goal == /\ wire.status # 0 => wire'.status = wire.status
                   /\ wire.sent => wire'.sent
                   /\ Unbreaking => wire'.broken = wire.broken
                   /\ wire'.hijacked => wire'.status = wire.status /\ wire'.sent = wire.sent
<1>2. ASSUME NEW code \in Codes, HandlerWriteHeader(code) PROVE Goal
  <2>1. Headed(wire, wire', code)
    BY <1>1, <1>2, HeaderSets, ResponseAssumption DEF HandlerWriteHeader
  <2> QED BY <1>1, <2>1 DEF Headed
<1>3. ASSUME NEW size, wire' = HttpWrite(wire, size) PROVE Goal
  BY <1>1, <1>3, WriteSends
<1>4. ASSUME NEW result \in Flushes, HandlerFlush(result) PROVE Goal
  <2>1. wire' = HttpFlush(wire, result) /\ result \in {"ok", "unsupported", "broken", "stuck"}
    BY <1>4, ResponseAssumption DEF HandlerFlush
  <2>2. /\ wire' \in Wire /\ ~wire'.hijacked
        /\ result = "unsupported" => wire' = wire
        /\ result # "unsupported" => wire'.status = IF wire.status = 0 THEN 200 ELSE wire.status
        /\ result = "ok" => wire'.sent /\ wire'.broken = wire.broken
        /\ result \in {"broken", "stuck"} => wire'.sent = wire.sent /\ wire'.broken
    BY <1>1, <2>1, FlushSends
  <2> QED BY <1>1, <2>1, <2>2 DEF Unbreaking
<1>5. ASSUME HandlerHijack PROVE Goal
  <2>1. wire' = [wire EXCEPT !.hijacked = TRUE]
    BY <1>5 DEF HandlerHijack
  <2>2. /\ wire'.status = wire.status /\ wire'.sent = wire.sent
        /\ wire'.broken = wire.broken
    BY <1>1, <2>1, SetsHijacked
  <2> QED BY <2>2
<1>6. Goal
  <2>1. ASSUME NEW size \in {"small", "large"}, HandlerWrite(size) PROVE Goal
    BY <1>3, <2>1 DEF HandlerWrite
  <2>2. ASSUME NEW size \in Reads, HandlerReadFrom(size) PROVE Goal
    <3>1. wire' = wire \/ wire' = HttpWrite(wire, size)
      BY <2>2 DEF HandlerReadFrom
    <3> QED BY <1>1, <1>3, <3>1
  <2> HIDE DEF Goal
  <2> QED BY <1>2, <1>4, <1>5, <2>1, <2>2 DEF Use
<1> QED BY <1>6

\* A code that every writer of a stack commits with net/http, or that neither
\* takes because the connection is taken over.
LEMMA AgreeAfterCommit ==
  ASSUME NEW ws \in Seq(Writer), NEW new, Shaped(ws, new), NEW code \in Nat \ {0},
         \A i \in DOMAIN ws : new[i] = Committing(ws[i], code),
         NEW w, NEW v, v.hijacked = w.hijacked,
         v.status = IF w.status = 0 /\ ~w.hijacked THEN code ELSE w.status,
         Agrees(ws, w)
  PROVE  Agrees(new, v)
<1> SUFFICES ASSUME NEW i \in DOMAIN new, new[i].recorder
             PROVE  /\ v.status # 0 => new[i].committed /\ new[i].status = v.status
                    /\ v.status = 0 /\ ~v.hijacked => ~new[i].committed /\ new[i].status = 0
  BY DEF Agrees
<1>1. i \in DOMAIN ws
  BY DEF Shaped
<1>2. ws[i] \in Writer /\ new[i] = Committing(ws[i], code)
  BY <1>1
<1>3. /\ Grown(ws[i], new[i])
      /\ ws[i].recorder => new[i].committed
      /\ ws[i].recorder /\ ~ws[i].committed => new[i].status = code
  BY <1>2, CommittingGrows
<1>4. ws[i].recorder /\ (ws[i].committed => new[i] = ws[i])
  BY <1>3 DEF Grown
<1>5. /\ w.status # 0 => ws[i].committed /\ ws[i].status = w.status
      /\ w.status = 0 /\ ~w.hijacked => ~ws[i].committed /\ ws[i].status = 0
  BY <1>1, <1>4 DEF Agrees
<1>6. CASE w.status = 0 /\ ~w.hijacked
  BY <1>3, <1>4, <1>5, <1>6
<1>7. CASE w.status # 0
  BY <1>3, <1>4, <1>5, <1>7
<1>8. CASE w.status = 0 /\ w.hijacked
  BY <1>8
<1> QED BY <1>6, <1>7, <1>8

\* What the lower writers recorded still agrees with the wire,
LEMMA AgreeBeneath ==
  ASSUME NEW ws, NEW kept, NEW w, Agrees(ws, w),
         \A i \in DOMAIN kept : i \in DOMAIN ws /\ kept[i] = ws[i]
  PROVE  Agrees(kept, w)
BY DEF Agrees

\* and with a wire of the same status.
LEMMA AgreeStays ==
  ASSUME NEW ws, NEW w, NEW v, Agrees(ws, w), v.status = w.status, w.hijacked => v.hijacked
  PROVE  Agrees(ws, v)
BY DEF Agrees

\* A commit records the status the wire gets.
LEMMA AgreeOnCommit ==
  ASSUME StackInv, AgreeInv, NEW code \in Nat \ {0}, writers' = Commit(writers, code),
         wire'.hijacked = wire.hijacked,
         wire'.status = IF wire.status = 0 /\ ~wire.hijacked THEN code ELSE wire.status
  PROVE  Agrees(writers', wire')
<1>1. writers \in Seq(Writer) /\ Agrees(writers, wire)
  BY DEF StackInv, AgreeInv
<1>2. /\ Shaped(writers, writers')
      /\ \A i \in DOMAIN writers : writers'[i] = Committing(writers[i], code)
  BY <1>1, CommitKeeps
<1> QED BY <1>1, <1>2, AgreeAfterCommit

\* Two responses of which neither was hijacked agree on it.
LEMMA Unhijacked ==
  ASSUME NEW w \in Wire, NEW v \in Wire, ~w.hijacked, ~v.hijacked
  PROVE  v.hijacked = w.hijacked
<1>1. w.hijacked \in BOOLEAN /\ v.hijacked \in BOOLEAN
  BY DEF Wire
<1> QED BY <1>1

\* The handler's use of its writer keeps the Recorders in agreement with the wire.
LEMMA UseAgrees ==
  ASSUME Orderly, StackInv, WireInv, AgreeInv, Use
  PROVE  AgreeInv'
<1>1. wire \in Wire /\ ~wire.hijacked /\ ~wire.broken /\ Agrees(writers, wire)
      /\ (wire.sent => wire.status # 0)
  BY UseFacts DEF WireInv, AgreeInv
<1>2. ~wire'.broken
  BY <1>1, UseOnWire DEF Orderly
<1>3. 200 \in Nat \ {0}
  OBVIOUS
<1>4. ASSUME NEW code \in Codes, HandlerWriteHeader(code) PROVE Agrees(writers', wire')
  <2>1. code \in Nat \ {0} /\ Valid(code)
    BY ResponseAssumption DEF Orderly, Valid
  <2>2. writers' = WriteHeader(writers, code) /\ wire' = HttpWriteHeader(wire, code)
    BY <1>4 DEF HandlerWriteHeader
  <2>3. Headed(wire, wire', code)
    BY <1>1, <2>1, <2>2, HeaderSets
  <2>4. CASE Final(code)
    <3>1. writers' = Commit(writers, code)
      BY <2>2, <2>4 DEF WriteHeader
    <3>2. /\ wire'.hijacked = wire.hijacked
          /\ wire'.status = IF wire.status = 0 /\ ~wire.hijacked THEN code ELSE wire.status
      BY <2>1, <2>3, <2>4 DEF Headed
    <3> QED BY <2>1, <3>1, <3>2, AgreeOnCommit
  <2>5. CASE ~Final(code)
    <3>1. writers' = writers /\ wire'.status = wire.status /\ wire'.hijacked = wire.hijacked
      BY <2>2, <2>3, <2>5 DEF WriteHeader, Headed
    <3> QED BY <1>1, <3>1, AgreeStays
  <2> QED BY <2>4, <2>5
<1>5. ASSUME NEW size, writers' = Commit(writers, 200), wire' = HttpWrite(wire, size)
      PROVE  Agrees(writers', wire')
  <2>1. /\ wire' \in Wire /\ ~wire'.hijacked
        /\ wire'.status = IF wire.status = 0 THEN 200 ELSE wire.status
    BY <1>1, <1>5, WriteSends
  <2>2. wire'.hijacked = wire.hijacked
    BY <1>1, <2>1, Unhijacked
  <2> QED BY <1>1, <1>3, <1>5, <2>1, <2>2, AgreeOnCommit
<1>6. ASSUME NEW size \in Reads, HandlerReadFrom(size) PROVE Agrees(writers', wire')
  <2>1. size # "nothing"
    BY <1>6 DEF Orderly
  <2>2. writers' = Commit(writers, 200) /\ wire' = HttpWrite(wire, size)
    BY <1>6, <2>1 DEF HandlerReadFrom, ReadFrom, Write
  <2> QED BY <1>5, <2>2
<1>7. ASSUME NEW result \in Flushes, HandlerFlush(result) PROVE Agrees(writers', wire')
  <2>1. /\ writers' = FlushError(writers, result) /\ wire' = HttpFlush(wire, result)
        /\ result \in {"ok", "unsupported"}
    BY <1>7, ResponseAssumption DEF HandlerFlush, Orderly, Unbreaking
  <2>2. CASE result = "ok"
    <3>1. writers' = Commit(writers, 200)
      BY <2>1, <2>2 DEF FlushError
    <3>2. /\ wire' \in Wire /\ ~wire'.hijacked
          /\ wire'.status = IF wire.status = 0 THEN 200 ELSE wire.status
      BY <1>1, <2>1, <2>2, FlushSends
    <3>3. wire'.hijacked = wire.hijacked
      BY <1>1, <3>2, Unhijacked
    <3> QED BY <1>1, <1>3, <3>1, <3>2, <3>3, AgreeOnCommit
  <2>3. CASE result = "unsupported"
    <3>1. writers' = writers /\ wire' = wire
      BY <1>1, <2>1, <2>3, FlushSends DEF FlushError
    <3> QED BY <1>1, <3>1
  <2> QED BY <2>1, <2>2, <2>3
<1>8. ASSUME HandlerHijack PROVE Agrees(writers', wire')
  <2>1. writers' = writers /\ wire' = [wire EXCEPT !.hijacked = TRUE]
    BY <1>8 DEF HandlerHijack
  <2>2. wire'.hijacked /\ wire'.status = wire.status
    BY <1>1, <2>1, SetsHijacked
  <2> QED BY <1>1, <2>1, <2>2, AgreeStays
<1>9. ASSUME NEW size \in {"small", "large"}, HandlerWrite(size)
      PROVE  Agrees(writers', wire')
  BY <1>5, <1>9 DEF HandlerWrite, Write
<1> QED BY <1>2, <1>4, <1>6, <1>7, <1>8, <1>9 DEF Use, AgreeInv

\* So does the leaving of a layer with writers that agree.
LEMMA LeavingAgrees ==
  ASSUME StackInv, Depth > 0, NEW ws, Shaped(writers, ws), Left(ws),
         UNCHANGED <<chain, adapted>>, mode' \in {"return", "panic", "abort"},
         Agrees(ws, wire'), ~wire'.broken
  PROVE  AgreeInv'
BY LeftKeepsStack, AgreeBeneath DEF AgreeInv

\* The innermost writer, where a layer asks it, has what net/http has.
LEMMA TopAgrees ==
  ASSUME StackInv, WireInv, AgreeInv, Depth > 0,
         \/ mode = "handler" /\ adapted
         \/ mode # "handler" /\ Layer # "foreign"
  PROVE  /\ wire.status # 0 => Top(writers).committed /\ Top(writers).status = wire.status
         /\ wire.status = 0 /\ ~wire.hijacked => ~Top(writers).committed
BY TopIsRecorder DEF AgreeInv, Agrees

\* Every step keeps them in agreement.
LEMMA AgreeKept ==
  ASSUME Orderly, StackInv, WireInv, EndInv, AgreeInv, [Next]_vars
  PROVE  AgreeInv'
<1>1. /\ ~wire.broken /\ Agrees(writers, wire) /\ writers \in Seq(Writer)
      /\ Shaped(writers, writers)
  BY NothingKeeps DEF AgreeInv, StackInv
<1>2. ASSUME NEW code \in 400 .. 599, Depth > 0, UNCHANGED <<chain, adapted>>,
             mode' = "return", Headed(wire, wire', code),
             NEW ws, Shaped(writers, ws), Left(ws),
             \A i \in DOMAIN writers : ws[i] = Committing(writers[i], code)
      PROVE  AgreeInv'
  <2>1. code \in Nat \ {0} /\ Valid(code) /\ Final(code)
    BY <1>2 DEF Valid, Final
  <2>2. /\ wire'.hijacked = wire.hijacked /\ wire'.broken = wire.broken
        /\ wire'.status = IF wire.status = 0 /\ ~wire.hijacked THEN code ELSE wire.status
    BY <1>2, <2>1 DEF Headed
  <2>3. Agrees(ws, wire')
    BY <1>1, <1>2, <2>1, <2>2, AgreeAfterCommit
  <2> QED BY <1>1, <1>2, <2>2, <2>3, LeavingAgrees
<1>3. CASE UNCHANGED vars
  BY <1>1, <1>3 DEF vars, AgreeInv
<1>4. CASE Enter
  <2>1. /\ wire' = wire /\ wire.status = 0
        /\ \A i \in DOMAIN writers : writers'[i] = writers[i]
        /\ \A i \in DOMAIN writers' \ DOMAIN writers :
             ~writers'[i].committed /\ writers'[i].status = 0
    BY <1>4, EnterFacts DEF WireInv, Extended
  <2> QED BY <1>1, <2>1 DEF AgreeInv, Agrees
<1>5. CASE Use
  BY <1>5, UseAgrees
<1>6. CASE End
  BY <1>1, <1>6, EndFacts, LeavingAgrees DEF Orderly
<1>7. ASSUME NEW err \in Errors, HandlerReturnsError(err) PROVE AgreeInv'
  <2>1. CASE ErrorAfterCommit(err)
    <3>1. Left(writers) /\ wire' = wire /\ mode' \in {"return", "panic"}
      BY <1>7, <2>1, AfterCommitFacts
    <3> QED BY <1>1, <1>7, <3>1, ErrorFacts, LeavingAgrees
  <2>2. CASE ErrorWritten(err)
    <3> DEFINE code == Answer(err, BuiltInDetail \cup Details).status
    <3>1. code \in 400 .. 599
      BY AnswerIsProblem, ResponseAssumption
    <3>2. mode' = "return" /\ Headed(wire, wire', code)
      BY <1>7, <2>2, WrittenFacts
    <3>3. PICK ws : /\ Shaped(writers, ws) /\ Left(ws)
                    /\ \A i \in DOMAIN writers : ws[i] = Committing(writers[i], code)
      BY <1>7, <2>2, WrittenFacts DEF LeftMarked
    <3> HIDE DEF code
    <3> QED BY <1>2, <1>7, <3>1, <3>2, <3>3, ErrorFacts
  <2>3. CASE ErrorTextPanics(err)
    BY <1>1, <1>7, <2>3, TextPanicsFacts, ErrorFacts, LeavingAgrees
  <2> QED BY <1>7, <2>1, <2>2, <2>3, ErrorFacts
<1>8. CASE Pass
  BY <1>1, <1>8, PassFacts, LeavingAgrees
<1>9. CASE LoggerLogs
  BY <1>1, <1>9, LoggerFacts, LeavingAgrees
<1>10. CASE RecovererAborts
  BY <1>1, <1>10, AbortsFacts, LeavingAgrees
<1>11. CASE RecovererAnswers
  <2>1. PICK ws : /\ Shaped(writers, ws) /\ Left(ws)
                  /\ \A i \in DOMAIN writers : ws[i] = Committing(writers[i], 500)
    BY <1>11, AnswersFacts DEF LeftMarked
  <2>2. 500 \in 400 .. 599
    OBVIOUS
  <2> QED BY <1>2, <1>11, <2>1, <2>2, AnswersFacts
<1>12. CASE FinishRequest \/ CutConnection
  <2>1. Depth = 0 /\ writers' = writers /\ wire'.broken = wire.broken
    BY <1>12, FinishFacts
  <2>2. DOMAIN writers' = {}
    BY <2>1, StackFacts
  <2> QED BY <1>1, <2>1, <2>2 DEF AgreeInv, Agrees
<1> QED
  BY <1>3, <1>4, <1>5, <1>6, <1>7, <1>8, <1>9, <1>10, <1>11, <1>12, NextCases

\* The access log gives the status the client has.
LEMMA LogKept ==
  ASSUME Orderly, StackInv, WireInv, EndInv, AgreeInv, LogInv, [Next]_vars
  PROVE  LogInv'
<1>1. ASSUME \A i \in DOMAIN logs' : logs'[i].kind # "request" PROVE LogInv'
  BY <1>1 DEF LogInv, Logged
<1>2. CASE UNCHANGED vars
  BY <1>2 DEF vars, LogInv, Logged
<1>3. CASE Enter \/ Use \/ End
  <2>1. logs' = <<>>
    BY <1>3, EnterFacts, UseFacts, EndFacts DEF EndInv
  <2> QED BY <1>1, <2>1
<1>4. ASSUME NEW err \in Errors, HandlerReturnsError(err) PROVE LogInv'
  <2>1. logs = <<>> /\ DOMAIN logs = {}
    BY <1>4, ErrorFacts
  <2>2. CASE ErrorAfterCommit(err)
    <3>1. CASE logs' = logs
      BY <1>1, <2>1, <3>1
    <3>2. ASSUME NEW a, a.kind = "afterCommit", Noted(logs, logs', TRUE, a, FALSE, a)
          PROVE  LogInv'
      <4>1. \A i \in DOMAIN logs' : logs'[i] = a
        BY <2>1, <3>2 DEF Noted
      <4> QED BY <1>1, <3>2, <4>1
    <3> QED BY <1>4, <2>2, <3>1, <3>2, AfterCommitFacts DEF LogsAfterCommit
  <2>3. CASE ErrorWritten(err)
    <3>1. PICK a \in Record, b \in Record, y \in BOOLEAN :
            /\ a.kind = "cause" /\ b.kind = "writeFailed"
            /\ Noted(logs, logs', CauseLogged(err), a, y, b)
      BY <1>4, <2>3, WrittenFacts DEF LogsCause
    <3>2. \A i \in DOMAIN logs' : logs'[i] = a \/ logs'[i] = b
      BY <2>1, <3>1 DEF Noted
    <3> QED BY <1>1, <3>1, <3>2
  <2>4. CASE ErrorTextPanics(err)
    BY <1>1, <2>1, <2>4, TextPanicsFacts
  <2> QED BY <1>4, <2>2, <2>3, <2>4, ErrorFacts
<1>5. CASE Pass
  <2>1. UNCHANGED <<mode, wire, logs>>
    BY <1>5, PassFacts
  <2> QED BY <2>1 DEF LogInv, Logged
<1>6. CASE LoggerLogs
  <2>0. LogsRequest
    BY <1>6, LoggerFacts
  <2>1. PICK a \in Record :
          /\ Noted(logs, logs', TRUE, a, FALSE, a)
          /\ Top(writers).committed => a.status = Top(writers).status
          /\ ~Top(writers).committed /\ mode = "return" => a.status = 200
          /\ ~Top(writers).committed /\ mode # "return" => a.status = 500
    BY <2>0 DEF LogsRequest
  <2>2. UNCHANGED <<mode, wire>> /\ mode # "handler" /\ Layer = "logger" /\ Depth > 0
    BY <1>6, LoggerFacts
  <2>3. /\ wire.status # 0 => Top(writers).committed /\ Top(writers).status = wire.status
        /\ wire.status = 0 /\ ~wire.hijacked => ~Top(writers).committed
    BY <2>2, TopAgrees
  <2>4. /\ wire.status # 0 => a.status = wire.status
        /\ wire.status = 0 /\ ~wire.hijacked /\ mode = "return" => a.status = 200
        /\ wire.status = 0 /\ ~wire.hijacked /\ mode = "panic" => a.status = 500
    BY <2>1, <2>3
  <2>5. ASSUME NEW i \in Logged("request")'
        PROVE  logs'[i] = a \/ (i \in Logged("request") /\ logs'[i] = logs[i])
    BY <2>1, <2>5 DEF Noted, Logged
  <2> QED BY <2>2, <2>4, <2>5 DEF LogInv
<1>7. CASE RecovererAborts
  <2>1. PICK a \in Record : a.kind = "panic" /\ Noted(logs, logs', TRUE, a, FALSE, a)
    BY <1>7, AbortsFacts DEF LogsAbort
  <2>2. ASSUME NEW i \in Logged("request")'
        PROVE  i \in Logged("request") /\ logs'[i] = logs[i]
    BY <2>1, <2>2 DEF Noted, Logged
  <2>3. mode' = "abort" /\ wire' = wire
    BY <1>7, AbortsFacts
  <2> QED BY <2>2, <2>3 DEF LogInv
<1>8. CASE RecovererAnswers
  <2>0. LogsPanic
    BY <1>8, AnswersFacts
  <2>1. PICK a \in Record, b \in Record, y \in BOOLEAN :
          /\ a.kind = "panic" /\ b.kind = "writeFailed"
          /\ Noted(logs, logs', TRUE, a, y, b)
    BY <2>0 DEF LogsPanic
  <2>2. ASSUME NEW i \in Logged("request")'
        PROVE  i \in Logged("request") /\ logs'[i] = logs[i]
    BY <2>1, <2>2 DEF Noted, Logged
  <2>3. /\ mode = "panic" /\ mode' = "return" /\ wire.status = 0
        /\ Headed(wire, wire', 500)
    BY <1>8, AnswersFacts DEF AgreeInv
  <2>4. /\ wire'.hijacked = wire.hijacked
        /\ wire'.status = IF ~wire.hijacked THEN 500 ELSE 0
    BY <2>3 DEF Headed, Valid, Final
  <2> QED BY <2>2, <2>3, <2>4 DEF LogInv
<1>9. CASE FinishRequest \/ CutConnection
  <2>1. /\ mode' \in {"complete", "cut"} /\ logs' = logs
        /\ \/ mode = "return" /\ wire'.status = IF wire.status = 0 /\ ~wire.hijacked
                                                THEN 200 ELSE wire.status
           \/ wire' = wire
    BY <1>9, FinishFacts
  <2>2. ASSUME NEW i \in Logged("request")'
        PROVE  i \in Logged("request") /\ logs'[i] = logs[i]
    BY <2>1, <2>2 DEF Logged
  <2> QED BY <2>1, <2>2 DEF LogInv
<1> QED
  BY <1>2, <1>3, <1>4, <1>5, <1>6, <1>7, <1>8, <1>9, NextCases

\* A panic or an error is answered unless the response had begun.
LEMMA AnswerKept ==
  ASSUME Orderly, StackInv, WireInv, EndInv, AgreeInv, AnswerInv, [Next]_vars
  PROVE  AnswerInv'
<1>0. /\ Recoverers \subseteq 1 .. Len(chain) /\ Len(chain) \in Nat /\ Depth \in Nat
      /\ \A i \in Recoverers : chain[i] = "recoverer"
  BY StackFacts DEF Recoverers, Depth
<1>1. CASE UNCHANGED vars
  BY <1>1 DEF vars, AnswerInv, Recoverers, Depth
<1>2. CASE Enter \/ Use
  <2>1. outcome'.kind = "running"
    BY <1>2, EnterFacts, UseFacts DEF EndInv, Unended
  <2> QED BY <2>1 DEF AnswerInv
<1>3. ASSUME StackInv', Len(held') = Len(held) - 1, chain' = chain
      PROVE  Recoverers' = Recoverers /\ Depth' = Depth - 1
  BY <1>3 DEF Recoverers, Depth
<1>4. CASE End
  <2>1. outcome'.kind # "error" /\ (outcome'.kind = "panic" => mode' = "panic")
    BY <1>4, EndFacts
  <2>2. Recoverers' = Recoverers /\ Depth' = Len(chain)
    <3>1. mode = "handler" /\ chain' = chain
      BY <1>4, EndFacts
    <3>2. Depth = Len(chain) + 1
      BY <3>1 DEF StackInv
    <3>3. Len(held') = Len(held) - 1
      <4>1. PICK ws : Shaped(writers, ws) /\ Left(ws)
        BY <1>4, EndFacts
      <4> QED BY <1>4, <4>1, EndFacts, LeftKeepsStack
    <3>4. StackInv'
      BY <1>4, EndKeeps
    <3> QED BY <1>0, <1>3, <3>1, <3>2, <3>3, <3>4
  <2> QED BY <1>0, <2>1, <2>2 DEF AnswerInv
<1>5. ASSUME NEW err \in Errors, HandlerReturnsError(err) PROVE AnswerInv'
  <2>1. /\ outcome'.kind = "error" /\ outcome'.err = err
        /\ outcome'.clean = (wire.status = 0)
        /\ mode = "handler" /\ adapted /\ Depth > 0
    BY <1>5, ErrorFacts
  <2>2. CASE ErrorAfterCommit(err)
    <3>1. Top(writers).committed /\ wire' = wire
      BY <1>5, <2>2, AfterCommitFacts
    <3>2. wire.status # 0 \/ wire.hijacked
      BY <2>1, <3>1, TopAgrees
    <3> QED BY <2>1, <3>1, <3>2 DEF AnswerInv
  <2>3. CASE ErrorWritten(err)
    <3> DEFINE code == Answer(err, BuiltInDetail \cup Details).status
    <3>1. code \in 400 .. 599 /\ code = ProblemOf(err).status
      BY AnswerIsProblem, ResponseAssumption
    <3>2. mode' = "return" /\ Headed(wire, wire', code)
      BY <1>5, <2>3, WrittenFacts
    <3> HIDE DEF code
    <3>3. /\ wire'.hijacked = wire.hijacked
          /\ wire.status = 0 /\ ~wire.hijacked => wire'.status = code
      <4>1. ASSUME NEW c \in 400 .. 599 PROVE Valid(c) /\ Final(c)
        BY DEF Valid, Final
      <4>2. Valid(code) /\ Final(code)
        BY <3>1, <4>1
      <4> QED BY <3>2, <4>2 DEF Headed
    <3> QED BY <2>1, <3>1, <3>2, <3>3 DEF AnswerInv
  <2>4. CASE ErrorTextPanics(err)
    BY <2>1, <2>4, TextPanicsFacts DEF AnswerInv
  <2> QED BY <1>5, <2>2, <2>3, <2>4, ErrorFacts
<1>6. CASE Pass \/ LoggerLogs
  <2>1. UNCHANGED <<chain, mode, wire, outcome>> /\ Depth > 0
        /\ (Layer = "recoverer" => mode # "panic")
    BY <1>6, PassFacts, LoggerFacts
  <2>2. Recoverers' = Recoverers /\ Depth' = Depth - 1
    BY <1>3, <1>6, <2>1, LeaveKeeps
  <2>3. mode = "panic" /\ Recoverers \subseteq 1 .. Depth => Recoverers \subseteq 1 .. Depth - 1
    <3>1. mode = "panic" => Depth \notin Recoverers
      BY <1>0, <2>1 DEF Layer
    <3> QED BY <1>0, <3>1
  <2> QED BY <2>1, <2>2, <2>3 DEF AnswerInv
<1>7. CASE RecovererAborts
  <2>1. /\ mode = "panic" /\ mode' = "abort" /\ UNCHANGED <<chain, wire, outcome>>
        /\ Depth > 0 /\ Layer = "recoverer" /\ Top(writers).committed
    BY <1>7, AbortsFacts
  <2>2. wire.status # 0 \/ wire.hijacked
    BY <2>1, TopAgrees
  <2>3. outcome.kind = "panic" => outcome.clean = (wire.status = 0)
    BY <2>1 DEF EndInv
  <2> QED BY <2>1, <2>2, <2>3 DEF AnswerInv
<1>8. CASE RecovererAnswers
  <2>1. /\ mode = "panic" /\ mode' = "return" /\ outcome' = outcome
        /\ Headed(wire, wire', 500)
    BY <1>8, AnswersFacts
  <2>2. wire'.hijacked = wire.hijacked
    BY <2>1 DEF Headed
  <2> QED BY <2>1, <2>2 DEF AnswerInv
<1>9. CASE FinishRequest \/ CutConnection
  <2>1. /\ Depth = 0 /\ UNCHANGED <<chain, outcome>> /\ wire'.hijacked = wire.hijacked
        /\ \/ mode = "return" /\ mode' = "complete"
           \/ mode \in {"panic", "abort"} /\ mode' = "cut" /\ wire' = wire
        /\ mode' = "complete" =>
             /\ wire.status # 0 => wire'.status = wire.status
             /\ ~wire.hijacked => wire'.sent
    BY <1>9, FinishFacts DEF AgreeInv
  <2>2. Recoverers' = Recoverers /\ (Recoverers \subseteq 1 .. Depth => Recoverers = {})
    BY <2>1 DEF Recoverers
  <2>3. ASSUME NEW err \in Errors PROVE ProblemOf(err).status # 0
    <3>1. ProblemOf(err) \in Reported
      BY <2>3, ProblemIsReported, ResponseAssumption
    <3>2. ProblemOf(err).status \in 400 .. 599
      BY <3>1 DEF Reported
    <3> QED BY <3>2
  <2>4. outcome.kind = "error" => outcome.err \in Errors
    BY DEF EndInv
  <2>5. ASSUME outcome.kind = "panic", outcome.clean, ~wire.hijacked, mode' = "cut"
        PROVE  Recoverers = {}
    BY <2>1, <2>2, <2>5 DEF AnswerInv
  <2>6. ASSUME outcome.kind = "error", outcome.clean, ~wire.hijacked,
               outcome.err.form # "nil"
        PROVE  mode' = "complete" /\ wire'.status = ProblemOf(outcome.err).status
               /\ wire'.sent
    BY <2>1, <2>3, <2>4, <2>6 DEF AnswerInv
  <2> QED BY <2>1, <2>2, <2>5, <2>6 DEF AnswerInv
<1> QED
  BY <1>1, <1>2, <1>4, <1>5, <1>6, <1>7, <1>8, <1>9, NextCases

\* Under orderly use both invariants hold throughout.
LEMMA OrderlyInvariance ==
  ASSUME Orderly
  PROVE  Spec => [](IInv /\ OInv)
<1>1. ASSUME Init PROVE OInv
  <2>1. /\ writers = <<>> /\ outcome = Unended /\ logs = <<>>
        /\ wire = [status |-> 0, sent |-> FALSE, broken |-> FALSE, stuck |-> FALSE,
                hijacked |-> FALSE]
    BY <1>1 DEF Init
  <2>2. AgreeInv
    BY <2>1 DEF AgreeInv, Agrees
  <2>3. LogInv /\ AnswerInv
    BY <2>1 DEF LogInv, AnswerInv, Logged, Unended
  <2> QED BY <2>2, <2>3 DEF OInv
<1>2. ASSUME IInv, OInv, [Next]_vars PROVE OInv'
  BY <1>2, AgreeKept, LogKept, AnswerKept DEF IInv, OInv
<1> QED BY <1>1, <1>2, Initially, Kept, PTL DEF Spec

\* With orderly handlers, Handle, Recoverer and RequestLogger decide on what
\* net/http has done, in a chain of any length.
THEOREM RecordersMatch ==
  ASSUME Orderly
  PROVE  Spec => []RecorderMatchesWire
<1>1. ASSUME IInv, OInv PROVE RecorderMatchesWire
  <2>1. \A i \in DOMAIN writers : writers[i].committed \in BOOLEAN
    <3>1. \A i \in DOMAIN writers : writers[i] \in Writer
      BY <1>1 DEF IInv, StackInv
    <3> QED BY <3>1 DEF Writer
  <2> QED BY <1>1, <2>1 DEF OInv, AgreeInv, Agrees, RecorderMatchesWire
<1> QED BY <1>1, OrderlyInvariance, PTL

\* With orderly handlers, a RequestLogger anywhere in the chain, and each of
\* several, logs the status of the response the client gets.
THEOREM LogIsClient ==
  ASSUME Orderly
  PROVE  Spec => []LogMatchesClient
<1>1. ASSUME OInv PROVE LogMatchesClient
  BY <1>1 DEF OInv, LogInv, LogMatchesClient, Client
<1> QED BY <1>1, OrderlyInvariance, PTL

\* With orderly handlers, one Recoverer anywhere in the chain turns a panic
\* over nothing committed into a 500 that reaches the client.
THEOREM PanicIsAnswered ==
  ASSUME Orderly
  PROVE  Spec => []PanicAnswered
<1>1. ASSUME IInv, OInv PROVE PanicAnswered
  <2> SUFFICES ASSUME Done, outcome.kind = "panic", outcome.clean, ~wire.hijacked,
                      \E i \in DOMAIN chain : chain[i] = "recoverer"
               PROVE  Client = 500
    BY DEF PanicAnswered
  <2>1. Recoverers # {} /\ ~wire.broken
    BY <1>1 DEF Recoverers, OInv, AgreeInv
  <2>2. mode = "complete"
    BY <1>1, <2>1 DEF OInv, AnswerInv, Done
  <2> QED BY <1>1, <2>1, <2>2 DEF IInv, PanicInv, Client
<1> QED BY <1>1, OrderlyInvariance, PTL

\* With orderly handlers, none of which returns a nil *Problem, the client
\* gets the status that the error's own kind, the Problem it is, or the first
\* matcher to claim it says, whatever the other matchers would.
THEOREM ErrorIsAnswered ==
  ASSUME Orderly, \A err \in Errors : err.form # "nil"
  PROVE  Spec => []ErrorAnswered
<1>1. ASSUME IInv, OInv PROVE ErrorAnswered
  <2> DEFINE err == outcome.err
             claimed == {i \in DOMAIN err.claims : err.claims[i].ok}
  <2> SUFFICES ASSUME Done, outcome.kind = "error", outcome.clean, ~wire.hijacked
               PROVE  \/ err.own # None /\ Client = status(err.own)
                      \/ /\ err.own = None
                         /\ err.form = "problem"
                         /\ Client \in {err.problem.status, 500}
                         /\ Client = 500 => err.problem.status \in {0, 500}
                      \/ /\ err.own = None
                         /\ err.form # "problem"
                         /\ claimed = {} /\ Client = 500
                      \/ /\ err.own = None
                         /\ err.form # "problem"
                         /\ \E i \in claimed :
                              /\ \A j \in claimed : i <= j
                              /\ Client = withStatus(err.claims[i].problem).status
    BY DEF ErrorAnswered
  <2>1. err \in Errors /\ err.form # "nil" /\ err \in ErrorType
    BY <1>1, ResponseAssumption DEF IInv, EndInv
  <2>2. Client = ProblemOf(err).status
    BY <1>1, <2>1 DEF OInv, AnswerInv, Client, Done
  <2>3. claimed = Claiming(err)
    BY DEF Claiming
  <2> HIDE DEF err, claimed
  <2>4. CASE err.own # None
    <3>1. ProblemOf(err) = Problem(status(err.own))
      BY <2>4 DEF ProblemOf, Whole
    <3>2. \A code : Problem(code).status = code
      BY DEF Problem
    <3> QED BY <2>2, <2>4, <3>1, <3>2
  <2>5. CASE err.own = None /\ err.form = "problem"
    <3>1. ProblemOf(err) = withStatus(err.problem)
      BY <2>5 DEF ProblemOf, Whole
    <3>2. err.problem \in ProblemType
      BY <2>1 DEF ErrorType
    <3>3. withStatus(err.problem).status = IF err.problem.status = 0 THEN 500
                                           ELSE err.problem.status
      BY <3>2, StatusIsGiven
    <3> QED BY <2>2, <2>5, <3>1, <3>3
  <2>6. CASE err.own = None /\ err.form # "problem" /\ Claiming(err) = {}
    <3>1. ProblemOf(err).status = 500
      BY <2>1, <2>6, ProblemIsReported DEF Whole
    <3> QED BY <2>2, <2>3, <2>6, <3>1
  <2>7. CASE err.own = None /\ err.form # "problem" /\ Claiming(err) # {}
    <3>1. ProblemOf(err) = withStatus(FirstClaim(err).problem)
      BY <2>7 DEF ProblemOf, Whole
    <3>2. PICK i \in Claiming(err) : /\ \A j \in Claiming(err) : i <= j
                                     /\ FirstClaim(err) = err.claims[i]
      BY <2>1, <2>7, FirstIsFirst
    <3>3. Client = withStatus(err.claims[i].problem).status
      BY <2>2, <3>1, <3>2
    <3> QED BY <2>3, <2>7, <3>2, <3>3
  <2> QED BY <2>4, <2>5, <2>6, <2>7
<1> QED BY <1>1, OrderlyInvariance, PTL

-----------------------------------------------------------------------------
(***************************************************************************)
(* The reply the client is promised                                        *)
(***************************************************************************)

Unbroken == ~wire.broken

\* Where no flush breaks the connection, nothing does.
LEMMA StaysUnbroken ==
  ASSUME Unbreaking, IInv, Unbroken, [Next]_vars
  PROVE  Unbroken'
<1> USE DEF Unbroken
<1>1. StackInv /\ WireInv /\ EndInv
  BY DEF IInv
<1>2. CASE UNCHANGED vars
  BY <1>2 DEF vars
<1>3. CASE Enter \/ End \/ Pass \/ LoggerLogs \/ RecovererAborts
  <2>1. wire' = wire
    BY <1>1, <1>3, EnterFacts, EndFacts, PassFacts, LoggerFacts, AbortsFacts
  <2> QED BY <2>1
<1>4. CASE Use
  BY <1>1, <1>4, UseOnWire
<1>5. ASSUME NEW err \in Errors, HandlerReturnsError(err) PROVE ~wire'.broken
  <2>1. CASE ErrorAfterCommit(err)
    BY <1>1, <1>5, <2>1, AfterCommitFacts
  <2>2. CASE ErrorWritten(err)
    <3>1. Headed(wire, wire', Answer(err, BuiltInDetail \cup Details).status)
      BY <1>1, <1>5, <2>2, WrittenFacts
    <3> QED BY <3>1 DEF Headed
  <2>3. CASE ErrorTextPanics(err)
    BY <2>3, TextPanicsFacts
  <2> QED BY <1>1, <1>5, <2>1, <2>2, <2>3, ErrorFacts
<1>6. CASE RecovererAnswers
  <2>1. Headed(wire, wire', 500)
    BY <1>1, <1>6, AnswersFacts
  <2> QED BY <2>1 DEF Headed
<1>7. CASE FinishRequest \/ CutConnection
  BY <1>1, <1>7, FinishFacts
<1> QED BY <1>2, <1>3, <1>4, <1>5, <1>6, <1>7, NextCases

\* The statuses of a failure.
Failing == 400 .. 599

\* Each step of a request is a step of the reply or changes nothing of it.
LEMMA StepOfReply ==
  ASSUME Unbreaking, IInv, IInv', Unbroken, [Next]_vars
  PROVE  [Promise!Next]_(Promise!vars)
<1>1. /\ StackInv /\ WireInv /\ EndInv /\ wire \in Wire /\ wire' \in Wire
      /\ ~wire.broken
  BY DEF IInv, WireInv, Unbroken
<1>2. wire.status \in Statuses /\ wire'.status \in Statuses
      /\ wire.sent \in BOOLEAN /\ wire'.sent \in BOOLEAN
      /\ wire.hijacked \in BOOLEAN /\ wire'.hijacked \in BOOLEAN
      /\ (wire.sent => wire.status # 0) /\ (wire'.sent => wire'.status # 0)
  BY <1>1 DEF Wire, WireInv, IInv
<1>3. ASSUME wire' = wire, answers' = answers, ~Done, ~Done'
      PROVE  UNCHANGED Promise!vars
  BY <1>3 DEF Promise!vars
<1>4. ASSUME NEW code \in Failing, ~Done, ~Done', wire.status = 0,
             answers = <<>>, Len(answers') = 1, Headed(wire, wire', code)
      PROVE  Promise!Report
  <2>1. Valid(code) /\ Final(code)
    BY DEF Failing, Valid, Final
  <2>2. /\ wire'.sent = wire.sent /\ wire'.hijacked = wire.hijacked
        /\ wire'.status = IF ~wire.hijacked THEN code ELSE 0
    BY <1>4, <2>1 DEF Headed
  <2>3. Len(answers) = 0 /\ Len(answers') = 1
    BY <1>4
  <2>4. wire'.status \in IF wire.hijacked THEN {0} ELSE 400 .. 599
    BY <2>2 DEF Failing
  <2>5. (IF Done THEN mode ELSE "open") = "open" /\ (IF Done' THEN mode' ELSE "open") = "open"
    BY <1>4
  <2> QED BY <1>4, <2>2, <2>3, <2>4, <2>5 DEF Promise!Report
<1>5. CASE UNCHANGED vars
  BY <1>5 DEF vars, Promise!vars, Done
<1>6. CASE Enter \/ End \/ Pass \/ LoggerLogs \/ RecovererAborts
  <2>1. wire' = wire /\ answers' = answers
    BY <1>1, <1>6, EnterFacts, EndFacts, PassFacts, LoggerFacts, AbortsFacts
  <2>2. ~Done /\ ~Done'
    BY <1>1, <1>6, EnterFacts, EndFacts, PassFacts, LoggerFacts, AbortsFacts DEF Done
  <2> QED BY <1>3, <2>1, <2>2
<1>7. CASE Use
  <2>1. /\ ~Done /\ ~Done' /\ ~wire.hijacked /\ answers' = answers
        /\ wire.status # 0 => wire'.status = wire.status
        /\ wire.sent => wire'.sent
        /\ wire'.hijacked => wire'.status = wire.status /\ wire'.sent = wire.sent
    BY <1>1, <1>7, UseFacts, UseOnWire DEF Done
  <2>2. CASE wire'.hijacked
    BY <2>1, <2>2 DEF Promise!Next, Promise!Take
  <2>3. CASE ~wire'.hijacked /\ wire.status = 0 /\ wire'.status # 0
    <3>1. wire'.status \in 101 .. 999
      BY <1>2, <2>3 DEF Statuses
    <3> QED BY <1>2, <2>1, <2>3, <3>1 DEF Promise!Next, Promise!Choose
  <2>4. CASE ~wire'.hijacked /\ wire'.status = wire.status
    BY <1>2, <2>1, <2>4 DEF Promise!Next, Promise!Send, Promise!vars
  <2> QED BY <1>2, <2>1, <2>2, <2>3, <2>4
<1>8. ASSUME NEW err \in Errors, HandlerReturnsError(err)
      PROVE  [Promise!Next]_(Promise!vars)
  <2>1. mode = "handler" /\ adapted /\ Depth > 0 /\ answers = <<>> /\ ~Done
    BY <1>1, <1>8, ErrorFacts DEF Done
  <2>2. CASE ErrorAfterCommit(err)
    <3>1. wire' = wire /\ answers' = answers /\ ~Done'
      BY <1>1, <1>8, <2>2, AfterCommitFacts DEF Done
    <3> QED BY <1>3, <2>1, <3>1
  <2>3. CASE ErrorWritten(err)
    <3> DEFINE p == Answer(err, BuiltInDetail \cup Details)
               code == p.status
               a == [status |-> p.status, detail |-> p.detail, over |-> wire.status]
    <3>1. code \in Failing
      BY AnswerIsProblem, ResponseAssumption DEF Failing
    <3>2. /\ Headed(wire, wire', code) /\ answers' = Append(answers, a)
          /\ ~Top(writers).committed /\ mode' = "return"
      BY <1>1, <1>8, <2>3, WrittenFacts
    <3> HIDE DEF code, a
    <3>3. wire.status = 0 /\ ~Done'
      BY <1>1, <2>1, <3>2, TopIsRecorder DEF Done
    <3>4. Promise!Report
      <4>1. Len(answers') = 1
        BY <2>1, <3>2
      <4> QED BY <1>4, <2>1, <3>1, <3>2, <3>3, <4>1
    <3> QED BY <3>4 DEF Promise!Next
  <2>4. CASE ErrorTextPanics(err)
    <3>1. wire' = wire /\ answers' = answers /\ ~Done'
      BY <2>4, TextPanicsFacts DEF Done
    <3> QED BY <1>3, <2>1, <3>1
  <2> QED BY <1>1, <1>8, <2>2, <2>3, <2>4, ErrorFacts
<1>9. CASE RecovererAnswers
  <2>1. /\ mode = "panic" /\ mode' = "return" /\ wire.status = 0
        /\ Headed(wire, wire', 500) /\ answers = <<>>
    BY <1>1, <1>9, AnswersFacts DEF EndInv
  <2>2. Len(answers') = 1
    BY <2>1, <1>9 DEF RecovererAnswers, Answered
  <2>3. 500 \in Failing
    BY DEF Failing
  <2> QED BY <1>4, <2>1, <2>2, <2>3 DEF Promise!Next, Done
<1>10. CASE FinishRequest \/ CutConnection
  <2>1. /\ answers' = answers /\ wire'.hijacked = wire.hijacked
        /\ \/ mode = "return" /\ mode' = "complete"
           \/ mode \in {"panic", "abort"} /\ mode' = "cut" /\ wire' = wire
        /\ mode' = "complete" =>
             /\ wire'.status = IF wire.status = 0 /\ ~wire.hijacked THEN 200 ELSE wire.status
             /\ ~wire.hijacked => wire'.sent
    BY <1>1, <1>10, FinishFacts
  <2>2. CASE mode' = "cut"
    BY <2>1, <2>2 DEF Promise!Next, Promise!Cut, Done
  <2>3. CASE mode' = "complete"
    <3>1. wire.hijacked => wire'.sent = wire.sent
      <4>1. FinishRequest
        BY <1>10, <2>3 DEF CutConnection
      <4>2. wire.hijacked => wire' = HttpWriteHeader(wire, 200)
        BY <4>1 DEF FinishRequest
      <4>3. Headed(wire, HttpWriteHeader(wire, 200), 200)
        BY <1>1, HeaderSets
      <4> QED BY <4>2, <4>3 DEF Headed
    <3> QED BY <1>2, <2>1, <2>3, <3>1 DEF Promise!Next, Promise!Complete, Done
  <2> QED BY <2>1, <2>2, <2>3
<1> QED BY <1>5, <1>6, <1>7, <1>8, <1>9, <1>10, NextCases DEF Promise!Next

\* Where no flush breaks the connection, every request, through a chain of
\* any length, is one of the replies that Reply allows: at most one status is
\* chosen and at most one problem written, over nothing and before the end.
THEOREM RepliesAsPromised ==
  ASSUME Unbreaking
  PROVE  Spec => ImplementsReply
<1>1. ASSUME Init PROVE Promise!Init /\ Unbroken
  BY <1>1 DEF Init, Promise!Init, Done, Unbroken
<1>2. ASSUME IInv, Unbroken, [Next]_vars
      PROVE  Unbroken' /\ [Promise!Next]_(Promise!vars)
  BY <1>2, Kept, StaysUnbroken, StepOfReply
<1> QED BY <1>1, <1>2, Invariance, PTL DEF Spec, ImplementsReply, Promise!Spec
=============================================================================
