--------------------------- MODULE TransferProofs ---------------------------
(***************************************************************************)
(* Proofs about Transfer for every Config that can be merged and           *)
(* finalized, every limit, size and rate, and every length of time a       *)
(* request takes.  The invariant says what a Transfer built from a Config  *)
(* owes its timeouts, and how late net/http's own deadlines can be when a  *)
(* handler widens them.  A second one says which layer a field is from, a  *)
(* third what a body that moves, and then its answer, is still owed.       *)
(***************************************************************************)
EXTENDS Transfer, TLAPS

ConfigValue == [Fields -> Int \cup {Unset}]

\* A Config's Transfer leaves the disabled deadlines alone, and its grace is
\* no shorter than either timeout.
WiringInv ==
  /\ made # "none" <=> stage = "serving"
  /\ phase # "none" <=> stage = "serving"
  /\ made = "config" =>
       /\ tr.read <=> cfg["readTimeout"] > 0
       /\ tr.write <=> cfg["writeTimeout"] > 0
       /\ tr.grace >= cfg["readTimeout"]
       /\ tr.grace >= cfg["writeTimeout"]
  /\ stage # "serving" => writeBy = Never

\* A timeout d has set the deadline, which is at most d ticks away.
Within(by, d) == IF d <= 0 THEN by = Never ELSE by # Never /\ by <= d

\* Before it widens them, a handler's deadlines are the server's.
HandlerInv ==
  made = "config" /\ phase = "handler" =>
    Within(readBy, cfg["readTimeout"]) /\ Within(writeBy, cfg["writeTimeout"])

IInv == TypeOK /\ WiringInv /\ DisabledStaysDisabled /\ HandlerInv

-----------------------------------------------------------------------------
\* Merging and finalizing give a Config whose fields are numbers or unset.
LEMMA ConfigTyped ==
  ASSUME cfg \in ConfigValue
  PROVE  /\ \A src \in Layers : Merge(cfg, src) \in ConfigValue
         /\ \A e \in Envs : Finalize(cfg, e).cfg \in ConfigValue
<1>1. ASSUME NEW src \in Layers PROVE Merge(cfg, src) \in ConfigValue
  BY TransferAssumption DEF Merge, ConfigValue
<1>2. ASSUME NEW e \in Envs PROVE Finalize(cfg, e).cfg \in ConfigValue
  <2>1. applyDefaults(cfg) \in ConfigValue
    BY ConfigAssumption DEF applyDefaults, ConfigValue
  <2>2. \A f \in EnvRead(e) : e[f] # Malformed
    BY DEF EnvRead, EnvOrder
  <2>3. EnvRead(e) \subseteq Defaulted
    BY DEF EnvRead, EnvOrder, Defaulted, Timeouts
  <2>4. e \in [Defaulted -> Int \cup {Unset, Malformed}]
    BY TransferAssumption
  <2>5. \A f \in EnvRead(e) : e[f] \in Int \cup {Unset}
    BY <2>2, <2>3, <2>4
  <2>6. applyEnv(applyDefaults(cfg), e) \in ConfigValue
    BY <2>1, <2>5 DEF applyEnv, ConfigValue
  <2> QED BY <2>6 DEF Finalize
<1> QED BY <1>1, <1>2

\* A Config that NewServer and Transfer take has numbers for its timeouts.
LEMMA FinalizedIsNumeric ==
  ASSUME cfg \in ConfigValue, finalized(cfg)
  PROVE  \A f \in Timeouts \cup {"transferRate"} : cfg[f] \in Int
  BY DEF finalized, ConfigValue, Fields, Defaulted, Timeouts

\* The time allowed is at least the grace, unless it is no limit at all.
LEMMA DurationAllowsGrace ==
  ASSUME NEW t \in [limit : Nat, rate : Nat, grace : Nat, read : BOOLEAN, write : BOOLEAN],
         t.rate # 0, NEW n \in Int
  PROVE  /\ Duration(t, n) \in Nat
         /\ Duration(t, n) # MaxDuration => Duration(t, n) >= t.grace
<1> DEFINE counted == IF n < 0 \/ n > t.limit THEN t.limit ELSE n
           time    == (counted * Second) \div t.rate
<1>1. counted \in Nat /\ t.rate \in Nat \ {0} /\ t.grace \in Nat
  OBVIOUS
<1>2. counted * Second \in Nat
  <2> HIDE DEF counted
  <2> QED BY <1>1, TransferAssumption
<1>3. time \in Nat
  <2> DEFINE product == counted * Second
  <2> HIDE DEF product, counted
  <2>1. product \div t.rate \in Nat
    BY <1>1, <1>2 DEF product
  <2> QED BY <2>1 DEF product
<1>4. Duration(t, n) = IF t.grace + time >= MaxDuration THEN MaxDuration
                       ELSE t.grace + time
  BY DEF Duration
<1> HIDE DEF time, counted
<1> QED BY <1>1, <1>3, <1>4, TransferAssumption

\* What the deadlines are widened to is a deadline, or none.
LEMMA WidenedTyped ==
  ASSUME TypeOK, tr.rate # 0
  PROVE  /\ deadline(Duration(tr, size)) \in Nat \cup {Never}
         /\ UploadReadBy(tr, size) \in Nat \cup {Never}
         /\ UploadWriteBy(tr, size) \in Nat \cup {Never}
         /\ UploadReadBy(tr, size) # Never => UploadReadBy(tr, size) >= tr.grace
         /\ UploadWriteBy(tr, size) # Never => UploadWriteBy(tr, size) >= tr.grace
<1>1. tr.grace \in Nat /\ size \in Int
  BY DEF TypeOK
<1> DEFINE d == Duration(tr, size)
<1>2. d \in Nat /\ (d # MaxDuration => d >= tr.grace)
  BY <1>1, DurationAllowsGrace DEF TypeOK
<1> HIDE DEF d
<1>3. /\ deadline(d) \in Nat \cup {Never}
      /\ deadline(d) # Never => deadline(d) >= tr.grace
  BY <1>2 DEF deadline, Never
<1>4. UploadReadBy(tr, size) = deadline(d)
  BY DEF UploadReadBy, d
<1>5. /\ UploadWriteBy(tr, size) \in Nat \cup {Never}
      /\ UploadWriteBy(tr, size) # Never => UploadWriteBy(tr, size) >= tr.grace
  BY <1>1, <1>3, <1>4 DEF UploadWriteBy, Never
<1> QED BY <1>3, <1>4, <1>5 DEF d

-----------------------------------------------------------------------------
\* Nothing has been built and no deadline set.
LEMMA InitIInv == Init => IInv
<1> SUFFICES ASSUME Init PROVE IInv
  OBVIOUS
<1>1. cfg \in ConfigValue
  BY DEF Init, NewConfig, ConfigValue
<1>2. tr \in [limit : Nat, rate : Nat, grace : Nat, read : BOOLEAN, write : BOOLEAN]
  BY DEF Init, ZeroTransfer
<1>3. stage = "merging" /\ phase = "none"
  BY DEF Init
<1>4. readBy \in DeadlineValue /\ writeBy \in DeadlineValue
  BY DEF Init, DeadlineValue
<1>5. slow \in BOOLEAN /\ heard \in BOOLEAN
  BY DEF Init
<1>6. size \in Int /\ body \in Nat /\ elapsed \in Nat
  BY DEF Init
<1>7. /\ made \in {"none", "config", "direct"}
      /\ kind \in {"none", "upload", "download"}
      /\ lost \in {"nothing", "body", "answer"}
  BY DEF Init
<1>8. TypeOK
  BY <1>1, <1>2, <1>3, <1>4, <1>5, <1>6, <1>7 DEF TypeOK, ConfigValue
<1> QED
  BY <1>8 DEF Init, IInv, WiringInv, HandlerInv, DisabledStaysDisabled

\* Merging and finalizing touch no Transfer and no connection.
LEMMA MergingStep ==
  ASSUME IInv,
         (\E src \in Layers : MergeLayer(src)) \/ (\E e \in Envs : FinalizeConfig(e))
  PROVE  IInv'
<1> USE DEF requestVars, deadlineVars
<1>1. cfg \in ConfigValue
  BY DEF IInv, TypeOK, ConfigValue
<1>2. cfg' \in ConfigValue
  BY <1>1, ConfigTyped DEF MergeLayer, FinalizeConfig
<1>3. /\ UNCHANGED <<tr, made, phase, readBy, writeBy, kind, size, body, elapsed,
                     slow, heard, lost>>
      /\ stage = "merging"
      /\ stage' \in {"merging", "finalized", "rejected"}
  BY DEF MergeLayer, FinalizeConfig
<1>4. TypeOK'
  BY <1>2, <1>3 DEF IInv, TypeOK, ConfigValue, WiringInv
<1>5. made' # "config" /\ made' = "none" /\ phase' = "none" /\ writeBy' = Never
  BY <1>3 DEF IInv, WiringInv, TypeOK
<1> QED
  BY <1>3, <1>4, <1>5 DEF IInv, WiringInv, HandlerInv, DisabledStaysDisabled

TransferValue == [limit : Nat, rate : Nat, grace : Nat, read : BOOLEAN, write : BOOLEAN]

\* A deadline By sets is a number of ticks, or none.
LEMMA ByTyped == \A d \in Int : By(d) \in DeadlineValue
  BY DEF By, DeadlineValue, Never

\* Building the server and a Transfer, by either constructor, establishes
\* what the Transfer owes the Config.
LEMMA WireStep ==
  ASSUME IInv, NEW t \in TransferValue, NEW by \in {"config", "direct"}, Wire(t, by),
         by = "config" => /\ t.read <=> cfg["readTimeout"] > 0
                          /\ t.write <=> cfg["writeTimeout"] > 0
                          /\ t.grace >= cfg["readTimeout"]
                          /\ t.grace >= cfg["writeTimeout"]
  PROVE  IInv'
<1>1. /\ stage' = "serving" /\ stage # "serving"
      /\ tr' = t /\ made' = by /\ phase' = "head"
      /\ UNCHANGED <<cfg, kind, size, body, slow, heard, writeBy, elapsed, lost>>
      /\ finalized(cfg) /\ t.rate > 0
  BY DEF Wire, requestVars
<1>2. \A f \in Timeouts : cfg[f] \in Int
  BY <1>1, FinalizedIsNumeric DEF IInv, TypeOK, ConfigValue
<1>3. /\ cfg["readHeaderTimeout"] \in Int /\ cfg["readTimeout"] \in Int
      /\ cfg["writeTimeout"] \in Int
  BY <1>2 DEF Timeouts
<1>4. readBy' \in DeadlineValue
  BY <1>3, ByTyped DEF Wire
<1>5. writeBy' = Never /\ writeBy' \in DeadlineValue
  BY <1>1 DEF IInv, WiringInv, TypeOK
<1>6. finalized(cfg') /\ cfg' \in [Fields -> Int \cup {Unset}]
  BY <1>1 DEF IInv, TypeOK
<1>7. tr' \in TransferValue /\ tr'.rate # 0
  BY <1>1 DEF TransferValue
<1>8. TypeOK'
  <2>1. /\ kind' \in {"none", "upload", "download"} /\ size' \in Int
        /\ body' \in Nat /\ elapsed' \in Nat
        /\ slow' \in BOOLEAN /\ heard' \in BOOLEAN
        /\ lost' \in {"nothing", "body", "answer"}
    BY <1>1 DEF IInv, TypeOK
  <2> QED
    BY <1>1, <1>4, <1>5, <1>6, <1>7, <2>1 DEF TypeOK, TransferValue
<1> QED
  BY <1>1, <1>5, <1>8 DEF IInv, WiringInv, HandlerInv, DisabledStaysDisabled

\* Either constructor's Transfer is one.
LEMMA WiringStep ==
  ASSUME IInv,
         \/ \E limit \in Limits : WireConfig(limit)
         \/ \E limit \in Limits, d \in Direct : WireDirect(limit, d)
  PROVE  IInv'
<1>1. ASSUME NEW limit \in Limits, WireConfig(limit) PROVE IInv'
  <2>1. finalized(cfg) /\ ConfigTransfer(cfg, limit).grace >= 0
    BY <1>1 DEF WireConfig, Wire
  <2>2. \A f \in Timeouts \cup {"transferRate"} : cfg[f] \in Int
    BY <2>1, FinalizedIsNumeric DEF IInv, TypeOK, ConfigValue
  <2>3. /\ cfg["readTimeout"] \in Int /\ cfg["writeTimeout"] \in Int
        /\ cfg["transferRate"] \in Int
    BY <2>2 DEF Timeouts
  <2>4. limit \in Nat /\ cfg["transferRate"] > 0
    BY <1>1, TransferAssumption DEF WireConfig, Wire, ConfigTransfer
  <2>5. ConfigTransfer(cfg, limit) \in TransferValue
    BY <2>1, <2>3, <2>4 DEF ConfigTransfer, Larger, TransferValue
  <2>6. /\ ConfigTransfer(cfg, limit).read = (cfg["readTimeout"] > 0)
        /\ ConfigTransfer(cfg, limit).write = (cfg["writeTimeout"] > 0)
    BY DEF ConfigTransfer
  <2>7. /\ ConfigTransfer(cfg, limit).grace >= cfg["readTimeout"]
        /\ ConfigTransfer(cfg, limit).grace >= cfg["writeTimeout"]
    BY <2>3 DEF ConfigTransfer, Larger
  <2>8. /\ ConfigTransfer(cfg, limit).read <=> cfg["readTimeout"] > 0
        /\ ConfigTransfer(cfg, limit).write <=> cfg["writeTimeout"] > 0
    BY <2>6, Zenon
  <2> QED BY <1>1, <2>5, <2>7, <2>8, WireStep DEF WireConfig
<1>2. ASSUME NEW limit \in Limits, NEW d \in Direct, WireDirect(limit, d) PROVE IInv'
  <2>1. NewTransfer(limit, d.rate, d.grace) \in TransferValue
    BY TransferAssumption DEF NewTransfer, TransferValue
  <2> QED BY <1>2, <2>1, WireStep DEF WireDirect
<1> QED BY <1>1, <1>2

-----------------------------------------------------------------------------
InHandler == {"handler", "moving", "answering"}

\* What a step of the connection or its handler must show of the deadlines.
DeadlinesKept(p, rb, wb) ==
  /\ rb \in DeadlineValue /\ wb \in DeadlineValue
  /\ made = "config" =>
       /\ cfg["writeTimeout"] <= 0 => wb = Never
       /\ cfg["readTimeout"] <= 0 /\ p \in InHandler => rb = Never
       /\ p = "handler" => Within(rb, cfg["readTimeout"]) /\ Within(wb, cfg["writeTimeout"])

RequestTyped(k, n, b, e, sl, h, lo) ==
  /\ k \in {"none", "upload", "download"} /\ n \in Int /\ b \in Nat /\ e \in Nat
  /\ sl \in BOOLEAN /\ h \in BOOLEAN
  /\ lo \in {"nothing", "body", "answer"}

Serving == {"idle", "head", "handler", "moving", "answering", "closed"}

\* It is enough, since the Config and the Transfer are never changed again.
LEMMA ServingStep ==
  ASSUME IInv, phase # "none", UNCHANGED wiringVars, phase' \in Serving,
         DeadlinesKept(phase', readBy', writeBy'),
         RequestTyped(kind', size', body', elapsed', slow', heard', lost')
  PROVE  IInv'
<1>1. UNCHANGED <<stage, cfg, tr, made>>
  BY DEF wiringVars
<1>2. stage = "serving" /\ phase' # "none"
  BY DEF IInv, WiringInv, Serving
<1>3. /\ stage' \in {"merging", "finalized", "rejected", "serving"}
      /\ cfg' \in [Fields -> Int \cup {Unset}]
      /\ finalized(cfg') /\ tr'.rate # 0 /\ tr' \in TransferValue
      /\ made' \in {"none", "config", "direct"}
  BY <1>1, <1>2 DEF IInv, TypeOK, TransferValue
<1>4. TypeOK'
  BY <1>1, <1>2, <1>3 DEF TypeOK, TransferValue, DeadlinesKept, RequestTyped, Serving
<1>5. WiringInv'
  BY <1>1, <1>2 DEF IInv, WiringInv
<1>6. DisabledStaysDisabled' /\ HandlerInv'
  BY <1>1 DEF DisabledStaysDisabled, HandlerInv, DeadlinesKept, InHandler
<1> QED BY <1>4, <1>5, <1>6 DEF IInv

\* A request that is not changed stays well typed.
LEMMA RequestKept ==
  ASSUME IInv
  PROVE  /\ RequestTyped(kind, size, body, elapsed, slow, heard, lost)
         /\ RequestTyped(kind, size, body, 0, slow, heard, lost)
         /\ DeadlinesKept(phase, readBy, writeBy)
<1>1. RequestTyped(kind, size, body, elapsed, slow, heard, lost)
  BY DEF IInv, TypeOK, RequestTyped
<1>2. DeadlinesKept(phase, readBy, writeBy)
  BY DEF IInv, TypeOK, DisabledStaysDisabled, HandlerInv, DeadlinesKept, InHandler
<1> QED BY <1>1, <1>2 DEF RequestTyped

\* The timeouts net/http reads from a server's Config are numbers.
LEMMA TimeoutsTyped ==
  ASSUME IInv, phase # "none"
  PROVE  /\ cfg["readTimeout"] \in Int /\ cfg["readHeaderTimeout"] \in Int
         /\ cfg["writeTimeout"] \in Int /\ cfg["idleTimeout"] \in Int
<1>1. finalized(cfg) /\ cfg \in ConfigValue
  BY DEF IInv, TypeOK, ConfigValue
<1>2. \A f \in Timeouts : cfg[f] \in Int
  BY <1>1, FinalizedIsNumeric
<1> QED BY <1>2 DEF Timeouts

\* A response that ends keeps the write deadline, and sets one for the wait.
LEMMA FinishKeeps ==
  ASSUME IInv, phase # "none", Finish
  PROVE  IInv'
<1>1. readBy' \in DeadlineValue
  BY TimeoutsTyped, ByTyped DEF Finish
<1>2. phase' = "idle" /\ UNCHANGED wiringVars /\ UNCHANGED writeBy
  BY DEF Finish, Turn
<1>3. RequestTyped(kind', size', body', elapsed', slow', heard', lost')
  BY RequestKept DEF Finish, Turn, requestVars
<1>4. DeadlinesKept(phase', readBy', writeBy')
  BY <1>1, <1>2, RequestKept DEF DeadlinesKept, InHandler
<1> QED BY <1>2, <1>3, <1>4, ServingStep DEF Serving

\* net/http sets its deadlines from the Config's timeouts, and time only
\* brings them nearer.
LEMMA ConnectionStep ==
  ASSUME IInv, Connection
  PROVE  IInv'
<1>1. CASE Arrive
  <2>1. readBy' \in DeadlineValue
    BY <1>1, TimeoutsTyped, ByTyped DEF Arrive
  <2>2. phase' = "head" /\ phase # "none" /\ UNCHANGED wiringVars /\ UNCHANGED writeBy
    BY <1>1 DEF Arrive, Turn
  <2>3. RequestTyped(kind', size', body', elapsed', slow', heard', lost')
    BY <1>1, RequestKept DEF Arrive, Turn, requestVars
  <2>4. DeadlinesKept(phase', readBy', writeBy')
    BY <2>1, <2>2, RequestKept DEF DeadlinesKept, InHandler
  <2> QED BY <2>2, <2>3, <2>4, ServingStep DEF Serving
<1>2. ASSUME NEW k \in {"upload", "download"}, NEW n \in Sizes, HeadRead(k, n)
      PROVE  IInv'
  <2>1. /\ phase = "head" /\ phase' = "handler" /\ UNCHANGED wiringVars
        /\ elapsed' = 0 /\ kind' = k /\ size' = n /\ body' = 0
        /\ slow' = FALSE /\ heard' = FALSE /\ UNCHANGED lost
    BY <1>2 DEF HeadRead, Turn
  <2>2. cfg["readTimeout"] \in Int /\ cfg["writeTimeout"] \in Int /\ elapsed \in Nat
    BY <2>1, TimeoutsTyped DEF IInv, TypeOK
  <2>3. /\ readBy' \in DeadlineValue
        /\ cfg["readTimeout"] <= 0 => readBy' = Never
        /\ Within(readBy', cfg["readTimeout"])
    BY <1>2, <2>2 DEF HeadRead, DeadlineValue, Within, Never, Past
  <2>4. /\ writeBy' \in DeadlineValue
        /\ made = "config" => /\ cfg["writeTimeout"] <= 0 => writeBy' = Never
                              /\ Within(writeBy', cfg["writeTimeout"])
    BY <1>2, <2>2, RequestKept DEF HeadRead, DeadlinesKept, DeadlineValue, Within, Never
  <2>5. RequestTyped(kind', size', body', elapsed', slow', heard', lost')
    BY <2>1, RequestKept, TransferAssumption DEF RequestTyped
  <2>6. DeadlinesKept(phase', readBy', writeBy')
    BY <2>1, <2>3, <2>4 DEF DeadlinesKept
  <2> QED BY <2>1, <2>5, <2>6, ServingStep DEF Serving
<1>3. CASE WaitTimesOut
  <2>1. phase' = "closed" /\ phase # "none" /\ UNCHANGED wiringVars
    BY <1>3 DEF WaitTimesOut, Turn
  <2>2. RequestTyped(kind', size', body', elapsed', slow', heard', lost')
    BY <1>3, RequestKept DEF WaitTimesOut, Turn, requestVars
  <2>3. DeadlinesKept(phase', readBy', writeBy')
    BY <1>3, <2>1, RequestKept DEF WaitTimesOut, deadlineVars, DeadlinesKept, InHandler
  <2> QED BY <2>1, <2>2, <2>3, ServingStep DEF Serving
<1>4. CASE Tick
  <2>1. phase \in Serving /\ UNCHANGED wiringVars /\ UNCHANGED phase
    BY <1>4 DEF Tick, Serving
  <2>2. \A b \in DeadlineValue :
          /\ NextTick(b) \in DeadlineValue
          /\ b = Never => NextTick(b) = Never
          /\ \A d : Within(b, d) /\ d \in Int => Within(NextTick(b), d)
    BY DEF NextTick, DeadlineValue, Within, Never, Past
  <2>3. readBy \in DeadlineValue /\ writeBy \in DeadlineValue
    BY DEF IInv, TypeOK
  <2>4. readBy' = NextTick(readBy) /\ writeBy' = NextTick(writeBy)
    BY <1>4 DEF Tick
  <2>5. DeadlinesKept(phase', readBy', writeBy')
    BY <2>1, <2>2, <2>3, <2>4, RequestKept, TimeoutsTyped DEF DeadlinesKept, Serving
  <2>6. elapsed' \in Nat
    BY <1>4 DEF Tick, IInv, TypeOK
  <2>7. slow' \in BOOLEAN
    BY <1>4 DEF Tick, IInv, TypeOK
  <2>8. RequestTyped(kind', size', body', elapsed', slow', heard', lost')
    BY <1>4, <2>6, <2>7, RequestKept DEF Tick, RequestTyped
  <2> QED BY <2>1, <2>5, <2>8, ServingStep DEF Serving
<1> QED BY <1>1, <1>2, <1>3, <1>4 DEF Connection

-----------------------------------------------------------------------------
\* What widening sets is a deadline, and never one the Config disables.
LEMMA WidenedKept ==
  ASSUME IInv, phase = "handler", NEW p \in Serving \ {"handler"},
         readBy'  \in {readBy} \cup (IF tr.read THEN {UploadReadBy(tr, size)} ELSE {}),
         writeBy' \in {writeBy} \cup (IF tr.write
                    THEN {UploadWriteBy(tr, size), deadline(Duration(tr, size))} ELSE {})
  PROVE  DeadlinesKept(p, readBy', writeBy')
<1>1. stage = "serving" /\ tr.rate # 0
  BY DEF IInv, WiringInv, TypeOK
<1>2. /\ deadline(Duration(tr, size)) \in DeadlineValue
      /\ UploadReadBy(tr, size) \in DeadlineValue
      /\ UploadWriteBy(tr, size) \in DeadlineValue
  BY <1>1, WidenedTyped DEF IInv, DeadlineValue
<1>3. readBy' \in DeadlineValue /\ writeBy' \in DeadlineValue
  BY <1>2 DEF IInv, TypeOK
<1>4. cfg["readTimeout"] \in Int /\ cfg["writeTimeout"] \in Int
  BY TimeoutsTyped
<1>5. made = "config" => /\ cfg["readTimeout"] <= 0 => readBy' = readBy
                         /\ cfg["writeTimeout"] <= 0 => writeBy' = writeBy
  BY <1>4 DEF IInv, WiringInv
<1>6. made = "config" => /\ cfg["readTimeout"] <= 0 => readBy = Never
                         /\ cfg["writeTimeout"] <= 0 => writeBy = Never
  BY DEF IInv, DisabledStaysDisabled
<1>7. p # "handler"
  OBVIOUS
<1>8. made = "config" => /\ cfg["readTimeout"] <= 0 => readBy' = Never
                         /\ cfg["writeTimeout"] <= 0 => writeBy' = Never
  BY <1>5, <1>6
<1> QED
  BY <1>3, <1>7, <1>8 DEF DeadlinesKept

\* The bodies a request can move have a size.
LEMMA BodiesTyped == IInv => Bodies \subseteq Nat
  BY DEF IInv, TypeOK, Bodies, Smaller

\* A handler's step keeps the invariant, whichever deadline fails to be set
\* and whichever passes.
LEMMA HandlerStep ==
  ASSUME IInv, Handler
  PROVE  IInv'
<1>1. CASE WidenUpload \/ WidenDownload \/ WidenUnsupported
  <2>1. phase = "handler" /\ phase' = "moving" /\ UNCHANGED wiringVars
    BY <1>1 DEF WidenUpload, WidenDownload, WidenUnsupported, Moves, Turn
  <2>2. DeadlinesKept("moving", readBy', writeBy')
    BY <1>1, <2>1, WidenedKept
       DEF WidenUpload, WidenDownload, WidenUnsupported, deadlineVars, Serving
  <2>3. body' \in Nat /\ heard' \in BOOLEAN /\ elapsed' = 0
        /\ UNCHANGED <<kind, size, slow, lost>>
    BY <1>1, BodiesTyped DEF WidenUpload, WidenDownload, WidenUnsupported, Moves, Turn
  <2>4. RequestTyped(kind', size', body', elapsed', slow', heard', lost')
    BY <2>3, RequestKept DEF RequestTyped
  <2> QED BY <2>1, <2>2, <2>4, ServingStep DEF Serving
<1>2. CASE WidenFails
  <2>1. phase = "handler" /\ phase' = "answering" /\ UNCHANGED wiringVars
    BY <1>2 DEF WidenFails, Turn
  <2>2. DeadlinesKept("answering", readBy', writeBy')
    BY <1>2, <2>1, WidenedKept DEF WidenFails, Serving
  <2>3. RequestTyped(kind', size', body', elapsed', slow', heard', lost')
    BY <1>2, RequestKept DEF WidenFails, Turn, requestVars
  <2> QED BY <2>1, <2>2, <2>3, ServingStep DEF Serving
<1>3. CASE BodyRead \/ BodyTimesOut
  <2>1. phase = "moving" /\ phase' \in {"answering", "closed"} /\ UNCHANGED wiringVars
        /\ UNCHANGED <<readBy, writeBy>>
    BY <1>3 DEF BodyRead, BodyTimesOut, Turn, deadlineVars
  <2>2. DeadlinesKept(phase', readBy', writeBy')
    BY <2>1, RequestKept DEF DeadlinesKept, InHandler
  <2>3. UNCHANGED <<kind, size, body, slow, heard>> /\ elapsed' = 0
        /\ lost' \in {lost, "body"}
    BY <1>3 DEF BodyRead, BodyTimesOut, Turn, requestVars
  <2>4. RequestTyped(kind', size', body', elapsed', slow', heard', lost')
    BY <2>3, RequestKept DEF RequestTyped
  <2> QED BY <2>1, <2>2, <2>4, ServingStep DEF Serving
<1>4. CASE BodyWritten
  BY <1>4, FinishKeeps DEF BodyWritten
<1>5. CASE Answer
  <2>1. CASE Finish
    BY <1>5, <2>1, FinishKeeps DEF Answer
  <2>2. CASE Turn("closed") /\ UNCHANGED <<requestVars, deadlineVars, lost>>
    <3>1. phase # "none" /\ phase' = "closed" /\ UNCHANGED wiringVars
      BY <1>5, <2>2 DEF Answer, Turn
    <3>2. DeadlinesKept(phase', readBy', writeBy')
      BY <2>2, <3>1, RequestKept DEF deadlineVars, DeadlinesKept, InHandler
    <3>3. RequestTyped(kind', size', body', elapsed', slow', heard', lost')
      BY <2>2, RequestKept DEF Turn, requestVars
    <3> QED BY <3>1, <3>2, <3>3, ServingStep DEF Serving
  <2> QED BY <1>5, <2>1, <2>2 DEF Answer
<1>6. CASE AnswerTimesOut
  <2>1. phase # "none" /\ phase' = "closed" /\ UNCHANGED wiringVars
        /\ UNCHANGED <<readBy, writeBy>>
    BY <1>6 DEF AnswerTimesOut, deadlineVars
  <2>2. DeadlinesKept(phase', readBy', writeBy')
    BY <2>1, RequestKept DEF DeadlinesKept, InHandler
  <2>3. UNCHANGED <<kind, size, body, slow, heard, elapsed>> /\ lost' = "answer"
    BY <1>6 DEF AnswerTimesOut, requestVars
  <2>4. RequestTyped(kind', size', body', elapsed', slow', heard', lost')
    BY <2>3, RequestKept DEF RequestTyped
  <2> QED BY <2>1, <2>2, <2>4, ServingStep DEF Serving
<1> QED BY <1>1, <1>2, <1>3, <1>4, <1>5, <1>6 DEF Handler

\* A step of nobody keeps it.
LEMMA StutterStep ==
  ASSUME IInv, UNCHANGED vars
  PROVE  IInv'
<1>1. UNCHANGED <<stage, cfg, layers, env, tr, made, kind, size, body, slow, heard,
                 readBy, writeBy, phase, elapsed, lost>>
  BY DEF vars, wiringVars, requestVars, deadlineVars
<1>2. TypeOK' /\ WiringInv'
  BY <1>1 DEF IInv, TypeOK, WiringInv
<1>3. DisabledStaysDisabled' /\ HandlerInv'
  BY <1>1 DEF IInv, DisabledStaysDisabled, HandlerInv
<1> QED BY <1>2, <1>3 DEF IInv

-----------------------------------------------------------------------------
\* The invariant every theorem below rests on.
THEOREM Invariance == Spec => []IInv
<1>1. IInv /\ [Next]_vars => IInv'
  <2> SUFFICES ASSUME IInv, [Next]_vars PROVE IInv'
    OBVIOUS
  <2> QED
    BY MergingStep, WiringStep, ConnectionStep, HandlerStep, StutterStep
       DEF Next, Wiring
<1> QED BY <1>1, InitIInv, PTL DEF Spec

\* Every Config, Transfer and deadline is well typed, and a server is only
\* built from a Config whose pointers are set (transfer.go:49).
THEOREM Typing == Spec => []TypeOK
<1>1. IInv => TypeOK
  BY DEF IInv
<1> QED BY <1>1, Invariance, PTL

\* A timeout a Config disables stays disabled (transfer.go:47), whatever was
\* merged and overridden, for every route, request and size.
THEOREM StaysDisabled == Spec => []DisabledStaysDisabled
<1>1. IInv => DisabledStaysDisabled
  BY DEF IInv
<1> QED BY <1>1, Invariance, PTL

\* A Config's Transfer only ever moves a deadline back (transfer.go:85), since
\* its grace is the longer of the two timeouts, rounded and saturated or not.
THEOREM OnlyWidens == Spec => WideningNeverShortens
<1>1. IInv /\ [Next]_vars =>
        [ made = "config" /\ phase = "handler" /\ phase' = "moving"
            => NoEarlier(readBy', readBy) /\ NoEarlier(writeBy', writeBy) ]_vars
  <2> SUFFICES ASSUME IInv, Next, made = "config", phase = "handler", phase' = "moving"
               PROVE  NoEarlier(readBy', readBy) /\ NoEarlier(writeBy', writeBy)
    BY DEF vars
  <2>1. /\ tr.rate # 0 /\ tr.grace \in Nat
        /\ tr.grace >= cfg["readTimeout"] /\ tr.grace >= cfg["writeTimeout"]
    BY DEF IInv, WiringInv, TypeOK
  <2>2. cfg["readTimeout"] \in Int /\ cfg["writeTimeout"] \in Int
    BY TimeoutsTyped
  <2>3. readBy \in DeadlineValue /\ writeBy \in DeadlineValue
    BY DEF IInv, TypeOK
  <2>4. /\ readBy # Never => readBy <= tr.grace
        /\ writeBy # Never => writeBy <= tr.grace
        /\ tr.read => readBy # Never
        /\ tr.write => writeBy # Never
    BY <2>1, <2>2, <2>3 DEF IInv, WiringInv, HandlerInv, Within, DeadlineValue, Never, Past
  <2>5. ASSUME NEW old \in DeadlineValue, old # Never, old <= tr.grace,
               NEW new \in Nat \cup {Never}, new # Never => new >= tr.grace
        PROVE  NoEarlier(new, old)
    BY <2>1, <2>5 DEF NoEarlier, DeadlineValue, Never, Past
  <2>6. NoEarlier(readBy, readBy) /\ NoEarlier(writeBy, writeBy)
    BY <2>3 DEF NoEarlier, DeadlineValue, Never, Past
  <2>7. /\ deadline(Duration(tr, size)) \in Nat \cup {Never}
        /\ UploadReadBy(tr, size) \in Nat \cup {Never}
        /\ UploadWriteBy(tr, size) \in Nat \cup {Never}
        /\ deadline(Duration(tr, size)) # Never => deadline(Duration(tr, size)) >= tr.grace
        /\ UploadReadBy(tr, size) # Never => UploadReadBy(tr, size) >= tr.grace
        /\ UploadWriteBy(tr, size) # Never => UploadWriteBy(tr, size) >= tr.grace
    BY <2>1, WidenedTyped DEF IInv, UploadReadBy
  <2>8. ASSUME tr.read PROVE NoEarlier(UploadReadBy(tr, size), readBy)
    BY <2>3, <2>4, <2>5, <2>7, <2>8
  <2>9. ASSUME tr.write
        PROVE  /\ NoEarlier(UploadWriteBy(tr, size), writeBy)
               /\ NoEarlier(deadline(Duration(tr, size)), writeBy)
    BY <2>3, <2>4, <2>5, <2>7, <2>9
  <2>10. WidenUpload \/ WidenDownload \/ WidenUnsupported
    BY DEF Next, Wiring, MergeLayer, FinalizeConfig, WireConfig, WireDirect, Wire,
           Connection, Arrive, HeadRead, WaitTimesOut, Tick, Handler, WidenFails,
           BodyRead, BodyWritten, BodyTimesOut, Answer, AnswerTimesOut, Finish, Turn
  <2> QED
    BY <2>6, <2>8, <2>9, <2>10 DEF WidenUpload, WidenDownload, WidenUnsupported, deadlineVars
<1> QED BY <1>1, Invariance, PTL DEF Spec, WideningNeverShortens

-----------------------------------------------------------------------------
\* While it is merged, a Config's field is what the last layer that sets it
\* says, and unset when none does.
LastSet(f) ==
  \/ \E i \in DOMAIN layers :
       /\ layers[i][f] # Unset /\ cfg[f] = layers[i][f]
       /\ \A j \in DOMAIN layers : j > i => layers[j][f] = Unset
  \/ cfg[f] = Unset /\ \A i \in DOMAIN layers : layers[i][f] = Unset

LayersInv ==
  /\ layers \in Seq(Layers)
  /\ stage = "merging" => \A f \in Fields : LastSet(f)
  /\ LastSettingWins

\* A layer that is merged overrides the earlier ones where it sets a field.
LEMMA MergeLayerKeeps ==
  ASSUME LayersInv, NEW src \in Layers, MergeLayer(src)
  PROVE  LayersInv'
<1> DEFINE n == Len(layers)
<1>1. /\ stage = "merging" /\ stage' = "merging"
      /\ layers \in Seq(Layers)
      /\ layers' = Append(layers, src)
      /\ cfg' = Merge(cfg, src)
  BY DEF MergeLayer, LayersInv
<1>2. /\ layers' \in Seq(Layers)
      /\ n \in Nat
      /\ DOMAIN layers = 1 .. n /\ DOMAIN layers' = 1 .. n + 1
      /\ \A i \in 1 .. n : layers'[i] = layers[i]
      /\ layers'[n + 1] = src
  BY <1>1
<1> HIDE DEF n
<1>3. ASSUME NEW f \in Fields PROVE LastSet(f)'
  <2>1. cfg'[f] = IF src[f] = Unset THEN cfg[f] ELSE src[f]
    BY <1>1 DEF Merge
  <2>2. LastSet(f)
    BY <1>1 DEF LayersInv
  <2>3. CASE src[f] # Unset
    <3>1. /\ n + 1 \in DOMAIN layers'
          /\ layers'[n + 1][f] # Unset /\ cfg'[f] = layers'[n + 1][f]
          /\ \A j \in DOMAIN layers' : ~(j > n + 1)
      BY <1>2, <2>1, <2>3
    <3> QED BY <3>1 DEF LastSet
  <2>4. CASE src[f] = Unset /\ cfg[f] = Unset /\ \A i \in DOMAIN layers : layers[i][f] = Unset
    <3>1. \A i \in DOMAIN layers' : layers'[i][f] = Unset
      BY <1>2, <2>4
    <3> QED BY <2>1, <2>4, <3>1 DEF LastSet
  <2>5. ASSUME src[f] = Unset, NEW i \in DOMAIN layers,
               layers[i][f] # Unset, cfg[f] = layers[i][f],
               \A j \in DOMAIN layers : j > i => layers[j][f] = Unset
        PROVE  LastSet(f)'
    <3>1. /\ i \in DOMAIN layers'
          /\ layers'[i][f] # Unset /\ cfg'[f] = layers'[i][f]
      BY <1>2, <2>1, <2>5
    <3>2. \A j \in DOMAIN layers' : j > i => layers'[j][f] = Unset
      BY <1>2, <2>5
    <3> QED BY <3>1, <3>2 DEF LastSet
  <2> QED BY <2>2, <2>3, <2>4, <2>5 DEF LastSet
<1> QED BY <1>1, <1>2, <1>3 DEF LayersInv, LastSettingWins

\* An environment that parses is read whole.
LEMMA ReadWhole ==
  ASSUME NEW e, EnvParses(e)
  PROVE  EnvRead(e) = Defaulted
<1>1. DOMAIN EnvOrder = 1 .. 7
  BY DEF EnvOrder
<1>2. \A i \in 1 .. 7 : EnvOrder[i] \in Defaulted
  BY DEF EnvOrder, Defaulted, Timeouts
<1>3. \A i \in 1 .. 7 : \A j \in 1 .. i : e[EnvOrder[j]] # Malformed
  BY <1>2 DEF EnvParses
<1>4. EnvRead(e) = {EnvOrder[i] : i \in 1 .. 7}
  BY <1>1, <1>3 DEF EnvRead
<1>5. Defaulted \subseteq {EnvOrder[i] : i \in 1 .. 7}
  BY DEF EnvOrder, Defaulted, Timeouts
<1> QED BY <1>2, <1>4, <1>5

\* The last index of those that set a field is the largest.
LEMMA LargestIsMax ==
  ASSUME NEW S \in SUBSET Int, NEW i \in S, \A j \in S : j <= i
  PROVE  Max(S) = i
<1>1. i \in S /\ \A y \in S : i >= y
  OBVIOUS
<1>2. Max(S) \in S /\ \A y \in S : Max(S) >= y
  BY <1>1 DEF Max
<1>3. Max(S) >= i /\ Max(S) <= i /\ i \in Int /\ Max(S) \in Int
  BY <1>2
<1> HIDE DEF Max
<1> QED BY <1>3

\* Finalizing gives a field its override, then what was merged, then its
\* default.
LEMMA FinalizeKeeps ==
  ASSUME LayersInv, cfg \in ConfigValue, NEW e \in Envs, FinalizeConfig(e)
  PROVE  LayersInv'
<1>1. /\ stage = "merging" /\ stage' \in {"finalized", "rejected"}
      /\ stage' = "finalized" => EnvParses(e)
      /\ cfg' = applyEnv(applyDefaults(cfg), e)
      /\ env' = e /\ layers' = layers
  BY DEF FinalizeConfig, Finalize
<1>2. ASSUME EnvParses(e), NEW f \in Fields,
             NEW set, set = {i \in DOMAIN layers : layers[i][f] # Unset}
      PROVE  \/ f \in Defaulted /\ e[f] # Unset /\ cfg'[f] = e[f]
             \/ /\ f \in Defaulted => e[f] = Unset
                /\ \/ set # {} /\ cfg'[f] = layers[Max(set)][f]
                   \/ set = {} /\ f \in Defaulted /\ cfg'[f] = Default[f]
                   \/ set = {} /\ f \notin Defaulted /\ cfg'[f] = Unset
  <2>1. EnvRead(e) = Defaulted
    BY <1>2, ReadWhole
  <2>2. cfg'[f] = IF f \in Defaulted /\ e[f] # Unset THEN e[f]
                  ELSE IF cfg[f] = Unset /\ f \in Defaulted THEN Default[f] ELSE cfg[f]
    BY <1>1, <2>1 DEF applyEnv, applyDefaults
  <2>3. LastSet(f)
    BY <1>1 DEF LayersInv
  <2>4. CASE cfg[f] = Unset /\ \A i \in DOMAIN layers : layers[i][f] = Unset
    BY <1>2, <2>2, <2>4
  <2>5. ASSUME NEW i \in DOMAIN layers,
               layers[i][f] # Unset, cfg[f] = layers[i][f],
               \A j \in DOMAIN layers : j > i => layers[j][f] = Unset
        PROVE  set # {} /\ cfg[f] # Unset /\ cfg[f] = layers[Max(set)][f]
    <3>1. DOMAIN layers \subseteq Int
      BY DEF LayersInv
    <3>2. set \in SUBSET Int /\ i \in set /\ \A j \in set : j <= i
      BY <1>2, <2>5, <3>1
    <3>3. Max(set) = i
      BY <3>2, LargestIsMax
    <3> QED BY <2>5, <3>2, <3>3
  <2> QED BY <2>2, <2>3, <2>4, <2>5 DEF LastSet
<1>3. LastSettingWins'
  BY <1>1, <1>2 DEF LastSettingWins
<1> QED BY <1>1, <1>3 DEF LayersInv

\* Nothing else touches a Config.
LEMMA LayersStep ==
  ASSUME IInv, LayersInv, [Next]_vars
  PROVE  LayersInv'
<1>1. CASE \E src \in Layers : MergeLayer(src)
  BY <1>1, MergeLayerKeeps
<1>2. CASE \E e \in Envs : FinalizeConfig(e)
  BY <1>2, FinalizeKeeps DEF IInv, TypeOK, ConfigValue
<1>3. ASSUME stage' = "serving", layers' = <<>> PROVE LayersInv'
  BY <1>3 DEF LayersInv, LastSettingWins
<1>4. ASSUME NEW t, NEW by, Wire(t, by) PROVE LayersInv'
  BY <1>3, <1>4 DEF Wire
<1>5. ASSUME UNCHANGED <<stage, cfg, layers, env>> PROVE LayersInv'
  BY <1>5 DEF LayersInv, LastSettingWins, LastSet
<1>6. CASE Connection \/ Handler \/ UNCHANGED vars
  <2>1. UNCHANGED wiringVars
    BY <1>6 DEF Connection, Arrive, HeadRead, WaitTimesOut, Tick, Handler, WidenUpload,
         WidenDownload, WidenUnsupported, WidenFails, Moves, BodyRead, BodyWritten,
         BodyTimesOut, Answer, AnswerTimesOut, Finish, Turn, vars
  <2> QED BY <1>5, <2>1 DEF wiringVars
<1> QED BY <1>1, <1>2, <1>4, <1>6 DEF Next, Wiring, WireConfig, WireDirect

\* A field takes the default only when no file and no variable sets it, and
\* a later setting overrides an earlier one (config.go:49), however many
\* configurations are merged.
THEOREM LastWins == Spec => []LastSettingWins
<1>1. Init => LayersInv
  BY DEF Init, NewConfig, LayersInv, LastSettingWins, LastSet
<1>2. IInv /\ LayersInv /\ [Next]_vars => LayersInv'
  BY LayersStep
<1>3. LayersInv => LastSettingWins
  BY DEF LayersInv
<1> QED BY <1>1, <1>2, <1>3, Invariance, PTL DEF Spec

-----------------------------------------------------------------------------
\* A deadline by, when it passes, finds the body later than the rate allows.
Reaches(by) ==
  /\ by = Past => slow
  /\ by \in Nat => slow \/ (by + elapsed + 1) * tr.rate > body * Second

\* The write deadline an upload sets is a grace behind the read deadline, to
\* the tick in which the read deadline passes.
Tied ==
  /\ readBy = Never => writeBy = Never
  /\ readBy \in Nat => writeBy = readBy + tr.grace
  /\ readBy = Past => writeBy = NextTick(tr.grace)

\* Without a read deadline it is a grace behind what the rate allows.
Loose ==
  /\ writeBy = Past => slow
  /\ writeBy \in Nat =>
       \/ slow
       \/ /\ writeBy >= tr.grace
          /\ (writeBy - tr.grace + elapsed + 1) * tr.rate > body * Second

\* What a widened body that moves is owed, and the answer to an upload.
MovingOwed ==
  /\ Reaches(Moving)
  /\ kind = "upload" /\ tr.read /\ tr.write => Tied
  /\ kind = "upload" /\ ~tr.read /\ tr.write => Loose

AnswerOwed ==
  \/ slow /\ ~tr.read
  \/ /\ writeBy = Past => elapsed >= tr.grace
     /\ writeBy \in Nat => writeBy + elapsed + 1 >= tr.grace

RateInv ==
  /\ made = "direct" => tr.read /\ tr.write
  /\ lost # "nothing" => phase \in {"answering", "closed"}
  /\ lost = "answer" => phase = "closed"
  /\ phase = "handler" => ~heard
  /\ phase = "answering" /\ heard => kind = "upload"
  /\ phase = "moving" /\ heard => MovingOwed
  /\ phase = "answering" /\ heard => AnswerOwed
  /\ RateIsEnough

\* A deadline that the Transfer leaves alone is none.
LEMMA LeftAlone ==
  ASSUME IInv, RateInv, phase \in InHandler
  PROVE  /\ ~tr.read => readBy = Never
         /\ ~tr.write => writeBy = Never
<1>1. made \in {"config", "direct"}
  BY DEF IInv, WiringInv, TypeOK, InHandler
<1>2. CASE made = "direct"
  BY <1>2 DEF RateInv
<1>3. CASE made = "config"
  <2>1. cfg["readTimeout"] \in Int /\ cfg["writeTimeout"] \in Int
    BY TimeoutsTyped DEF InHandler
  <2>2. /\ tr.read <=> cfg["readTimeout"] > 0
        /\ tr.write <=> cfg["writeTimeout"] > 0
    BY <1>3 DEF IInv, WiringInv
  <2>3. /\ cfg["writeTimeout"] <= 0 => writeBy = Never
        /\ cfg["readTimeout"] <= 0 => readBy = Never
    BY <1>3 DEF IInv, DisabledStaysDisabled, InHandler
  <2> QED BY <2>1, <2>2, <2>3
<1> QED BY <1>1, <1>2, <1>3

\* A whole number of ticks, cut down, and one tick more, is more than the
\* time the bytes take.
LEMMA CutDown ==
  ASSUME NEW x \in Nat, NEW r \in Nat \ {0}
  PROVE  x \div r \in Nat /\ (x \div r + 1) * r > x
<1> DEFINE q == x \div r
<1>1. q \in Nat /\ x = r * q + (x % r) /\ x % r \in 0 .. r - 1
  OBVIOUS
<1>2. (q + 1) * r = r * q + r
  BY <1>1
<1> QED BY <1>1, <1>2

\* More of a factor makes no less of the product.
LEMMA MoreTimes ==
  ASSUME NEW a \in Nat, NEW b \in Nat, NEW r \in Nat, a <= b
  PROVE  a * r <= b * r
<1>1. PICK c \in Nat : b = a + c
  <2>1. b - a \in Nat /\ b = a + (b - a)
    OBVIOUS
  <2> QED BY <2>1
<1>2. b * r = a * r + c * r
  BY <1>1
<1>3. c * r \in Nat /\ a * r \in Nat
  OBVIOUS
<1> QED BY <1>2, <1>3

\* What is allowed for a size reaches past the time of any body of that size
\* or, of an undeclared one, within the limit.
LEMMA DurationReaches ==
  ASSUME NEW t \in TransferValue, t.rate # 0, NEW n \in Int, NEW b \in Nat,
         IF n < 0 THEN b <= t.limit ELSE b = Smaller(n, t.limit),
         Duration(t, n) # MaxDuration
  PROVE  (Duration(t, n) + 1) * t.rate > b * Second
<1> DEFINE counted == IF n < 0 \/ n > t.limit THEN t.limit ELSE n
           x       == counted * Second
           time    == x \div t.rate
<1>1. counted \in Nat /\ b <= counted /\ t.rate \in Nat \ {0} /\ t.grace \in Nat
  BY DEF Smaller, TransferValue
<1>2. Duration(t, n) = t.grace + time
  BY DEF Duration
<1> HIDE DEF counted
<1>3. x \in Nat /\ b * Second <= x
  BY <1>1, MoreTimes, TransferAssumption
<1> HIDE DEF x
<1>4. time \in Nat /\ (time + 1) * t.rate > x
  BY <1>1, <1>3, CutDown
<1> HIDE DEF time
<1>5. (time + 1) * t.rate <= (t.grace + time + 1) * t.rate
  BY <1>1, <1>4, MoreTimes
<1> DEFINE u == (time + 1) * t.rate
           v == (t.grace + time + 1) * t.rate
           w == b * Second
<1>6. u \in Int /\ v \in Int /\ w \in Int
  BY <1>1, <1>4, TransferAssumption
<1>7. v > w
  <2>1. u <= v /\ u > x /\ w <= x
    BY <1>3, <1>4, <1>5
  <2> HIDE DEF u, v, w
  <2> QED BY <1>3, <1>6, <2>1
<1> QED BY <1>2, <1>7

\* The deadlines a widening sets reach that far.
LEMMA WidenedReaches ==
  ASSUME TypeOK, tr.rate # 0, NEW b \in Bodies, b \in Nat
  PROVE  /\ deadline(Duration(tr, size)) # Never =>
              (deadline(Duration(tr, size)) + 1) * tr.rate > b * Second
         /\ UploadReadBy(tr, size) # Never =>
              (UploadReadBy(tr, size) + 1) * tr.rate > b * Second
<1>1. tr \in TransferValue /\ size \in Int
  BY DEF TypeOK, TransferValue
<1>2. IF size < 0 THEN b <= tr.limit ELSE b = Smaller(size, tr.limit)
  BY <1>1 DEF Bodies, TransferValue
<1>3. Duration(tr, size) # MaxDuration => (Duration(tr, size) + 1) * tr.rate > b * Second
  BY <1>1, <1>2, DurationReaches
<1> QED BY <1>3 DEF deadline, UploadReadBy

-----------------------------------------------------------------------------
\* Nothing is owed while no widened body moves and no answer is due.
LEMMA NothingOwed ==
  ASSUME RateInv, lost' = "nothing", phase' \notin {"moving", "answering"},
         made' = "direct" => tr'.read /\ tr'.write,
         phase' = "handler" => ~heard'
  PROVE  RateInv'
  BY DEF RateInv, RateIsEnough

\* The wiring and what net/http does between handlers.
LEMMA BetweenStep ==
  ASSUME IInv, RateInv,
         \/ Wiring
         \/ Arrive \/ WaitTimesOut
         \/ \E k \in {"upload", "download"}, n \in Sizes : HeadRead(k, n)
  PROVE  RateInv'
<1>1. ASSUME \/ \E src \in Layers : MergeLayer(src)
             \/ \E e \in Envs : FinalizeConfig(e)
      PROVE  RateInv'
  <2>1. /\ UNCHANGED <<tr, made, phase, lost>>
        /\ stage = "merging"
    BY <1>1 DEF MergeLayer, FinalizeConfig
  <2>2. phase = "none" /\ lost = "nothing"
    BY <2>1 DEF IInv, WiringInv, RateInv
  <2> QED BY <2>1, <2>2, NothingOwed DEF RateInv
<1>2. ASSUME NEW t, NEW by, Wire(t, by), by = "direct" => t.read /\ t.write
      PROVE  RateInv'
  <2>1. /\ stage # "serving" /\ tr' = t /\ made' = by /\ phase' = "head" /\ lost' = lost
    BY <1>2 DEF Wire
  <2>2. phase = "none" /\ lost = "nothing"
    BY <2>1 DEF IInv, WiringInv, RateInv
  <2> QED BY <1>2, <2>1, <2>2, NothingOwed
<1>3. ASSUME NEW limit \in Limits, WireConfig(limit) PROVE RateInv'
  <2>1. Wire(ConfigTransfer(cfg, limit), "config") /\ "config" # "direct"
    BY <1>3 DEF WireConfig
  <2> QED BY <1>2, <2>1
<1>4. ASSUME NEW limit \in Limits, NEW d \in Direct, WireDirect(limit, d) PROVE RateInv'
  <2>1. Wire(NewTransfer(limit, d.rate, d.grace), "direct")
    BY <1>4 DEF WireDirect
  <2>2. /\ NewTransfer(limit, d.rate, d.grace).read
        /\ NewTransfer(limit, d.rate, d.grace).write
    BY DEF NewTransfer
  <2> QED BY <1>2, <2>1, <2>2
<1>5. ASSUME \/ Arrive \/ WaitTimesOut
             \/ \E k \in {"upload", "download"}, n \in Sizes : HeadRead(k, n)
      PROVE  RateInv'
  <2>1. /\ phase \in {"idle", "head"} /\ UNCHANGED <<tr, made, lost>>
        /\ phase' \in {"head", "handler", "closed"}
        /\ phase' = "handler" => heard' = FALSE
    BY <1>5 DEF Arrive, WaitTimesOut, HeadRead, Turn, wiringVars
  <2>2. lost = "nothing"
    BY <2>1 DEF RateInv
  <2> QED BY <2>1, <2>2, NothingOwed DEF RateInv
<1> QED BY <1>1, <1>3, <1>4, <1>5 DEF Wiring

\* A tick brings a deadline no nearer to the body than to the rate.
LEMMA TickReaches ==
  ASSUME IInv, Tick, phase = "moving", Moving # Past, Reaches(Moving)
  PROVE  /\ Moving' = NextTick(Moving)
         /\ Reaches(Moving)'
<1>1. /\ UNCHANGED <<tr, kind, size, body, heard, phase, lost, made>>
      /\ readBy' = NextTick(readBy) /\ writeBy' = NextTick(writeBy)
      /\ elapsed' = elapsed + 1
      /\ slow' = (slow \/ elapsed' * tr.rate > body * Second)
  BY DEF Tick, wiringVars
<1>2. Moving' = NextTick(Moving)
  BY <1>1 DEF Moving
<1>3. Moving \in DeadlineValue /\ elapsed \in Nat
  BY DEF IInv, TypeOK, Moving
<1>4. slow => slow'
  BY <1>1
<1>5. CASE Moving = Never
  BY <1>2, <1>5 DEF Reaches, NextTick, Never, Past
<1>6. CASE Moving \in Nat /\ Moving > 0
  <2>1. Moving' = Moving - 1 /\ Moving' \in Nat
    BY <1>2, <1>6 DEF NextTick
  <2>2. Moving' + elapsed' + 1 = Moving + elapsed + 1
    BY <1>1, <1>3, <1>6, <2>1
  <2>3. slow \/ (Moving + elapsed + 1) * tr.rate > body * Second
    BY <1>6 DEF Reaches
  <2>4. slow' \/ (Moving' + elapsed' + 1) * tr'.rate > body' * Second
    BY <1>1, <1>4, <2>2, <2>3, Zenon
  <2>5. Moving' # Past
    BY <2>1 DEF Past
  <2> QED BY <1>2, <2>4, <2>5, Zenon DEF Reaches
<1>7. CASE Moving = 0
  <2>1. Moving' = Past
    BY <1>2, <1>7 DEF NextTick
  <2>2. Moving + elapsed + 1 = elapsed'
    BY <1>1, <1>3, <1>7
  <2>3. slow \/ (Moving + elapsed + 1) * tr.rate > body * Second
    BY <1>7 DEF Reaches
  <2>4. slow \/ elapsed' * tr.rate > body * Second
    BY <2>2, <2>3, Zenon
  <2>5. slow'
    BY <1>1, <2>4, Zenon
  <2>6. Moving' \notin Nat
    BY <2>1 DEF Past
  <2> QED BY <1>2, <2>5, <2>6, Zenon DEF Reaches
<1>8. Moving = Never \/ (Moving \in Nat /\ Moving > 0) \/ Moving = 0
  BY <1>3 DEF DeadlineValue
<1> QED BY <1>2, <1>5, <1>6, <1>7, <1>8

\* The two deadlines of an upload pass a grace apart.
LEMMA TickTied ==
  ASSUME IInv, Tick, readBy # Past, Tied
  PROVE  Tied'
<1>1. /\ tr' = tr
      /\ readBy' = NextTick(readBy) /\ writeBy' = NextTick(writeBy)
  BY DEF Tick, wiringVars
<1>2. readBy \in Nat \cup {Never} /\ tr.grace \in Nat
  BY DEF IInv, TypeOK, DeadlineValue
<1> QED BY <1>1, <1>2 DEF Tied, NextTick, Never, Past

\* A write deadline alone stays a grace behind the rate, or the body is slow.
LEMMA TickLoose ==
  ASSUME IInv, Tick, phase = "moving", Loose
  PROVE  Loose'
<1>1. /\ UNCHANGED <<tr, body>>
      /\ writeBy' = NextTick(writeBy)
      /\ elapsed' = elapsed + 1
      /\ slow' = (slow \/ elapsed' * tr.rate > body * Second)
  BY DEF Tick, wiringVars
<1>2. writeBy \in DeadlineValue /\ elapsed \in Nat /\ tr.grace \in Nat
  BY DEF IInv, TypeOK
<1>3. CASE slow'
  BY <1>3 DEF Loose
<1>4. CASE writeBy = Never \/ writeBy = Past
  <2>1. writeBy' = writeBy /\ writeBy' \notin Nat
    BY <1>1, <1>4 DEF NextTick, Never, Past
  <2>2. writeBy = Past => slow'
    BY <1>1, Zenon DEF Loose
  <2> QED BY <2>1, <2>2, Zenon DEF Loose
<1>5. CASE writeBy \in Nat /\ ~slow'
  <2>1. ~slow /\ ~(elapsed' * tr.rate > body * Second)
    BY <1>1, <1>5, Zenon
  <2>2. /\ writeBy >= tr.grace
        /\ (writeBy - tr.grace + elapsed + 1) * tr.rate > body * Second
    BY <1>5, <2>1 DEF Loose
  <2>3. writeBy # tr.grace
    <3>1. ASSUME writeBy = tr.grace PROVE FALSE
      <4>1. writeBy - tr.grace + elapsed + 1 = elapsed'
        BY <1>1, <1>2, <3>1
      <4> QED BY <2>1, <2>2, <4>1, Zenon
    <3> QED BY <3>1
  <2>4. /\ writeBy' = writeBy - 1 /\ writeBy' \in Nat /\ writeBy' # Past
        /\ writeBy' >= tr.grace
        /\ writeBy' - tr.grace + elapsed' + 1 = writeBy - tr.grace + elapsed + 1
    BY <1>1, <1>2, <1>5, <2>2, <2>3 DEF NextTick, Past
  <2>5. (writeBy' - tr'.grace + elapsed' + 1) * tr'.rate > body' * Second
    BY <1>1, <2>2, <2>4, Zenon
  <2>6. tr'.grace = tr.grace
    BY <1>1
  <2>7. writeBy' >= tr'.grace
    BY <2>4, <2>6
  <2> QED BY <2>4, <2>5, <2>7, Zenon DEF Loose
<1> QED BY <1>2, <1>3, <1>4, <1>5 DEF DeadlineValue

\* Time keeps what is owed, and the answer's grace runs from the body's end.
LEMMA TickStep ==
  ASSUME IInv, RateInv, Tick
  PROVE  RateInv'
<1>1. /\ UNCHANGED <<tr, made, kind, size, body, heard, phase, lost>>
      /\ readBy' = NextTick(readBy) /\ writeBy' = NextTick(writeBy)
      /\ slow' = (slow \/ (phase = "moving" /\ elapsed' * tr.rate > body * Second))
      /\ phase \in {"idle", "head", "handler", "moving", "answering"}
  BY DEF Tick, wiringVars
<1>2. slow => slow'
  BY <1>1
<1>3. CASE phase \in {"idle", "head", "handler"}
  <2>1. lost = "nothing" /\ (phase = "handler" => ~heard)
        /\ (made = "direct" => tr.read /\ tr.write)
    BY <1>3 DEF RateInv
  <2> QED BY <1>1, <1>3, <2>1, NothingOwed
<1>4. CASE phase = "moving"
  <2>1. lost = "nothing"
    BY <1>4 DEF RateInv
  <2>2. ASSUME heard PROVE MovingOwed'
    <3>1. MovingOwed /\ Moving # Past
      BY <1>4, <2>2 DEF RateInv, Tick
    <3>2. Reaches(Moving)'
      BY <1>4, <3>1, TickReaches DEF MovingOwed
    <3>3. ASSUME kind = "upload", tr.read, tr.write PROVE Tied'
      BY <3>1, <3>3, TickTied DEF MovingOwed, Moving
    <3>4. ASSUME kind = "upload", ~tr.read, tr.write PROVE Loose'
      BY <1>4, <3>1, <3>4, TickLoose DEF MovingOwed
    <3>5. UNCHANGED <<tr, kind>>
      BY <1>1
    <3> QED BY <3>2, <3>3, <3>4, <3>5, Zenon DEF MovingOwed
  <2>3. (phase' = "moving" /\ heard') => MovingOwed'
    BY <1>1, <2>2
  <2> QED BY <1>1, <1>4, <2>1, <2>3 DEF RateInv, RateIsEnough
<1>5. CASE phase = "answering"
  <2>1. lost # "answer"
    BY <1>5 DEF RateInv
  <2>2. ASSUME heard PROVE AnswerOwed'
    <3>1. AnswerOwed
      BY <1>5, <2>2 DEF RateInv
    <3>2. elapsed' = elapsed + 1
      BY <1>5 DEF Tick
    <3>3. elapsed \in Nat /\ tr.grace \in Nat /\ writeBy \in DeadlineValue
      BY DEF IInv, TypeOK
    <3>4. CASE slow /\ ~tr.read
      BY <1>1, <1>2, <3>4, Zenon DEF AnswerOwed
    <3>5. CASE /\ writeBy = Past => elapsed >= tr.grace
               /\ writeBy \in Nat => writeBy + elapsed + 1 >= tr.grace
      <4>1. /\ NextTick(writeBy) = Past => elapsed + 1 >= tr.grace
            /\ NextTick(writeBy) \in Nat => NextTick(writeBy) + (elapsed + 1) + 1 >= tr.grace
        BY <3>3, <3>5 DEF NextTick, DeadlineValue, Never, Past
      <4>2. tr' = tr /\ writeBy' = NextTick(writeBy)
        BY <1>1
      <4> QED BY <3>2, <4>1, <4>2 DEF AnswerOwed
    <3> QED BY <3>1, <3>4, <3>5 DEF AnswerOwed
  <2>3. (phase' = "answering" /\ heard') => AnswerOwed'
    BY <1>1, <2>2
  <2>4. heard' /\ lost' = "body" => slow'
    BY <1>1, <1>2 DEF RateInv, RateIsEnough
  <2> QED BY <1>1, <1>5, <2>1, <2>3, <2>4 DEF RateInv, RateIsEnough
<1> QED BY <1>1, <1>3, <1>4, <1>5

\* Widening gives the body what it is owed.
LEMMA WidenStep ==
  ASSUME IInv, RateInv, WidenUpload \/ WidenDownload \/ WidenUnsupported \/ WidenFails
  PROVE  RateInv'
<1>1. /\ phase = "handler" /\ UNCHANGED <<tr, made, kind, size, slow, lost>>
      /\ elapsed' = 0
      /\ phase' \in {"moving", "answering"}
      /\ phase' = "answering" => heard' = heard
  BY DEF WidenUpload, WidenDownload, WidenUnsupported, WidenFails, Moves, Turn,
         wiringVars, requestVars
<1>2. lost = "nothing" /\ ~heard
  BY <1>1 DEF RateInv
<1>3. tr.rate # 0 /\ stage = "serving" /\ TypeOK /\ tr.grace \in Nat
  BY <1>1 DEF IInv, WiringInv, TypeOK
<1>4. ASSUME heard' => phase' = "moving" /\ MovingOwed' PROVE RateInv'
  BY <1>1, <1>2, <1>4 DEF RateInv, RateIsEnough
<1>5. CASE WidenUnsupported \/ WidenFails
  <2>1. ~heard'
    BY <1>2, <1>5 DEF WidenUnsupported, WidenFails, Moves, requestVars
  <2> QED BY <1>4, <2>1
<1>6. ASSUME WidenUpload \/ WidenDownload
      PROVE  body' \in Nat /\ body' \in Bodies /\ phase' = "moving"
  BY <1>6, BodiesTyped DEF WidenUpload, WidenDownload, Moves, Turn
<1>7. /\ ~tr.read => readBy = Never
      /\ ~tr.write => writeBy = Never
  BY <1>1, LeftAlone DEF InHandler
<1> DEFINE Far(by) == /\ by \in Nat \cup {Never}
                      /\ by # Never => (by + 1) * tr.rate > body' * Second
<1>8. CASE WidenDownload
  <2>1. kind = "download" /\ writeBy' = IF tr.write THEN deadline(Duration(tr, size)) ELSE writeBy
    BY <1>8 DEF WidenDownload
  <2>2. Far(writeBy')
    BY <1>3, <1>6, <1>7, <1>8, <2>1, WidenedTyped, WidenedReaches
  <2>3. Moving' = writeBy' /\ kind' # "upload"
    BY <1>1, <2>1 DEF Moving
  <2>4. Reaches(Moving)'
    <3>1. Moving' # Past
      BY <2>2, <2>3 DEF Never, Past
    <3>2. Moving' \in Nat => Moving' + elapsed' + 1 = Moving' + 1 /\ Moving' # Never
      BY <1>1 DEF Never
    <3>3. Moving' \in Nat => (Moving' + elapsed' + 1) * tr'.rate > body' * Second
      BY <1>1, <2>2, <2>3, <3>2, Zenon
    <3> QED BY <3>1, <3>3, Zenon DEF Reaches
  <2> QED BY <1>4, <1>6, <1>8, <2>3, <2>4 DEF MovingOwed
<1>9. CASE WidenUpload
  <2>1. /\ kind = "upload"
        /\ readBy'  = IF tr.read  THEN UploadReadBy(tr, size)  ELSE readBy
        /\ writeBy' = IF tr.write THEN UploadWriteBy(tr, size) ELSE writeBy
    BY <1>9 DEF WidenUpload
  <2>2. Far(UploadReadBy(tr, size))
    BY <1>3, <1>6, <1>9, WidenedTyped, WidenedReaches
  <2>3. Far(readBy')
    BY <1>7, <2>1, <2>2
  <2>4. Moving' = readBy'
    BY <1>1, <2>1 DEF Moving
  <2>5. Reaches(Moving)'
    <3>1. Moving' # Past
      BY <2>3, <2>4 DEF Never, Past
    <3>2. Moving' \in Nat => Moving' + elapsed' + 1 = Moving' + 1 /\ Moving' # Never
      BY <1>1 DEF Never
    <3>3. Moving' \in Nat => (Moving' + elapsed' + 1) * tr'.rate > body' * Second
      BY <1>1, <2>3, <2>4, <3>2, Zenon
    <3> QED BY <3>1, <3>3, Zenon DEF Reaches
  <2>6. ASSUME tr.read, tr.write PROVE Tied'
    <3>1. readBy' = UploadReadBy(tr, size) /\ writeBy' = UploadWriteBy(tr, size)
          /\ readBy' \in Nat \cup {Never} /\ tr'.grace = tr.grace
      BY <1>1, <2>1, <2>3, <2>6
    <3>2. writeBy' = IF readBy' = Never THEN Never ELSE readBy' + tr.grace
      BY <3>1 DEF UploadWriteBy
    <3> QED BY <3>1, <3>2 DEF Tied, Never, Past
  <2>7. ASSUME ~tr.read, tr.write PROVE Loose'
    <3> DEFINE r == UploadReadBy(tr, size)
    <3>1. writeBy' = IF r = Never THEN Never ELSE r + tr.grace
      BY <2>1, <2>7 DEF UploadWriteBy
    <3>2. Far(r)
      BY <2>2
    <3> HIDE DEF r
    <3>3. writeBy' # Past
      BY <1>3, <3>1, <3>2 DEF Never, Past
    <3>4. writeBy' \in Nat => /\ r # Never
                              /\ writeBy' >= tr.grace
                              /\ writeBy' - tr.grace + elapsed' + 1 = r + 1
      BY <1>1, <1>3, <3>1, <3>2 DEF Never
    <3>5. tr' = tr
      BY <1>1
    <3>6. writeBy' \in Nat => (writeBy' - tr'.grace + elapsed' + 1) * tr'.rate > body' * Second
      BY <3>2, <3>4, <3>5, Zenon
    <3>7. writeBy' \in Nat => writeBy' >= tr'.grace
      BY <3>4, <3>5, Zenon
    <3> QED BY <3>3, <3>6, <3>7, Zenon DEF Loose
  <2>8. tr' = tr
    BY <1>1
  <2>9. MovingOwed'
    BY <2>5, <2>6, <2>7, <2>8, Zenon DEF MovingOwed
  <2> QED BY <1>4, <1>6, <1>9, <2>9
<1> QED BY <1>5, <1>8, <1>9

\* When an upload's body ends, or is cut, its answer has the grace.
LEMMA BodyEnds ==
  ASSUME IInv, RateInv, phase = "moving", heard, kind = "upload",
         tr' = tr, writeBy' = writeBy, slow' = slow, elapsed' = 0
  PROVE  AnswerOwed'
<1>1. /\ readBy \in DeadlineValue /\ writeBy \in DeadlineValue /\ tr.grace \in Nat
      /\ MovingOwed
  BY DEF IInv, TypeOK, RateInv
<1>2. ~tr.write => writeBy = Never
  BY LeftAlone DEF InHandler
<1>3. CASE writeBy = Never
  BY <1>3 DEF AnswerOwed, Never, Past
<1>4. CASE tr.read /\ tr.write
  <2>1. Tied
    BY <1>1, <1>4 DEF MovingOwed
  <2> QED BY <1>1, <2>1 DEF Tied, AnswerOwed, NextTick, DeadlineValue, Never, Past
<1>5. CASE ~tr.read /\ tr.write
  <2>1. Loose
    BY <1>1, <1>5 DEF MovingOwed
  <2>2. CASE slow
    BY <1>5, <2>2 DEF AnswerOwed
  <2>3. CASE ~slow
    <3>1. writeBy # Past /\ (writeBy \in Nat => writeBy >= tr.grace)
      BY <2>1, <2>3 DEF Loose
    <3> QED BY <1>1, <3>1 DEF AnswerOwed
  <2> QED BY <2>2, <2>3
<1> QED BY <1>2, <1>3, <1>4, <1>5

\* A body ends, an answer ends, or a deadline passes under one of them.
LEMMA EndStep ==
  ASSUME IInv, RateInv,
         BodyRead \/ BodyWritten \/ BodyTimesOut \/ Answer \/ AnswerTimesOut
  PROVE  RateInv'
<1>1. ASSUME Finish, lost = "nothing" PROVE RateInv'
  <2>1. phase' = "idle" /\ UNCHANGED <<tr, made, lost>>
    BY <1>1 DEF Finish, Turn, wiringVars
  <2> QED BY <1>1, <2>1, NothingOwed DEF RateInv
<1>2. CASE BodyWritten
  <2>1. Finish /\ lost = "nothing"
    BY <1>2 DEF BodyWritten, RateInv
  <2> QED BY <1>1, <2>1
<1>3. CASE BodyRead
  <2>1. /\ phase = "moving" /\ kind = "upload" /\ phase' = "answering" /\ elapsed' = 0
        /\ UNCHANGED <<tr, made, kind, heard, slow, writeBy, lost>>
    BY <1>3 DEF BodyRead, Turn, wiringVars, requestVars, deadlineVars
  <2>2. lost = "nothing"
    BY <2>1 DEF RateInv
  <2>3. heard' => AnswerOwed'
    BY <2>1, BodyEnds
  <2> QED BY <2>1, <2>2, <2>3 DEF RateInv, RateIsEnough
<1>4. CASE BodyTimesOut
  <2>1. /\ phase = "moving" /\ Moving = Past /\ elapsed' = 0 /\ lost' = "body"
        /\ phase' = IF kind = "upload" THEN "answering" ELSE "closed"
        /\ UNCHANGED <<tr, made, kind, heard, slow, writeBy>>
    BY <1>4 DEF BodyTimesOut, Turn, wiringVars, requestVars, deadlineVars
  <2>2. heard => slow
    BY <2>1 DEF RateInv, MovingOwed, Reaches
  <2>3. phase' = "answering" /\ heard' => kind' = "upload" /\ AnswerOwed'
    BY <2>1, BodyEnds
  <2> QED BY <2>1, <2>2, <2>3 DEF RateInv, RateIsEnough
<1>5. CASE Answer
  <2>1. ASSUME Turn("closed"), UNCHANGED <<requestVars, deadlineVars, lost>>
        PROVE  RateInv'
    <3>1. /\ phase = "answering" /\ phase' = "closed"
          /\ UNCHANGED <<tr, made, heard, slow, lost>>
      BY <1>5, <2>1 DEF Answer, Turn, wiringVars, requestVars
    <3>2. lost # "answer"
      BY <3>1 DEF RateInv
    <3> QED BY <3>1, <3>2 DEF RateInv, RateIsEnough
  <2> QED BY <1>1, <1>5, <2>1 DEF Answer
<1>6. CASE AnswerTimesOut
  <2>1. /\ phase = "answering" /\ writeBy = Past /\ phase' = "closed" /\ lost' = "answer"
        /\ UNCHANGED <<tr, made, heard, slow, elapsed>>
    BY <1>6 DEF AnswerTimesOut, wiringVars, requestVars
  <2>2. heard => elapsed >= tr.grace \/ (slow /\ ~tr.read)
    BY <2>1 DEF RateInv, AnswerOwed
  <2> QED BY <2>1, <2>2 DEF RateInv, RateIsEnough
<1> QED BY <1>2, <1>3, <1>4, <1>5, <1>6

\* Once widened, a body that moves at the rate is never cut (transfer.go:14),
\* save for less than the tick its allowance is cut down by, and the answer
\* to an upload has the grace: for every size, limit, rate and grace.
THEOREM RateSuffices == Spec => []RateIsEnough
<1>1. Init => RateInv
  BY DEF Init, RateInv, RateIsEnough
<1>2. IInv /\ RateInv /\ [Next]_vars => RateInv'
  <2> SUFFICES ASSUME IInv, RateInv, [Next]_vars PROVE RateInv'
    OBVIOUS
  <2>1. CASE UNCHANGED vars
    <3>1. UNCHANGED <<tr, made, kind, size, body, slow, heard, readBy, writeBy, phase,
                     elapsed, lost>>
      BY <2>1 DEF vars, wiringVars, requestVars, deadlineVars
    <3> QED BY <3>1 DEF RateInv, RateIsEnough, MovingOwed, Moving, Reaches, Tied, Loose,
                        AnswerOwed
  <2> QED BY <2>1, BetweenStep, TickStep, WidenStep, EndStep DEF Next, Connection, Handler
<1>3. RateInv => RateIsEnough
  BY DEF RateInv
<1> QED BY <1>1, <1>2, <1>3, Invariance, PTL DEF Spec
=============================================================================
