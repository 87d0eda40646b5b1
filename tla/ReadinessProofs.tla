-------------------------- MODULE ReadinessProofs --------------------------
(***************************************************************************)
(* Proofs about Readiness and Documents, for any checks in any order and   *)
(* any number of requests under way.  What a probe has read is tied to the *)
(* moments at which it read it by Taken, its answer to what it has read by *)
(* AnswerInv, and every document to its own request by DocumentInv; no     *)
(* property is inductive without them.                                     *)
(***************************************************************************)
EXTENDS Documents, TLAPS

States == Seq(BOOLEAN)

\* TypeOK, with the values a probe's answer and its copied Extras take.
Typed ==
  /\ TypeOK
  /\ extras \in [Probes -> States]
  /\ answer \in [Probes -> [status : {0, 200, 503}, checks : States]]

\* What probe p has read so far, each check's state at a moment of the probe.
Taken(p) ==
  \A i \in DOMAIN results[p] :
    /\ results[p][i]  => list[p][i] \in seen[p]
    /\ ~results[p][i] => list[p][i] \in missed[p]

Whole(p) == Len(results[p]) = Len(list[p])

\* A probe answers, or is about to, with all it has read and nothing else.
AnswerInv(p) ==
  /\ phase[p] = "encoding" => Whole(p) /\ ~AllReady(p) /\ extras[p] = results[p]
  /\ Answered(p) => Whole(p) /\ answer[p].checks = results[p]
  /\ Answered(p) /\ answer[p].status = 200 => AllReady(p)
  /\ Answered(p) /\ answer[p].status = 503 => ~AllReady(p)

IInv == Typed /\ \A p \in Probes : Taken(p) /\ AnswerInv(p)

-----------------------------------------------------------------------------
(***************************************************************************)
(* The witnesses                                                           *)
(***************************************************************************)

\* A step witnesses names only, and forgets none of a probe that it does not
\* begin.
LEMMA WitnessGrows ==
  ASSUME Typed, Witness
  PROVE  /\ seen' \in [Probes -> SUBSET Names]
         /\ missed' \in [Probes -> SUBSET Names]
         /\ \A p \in Probes :
              phase[p] # "idle" \/ phase'[p] = "idle"
                => seen[p] \subseteq seen'[p] /\ missed[p] \subseteq missed'[p]
<1> DEFINE now == {n \in Names : CheckReady(n)'}
<1>1. now \subseteq Names
  OBVIOUS
<1> HIDE DEF now
<1>2. seen' = [p \in Probes |-> IF phase'[p] = "idle" THEN seen[p]
                 ELSE (IF phase[p] = "idle" THEN {} ELSE seen[p]) \cup now]
  BY DEF Witness, now
<1>3. missed' = [p \in Probes |-> IF phase'[p] = "idle" THEN missed[p]
                 ELSE (IF phase[p] = "idle" THEN {} ELSE missed[p]) \cup (Names \ now)]
  BY DEF Witness, now
<1> QED BY <1>1, <1>2, <1>3 DEF Typed, TypeOK

\* A check asked in a step is witnessed as it was found.
LEMMA WitnessesAnswer ==
  ASSUME Witness, NEW p \in Probes, NEW n \in Names,
         phase[p] = "checking", UNCHANGED <<phase, bound, up, ok>>
  PROVE  /\ CheckReady(n)  => n \in seen'[p]
         /\ ~CheckReady(n) => n \in missed'[p]
<1> DEFINE now == {m \in Names : CheckReady(m)'}
<1>1. n \in now <=> CheckReady(n)
  BY DEF CheckReady
<1> HIDE DEF now
<1>2. /\ seen'[p] = seen[p] \cup now
      /\ missed'[p] = missed[p] \cup (Names \ now)
  BY DEF Witness, now
<1> QED BY <1>1, <1>2

-----------------------------------------------------------------------------
(***************************************************************************)
(* The invariant                                                           *)
(***************************************************************************)

\* No probe has asked at first.
LEMMA Initially == Init => IInv
<1> SUFFICES ASSUME Init PROVE IInv
  OBVIOUS
<1> USE DEF Init
<1>1. <<>> \in Seq(Names) /\ <<>> \in States
  BY DEF States
<1>2. Typed
  <2>1. NoAnswer \in [status : {0, 200, 503}, checks : States]
    BY <1>1 DEF NoAnswer
  <2>2. results \in [Probes -> States] /\ extras \in [Probes -> States]
    BY <1>1
  <2>3. answer \in [Probes -> [status : {0, 200, 503}, checks : States]]
    BY <2>1
  <2>4. phase \in [Probes -> {"idle", "checking", "encoding"}] /\ list \in [Probes -> Seq(Names)]
    BY <1>1
  <2>5. \A p \in Probes : Len(results[p]) <= Len(list[p]) /\ answer[p].status \in {0, 200, 503}
    BY DEF NoAnswer
  <2>6. /\ mount \in {"readiness", "health"} /\ bound \in BOOLEAN
        /\ up \in {"starting", "ready", "draining"} /\ ok \subseteq Checks
        /\ seen \in [Probes -> SUBSET Names] /\ missed \in [Probes -> SUBSET Names]
    OBVIOUS
  <2> HIDE DEF Init
  <2> QED BY <2>2, <2>3, <2>4, <2>5, <2>6 DEF Typed, TypeOK, States
<1>3. ASSUME NEW p \in Probes PROVE Taken(p) /\ AnswerInv(p)
  BY DEF Taken, AnswerInv, Answered, NoAnswer
<1> QED BY <1>2, <1>3 DEF IInv

\* What becomes of the lifecycle and of the checks changes no probe.
LEMMA Surroundings ==
  ASSUME IInv, Witness, Bind \/ Run \/ \E n \in Checks : Toggle(n)
  PROVE  IInv'
<1> USE DEF IInv
<1>1. UNCHANGED <<mount, phase, list, results, extras, answer>>
  BY DEF Bind, Run, Toggle, probeVars
<1>2. bound' \in BOOLEAN /\ up' \in {"starting", "ready", "draining"} /\ ok' \subseteq Checks
  <2>1. bound \in BOOLEAN /\ up \in {"starting", "ready", "draining"} /\ ok \subseteq Checks
    BY DEF Typed, TypeOK
  <2> HIDE DEF IInv
  <2>2. CASE Bind
    BY <2>1, <2>2 DEF Bind
  <2>3. CASE Run
    BY <2>1, <2>3 DEF Run
  <2>4. ASSUME NEW n \in Checks, Toggle(n)
        PROVE  bound' = bound /\ up' = up /\ ok' \subseteq Checks
    BY <2>1, <2>4 DEF Toggle
  <2> QED BY <2>1, <2>2, <2>3, <2>4
<1>3. Typed'
  BY <1>1, <1>2, WitnessGrows DEF Typed, TypeOK
<1>4. ASSUME NEW p \in Probes PROVE Taken(p)' /\ AnswerInv(p)'
  <2>1. seen[p] \subseteq seen'[p] /\ missed[p] \subseteq missed'[p]
    BY <1>1, WitnessGrows
  <2>2. Taken(p)'
    BY <1>1, <2>1 DEF Taken
  <2> QED BY <1>1, <2>2 DEF AnswerInv, Answered, Whole, AllReady
<1> QED BY <1>3, <1>4

\* The checks a probe may list.
LEMMA ListsNames ==
  Order \in Seq(Names) /\ <<"lifecycle">> \o (IF bound THEN Order ELSE <<>>) \in Seq(Names)
<1>1. Order \in Seq(Names)
  BY ChecksAssumption DEF Names
<1>2. (IF bound THEN Order ELSE <<>>) \in Seq(Names)
  BY <1>1
<1>3. <<"lifecycle">> \in Seq(Names)
  BY DEF Names
<1> QED BY <1>1, <1>2, <1>3

\* A probe's own step leaves the others and their witnesses as they are.
LEMMA OthersKeep ==
  ASSUME IInv, Witness, NEW p \in Probes, Probe(p), NEW q \in Probes, q # p
  PROVE  Taken(q)' /\ AnswerInv(q)'
<1> USE DEF IInv
<1>1. /\ phase'[q] = phase[q] /\ list'[q] = list[q] /\ results'[q] = results[q]
      /\ extras'[q] = extras[q] /\ answer'[q] = answer[q]
  BY DEF Probe, Begin, AskNext, AnswerReady, CopyExtras, AnswerNotReady, Typed, TypeOK
<1>2. seen[q] \subseteq seen'[q] /\ missed[q] \subseteq missed'[q]
  BY <1>1, WitnessGrows
<1>3. Taken(q)'
  BY <1>1, <1>2 DEF Taken
<1> QED BY <1>1, <1>3 DEF AnswerInv, Answered, Whole, AllReady

\* Each step of a probe keeps the invariant of the probe.
LEMMA BeginKeeps ==
  ASSUME IInv, Witness, NEW p \in Probes, Begin(p)
  PROVE  Typed' /\ Taken(p)' /\ AnswerInv(p)'
<1> USE DEF IInv, Typed, TypeOK
<1>1. list'[p] \in Seq(Names) /\ results'[p] = <<>> /\ phase'[p] = "checking"
  BY ListsNames DEF Begin
<1>2. /\ list' \in [Probes -> Seq(Names)] /\ results' \in [Probes -> States]
      /\ phase' \in [Probes -> {"idle", "checking", "encoding"}]
  BY ListsNames DEF Begin, States
<1>3. answer' \in [Probes -> [status : {0, 200, 503}, checks : States]]
  BY DEF Begin, NoAnswer, States
<1>4. \A q \in Probes : Len(results'[q]) <= Len(list'[q])
                          /\ answer'[q].status \in {0, 200, 503}
  <2> TAKE q \in Probes
  <2>1. CASE q = p
    BY <1>1, <1>3, <2>1
  <2>2. CASE q # p
    BY <1>3, <2>2 DEF Begin
  <2> QED BY <2>1, <2>2
<1>5. Typed'
  BY <1>2, <1>3, <1>4, WitnessGrows DEF Begin, States
<1> QED BY <1>1, <1>5 DEF Taken, AnswerInv, Answered

\* A probe that asks one check more keeps its part of the invariant,
LEMMA AskNextKeeps ==
  ASSUME IInv, Witness, NEW p \in Probes, AskNext(p)
  PROVE  Typed' /\ Taken(p)' /\ AnswerInv(p)'
<1>w. /\ seen' \in [Probes -> SUBSET Names] /\ missed' \in [Probes -> SUBSET Names]
      /\ phase[p] # "idle" => seen[p] \subseteq seen'[p] /\ missed[p] \subseteq missed'[p]
  BY WitnessGrows DEF IInv
<1> USE DEF IInv, Typed, TypeOK
<1> DEFINE n == list[p][Len(results[p]) + 1]
<1>1. /\ phase[p] = "checking" /\ Len(results[p]) < Len(list[p])
      /\ results[p] \in States /\ list[p] \in Seq(Names)
  BY DEF AskNext, States
<1>2. n \in Names
  BY <1>1 DEF States
<1>3. UNCHANGED <<mount, bound, up, ok, phase, list, extras, answer>>
  BY DEF AskNext
<1>4. CheckReady(n) \in BOOLEAN
  <2>1. CASE n = "lifecycle"
    BY <2>1 DEF CheckReady
  <2>2. CASE n # "lifecycle"
    BY <2>2 DEF CheckReady
  <2> QED BY <2>1, <2>2
<1>5. results' = [results EXCEPT ![p] = Append(results[p], CheckReady(n))]
  BY DEF AskNext
<1> HIDE DEF n
<1>6. Append(results[p], CheckReady(n)) \in States
  BY <1>1, <1>4 DEF States
<1>7. results' \in [Probes -> States] /\ results'[p] = Append(results[p], CheckReady(n))
  BY <1>5, <1>6 DEF States
<1>8. \A q \in Probes : Len(results'[q]) <= Len(list[q])
  <2> TAKE q \in Probes
  <2>1. CASE q = p
    BY <1>1, <1>7, <1>4, <2>1 DEF States
  <2>2. CASE q # p
    BY <1>5, <2>2
  <2> QED BY <2>1, <2>2
<1>9. Typed'
  BY <1>w, <1>3, <1>7, <1>8 DEF States
<1>10. Taken(p)'
  <2> SUFFICES ASSUME NEW i \in DOMAIN results'[p]
               PROVE  /\ results'[p][i]  => list[p][i] \in seen'[p]
                      /\ ~results'[p][i] => list[p][i] \in missed'[p]
    BY <1>3 DEF Taken
  <2>1. CASE i \in DOMAIN results[p]
    <3>1. results'[p][i] = results[p][i]
      BY <1>1, <1>4, <1>7, <2>1 DEF States
    <3>2. seen[p] \subseteq seen'[p] /\ missed[p] \subseteq missed'[p]
      BY <1>w, <1>1
    <3> QED BY <2>1, <3>1, <3>2 DEF Taken
  <2>2. CASE i \notin DOMAIN results[p]
    <3>1. i = Len(results[p]) + 1
      BY <1>1, <1>4, <1>7, <2>2 DEF States
    <3>2. results'[p][i] = CheckReady(n) /\ list[p][i] = n
      BY <1>1, <1>4, <1>7, <3>1 DEF States, n
    <3> QED BY <1>1, <1>2, <1>3, <3>2, WitnessesAnswer
  <2> QED BY <2>1, <2>2
<1> QED BY <1>1, <1>3, <1>9, <1>10 DEF AnswerInv, Answered

\* and so does one that answers.
LEMMA AnswerKeeps ==
  ASSUME IInv, Witness, NEW p \in Probes,
         AnswerReady(p) \/ CopyExtras(p) \/ AnswerNotReady(p)
  PROVE  Typed' /\ Taken(p)' /\ AnswerInv(p)'
<1> USE DEF IInv, Typed, TypeOK, States
<1>1. UNCHANGED <<mount, bound, up, ok, list, results>> /\ phase[p] # "idle"
  BY DEF AnswerReady, CopyExtras, AnswerNotReady, Asked
<1>2. Typed'
  <2>1. results[p] \in States /\ extras[p] \in States /\ <<>> \in States
    OBVIOUS
  <2> HIDE DEF States
  <2>0. /\ phase \in [Probes -> {"idle", "checking", "encoding"}]
        /\ extras \in [Probes -> States]
        /\ answer \in [Probes -> [status : {0, 200, 503}, checks : States]]
    OBVIOUS
  <2> HIDE DEF IInv
  <2>2. phase' \in [Probes -> {"idle", "checking", "encoding"}]
    BY <2>0 DEF AnswerReady, CopyExtras, AnswerNotReady
  <2>3. extras' \in [Probes -> States]
    BY <2>0, <2>1 DEF AnswerReady, CopyExtras, AnswerNotReady
  <2>4. answer' \in [Probes -> [status : {0, 200, 503}, checks : States]]
    BY <2>0, <2>1 DEF AnswerReady, CopyExtras, AnswerNotReady
  <2>5. \A q \in Probes : answer'[q].status \in {0, 200, 503}
    BY <2>4
  <2> QED BY <1>1, <2>2, <2>3, <2>4, <2>5, WitnessGrows DEF IInv, States
<1>3. Taken(p)'
  BY <1>1, WitnessGrows DEF Taken
<1>4. AnswerInv(p)'
  BY <1>1 DEF AnswerReady, CopyExtras, AnswerNotReady, Asked, AnswerInv, Answered, Whole, AllReady
<1> QED BY <1>2, <1>3, <1>4

\* Every step keeps the invariant of every probe.
LEMMA Inductive == IInv /\ [Next]_vars => IInv'
<1> SUFFICES ASSUME IInv, [Next]_vars PROVE IInv'
  OBVIOUS
<1>1. CASE Witness /\ (Bind \/ Run \/ \E n \in Checks : Toggle(n))
  BY <1>1, Surroundings
<1>2. ASSUME Witness, NEW p \in Probes, Probe(p) PROVE IInv'
  <2>1. Typed' /\ Taken(p)' /\ AnswerInv(p)'
    BY <1>2, BeginKeeps, AskNextKeeps, AnswerKeeps DEF Probe
  <2>2. \A q \in Probes : q # p => Taken(q)' /\ AnswerInv(q)'
    BY <1>2, OthersKeep
  <2> QED BY <2>1, <2>2 DEF IInv
<1>3. CASE UNCHANGED vars
  BY <1>3 DEF vars, IInv, Typed, TypeOK, Taken, AnswerInv, Answered, Whole, AllReady
<1> QED BY <1>1, <1>2, <1>3 DEF Next

\* The invariant holds throughout.
LEMMA Invariance == Spec => []IInv
BY Initially, Inductive, PTL DEF Spec

-----------------------------------------------------------------------------
(***************************************************************************)
(* The theorems                                                            *)
(***************************************************************************)

\* Every variable of the probes and of what they ask keeps its type.
THEOREM Typing == Spec => []TypeOK
<1>1. IInv => TypeOK
  BY DEF IInv, Typed
<1> QED BY <1>1, Invariance, PTL

\* Concurrent probes share one notReady problem (health.go:80), yet each
\* reports the states that it has read itself, whatever the checks and however
\* many probes there are.
THEOREM OwnStates == Spec => []AnswersOwnStates
<1>1. IInv => AnswersOwnStates
  BY DEF IInv, AnswerInv, AnswersOwnStates
<1> QED BY <1>1, Invariance, PTL

\* However the checks change between the moments at which a probe asks them,
\* a 200's were each ready at one, and some check of a 503's was unready.
THEOREM TrueVerdicts == Spec => []VerdictsWereTrue
<1>1. ASSUME IInv, NEW p \in Probes, Answered(p), answer[p].status = 200
      PROVE  Listed(p) \subseteq seen[p]
  <2>1. DOMAIN results[p] = DOMAIN list[p] /\ AllReady(p)
    BY <1>1 DEF IInv, Typed, TypeOK, AnswerInv, Whole
  <2> QED BY <1>1, <2>1 DEF IInv, Taken, AllReady, Listed
<1>2. ASSUME IInv, NEW p \in Probes, Answered(p), answer[p].status = 503
      PROVE  Listed(p) \cap missed[p] # {}
  <2>1. DOMAIN results[p] = DOMAIN list[p] /\ ~AllReady(p)
    BY <1>2 DEF IInv, Typed, TypeOK, AnswerInv, Whole
  <2>2. PICK i \in DOMAIN results[p] : ~results[p][i]
    BY <2>1 DEF AllReady
  <2>3. list[p][i] \in missed[p] /\ list[p][i] \in Listed(p)
    BY <1>2, <2>1, <2>2 DEF IInv, Taken, Listed
  <2> QED BY <2>3
<1>3. IInv => VerdictsWereTrue
  BY <1>1, <1>2 DEF VerdictsWereTrue
<1> QED BY <1>3, Invariance, PTL

-----------------------------------------------------------------------------
(***************************************************************************)
(* A problem and its document                                              *)
(***************************************************************************)

\* Members set over a map make a map.
LEMMA OverIsMap ==
  ASSUME NEW m, NEW n, IsMap(m), IsMap(n)
  PROVE  IsMap(Over(m, n))
<1>1. DOMAIN Over(m, n) = DOMAIN m \cup DOMAIN n
  BY DEF Over
<1>2. \A k \in DOMAIN m \cup DOMAIN n : Over(m, n)[k] \in Values
  BY DEF Over, IsMap
<1> QED BY <1>1, <1>2 DEF Over, IsMap

\* The members that the program sets itself are maps of one member each.
LEMMA OwnMembers ==
  /\ \A s \in Texts : IsMap([request_id |-> Text(s)])
  /\ \A s \in Seq(BOOLEAN) : IsMap([checks |-> List(s)])
  /\ \A n \in Statuses : IsMap([status |-> Number(n)])
<1>1. ASSUME NEW s \in Texts PROVE IsMap([request_id |-> Text(s)])
  BY MembersAssumption DEF IsMap, Text, Values
<1>2. ASSUME NEW s \in Seq(BOOLEAN) PROVE IsMap([checks |-> List(s)])
  BY MembersAssumption DEF IsMap, List, Values
<1>3. ASSUME NEW n \in Statuses PROVE IsMap([status |-> Number(n)])
  BY MembersAssumption, TextsAssumption DEF IsMap, Number, Values, Standard
<1> QED BY <1>1, <1>2, <1>3

\* The standard members of a document: type and status always, another one
\* unless it is empty.
LEMMA StandardMembers ==
  ASSUME NEW p, IsProblem(p)
  PROVE  LET m == problemMembers(p)
         IN /\ IsMap(m)
            /\ DOMAIN m \subseteq Standard /\ "status" \in DOMAIN m
            /\ \A k \in Standard \ {"status"} :
                 /\ k \in DOMAIN m  => m[k] = Text(p[k])
                 /\ k \notin DOMAIN m => p[k] = Empty
            /\ m["status"] = Number(p.status)
<1> DEFINE all == [type |-> Text(p.type), title |-> Text(p.title), status |-> Number(p.status),
                   detail |-> Text(p.detail), instance |-> Text(p.instance)]
           own == {k \in Standard : k \in {"type", "status"} \/ p[k] # Empty}
           m == problemMembers(p)
<1>1. m = [k \in own |-> all[k]]
  BY DEF problemMembers, Restrict
<1>2. all["status"] = Number(p.status) /\ \A k \in Standard \ {"status"} : all[k] = Text(p[k])
  BY DEF Standard
<1>3. \A k \in Standard : all[k] \in Values
  <2>1. /\ p.status \in Int
        /\ p.type \in Texts /\ p.title \in Texts /\ p.detail \in Texts /\ p.instance \in Texts
    BY TextsAssumption DEF IsProblem
  <2> QED BY <2>1 DEF Standard, Text, Number, Values
<1>4. own \subseteq Standard /\ "status" \in own
  BY DEF Standard
<1>5. \A k \in Standard \ {"status"} : k \notin own => p[k] = Empty
  OBVIOUS
<1> HIDE DEF all, own, m
<1>6. DOMAIN m = own /\ \A k \in own : m[k] = all[k]
  BY <1>1
<1>7. IsMap(m)
  BY <1>1, <1>3, <1>4, MembersAssumption DEF IsMap
<1> QED BY <1>2, <1>4, <1>5, <1>6, <1>7 DEF m

\* What a document holds: the problem's status, the other Extras as they are,
\* and standard members that they leave alone.
LEMMA DocumentMembers ==
  ASSUME NEW p, IsProblem(p)
  PROVE  LET doc == MarshalJSON(p)
         IN /\ IsMap(doc)
            /\ DOMAIN doc = DOMAIN p.extras \cup DOMAIN problemMembers(p)
            /\ "status" \in DOMAIN doc /\ doc["status"] = Number(p.status)
            /\ \A k \in DOMAIN p.extras \ {"status"} : doc[k] = p.extras[k]
            /\ \A k \in DOMAIN problemMembers(p) \ DOMAIN p.extras :
                 doc[k] = problemMembers(p)[k]
<1> DEFINE m == problemMembers(p)
           base == Over(p.extras, m)
           doc == MarshalJSON(p)
<1>1. IsMap(p.extras) /\ p.status \in Statuses
  BY DEF IsProblem
<1>2. IsMap(m) /\ "status" \in DOMAIN m /\ m["status"] = Number(p.status)
  BY StandardMembers
<1> HIDE DEF m
<1>3. IsMap(base)
  BY <1>1, <1>2, OverIsMap
<1>4. DOMAIN base = DOMAIN p.extras \cup DOMAIN m
      /\ \A k \in DOMAIN base : base[k] = IF k \in DOMAIN p.extras THEN p.extras[k] ELSE m[k]
  BY DEF Over
<1> HIDE DEF base
<1>5. doc = Over([status |-> Number(p.status)], base)
  BY DEF MarshalJSON, base, m
<1>6. IsMap(doc)
  BY <1>1, <1>3, <1>5, OverIsMap, OwnMembers
<1>7. DOMAIN doc = {"status"} \cup DOMAIN base
      /\ \A k \in DOMAIN doc : doc[k] = IF k = "status" THEN Number(p.status) ELSE base[k]
  BY <1>5 DEF Over
<1> HIDE DEF doc
<1> QED BY <1>2, <1>4, <1>6, <1>7 DEF doc, m

\* A status is read back from its document, whatever spellings of the member
\* the Extras hold: the one written last is the problem's own.
THEOREM StatusReadsBack ==
  ASSUME NEW p, IsProblem(p)
  PROVE  UnmarshalJSON(MarshalJSON(p)).status = p.status
<1> DEFINE doc == MarshalJSON(p)
           said == Said(doc, "status")
<1>1. /\ DOMAIN doc \subseteq Members
      /\ "status" \in DOMAIN doc /\ doc["status"] = Number(p.status)
  BY DocumentMembers DEF IsMap
<1> HIDE DEF doc
<1>2. "status" \in said
  BY <1>1, MembersAssumption DEF Said, Number, Standard
<1>3. \A j \in said \ {"status"} : Before(j, "status") /\ ~Before("status", j)
  BY <1>1, MembersAssumption DEF Said, Standard
<1> DEFINE last == CHOOSE k \in said : \A j \in said \ {k} : Before(j, k)
<1>4. last \in said /\ \A j \in said \ {last} : Before(j, last)
  <2> HIDE DEF said
  <2> QED BY <1>2, <1>3
<1>5. last = "status"
  <2> HIDE DEF said, last
  <2> QED BY <1>2, <1>3, <1>4
<1>6. Field(doc, "status", 0) = doc[last][2]
  <2>1. Said(doc, "status") # {}
    BY <1>2
  <2> QED BY <2>1 DEF Field
<1> HIDE DEF last
<1>7. Field(doc, "status", 0) = p.status
  BY <1>1, <1>5, <1>6 DEF Number
<1> QED BY <1>7 DEF UnmarshalJSON, doc

\* A problem whose Extras name no standard member is read back whole from the
\* document it is written as.
THEOREM RoundTrip ==
  ASSUME NEW p, IsProblem(p), Conforming(p.extras)
  PROVE  LET doc == MarshalJSON(p)
         IN Decodes(doc) /\ UnmarshalJSON(doc) = p
<1> DEFINE doc == MarshalJSON(p)
           m == problemMembers(p)
<1>1. /\ IsMap(doc)
      /\ DOMAIN doc = DOMAIN p.extras \cup DOMAIN m
      /\ \A k \in DOMAIN p.extras \ {"status"} : doc[k] = p.extras[k]
      /\ \A k \in DOMAIN m \ DOMAIN p.extras : doc[k] = m[k]
  BY DocumentMembers
<1>2. /\ DOMAIN m \subseteq Standard
      /\ \A k \in Standard \ {"status"} : /\ k \in DOMAIN m  => m[k] = Text(p[k])
                                          /\ k \notin DOMAIN m => p[k] = Empty
      /\ "status" \in DOMAIN m /\ m["status"] = Number(p.status)
  BY StandardMembers
<1>3. \A k \in Standard : Folded[k] = k /\ k \notin DOMAIN p.extras
  BY MembersAssumption DEF Conforming
<1> HIDE DEF doc, m
<1>4. \A k \in DOMAIN doc : Folded[k] \in Standard => k \in DOMAIN m /\ Folded[k] = k
  BY <1>1, <1>2, <1>3 DEF Conforming
<1>5. \A k \in DOMAIN m : k \in DOMAIN doc /\ doc[k] = m[k]
  BY <1>1, <1>2, <1>3
<1>6. \A k \in DOMAIN m : m[k] = IF k = "status" THEN Number(p.status) ELSE Text(p[k])
  BY <1>2
<1>7. Decodes(doc)
  <2> SUFFICES ASSUME NEW k \in DOMAIN doc, Folded[k] \in Standard
               PROVE  doc[k][1] \in {IF Folded[k] = "status" THEN "number" ELSE "text", "null"}
    BY DEF Decodes
  <2>1. k \in DOMAIN m /\ Folded[k] = k
    BY <1>4
  <2> QED BY <1>5, <1>6, <2>1 DEF Number, Text
<1>8. \A s \in Standard : Said(doc, s) = {s} \cap DOMAIN m
  <2> TAKE s \in Standard
  <2>1. ASSUME NEW k \in Said(doc, s) PROVE k = s /\ s \in DOMAIN m
    BY <1>4, <2>1 DEF Said
  <2>2. ASSUME s \in DOMAIN m PROVE s \in Said(doc, s)
    BY <1>3, <1>5, <1>6, <2>2 DEF Said, Number, Text
  <2> QED BY <2>1, <2>2
<1>9. ASSUME NEW s \in Standard, NEW zero, s \in DOMAIN m PROVE Field(doc, s, zero) = p[s]
  <2>1. Said(doc, s) = {s}
    BY <1>8, <1>9
  <2>2. Field(doc, s, zero) = doc[s][2]
    BY <2>1 DEF Field
  <2> QED BY <1>5, <1>6, <1>9, <2>2 DEF Number, Text
<1>10. ASSUME NEW s \in Standard \ {"status"} PROVE Field(doc, s, Empty) = p[s]
  <2>1. CASE s \in DOMAIN m
    BY <1>9, <2>1
  <2>2. CASE s \notin DOMAIN m
    <3>1. Said(doc, s) = {}
      BY <1>8, <2>2
    <3> QED BY <1>2, <2>2, <3>1 DEF Field
  <2> QED BY <2>1, <2>2
<1>11. Field(doc, "status", 0) = p.status
  BY <1>2, <1>9 DEF Standard
<1>12. Restrict(doc, {k \in DOMAIN doc : Folded[k] \notin Standard}) = p.extras
  <2>1. {k \in DOMAIN doc : Folded[k] \notin Standard} = DOMAIN p.extras
    <3>1. \A k \in DOMAIN m : Folded[k] \in Standard
      BY <1>2, <1>3
    <3> QED BY <1>1, <3>1 DEF Conforming
  <2>2. \A k \in DOMAIN p.extras : doc[k] = p.extras[k]
    BY <1>1, <1>3 DEF Standard
  <2>3. p.extras = [k \in DOMAIN p.extras |-> p.extras[k]]
    BY DEF IsProblem, IsMap
  <2> QED BY <2>1, <2>2, <2>3 DEF Restrict
<1>13. UnmarshalJSON(doc) = p
  <2>1. UnmarshalJSON(doc) =
          [type |-> p.type, title |-> p.title, status |-> p.status, detail |-> p.detail,
           instance |-> p.instance, extras |-> p.extras]
    BY <1>10, <1>11, <1>12 DEF UnmarshalJSON, Standard
  <2>2. p = [type |-> p.type, title |-> p.title, status |-> p.status, detail |-> p.detail,
             instance |-> p.instance, extras |-> p.extras]
    BY DEF IsProblem
  <2> QED BY <2>1, <2>2
<1> QED BY <1>7, <1>13 DEF doc

\* What WriteFor sends of a problem is a problem, with a status; its Extras
\* are the problem's, but for the id of a request that has one.
LEMMA WriteForSends ==
  ASSUME NEW p, IsProblem(p), NEW path \in Texts, NEW i \in Texts
  PROVE  /\ IsProblem(WriteFor(p, path, i))
         /\ WriteFor(p, path, i).status # 0
         /\ WriteFor(p, path, i).extras =
              IF i = Empty THEN p.extras ELSE Over([request_id |-> Text(i)], p.extras)
<1> DEFINE e == IF i = Empty THEN p.extras ELSE Over([request_id |-> Text(i)], p.extras)
           status == IF p.status = 0 THEN 500 ELSE p.status
           instance == IF p.instance = Empty THEN path ELSE p.instance
           type == IF p.type = Empty THEN "blank" ELSE p.type
           title == IF p.title = Empty THEN StatusText[status] ELSE p.title
<1>1. /\ p.type \in Texts /\ p.title \in Texts /\ p.status \in Statuses
      /\ p.detail \in Texts /\ p.instance \in Texts /\ IsMap(p.extras)
      /\ p = [type |-> p.type, title |-> p.title, status |-> p.status, detail |-> p.detail,
              instance |-> p.instance, extras |-> p.extras]
  BY DEF IsProblem
<1>2. IsMap(e)
  BY <1>1, OverIsMap, OwnMembers
<1>3. status \in Statuses /\ status # 0
  BY <1>1, TextsAssumption
<1>4. title \in Texts /\ type \in Texts /\ instance \in Texts
  <2>1. StatusText[status] \in Texts
    <3>1. StatusText \in [Statuses -> Texts]
      BY TextsAssumption
    <3> HIDE DEF status
    <3> QED BY <1>3, <3>1
  <2>2. title = p.title \/ title = StatusText[status]
    OBVIOUS
  <2>3. (type = p.type \/ type = "blank") /\ (instance = p.instance \/ instance = path)
    OBVIOUS
  <2>4. "blank" \in Texts
    BY TextsAssumption
  <2> HIDE DEF status, instance, type, title
  <2> QED BY <1>1, <2>1, <2>2, <2>3, <2>4
<1>5. WriteFor(p, path, i) =
        [type |-> type, title |-> title, status |-> status, detail |-> p.detail,
         instance |-> instance, extras |-> e]
  BY DEF WriteFor, applyDefaults
<1> HIDE DEF e, status, instance, type, title
<1>6. IsProblem(WriteFor(p, path, i))
  BY <1>1, <1>2, <1>3, <1>4, <1>5 DEF IsProblem
<1> QED BY <1>3, <1>5, <1>6 DEF e

-----------------------------------------------------------------------------
(***************************************************************************)
(* The invariant of the documents                                          *)
(***************************************************************************)

\* The problem a request holds, with the Extras it has now.
Held(r) == [held[r] EXCEPT !.extras = Extras(r)]

\* A document is its own request's: whatever the others do meanwhile, what a
\* request holds is what it failed with, then what WriteFor makes of that, and
\* its answer is that document.
DocumentInv(r) ==
  /\ step[r] = "failed"  => Held(r) = Failing(r)
  /\ step[r] = "stamped" => Held(r) = Written(r)
  /\ Sent(r) => /\ step[r] = "idle"
                /\ sent[r] = [status |-> Written(r).status, doc |-> MarshalJSON(Written(r))]
  /\ r \in Probes => /\ which[r] = "notReady"
                     /\ phase[r] = "encoding" <=> step[r] # "idle"
                     /\ Sent(r) => phase[r] = "idle"

\* No step writes to a map of the program's.
DocInv ==
  /\ RequestsTypeOK
  /\ held = [r \in Requests |-> held[r]] /\ sent = [r \in Requests |-> sent[r]]
  /\ given = [s \in DOMAIN Declared |-> Declared[s].extras]
  /\ \A r \in Requests : DocumentInv(r)

\* Every step of Documents is one of Readiness, or none.
LEMMA ProbesAsBefore == DocumentsSpec => Spec
<1>1. DocumentsInit => Init
  BY DEF DocumentsInit
<1>2. [DocumentsNext]_<<vars, docVars>> => [Next]_vars
  BY DEF DocumentsNext, Next, Probe, SurroundingsChange, ProbeBegins, ProbeGoesOn, ProbeFails,
         ProbeAnswers, HandlerFails, HandlerAnswers, Stamp
<1> QED BY <1>1, <1>2, PTL DEF DocumentsSpec, Spec

\* What a request fails with, and what is written of it, are problems, whatever
\* it has read.
LEMMA FailingIsProblem ==
  ASSUME IInv, RequestsTypeOK, NEW r \in Requests
  PROVE  /\ IsProblem(Failing(r)) /\ IsProblem(Written(r)) /\ Written(r).status # 0
         /\ Written(r).extras =
              IF id[r] = Empty THEN Failing(r).extras
              ELSE Over([request_id |-> Text(id[r])], Failing(r).extras)
         /\ r \in Probes =>
              Failing(r).extras = Over([checks |-> List(results[r])], Declared["notReady"].extras)
<1>1. IsProblem(Failing(r))
  <2>1. CASE r \in Probes
    <3> DEFINE d == Declared["notReady"]
               e == Over([checks |-> List(results[r])], d.extras)
               detail == IF d.detail = Empty THEN "failed" ELSE d.detail
    <3>1. IsProblem(d)
      BY DocumentsAssumption
    <3>2. IsMap(e)
      <4>1. results[r] \in Seq(BOOLEAN)
        BY <2>1 DEF IInv, Typed, TypeOK
      <4>2. IsMap([checks |-> List(results[r])])
        BY <4>1, OwnMembers
      <4> QED BY <3>1, <4>2, OverIsMap DEF IsProblem
    <3>3. Failing(r) = [type |-> d.type, title |-> d.title, status |-> 503, detail |-> detail,
                        instance |-> d.instance, extras |-> e]
      BY <2>1 DEF Failing, NotReady
    <3>4. d.type \in Texts /\ d.title \in Texts /\ d.instance \in Texts /\ detail \in Texts
      <4>1. d.detail \in Texts /\ "failed" \in Texts
        BY <3>1, TextsAssumption DEF IsProblem
      <4> QED BY <3>1, <4>1 DEF IsProblem
    <3>5. 503 \in Statuses
      BY TextsAssumption
    <3> HIDE DEF d, e, detail
    <3> QED BY <3>2, <3>3, <3>4, <3>5 DEF IsProblem
  <2>2. CASE r \notin Probes
    BY <2>2, DocumentsAssumption DEF Failing, RequestsTypeOK
  <2> QED BY <2>1, <2>2
<1>2. PathOf[r] \in Texts /\ id[r] \in Texts
  <2>1. PathOf[r] \in Texts
    BY DocumentsAssumption
  <2>2. id[r] \in Ids \/ id[r] = Empty
    BY DEF RequestsTypeOK
  <2>3. Ids \subseteq Texts /\ Empty \in Texts
    BY DocumentsAssumption, TextsAssumption
  <2> QED BY <2>1, <2>2, <2>3
<1>3. ASSUME r \in Probes
      PROVE  Failing(r).extras = Over([checks |-> List(results[r])], Declared["notReady"].extras)
  BY <1>3 DEF Failing, NotReady
<1> QED BY <1>1, <1>2, <1>3, WriteForSends DEF Written

\* Replacing a problem's Extras by a map gives a problem.
LEMMA HeldIsProblem ==
  ASSUME DocInv, NEW r \in Requests
  PROVE  IsMap(Extras(r)) /\ IsProblem(Held(r)) /\ Held(r).status = held[r].status
<1>1. /\ IsProblem(held[r]) /\ which[r] \in DOMAIN Declared /\ DOMAIN given = DOMAIN Declared
      /\ \A s \in DOMAIN given : IsMap(given[s])
  BY DEF DocInv, RequestsTypeOK
<1>2. IsMap(Extras(r))
  <2>1. IsMap(held[r].extras)
    BY <1>1 DEF IsProblem
  <2>2. IsMap(given[which[r]])
    BY <1>1
  <2> QED BY <2>1, <2>2 DEF Extras
<1> QED BY <1>1, <1>2 DEF Held, IsProblem

\* Nothing has been written at first.
LEMMA DocInitially == DocumentsInit => DocInv
<1> SUFFICES ASSUME DocumentsInit PROVE DocInv
  OBVIOUS
<1> USE DEF DocumentsInit
<1>1. RequestsTypeOK
  <2>1. \A s \in DOMAIN given : IsMap(given[s])
    BY DocumentsAssumption DEF IsProblem
  <2>2. which \in [Requests -> DOMAIN Declared] /\ \A r \in Requests : IsProblem(held[r])
    BY DocumentsAssumption
  <2>3. /\ DOMAIN given = DOMAIN Declared
        /\ step \in [Requests -> {"idle", "failed", "stamped"}]
        /\ id \in [Requests -> Ids \cup {Empty}] /\ owned \in [Requests -> BOOLEAN]
        /\ \A r \in Requests : sent[r] = Nothing
    OBVIOUS
  <2> QED BY <2>1, <2>2, <2>3 DEF RequestsTypeOK
<1>2. ASSUME NEW r \in Requests PROVE DocumentInv(r)
  <2>1. step[r] = "idle" /\ ~Sent(r) /\ which[r] = "notReady"
    BY DEF Sent
  <2>2. r \in Probes => phase[r] = "idle"
    BY DEF Init
  <2> QED BY <2>1, <2>2 DEF DocumentInv
<1> QED BY <1>1, <1>2 DEF DocInv

\* A request that no step of another touches keeps its document, as long as no
\* map of the program's is written to.
LEMMA OthersKeepDocuments ==
  ASSUME NEW r \in Requests, DocumentInv(r), given' = given,
         step'[r] = step[r], which'[r] = which[r], id'[r] = id[r], held'[r] = held[r],
         owned'[r] = owned[r], sent'[r] = sent[r],
         r \in Probes => /\ phase'[r] = "encoding" <=> phase[r] = "encoding"
                         /\ Sent(r) => phase'[r] = "idle"
                         /\ step[r] # "idle" \/ Sent(r) => results'[r] = results[r]
  PROVE  DocumentInv(r)'
<1>1. Held(r)' = Held(r) /\ (Sent(r)' <=> Sent(r))
  BY DEF Held, Extras, Sent
<1>2. step[r] # "idle" \/ Sent(r) => Failing(r)' = Failing(r) /\ Written(r)' = Written(r)
  BY DEF Failing, Written
<1> HIDE DEF Held
<1> QED BY <1>1, <1>2 DEF DocumentInv

\* What the lifecycle and the checks do touches no document.
LEMMA SurroundingsKeepDocuments ==
  ASSUME DocInv, SurroundingsChange
  PROVE  DocInv'
<1>1. UNCHANGED <<docVars, phase, results>>
  BY DEF SurroundingsChange, Bind, Run, Toggle, probeVars
<1>2. RequestsTypeOK'
  BY <1>1 DEF DocInv, RequestsTypeOK, docVars
<1>3. ASSUME NEW r \in Requests PROVE DocumentInv(r)'
  <2>1. DocumentInv(r)
    BY DEF DocInv
  <2>2. r \in Probes => (Sent(r) => phase'[r] = "idle")
    BY <1>1, <2>1 DEF DocumentInv
  <2> QED BY <1>1, <2>1, <2>2, OthersKeepDocuments DEF docVars
<1> QED BY <1>1, <1>2, <1>3 DEF DocInv, docVars

\* A probe that begins gives up its last document, and writes none while it
\* asks or when all are ready.
LEMMA ProbeAsksKeeps ==
  ASSUME IInv, DocInv, NEW p \in Probes, ProbeBegins(p) \/ ProbeGoesOn(p)
  PROVE  DocInv'
<1>1. /\ UNCHANGED <<given, step, which, held, owned>>
      /\ phase[p] # "encoding" /\ phase'[p] # "encoding"
      /\ \A r \in Requests : r # p => id'[r] = id[r] /\ sent'[r] = sent[r]
      /\ \A q \in Probes : q # p => phase'[q] = phase[q] /\ results'[q] = results[q]
  <2>1. phase \in [Probes -> {"idle", "checking", "encoding"}] /\ results \in [Probes -> Seq(BOOLEAN)]
    BY DEF IInv, Typed, TypeOK
  <2>2. /\ id \in [Requests -> Ids \cup {Empty}]
        /\ sent = [r \in Requests |-> sent[r]]
    BY DEF DocInv, RequestsTypeOK
  <2>3. CASE ProbeBegins(p)
    BY <2>1, <2>2, <2>3 DEF ProbeBegins, Begin
  <2>4. CASE ProbeGoesOn(p)
    BY <2>1, <2>4 DEF ProbeGoesOn, AskNext, AnswerReady, Asked, docVars
  <2> QED BY <2>3, <2>4
<1>2. /\ id' \in [Requests -> Ids \cup {Empty}] /\ sent' = [r \in Requests |-> sent'[r]]
      /\ (sent'[p] = Nothing \/ (phase[p] = "checking" /\ UNCHANGED sent))
  <2>1. /\ id \in [Requests -> Ids \cup {Empty}] /\ p \in Requests
        /\ sent = [r \in Requests |-> sent[r]]
    BY DEF DocInv, RequestsTypeOK, Requests
  <2>2. CASE ProbeBegins(p)
    <3>1. id' = [id EXCEPT ![p] = Empty]
      BY <2>2 DEF ProbeBegins
    <3>2. sent' = [sent EXCEPT ![p] = Nothing]
      BY <2>2 DEF ProbeBegins
    <3>3. id' \in [Requests -> Ids \cup {Empty}]
      BY <2>1, <3>1
    <3>4. sent' = [r \in Requests |-> sent'[r]] /\ sent'[p] = Nothing
      BY <2>1, <3>2
    <3> QED BY <3>3, <3>4
  <2>3. CASE ProbeGoesOn(p)
    BY <2>1, <2>3 DEF ProbeGoesOn, AskNext, AnswerReady, Asked, docVars
  <2> QED BY <2>2, <2>3
<1>3. RequestsTypeOK'
  <2>1. \A r \in Requests : sent'[r] = sent[r] \/ sent'[r] = Nothing
    BY <1>1, <1>2
  <2> QED BY <1>1, <1>2, <2>1 DEF DocInv, RequestsTypeOK
<1>4. ASSUME NEW r \in Requests, r # p PROVE DocumentInv(r)'
  <2>1. DocumentInv(r)
    BY DEF DocInv
  <2>2. r \in Probes => (Sent(r) => phase'[r] = "idle")
    BY <1>1, <1>4, <2>1 DEF DocumentInv
  <2> QED BY <1>1, <1>4, <2>1, <2>2, OthersKeepDocuments
<1>5. DocumentInv(p)'
  <2>1. DocumentInv(p) /\ p \in Requests
    BY DEF DocInv, Requests
  <2>2. step[p] = "idle"
    BY <1>1, <2>1 DEF DocumentInv
  <2>3. ~Sent(p)'
    <3>1. CASE sent'[p] = Nothing
      BY <3>1 DEF Sent
    <3>2. CASE phase[p] = "checking" /\ UNCHANGED sent
      BY <2>1, <3>2 DEF Sent, DocumentInv
    <3> QED BY <1>2, <3>1, <3>2
  <2> QED BY <1>1, <2>1, <2>2, <2>3 DEF DocumentInv
<1> QED BY <1>1, <1>2, <1>3, <1>4, <1>5 DEF DocInv

\* A step that writes to a request's own state only, and keeps its types and
\* its document, keeps the invariant.
LEMMA OwnStepKeeps ==
  ASSUME DocInv, NEW r \in Requests, given' = given,
         NEW st, NEW w, NEW i, NEW h, NEW o, NEW a,
         step' = [step EXCEPT ![r] = st], st \in {"idle", "failed", "stamped"},
         which' = [which EXCEPT ![r] = w], w \in DOMAIN Declared,
         id' = [id EXCEPT ![r] = i], i \in Ids \cup {Empty},
         held' = [held EXCEPT ![r] = h], IsProblem(h),
         owned' = [owned EXCEPT ![r] = o], o \in BOOLEAN,
         sent' = [sent EXCEPT ![r] = a],
         a = Nothing \/ (a.status \in Statuses \ {0} /\ IsMap(a.doc)),
         \A q \in Probes : q # r => phase'[q] = phase[q] /\ results'[q] = results[q],
         DocumentInv(r)'
  PROVE  DocInv'
<1>1. /\ step'[r] = st /\ which'[r] = w /\ id'[r] = i /\ held'[r] = h /\ owned'[r] = o
      /\ sent'[r] = a
      /\ \A q \in Requests \ {r} :
           /\ step'[q] = step[q] /\ which'[q] = which[q] /\ id'[q] = id[q]
           /\ held'[q] = held[q] /\ owned'[q] = owned[q] /\ sent'[q] = sent[q]
  <2>1. sent = [q \in Requests |-> sent[q]] /\ held = [q \in Requests |-> held[q]]
    BY DEF DocInv
  <2> QED BY <2>1 DEF DocInv, RequestsTypeOK
<1>2. /\ step' \in [Requests -> {"idle", "failed", "stamped"}]
      /\ which' \in [Requests -> DOMAIN Declared]
      /\ id' \in [Requests -> Ids \cup {Empty}]
      /\ owned' \in [Requests -> BOOLEAN]
      /\ held' = [q \in Requests |-> held'[q]] /\ sent' = [q \in Requests |-> sent'[q]]
  <2>1. step' \in [Requests -> {"idle", "failed", "stamped"}]
    BY DEF DocInv, RequestsTypeOK
  <2>2. which' \in [Requests -> DOMAIN Declared]
    BY DEF DocInv, RequestsTypeOK
  <2>3. id' \in [Requests -> Ids \cup {Empty}]
    BY DEF DocInv, RequestsTypeOK
  <2>4. owned' \in [Requests -> BOOLEAN]
    BY DEF DocInv, RequestsTypeOK
  <2>5. held' = [q \in Requests |-> held'[q]] /\ sent' = [q \in Requests |-> sent'[q]]
    <3>1. held = [q \in Requests |-> held[q]] /\ sent = [q \in Requests |-> sent[q]]
      BY DEF DocInv
    <3> QED BY <3>1
  <2> QED BY <2>1, <2>2, <2>3, <2>4, <2>5
<1>3. RequestsTypeOK'
  <2>1. \A q \in Requests : /\ IsProblem(held'[q])
                            /\ \/ sent'[q] = Nothing
                               \/ sent'[q].status \in Statuses \ {0} /\ IsMap(sent'[q].doc)
    BY <1>1 DEF DocInv, RequestsTypeOK
  <2> QED BY <1>2, <2>1 DEF DocInv, RequestsTypeOK
<1>4. ASSUME NEW q \in Requests, q # r PROVE DocumentInv(q)'
  <2>1. DocumentInv(q)
    BY DEF DocInv
  <2>2. q \in Probes => (Sent(q) => phase'[q] = "idle")
    BY <1>4, <2>1 DEF DocumentInv
  <2> QED BY <1>1, <1>4, <2>1, <2>2, OthersKeepDocuments
<1> QED BY <1>2, <1>3, <1>4 DEF DocInv

\* A probe that fails holds notReady over its own copy of the Extras,
LEMMA ProbeFailsKeeps ==
  ASSUME IInv, DocInv, NEW p \in Probes, ProbeFails(p)
  PROVE  DocInv'
<1> DEFINE h == NotReady(given["notReady"], results[p])
<1> PICK i \in Ids \cup {Empty} : id' = [id EXCEPT ![p] = i]
  BY DEF ProbeFails
<1>1. /\ UNCHANGED <<given, sent>>
      /\ held' = [held EXCEPT ![p] = h]
      /\ owned' = [owned EXCEPT ![p] = TRUE]
      /\ which' = [which EXCEPT ![p] = "notReady"]
      /\ step' = [step EXCEPT ![p] = "failed"]
  BY DEF ProbeFails
<1>2. /\ phase[p] = "checking" /\ phase'[p] = "encoding" /\ results' = results
      /\ \A q \in Probes : q # p => phase'[q] = phase[q]
  BY DEF ProbeFails, CopyExtras, Asked, IInv, Typed, TypeOK
<1>3. p \in Requests /\ "notReady" \in DOMAIN Declared /\ given["notReady"] = Declared["notReady"].extras
  BY DocumentsAssumption DEF Requests, DocInv
<1>4. h = Failing(p) /\ IsProblem(h)
  BY <1>3, FailingIsProblem DEF Failing, DocInv
<1> HIDE DEF h
<1>5. /\ sent' = [sent EXCEPT ![p] = sent[p]]
      /\ sent[p] = Nothing \/ (sent[p].status \in Statuses \ {0} /\ IsMap(sent[p].doc))
  BY <1>1, <1>3 DEF DocInv, RequestsTypeOK
<1>6. /\ held'[p] = h /\ owned'[p] = TRUE /\ which'[p] = "notReady" /\ step'[p] = "failed"
  <2>1. /\ DOMAIN held = Requests /\ DOMAIN owned = Requests /\ DOMAIN which = Requests
        /\ DOMAIN step = Requests
    BY DEF DocInv, RequestsTypeOK
  <2> QED BY <1>1, <1>3, <2>1
<1>7. ~Sent(p) /\ ~Sent(p)'
  BY <1>1, <1>2, <1>3 DEF Sent, DocInv, DocumentInv
<1>8. DocumentInv(p)'
  <2>1. Held(p)' = [h EXCEPT !.extras = h.extras]
    BY <1>6 DEF Held, Extras
  <2>2. [h EXCEPT !.extras = h.extras] = h
    BY <1>4 DEF IsProblem
  <2>3. Failing(p)' = Failing(p)
    BY <1>2 DEF Failing
  <2> QED BY <1>2, <1>4, <1>6, <1>7, <2>1, <2>2, <2>3 DEF DocumentInv
<1> QED BY <1>1, <1>2, <1>3, <1>4, <1>5, <1>8, OwnStepKeeps

\* a handler that fails holds a declared problem and its map,
LEMMA HandlerFailsKeeps ==
  ASSUME IInv, DocInv, NEW h \in Handlers, HandlerFails(h)
  PROVE  DocInv'
<1>1. PICK s \in DOMAIN Declared : /\ which' = [which EXCEPT ![h] = s]
                                   /\ held' = [held EXCEPT ![h] = Declared[s]]
  BY DEF HandlerFails
<1>2. PICK i \in Ids \cup {Empty} : id' = [id EXCEPT ![h] = i]
  BY DEF HandlerFails
<1>3. /\ UNCHANGED <<given, phase, results>>
      /\ owned' = [owned EXCEPT ![h] = FALSE]
      /\ step' = [step EXCEPT ![h] = "failed"]
      /\ sent' = [sent EXCEPT ![h] = Nothing]
  BY DEF HandlerFails, vars
<1>4. h \in Requests /\ h \notin Probes /\ IsProblem(Declared[s])
      /\ given[s] = Declared[s].extras
  BY DocumentsAssumption DEF Requests, DocInv
<1>5. /\ DOMAIN held = Requests /\ DOMAIN owned = Requests /\ DOMAIN which = Requests
      /\ DOMAIN step = Requests /\ DOMAIN sent = Requests
  BY DEF DocInv, RequestsTypeOK
<1>6. /\ held'[h] = Declared[s] /\ owned'[h] = FALSE /\ which'[h] = s /\ step'[h] = "failed"
      /\ sent'[h] = Nothing
  BY <1>1, <1>3, <1>4, <1>5
<1>7. DocumentInv(h)'
  <2>1. Held(h)' = [Declared[s] EXCEPT !.extras = Declared[s].extras]
    BY <1>3, <1>4, <1>6 DEF Held, Extras
  <2>2. [Declared[s] EXCEPT !.extras = Declared[s].extras] = Declared[s]
    BY <1>4 DEF IsProblem
  <2>3. Failing(h)' = Declared[s]
    BY <1>4, <1>6 DEF Failing
  <2> QED BY <1>4, <1>6, <2>1, <2>2, <2>3 DEF DocumentInv, Sent
<1> QED BY <1>1, <1>2, <1>3, <1>4, <1>7, OwnStepKeeps

\* WriteFor makes of what it holds what is written, in a map of its own if the
\* request has an id,
LEMMA StampKeeps ==
  ASSUME IInv, DocInv, NEW r \in Requests, Stamp(r)
  PROVE  DocInv'
<1> DEFINE h == WriteFor(Held(r), PathOf[r], id[r])
           o == owned[r] \/ id[r] # Empty
<1>1. /\ UNCHANGED <<given, phase, results, which, id, sent>> /\ step[r] = "failed"
      /\ held' = [held EXCEPT ![r] = h]
      /\ owned' = [owned EXCEPT ![r] = o]
      /\ step' = [step EXCEPT ![r] = "stamped"]
  BY DEF Stamp, vars, Held
<1>2. Held(r) = Failing(r) /\ ~Sent(r)
  BY <1>1 DEF DocInv, DocumentInv
<1>3. h = Written(r) /\ IsProblem(h)
  BY <1>2, FailingIsProblem DEF Written, DocInv
<1>4. h.extras = IF id[r] = Empty THEN Extras(r) ELSE h.extras
  <2>1. Held(r).extras = Extras(r)
    BY DEF Held, DocInv, RequestsTypeOK, IsProblem
  <2> QED BY <1>2, <1>3, <2>1, FailingIsProblem DEF DocInv
<1> HIDE DEF h
<1>5. /\ DOMAIN held = Requests /\ DOMAIN owned = Requests /\ DOMAIN step = Requests
      /\ DOMAIN which = Requests /\ DOMAIN sent = Requests /\ DOMAIN id = Requests
      /\ owned[r] \in BOOLEAN /\ which[r] \in DOMAIN Declared /\ id[r] \in Ids \cup {Empty}
      /\ sent[r] = Nothing \/ (sent[r].status \in Statuses \ {0} /\ IsMap(sent[r].doc))
  BY DEF DocInv, RequestsTypeOK
<1>6. held'[r] = h /\ owned'[r] = o /\ step'[r] = "stamped" /\ o \in BOOLEAN
  BY <1>1, <1>5
<1>7. /\ which' = [which EXCEPT ![r] = which[r]] /\ id' = [id EXCEPT ![r] = id[r]]
      /\ sent' = [sent EXCEPT ![r] = sent[r]]
  BY <1>1, <1>5 DEF DocInv, RequestsTypeOK
<1>8. DocumentInv(r)'
  <2>1. Extras(r)' = h.extras
    <3>1. CASE owned[r] \/ id[r] # Empty
      BY <1>6, <3>1 DEF Extras
    <3>2. CASE ~owned[r] /\ id[r] = Empty
      BY <1>1, <1>4, <1>6, <3>2 DEF Extras
    <3> QED BY <3>1, <3>2
  <2>2. Held(r)' = h
    BY <1>3, <1>6, <2>1 DEF Held, IsProblem
  <2>3. Written(r)' = Written(r) /\ ~Sent(r)'
    BY <1>1, <1>2 DEF Written, Failing, Sent
  <2>4. r \in Probes => which'[r] = "notReady" /\ phase'[r] = "encoding"
    BY <1>1 DEF DocInv, DocumentInv
  <2> QED BY <1>3, <1>6, <2>2, <2>3, <2>4 DEF DocumentInv
<1> HIDE DEF o
<1> QED BY <1>1, <1>3, <1>5, <1>6, <1>7, <1>8, OwnStepKeeps

\* and the document is encoded from what is written.
LEMMA AnswersKeep ==
  ASSUME IInv, DocInv, NEW r \in Requests, Encode(r),
         r \in Probes => AnswerNotReady(r),
         r \notin Probes => UNCHANGED vars
  PROVE  DocInv'
<1> DEFINE a == [status |-> held[r].status, doc |-> MarshalJSON(Held(r))]
           d == Declared["notReady"]
<1>1. /\ UNCHANGED <<given, which, id>> /\ step[r] = "stamped"
      /\ held' = [held EXCEPT ![r] = d]
      /\ owned' = [owned EXCEPT ![r] = FALSE]
      /\ sent' = [sent EXCEPT ![r] = a]
      /\ step' = [step EXCEPT ![r] = "idle"]
  BY DEF Encode, Held
<1>2. /\ results' = results /\ \A q \in Probes : q # r => phase'[q] = phase[q]
      /\ r \in Probes => phase'[r] = "idle"
  BY DEF AnswerNotReady, IInv, Typed, TypeOK, vars
<1>3. Held(r) = Written(r)
  BY <1>1 DEF DocInv, DocumentInv
<1>4. a = [status |-> Written(r).status, doc |-> MarshalJSON(Written(r))]
  BY <1>3, HeldIsProblem
<1>5. a.status \in Statuses \ {0} /\ IsMap(a.doc)
  <2>1. IsProblem(Written(r)) /\ Written(r).status # 0
    BY FailingIsProblem DEF DocInv
  <2>2. IsMap(MarshalJSON(Written(r))) /\ Written(r).status \in Statuses
    BY <2>1, DocumentMembers DEF IsProblem
  <2> HIDE DEF a
  <2> QED BY <1>4, <2>1, <2>2
<1> HIDE DEF a
<1>6. /\ DOMAIN held = Requests /\ DOMAIN owned = Requests /\ DOMAIN step = Requests
      /\ DOMAIN which = Requests /\ DOMAIN sent = Requests /\ DOMAIN id = Requests
      /\ which[r] \in DOMAIN Declared /\ id[r] \in Ids \cup {Empty}
      /\ IsProblem(d)
  BY DocumentsAssumption DEF DocInv, RequestsTypeOK
<1>7. which' = [which EXCEPT ![r] = which[r]] /\ id' = [id EXCEPT ![r] = id[r]]
  BY <1>1, <1>6 DEF DocInv, RequestsTypeOK
<1>8. DocumentInv(r)'
  <2>1. sent'[r] = a /\ step'[r] = "idle"
    BY <1>1, <1>6
  <2>2. Written(r)' = Written(r)
    BY <1>1, <1>2 DEF Written, Failing
  <2>3. r \in Probes => which'[r] = "notReady" /\ phase'[r] = "idle"
    BY <1>1, <1>2 DEF DocInv, DocumentInv
  <2> QED BY <1>4, <2>1, <2>2, <2>3 DEF DocumentInv
<1> HIDE DEF d
<1> QED BY <1>1, <1>2, <1>5, <1>6, <1>7, <1>8, OwnStepKeeps

\* The invariant of the documents holds throughout, beside the probes'.
LEMMA DocInvariance == DocumentsSpec => [](IInv /\ DocInv)
<1>1. ASSUME IInv, DocInv, [DocumentsNext]_<<vars, docVars>> PROVE DocInv'
  <2>1. CASE SurroundingsChange
    BY <1>1, <2>1, SurroundingsKeepDocuments
  <2>2. ASSUME NEW p \in Probes,
               ProbeBegins(p) \/ ProbeGoesOn(p) \/ ProbeFails(p) \/ ProbeAnswers(p)
        PROVE  DocInv'
    <3>1. p \in Requests
      BY DEF Requests
    <3>2. CASE ProbeAnswers(p)
      BY <1>1, <3>1, <3>2, AnswersKeep DEF ProbeAnswers
    <3> QED BY <1>1, <2>2, <3>2, ProbeAsksKeeps, ProbeFailsKeeps
  <2>3. ASSUME NEW h \in Handlers, HandlerFails(h) \/ HandlerAnswers(h) PROVE DocInv'
    <3>1. h \in Requests /\ h \notin Probes
      BY DocumentsAssumption DEF Requests
    <3>2. CASE HandlerAnswers(h)
      BY <1>1, <3>1, <3>2, AnswersKeep DEF HandlerAnswers
    <3> QED BY <1>1, <2>3, <3>2, HandlerFailsKeeps
  <2>4. ASSUME NEW r \in Requests, Stamp(r) PROVE DocInv'
    BY <1>1, <2>4, StampKeeps
  <2>5. CASE UNCHANGED <<vars, docVars>>
    <3>1. UNCHANGED <<given, step, which, id, held, owned, sent, phase, results>>
      BY <2>5 DEF vars, docVars
    <3>2. RequestsTypeOK'
      BY <1>1, <3>1 DEF DocInv, RequestsTypeOK
    <3>3. \A r \in Requests : DocumentInv(r)'
      BY <1>1, <3>1 DEF DocInv, DocumentInv, Held, Extras, Failing, Written, Sent
    <3> QED BY <1>1, <3>1, <3>2, <3>3 DEF DocInv
  <2> QED BY <1>1, <2>1, <2>2, <2>3, <2>4, <2>5 DEF DocumentsNext
<1> QED BY <1>1, DocInitially, ProbesAsBefore, Invariance, PTL DEF DocumentsSpec

\* Whatever problems a program declares, a status is sent with every problem,
\* and what requests hold and send stays a problem and a document.
THEOREM DocumentsTyping == DocumentsSpec => []DocumentsTypeOK
<1>1. IInv /\ DocInv => DocumentsTypeOK
  BY DEF IInv, Typed, DocInv, DocumentsTypeOK
<1> QED BY <1>1, DocInvariance, PTL

\* However many requests share a problem and its Extras, and however they
\* overlap, each document has its answer's status, its own request's id and, a
\* probe's, the states that it has read.
THEOREM OwnDocuments == DocumentsSpec => []DocumentsAreOwn
<1>1. ASSUME IInv, DocInv, NEW r \in Requests, Sent(r)
      PROVE  LET doc == sent[r].doc
             IN /\ doc["status"] = Number(sent[r].status)
                /\ id[r] # Empty => doc["request_id"] = Text(id[r])
                /\ id[r] = Empty => Alike(doc, Declared[which[r]].extras, "request_id")
                /\ r \in Probes => doc["checks"] = List(results[r])
                /\ r \in Handlers => Alike(doc, Declared[which[r]].extras, "checks")
  <2> DEFINE p == Written(r)
             e == Failing(r).extras
             doc == MarshalJSON(p)
  <2>1. sent[r].doc = doc /\ sent[r].status = p.status /\ (r \in Probes => which[r] = "notReady")
    BY <1>1 DEF DocInv, DocumentInv
  <2>2. /\ IsProblem(p)
        /\ p.extras = IF id[r] = Empty THEN e ELSE Over([request_id |-> Text(id[r])], e)
        /\ r \in Probes => e = Over([checks |-> List(results[r])], Declared["notReady"].extras)
    BY <1>1, FailingIsProblem DEF DocInv
  <2>3. r \notin Probes => e = Declared[which[r]].extras
    BY DEF Failing
  <2>4. "request_id" \notin Standard /\ "checks" \notin Standard
    BY DEF Standard
  <2> HIDE DEF p, e
  <2>5. DOMAIN problemMembers(p) \subseteq Standard
    BY <2>2, StandardMembers
  <2>6. /\ DOMAIN doc = DOMAIN p.extras \cup DOMAIN problemMembers(p)
        /\ doc["status"] = Number(p.status)
        /\ \A k \in DOMAIN p.extras \ {"status"} : doc[k] = p.extras[k]
    BY <2>2, DocumentMembers
  <2> HIDE DEF doc
  <2>7. \A k \in {"request_id", "checks"} : Alike(doc, p.extras, k)
    BY <2>4, <2>5, <2>6 DEF Alike
  <2>8. id[r] # Empty => "request_id" \in DOMAIN p.extras /\ p.extras["request_id"] = Text(id[r])
    BY <2>2 DEF Over
  <2>9. Alike(e, Declared[which[r]].extras, "request_id")
    BY <2>1, <2>2, <2>3 DEF Over, Alike
  <2>10. r \in Probes => "checks" \in DOMAIN p.extras /\ p.extras["checks"] = List(results[r])
    <3>1. r \in Probes => "checks" \in DOMAIN e /\ e["checks"] = List(results[r])
      BY <2>2 DEF Over
    <3> QED BY <2>2, <3>1 DEF Over
  <2>11. r \in Handlers => Alike(p.extras, Declared[which[r]].extras, "checks")
    <3>1. r \in Handlers => r \notin Probes
      BY DocumentsAssumption
    <3> QED BY <2>2, <2>3, <3>1 DEF Over, Alike
  <2> QED BY <2>1, <2>2, <2>6, <2>7, <2>8, <2>9, <2>10, <2>11 DEF Alike
<1>2. IInv /\ DocInv => DocumentsAreOwn
  BY <1>1 DEF DocumentsAreOwn
<1> QED BY <1>2, DocInvariance, PTL

\* A client that decodes a problem's document finds the status that it was sent
\* with and, where the Extras name no standard member, all that was written.
THEOREM DocumentsReadBack == DocumentsSpec => []ReadsAsWritten
<1>1. ASSUME IInv, DocInv, NEW r \in Requests, Sent(r)
      PROVE  /\ UnmarshalJSON(sent[r].doc).status = sent[r].status
             /\ Conforming(Declared[which[r]].extras) =>
                  Decodes(sent[r].doc) /\ UnmarshalJSON(sent[r].doc) = Written(r)
  <2> DEFINE p == Written(r)
             e == Failing(r).extras
  <2>1. /\ sent[r].doc = MarshalJSON(p) /\ sent[r].status = p.status
        /\ r \in Probes => which[r] = "notReady"
    BY <1>1 DEF DocInv, DocumentInv
  <2>2. /\ IsProblem(p)
        /\ p.extras = IF id[r] = Empty THEN e ELSE Over([request_id |-> Text(id[r])], e)
        /\ r \in Probes => e = Over([checks |-> List(results[r])], Declared["notReady"].extras)
    BY <1>1, FailingIsProblem DEF DocInv
  <2>3. r \notin Probes => e = Declared[which[r]].extras
    BY DEF Failing
  <2> HIDE DEF p, e
  <2>4. ASSUME Conforming(Declared[which[r]].extras) PROVE Conforming(p.extras)
    <3>1. Folded["checks"] \notin Standard /\ Folded["request_id"] \notin Standard
      BY MembersAssumption
    <3>2. Conforming(e)
      BY <2>1, <2>2, <2>3, <2>4, <3>1 DEF Conforming, Over
    <3> QED BY <2>2, <3>1, <3>2 DEF Conforming, Over
  <2>5. UnmarshalJSON(MarshalJSON(p)).status = p.status
    BY <2>2, StatusReadsBack
  <2> QED BY <2>1, <2>2, <2>4, <2>5, RoundTrip DEF p
<1>2. IInv /\ DocInv => ReadsAsWritten
  BY <1>1 DEF ReadsAsWritten
<1> QED BY <1>2, DocInvariance, PTL
=============================================================================
