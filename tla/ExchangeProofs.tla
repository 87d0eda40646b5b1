--------------------------- MODULE ExchangeProofs ---------------------------
(***************************************************************************)
(* Proofs about Exchange, for any bodies, limits, objects and number of    *)
(* requests.                                                               *)
(***************************************************************************)
EXTENDS Exchange, SequenceTheorems, WellFoundedInduction, TLAPS

-----------------------------------------------------------------------------
(***************************************************************************)
(* What the decoder finds in bytes                                         *)
(***************************************************************************)

\* First is the least of a set that is not empty.
LEMMA FirstIsLeast ==
  ASSUME NEW S \in SUBSET Nat, NEW otherwise
  PROVE  /\ S = {} => First(S, otherwise) = otherwise
         /\ S # {} => /\ First(S, otherwise) \in S
                      /\ \A x \in S : First(S, otherwise) <= x
<1>1. ASSUME S # {} PROVE \E i \in S : \A j \in S : i <= j
  <2>1. PICK i \in S : \A j \in S : <<j, i>> \notin OpToRel(<, Nat)
    BY <1>1, NatLessThanWellFounded, WFMin, Zenon
  <2>2. \A j \in S : ~ (j < i)
    BY <2>1 DEF OpToRel
  <2> QED BY <2>2
<1> QED BY <1>1 DEF First, Min

\* Of two limits the lesser is the one that cuts the body.
LEMMA TighterIsLess ==
  ASSUME limits.outer \in Nat, limits.inner \in Nat
  PROVE  Tighter = IF limits.outer <= limits.inner THEN limits.outer ELSE limits.inner
<1> DEFINE S == {limits.outer, limits.inner}
<1>1. Tighter = First(S, 0)
  BY DEF Tighter, First
<1>2. Tighter \in S /\ \A x \in S : Tighter <= x
  BY <1>1, FirstIsLeast
<1> QED BY <1>2

\* Where what is not space begins, and that nothing else is such a place.
LEMMA StartIs ==
  ASSUME NEW b \in Seq(Bytes), NEW i \in 1 .. Len(b) + 1
  PROVE  /\ Start(b, i) \in i .. Len(b) + 1
         /\ \A j \in i .. Start(b, i) - 1 : b[j] = "space"
         /\ Start(b, i) <= Len(b) => b[Start(b, i)] # "space"
<1> DEFINE S == {j \in i .. Len(b) : b[j] # "space"}
           s == First(S, Len(b) + 1)
<1>1. Len(b) \in Nat /\ S \in SUBSET Nat /\ Start(b, i) = s
  BY DEF Start
<1>2. /\ S = {} => s = Len(b) + 1
      /\ S # {} => s \in S /\ \A x \in S : s <= x
  BY <1>1, FirstIsLeast
<1> HIDE DEF s
<1> QED BY <1>1, <1>2

\* The next token starts after the blanks that come before it.
LEMMA StartIsWhere ==
  ASSUME NEW b \in Seq(Bytes), NEW i \in 1 .. Len(b) + 1, NEW s \in i .. Len(b) + 1,
         \A j \in i .. s - 1 : b[j] = "space",
         s <= Len(b) => b[s] # "space"
  PROVE  Start(b, i) = s
<1>1. /\ Start(b, i) \in i .. Len(b) + 1
      /\ \A j \in i .. Start(b, i) - 1 : b[j] = "space"
      /\ Start(b, i) <= Len(b) => b[Start(b, i)] # "space"
  BY StartIs
<1> DEFINE t == Start(b, i)
<1> HIDE DEF t
<1>2. /\ t \in i .. Len(b) + 1
      /\ \A j \in i .. t - 1 : b[j] = "space"
      /\ t <= Len(b) => b[t] # "space"
      /\ Len(b) \in Nat
  BY <1>1 DEF t
<1>3. ~ (t < s)
  BY <1>2
<1>4. ~ (s < t)
  BY <1>2
<1> QED BY <1>2, <1>3, <1>4 DEF t

\* A number has ended where another byte follows it or the body's end; any
\* other item where its first "end" is.
NumberTo(b, e, i, a) ==
  \/ /\ a \in i + 1 .. Len(b) + 1 /\ (a = Len(b) + 1 => e.is = "eof")
     /\ \A j \in i .. a - 1 : b[j] = "digit"
     /\ a <= Len(b) => b[a] # "digit"
  \/ /\ a = 0 /\ e.is # "eof"
     /\ \A j \in i .. Len(b) : b[j] = "digit"

ValueTo(b, i, a) ==
  \/ /\ a \in i + 1 .. Len(b) + 1 /\ b[a - 1] = "end"
     /\ \A j \in i .. a - 2 : b[j] # "end"
  \/ /\ a = 0
     /\ \A j \in i .. Len(b) : b[j] # "end"

\* What After finds is the end of the number or of the value it was asked for.
LEMMA AfterIs ==
  ASSUME NEW b \in Seq(Bytes), NEW e, NEW i \in 1 .. Len(b)
  PROVE  /\ b[i] = "digit" => NumberTo(b, e, i, After(b, e, i))
         /\ b[i] # "digit" => ValueTo(b, i, After(b, e, i))
<1>0. Len(b) \in Nat
  OBVIOUS
<1>1. CASE b[i] = "digit"
  <2> DEFINE S == {j \in i + 1 .. Len(b) : b[j] # "digit"}
             d == IF e.is = "eof" THEN Len(b) + 1 ELSE 0
             a == First(S, d)
  <2>1. After(b, e, i) = a
    BY <1>1 DEF After
  <2>2. S \in SUBSET Nat
    BY <1>0
  <2>3. /\ S = {} => a = d
        /\ S # {} => a \in S /\ \A x \in S : a <= x
    BY <2>2, FirstIsLeast
  <2> HIDE DEF a
  <2>4. CASE S = {}
    <3>1. \A j \in i .. Len(b) : b[j] = "digit"
      BY <1>0, <1>1, <2>4
    <3> QED BY <1>0, <1>1, <2>1, <2>3, <2>4, <3>1 DEF NumberTo
  <2>5. CASE S # {}
    <3>1. a \in i + 1 .. Len(b) /\ b[a] # "digit"
      BY <2>3, <2>5
    <3>2. \A j \in i .. a - 1 : b[j] = "digit"
      BY <1>0, <1>1, <2>3, <2>5, <3>1
    <3> QED BY <1>0, <1>1, <2>1, <3>1, <3>2 DEF NumberTo
  <2> QED BY <2>4, <2>5
<1>2. CASE b[i] # "digit"
  <2> DEFINE S == {j \in i .. Len(b) : b[j] = "end"}
             k == First(S, 0)
  <2>1. After(b, e, i) = IF k = 0 THEN 0 ELSE k + 1
    BY <1>2 DEF After
  <2>2. S \in SUBSET Nat
    BY <1>0
  <2>3. /\ S = {} => k = 0
        /\ S # {} => k \in S /\ \A x \in S : k <= x
    BY <2>2, FirstIsLeast
  <2> HIDE DEF k
  <2>4. CASE S = {}
    BY <1>0, <1>2, <2>1, <2>3, <2>4 DEF ValueTo
  <2>5. CASE S # {}
    <3>1. k \in i .. Len(b) /\ b[k] = "end" /\ \A j \in i .. k - 1 : b[j] # "end"
      BY <1>0, <2>3, <2>5
    <3> DEFINE a == k + 1
    <3>2. a \in i + 1 .. Len(b) + 1 /\ a - 1 = k /\ a - 2 = k - 1 /\ k # 0
      BY <1>0, <3>1
    <3>3. After(b, e, i) = a
      BY <2>1, <3>2
    <3> HIDE DEF a
    <3> QED BY <1>2, <3>1, <3>2, <3>3 DEF ValueTo
  <2> QED BY <2>4, <2>5
<1> QED BY <1>1, <1>2

\* There is no other such place.
LEMMA AfterIsWhere ==
  ASSUME NEW b \in Seq(Bytes), NEW e, NEW i \in 1 .. Len(b), NEW a,
         b[i] = "digit" => NumberTo(b, e, i, a),
         b[i] # "digit" => ValueTo(b, i, a)
  PROVE  After(b, e, i) = a
<1> DEFINE c == After(b, e, i)
<1>1. /\ b[i] = "digit" => NumberTo(b, e, i, c)
      /\ b[i] # "digit" => ValueTo(b, i, c)
  BY AfterIs
<1> HIDE DEF c
<1>0. Len(b) \in Nat
  OBVIOUS
<1>2. CASE b[i] = "digit"
  <2>1. NumberTo(b, e, i, c) /\ NumberTo(b, e, i, a)
    BY <1>1, <1>2
  <2>2. a \in Nat /\ c \in Nat
    BY <1>0, <2>1 DEF NumberTo
  <2>3. ~ (a < c)
    <3>1. SUFFICES ASSUME a < c PROVE FALSE
      OBVIOUS
    <3>2. c \in i + 1 .. Len(b) + 1 /\ \A j \in i .. c - 1 : b[j] = "digit"
      BY <2>1, <2>2, <3>1 DEF NumberTo
    <3>3. CASE a = 0
      BY <1>0, <2>1, <3>2, <3>3 DEF NumberTo
    <3>4. CASE a # 0
      BY <1>0, <2>1, <3>1, <3>2, <3>4 DEF NumberTo
    <3> QED BY <3>3, <3>4
  <2>4. ~ (c < a)
    <3>1. SUFFICES ASSUME c < a PROVE FALSE
      OBVIOUS
    <3>2. a \in i + 1 .. Len(b) + 1 /\ \A j \in i .. a - 1 : b[j] = "digit"
      BY <2>1, <2>2, <3>1 DEF NumberTo
    <3>3. CASE c = 0
      BY <1>0, <2>1, <3>2, <3>3 DEF NumberTo
    <3>4. CASE c # 0
      BY <1>0, <2>1, <3>1, <3>2, <3>4 DEF NumberTo
    <3> QED BY <3>3, <3>4
  <2> QED BY <2>2, <2>3, <2>4 DEF c
<1>3. CASE b[i] # "digit"
  <2>1. ValueTo(b, i, c) /\ ValueTo(b, i, a)
    BY <1>1, <1>3
  <2> QED BY <1>0, <2>1 DEF ValueTo, c
<1> QED BY <1>2, <1>3

-----------------------------------------------------------------------------
(***************************************************************************)
(* What is decided stays decided                                           *)
(***************************************************************************)

Begins(p, b) ==
  /\ p \in Seq(Bytes) /\ b \in Seq(Bytes) /\ Len(p) <= Len(b)
  /\ \A k \in 1 .. Len(p) : p[k] = b[k]

\* Where a token starts does not depend on bytes that come after it,
LEMMA StartStays ==
  ASSUME NEW p, NEW b, Begins(p, b), NEW i \in 1 .. Len(p) + 1, Start(p, i) <= Len(p)
  PROVE  Start(p, i) \in i .. Len(p) /\ Start(b, i) = Start(p, i)
<1> DEFINE s == Start(p, i)
<1>1. /\ s \in i .. Len(p) + 1 /\ s <= Len(p) /\ p[s] # "space"
      /\ \A j \in i .. s - 1 : p[j] = "space"
  BY StartIs DEF Begins
<1> HIDE DEF s
<1>2. Len(p) \in Nat /\ Len(b) \in Nat /\ Len(p) <= Len(b)
  BY DEF Begins
<1>3. s \in i .. Len(b) + 1 /\ b[s] # "space" /\ (\A j \in i .. s - 1 : b[j] = "space")
  BY <1>1, <1>2 DEF Begins
<1>4. i \in 1 .. Len(b) + 1 /\ b \in Seq(Bytes)
  BY <1>2 DEF Begins
<1>5. Start(b, i) = s
  BY <1>3, <1>4, StartIsWhere
<1> QED BY <1>1, <1>2, <1>5 DEF s

\* nor where a value that is complete ends,
LEMMA AfterStays ==
  ASSUME NEW p, NEW b, Begins(p, b), NEW e, NEW i \in 1 .. Len(p), After(p, Open, i) # 0
  PROVE  /\ After(p, Open, i) \in i + 1 .. Len(p) + 1
         /\ After(b, e, i) = After(p, Open, i)
         /\ ~Broken(p, i) => ~Broken(b, i)
<1> DEFINE a == After(p, Open, i)
<1>1. /\ p[i] = "digit" => NumberTo(p, Open, i, a)
      /\ p[i] # "digit" => ValueTo(p, i, a)
  BY AfterIs DEF Begins
<1>2. a # 0
  OBVIOUS
<1> HIDE DEF a
<1>3. Len(p) \in Nat /\ Len(b) \in Nat /\ Len(p) <= Len(b) /\ i \in 1 .. Len(b) /\ p[i] = b[i]
  BY DEF Begins
<1>4. CASE p[i] = "digit"
  <2>1. a \in i + 1 .. Len(p) /\ p[a] # "digit" /\ \A j \in i .. a - 1 : p[j] = "digit"
    BY <1>1, <1>2, <1>3, <1>4 DEF NumberTo, Open
  <2>2. b[a] # "digit" /\ \A j \in i .. a - 1 : b[j] = "digit"
    BY <1>3, <2>1 DEF Begins
  <2>3. NumberTo(b, e, i, a)
    BY <1>3, <2>1, <2>2 DEF NumberTo
  <2>4. After(b, e, i) = a
    BY <1>3, <1>4, <2>3, AfterIsWhere DEF Begins
  <2> QED BY <1>3, <1>4, <2>1, <2>4 DEF Broken, a
<1>5. CASE p[i] # "digit"
  <2>1. a \in i + 1 .. Len(p) + 1 /\ p[a - 1] = "end" /\ \A j \in i .. a - 2 : p[j] # "end"
    BY <1>1, <1>2, <1>5 DEF ValueTo
  <2>2. b[a - 1] = "end" /\ \A j \in i .. a - 2 : b[j] # "end"
    <3>1. \A k \in 1 .. Len(p) : p[k] = b[k]
      BY DEF Begins
    <3>2. a - 1 \in 1 .. Len(p) /\ \A j \in i .. a - 2 : j \in 1 .. Len(p)
      BY <1>3, <2>1
    <3> QED BY <2>1, <3>1, <3>2
  <2>3. ValueTo(b, i, a)
    BY <1>3, <2>1, <2>2 DEF ValueTo
  <2>4. After(b, e, i) = a
    BY <1>3, <1>5, <2>3, AfterIsWhere DEF Begins
  <2>5. ASSUME Broken(b, i) PROVE Broken(p, i)
    <3>1. PICK k \in i .. Len(b) : b[k] \in {"digit", "junk"} /\ \A j \in i .. k : b[j] # "end"
      BY <2>5 DEF Broken
    <3>2. k < a - 1
      BY <1>3, <2>1, <2>2, <3>1
    <3>3. k \in i .. Len(p) /\ p[k] \in {"digit", "junk"} /\ \A j \in i .. k : p[j] # "end"
      BY <1>3, <2>1, <3>1, <3>2 DEF Begins
    <3> QED BY <1>5, <3>3 DEF Broken
  <2> QED BY <2>1, <2>4, <2>5 DEF a
<1> QED BY <1>4, <1>5

\* nor that a value is broken.
LEMMA BrokenStays ==
  ASSUME NEW p, NEW b, Begins(p, b), NEW i \in 1 .. Len(p), Broken(p, i)
  PROVE  Broken(b, i)
<1>1. p[i] # "digit" /\ p[i] = b[i] /\ Len(p) \in Nat /\ Len(b) \in Nat /\ Len(p) <= Len(b)
  BY DEF Begins, Broken
<1>2. PICK k \in i .. Len(p) : p[k] \in {"digit", "junk"} /\ \A j \in i .. k : p[j] # "end"
  BY DEF Broken
<1>3. k \in i .. Len(b) /\ b[k] \in {"digit", "junk"} /\ \A j \in i .. k : b[j] # "end"
  BY <1>1, <1>2 DEF Begins
<1> QED BY <1>1, <1>3 DEF Broken

Endings == {e \in [is : {"open", "eof", "failed", "over"}, limit : Nat] : e.is = "open" => e = Open}

\* What the reading of a body ends in decides the error it is refused with.
LEMMA BodyErrors ==
  ASSUME NEW e \in Endings
  PROVE  /\ e.is = "open" => bodyError(e) = Open
         /\ e.is = "over" => bodyError(e) = TooLarge(e.limit)
         /\ e.is \in {"eof", "failed"} => bodyError(e) = Refused
<1>1. e.is = "open" => bodyError(e) = Open
  BY Zenon DEF bodyError
<1>2. e.is = "over" => bodyError(e) = TooLarge(e.limit)
  BY Zenon DEF bodyError
<1>3. e.is # "open" /\ e.is # "over" => bodyError(e) = Refused
  BY Zenon DEF bodyError
<1> QED BY <1>1, <1>2, <1>3

\* A command that the bytes read so far refuse is refused whatever follows,
\* and none is accepted before the body has ended.
LEMMA RefusedStays ==
  ASSUME NEW p, NEW b, Begins(p, b), NEW e
  PROVE  /\ DecodeJSON(p, Open) \in {Open, Refused}
         /\ DecodeJSON(p, Open) = Refused => DecodeJSON(b, e) = Refused
<1> DEFINE i == Start(p, 1)
           a == After(p, Open, i)
           j == Start(p, a)
<1>0. Open # Refused /\ bodyError(Open) = Open /\ Open.is # "eof"
  <2>1. Open \in Endings /\ Open.is = "open" /\ Refused.is = "refused"
    BY DEF Open, Refused, Endings
  <2> QED BY <2>1, BodyErrors
<1>1. 1 \in 1 .. Len(p) + 1
  BY DEF Begins
<1>2. CASE i > Len(p)
  BY <1>0, <1>2 DEF DecodeJSON
<1>3. CASE ~(i > Len(p))
  <2>1. i \in 1 .. Len(p) /\ Start(b, 1) = i /\ ~(i > Len(b)) /\ Len(p) \in Nat
    <3>1. Len(p) \in Nat /\ Len(b) \in Nat /\ Len(p) <= Len(b)
      BY DEF Begins
    <3>2. i \in Nat
      BY <1>1, StartIs DEF Begins
    <3>3. i <= Len(p)
      BY <1>3, <3>1, <3>2
    <3>4. i \in 1 .. Len(p) /\ Start(b, 1) = i
      BY <1>1, <3>3, StartStays
    <3> QED BY <3>1, <3>4
  <2> HIDE DEF i
  <2>2. CASE Broken(p, i)
    BY <1>3, <2>1, <2>2, BrokenStays DEF DecodeJSON, i
  <2>3. CASE ~Broken(p, i) /\ a = 0
    BY <1>0, <1>3, <2>3 DEF DecodeJSON, i
  <2>4. CASE ~Broken(p, i) /\ a # 0
    <3>1. a \in 1 .. Len(p) + 1 /\ After(b, e, i) = a /\ ~Broken(b, i)
      <4>1. After(p, Open, i) \in i + 1 .. Len(p) + 1 /\ After(b, e, i) = After(p, Open, i)
            /\ ~Broken(b, i)
        BY <2>1, <2>4, AfterStays
      <4> QED BY <2>1, <4>1
    <3> HIDE DEF a
    <3>2. /\ DecodeJSON(p, Open) = IF ~fits THEN Refused ELSE trailing(p, Open, a)
          /\ DecodeJSON(b, e) = IF ~fits THEN Refused ELSE trailing(b, e, a)
      BY <1>3, <2>1, <2>4, <3>1 DEF DecodeJSON, i, a
    <3>3. CASE j > Len(p)
      <4>1. trailing(p, Open, a) = Open
        BY <1>0, <3>3 DEF trailing
      <4> QED BY <1>0, <3>2, <4>1
    <3>4. CASE ~(j > Len(p))
      <4>1. Len(p) \in Nat /\ Len(b) \in Nat /\ Len(p) <= Len(b)
        BY DEF Begins
      <4>2. j \in Nat
        BY <3>1, StartIs DEF Begins
      <4>3. j \in 1 .. Len(p) /\ Start(b, a) = j /\ ~(j > Len(b))
        BY <3>1, <3>4, <4>1, <4>2, StartStays
      <4> HIDE DEF j
      <4>4. CASE Broken(p, j) \/ After(p, Open, j) # 0
        <5>1. Broken(b, j) \/ After(b, e, j) # 0
          BY <4>3, <4>4, BrokenStays, AfterStays
        <5>2. trailing(p, Open, a) = Refused /\ trailing(b, e, a) = Refused
          BY <3>4, <4>3, <4>4, <5>1 DEF trailing, j
        <5> QED BY <3>2, <5>2
      <4>5. CASE ~(Broken(p, j) \/ After(p, Open, j) # 0)
        <5>1. trailing(p, Open, a) = Open
          BY <1>0, <3>4, <4>5 DEF trailing, j
        <5> QED BY <1>0, <3>2, <5>1
      <4> QED BY <4>4, <4>5
    <3> QED BY <3>3, <3>4
  <2> QED BY <2>2, <2>3, <2>4
<1> QED BY <1>2, <1>3

-----------------------------------------------------------------------------
(***************************************************************************)
(* What a whole body amounts to                                            *)
(***************************************************************************)

\* The parts of a body that DecodeJSON accepts.
Accepts(b, e, i, a) ==
  /\ i = Start(b, 1) /\ i \in 1 .. Len(b) /\ ~Broken(b, i)
  /\ a = After(b, e, i) /\ a \in i + 1 .. Len(b) + 1
  /\ Start(b, a) = Len(b) + 1

\* DecodeJSON accepts a body, refuses it, or passes on how its reading ended.
LEMMA DecodeResults ==
  ASSUME NEW b \in Seq(Bytes), NEW e \in Endings
  PROVE  /\ DecodeJSON(b, e) \in {Accepted, Refused, bodyError(e)}
         /\ DecodeJSON(b, e) = Accepted <=>
              fits /\ e.is = "eof" /\ \E i, a \in Nat : Accepts(b, e, i, a)
<1> DEFINE i == Start(b, 1)
           a == After(b, e, i)
<1>0. /\ bodyError(e) # Accepted /\ Refused # Accepted
  <2>1. /\ \A n : TooLarge(n).is = "tooLarge"
        /\ Accepted.is = "accepted" /\ Refused.is = "refused" /\ Open.is = "open"
    BY DEF Accepted, Refused, Open, TooLarge
  <2>2. e.is \in {"open", "eof", "failed", "over"}
    BY DEF Endings
  <2>3. bodyError(e) \in {Open, TooLarge(e.limit), Refused}
    BY <2>2, BodyErrors
  <2> QED BY <2>1, <2>3
<1>1. Len(b) \in Nat /\ 1 \in 1 .. Len(b) + 1 /\ i \in 1 .. Len(b) + 1
  BY StartIs
<1>2. \A x, y : Accepts(b, e, x, y) => x = i /\ y = a
  BY DEF Accepts
<1>3. CASE i > Len(b)
  <2>1. DecodeJSON(b, e) = bodyError(e)
    BY <1>3 DEF DecodeJSON
  <2>2. \A x, y : ~Accepts(b, e, x, y)
    BY <1>1, <1>2, <1>3 DEF Accepts
  <2> QED BY <1>0, <2>1, <2>2
<1>4. CASE ~(i > Len(b))
  <2>1. i \in 1 .. Len(b)
    BY <1>1, <1>4
  <2> HIDE DEF i
  <2>2. a = 0 \/ a \in i + 1 .. Len(b) + 1
    BY <2>1, AfterIs DEF NumberTo, ValueTo
  <2> HIDE DEF a
  <2>3. CASE Broken(b, i)
    <3>1. DecodeJSON(b, e) = Refused
      BY <1>4, <2>3 DEF DecodeJSON, i
    <3>2. \A x, y : ~Accepts(b, e, x, y)
      BY <1>2, <2>3 DEF Accepts
    <3> QED BY <1>0, <3>1, <3>2
  <2>4. CASE ~Broken(b, i) /\ a = 0
    <3>1. DecodeJSON(b, e) = bodyError(e)
      BY <1>4, <2>4 DEF DecodeJSON, i, a
    <3>2. \A x, y : ~Accepts(b, e, x, y)
      BY <1>2, <2>1, <2>4 DEF Accepts
    <3> QED BY <1>0, <3>1, <3>2
  <2>5. CASE ~Broken(b, i) /\ a # 0
    <3>1. DecodeJSON(b, e) = IF ~fits THEN Refused ELSE trailing(b, e, a)
      BY <1>4, <2>5 DEF DecodeJSON, i, a
    <3>2. a \in 1 .. Len(b) + 1
      BY <2>1, <2>2, <2>5
    <3>3. Start(b, a) \in a .. Len(b) + 1
      BY <3>2, StartIs
    <3>4. CASE Start(b, a) > Len(b)
      <4>1. Start(b, a) = Len(b) + 1
        BY <1>1, <3>2, <3>3, <3>4
      <4>2. Accepts(b, e, i, a) /\ i \in Nat /\ a \in Nat
        BY <1>1, <2>1, <2>2, <2>5, <4>1 DEF Accepts, i, a
      <4>3. trailing(b, e, a) = IF e.is = "eof" THEN Accepted ELSE bodyError(e)
        BY <3>4 DEF trailing
      <4>4. \E x, y \in Nat : Accepts(b, e, x, y)
        BY <4>2
      <4> QED BY <1>0, <3>1, <4>3, <4>4
    <3>5. CASE ~(Start(b, a) > Len(b))
      <4>1. trailing(b, e, a) \in {Refused, bodyError(e)}
        BY <3>5 DEF trailing
      <4>2. \A x, y : ~Accepts(b, e, x, y)
        BY <1>1, <1>2, <3>5 DEF Accepts
      <4> QED BY <1>0, <3>1, <4>1, <4>2
    <3> QED BY <3>4, <3>5
  <2> QED BY <2>3, <2>4, <2>5
<1> QED BY <1>3, <1>4

\* Those parts are there exactly when the body is one value.
LEMMA OneValueIs ==
  ASSUME NEW b \in Seq(Bytes), NEW e, e.is = "eof"
  PROVE  OneValue(b) <=> \E i, a \in Nat : Accepts(b, e, i, a)
<1>0. Len(b) \in Nat /\ \A k \in 1 .. Len(b) : b[k] \in Bytes
  OBVIOUS
<1>1. ASSUME NEW i \in Nat, NEW a \in Nat, Accepts(b, e, i, a) PROVE OneValue(b)
  <2> DEFINE j == a - 1
  <2>1. i \in 1 .. Len(b) /\ j \in 1 .. Len(b) /\ i <= j
    BY <1>0, <1>1 DEF Accepts
  <2>2. (\A k \in 1 .. i - 1 : b[k] = "space") /\ b[i] # "space"
    BY <1>0, <1>1, StartIs DEF Accepts
  <2>3. \A k \in j + 1 .. Len(b) : b[k] = "space"
    <3>1. a \in 1 .. Len(b) + 1
      BY <1>0, <1>1 DEF Accepts
    <3>2. \A k \in a .. Start(b, a) - 1 : b[k] = "space"
      BY <3>1, StartIs
    <3>3. Start(b, a) - 1 = Len(b) /\ j + 1 = a
      BY <1>0, <1>1 DEF Accepts
    <3> QED BY <3>2, <3>3
  <2>4. /\ b[i] = "digit" => \A k \in i .. j : b[k] = "digit"
        /\ b[i] # "digit" => b[j] = "end" /\ \A k \in i .. j - 1 : b[k] # "end"
    <3>1. /\ b[i] = "digit" => NumberTo(b, e, i, a)
          /\ b[i] # "digit" => ValueTo(b, i, a)
      BY <1>1, <2>1, AfterIs DEF Accepts
    <3>2. a # 0 /\ a - 2 = j - 1 /\ a - 1 = j
      BY <2>1
    <3> QED BY <3>1, <3>2 DEF NumberTo, ValueTo
  <2>5. ASSUME b[i] # "digit" PROVE \A k \in i .. j - 1 : b[k] \in {"part", "space"}
    <3>1. ASSUME NEW k \in i .. j - 1 PROVE b[k] \notin {"digit", "junk"}
      <4>1. k \in i .. Len(b) /\ \A l \in i .. k : b[l] # "end"
        BY <1>0, <2>1, <2>4, <2>5, <3>1
      <4> QED BY <1>1, <2>5, <4>1 DEF Accepts, Broken
    <3>2. \A k \in i .. j - 1 : b[k] \in Bytes /\ b[k] # "end"
      BY <1>0, <2>1, <2>4, <2>5
    <3> QED BY <3>1, <3>2 DEF Bytes
  <2> HIDE DEF j
  <2>6. \A k \in (1 .. i - 1) \cup (j + 1 .. Len(b)) : b[k] = "space"
    BY <2>2, <2>3
  <2> QED BY <2>1, <2>2, <2>4, <2>5, <2>6 DEF OneValue
<1>2. ASSUME OneValue(b) PROVE \E i, a \in Nat : Accepts(b, e, i, a)
  <2>1. PICK i \in 1 .. Len(b), j \in 1 .. Len(b) :
          /\ i <= j
          /\ \A k \in (1 .. i - 1) \cup (j + 1 .. Len(b)) : b[k] = "space"
          /\ \/ \A k \in i .. j : b[k] = "digit"
             \/ b[j] = "end" /\ \A k \in i .. j - 1 : b[k] \in {"part", "space"}
                /\ b[i] # "space"
    BY <1>2, Zenon DEF OneValue
  <2> DEFINE a == j + 1
  <2>2. a \in i + 1 .. Len(b) + 1 /\ a \in 1 .. Len(b) + 1 /\ a - 1 = j /\ a - 2 = j - 1
    BY <1>0, <2>1
  <2> HIDE DEF a
  <2>3. CASE \A k \in i .. j : b[k] = "digit"
    <3>1. b[i] = "digit"
      BY <2>1, <2>3
    <3>2. a <= Len(b) => b[a] # "digit"
      BY <1>0, <2>1, <2>2 DEF a
    <3>3. NumberTo(b, e, i, a)
      BY <2>2, <2>3, <3>2 DEF NumberTo
    <3>4. After(b, e, i) = a
      BY <3>1, <3>3, AfterIsWhere
    <3>5. Start(b, 1) = i /\ ~Broken(b, i)
      BY <1>0, <2>1, <3>1, StartIsWhere DEF Broken
    <3>6. Start(b, a) = Len(b) + 1
      BY <1>0, <2>1, <2>2, StartIsWhere DEF a
    <3> QED BY <1>0, <2>2, <3>4, <3>5, <3>6 DEF Accepts
  <2>4. CASE b[j] = "end" /\ \A k \in i .. j - 1 : b[k] \in {"part", "space"}
             /\ b[i] # "space"
    <3>1. b[i] # "digit" /\ b[i] # "space"
      <4>1. i = j \/ i \in i .. j - 1
        BY <2>1
      <4> QED BY <2>4, <4>1
    <3>2. ValueTo(b, i, a)
      BY <2>2, <2>4 DEF ValueTo
    <3>3. After(b, e, i) = a
      BY <3>1, <3>2, AfterIsWhere
    <3>4. ~Broken(b, i)
      <4>1. SUFFICES ASSUME NEW k \in i .. Len(b), b[k] \in {"digit", "junk"},
                            \A l \in i .. k : b[l] # "end"
                     PROVE  FALSE
        BY DEF Broken
      <4>2. k < j
        BY <1>0, <2>1, <2>4, <4>1
      <4> QED BY <1>0, <2>1, <2>4, <4>1, <4>2
    <3>5. Start(b, 1) = i
      BY <1>0, <2>1, <3>1, StartIsWhere
    <3>6. Start(b, a) = Len(b) + 1
      BY <1>0, <2>1, <2>2, StartIsWhere DEF a
    <3> QED BY <1>0, <2>2, <3>3, <3>4, <3>5, <3>6 DEF Accepts
  <2> QED BY <2>1, <2>3, <2>4
<1> QED BY <1>1, <1>2

-----------------------------------------------------------------------------
(***************************************************************************)
(* The inductive invariant                                                 *)
(***************************************************************************)

\* What has come through the two readers, and what their ending says of it.
ReadInv ==
  /\ sent \in Seq(Bytes) /\ ending \in {"eof", "failed"}
  /\ limits.outer \in Nat \ {0} /\ limits.inner \in Nat \ {0}
  /\ got \in Nat /\ got <= Len(sent) /\ got <= limits.outer /\ got <= limits.inner
  /\ \/ stop = Open
     \/ stop = Ends(ending) /\ got = Len(sent)
     \/ stop = Over(Tighter) /\ got = Tighter /\ Len(sent) > Tighter

\* What each reading handler holds: a command's result when it has one, and
\* an upload's declaration.
ResultInv ==
  /\ kind = "command" /\ phase \in {"returned", "replied"} =>
       result = Decoded /\ Decoded # Open
  /\ kind = "upload" /\ phase \in {"reading", "returned", "replied"} =>
       \/ result = Accepted /\ declared \in Nat /\ declared <= limits.inner
            /\ Len(sent) <= declared /\ (ending = "eof" => Len(sent) = declared)
       \/ phase # "reading" /\ result # Accepted /\ got = 0 /\ stop = Open
  /\ kind = "upload" /\ phase = "returned" =>
       result.is \in {"untyped", "unsized", "tooLarge", "accepted"}

\* Where the exchange is: what is committed, open and answered there.
PhaseInv ==
  /\ kind \in {"none", "command", "upload", "object"}
  /\ phase \in {"idle", "reading", "handling", "returned", "replied", "done"}
  /\ reply \in {"none", "whole", "cut"} /\ (reply = "whole" => phase = "done")
  /\ status \in {0, 200, 304, 400, 411, 413, 415, 500}
  /\ phase = "idle" => status = 0 /\ file = "none" /\ wire = 0 /\ ended = "no"
  /\ phase = "reading" => status = 0 /\ file = "none" /\ kind \in {"command", "upload"}
  /\ phase = "handling" => kind = "object" /\ ended = "no"
       /\ (status = 0 <=> file = "none") /\ (status # 0 => status = 200 /\ method # "HEAD")
  /\ phase = "replied" => status # 0
  /\ file = "open" => phase = "handling"

\* What the handler proxies, what it has said of it and what of it is written.
ProxyInv ==
  /\ {object, store, cache} \subseteq Objects
  /\ store.version >= 0 /\ store.second <= store.version
  /\ wire \in Nat /\ wire <= object.length
  /\ kind = "object" /\ phase \in {"handling", "returned", "replied"} =>
       /\ object.version >= 0
       /\ \A k \in DOMAIN cond.tags : cond.tags[k] \in {cache.version, Malformed, AnyTag}
       /\ status = 304 => notModified(cond, object)
       /\ status = 200 /\ object.sized => "Content-Length" \in header
       /\ ended = "error" /\ status \notin {200, 304} =>
            header \cap representation = {} /\ "no-store" \in header
  /\ kind = "object" /\ phase = "returned" /\ status = 0 => ended \in {"error", "panic"}

IInv == ReadInv /\ ResultInv /\ PhaseInv /\ ProxyInv /\ TruncationShows

\* What is read of a body reaches both limits as if they were the tighter one.
LEMMA ReadKeeps ==
  ASSUME ReadInv, NEW n \in Nat, NEW end \in BOOLEAN, Read(n, end)
  PROVE  ReadInv'
<1>1. /\ stop = Open /\ n <= Tighter - got + 1 /\ got + n <= Len(sent)
      /\ end => got + n = Len(sent)
      /\ UNCHANGED <<sent, fits, ending, limits>>
  BY DEF Read
<1>2. /\ limits.outer \in Nat \ {0} /\ limits.inner \in Nat \ {0} /\ got \in Nat
      /\ got <= limits.outer /\ got <= limits.inner /\ Len(sent) \in Nat
  BY DEF ReadInv
<1>3. Tighter = IF limits.outer <= limits.inner THEN limits.outer ELSE limits.inner
  BY <1>2, TighterIsLess
<1>4. Tighter' = Tighter
  BY <1>1 DEF Tighter
<1> DEFINE e == IF end THEN Ends(ending) ELSE Open
           outer == MaxBytesReader(limits.outer, n, e)
           inner == MaxBytesReader(limits.inner, outer.n, outer.end)
<1>5. got' = got + inner.n /\ stop' = inner.end
  BY DEF Read
<1>6. /\ got + n > limits.outer => outer.n = limits.outer - got /\ outer.end = Over(limits.outer)
      /\ ~(got + n > limits.outer) => outer.n = n /\ outer.end = e
  BY DEF MaxBytesReader
<1>7. /\ got + outer.n > limits.inner =>
           inner.n = limits.inner - got /\ inner.end = Over(limits.inner)
      /\ ~(got + outer.n > limits.inner) => inner.n = outer.n /\ inner.end = outer.end
  BY DEF MaxBytesReader
<1> HIDE DEF e, outer, inner
<1>8. CASE got + n <= Tighter
  <2>1. got' = got + n /\ stop' = e /\ got' <= limits.outer /\ got' <= limits.inner
    BY <1>2, <1>3, <1>5, <1>6, <1>7, <1>8
  <2>2. stop' = Open \/ (stop' = Ends(ending) /\ got' = Len(sent))
    BY <1>1, <2>1 DEF e
  <2>3. got' \in Nat /\ got' <= Len(sent)
    BY <1>1, <1>2, <2>1
  <2> QED BY <1>1, <2>1, <2>2, <2>3 DEF ReadInv
<1>9. CASE ~(got + n <= Tighter)
  <2>1. got' = Tighter /\ stop' = Over(Tighter)
    <3>1. CASE got + n > limits.outer /\ got + outer.n > limits.inner
      BY <1>2, <1>3, <1>5, <1>6, <1>7, <3>1
    <3>2. CASE got + n > limits.outer /\ ~(got + outer.n > limits.inner)
      BY <1>2, <1>3, <1>5, <1>6, <1>7, <3>2
    <3>3. CASE ~(got + n > limits.outer)
      BY <1>2, <1>3, <1>5, <1>6, <1>7, <1>9, <3>3
    <3> QED BY <3>1, <3>2, <3>3
  <2>2. Len(sent) > Tighter /\ Tighter \in Nat
    BY <1>1, <1>2, <1>3, <1>9
  <2>3. got' <= limits.outer /\ got' <= limits.inner
    BY <1>2, <1>3, <2>1
  <2> QED BY <1>1, <1>2, <1>4, <2>1, <2>2, <2>3 DEF ReadInv
<1> QED BY <1>8, <1>9

\* Once a command is decided, it is as if the body had been there as a whole.
LEMMA DecodedIsWhole ==
  ASSUME ReadInv, Decoded # Open
  PROVE  Decoded = Whole
<1> DEFINE p == SubSeq(sent, 1, got)
           cut == SubSeq(sent, 1, Tighter)
<1>1. /\ sent \in Seq(Bytes) /\ got \in Nat /\ got <= Len(sent) /\ got <= Tighter
      /\ Tighter \in Nat \ {0}
  BY TighterIsLess DEF ReadInv
<1>2. p \in Seq(Bytes) /\ Len(p) = got /\ \A k \in 1 .. got : p[k] = sent[k]
  BY <1>1
<1>3. Tighter < Len(sent) =>
        cut \in Seq(Bytes) /\ Len(cut) = Tighter /\ \A k \in 1 .. Tighter : cut[k] = sent[k]
  BY <1>1
<1>4. Decoded = DecodeJSON(p, stop)
  BY DEF Decoded
<1>5. got = Len(sent) => p = sent
  BY <1>1
<1>6. Whole = IF Len(sent) > Tighter THEN DecodeJSON(cut, Over(Tighter))
              ELSE DecodeJSON(sent, Ends(ending))
  BY DEF Whole
<1>7. got = Tighter => p = cut
  OBVIOUS
<1> HIDE DEF p, cut
<1>8. CASE stop = Open
  <2>1. Begins(p, sent) /\ (Tighter < Len(sent) => Begins(p, cut))
    BY <1>1, <1>2, <1>3 DEF Begins
  <2>2. DecodeJSON(p, Open) = Refused
    BY <1>4, <1>8, <2>1, RefusedStays
  <2>3. DecodeJSON(sent, Ends(ending)) = Refused
    BY <2>1, <2>2, RefusedStays
  <2>4. Tighter < Len(sent) => DecodeJSON(cut, Over(Tighter)) = Refused
    BY <2>1, <2>2, RefusedStays
  <2> QED BY <1>1, <1>4, <1>6, <1>8, <2>2, <2>3, <2>4
<1>9. CASE stop = Ends(ending) /\ got = Len(sent)
  BY <1>1, <1>4, <1>5, <1>6, <1>9
<1>10. CASE stop = Over(Tighter) /\ got = Tighter /\ Len(sent) > Tighter
  BY <1>4, <1>6, <1>7, <1>10
<1> QED BY <1>8, <1>9, <1>10 DEF ReadInv

\* What a whole body comes to.
LEMMA WholeIs ==
  ASSUME ReadInv
  PROVE  /\ Whole = Accepted <=> /\ OneValue(sent) /\ fits /\ ending = "eof"
                                 /\ Len(sent) <= Tighter
         /\ Whole.is = "tooLarge" => Whole.limit = Tighter /\ Len(sent) > Tighter
<1> DEFINE cut == SubSeq(sent, 1, Tighter)
<1>1. sent \in Seq(Bytes) /\ ending \in {"eof", "failed"} /\ Tighter \in Nat \ {0}
      /\ Len(sent) \in Nat
  BY TighterIsLess DEF ReadInv
<1>2. /\ Ends(ending) \in Endings /\ Ends(ending).is = ending
      /\ Over(Tighter) \in Endings /\ Over(Tighter).is = "over"
      /\ Over(Tighter).limit = Tighter
  BY <1>1 DEF Endings, Ends, Over
<1>3. /\ Accepted.is = "accepted" /\ Refused.is = "refused"
      /\ TooLarge(Tighter).is = "tooLarge" /\ TooLarge(Tighter).limit = Tighter
  BY DEF Accepted, Refused, TooLarge
<1>4. Whole = IF Len(sent) > Tighter THEN DecodeJSON(cut, Over(Tighter))
              ELSE DecodeJSON(sent, Ends(ending))
  BY DEF Whole
<1>5. CASE Len(sent) > Tighter
  <2>1. cut \in Seq(Bytes)
    BY <1>1, <1>5
  <2> HIDE DEF cut
  <2>2. bodyError(Over(Tighter)) = TooLarge(Tighter)
    BY <1>2, BodyErrors
  <2>3. /\ DecodeJSON(cut, Over(Tighter)) # Accepted
        /\ DecodeJSON(cut, Over(Tighter)) \in {Accepted, Refused, TooLarge(Tighter)}
    BY <1>2, <2>1, <2>2, DecodeResults
  <2> QED BY <1>1, <1>3, <1>4, <1>5, <2>3
<1>6. CASE ~(Len(sent) > Tighter)
  <2> HIDE DEF cut
  <2>1. bodyError(Ends(ending)) = Refused
    BY <1>1, <1>2, BodyErrors
  <2>2. /\ DecodeJSON(sent, Ends(ending)) \in {Accepted, Refused}
        /\ DecodeJSON(sent, Ends(ending)) = Accepted <=>
             fits /\ ending = "eof" /\ \E i, a \in Nat : Accepts(sent, Ends(ending), i, a)
    BY <1>1, <1>2, <2>1, DecodeResults
  <2>3. ending = "eof" => (OneValue(sent) <=> \E i, a \in Nat : Accepts(sent, Ends(ending), i, a))
    BY <1>1, <1>2, OneValueIs
  <2> QED BY <1>1, <1>3, <1>4, <1>6, <2>2, <2>3
<1> QED BY <1>5, <1>6

\* An object has a version, a time and a length.
LEMMA ObjectFields ==
  ASSUME NEW o \in Objects
  PROVE  /\ o.version \in -1 .. MaxVersions /\ o.second \in 0 .. MaxVersions
         /\ o.length \in Nat
BY DEF Objects

\* Before any request the invariant holds.
LEMMA Initially ==
  ASSUME Init
  PROVE  IInv
<1>1. NoObject \in Objects
  BY ExchangeAssumption DEF NoObject, Objects
<1>2. PICK o \in Described :
        store = [version |-> 0, second |-> 0, tagged |-> o.tagged, dated |-> o.dated,
                 sized |-> o.sized, length |-> o.length]
  BY DEF Init
<1>3. o \in [tagged : BOOLEAN, dated : BOOLEAN, sized : BOOLEAN, length : Lengths]
  BY ExchangeAssumption
<1>4. store \in Objects /\ store.version = 0 /\ store.second = 0
  <2>1. o.tagged \in BOOLEAN /\ o.dated \in BOOLEAN /\ o.sized \in BOOLEAN /\ o.length \in Nat
    BY <1>3, ExchangeAssumption
  <2>2. 0 \in -1 .. MaxVersions /\ 0 \in 0 .. MaxVersions
    BY ExchangeAssumption
  <2> HIDE <1>3
  <2> QED BY <1>2, <2>1, <2>2 DEF Objects
<1>5. ReadInv
  BY DEF Init, ReadInv
<1>6. ResultInv /\ PhaseInv /\ TruncationShows
  BY DEF Init, ResultInv, PhaseInv, TruncationShows
<1>7. ProxyInv
  BY <1>1, <1>4 DEF Init, ProxyInv, NoObject
<1> QED BY <1>5, <1>6, <1>7 DEF IInv

\* Another client changes the object, whatever this one does.
LEMMA ChangeKeeps ==
  ASSUME IInv, NEW later \in {0, 1}, NEW length \in Lengths, Change(later, length)
  PROVE  IInv'
<1>1. /\ store.version < MaxVersions
      /\ store' = [store EXCEPT !.version = @ + 1, !.second = @ + later, !.length = length]
      /\ UNCHANGED <<bodyVars, objectVars, exchangeVars, cache>>
  BY DEF Change
<1>2. /\ store \in Objects /\ store.version >= 0 /\ store.second <= store.version
      /\ MaxVersions \in Nat /\ length \in Nat
  BY ExchangeAssumption DEF IInv, ProxyInv
<1>3. store' \in Objects /\ store'.version >= 0 /\ store'.second <= store'.version
  <2>1. /\ store'.version = store.version + 1 /\ store'.second = store.second + later
        /\ store' = [version |-> store'.version, second |-> store'.second,
                     tagged |-> store.tagged, dated |-> store.dated,
                     sized |-> store.sized, length |-> length]
    BY <1>1, <1>2 DEF Objects
  <2> QED BY <1>1, <1>2, <2>1, ObjectFields DEF Objects
<1>4. UNCHANGED <<sent, ending, limits, got, stop, fits, object, method, cond, header,
                  status, file, wire, ended, kind, phase, declared, result, reply, cache>>
  BY <1>1 DEF bodyVars, objectVars, exchangeVars
<1>5. ReadInv'
  BY <1>4 DEF IInv, ReadInv, Tighter
<1>6. ResultInv'
  BY <1>4 DEF IInv, ResultInv, Decoded, DecodeJSON, trailing
<1>7. PhaseInv' /\ TruncationShows'
  BY <1>4 DEF IInv, PhaseInv, TruncationShows
<1>8. ProxyInv'
  BY <1>3, <1>4 DEF IInv, ProxyInv, notModified
<1> QED BY <1>5, <1>6, <1>7, <1>8 DEF IInv

\* The client's next exchange finds nothing of the last but what is stored.
LEMMA RestKeeps ==
  ASSUME IInv, Rest
  PROVE  IInv'
<1>1. /\ sent' = <<>> /\ fits' = TRUE /\ ending' = "eof"
      /\ limits' = [outer |-> 1, inner |-> 1] /\ got' = 0 /\ stop' = Open
      /\ object' = NoObject /\ method' = "GET" /\ cond' = NoCond
      /\ header' = {} /\ status' = 0 /\ file' = "none" /\ wire' = 0 /\ ended' = "no"
      /\ kind' = "none" /\ phase' = "idle" /\ declared' = 0 /\ result' = Open
      /\ reply' = "none" /\ store' = store /\ cache' = cache
  BY DEF Rest
<1>2. NoObject \in Objects /\ NoObject.length = 0
  BY ExchangeAssumption DEF NoObject, Objects
<1>3. ReadInv'
  BY <1>1 DEF ReadInv
<1>4. ResultInv' /\ PhaseInv' /\ TruncationShows'
  BY <1>1 DEF ResultInv, PhaseInv, TruncationShows
<1>5. ProxyInv'
  BY <1>1, <1>2 DEF IInv, ProxyInv
<1> QED BY <1>3, <1>4, <1>5 DEF IInv

\* The steps of a request, one by one, keep the invariant: a command,
LEMMA CommandKeeps ==
  ASSUME IInv, NEW b \in Bodies, NEW how \in {"eof", "failed"},
         NEW outer \in Limits, NEW inner \in Limits, NEW f,
         Command(b, how, outer, inner, f)
  PROVE  IInv'
<1>1. /\ phase = "idle" /\ kind' = "command" /\ phase' = "reading" /\ result' = Open
      /\ sent' = b /\ ending' = how /\ limits' = [outer |-> outer, inner |-> inner]
      /\ got' = 0 /\ stop' = Open
      /\ UNCHANGED <<status, file, wire, ended, reply, store, cache, object, method,
                     cond, header, declared>>
  BY DEF Command, Request, SendBody
<1>2. b \in Seq(Bytes) /\ outer \in Nat \ {0} /\ inner \in Nat \ {0}
  BY ExchangeAssumption
<1>3. ReadInv'
  BY <1>1, <1>2 DEF ReadInv
<1>4. ResultInv' /\ PhaseInv'
  BY <1>1 DEF IInv, ResultInv, PhaseInv
<1>5. ProxyInv' /\ TruncationShows'
  BY <1>1 DEF IInv, ProxyInv, TruncationShows
<1> QED BY <1>3, <1>4, <1>5 DEF IInv

\* ReadUpload accepts only a size that is known and within its limit.
LEMMA UploadIs ==
  ASSUME NEW typed \in BOOLEAN, NEW size \in Int, NEW limit \in Nat
  PROVE  LET r == ReadUpload(typed, size, limit)
         IN /\ r.is \in {"untyped", "unsized", "tooLarge", "accepted"}
            /\ r = Accepted => size \in Nat /\ size <= limit
<1>1. /\ Untyped.is = "untyped" /\ Unsized.is = "unsized" /\ TooLarge(limit).is = "tooLarge"
      /\ Accepted.is = "accepted"
  BY DEF Untyped, Unsized, TooLarge, Accepted
<1> QED BY <1>1 DEF ReadUpload

\* an upload,
LEMMA UploadKeeps ==
  ASSUME IInv, NEW size \in Limits \cup {-1, 0}, NEW typed \in BOOLEAN,
         NEW outer \in Limits, NEW inner \in Limits, NEW n \in {0} \cup 0 .. size,
         Upload(n, typed, size, outer, inner)
  PROVE  IInv'
<1> DEFINE body == [i \in 1 .. n |-> "part"]
<1>1. /\ phase = "idle" /\ kind' = "upload" /\ result' = ReadUpload(typed, size, inner)
      /\ phase' = IF result' = Accepted THEN "reading" ELSE "returned"
      /\ sent' = body /\ ending' = IF n = size THEN "eof" ELSE "failed"
      /\ limits' = [outer |-> outer, inner |-> inner]
      /\ got' = 0 /\ stop' = Open /\ declared' = size
      /\ UNCHANGED <<status, file, wire, ended, reply, store, cache, object, method,
                     cond, header, fits>>
  BY DEF Upload, Request, SendBody
<1>2. outer \in Nat \ {0} /\ inner \in Nat \ {0} /\ size \in Int /\ n \in Nat
      /\ (size \in Nat => n <= size)
  BY ExchangeAssumption
<1>3. body \in Seq(Bytes) /\ Len(body) = n
  BY <1>2 DEF Bytes
<1> HIDE DEF body
<1>4. ReadInv'
  BY <1>1, <1>2, <1>3 DEF ReadInv
<1>5. /\ result'.is \in {"untyped", "unsized", "tooLarge", "accepted"}
      /\ result' = Accepted => size \in Nat /\ size <= inner
  BY <1>1, <1>2, UploadIs
<1>6. ResultInv'
  BY <1>1, <1>2, <1>3, <1>5 DEF ResultInv
<1>7. PhaseInv'
  BY <1>1 DEF IInv, PhaseInv
<1>8. ProxyInv' /\ TruncationShows'
  BY <1>1 DEF IInv, ProxyInv, TruncationShows
<1> QED BY <1>4, <1>6, <1>7, <1>8 DEF IInv

\* a read,
LEMMA GetKeeps ==
  ASSUME IInv, NEW m \in {"GET", "HEAD"}, NEW c \in Conditions, Get(m, c)
  PROVE  IInv'
<1>1. /\ phase = "idle" /\ kind' = "object" /\ phase' = "handling"
      /\ object' = store /\ method' = m /\ cond' = c
      /\ UNCHANGED <<sent, fits, ending, limits, got, stop, status, file, wire, ended,
                     reply, store, cache, declared, result>>
  BY DEF Get, Request, bodyVars
<1>2. \A k \in DOMAIN c.tags : c.tags[k] \in {cache.version, Malformed, AnyTag}
  <2>1. CASE c = NoCond
    BY <2>1 DEF NoCond
  <2>2. CASE c = [tags |-> <<AnyTag>>, since |-> NoDate]
    BY <2>2
  <2>3. CASE \E tags \in {<<>>, <<cache.version>>, <<Malformed, cache.version>>} : \E since :
               c = [tags |-> tags, since |-> since]
    BY <2>3
  <2>4. ASSUME c # NoCond, c # [tags |-> <<AnyTag>>, since |-> NoDate]
        PROVE  \E tags \in {<<>>, <<cache.version>>, <<Malformed, cache.version>>} : \E since :
                 c = [tags |-> tags, since |-> since]
    <3> DEFINE T == IF cache.tagged
                    THEN {<<>>, <<cache.version>>, <<Malformed, cache.version>>} ELSE {<<>>}
               D == {NoDate} \cup (IF cache.dated THEN {cache.second} ELSE {})
    <3>1. c \in {[tags |-> tags, since |-> since] : tags \in T, since \in D}
      BY <2>4 DEF Conditions
    <3>2. T \subseteq {<<>>, <<cache.version>>, <<Malformed, cache.version>>}
      OBVIOUS
    <3> HIDE DEF T, D
    <3> QED BY <3>1, <3>2
  <2> QED BY <2>1, <2>2, <2>3, <2>4
<1>3. ReadInv'
  BY <1>1 DEF IInv, ReadInv, Tighter
<1>4. ResultInv' /\ PhaseInv'
  BY <1>1 DEF IInv, ResultInv, PhaseInv
<1>5. ProxyInv'
  <2>1. /\ status = 0 /\ wire = 0 /\ ended = "no" /\ store \in Objects
        /\ cache \in Objects /\ store.version >= 0 /\ store.second <= store.version
        /\ store.length \in Nat
    BY <1>1, ObjectFields DEF IInv, PhaseInv, ProxyInv
  <2> QED BY <1>1, <1>2, <2>1 DEF ProxyInv
<1>6. TruncationShows'
  BY <1>1 DEF IInv, PhaseInv, TruncationShows
<1> QED BY <1>3, <1>4, <1>5, <1>6 DEF IInv

\* a part of the body that arrives,
LEMMA ReadBodyKeeps ==
  ASSUME IInv, ReadBody
  PROVE  IInv'
<1>1. /\ phase = "reading" /\ Tighter - got + 1 \in Int
      /\ UNCHANGED <<objectVars, exchangeVars, store, cache>>
  BY TighterIsLess DEF ReadBody, IInv, ReadInv
<1>2. PICK n \in 0 .. Tighter - got + 1, end \in BOOLEAN : Read(n, end)
  BY DEF ReadBody
<1>3. n \in Nat
  BY <1>1
<1>4. ReadInv'
  BY <1>2, <1>3, ReadKeeps DEF IInv
<1>5. UNCHANGED <<sent, ending, limits, object, method, cond, header, status, file,
                  wire, ended, kind, phase, declared, result, reply, store, cache>>
  BY <1>1, <1>2 DEF Read, objectVars, exchangeVars
<1>6. ResultInv' /\ PhaseInv' /\ TruncationShows'
  BY <1>1, <1>5 DEF IInv, ResultInv, PhaseInv, TruncationShows
<1>7. ProxyInv'
  BY <1>5 DEF IInv, ProxyInv, notModified
<1> QED BY <1>4, <1>6, <1>7 DEF IInv

\* the body read to its end or its limit,
LEMMA BodyIsReadKeeps ==
  ASSUME IInv, BodyIsRead
  PROVE  IInv'
<1>1. /\ phase = "reading" /\ phase' = "returned"
      /\ \/ kind = "command" /\ Decoded # Open /\ result' = Decoded
         \/ kind = "upload" /\ result' = result
      /\ UNCHANGED <<sent, fits, ending, limits, got, stop, object, method, cond, header,
                     status, file, wire, ended, kind, declared, reply, store, cache>>
  BY DEF BodyIsRead, bodyVars, objectVars
<1>2. Decoded' = Decoded
  BY <1>1 DEF Decoded, DecodeJSON, trailing
<1>3. ReadInv'
  BY <1>1 DEF IInv, ReadInv, Tighter
<1>4. ResultInv'
  <2>1. Accepted.is = "accepted"
    BY DEF Accepted
  <2> QED BY <1>1, <1>2, <2>1 DEF IInv, ResultInv
<1>5. PhaseInv' /\ ProxyInv' /\ TruncationShows'
  BY <1>1 DEF IInv, PhaseInv, ProxyInv, TruncationShows
<1> QED BY <1>3, <1>4, <1>5 DEF IInv

\* The problem of a failure, and what else a reply's status may be.
LEMMA StatusesAre ==
  /\ ProblemStatus \in {400, 411, 413, 415, 500}
  /\ kind = "object" => ProblemStatus = 500
<1>1. CASE kind = "object" \/ result = Accepted
  BY <1>1 DEF ProblemStatus
<1>2. CASE ~(kind = "object" \/ result = Accepted)
  <2>1. CASE result.is = "tooLarge"
    <3>1. ProblemStatus = 413
      BY <1>2, <2>1 DEF ProblemStatus
    <3> QED BY <1>2, <3>1
  <2>2. CASE result.is = "unsized"
    <3>1. ProblemStatus = 411
      BY <1>2, <2>2 DEF ProblemStatus
    <3> QED BY <1>2, <3>1
  <2>3. CASE result.is = "untyped"
    <3>1. ProblemStatus = 415
      BY <1>2, <2>3 DEF ProblemStatus
    <3> QED BY <1>2, <3>1
  <2>4. CASE result.is \notin {"tooLarge", "unsized", "untyped"}
    <3>1. ProblemStatus = 400
      BY <1>2, <2>4 DEF ProblemStatus
    <3> QED BY <1>2, <3>1
  <2> QED BY <2>1, <2>2, <2>3, <2>4
<1> QED BY <1>1, <1>2

\* the handler,
LEMMA HandleKeeps ==
  ASSUME IInv, Handle
  PROVE  IInv'
<1>1. /\ phase = "returned" /\ phase' = "replied"
      /\ status' = IF status # 0 THEN status ELSE IF Failed THEN ProblemStatus ELSE 200
      /\ header' = IF status = 0 THEN header \cup {"Content-Type"} ELSE header
      /\ reply' \in {"cut", "none"}
      /\ UNCHANGED <<sent, fits, ending, limits, got, stop, object, method, cond, file,
                     wire, ended, kind, declared, result, store, cache>>
  BY DEF Handle, bodyVars
<1>2. /\ status' \in {0, 200, 304, 400, 411, 413, 415, 500} /\ status' # 0
      /\ status # 0 => status' = status
  BY <1>1, StatusesAre DEF IInv, PhaseInv
<1>3. kind = "object" /\ status = 0 => status' = 500
  <2>1. ASSUME kind = "object", status = 0 PROVE Failed
    <3>1. ended \in {"error", "panic"}
      BY <1>1, <2>1 DEF IInv, ProxyInv
    <3> QED BY <2>1, <3>1, Zenon DEF Failed
  <2> QED BY <1>1, <2>1, StatusesAre
<1>4. /\ "Content-Length" \in header => "Content-Length" \in header'
      /\ header \cap representation = {} => header' \cap representation = {}
      /\ "no-store" \in header => "no-store" \in header'
  BY <1>1 DEF representation
<1>5. ReadInv'
  BY <1>1 DEF IInv, ReadInv, Tighter
<1>6. Decoded' = Decoded
  BY <1>1 DEF Decoded, DecodeJSON, trailing
<1>7. ResultInv'
  BY <1>1, <1>6 DEF IInv, ResultInv
<1>8. PhaseInv' /\ TruncationShows'
  BY <1>1, <1>2 DEF IInv, PhaseInv, TruncationShows
<1>9. ProxyInv'
  <2>1. notModified(cond, object)' = notModified(cond, object)
    BY <1>1 DEF notModified
  <2>2. kind = "object" =>
          /\ status' = 304 => status = 304
          /\ status' = 200 => status = 200
          /\ status' \notin {200, 304} => status \notin {200, 304}
    BY <1>2, <1>3
  <2>3. ASSUME kind' = "object"
        PROVE  /\ status' = 304 => notModified(cond, object)'
               /\ status' = 200 /\ object'.sized => "Content-Length" \in header'
               /\ ended' = "error" /\ status' \notin {200, 304} =>
                    header' \cap representation = {} /\ "no-store" \in header'
    BY <1>1, <1>4, <2>1, <2>2, <2>3 DEF IInv, ProxyInv
  <2> QED BY <1>1, <2>3 DEF IInv, ProxyInv
<1> QED BY <1>5, <1>7, <1>8, <1>9 DEF IInv

\* the end of the response,
LEMMA FinishKeeps ==
  ASSUME IInv, Finish
  PROVE  IInv'
<1> DEFINE short == /\ kind = "object" /\ method = "GET" /\ status = 200
                    /\ "Content-Length" \in header /\ wire < object.length
           got200 == kind = "object" /\ method = "GET" /\ status = 200
<1>1. /\ phase = "replied" /\ phase' = "done"
      /\ reply' = IF reply = "cut" \/ short THEN "cut" ELSE "whole"
      /\ cache' = IF got200 /\ reply' = "whole" THEN object ELSE cache
      /\ UNCHANGED <<sent, fits, ending, limits, got, stop, object, method, cond, header,
                     status, file, wire, ended, kind, declared, result, store>>
  BY DEF Finish, bodyVars, objectVars
<1>2. ReadInv'
  BY <1>1 DEF IInv, ReadInv, Tighter
<1>3. ResultInv' /\ PhaseInv'
  BY <1>1 DEF IInv, ResultInv, PhaseInv
<1>4. cache' \in Objects
  BY <1>1 DEF IInv, ProxyInv
<1>5. ProxyInv'
  BY <1>1, <1>4 DEF IInv, ProxyInv
<1>6. TruncationShows'
  <2>1. SUFFICES ASSUME reply' = "whole", kind = "object", method = "GET", status = 200,
                        object.sized
                 PROVE  wire = object.length
    BY <1>1 DEF TruncationShows
  <2>2. "Content-Length" \in header /\ wire \in Nat /\ wire <= object.length /\ object \in Objects
    BY <1>1, <2>1 DEF IInv, ProxyInv
  <2>3. object.length \in Nat
    BY <2>2, ObjectFields
  <2> QED BY <1>1, <2>1, <2>2, <2>3
<1> QED BY <1>2, <1>3, <1>5, <1>6 DEF IInv

\* One step of WriteObject: it commits a 304 or a 200 once, and says before it
\* copies that an object is whole only at its length.
LEMMA ProxyStep ==
  ASSUME IInv, phase = "handling", WriteObject
  PROVE  /\ UNCHANGED <<object, method, cond>>
         /\ status' \in {0, 200, 304} /\ file' \in {"none", "open", "closed"}
         /\ wire' \in Nat /\ wire' <= object.length
         /\ ended' = "no" => file' = "open" /\ status' = 200 /\ method # "HEAD"
         /\ ended' # "no" => file' # "open"
         /\ ended' # "no" /\ status' = 0 => ended' \in {"error", "panic"}
         /\ status' = 304 => notModified(cond, object)
         /\ status' = 200 /\ object.sized => "Content-Length" \in header'
         /\ ended' = "error" /\ status' \notin {200, 304} =>
              header' \cap representation = {} /\ "no-store" \in header'
<1>1. /\ kind = "object" /\ ended = "no" /\ (status = 0 <=> file = "none")
      /\ status # 0 => status = 200 /\ method # "HEAD"
      /\ wire \in Nat /\ wire <= object.length /\ object \in Objects
  BY DEF IInv, PhaseInv, ProxyInv
<1>2. object.length \in Nat
  BY <1>1, ObjectFields
<1> DEFINE Goal ==
             /\ UNCHANGED <<object, method, cond>>
             /\ status' \in {0, 200, 304} /\ file' \in {"none", "open", "closed"}
             /\ wire' \in Nat /\ wire' <= object.length
             /\ ended' = "no" => file' = "open" /\ status' = 200 /\ method # "HEAD"
             /\ ended' # "no" => file' # "open"
             /\ ended' # "no" /\ status' = 0 => ended' \in {"error", "panic"}
             /\ status' = 304 => notModified(cond, object)
             /\ status' = 200 /\ object.sized => "Content-Length" \in header'
             /\ ended' = "error" /\ status' \notin {200, 304} =>
                  header' \cap representation = {} /\ "no-store" \in header'
<1>3. CASE NotModified
  BY <1>1, <1>3 DEF NotModified
<1>4. CASE HeadersAlone
  BY <1>1, <1>4 DEF HeadersAlone, Modified, describe
<1>5. CASE OpenFails
  <2>1. header' \cap representation = {} /\ "no-store" \in header'
    BY <1>5 DEF OpenFails, clearObject, representation
  <2> QED BY <1>1, <1>5, <2>1 DEF OpenFails, Modified
<1>6. CASE OpenPanics
  BY <1>1, <1>6 DEF OpenPanics, Modified
<1>7. CASE Opens
  BY <1>1, <1>7 DEF Opens, Modified, describe
<1>8. ASSUME file = "open"
      PROVE  /\ object.sized => "Content-Length" \in header
             /\ status = 200 /\ method # "HEAD"
  BY <1>1, <1>8 DEF IInv, ProxyInv, PhaseInv
<1>9. ASSUME file = "open", UNCHANGED <<object, method, cond, header, status>>,
             wire' \in Nat, wire' <= object.length,
             \/ file' = "open" /\ ended' = "no"
             \/ file' = "closed" /\ ended' # "no"
      PROVE  Goal
  BY <1>1, <1>8, <1>9 DEF IInv, ProxyInv
<1>10. ASSUME NEW n \in 1 .. object.length, Copy(n) PROVE Goal
  BY <1>1, <1>2, <1>9, <1>10 DEF Copy
<1>11. ASSUME NEW how \in {"nil", "error", "panic"}, CopyEnds(how) PROVE Goal
  BY <1>1, <1>2, <1>9, <1>11 DEF CopyEnds
<1> QED BY <1>3, <1>4, <1>5, <1>6, <1>7, <1>10, <1>11, <1>2 DEF WriteObject

\* and the proxy that keeps or drops a copy.
LEMMA ProxyKeeps ==
  ASSUME IInv, Proxy
  PROVE  IInv'
<1>1. /\ phase = "handling" /\ WriteObject
      /\ phase' = IF ended' = "no" THEN "handling" ELSE "returned"
      /\ UNCHANGED <<sent, fits, ending, limits, got, stop, kind, declared, result, reply,
                     store, cache>>
  BY DEF Proxy, bodyVars
<1>2. /\ UNCHANGED <<object, method, cond>>
      /\ status' \in {0, 200, 304} /\ file' \in {"none", "open", "closed"}
      /\ wire' \in Nat /\ wire' <= object.length
      /\ ended' = "no" => file' = "open" /\ status' = 200 /\ method # "HEAD"
      /\ ended' # "no" => file' # "open"
      /\ ended' # "no" /\ status' = 0 => ended' \in {"error", "panic"}
      /\ status' = 304 => notModified(cond, object)
      /\ status' = 200 /\ object.sized => "Content-Length" \in header'
      /\ ended' = "error" /\ status' \notin {200, 304} =>
           header' \cap representation = {} /\ "no-store" \in header'
  BY <1>1, ProxyStep
<1>3. kind = "object"
  BY <1>1 DEF IInv, PhaseInv
<1>4. ReadInv'
  BY <1>1 DEF IInv, ReadInv, Tighter
<1>5. ResultInv'
  BY <1>1, <1>3 DEF ResultInv
<1>6. PhaseInv'
  BY <1>1, <1>2, <1>3 DEF IInv, PhaseInv
<1>7. ProxyInv'
  <2>1. notModified(cond, object)' = notModified(cond, object)
    BY <1>2 DEF notModified
  <2>2. /\ object.version >= 0
        /\ \A k \in DOMAIN cond.tags : cond.tags[k] \in {cache.version, Malformed, AnyTag}
    BY <1>1, <1>3 DEF IInv, ProxyInv
  <2>3. phase' = "returned" /\ status' = 0 => ended' \in {"error", "panic"}
    BY <1>1, <1>2
  <2> QED BY <1>1, <1>2, <2>1, <2>2, <2>3 DEF IInv, ProxyInv
<1>8. TruncationShows'
  BY <1>1 DEF IInv, PhaseInv, TruncationShows
<1> QED BY <1>4, <1>5, <1>6, <1>7, <1>8 DEF IInv

\* So does every step.
LEMMA Kept ==
  ASSUME IInv, [Next]_vars
  PROVE  IInv'
<1>1. CASE UNCHANGED vars
  <2>1. UNCHANGED <<sent, fits, ending, limits, got, stop, object, method, cond, header,
                    status, file, wire, ended, kind, phase, declared, result, reply, store,
                    cache>>
    BY <1>1 DEF vars, bodyVars, objectVars, exchangeVars
  <2>2. ReadInv' /\ PhaseInv' /\ TruncationShows'
    BY <2>1 DEF IInv, ReadInv, Tighter, PhaseInv, TruncationShows
  <2>3. ResultInv'
    BY <2>1 DEF IInv, ResultInv, Decoded, DecodeJSON, trailing
  <2>4. ProxyInv'
    BY <2>1 DEF IInv, ProxyInv, notModified
  <2> QED BY <2>2, <2>3, <2>4 DEF IInv
<1>2. ASSUME NEW later \in {0, 1}, NEW length \in Lengths, Change(later, length) PROVE IInv'
  BY <1>2, ChangeKeeps
<1>3. ASSUME NEW b \in Bodies, NEW how \in {"eof", "failed"}, NEW outer \in Limits,
             NEW inner \in Limits, NEW f \in BOOLEAN, Command(b, how, outer, inner, f)
      PROVE  IInv'
  BY <1>3, CommandKeeps
<1>4. ASSUME NEW size \in Limits \cup {-1, 0}, NEW typed \in BOOLEAN, NEW outer \in Limits,
             NEW inner \in Limits, NEW n \in {0} \cup 0 .. size,
             Upload(n, typed, size, outer, inner)
      PROVE  IInv'
  BY <1>4, UploadKeeps
<1>5. ASSUME NEW m \in {"GET", "HEAD"}, NEW c \in Conditions, Get(m, c) PROVE IInv'
  BY <1>5, GetKeeps
<1>6. ASSUME ReadBody \/ BodyIsRead \/ Proxy \/ Handle \/ Finish \/ Rest PROVE IInv'
  BY <1>6, ReadBodyKeeps, BodyIsReadKeeps, ProxyKeeps, HandleKeeps, FinishKeeps, RestKeeps
<1> QED BY <1>1, <1>2, <1>3, <1>4, <1>5, <1>6 DEF Next

\* The invariant holds throughout.
LEMMA Invariance == Spec => []IInv
BY Initially, Kept, PTL DEF Spec

-----------------------------------------------------------------------------
\* Every variable keeps its type: what is got stays within the body and both
\* limits, and a reply has a status, and the object closed, once handled.
THEOREM Typing == Spec => []TypeOK
<1>1. ASSUME IInv PROVE TypeOK
  <2>1. got \in 0 .. Min({Len(sent), Tighter})
    <3> DEFINE S == {Len(sent), Tighter}
    <3>1. /\ got \in Nat /\ got <= Len(sent) /\ got <= Tighter
          /\ Tighter \in Nat /\ Len(sent) \in Nat
      BY <1>1, TighterIsLess DEF IInv, ReadInv
    <3>2. S \in SUBSET Nat /\ S # {} /\ Min(S) = First(S, 0)
      BY <3>1 DEF First
    <3>3. Min(S) \in S
      BY <3>2, FirstIsLeast
    <3> HIDE DEF S
    <3>4. Min(S) \in Nat /\ got <= Min(S)
      BY <3>1, <3>3 DEF S
    <3> QED BY <3>1, <3>4 DEF S
  <2>2. stop.is \in {"open", "eof", "failed", "over"} /\ sent \in Seq(Bytes)
    BY <1>1 DEF IInv, ReadInv, Open, Ends, Over
  <2>3. phase = "replied" => status # 0 /\ file # "open"
    BY <1>1 DEF IInv, PhaseInv
  <2>4. file = "open" => status = 200
    BY <1>1 DEF IInv, PhaseInv
  <2> QED BY <1>1, <2>1, <2>2, <2>3, <2>4 DEF IInv, PhaseInv, ProxyInv, TypeOK
<1> QED BY <1>1, Invariance, PTL

\* However a body of any bytes is cut into reads, and under any two limits,
\* the command it is taken for is decided by its bytes; it is accepted exactly
\* when it is one fitting value that arrives whole; and an accepted upload is
\* read to its declared size, or ends in the error that says why not.
THEOREM DecidedByBytes == Spec => []BodyDetermined
<1>1. ASSUME IInv PROVE BodyDetermined
  <2> SUFFICES ASSUME phase \in {"returned", "replied"}
               PROVE  /\ kind = "command" =>
                           /\ result = Whole
                           /\ result = Accepted <=> /\ OneValue(sent) /\ fits /\ ending = "eof"
                                                    /\ Len(sent) <= Tighter
                           /\ result.is = "tooLarge" =>
                                result.limit = Tighter /\ Len(sent) > Tighter
                      /\ kind = "upload" =>
                           /\ result # Accepted => got = 0
                           /\ stop.is = "eof" => got = declared
                           /\ stop.is = "over" =>
                                limits.outer < declared /\ stop.limit = limits.outer
    BY Zenon DEF BodyDetermined
  <2>1. ASSUME kind = "command"
        PROVE  /\ result = Whole
               /\ result = Accepted <=> /\ OneValue(sent) /\ fits /\ ending = "eof"
                                        /\ Len(sent) <= Tighter
               /\ result.is = "tooLarge" => result.limit = Tighter /\ Len(sent) > Tighter
    <3>1. result = Decoded /\ Decoded # Open
      BY <1>1, <2>1 DEF IInv, ResultInv
    <3>2. result = Whole
      BY <1>1, <3>1, DecodedIsWhole DEF IInv
    <3> QED BY <1>1, <3>2, WholeIs DEF IInv
  <2>2. ASSUME kind = "upload"
        PROVE  /\ result # Accepted => got = 0
               /\ stop.is = "eof" => got = declared
               /\ stop.is = "over" => limits.outer < declared /\ stop.limit = limits.outer
    <3>1. /\ ending \in {"eof", "failed"} /\ limits.outer \in Nat /\ limits.inner \in Nat
          /\ Len(sent) \in Nat
          /\ \/ stop = Open
             \/ stop = Ends(ending) /\ got = Len(sent)
             \/ stop = Over(Tighter) /\ got = Tighter /\ Len(sent) > Tighter
      BY <1>1 DEF IInv, ReadInv
    <3>2. /\ Open.is = "open" /\ Ends(ending).is = ending /\ Over(Tighter).is = "over"
          /\ Over(Tighter).limit = Tighter
      BY DEF Open, Ends, Over
    <3>3. CASE result # Accepted
      BY <1>1, <2>2, <3>2, <3>3 DEF IInv, ResultInv
    <3>4. CASE result = Accepted
      <4>1. /\ declared \in Nat /\ declared <= limits.inner /\ Len(sent) <= declared
            /\ ending = "eof" => Len(sent) = declared
        BY <1>1, <2>2, <3>4 DEF IInv, ResultInv
      <4>2. stop.is = "over" => Tighter < declared /\ stop.limit = Tighter
        BY <3>1, <3>2, <4>1, TighterIsLess
      <4>3. stop.is = "over" => Tighter = limits.outer
        BY <3>1, <4>1, <4>2, TighterIsLess
      <4> QED BY <3>1, <3>2, <3>4, <4>1, <4>2, <4>3
    <3> QED BY <3>3, <3>4
  <2> QED BY <2>1, <2>2
<1> QED BY <1>1, Invariance, PTL

\* Whatever the caller set and the store knows, the problem that answers an
\* open that failed has none of the object's headers and is not stored.
THEOREM ProblemStandsAlone == Spec => []ProblemIsNotTheObject
<1>1. ASSUME IInv PROVE ProblemIsNotTheObject
  <2> SUFFICES ASSUME phase = "replied", kind = "object", status >= 400, ended = "error"
               PROVE  header \cap representation = {} /\ "no-store" \in header
    BY DEF ProblemIsNotTheObject
  <2>1. status \notin {200, 304}
    BY <1>1 DEF IInv, PhaseInv
  <2> QED BY <1>1, <2>1 DEF IInv, ProxyInv
<1> QED BY <1>1, Invariance, PTL

\* However the copies of an object of any length end, a reply that looks
\* whole holds all of an object whose length was declared.
THEOREM WholeIsWhole == Spec => []TruncationShows
BY Invariance, PTL DEF IInv

\* However often the object changes, and within the second too, a 304 that
\* answers an entity tag confirms the version the client has stored.
THEOREM FreshIsCurrent == Spec => []FreshMeansCurrent
<1>1. ASSUME IInv PROVE FreshMeansCurrent
  <2> SUFFICES ASSUME phase = "replied", kind = "object", status = 304,
                      cond.tags \notin {<<>>, <<AnyTag>>}
               PROVE  cache.version = object.version
    BY DEF FreshMeansCurrent
  <2>1. /\ notModified(cond, object) /\ object.version >= 0 /\ object \in Objects
        /\ \A k \in DOMAIN cond.tags : cond.tags[k] \in {cache.version, Malformed, AnyTag}
    BY <1>1 DEF IInv, ProxyInv
  <2>2. noneMatch(cond.tags, object)
    BY <2>1 DEF notModified
  <2>3. PICK k \in DOMAIN cond.tags : cond.tags[k] = object.version
    BY <2>2 DEF noneMatch
  <2>4. object.version \in Int
    BY <2>1, ObjectFields
  <2>5. object.version # Malformed /\ object.version # AnyTag
    BY <2>1, <2>4 DEF Malformed, AnyTag
  <2> QED BY <2>1, <2>3, <2>5
<1> QED BY <1>1, Invariance, PTL
=============================================================================
