--------------------------- MODULE SequenceLemmas ---------------------------
(***************************************************************************)
(* What the proofs need of sequences and is shown by induction, which the  *)
(* provers do as each lemma's own argument about the first exception.      *)
(***************************************************************************)
EXTENDS Integers, SequencesExt, WellFoundedInduction, TLAPS

\* A set of natural numbers that is not empty has a least element.
LEMMA LeastExists ==
  ASSUME NEW S \in SUBSET Nat, S # {}
  PROVE  \E i \in S : \A j \in S : i <= j
<1>1. PICK i \in S : \A j \in S : <<j, i>> \notin OpToRel(<, Nat)
  BY NatLessThanWellFounded, WFMin, Zenon
<1>2. \A j \in S : ~ (j < i)
  BY <1>1 DEF OpToRel
<1> QED
  BY <1>2

-----------------------------------------------------------------------------
(***************************************************************************)
(* FlattenSeq                                                              *)
(***************************************************************************)

\* The function that FlattenSeq defines by recursion.
Flattens(f, s) == f = [i \in 1 .. Len(s) |-> IF i = 1 THEN s[i] ELSE f[i - 1] \o s[i]]

\* A sequence of sequences flattened is the last of the partial concatenations.
LEMMA FlattenDef ==
  ASSUME NEW s, Len(s) # 0
  PROVE  FlattenSeq(s) = (CHOOSE f : Flattens(f, s))[Len(s)]
  BY DEF FlattenSeq, Flattens

\* The sequences of n sequences over T.
Rows(T, n) == [1 .. n -> Seq(T)]

\* The recursion defines a function,
LEMMA FlattenExists ==
  ASSUME NEW T, NEW n \in Nat, NEW s \in Rows(T, n)
  PROVE  \E f \in Rows(T, n) : Flattens(f, s)
<1> DEFINE Built(k, f) == /\ f \in Rows(T, k)
                          /\ \A i \in 1 .. k : f[i] = IF i = 1 THEN s[i] ELSE f[i - 1] \o s[i]
           Bad == {k \in 0 .. n : ~\E f : Built(k, f)}
<1>0. Len(s) = n /\ \A i \in 1 .. n : s[i] \in Seq(T)
  BY DEF Rows
<1>1. Bad = {}
  <2> SUFFICES ASSUME Bad # {} PROVE FALSE
    OBVIOUS
  <2>1. PICK k \in Bad : \A j \in Bad : k <= j
    <3>1. Bad \in SUBSET Nat
      OBVIOUS
    <3> HIDE DEF Bad
    <3> QED BY <3>1, LeastExists
  <2>2. k # 0
    <3>1. Built(0, [i \in 1 .. 0 |-> <<>>])
      BY DEF Rows
    <3> QED BY <3>1
  <2>3. k - 1 \in 0 .. n /\ k - 1 \notin Bad /\ k \in 1 .. n
    BY <2>1, <2>2
  <2>4. PICK f : Built(k - 1, f)
    BY <2>3
  <2> DEFINE g == [i \in 1 .. k |-> IF i < k THEN f[i]
                                    ELSE IF k = 1 THEN s[k] ELSE f[k - 1] \o s[k]]
  <2>5. \A i \in 1 .. k : g[i] \in Seq(T)
    BY <1>0, <2>3, <2>4 DEF Rows
  <2>6. \A i \in 1 .. k : g[i] = IF i = 1 THEN s[i] ELSE g[i - 1] \o s[i]
    <3>1. ASSUME NEW i \in 1 .. k - 1 PROVE g[i] = IF i = 1 THEN s[i] ELSE g[i - 1] \o s[i]
      <4>1. g[i] = f[i] /\ (i # 1 => g[i - 1] = f[i - 1])
        BY <2>3
      <4>2. f[i] = IF i = 1 THEN s[i] ELSE f[i - 1] \o s[i]
        BY <2>3, <2>4
      <4> QED BY <4>1, <4>2
    <3>2. g[k] = IF k = 1 THEN s[k] ELSE g[k - 1] \o s[k]
      <4>1. g[k] = IF k = 1 THEN s[k] ELSE f[k - 1] \o s[k]
        BY <2>3
      <4>2. k # 1 => g[k - 1] = f[k - 1]
        BY <2>3
      <4> QED BY <4>1, <4>2
    <3> HIDE DEF g
    <3> QED BY <2>3, <3>1, <3>2
  <2>7. Built(k, g)
    BY <2>5, <2>6 DEF Rows
  <2> QED BY <2>1, <2>7
<1>2. PICK f : Built(n, f)
  BY <1>1
<1>3. Flattens(f, s)
  BY <1>0, <1>2 DEF Flattens, Rows
<1> QED BY <1>2, <1>3

\* which on fewer of the sequences is the same.
LEMMA FlattenUnique ==
  ASSUME NEW T, NEW n \in Nat, NEW s \in Rows(T, n), NEW m \in 0 .. n,
         NEW f, Flattens(f, s),
         NEW g, Flattens(g, [i \in 1 .. m |-> s[i]])
  PROVE  \A i \in 1 .. m : f[i] = g[i]
<1> DEFINE Bad == {i \in 1 .. m : f[i] # g[i]}
<1>0. Len(s) = n /\ Len([i \in 1 .. m |-> s[i]]) = m
  BY DEF Rows
<1>1. \A i \in 1 .. n : f[i] = IF i = 1 THEN s[i] ELSE f[i - 1] \o s[i]
  BY <1>0 DEF Flattens
<1>2. \A i \in 1 .. m : g[i] = IF i = 1 THEN s[i] ELSE g[i - 1] \o s[i]
  BY <1>0 DEF Flattens
<1> SUFFICES ASSUME Bad # {} PROVE FALSE
  OBVIOUS
<1>3. PICK k \in Bad : \A j \in Bad : k <= j
  <2>1. Bad \in SUBSET Nat
    OBVIOUS
  <2> HIDE DEF Bad
  <2> QED BY <2>1, LeastExists
<1>4. k \in 1 .. m /\ k \in 1 .. n /\ f[k] # g[k]
  BY <1>3
<1>5. k = 1 \/ (k - 1 \in 1 .. m /\ f[k - 1] = g[k - 1])
  BY <1>3, <1>4
<1> QED BY <1>1, <1>2, <1>4, <1>5

\* One sequence flattened is itself, and one more is appended.
LEMMA FlattenGrows ==
  ASSUME NEW T, NEW n \in Nat, NEW s \in Rows(T, n + 1)
  PROVE  /\ FlattenSeq(s) \in Seq(T)
         /\ FlattenSeq(s) = IF n = 0 THEN s[1]
                            ELSE FlattenSeq([i \in 1 .. n |-> s[i]]) \o s[n + 1]
<1>0. Len(s) = n + 1 /\ n + 1 \in 1 .. n + 1
  BY DEF Rows
<1>1. PICK f0 \in Rows(T, n + 1) : Flattens(f0, s)
  BY FlattenExists
<1> DEFINE f == CHOOSE h : Flattens(h, s)
<1>2. Flattens(f, s)
  BY <1>1
<1>3. FlattenSeq(s) = f[n + 1]
  BY <1>0, FlattenDef
<1> HIDE DEF f
<1>4. \A i \in 1 .. n + 1 : f[i] = IF i = 1 THEN s[i] ELSE f[i - 1] \o s[i]
  BY <1>0, <1>2 DEF Flattens
<1>5. f[n + 1] \in Seq(T)
  <2>1. s = [i \in 1 .. n + 1 |-> s[i]]
    BY DEF Rows
  <2>2. \A i \in 1 .. n + 1 : f[i] = f0[i]
    BY <1>1, <1>2, <2>1, FlattenUnique
  <2> QED BY <1>0, <1>1, <2>2 DEF Rows
<1>6. CASE n = 0
  BY <1>0, <1>3, <1>4, <1>5, <1>6
<1>7. CASE n > 0
  <2> DEFINE t == [i \in 1 .. n |-> s[i]]
             g == CHOOSE h : Flattens(h, t)
  <2>1. t \in Rows(T, n) /\ Len(t) = n
    BY DEF Rows
  <2>2. Flattens(g, t)
    <3>1. \E h : Flattens(h, t)
      BY <2>1, FlattenExists
    <3> QED BY <3>1
  <2>3. FlattenSeq(t) = g[n]
    <3> HIDE DEF t
    <3>1. Len(t) # 0
      BY <1>7, <2>1
    <3>2. FlattenSeq(t) = g[Len(t)]
      BY <3>1, FlattenDef
    <3> QED BY <2>1, <3>2
  <2> HIDE DEF g
  <2>4. f[n] = g[n]
    BY <1>2, <1>7, <2>2, FlattenUnique
  <2>5. f[n + 1] = f[n] \o s[n + 1]
    <3>1. (n + 1) - 1 = n /\ n + 1 # 1
      BY <1>7
    <3>2. f[n + 1] = f[(n + 1) - 1] \o s[n + 1]
      BY <1>0, <1>4, <3>1
    <3> QED BY <3>1, <3>2
  <2> HIDE DEF t
  <2>6. FlattenSeq(s) = FlattenSeq(t) \o s[n + 1]
    BY <1>3, <2>3, <2>4, <2>5
  <2>7. n # 0 /\ FlattenSeq(s) \in Seq(T)
    BY <1>3, <1>5, <1>7
  <2> QED BY <2>6, <2>7, Zenon DEF t
<1> QED BY <1>6, <1>7

\* What lies in the sequences lies in what they flatten to, and nothing else.
LEMMA FlattenMembers ==
  ASSUME NEW T, NEW n \in Nat, NEW s \in Rows(T, n)
  PROVE  /\ FlattenSeq(s) \in Seq(T)
         /\ ToSet(FlattenSeq(s)) = UNION {ToSet(s[i]) : i \in 1 .. n}
<1> DEFINE Members(k) == UNION {ToSet(s[i]) : i \in 1 .. k}
           Holds(k) ==
             LET t == [i \in 1 .. k |-> s[i]]
             IN FlattenSeq(t) \in Seq(T) /\ ToSet(FlattenSeq(t)) = Members(k)
           Bad == {k \in 0 .. n : ~Holds(k)}
<1>1. Bad = {}
  <2> SUFFICES ASSUME Bad # {} PROVE FALSE
    OBVIOUS
  <2>1. PICK k \in Bad : \A j \in Bad : k <= j
    <3>1. Bad \in SUBSET Nat
      OBVIOUS
    <3> HIDE DEF Bad
    <3> QED BY <3>1, LeastExists
  <2> DEFINE t == [i \in 1 .. k |-> s[i]]
  <2>2. CASE k = 0
    <3>0. t = <<>>
      BY <2>2
    <3> HIDE DEF t
    <3>1. FlattenSeq(t) = <<>>
      BY <3>0, Zenon DEF FlattenSeq
    <3>2. ToSet(<<>>) = {}
      BY DEF ToSet
    <3>3. Members(k) = {}
      BY <2>2
    <3>5. <<>> \in Seq(T)
      OBVIOUS
    <3> HIDE DEF Members
    <3>4. FlattenSeq(t) \in Seq(T) /\ ToSet(FlattenSeq(t)) = Members(k)
      BY <3>1, <3>2, <3>3, <3>5, Zenon
    <3> QED BY <2>1, <3>4 DEF t
  <2>3. CASE k # 0
    <3> DEFINE m == k - 1
               u == [i \in 1 .. m |-> s[i]]
    <3>1. m \in Nat /\ k = m + 1 /\ k \in 1 .. n /\ m \in 0 .. n /\ m \notin Bad
      <4>1. k \in 0 .. n
        BY <2>1
      <4> HIDE DEF Bad
      <4> QED BY <2>1, <2>3, <4>1
    <3>2. t \in Rows(T, m + 1) /\ u = [i \in 1 .. m |-> t[i]] /\ t[k] = s[k] /\ t[1] = s[1]
      BY <3>1 DEF Rows
    <3>3. FlattenSeq(u) \in Seq(T) /\ ToSet(FlattenSeq(u)) = Members(m)
      BY <3>1
    <3>4. 1 .. k = (1 .. m) \cup {k}
      BY <3>1
    <3>5. Members(k) = Members(m) \cup ToSet(s[k])
      <4> HIDE DEF m
      <4> QED BY <3>4, Zenon
    <3> HIDE DEF t, u, m, Members
    <3>6. /\ FlattenSeq(t) \in Seq(T)
          /\ FlattenSeq(t) = IF m = 0 THEN t[1]
                              ELSE FlattenSeq([i \in 1 .. m |-> t[i]]) \o t[m + 1]
      BY <3>1, <3>2, FlattenGrows
    <3>7. ASSUME NEW a \in Seq(T), NEW b \in Seq(T) PROVE ToSet(a \o b) = ToSet(a) \cup ToSet(b)
      <4>1. /\ DOMAIN (a \o b) = 1 .. Len(a) + Len(b)
            /\ \A i \in 1 .. Len(a) : (a \o b)[i] = a[i]
            /\ \A i \in 1 .. Len(b) : (a \o b)[Len(a) + i] = b[i]
            /\ \A i \in DOMAIN (a \o b) : i \in 1 .. Len(a) \/ i - Len(a) \in 1 .. Len(b)
        OBVIOUS
      <4>2. \A i \in 1 .. Len(a) : i \in DOMAIN (a \o b)
        OBVIOUS
      <4>3. \A i \in 1 .. Len(b) : Len(a) + i \in DOMAIN (a \o b)
        OBVIOUS
      <4>4. \A i \in DOMAIN (a \o b) : i \notin 1 .. Len(a) => (a \o b)[i] = b[i - Len(a)]
        OBVIOUS
      <4>5. \A x : x \in ToSet(a \o b) => x \in ToSet(a) \cup ToSet(b)
        BY <4>1, <4>4 DEF ToSet
      <4>6. \A x : x \in ToSet(a) => x \in ToSet(a \o b)
        <5>1. ASSUME NEW i \in DOMAIN a PROVE a[i] \in ToSet(a \o b)
          <6>1. i \in DOMAIN (a \o b) /\ (a \o b)[i] = a[i]
            BY <4>1, <4>2
          <6> QED BY <6>1 DEF ToSet
        <5> QED BY <5>1 DEF ToSet
      <4>7. \A x : x \in ToSet(b) => x \in ToSet(a \o b)
        <5>1. ASSUME NEW i \in DOMAIN b PROVE b[i] \in ToSet(a \o b)
          <6>1. /\ Len(a) + i \in DOMAIN (a \o b)
                /\ (a \o b)[Len(a) + i] = b[i]
            BY <4>1, <4>3
          <6> QED BY <6>1 DEF ToSet
        <5> QED BY <5>1 DEF ToSet
      <4> QED BY <4>5, <4>6, <4>7
    <3>8. CASE m = 0
      <4>1. FlattenSeq(t) = s[k]
        BY <3>1, <3>2, <3>6, <3>8
      <4>2. Members(m) = {}
        <5>1. 1 .. m = {}
          BY <3>8
        <5> QED BY <5>1 DEF Members
      <4>3. ToSet(FlattenSeq(t)) = Members(k)
        BY <3>5, <4>1, <4>2
      <4> QED BY <2>1, <3>6, <4>3 DEF t
    <3>9. CASE m # 0
      <4>1. FlattenSeq(t) = FlattenSeq(u) \o s[k]
        BY <3>1, <3>2, <3>6, <3>9
      <4>2. s[k] \in Seq(T)
        BY <3>1 DEF Rows
      <4>3. ToSet(FlattenSeq(t)) = ToSet(FlattenSeq(u)) \cup ToSet(s[k])
        BY <3>3, <3>7, <4>1, <4>2
      <4>4. ToSet(FlattenSeq(t)) = Members(k)
        BY <3>3, <3>5, <4>3
      <4> QED BY <2>1, <3>6, <4>4 DEF t
    <3> QED BY <3>8, <3>9
  <2> QED BY <2>2, <2>3
<1>2. Holds(n)
  BY <1>1
<1>3. s = [i \in 1 .. n |-> s[i]]
  BY DEF Rows
<1> QED BY <1>2, <1>3
=============================================================================
