---------------------------- MODULE QueryProofs ----------------------------
(***************************************************************************)
(* Where ParseQuery reads, for every size of int, policy and request.      *)
(***************************************************************************)
EXTENDS Query, SequenceLemmas

\* Multiplication is monotonic in a natural factor.
LEMMA ProductMonotonic ==
  ASSUME NEW a \in Int, NEW b \in Int, NEW c \in Nat, a <= b
  PROVE  a * c <= b * c
<1>1. PICK d \in Nat : b = a + d
  <2>1. b - a \in Nat /\ b = a + (b - a)
    OBVIOUS
  <2> QED BY <2>1
<1>2. d * c \in Nat
  OBVIOUS
<1>3. (a + d) * c = a * c + d * c
  OBVIOUS
<1> QED BY <1>1, <1>2, <1>3

\* query.go:90: a page that is at most the quotient has an offset within the
\* dividend, at every size up to the divisor.
LEMMA QuotientBounds ==
  ASSUME NEW m \in Nat, NEW s \in Nat \ {0}, NEW p \in Nat \ {0},
         NEW z \in 1..s, p <= m \div s
  PROVE  (p - 1) * z <= m
<1> DEFINE q == m \div s
<1>1. q \in Nat /\ q * s <= m
  OBVIOUS
<1>2. (p - 1) * z <= q * z
  BY <1>1, ProductMonotonic
<1>3. z * q <= s * q
  BY <1>1, ProductMonotonic
<1>4. q * z = z * q /\ q * s = s * q
  BY <1>1
<1>5. /\ (p - 1) * z \in Int /\ q * z \in Int
      /\ q * s \in Int
  BY <1>1
<1> QED BY <1>1, <1>2, <1>3, <1>4, <1>5

---------------------------------------------------------------------------
\* What the parser keeps true of the page it has read so far: page 1, page 0
\* of a cursor read, or a page it has compared with the last addressable one.
PageInv ==
  /\ query \in Queries /\ limits \in Policies
  /\ page \in Nat
  /\ pc \notin {"limits", "panicked"} => limits.maxSize >= 1
  /\ page > 1 => limits.maxSize >= 1 /\ page <= LastPage

\* What Get reads of a query is a number a page can be compared with.
LEMMA GetHoldsInt ==
  ASSUME query \in Queries, NEW name
  PROVE  Get(name).n \in Int
<1> DEFINE values == Values(name)
<1>1. values \in Seq(Value)
  BY QueryAssumption DEF Values
<1> HIDE DEF values
<1>2. values # <<>> => Head(values) \in Value
  BY <1>1
<1>3. values # <<>> => Head(values).n \in Int
  BY <1>2 DEF Value
<1>4. Empty.n \in Int
  BY DEF Empty
<1> QED BY <1>3, <1>4 DEF Get, values

\* A parse that has read nothing satisfies the invariant.
LEMMA PageInvInit == Init => PageInv
BY DEF Init, PageInv

\* Every step of a parse keeps it.
LEMMA PageInvNext == PageInv /\ [Next]_vars => PageInv'
<1> SUFFICES ASSUME PageInv, [Next]_vars PROVE PageInv'
  OBVIOUS
<1> USE DEF PageInv, LastPage, input, out
<1>1. CASE CheckLimits
  BY <1>1, PolicyAssumption DEF CheckLimits, Continue
<1>2. CASE ParsePage
  <2> DEFINE v == Get("page")
  <2>1. v.n \in Int
    BY GetHoldsInt
  <2>0. pc = "page" /\ limits.maxSize \in Nat \ {0} /\ LastPage \in Int
    BY <1>2, PolicyAssumption, MaxIntAssumption DEF ParsePage
  <2> HIDE DEF v
  <2>2. CASE v # Empty /\ ~BadPage(v) /\ Continue("cursor") /\ page' = v.n
    <3>1. v.n >= 1 /\ v.n <= LastPage /\ page' = v.n
      BY <2>0, <2>1, <2>2 DEF BadPage, Atoi
    <3>2. UNCHANGED input
      BY <1>2 DEF ParsePage
    <3> QED BY <2>0, <2>1, <3>1, <3>2
  <2>3. CASE UNCHANGED out
    BY <1>2, <2>0, <2>3 DEF ParsePage
  <2>4. UNCHANGED out \/ (v # Empty /\ ~BadPage(v) /\ Continue("cursor") /\ page' = v.n)
    BY <1>2 DEF ParsePage, Reject, v
  <2> QED BY <2>2, <2>3, <2>4
<1>3. CASE ParseCursor
  BY <1>3 DEF ParseCursor, Continue, Reject
<1>4. CASE ParseSize
  BY <1>4 DEF ParseSize, Continue, Reject
<1>5. CASE ParseSort
  BY <1>5 DEF ParseSort, Continue, Reject
<1>6. CASE NextFilter
  BY <1>6 DEF NextFilter, Continue, Reject
<1>7. CASE SortFilters
  BY <1>7 DEF SortFilters, Continue
<1>8. CASE UNCHANGED vars
  BY <1>8 DEF vars
<1> QED BY <1>1, <1>2, <1>3, <1>4, <1>5, <1>6, <1>7, <1>8 DEF Next

\* Whatever the size of an int and the policies, and whatever the requests,
\* the offset of an accepted page fits an int at every size the policy allows.
THEOREM OffsetsFit == Spec => []OffsetFits
<1>1. PageInv => OffsetFits
  <2> SUFFICES ASSUME PageInv, page >= 1, NEW n \in 1..limits.maxSize
               PROVE  (page - 1) * n <= MaxInt
    BY DEF OffsetFits
  <2> USE MaxIntAssumption, PolicyAssumption
  <2>1. limits.maxSize \in Nat \ {0} /\ page \in Nat \ {0} /\ MaxInt \in Nat
    BY DEF PageInv
  <2>2. CASE page = 1
    BY <2>1, <2>2
  <2>3. CASE page > 1
    <3>1. page <= MaxInt \div limits.maxSize
      BY <2>3 DEF PageInv, LastPage
    <3> QED BY <2>1, <3>1, QuotientBounds
  <2> QED BY <2>1, <2>2, <2>3
<1> QED BY PageInvInit, PageInvNext, <1>1, PTL DEF Spec


---------------------------------------------------------------------------
\* What each part leaves behind it: where the read is, and how much of it.
TypeInv ==
  /\ query \in Queries /\ limits \in Policies
  /\ pc \in Parts \union Ends /\ unseen \subseteq DOMAIN query
  /\ errParam # <<>> => pc = "rejected"
  /\ page \in 0..MaxInt
  /\ pc = "limits" => size = limits.defaultSize
  /\ pc \notin {"limits", "panicked"} => size \in 1..limits.maxSize

PlaceInv ==
  /\ pc \in {"limits", "page"} => page = 1 /\ cursor = Empty
  /\ pc = "cursor" =>
       /\ cursor = Empty /\ page >= 1
       /\ Get("page") # Empty => page = Get("page").n
  /\ pc \in {"size", "sort", "filters", "accepted"} =>
       /\ Get("page") # Empty => page = Get("page").n
       /\ cursor = Get("cursor")
       /\ cursor # Empty <=> page = 0
       /\ cursor # Empty => limits.cursor

AddressInv == TypeInv /\ PlaceInv

\* A parse that has read nothing is at page 1.
LEMMA AddressInvInit == Init => AddressInv
BY MaxIntAssumption DEF Init, AddressInv, TypeInv, PlaceInv, Parts

\* Every part of the parser keeps where the read is and how much of it.
LEMMA AddressInvNext == AddressInv /\ [Next]_vars => AddressInv'
<1> SUFFICES ASSUME AddressInv, [Next]_vars PROVE AddressInv'
  OBVIOUS
<1> USE DEF AddressInv, input, out, Parts, Ends
<1>0. /\ limits.maxSize \in Int /\ limits.defaultSize \in Int /\ MaxInt \in Nat \ {0}
      /\ page \in Nat /\ \A name : Get(name).n \in Int
  BY PolicyAssumption, MaxIntAssumption, GetHoldsInt DEF TypeInv
<1>1. ASSUME UNCHANGED input PROVE \A name : Get(name)' = Get(name)
  BY <1>1 DEF Get, Values
<1>2. CASE CheckLimits
  <2>1. TypeInv'
    BY <1>0, <1>2 DEF CheckLimits, Continue, TypeInv
  <2> QED BY <1>2, <2>1 DEF CheckLimits, Continue, PlaceInv
<1>3. CASE ParsePage
  <2> DEFINE v == Get("page")
  <2>1. v.n \in Int
    BY <1>0
  <2>2. v' = v
    BY <1>1, <1>3 DEF ParsePage
  <2>3. /\ pc = "page" /\ UNCHANGED <<query, limits, unseen>>
        /\ \/ /\ v = Empty /\ pc' = "cursor"
              /\ UNCHANGED <<errParam, page, size, cursor, sort, filters>>
           \/ pc' = "rejected" /\ UNCHANGED <<page, size, cursor, sort, filters>>
           \/ /\ v # Empty /\ ~BadPage(v) /\ pc' = "cursor" /\ page' = v.n
              /\ UNCHANGED <<errParam, size, cursor, sort, filters>>
    BY <1>3 DEF ParsePage, Continue, Reject
  <2> HIDE DEF v
  <2>4. ~BadPage(v) => v.n \in 1..MaxInt
    BY <1>0, <2>1 DEF BadPage, Atoi
  <2>5. TypeInv'
    BY <1>0, <2>1, <2>3, <2>4 DEF TypeInv
  <2>6. PlaceInv'
    BY <1>0, <2>1, <2>2, <2>3, <2>4 DEF PlaceInv, v
  <2> QED BY <2>5, <2>6
<1>4. CASE ParseCursor
  <2> DEFINE v == Get("cursor")
             p == Get("page")
  <2>1. v' = v /\ p' = p
    BY <1>1, <1>4 DEF ParseCursor
  <2>2. /\ pc = "cursor" /\ UNCHANGED <<query, limits, unseen>>
        /\ \/ v = Empty /\ pc' = "size" /\ UNCHANGED <<errParam, page, size, cursor, sort, filters>>
           \/ pc' = "rejected" /\ UNCHANGED <<page, size, cursor, sort, filters>>
           \/ /\ v # Empty /\ limits.cursor /\ p = Empty /\ pc' = "size"
              /\ page' = 0 /\ cursor' = v /\ UNCHANGED <<errParam, size, sort, filters>>
    BY <1>4 DEF ParseCursor, Continue, Reject, CursorRefused
  <2> HIDE DEF v, p
  <2>3. TypeInv'
    BY <1>0, <2>2 DEF TypeInv
  <2>4. /\ cursor = Empty /\ page >= 1
        /\ p # Empty => page = p.n
    BY <2>2 DEF PlaceInv, p
  <2>5. PlaceInv'
    BY <1>0, <2>1, <2>2, <2>4 DEF PlaceInv, v, p
  <2> QED BY <2>3, <2>5
<1>5. CASE ParseSize
  <2> DEFINE v == Get("size")
  <2>1. /\ pc = "size" /\ UNCHANGED <<query, limits, unseen, page, cursor>>
        /\ \/ pc' = "sort" /\ UNCHANGED <<errParam, size>>
           \/ pc' = "rejected" /\ UNCHANGED size
           \/ ~BadSize(v) /\ pc' = "sort" /\ size' = v.n /\ UNCHANGED errParam
    BY <1>5 DEF ParseSize, Continue, Reject
  <2>2. v.n \in Int
    BY <1>0
  <2> HIDE DEF v
  <2>3. ~BadSize(v) => v.n \in 1..limits.maxSize
    BY <1>0, <2>2 DEF BadSize
  <2>4. TypeInv'
    BY <1>0, <2>1, <2>3 DEF TypeInv
  <2>5. PlaceInv'
    BY <1>1, <2>1 DEF PlaceInv
  <2> QED BY <2>4, <2>5
<1>6. CASE ParseSort \/ NextFilter \/ SortFilters
  <2>1. /\ pc \in {"sort", "filters"} /\ UNCHANGED <<query, limits, page, size, cursor>>
        /\ unseen' \subseteq unseen
        /\ \/ pc' \in {"filters", "accepted"} /\ UNCHANGED errParam
           \/ pc' = "rejected"
    BY <1>6 DEF ParseSort, NextFilter, SortFilters, Continue, Reject
  <2>2. TypeInv'
    BY <2>1 DEF TypeInv
  <2>3. PlaceInv'
    BY <1>1, <2>1 DEF PlaceInv
  <2> QED BY <2>2, <2>3
<1>7. CASE UNCHANGED vars
  <2>1. UNCHANGED <<query, limits, pc, unseen, page, size, cursor, errParam>>
    BY <1>7 DEF vars
  <2>2. TypeInv'
    BY <2>1 DEF TypeInv
  <2>3. PlaceInv'
    BY <1>1, <2>1 DEF PlaceInv
  <2> QED BY <2>2, <2>3
<1> QED BY <1>2, <1>3, <1>4, <1>5, <1>6, <1>7 DEF Next

\* Whatever a request asks for and a policy allows, what is parsed so far is
\* of its type: an int for the page, and a size within the policy.
THEOREM Typing == Spec => []TypeOK
<1>1. AddressInv => TypeOK
  BY DEF AddressInv, TypeInv, TypeOK
<1> QED BY AddressInvInit, AddressInvNext, <1>1, PTL DEF Spec

\* Whatever a request asks for, it is read at the page or the cursor it names,
\* or refused.
THEOREM ReadsAtAddress == Spec => []ReadsWhereAsked
<1>1. AddressInv => ReadsWhereAsked
  BY DEF AddressInv, PlaceInv, ReadsWhereAsked
<1> QED BY AddressInvInit, AddressInvNext, <1>1, PTL DEF Spec

---------------------------------------------------------------------------
(***************************************************************************)
(* Keys.  A key that is not malformed is a name, or a name and one name in *)
(* brackets.                                                               *)
(***************************************************************************)
N == ToSet(Names)

Plain(name)       == <<name>>
Suffixed(name, op) == <<name, "[", op, "]">>

Operated == {Suffixed(name, op) : name \in Reserved, op \in N}

IsKey(key) ==
  /\ key \in Seq(N \union Brackets)
  /\ \A i \in 1 .. Len(key) - 1 : key[i] \in Brackets \/ key[i + 1] \in Brackets

\* A name is told from a bracket.
LEMMA NamesAreNoBrackets == N \intersect Brackets = {}
BY QueryAssumption DEF N, ToSet

\* The keys of a request are keys.
LEMMA QueryHasKeys ==
  ASSUME query \in Queries, NEW key \in DOMAIN query
  PROVE  IsKey(key)
BY QueryAssumption DEF IsKey, N

\* A name alone is accepted, with no operator.
LEMMA PlainIsKey ==
  ASSUME NEW name \in N
  PROVE  /\ ~Malformed(Plain(name)) /\ ~TakesNoOperator(Plain(name))
         /\ Head(Plain(name)) = name /\ Operator(Plain(name)) = <<>>
<1> DEFINE k == Plain(name)
<1>1. k # <<>> /\ DOMAIN k = {1} /\ k[1] = name /\ Head(k) = name
  BY DEF Plain
<1>2. name # "[" /\ name # "]"
  BY NamesAreNoBrackets DEF Brackets
<1> HIDE DEF k
<1>3. Opens(k) = {} /\ Closes(k) = {}
  BY <1>1, <1>2 DEF Opens, Closes
<1> QED BY <1>1, <1>3 DEF Malformed, TakesNoOperator, Operator, k

\* So is a name with one in brackets, which is its operator.
LEMMA SuffixedIsKey ==
  ASSUME NEW name \in N, NEW op \in N
  PROVE  /\ ~Malformed(Suffixed(name, op))
         /\ TakesNoOperator(Suffixed(name, op)) <=> name \in Reserved
         /\ Head(Suffixed(name, op)) = name /\ Operator(Suffixed(name, op)) = <<op>>
<1> DEFINE k == Suffixed(name, op)
<1>1. /\ k # <<>> /\ DOMAIN k = 1 .. 4 /\ Len(k) = 4 /\ Head(k) = name
      /\ k[1] = name /\ k[2] = "[" /\ k[3] = op /\ k[4] = "]"
      /\ k \in Seq(N \union Brackets)
  BY DEF Suffixed, Brackets
<1>2. name # "[" /\ name # "]" /\ op # "[" /\ op # "]"
  BY NamesAreNoBrackets DEF Brackets
<1> HIDE DEF k
<1>3. Opens(k) = {2} /\ Closes(k) = {4}
  BY <1>1, <1>2 DEF Opens, Closes
<1>4. Operator(k) = <<op>>
  <2>1. Operator(k) = SubSeq(k, 3, Len(k) - 1) /\ Len(k) - 1 = 3
    BY <1>1, <1>3 DEF Operator
  <2>2. /\ SubSeq(k, 3, 3) = [i \in 1 .. 1 |-> k[i + 2]]
        /\ <<op>> = [i \in 1 .. 1 |-> op]
    BY <1>1
  <2>3. \A i \in 1 .. 1 : k[i + 2] = op
    BY <1>1
  <2> QED BY <2>1, <2>2, <2>3
<1>5. OneBracketedSuffix(k)
  BY <1>1, <1>3 DEF OneBracketedSuffix, Last
<1> QED BY <1>1, <1>3, <1>4, <1>5 DEF Malformed, TakesNoOperator, k

\* Nothing else is.
LEMMA WellFormedIs ==
  ASSUME NEW key, IsKey(key), ~Malformed(key)
  PROVE  \/ \E name \in N : key = Plain(name)
         \/ \E name \in N, op \in N : key = Suffixed(name, op)
<1> DEFINE n == Len(key)
<1>1. /\ key \in Seq(N \union Brackets) /\ n \in Nat \ {0} /\ DOMAIN key = 1 .. n
      /\ \A i \in 1 .. n : key[i] \in N \/ key[i] = "[" \/ key[i] = "]"
      /\ \A i \in 1 .. n - 1 : key[i] \in N => key[i + 1] \notin N
  BY NamesAreNoBrackets DEF IsKey, Malformed, Brackets
<1> HIDE DEF n
<1>2. CASE Opens(key) = {}
  <2>1. Closes(key) = {}
    BY <1>2 DEF Malformed
  <2>2. \A i \in 1 .. n : key[i] \in N
    BY <1>1, <1>2, <2>1 DEF Opens, Closes
  <2>3. n = 1
    <3>1. n > 1 => 1 \in 1 .. n - 1 /\ 1 \in 1 .. n /\ 1 + 1 \in 1 .. n
      BY <1>1
    <3> QED BY <1>1, <2>2, <3>1
  <2>4. key = Plain(key[1]) /\ key[1] \in N
    BY <1>1, <2>2, <2>3 DEF Plain, n
  <2> QED BY <2>4
<1>3. CASE Opens(key) # {}
  <2>1. 1 \notin Opens(key) /\ OneBracketedSuffix(key) /\ Operator(key) # <<>>
    BY <1>3 DEF Malformed
  <2>2. PICK o \in 2 .. n : key[o] = "["
    BY <1>1, <1>3, <2>1 DEF Opens
  <2>3. /\ key[n] = "]"
        /\ \A i \in 1 .. n : key[i] = "[" => i = o
        /\ \A i \in 1 .. n : key[i] = "]" => i = n
    <3>1. key[n] = "]"
      BY <2>1 DEF OneBracketedSuffix, Last, n
    <3>2. \A i \in 1 .. n : key[i] = "[" => i = o
      BY <1>1, <2>1, <2>2 DEF OneBracketedSuffix, Opens
    <3>3. \A i \in 1 .. n : key[i] = "]" => i = n
      BY <1>1, <2>1, <3>1 DEF OneBracketedSuffix, Closes
    <3> QED BY <3>1, <3>2, <3>3
  <2>4. \A i \in 1 .. n : i # o /\ i # n => key[i] \in N
    BY <1>1, <2>3
  <2>5. o < n
    BY <1>1, <2>2, <2>3
  <2>6. o = 2
    <3> SUFFICES ASSUME o # 2 PROVE FALSE
      OBVIOUS
    <3>1. /\ 1 \in 1 .. n - 1 /\ 1 \in 1 .. n /\ 1 + 1 \in 1 .. n
          /\ 1 + 1 # o /\ 1 + 1 # n /\ 1 # o /\ 1 # n
      BY <1>1, <2>2, <2>5
    <3> QED BY <1>1, <2>4, <3>1
  <2>7. n = 4
    <3>1. n # 3
      <4> SUFFICES ASSUME n = 3 PROVE FALSE
        OBVIOUS
      <4>1. Operator(key) = SubSeq(key, 3, 2)
        BY <1>3 DEF Operator, n
      <4>2. SubSeq(key, 3, 2) = <<>>
        BY <1>1
      <4> QED BY <2>1, <4>1, <4>2
    <3>2. n > 4 => FALSE
      <4> SUFFICES ASSUME n > 4 PROVE FALSE
        OBVIOUS
      <4>1. /\ 3 \in 1 .. n /\ 3 + 1 \in 1 .. n /\ 3 # o /\ 3 # n /\ 3 + 1 # o /\ 3 + 1 # n
            /\ 3 \in 1 .. n - 1
        BY <1>1, <2>6
      <4> QED BY <1>1, <2>4, <4>1
    <3> QED BY <1>1, <2>5, <2>6, <3>1, <3>2
  <2>8. key[1] \in N /\ key[2] = "[" /\ key[3] \in N /\ key[4] = "]"
    BY <2>2, <2>3, <2>4, <2>6, <2>7
  <2>9. key = Suffixed(key[1], key[3])
    BY <1>1, <2>7, <2>8 DEF Suffixed, n
  <2> QED BY <2>8, <2>9
<1> QED BY <1>2, <1>3

\* A key the range over the map takes for a filter.
Kept(key) == ~SkipsReserved(key) /\ ~Malformed(key) /\ ~TakesNoOperator(key)

\* The filter it becomes tells the key.
LEMMA FilterTellsKey ==
  ASSUME NEW a, NEW b, IsKey(a), IsKey(b), Kept(a), Kept(b),
         Filter(a).field = Filter(b).field, Filter(a).op = Filter(b).op
  PROVE  a = b
<1>0. /\ \/ \E y \in N : a = Plain(y)
         \/ \E y \in N, p \in N : a = Suffixed(y, p)
      /\ \/ \E y \in N : b = Plain(y)
         \/ \E y \in N, p \in N : b = Suffixed(y, p)
  BY WellFormedIs, Zenon DEF Kept
<1>2. Head(a) = Head(b) /\ Operator(a) = Operator(b)
  BY DEF Filter
<1>3. CASE \E x \in N : a = Plain(x)
  <2>1. PICK x \in N : a = Plain(x)
    BY <1>3
  <2>2. Head(a) = x /\ Operator(a) = <<>>
    BY <2>1, PlainIsKey, Zenon
  <2>3. CASE \E y \in N : b = Plain(y)
    BY <1>2, <2>1, <2>2, <2>3, PlainIsKey, Zenon
  <2>4. CASE \E y \in N, p \in N : b = Suffixed(y, p)
    <3>1. PICK y \in N, p \in N : b = Suffixed(y, p)
      BY <2>4
    <3>2. Operator(b) = <<p>>
      BY <3>1, SuffixedIsKey, Zenon
    <3>3. <<>> # <<p>>
      OBVIOUS
    <3> QED BY <1>2, <2>2, <3>2, <3>3, Zenon
  <2> QED BY <1>0, <2>3, <2>4
<1>4. CASE \E x \in N, o \in N : a = Suffixed(x, o)
  <2>1. PICK x \in N, o \in N : a = Suffixed(x, o)
    BY <1>4
  <2>2. Head(a) = x /\ Operator(a) = <<o>>
    BY <2>1, SuffixedIsKey, Zenon
  <2>3. CASE \E y \in N : b = Plain(y)
    <3>1. PICK y \in N : b = Plain(y)
      BY <2>3
    <3>2. Operator(b) = <<>>
      BY <3>1, PlainIsKey, Zenon
    <3>3. <<>> # <<o>>
      OBVIOUS
    <3> QED BY <1>2, <2>2, <3>2, <3>3, Zenon
  <2>4. CASE \E y \in N, p \in N : b = Suffixed(y, p)
    <3>1. PICK y \in N, p \in N : b = Suffixed(y, p)
      BY <2>4
    <3>2. Head(b) = y /\ Operator(b) = <<p>>
      BY <3>1, SuffixedIsKey, Zenon
    <3>3. x = y /\ <<o>> = <<p>>
      BY <1>2, <2>2, <3>2, Zenon
    <3>4. o = p
      BY <3>3
    <3> QED BY <2>1, <3>1, <3>3, <3>4, Zenon
  <2> QED BY <1>0, <2>3, <2>4
<1> QED BY <1>0, <1>3, <1>4

---------------------------------------------------------------------------
(***************************************************************************)
(* The filters.  Those of the keys seen so far are distinct, and the       *)
(* comparison is a total order of them.                                    *)
(***************************************************************************)
LEMMA RankIs ==
  ASSUME NEW x \in N
  PROVE  Rank(x) \in Nat \ {0} /\ Names[Rank(x)] = x
<1>1. Names \in Seq(STRING \ Brackets)
  BY QueryAssumption
<1>2. \E i \in DOMAIN Names : Names[i] = x
  BY <1>1 DEF N, ToSet
<1>3. Rank(x) \in DOMAIN Names /\ Names[Rank(x)] = x
  BY <1>2, Zenon DEF Rank
<1> QED BY <1>1, <1>3

\* The field and the operator of a kept key.
LEMMA KeptFilter ==
  ASSUME NEW key, IsKey(key), Kept(key)
  PROVE  /\ Filter(key).field \in N
         /\ Filter(key).op = <<>> \/ \E op \in N : Filter(key).op = <<op>>
<1>0. \/ \E name \in N : key = Plain(name)
      \/ \E name \in N, op \in N : key = Suffixed(name, op)
  BY WellFormedIs, Zenon DEF Kept
<1>1. Filter(key).field = Head(key) /\ Filter(key).op = Operator(key)
  BY DEF Filter
<1>2. CASE \E name \in N : key = Plain(name)
  <2>1. PICK name \in N : key = Plain(name)
    BY <1>2
  <2>2. Head(key) = name /\ Operator(key) = <<>>
    BY <2>1, PlainIsKey, Zenon
  <2> QED BY <1>1, <2>2
<1>3. CASE \E name \in N, op \in N : key = Suffixed(name, op)
  <2>1. PICK name \in N, op \in N : key = Suffixed(name, op)
    BY <1>3
  <2>2. Head(key) = name /\ Operator(key) = <<op>>
    BY <2>1, SuffixedIsKey, Zenon
  <2> QED BY <1>1, <2>2
<1> QED BY <1>0, <1>2, <1>3

\* Two operators have different ranks.
LEMMA OpRankDiffers ==
  ASSUME NEW o, NEW p, o # p,
         o = <<>> \/ \E x \in N : o = <<x>>, p = <<>> \/ \E x \in N : p = <<x>>
  PROVE  OpRank(o) \in Nat /\ OpRank(p) \in Nat /\ OpRank(o) # OpRank(p)
<1>1. OpRank(<<>>) = 0
  BY DEF OpRank
<1>2. ASSUME NEW x \in N PROVE OpRank(<<x>>) = Rank(x) /\ Rank(x) \in Nat \ {0}
  <2>1. <<x>> # <<>> /\ Head(<<x>>) = x
    OBVIOUS
  <2>2. OpRank(<<x>>) = Rank(x)
    BY <2>1, Zenon DEF OpRank
  <2> QED BY <2>2, RankIs
<1>3. CASE o = <<>>
  <2>1. PICK y \in N : p = <<y>>
    BY <1>3
  <2> QED BY <1>1, <1>2, <1>3, <2>1
<1>4. CASE \E x \in N : o = <<x>>
  <2>1. PICK x \in N : o = <<x>>
    BY <1>4
  <2>2. CASE p = <<>>
    BY <1>1, <1>2, <2>1, <2>2
  <2>3. CASE \E y \in N : p = <<y>>
    <3>1. PICK y \in N : p = <<y>>
      BY <2>3
    <3>2. x # y
      BY <2>1, <3>1
    <3>3. Rank(x) # Rank(y)
      BY <3>2, RankIs
    <3> QED BY <1>2, <2>1, <3>1, <3>3
  <2> QED BY <2>2, <2>3
<1> QED BY <1>3, <1>4

Distinct(f, g) == f.field # g.field \/ f.op # g.op

\* Of two filters that differ, one comes before the other.
LEMMA BeforeIsTotal ==
  ASSUME NEW a, NEW b, IsKey(a), IsKey(b), Kept(a), Kept(b),
         Distinct(Filter(a), Filter(b)), ~Before(Filter(b), Filter(a))
  PROVE  Before(Filter(a), Filter(b))
<1> DEFINE f == Filter(a)
           g == Filter(b)
<1>1. /\ f.field \in N /\ (f.op = <<>> \/ \E x \in N : f.op = <<x>>)
      /\ g.field \in N /\ (g.op = <<>> \/ \E x \in N : g.op = <<x>>)
  BY KeptFilter
<1>2. Distinct(f, g) /\ ~Before(g, f)
  OBVIOUS
<1> HIDE DEF f, g
<1>3. CASE f.field # g.field
  <2>1. /\ Rank(f.field) \in Nat /\ Rank(g.field) \in Nat /\ Rank(f.field) # Rank(g.field)
    BY <1>1, <1>3, RankIs
  <2>2. ~(Rank(g.field) < Rank(f.field))
    BY <1>2 DEF Before
  <2> QED BY <2>1, <2>2 DEF Before, f, g
<1>4. CASE f.field = g.field
  <2>1. OpRank(f.op) \in Nat /\ OpRank(g.op) \in Nat /\ OpRank(f.op) # OpRank(g.op)
    BY <1>1, <1>2, <1>4, OpRankDiffers DEF Distinct
  <2>2. ~(OpRank(g.op) < OpRank(f.op))
    BY <1>2, <1>4 DEF Before
  <2> QED BY <1>4, <2>1, <2>2 DEF Before, f, g
<1> QED BY <1>3, <1>4

PlainReserved == {<<name>> : name \in Reserved}

\* The keys the range over the map skips are the reserved names.
LEMMA SkipsPlain ==
  ASSUME NEW key, IsKey(key)
  PROVE  SkipsReserved(key) <=> key \in PlainReserved
<1>1. key \in Seq(N \union Brackets)
  BY DEF IsKey
<1>2. Len(key) = 1 => key = <<Head(key)>>
  BY <1>1
<1>3. \A name : Len(<<name>>) = 1 /\ Head(<<name>>) = name
  OBVIOUS
<1> QED BY <1>2, <1>3, Zenon DEF SkipsReserved, PlainReserved

\* What the range over the map has collected of the keys it has yielded.
Collected(keys) ==
  /\ \A key \in keys : SkipsReserved(key) \/ Kept(key)
  /\ filters \in Seq({Filter(key) : key \in keys \ PlainReserved})
  /\ ToSet(filters) = {Filter(key) : key \in keys \ PlainReserved}
  /\ \A i, j \in DOMAIN filters : i # j => Distinct(filters[i], filters[j])

FilterInv ==
  /\ pc \in {"limits", "page", "cursor", "size", "sort"} =>
       unseen = DOMAIN query /\ filters = <<>>
  /\ pc = "filters" => Collected(DOMAIN query \ unseen)
  /\ pc = "accepted" =>
       /\ \A key \in DOMAIN query : SkipsReserved(key) \/ Kept(key)
       /\ FiltersDetermined

\* One more key, of which one filter is made.
LEMMA CollectsOne ==
  ASSUME query \in Queries, UNCHANGED query,
         NEW keys \in SUBSET DOMAIN query, Collected(keys),
         NEW key \in DOMAIN query \ keys, Kept(key),
         filters' = Append(filters, Filter(key))
  PROVE  Collected(keys \union {key})'
<1> DEFINE old == {Filter(k) : k \in keys \ PlainReserved}
           new == {Filter(k) : k \in (keys \union {key}) \ PlainReserved}
           f   == Filter(key)
<1>1. IsKey(key) /\ \A k \in keys : IsKey(k)
  BY QueryHasKeys
<1>2. key \notin PlainReserved
  BY <1>1, SkipsPlain DEF Kept
<1>3. new = old \union {f}
  BY <1>2
<1>4. /\ filters \in Seq(old) /\ ToSet(filters) = old
      /\ \A i, j \in DOMAIN filters : i # j => Distinct(filters[i], filters[j])
  BY DEF Collected
<1>5. \A g \in old : Distinct(g, f)
  <2>1. ASSUME NEW k \in keys \ PlainReserved PROVE Distinct(Filter(k), Filter(key))
    <3>1. Kept(k)
      BY <1>1, SkipsPlain DEF Collected
    <3>2. k # key
      OBVIOUS
    <3> QED BY <1>1, <3>1, <3>2, FilterTellsKey DEF Distinct
  <2> QED BY <2>1
<1> HIDE DEF old, new, f
<1>6. \A k : Filter(k)' = Filter(k)
  BY DEF Filter
<1>7. /\ filters' = Append(filters, f) /\ filters' \in Seq(new)
      /\ Len(filters') = Len(filters) + 1 /\ Len(filters) \in Nat
      /\ DOMAIN filters' = 1 .. Len(filters) + 1 /\ DOMAIN filters = 1 .. Len(filters)
      /\ \A i \in 1 .. Len(filters) : filters'[i] = filters[i]
      /\ filters'[Len(filters) + 1] = f
  <2>1. filters' = Append(filters, f) /\ filters \in Seq(new) /\ f \in new
    BY <1>3, <1>4 DEF f
  <2> QED BY <2>1
<1>8. ToSet(filters') = new
  BY <1>3, <1>4, <1>7 DEF ToSet
<1>9. \A i, j \in DOMAIN filters' : i # j => Distinct(filters'[i], filters'[j])
  <2>1. ASSUME NEW i \in DOMAIN filters', NEW j \in DOMAIN filters', i # j
        PROVE  Distinct(filters'[i], filters'[j])
    <3>1. CASE i \in DOMAIN filters /\ j \in DOMAIN filters
      BY <1>4, <1>7, <2>1, <3>1
    <3>2. CASE i \in DOMAIN filters /\ j = Len(filters) + 1
      BY <1>4, <1>5, <1>7, <3>2
    <3>3. CASE j \in DOMAIN filters /\ i = Len(filters) + 1
      <4>1. Distinct(filters'[j], filters'[i])
        BY <1>4, <1>5, <1>7, <3>3
      <4> QED BY <4>1 DEF Distinct
    <3> QED BY <1>7, <2>1, <3>1, <3>2, <3>3
  <2> QED BY <2>1
<1>10. \A k \in keys \union {key} : SkipsReserved(k) \/ Kept(k)
  BY DEF Collected
<1>11. new = {Filter(k)' : k \in (keys \union {key}) \ PlainReserved}
  BY <1>6, Zenon DEF new
<1> QED BY <1>7, <1>8, <1>9, <1>10, <1>11, Zenon DEF Collected

\* Whatever order the sort leaves equals in, there are none.
LEMMA SortedDetermined ==
  ASSUME query \in Queries, UNCHANGED query, Collected(DOMAIN query),
         filters' \in InOrder(filters)
  PROVE  FiltersDetermined'
<1> DEFINE keys == DOMAIN query
           all == {Filter(k) : k \in keys \ PlainReserved}
           places == DOMAIN filters
<1>1. /\ filters \in Seq(all) /\ ToSet(filters) = all
      /\ \A i, j \in places : i # j => Distinct(filters[i], filters[j])
      /\ \A k \in keys : SkipsReserved(k) \/ Kept(k)
      /\ \A k \in keys : IsKey(k)
  BY QueryHasKeys DEF Collected
<1>2. PICK p \in Bijection(places, places) :
        /\ \A i, j \in places : i < j => ~Before(filters[p[j]], filters[p[i]])
        /\ filters' = [i \in places |-> filters[p[i]]]
  BY DEF InOrder
<1>3. /\ p \in [places -> places]
      /\ \A i, j \in places : p[i] = p[j] => i = j
      /\ \A k \in places : \E i \in places : p[i] = k
  BY <1>2 DEF Bijection, Injection, Surjection, IsInjective
<1>4. DOMAIN filters' = places /\ \A i \in places : filters'[i] = filters[p[i]]
  BY <1>2
<1>5. ToSet(filters') = all
  <2>1. ToSet(filters') = ToSet(filters)
    <3> HIDE DEF places
    <3>1. /\ ToSet(filters') = {filters'[i] : i \in places}
          /\ ToSet(filters) = {filters[i] : i \in places}
      BY <1>4 DEF ToSet, places
    <3> QED BY <1>3, <1>4, <3>1
  <2> QED BY <1>1, <2>1
<1>6. \A i \in places : \E k \in keys : /\ filters[i] = Filter(k) /\ Kept(k) /\ IsKey(k)
  <2>1. ASSUME NEW i \in places
        PROVE  \E k \in keys : /\ filters[i] = Filter(k) /\ Kept(k) /\ IsKey(k)
    <3>1. filters[i] \in all
      BY <1>1
    <3>2. PICK k \in keys \ PlainReserved : filters[i] = Filter(k)
      BY <3>1
    <3>3. Kept(k) /\ IsKey(k)
      BY <1>1, SkipsPlain
    <3> QED BY <3>2, <3>3
  <2> QED BY <2>1
<1>7. \A i, j \in DOMAIN filters' : i < j => Before(filters'[i], filters'[j])
  <2>1. ASSUME NEW i \in places, NEW j \in places, i < j
        PROVE  Before(filters'[i], filters'[j])
    <3>1. p[i] \in places /\ p[j] \in places /\ p[i] # p[j]
      <4>1. places \subseteq Int
        BY <1>1
      <4> HIDE DEF places
      <4> QED BY <1>3, <2>1, <4>1
    <3>2. PICK a \in keys : filters[p[i]] = Filter(a) /\ Kept(a) /\ IsKey(a)
      BY <1>6, <3>1
    <3>3. PICK b \in keys : filters[p[j]] = Filter(b) /\ Kept(b) /\ IsKey(b)
      BY <1>6, <3>1
    <3>4. Distinct(Filter(a), Filter(b))
      BY <1>1, <3>1, <3>2, <3>3
    <3>5. ~Before(Filter(b), Filter(a))
      BY <1>2, <2>1, <3>2, <3>3
    <3>6. Before(Filter(a), Filter(b))
      BY <3>2, <3>3, <3>4, <3>5, BeforeIsTotal
    <3> QED BY <1>4, <3>2, <3>3, <3>6
  <2> QED BY <1>4, <2>1
<1>8. all = {Filter(key)' : key \in DOMAIN query' \ {<<name>> : name \in Reserved}}
  <2>1. \A k : Filter(k)' = Filter(k)
    BY DEF Filter
  <2> QED BY <2>1, Zenon DEF PlainReserved
<1> HIDE DEF all
<1> QED BY <1>5, <1>7, <1>8, Zenon DEF FiltersDetermined, Before

\* A parse that has read nothing has no filters.
LEMMA FilterInvInit == Init => FilterInv
BY DEF Init, FilterInv

\* Every part of the parser keeps the filters those of the keys seen.
LEMMA FilterInvNext == TypeInv /\ FilterInv /\ [Next]_vars => FilterInv'
<1> SUFFICES ASSUME TypeInv, FilterInv, [Next]_vars PROVE FilterInv'
  OBVIOUS
<1>0. query \in Queries /\ unseen \subseteq DOMAIN query /\ pc \in Parts \union Ends
  BY DEF TypeInv
<1>1. CASE /\ pc \in {"limits", "page", "cursor", "size"}
           /\ pc' \in {"page", "cursor", "size", "sort", "rejected", "panicked"}
           /\ UNCHANGED <<query, unseen, filters>>
  BY <1>1 DEF FilterInv
<1>2. CASE CheckLimits \/ ParsePage \/ ParseCursor \/ ParseSize
  BY <1>1, <1>2 DEF CheckLimits, ParsePage, ParseCursor, ParseSize, Continue, Reject, input, out
<1>3. CASE ParseSort
  <2>1. /\ pc = "sort" /\ pc' \in {"filters", "rejected"} /\ UNCHANGED <<query, unseen, filters>>
    BY <1>3 DEF ParseSort, Continue, Reject, input, out
  <2>2. unseen = DOMAIN query /\ filters = <<>>
    BY <2>1 DEF FilterInv
  <2>3. Collected({})'
    <3>1. filters' = <<>>
      BY <2>1, <2>2
    <3> QED BY <3>1 DEF Collected, ToSet
  <2>4. DOMAIN query' \ unseen' = {}
    BY <2>1, <2>2
  <2> QED BY <2>1, <2>3, <2>4 DEF FilterInv
<1>4. CASE NextFilter
  <2>1. PICK key \in unseen :
          /\ unseen' = unseen \ {key}
          /\ \/ SkipsReserved(key) /\ Continue("filters") /\ UNCHANGED out
             \/ pc' = "rejected"
             \/ /\ Kept(key) /\ Continue("filters")
                /\ filters' = Append(filters, Filter(key))
    BY <1>4 DEF NextFilter, Reject, Kept
  <2>2. pc = "filters" /\ UNCHANGED query
    BY <1>4 DEF NextFilter, input
  <2>0. PICK keys : keys = DOMAIN query \ unseen
    OBVIOUS
  <2>3. Collected(keys)
    BY <2>0, <2>2 DEF FilterInv
  <2>4. DOMAIN query' \ unseen' = keys \union {key} /\ key \in DOMAIN query \ keys
    BY <1>0, <2>0, <2>1, <2>2
  <2>5. CASE SkipsReserved(key) /\ Continue("filters") /\ UNCHANGED out
    <3>1. key \in PlainReserved
      BY <1>0, <2>4, <2>5, QueryHasKeys, SkipsPlain
    <3>2. (keys \union {key}) \ PlainReserved = keys \ PlainReserved
      BY <3>1
    <3>3. \A k : Filter(k)' = Filter(k)
      BY <2>2 DEF Filter
    <3>4. filters' = filters
      BY <2>5 DEF out
    <3>5. Collected(keys \union {key})'
      <4>1. \A k \in keys \union {key} : SkipsReserved(k) \/ Kept(k)
        BY <2>3, <2>5 DEF Collected
      <4> DEFINE all == {Filter(k) : k \in keys \ PlainReserved}
      <4>2. all = {Filter(k)' : k \in (keys \union {key}) \ PlainReserved}
        BY <3>2, <3>3, Zenon
      <4>3. /\ filters' \in Seq(all) /\ ToSet(filters') = all
            /\ \A i, j \in DOMAIN filters' : i # j => Distinct(filters'[i], filters'[j])
        BY <2>3, <3>4 DEF Collected
      <4> HIDE DEF all
      <4> QED BY <4>1, <4>2, <4>3, Zenon DEF Collected
    <3> QED BY <2>4, <2>5, <3>5, Zenon DEF FilterInv, Continue
  <2>6. CASE pc' = "rejected"
    BY <2>6 DEF FilterInv
  <2>7. CASE /\ Kept(key) /\ Continue("filters")
             /\ filters' = Append(filters, Filter(key))
    <3>1. keys \in SUBSET DOMAIN query
      BY <2>0
    <3>2. Collected(keys \union {key})'
      BY <1>0, <2>2, <2>3, <2>4, <2>7, <3>1, CollectsOne
    <3> QED BY <2>4, <2>7, <3>2, Zenon DEF FilterInv, Continue
  <2> QED BY <2>1, <2>5, <2>6, <2>7
<1>5. CASE SortFilters
  <2>1. /\ pc = "filters" /\ unseen = {} /\ pc' = "accepted" /\ UNCHANGED query
        /\ filters' \in InOrder(filters)
    BY <1>5 DEF SortFilters, Continue, input
  <2>2. Collected(DOMAIN query)
    <3>1. DOMAIN query \ unseen = DOMAIN query
      BY <2>1
    <3> QED BY <2>1, <3>1 DEF FilterInv
  <2>3. FiltersDetermined'
    BY <1>0, <2>1, <2>2, SortedDetermined
  <2>4. \A key \in DOMAIN query' : SkipsReserved(key) \/ Kept(key)
    BY <2>1, <2>2 DEF Collected
  <2> QED BY <2>1, <2>3, <2>4, Zenon DEF FilterInv
<1>6. CASE UNCHANGED vars
  <2>1. UNCHANGED <<query, pc, unseen, filters>>
    BY <1>6 DEF vars
  <2>2. \A k : Filter(k)' = Filter(k)
    BY <2>1 DEF Filter
  <2>3. pc = "filters" => Collected(DOMAIN query \ unseen)'
    <3>0. PICK keys : keys = DOMAIN query \ unseen
      OBVIOUS
    <3> DEFINE all == {Filter(k) : k \in keys \ PlainReserved}
    <3> SUFFICES ASSUME pc = "filters" PROVE Collected(keys)'
      BY <2>1, <3>0
    <3>1. Collected(keys)
      BY <3>0 DEF FilterInv
    <3>2. all = {Filter(k)' : k \in keys \ PlainReserved}
      BY <2>2, Zenon
    <3>3. /\ \A key \in keys : SkipsReserved(key) \/ Kept(key)
          /\ filters' \in Seq(all) /\ ToSet(filters') = all
          /\ \A i, j \in DOMAIN filters' : i # j => Distinct(filters'[i], filters'[j])
      BY <2>1, <3>1 DEF Collected
    <3> HIDE DEF all
    <3> QED BY <3>2, <3>3, Zenon DEF Collected
  <2>4. FiltersDetermined => FiltersDetermined'
    BY <2>1 DEF FiltersDetermined, Filter
  <2> QED BY <2>1, <2>3, <2>4 DEF FilterInv
<1> QED BY <1>2, <1>3, <1>4, <1>5, <1>6 DEF Next

\* However the map is ranged over and whatever order the sort may leave its
\* equals in, the filters of an accepted query are what its request determines.
THEOREM FiltersAreDetermined == Spec => []FiltersDetermined
<1>1. FilterInv => FiltersDetermined
  BY DEF FilterInv, FiltersDetermined
<1>2. Init => AddressInv /\ FilterInv
  BY AddressInvInit, FilterInvInit
<1>3. (AddressInv /\ FilterInv) /\ [Next]_vars => (AddressInv /\ FilterInv)'
  BY AddressInvNext, FilterInvNext DEF AddressInv
<1> QED BY <1>1, <1>2, <1>3, PTL DEF Spec

---------------------------------------------------------------------------
(***************************************************************************)
(* The faults, one for each part of the parser.                            *)
(***************************************************************************)
AskedOf(name) == IF Get(name).kind = "int" THEN Get(name).n ELSE 0

PageFault == /\ Get("page") # Empty
             /\ AskedOf("page") < 1 \/ AskedOf("page") * limits.maxSize > MaxInt

SizeFault == Get("size") # Empty /\ AskedOf("size") \notin 1..limits.maxSize

CursorFault == Get("cursor") # Empty /\ (~limits.cursor \/ Get("page") # Empty)

SortFault == \E list \in ToSet(Values("sort")) :
               \E token \in ToSet(list.tokens) : token.field = Nameless

Accepted(key) == key \in FilterKeys(N) \union Operated

\* A parameter is faulty for one of the parts.
LEMMA FaultyIs ==
  ASSUME NEW param
  PROVE  Faulty(param) <=>
           \/ param = <<"page">> /\ PageFault
           \/ param = <<"size">> /\ SizeFault
           \/ param = <<"cursor">> /\ CursorFault
           \/ param = <<"sort">> /\ SortFault
           \/ param \in DOMAIN query /\ ~Accepted(param)
           \/ \E key \in DOMAIN query \intersect Operated : param = <<Head(key)>>
<1> DEFINE operated == {<<name, "[", op, "]">> : name \in Reserved, op \in ToSet(Names)}
<1>1. operated = Operated
  BY DEF Operated, Suffixed, N
<1>2. Faulty(param) <=>
        \/ param = <<"page">> /\ PageFault
        \/ param = <<"size">> /\ SizeFault
        \/ param = <<"cursor">> /\ CursorFault
        \/ param = <<"sort">> /\ SortFault
        \/ param \in DOMAIN query \ (FilterKeys(ToSet(Names)) \union operated)
        \/ \E key \in DOMAIN query \intersect operated : param = <<Head(key)>>
  BY DEF Faulty, PageFault, SizeFault, CursorFault, SortFault, AskedOf
<1> HIDE DEF operated
<1> QED BY <1>1, <1>2 DEF Accepted, N

\* What the parser refuses of a page is a page out of an int's reach.
LEMMA QuotientDecides ==
  ASSUME NEW m \in Nat, NEW s \in Nat \ {0}, NEW n \in Int
  PROVE  n > m \div s <=> n * s > m
<1> DEFINE q == m \div s
<1>1. q \in Int /\ q * s <= m /\ m < q * s + s
  OBVIOUS
<1>2. CASE n > q
  <2>1. (q + 1) * s <= n * s
    BY <1>1, <1>2, ProductMonotonic
  <2>2. (q + 1) * s = q * s + s
    BY <1>1
  <2>3. q * s \in Int /\ n * s \in Int
    BY <1>1
  <2> HIDE DEF q
  <2> QED BY <1>1, <1>2, <2>1, <2>2, <2>3 DEF q
<1>3. CASE n <= q
  <2>1. n * s <= q * s
    BY <1>1, <1>3, ProductMonotonic
  <2>2. q * s \in Int /\ n * s \in Int
    BY <1>1
  <2> QED BY <1>1, <1>3, <2>1, <2>2
<1> QED BY <1>1, <1>2, <1>3

\* The page that ParsePage refuses is the one whose offset would not fit.
LEMMA PageFaultIs ==
  ASSUME query \in Queries, limits \in Policies, limits.maxSize >= 1, Get("page") # Empty
  PROVE  BadPage(Get("page")) <=> PageFault
<1> DEFINE v == Get("page")
           s == limits.maxSize
<1>1. v.n \in Int /\ s \in Nat \ {0} /\ MaxInt \in Nat \ {0}
  BY GetHoldsInt, PolicyAssumption, MaxIntAssumption
<1>2. PageFault <=> (v.kind # "int" \/ v.n < 1 \/ v.n * s > MaxInt)
  <2>1. CASE v.kind = "int"
    BY <2>1 DEF PageFault, AskedOf
  <2>2. CASE v.kind # "int"
    BY <2>2 DEF PageFault, AskedOf
  <2> QED BY <2>1, <2>2
<1>3. BadPage(v) <=> (v.kind # "int" \/ v.n > MaxInt \/ v.n < 1 \/ v.n > MaxInt \div s)
  BY <1>1 DEF BadPage, Atoi, LastPage
<1> HIDE DEF v, s
<1>4. v.n > MaxInt \div s <=> v.n * s > MaxInt
  BY <1>1, QuotientDecides
<1>5. v.n > MaxInt => v.n * s > MaxInt
  <2>1. v.n > MaxInt => v.n * 1 <= v.n * s
    <3>1. SUFFICES ASSUME v.n > MaxInt PROVE 1 * v.n <= s * v.n
      BY <1>1
    <3> QED BY <1>1, <3>1, ProductMonotonic
  <2>2. v.n * s \in Int
    BY <1>1
  <2> QED BY <1>1, <2>1, <2>2
<1> QED BY <1>2, <1>3, <1>4, <1>5 DEF v

\* An int within the policy is one that Atoi reads.
LEMMA SizeFaultIs ==
  ASSUME query \in Queries, limits \in Policies, limits.maxSize >= 1, Get("size") # Empty
  PROVE  BadSize(Get("size")) <=> SizeFault
<1> DEFINE v == Get("size")
           s == limits.maxSize
<1>1. v.n \in Int /\ s \in 1 .. MaxInt /\ MaxInt \in Nat \ {0}
  BY GetHoldsInt, PolicyAssumption, MaxIntAssumption
<1>2. SizeFault <=> (v.kind # "int" \/ v.n \notin 1 .. s)
  <2>1. CASE v.kind = "int"
    BY <2>1 DEF SizeFault, AskedOf
  <2>2. CASE v.kind # "int"
    BY <1>1, <2>2 DEF SizeFault, AskedOf
  <2> QED BY <2>1, <2>2
<1>3. BadSize(v) <=> (v.kind # "int" \/ v.n > MaxInt \/ v.n < 1 \/ v.n > s)
  BY <1>1 DEF BadSize, Atoi
<1> HIDE DEF v, s
<1> QED BY <1>1, <1>2, <1>3 DEF v, s

\* Of all the tokens one is empty exactly when one of a list is.
LEMMA SortFaultIs ==
  ASSUME query \in Queries
  PROVE  (\E token \in ToSet(SortTokens) : token.field = Nameless) <=> SortFault
<1> DEFINE lists == Values("sort")
           T == [field : STRING, desc : BOOLEAN]
           s == [i \in DOMAIN lists |-> lists[i].tokens]
<1>1. lists \in Seq(Value)
  BY QueryAssumption DEF Values
<1>2. \A v \in Value : v.tokens \in Seq(T)
  BY DEF Value
<1>3. SortTokens = FlattenSeq(s)
  BY Zenon DEF SortTokens
<1> HIDE DEF lists, T
<1>4. Len(lists) \in Nat /\ DOMAIN lists = 1 .. Len(lists)
  BY <1>1
<1>5. s \in Rows(T, Len(lists)) /\ \A i \in DOMAIN lists : s[i] = lists[i].tokens
  BY <1>1, <1>2, <1>4 DEF Rows
<1> HIDE DEF s
<1>6. ToSet(FlattenSeq(s)) = UNION {ToSet(s[i]) : i \in 1 .. Len(lists)}
  BY <1>4, <1>5, FlattenMembers
<1>7. ToSet(lists) = {lists[i] : i \in 1 .. Len(lists)}
  BY <1>4 DEF ToSet
<1>8. SortFault <=> \E list \in ToSet(lists) : \E token \in ToSet(list.tokens) : token.field = Nameless
  BY Zenon DEF SortFault, lists
<1>9. (\E token \in ToSet(FlattenSeq(s)) : token.field = Nameless)
        <=> \E i \in 1 .. Len(lists) : \E token \in ToSet(lists[i].tokens) : token.field = Nameless
  BY <1>4, <1>5, <1>6
<1> QED BY <1>3, <1>7, <1>8, <1>9

\* A malformed key is none of the forms; a reserved one takes no operator.
LEMMA KeyFaults ==
  ASSUME NEW key, IsKey(key)
  PROVE  /\ Malformed(key) => ~Accepted(key)
         /\ ~Malformed(key) => Accepted(key) /\ (TakesNoOperator(key) <=> key \in Operated)
<1>1. ASSUME Accepted(key) PROVE ~Malformed(key)
  <2>1. CASE \E name \in N : key = Plain(name)
    BY <2>1, PlainIsKey
  <2>2. CASE \E name \in N \union Reserved, op \in N : key = Suffixed(name, op)
    <3>1. PICK name \in N \union Reserved, op \in N : key = Suffixed(name, op)
      BY <2>2
    <3>2. name \in N
      <4>1. key[1] = name /\ 1 \in DOMAIN key
        BY <3>1 DEF Suffixed
      <4>2. name \in N \union Brackets
        BY <4>1 DEF IsKey
      <4> QED BY <3>1, <4>2 DEF Brackets, Reserved
    <3> QED BY <3>1, <3>2, SuffixedIsKey
  <2>3. FilterKeys(N) \subseteq {Plain(name) : name \in N}
                                \union {Suffixed(name, op) : name \in N, op \in N}
    BY DEF FilterKeys, Plain, Suffixed
  <2>4. Operated = {Suffixed(name, op) : name \in Reserved, op \in N}
    BY DEF Operated
  <2> QED BY <1>1, <2>1, <2>2, <2>3, <2>4 DEF Accepted
<1>2. ASSUME ~Malformed(key)
      PROVE  Accepted(key) /\ (TakesNoOperator(key) <=> key \in Operated)
  <2>0. \/ \E name \in N : key = Plain(name)
        \/ \E name \in N, op \in N : key = Suffixed(name, op)
    BY <1>2, WellFormedIs, Zenon
  <2>1. CASE \E name \in N : key = Plain(name)
    <3>1. PICK name \in N : key = Plain(name)
      BY <2>1
    <3>2. ~TakesNoOperator(key) /\ Operator(key) = <<>>
      BY <3>1, PlainIsKey, Zenon
    <3>3. Accepted(key)
      BY <3>1 DEF Accepted, FilterKeys, Plain
    <3>4. key \notin Operated
      <4>1. Len(key) = 1
        BY <3>1 DEF Plain
      <4>2. \A x \in Operated : Len(x) = 4
        BY DEF Operated, Suffixed
      <4> QED BY <4>1, <4>2
    <3> QED BY <3>2, <3>3, <3>4
  <2>2. CASE \E name \in N, op \in N : key = Suffixed(name, op)
    <3>1. PICK name \in N, op \in N : key = Suffixed(name, op)
      BY <2>2
    <3>2. TakesNoOperator(key) <=> name \in Reserved
      BY <3>1, SuffixedIsKey, Zenon
    <3>3. key \in Operated <=> name \in Reserved
      <4>1. key[1] = name
        BY <3>1 DEF Suffixed
      <4>2. \A x \in Operated : x[1] \in Reserved
        BY DEF Operated, Suffixed
      <4> QED BY <3>1, <4>1, <4>2 DEF Operated
    <3>4. Accepted(key)
      BY <3>1, <3>3 DEF Accepted, FilterKeys, Suffixed, Operated
    <3> QED BY <3>2, <3>3, <3>4
  <2> QED BY <2>0, <2>1, <2>2
<1> QED BY <1>1, <1>2

FaultInv ==
  /\ pc \notin {"limits", "panicked"} => limits.maxSize >= 1
  /\ pc \in {"cursor", "size", "sort", "filters", "accepted"} => ~PageFault
  /\ pc \in {"size", "sort", "filters", "accepted"} => ~CursorFault
  /\ pc \in {"sort", "filters", "accepted"} => ~SizeFault
  /\ pc \in {"filters", "accepted"} => ~SortFault
  /\ pc = "rejected" => \A param : errParam = param => Faulty(param)

\* What is wrong with a request does not change while it is parsed.
LEMMA FaultsStay ==
  ASSUME UNCHANGED input
  PROVE  /\ PageFault' = PageFault /\ CursorFault' = CursorFault
         /\ SizeFault' = SizeFault /\ SortFault' = SortFault
         /\ \A param : Faulty(param)' = Faulty(param)
BY DEF input, PageFault, CursorFault, SizeFault, SortFault, AskedOf, Faulty, Get, Values

\* A part that is passed excludes its fault, and one that refuses names it.
LEMMA FaultInvNext == TypeInv /\ FaultInv /\ [Next]_vars => FaultInv'
<1> SUFFICES ASSUME TypeInv, FaultInv, [Next]_vars PROVE FaultInv'
  OBVIOUS
<1>0. query \in Queries /\ limits \in Policies /\ unseen \subseteq DOMAIN query
  BY DEF TypeInv
<1>1. ASSUME UNCHANGED input
      PROVE  /\ PageFault' = PageFault /\ CursorFault' = CursorFault
             /\ SizeFault' = SizeFault /\ SortFault' = SortFault
             /\ UNCHANGED limits
             /\ \A param : Faulty(param)' = Faulty(param)
  BY <1>1, FaultsStay DEF input
<1>2. ASSUME UNCHANGED input, pc' = "rejected", Faulty(errParam'), limits.maxSize >= 1
      PROVE  FaultInv'
  <2>1. \A param : (errParam = param)' => Faulty(param)'
    BY <1>1, <1>2
  <2> QED BY <1>1, <1>2, <2>1 DEF FaultInv
<1>3. CASE CheckLimits
  <2>1. /\ pc = "limits" /\ UNCHANGED limits
        /\ pc' = IF limits.defaultSize < 1 \/ limits.maxSize < limits.defaultSize
                 THEN "panicked" ELSE "page"
    BY <1>3 DEF CheckLimits, Continue, input
  <2> QED BY <1>0, <2>1, PolicyAssumption DEF FaultInv
<1>4. CASE ParsePage
  <2> DEFINE v == Get("page")
  <2>1. /\ pc = "page" /\ UNCHANGED input
        /\ \/ v = Empty /\ pc' = "cursor"
           \/ v # Empty /\ BadPage(v) /\ pc' = "rejected" /\ errParam' = <<"page">>
           \/ v # Empty /\ ~BadPage(v) /\ pc' = "cursor"
    BY <1>4 DEF ParsePage, Continue, Reject
  <2>2. limits.maxSize >= 1
    BY <2>1 DEF FaultInv
  <2>3. v = Empty => ~PageFault
    BY DEF PageFault
  <2>4. v # Empty => (BadPage(v) <=> PageFault)
    BY <1>0, <2>2, PageFaultIs
  <2> HIDE DEF v
  <2>5. CASE pc' = "rejected" /\ PageFault /\ errParam' = <<"page">>
    BY <1>2, <2>1, <2>2, <2>5, FaultyIs
  <2>6. CASE pc' = "cursor" /\ ~PageFault
    BY <1>1, <2>1, <2>2, <2>6 DEF FaultInv
  <2> QED BY <2>1, <2>3, <2>4, <2>5, <2>6
<1>5. CASE ParseCursor
  <2> DEFINE v == Get("cursor")
  <2>1. /\ pc = "cursor" /\ UNCHANGED input
        /\ \/ v = Empty /\ pc' = "size"
           \/ v # Empty /\ CursorRefused /\ pc' = "rejected" /\ errParam' = <<"cursor">>
           \/ v # Empty /\ ~CursorRefused /\ pc' = "size"
    BY <1>5 DEF ParseCursor, Continue, Reject
  <2>2. limits.maxSize >= 1 /\ ~PageFault
    BY <2>1 DEF FaultInv
  <2>3. CursorFault <=> v # Empty /\ CursorRefused
    BY DEF CursorFault, CursorRefused
  <2> HIDE DEF v
  <2>4. CASE pc' = "rejected" /\ CursorFault /\ errParam' = <<"cursor">>
    BY <1>2, <2>1, <2>2, <2>4, FaultyIs
  <2>5. CASE pc' = "size" /\ ~CursorFault
    BY <1>1, <2>1, <2>2, <2>5 DEF FaultInv
  <2> QED BY <2>1, <2>3, <2>4, <2>5
<1>6. CASE ParseSize
  <2> DEFINE v == Get("size")
  <2>1. /\ pc = "size" /\ UNCHANGED input
        /\ \/ v = Empty /\ pc' = "sort"
           \/ v # Empty /\ BadSize(v) /\ pc' = "rejected" /\ errParam' = <<"size">>
           \/ v # Empty /\ ~BadSize(v) /\ pc' = "sort"
    BY <1>6 DEF ParseSize, Continue, Reject
  <2>2. limits.maxSize >= 1 /\ ~PageFault /\ ~CursorFault
    BY <2>1 DEF FaultInv
  <2>3. v = Empty => ~SizeFault
    BY DEF SizeFault
  <2>4. v # Empty => (BadSize(v) <=> SizeFault)
    BY <1>0, <2>2, SizeFaultIs
  <2> HIDE DEF v
  <2>5. CASE pc' = "rejected" /\ SizeFault /\ errParam' = <<"size">>
    BY <1>2, <2>1, <2>2, <2>5, FaultyIs
  <2>6. CASE pc' = "sort" /\ ~SizeFault
    BY <1>1, <2>1, <2>2, <2>6 DEF FaultInv
  <2> QED BY <2>1, <2>3, <2>4, <2>5, <2>6
<1>7. CASE ParseSort
  <2>1. /\ pc = "sort" /\ UNCHANGED input
        /\ \/ SortFault /\ pc' = "rejected" /\ errParam' = <<"sort">>
           \/ ~SortFault /\ pc' = "filters"
    BY <1>0, <1>7, SortFaultIs DEF ParseSort, Continue, Reject
  <2>2. limits.maxSize >= 1 /\ ~PageFault /\ ~CursorFault /\ ~SizeFault
    BY <2>1 DEF FaultInv
  <2>3. CASE pc' = "rejected" /\ SortFault /\ errParam' = <<"sort">>
    BY <1>2, <2>1, <2>2, <2>3, FaultyIs
  <2>4. CASE pc' = "filters" /\ ~SortFault
    BY <1>1, <2>1, <2>2, <2>4 DEF FaultInv
  <2> QED BY <2>1, <2>3, <2>4
<1>8. CASE NextFilter
  <2>1. PICK key \in unseen :
          \/ pc' = "filters"
          \/ Malformed(key) /\ pc' = "rejected" /\ errParam' = key
          \/ /\ ~Malformed(key) /\ TakesNoOperator(key)
             /\ pc' = "rejected" /\ errParam' = <<Head(key)>>
    BY <1>8 DEF NextFilter, Continue, Reject
  <2>2. pc = "filters" /\ UNCHANGED input
    BY <1>8 DEF NextFilter
  <2>3. limits.maxSize >= 1 /\ ~PageFault /\ ~CursorFault /\ ~SizeFault /\ ~SortFault
    BY <2>2 DEF FaultInv
  <2>4. key \in DOMAIN query /\ IsKey(key)
    BY <1>0, QueryHasKeys
  <2>5. CASE pc' = "filters"
    BY <1>1, <2>2, <2>3, <2>5 DEF FaultInv
  <2>6. CASE Malformed(key) /\ pc' = "rejected" /\ errParam' = key
    <3>1. Faulty(key)
      BY <2>4, <2>6, KeyFaults, FaultyIs
    <3> QED BY <1>2, <2>2, <2>3, <2>6, <3>1
  <2>7. CASE /\ ~Malformed(key) /\ TakesNoOperator(key)
             /\ pc' = "rejected" /\ errParam' = <<Head(key)>>
    <3>1. key \in DOMAIN query \intersect Operated
      BY <2>4, <2>7, KeyFaults
    <3>2. Faulty(<<Head(key)>>)
      BY <3>1, FaultyIs, Zenon
    <3> QED BY <1>2, <2>2, <2>3, <2>7, <3>2
  <2> QED BY <2>1, <2>5, <2>6, <2>7
<1>9. CASE SortFilters
  <2>1. pc = "filters" /\ pc' = "accepted" /\ UNCHANGED input
    BY <1>9 DEF SortFilters, Continue
  <2> QED BY <1>1, <2>1 DEF FaultInv
<1>10. CASE UNCHANGED vars
  <2>1. UNCHANGED input /\ pc' = pc /\ errParam' = errParam
    BY <1>10 DEF vars, input
  <2>2. CASE pc = "rejected"
    BY <1>2, <2>1, <2>2 DEF FaultInv
  <2>3. CASE pc # "rejected"
    BY <1>1, <2>1, <2>3 DEF FaultInv
  <2> QED BY <2>2, <2>3
<1> QED BY <1>3, <1>4, <1>5, <1>6, <1>7, <1>8, <1>9, <1>10 DEF Next

\* Whatever a request holds, and however its map is ranged over, it is accepted
\* only without a fault and refused only for one it has.
THEOREM RefusesOnlyFaults == Spec => []RejectsOnlyFaults
<1>1. TypeInv /\ FilterInv /\ FaultInv => RejectsOnlyFaults
  <2> SUFFICES ASSUME TypeInv, FilterInv, FaultInv PROVE RejectsOnlyFaults
    OBVIOUS
  <2>1. ASSUME pc = "accepted", NEW param, Faulty(param) PROVE FALSE
    <3>1. ~PageFault /\ ~SizeFault /\ ~CursorFault /\ ~SortFault
      BY <2>1 DEF FaultInv
    <3>2. \A key \in DOMAIN query : Accepted(key) /\ key \notin Operated
      <4>1. ASSUME NEW key \in DOMAIN query PROVE Accepted(key) /\ key \notin Operated
        <5>1. IsKey(key) /\ (SkipsReserved(key) \/ Kept(key))
          BY <2>1, QueryHasKeys DEF FilterInv, TypeInv
        <5>2. ~Malformed(key) /\ ~TakesNoOperator(key)
          <6>1. CASE Kept(key)
            BY <6>1 DEF Kept
          <6>2. CASE SkipsReserved(key)
            <7>1. PICK name \in Reserved : key = Plain(name)
              BY <5>1, <6>2, SkipsPlain DEF PlainReserved, Plain
            <7>2. name \in N
              <8>1. key[1] = name /\ 1 \in DOMAIN key
                BY <7>1 DEF Plain
              <8>2. name \in N \union Brackets
                BY <5>1, <8>1 DEF IsKey
              <8> QED BY <8>2 DEF Brackets, Reserved
            <7> QED BY <7>1, <7>2, PlainIsKey
          <6> QED BY <5>1, <6>1, <6>2
        <5> QED BY <5>1, <5>2, KeyFaults
      <4> QED BY <4>1
    <3> QED BY <2>1, <3>1, <3>2, FaultyIs
  <2>2. pc = "rejected" => Faulty(errParam)
    BY DEF FaultInv
  <2> QED BY <2>1, <2>2 DEF RejectsOnlyFaults
<1>2. Init => AddressInv /\ FilterInv /\ FaultInv
  <2>1. Init => FaultInv
    BY DEF Init, FaultInv
  <2> QED BY <2>1, AddressInvInit, FilterInvInit
<1>3. (AddressInv /\ FilterInv /\ FaultInv) /\ [Next]_vars
        => (AddressInv /\ FilterInv /\ FaultInv)'
  BY AddressInvNext, FilterInvNext, FaultInvNext DEF AddressInv
<1>4. AddressInv => TypeInv
  BY DEF AddressInv
<1> QED BY <1>1, <1>2, <1>3, <1>4, PTL DEF Spec
=============================================================================
