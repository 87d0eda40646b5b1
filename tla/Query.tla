------------------------------- MODULE Query -------------------------------
(***************************************************************************)
(* ParseQuery (query.go): one read request's query string becomes a Query  *)
(* or a *QueryError, under the read's Limits.                              *)
(*                                                                         *)
(* A key is the sequence of its brackets and of the names between them; a  *)
(* value is empty, a word, an integer, or a comma-separated list of sort   *)
(* tokens.  The filters come from ranging over a Go map, whose order is    *)
(* not specified: NextFilter takes any key not yet taken.                  *)
(***************************************************************************)
EXTENDS Integers, Sequences, SequencesExt

CONSTANTS
  Names,     \* the names requests use, as a sequence in string order
  Queries,   \* the url.Values explored: functions from keys to value lists
  Policies,  \* the Limits explored
  MaxInt     \* math.MaxInt, scaled down

Reserved == {"page", "size", "sort", "cursor"}

ASSUME MaxIntAssumption == MaxInt \in Nat \ {0}

ASSUME PolicyAssumption ==
  \A policy \in Policies : /\ policy.defaultSize \in Int /\ policy.defaultSize <= MaxInt
                           /\ policy.maxSize \in Int /\ policy.maxSize <= MaxInt

\* The field of a sort key that names none.
Nameless == ""

\* n is what Atoi reads from an integer, and zero otherwise; tokens is what the
\* value holds where it is read as a list of sort keys.
Value == [kind : STRING, n : Int, tokens : Seq([field : STRING, desc : BOOLEAN])]

\* Of two pieces of a key that adjoin, one is a bracket: what lies between two
\* brackets is one name.
Brackets == {"[", "]"}

ASSUME QueryAssumption ==
  /\ Names \in Seq(STRING \ Brackets)
  /\ IsInjective(Names)
  /\ \A values \in Queries : \A key \in DOMAIN values :
       /\ values[key] \in Seq(Value)
       /\ key \in Seq(ToSet(Names) \union Brackets)
       /\ \A i \in 1 .. Len(key) - 1 : key[i] \in Brackets \/ key[i + 1] \in Brackets

VARIABLES
  query,     \* the url.Values
  limits,    \* the Limits
  pc,        \* the part of ParseQuery that runs next, or how it ended
  unseen,    \* the keys the range over the map has still to yield
  page, size, cursor, sort, filters,   \* the Query being built
  errParam   \* QueryError.Param, as a key

input == <<query, limits>>
out   == <<page, size, cursor, sort, filters>>
vars  == <<query, limits, pc, unseen, page, size, cursor, sort, filters, errParam>>

Parts == {"limits", "page", "cursor", "size", "sort", "filters"}
Ends  == {"accepted", "rejected", "panicked"}

---------------------------------------------------------------------------
\* Values and keys

\* url.Values.Get: the first value of a key, empty when there is none.
Empty == [kind |-> "empty", n |-> 0, tokens |-> <<>>]

Values(name) == IF <<name>> \in DOMAIN query THEN query[<<name>>] ELSE <<>>

Get(name) == IF Values(name) = <<>> THEN Empty ELSE Head(Values(name))

\* strconv.Atoi fails on a word and on an integer an int does not hold.
Atoi(v) == v.kind = "int" /\ v.n <= MaxInt

\* parseFilterKey: what it refuses, and how it splits what it accepts.
Opens(key)  == {i \in DOMAIN key : key[i] = "["}
Closes(key) == {i \in DOMAIN key : key[i] = "]"}

OneBracketedSuffix(key) ==
  /\ Last(key) = "]"
  /\ \A i, j \in Opens(key) : i = j
  /\ \A i, j \in Closes(key) : i = j

Operator(key) == IF Opens(key) = {} THEN <<>> ELSE SubSeq(key, 3, Len(key) - 1)

MalformedUnlessOpened(key) ==
  \/ key = <<>>
  \/ Opens(key) = {} /\ Closes(key) # {}
  \/ Opens(key) # {} /\ (1 \in Opens(key) \/ Operator(key) = <<>>)

Malformed(key) ==
  \/ key = <<>>
  \/ Opens(key) = {} /\ Closes(key) # {}
  \/ /\ Opens(key) # {}
     /\ 1 \in Opens(key) \/ ~OneBracketedSuffix(key) \/ Operator(key) = <<>>

TakesNoOperator(key) == Opens(key) # {} /\ Head(key) \in Reserved

Filter(key) ==
  [field |-> Head(key), op |-> Operator(key), values |-> query[key]]

\* strings.Compare on names, and the comparison slices.SortFunc is given.
Rank(name) == CHOOSE i \in DOMAIN Names : Names[i] = name

OpRank(op) == IF op = <<>> THEN 0 ELSE Rank(Head(op))

BeforeByField(f, g) == Rank(f.field) < Rank(g.field)

Before(f, g) ==
  \/ Rank(f.field) < Rank(g.field)
  \/ f.field = g.field /\ OpRank(f.op) < OpRank(g.op)

---------------------------------------------------------------------------
Init ==
  /\ query \in Queries
  /\ limits \in Policies
  /\ pc = "limits"
  /\ page = 1 /\ size = limits.defaultSize /\ cursor = Empty
  /\ sort = <<>> /\ filters = <<>>
  /\ unseen = DOMAIN query
  /\ errParam = <<>>

Continue(part) == pc' = part /\ UNCHANGED errParam

Reject(key) ==
  /\ pc' = "rejected"
  /\ errParam' = key
  /\ UNCHANGED out

CheckLimits ==
  /\ pc = "limits"
  /\ Continue(IF limits.defaultSize < 1 \/ limits.maxSize < limits.defaultSize
              THEN "panicked" ELSE "page")
  /\ UNCHANGED <<input, unseen, out>>

LastPage == MaxInt \div limits.maxSize

PageUnbounded(v) == ~Atoi(v) \/ v.n < 1
BadPage(v) == ~Atoi(v) \/ v.n < 1 \/ v.n > LastPage

ParsePage ==
  LET v == Get("page")
  IN /\ pc = "page"
     /\ \/ v = Empty /\ Continue("cursor") /\ UNCHANGED out
        \/ v # Empty /\ BadPage(v) /\ Reject(<<"page">>)
        \/ /\ v # Empty /\ ~BadPage(v) /\ Continue("cursor")
           /\ page' = v.n
           /\ UNCHANGED <<size, cursor, sort, filters>>
     /\ UNCHANGED <<input, unseen>>

CursorRefusedByPolicy == ~limits.cursor
CursorRefused == ~limits.cursor \/ Get("page") # Empty

ParseCursor ==
  LET v == Get("cursor")
  IN /\ pc = "cursor"
     /\ \/ v = Empty /\ Continue("size") /\ UNCHANGED out
        \/ v # Empty /\ CursorRefused /\ Reject(<<"cursor">>)
        \/ /\ v # Empty /\ ~CursorRefused /\ Continue("size")
           /\ page' = 0 /\ cursor' = v
           /\ UNCHANGED <<size, sort, filters>>
     /\ UNCHANGED <<input, unseen>>

SizeFromZero(v) == ~Atoi(v) \/ v.n < 0 \/ v.n > limits.maxSize
BadSize(v) == ~Atoi(v) \/ v.n < 1 \/ v.n > limits.maxSize

ParseSize ==
  LET v == Get("size")
  IN /\ pc = "size"
     /\ \/ v = Empty /\ Continue("sort") /\ UNCHANGED out
        \/ v # Empty /\ BadSize(v) /\ Reject(<<"size">>)
        \/ /\ v # Empty /\ ~BadSize(v) /\ Continue("sort")
           /\ size' = v.n
           /\ UNCHANGED <<page, cursor, sort, filters>>
     /\ UNCHANGED <<input, unseen>>

\* Every sort parameter's tokens, the empty parameters skipped.
SortTokens == FlattenSeq([i \in DOMAIN Values("sort") |-> Values("sort")[i].tokens])

ParseSort ==
  /\ pc = "sort"
  /\ \/ /\ \E token \in ToSet(SortTokens) : token.field = Nameless
        /\ Reject(<<"sort">>)
     \/ /\ ~\E token \in ToSet(SortTokens) : token.field = Nameless
        /\ Continue("filters")
        /\ sort' = SortTokens
        /\ UNCHANGED <<page, size, cursor, filters>>
  /\ UNCHANGED <<input, unseen>>

\* One iteration of the range over the map, in whatever order it yields keys.
SkipsReserved(key) == Len(key) = 1 /\ Head(key) \in Reserved

NextFilter ==
  /\ pc = "filters"
  /\ \E key \in unseen :
       /\ unseen' = unseen \ {key}
       /\ \/ SkipsReserved(key) /\ Continue("filters") /\ UNCHANGED out
          \/ /\ ~SkipsReserved(key) /\ Malformed(key)
             /\ Reject(key)
          \/ /\ ~SkipsReserved(key) /\ ~Malformed(key) /\ TakesNoOperator(key)
             /\ Reject(<<Head(key)>>)
          \/ /\ ~SkipsReserved(key) /\ ~Malformed(key) /\ ~TakesNoOperator(key)
             /\ Continue("filters")
             /\ filters' = Append(filters, Filter(key))
             /\ UNCHANGED <<page, size, cursor, sort>>
  /\ UNCHANGED input

\* Every order slices.SortFunc, which is not stable, may leave them in.
InOrder(unordered) ==
  LET places == DOMAIN unordered
  IN {[i \in places |-> unordered[p[i]]] :
        p \in {p \in Bijection(places, places) :
                 \A i, j \in places :
                   i < j => ~Before(unordered[p[j]], unordered[p[i]])}}

SortFilters ==
  /\ pc = "filters" /\ unseen = {}
  /\ Continue("accepted")
  /\ filters' \in InOrder(filters)
  /\ UNCHANGED <<input, unseen, page, size, cursor, sort>>

Next ==
  \/ CheckLimits \/ ParsePage \/ ParseCursor \/ ParseSize \/ ParseSort
  \/ NextFilter \/ SortFilters

Spec == Init /\ [][Next]_vars

---------------------------------------------------------------------------
\* A Query holds values a caller can use: the size within the policy, and the
\* page within an int, from the moment the limits are known to be valid.
TypeOK ==
  /\ pc \in Parts \union Ends
  /\ unseen \subseteq DOMAIN query
  /\ errParam # <<>> => pc = "rejected"
  /\ page \in 0..MaxInt
  /\ pc \notin {"limits", "panicked"} => size \in 1..limits.maxSize

\* query.go:88-89: the offset of an accepted page fits an int at any size the
\* policy lets a request ask for, its own included.
OffsetFits ==
  pc = "accepted" /\ page >= 1 =>
    \A n \in 1..limits.maxSize : (page - 1) * n <= MaxInt

\* query.go:42-46: an accepted read is at the address the request named, never
\* at another: its page, or its cursor where the policy has cursors, and no
\* request that names both is accepted.
ReadsWhereAsked ==
  pc = "accepted" =>
    /\ Get("page") # Empty => page = Get("page").n
    /\ cursor = Get("cursor")
    /\ cursor # Empty <=> page = 0
    /\ cursor # Empty => limits.cursor

\* query.go:47-48: the filters of an accepted query are every other parameter,
\* once each and strictly ordered by field then operator, so they are the same
\* in whatever order the map yielded them.
FiltersDetermined ==
  pc = "accepted" =>
    /\ ToSet(filters) =
         {Filter(key) : key \in DOMAIN query \ {<<name>> : name \in Reserved}}
    /\ \A i, j \in DOMAIN filters :
         i < j => \/ Rank(filters[i].field) < Rank(filters[j].field)
                  \/ /\ filters[i].field = filters[j].field
                     /\ OpRank(filters[i].op) < OpRank(filters[j].op)

\* The parameters a request must not carry, written from what a Query may hold
\* and not from the parser's steps.
FilterKeys(names) ==
  {<<name>> : name \in names}
    \union {<<name, "[", op, "]">> : name \in names \ Reserved, op \in names}

Faulty(param) ==
  LET Named(name) == Get(name) # Empty
      Asked(name) == IF Get(name).kind = "int" THEN Get(name).n ELSE 0
      Operated == {<<name, "[", op, "]">> : name \in Reserved, op \in ToSet(Names)}
  IN \/ /\ param = <<"page">> /\ Named("page")
        /\ Asked("page") < 1 \/ Asked("page") * limits.maxSize > MaxInt
     \/ /\ param = <<"size">> /\ Named("size")
        /\ Asked("size") \notin 1..limits.maxSize
     \/ /\ param = <<"cursor">> /\ Named("cursor")
        /\ ~limits.cursor \/ Named("page")
     \/ /\ param = <<"sort">>
        /\ \E list \in ToSet(Values("sort")) :
             \E token \in ToSet(list.tokens) : token.field = Nameless
     \/ param \in DOMAIN query \ (FilterKeys(ToSet(Names)) \union Operated)
     \/ \E key \in DOMAIN query \intersect Operated : param = <<Head(key)>>

\* query.go:40-41, 46: whatever the order of the map, a request is accepted
\* only without a fault, and a QueryError names one the request really has.
RejectsOnlyFaults ==
  /\ pc = "accepted" =>
       ~\E param \in DOMAIN query \union {<<name>> : name \in Reserved} : Faulty(param)
  /\ pc = "rejected" => Faulty(errParam)

=============================================================================
