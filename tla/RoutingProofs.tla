--------------------------- MODULE RoutingProofs ---------------------------
(***************************************************************************)
(* Proofs about Routing, for every set of groups, prefixes and paths.      *)
(***************************************************************************)
EXTENDS Routing, SequenceLemmas

-----------------------------------------------------------------------------
(***************************************************************************)
(* matches asks for a boundary after the prefix's text, and so it matches  *)
(* whole leading segments.                                                 *)
(***************************************************************************)
LEMMA MatchesLeadingSegments ==
  ASSUME NEW prefix \in ModulePrefixes, NEW path \in Paths
  PROVE  matches(path, prefix) <=> Under(prefix, path)
<1>1. Len(prefix) \in Nat \ {0} /\ <<prefix[Len(prefix)], prefix[Len(prefix)]>> \in Begins
  BY RoutingAssumption
<1>2. 1 .. Len(prefix) = (1 .. Len(prefix) - 1) \cup {Len(prefix)}
  BY <1>1
<1>3. Len(path) \in Nat
  BY RoutingAssumption
<1>4. ASSUME matches(path, prefix) PROVE Under(prefix, path)
  BY <1>1, <1>2, <1>3, <1>4 DEF matches, Under
<1>5. ASSUME Under(prefix, path) PROVE matches(path, prefix)
  BY <1>1, <1>2, <1>3, <1>5 DEF matches, Under
<1> QED
  BY <1>4, <1>5

\* Of two prefixes of one path, that of more segments has more bytes, and
\* that of as many segments is the same.
LEMMA MoreSegmentsMoreBytes ==
  ASSUME NEW p \in ModulePrefixes, NEW q \in ModulePrefixes, NEW path,
         Under(p, path), Under(q, path), Len(p) < Len(q)
  PROVE  Bytes[p] < Bytes[q]
<1>1. Len(p) \in Nat /\ Len(q) \in Nat
  BY RoutingAssumption
<1>2. Under(p, q)
  BY <1>1 DEF Under
<1> QED
  BY <1>2, RoutingAssumption

\* Two module prefixes a path lies under are one if they are equally long.
LEMMA SameSegmentsSamePrefix ==
  ASSUME NEW p \in ModulePrefixes, NEW q \in ModulePrefixes, NEW path,
         Under(p, path), Under(q, path), Len(p) = Len(q)
  PROVE  p = q
<1>1. p \in Seq(Segments) /\ q \in Seq(Segments)
  BY RoutingAssumption
<1> QED
  BY <1>1 DEF Under

-----------------------------------------------------------------------------
(***************************************************************************)
(* The invariant: the router's modules lie in an order of decreasing       *)
(* bytes, each at a prefix of its own.                                     *)
(***************************************************************************)
MountedPrefix(i) == modules[mounted[i]].prefix

Indexed ==
  /\ modules \in Seq({modules[m] : m \in DOMAIN modules})
  /\ mounted \in Seq(DOMAIN modules)

ModuleShape ==
  /\ root \in Groups \cup {None}
  /\ \A m \in DOMAIN modules : modules[m].prefix \in ModulePrefixes

Sorted ==
  \A i, j \in DOMAIN mounted :
    i < j => /\ Bytes[MountedPrefix(i)] >= Bytes[MountedPrefix(j)]
             /\ MountedPrefix(i) # MountedPrefix(j)

IInv == Indexed /\ ModuleShape /\ Sorted

\* Building a module leaves those that are built where they were.
LEMMA BuildingAppends ==
  ASSUME IInv, NEW e, modules' = Append(modules, e), e.prefix \in ModulePrefixes,
         mounted' = mounted, root' \in Groups \cup {None}
  PROVE  IInv'
<1> DEFINE S == {modules[m] : m \in DOMAIN modules} \cup {e}
<1>1. modules \in Seq(S) /\ DOMAIN modules = 1 .. Len(modules) /\ Len(modules) \in Nat
  BY DEF IInv, Indexed
<1>2. /\ modules' \in Seq(S)
      /\ Len(modules') = Len(modules) + 1
      /\ \A m \in DOMAIN modules : modules'[m] = modules[m]
      /\ modules'[Len(modules) + 1] = e
  BY <1>1
<1>3. DOMAIN modules' = DOMAIN modules \cup {Len(modules) + 1}
  BY <1>1, <1>2
<1>4. modules' \in Seq({modules'[m] : m \in DOMAIN modules'})
  BY <1>2
<1>5. mounted' \in Seq(DOMAIN modules')
  BY <1>3 DEF IInv, Indexed
<1>6. \A i \in DOMAIN mounted : mounted[i] \in DOMAIN modules
  BY DEF IInv, Indexed
<1>7. \A i \in DOMAIN mounted : MountedPrefix(i)' = MountedPrefix(i)
  BY <1>2, <1>6 DEF MountedPrefix
<1>8. Sorted'
  BY <1>7 DEF IInv, Sorted
<1>9. ModuleShape'
  BY <1>2, <1>3 DEF IInv, ModuleShape
<1> QED
  BY <1>4, <1>5, <1>8, <1>9 DEF IInv, Indexed

\* A Router nothing is mounted on satisfies the invariant.
LEMMA InitIInv == Init => IInv
<1> SUFFICES ASSUME Init PROVE IInv
  OBVIOUS
<1>1. modules = <<>> /\ mounted = <<>> /\ root = None
  BY DEF Init
<1> QED
  BY <1>1 DEF IInv, Indexed, ModuleShape, Sorted

\* A step that leaves the mounted modules alone keeps the invariant.
LEMMA StutterIInv ==
  ASSUME IInv, UNCHANGED <<modules, mounted>>, root' \in Groups \cup {None}
  PROVE  IInv'
  BY DEF IInv, Indexed, ModuleShape, Sorted, MountedPrefix

\* A mount sorts the modules anew, however the sort orders equal lengths.
LEMMA MountIInv ==
  ASSUME IInv, NEW m \in DOMAIN modules, RouterMount(m)
  PROVE  IInv'
<1> DEFINE all == {mounted[i] : i \in DOMAIN mounted} \cup {m}
<1>1. UNCHANGED <<modules, root>>
  BY DEF RouterMount
<1>2. /\ mounted' \in [1 .. Len(mounted) + 1 -> all]
      /\ \A i, j \in DOMAIN mounted' : i < j =>
           /\ mounted'[i] # mounted'[j]
           /\ Bytes[modules[mounted'[i]].prefix] >= Bytes[modules[mounted'[j]].prefix]
  BY DEF RouterMount, Orders
<1>3. mounted \in Seq(DOMAIN modules) /\ Len(mounted) \in Nat
  BY DEF IInv, Indexed
<1>4. all \subseteq DOMAIN modules
  BY <1>3
<1>5. mounted' \in Seq(DOMAIN modules)
  BY <1>2, <1>3, <1>4
<1>6. \A x, y \in all : x # y => modules[x].prefix # modules[y].prefix
  <2>1. \A i \in DOMAIN mounted : modules[mounted[i]].prefix # modules[m].prefix
    BY DEF RouterMount
  <2>2. \A i, j \in DOMAIN mounted :
          mounted[i] # mounted[j] => MountedPrefix(i) # MountedPrefix(j)
    BY <1>3 DEF IInv, Sorted
  <2> QED
    BY <2>1, <2>2 DEF MountedPrefix
<1>7. Sorted'
  BY <1>1, <1>2, <1>6 DEF Sorted, MountedPrefix
<1> QED
  BY <1>1, <1>5, <1>7 DEF IInv, Indexed, ModuleShape

\* Every step keeps it, mounts by case and the rest as stutters.
LEMMA NextIInv == IInv /\ [Next]_vars => IInv'
<1> SUFFICES ASSUME IInv, [Next]_vars PROVE IInv'
  OBVIOUS
<1> USE DEF groupVars, routerVars
<1>r. root \in Groups \cup {None}
  BY DEF IInv, ModuleShape
<1>1. ASSUME NEW g \in Groups, NEW m, Use(g, m) PROVE IInv'
  BY <1>1, <1>r, StutterIInv DEF Use, CallOn, Call
<1>2. ASSUME NEW g \in Groups, NEW method, NEW pattern, NEW h, NEW m,
             AddRoute(g, method, pattern, h, m)
      PROVE  IInv'
  BY <1>2, <1>r, StutterIInv DEF AddRoute, CallOn, Call
<1>3. ASSUME NEW g \in Groups, NEW ew, SetErrorWriter(g, ew) PROVE IInv'
  BY <1>3, <1>r, StutterIInv DEF SetErrorWriter, CallOn, Call
<1>4. ASSUME NEW g \in Groups, NEW kind, NEW set, SetMiss(g, kind, set) PROVE IInv'
  BY <1>4, <1>r, StutterIInv DEF SetMiss, CallOn, Call
<1>5. ASSUME NEW g \in Groups, NEW child, Mount(g, child) PROVE IInv'
  BY <1>5, <1>r, StutterIInv DEF Mount, CallOn, Call
<1>6. ASSUME NEW g \in Groups, NewModule(g) PROVE IInv'
  BY <1>6, StutterIInv DEF NewModule
<1>7. ASSUME compile PROVE IInv'
  BY <1>7, <1>r, StutterIInv, Zenon DEF compile
<1>8. ASSUME compilePanics PROVE IInv'
  BY <1>8, StutterIInv DEF compilePanics
<1>9. ASSUME NewModuleReturns PROVE IInv'
  <2> DEFINE e == [prefix |-> Prefix[root], root |-> root, mux |-> mux, miss |-> miss[root]]
  <2>1. modules' = Append(modules, e) /\ mounted' = mounted /\ root' = None
    BY <1>9 DEF NewModuleReturns
  <2>2. e.prefix \in ModulePrefixes
    BY <1>9, <1>r DEF NewModuleReturns, ModulePrefixes
  <2> QED
    BY <2>1, <2>2, BuildingAppends
<1>10. ASSUME NEW prefix \in RawPrefixes, NEW m, NewHandlerModule(prefix, m) PROVE IInv'
  <2> DEFINE e == [prefix |-> prefix, root |-> None, mux |-> Chain("raw", m), miss |-> {}]
  <2>1. modules' = Append(modules, e) /\ mounted' = mounted /\ root' = root
    BY <1>10 DEF NewHandlerModule
  <2>2. e.prefix \in ModulePrefixes
    BY DEF ModulePrefixes
  <2> QED
    BY <2>1, <2>2, <1>r, BuildingAppends
<1>11. ASSUME NEW m \in DOMAIN modules, RouterMount(m) PROVE IInv'
  BY <1>11, MountIInv
<1>12. ASSUME NEW m, RouterUse(m) PROVE IInv'
  BY <1>12, <1>r, StutterIInv DEF RouterUse, Call
<1>13. ASSUME NEW method, NEW path, RouterHandle(method, path) PROVE IInv'
  BY <1>13, <1>r, StutterIInv DEF RouterHandle, Call
<1>14. ASSUME NEW kind, NEW set, SetNativeMiss(kind, set) PROVE IInv'
  BY <1>14, <1>r, StutterIInv DEF SetNativeMiss, Call
<1>15. CASE UNCHANGED vars
  BY <1>15, <1>r, StutterIInv DEF vars
<1> QED
  BY <1>1, <1>2, <1>3, <1>4, <1>5, <1>6, <1>7, <1>8, <1>9, <1>10, <1>11, <1>12,
     <1>13, <1>14, <1>15
     DEF Next, Handle, HandleErr

-----------------------------------------------------------------------------
\* The first module of the order whose prefix matches is the longest that does.
LEMMA OrderServesLongest == IInv => LongestPrefixServes
<1> SUFFICES ASSUME IInv, NEW path \in Paths
             PROVE  LET under == {i \in DOMAIN mounted : Under(MountedPrefix(i), path)}
                    IN IF under = {} THEN dispatch(path) = 0
                       ELSE \E i \in under :
                              /\ dispatch(path) = mounted[i]
                              /\ \A j \in under \ {i} :
                                   Len(MountedPrefix(j)) < Len(MountedPrefix(i))
  BY DEF LongestPrefixServes, MountedPrefix
<1> DEFINE under == {i \in DOMAIN mounted : Under(MountedPrefix(i), path)}
<1>1. mounted \in Seq(DOMAIN modules) /\ DOMAIN mounted = 1 .. Len(mounted)
      /\ Len(mounted) \in Nat
  BY DEF IInv, Indexed
<1>2. \A i \in DOMAIN mounted : MountedPrefix(i) \in ModulePrefixes
  BY <1>1 DEF IInv, ModuleShape, MountedPrefix
<1>3. Matching(path) = under
  BY <1>2, MatchesLeadingSegments DEF Matching, MountedPrefix
<1>4. CASE under = {}
  BY <1>3, <1>4 DEF dispatch
<1>5. CASE under # {}
  <2>1. \E i \in under : \A j \in under : i <= j
    <3>1. under \in SUBSET Nat
      BY <1>1
    <3> QED
      BY <1>5, <3>1, LeastExists
  <2> DEFINE first == CHOOSE i \in under : \A j \in under : i <= j
  <2>2. first \in under /\ \A j \in under : first <= j
    BY <2>1
  <2>3. dispatch(path) = mounted[first]
    BY <1>3, <1>5 DEF dispatch
  <2>4. ASSUME NEW j \in under \ {first}
        PROVE  Len(MountedPrefix(j)) < Len(MountedPrefix(first))
    <3>1. first < j
      BY <1>1, <2>2
    <3>2. /\ Bytes[MountedPrefix(first)] >= Bytes[MountedPrefix(j)]
          /\ MountedPrefix(first) # MountedPrefix(j)
      BY <2>2, <3>1 DEF IInv, Sorted
    <3>3. /\ MountedPrefix(first) \in ModulePrefixes
          /\ MountedPrefix(j) \in ModulePrefixes
          /\ Under(MountedPrefix(first), path)
          /\ Under(MountedPrefix(j), path)
      BY <1>2, <2>2
    <3>4. ~ (Len(MountedPrefix(first)) < Len(MountedPrefix(j)))
      <4>1. ASSUME Len(MountedPrefix(first)) < Len(MountedPrefix(j)) PROVE FALSE
        <5>1. Bytes[MountedPrefix(first)] < Bytes[MountedPrefix(j)]
          BY <3>3, <4>1, MoreSegmentsMoreBytes
        <5>2. Bytes[MountedPrefix(first)] \in Nat /\ Bytes[MountedPrefix(j)] \in Nat
          BY <3>3, RoutingAssumption
        <5> HIDE DEF first
        <5> QED
          BY <3>2, <5>1, <5>2
      <4> QED
        BY <4>1
    <3>5. Len(MountedPrefix(first)) # Len(MountedPrefix(j))
      BY <3>2, <3>3, SameSegmentsSamePrefix
    <3> QED
      BY <3>3, <3>4, <3>5, RoutingAssumption
  <2> QED
    BY <1>5, <2>2, <2>3, <2>4
<1> QED
  BY <1>4, <1>5

\* Whatever is mounted, in whatever order, and whatever the texts of the
\* prefixes are, a path goes to the module with the longest prefix over it.
THEOREM ServesLongest == Spec => []LongestPrefixServes
<1>1. Init => IInv
  BY InitIInv
<1>2. IInv /\ [Next]_vars => IInv'
  BY NextIInv
<1>3. IInv => LongestPrefixServes
  BY OrderServesLongest
<1> QED
  BY <1>1, <1>2, <1>3, PTL DEF Spec

-----------------------------------------------------------------------------
(***************************************************************************)
(* Branches, and what lies along them.                                     *)
(***************************************************************************)
Cut(b, k) == [i \in 1 .. k |-> b[i]]
Longer(b, h) == [i \in 1 .. Len(b) + 1 |-> IF i <= Len(b) THEN b[i] ELSE h]

\* What F gives the groups of a branch, root to leaf.
Along(F, b) == FlattenSeq([i \in DOMAIN b |-> F[b[i]]])

\* A branch that is one group longer has that group's share at its end.
LEMMA AlongGrows ==
  ASSUME NEW T, NEW F, \A g \in Groups : F[g] \in Seq(T),
         NEW n \in Nat, NEW b \in [1 .. n + 1 -> Groups]
  PROVE  /\ Along(F, b) \in Seq(T)
         /\ Along(F, Cut(b, n)) \in Seq(T)
         /\ Along(F, b) = Along(F, Cut(b, n)) \o F[b[n + 1]]
<1> DEFINE s == [i \in DOMAIN b |-> F[b[i]]]
           t == [i \in DOMAIN Cut(b, n) |-> F[Cut(b, n)[i]]]
<1>1. s \in Rows(T, n + 1) /\ s[1] = F[b[1]] /\ s[n + 1] = F[b[n + 1]]
  BY DEF Rows
<1>2. t \in Rows(T, n) /\ t = [i \in 1 .. n |-> s[i]]
  BY DEF Rows, Cut
<1>3. n = 0 => FlattenSeq(t) = <<>>
  <2> SUFFICES ASSUME n = 0 PROVE FlattenSeq(t) = <<>>
    OBVIOUS
  <2>1. t = <<>>
    BY <1>2
  <2> HIDE DEF t
  <2> QED BY <2>1 DEF FlattenSeq
<1>4. Along(F, b) = FlattenSeq(s) /\ Along(F, Cut(b, n)) = FlattenSeq(t)
  BY Zenon DEF Along
<1> HIDE DEF s, t
<1>5. FlattenSeq(t) \in Seq(T)
  BY <1>2, FlattenMembers
<1>6. /\ FlattenSeq(s) \in Seq(T)
      /\ FlattenSeq(s) = IF n = 0 THEN s[1] ELSE FlattenSeq([i \in 1 .. n |-> s[i]]) \o s[n + 1]
  BY <1>1, FlattenGrows
<1>7. FlattenSeq(s) = FlattenSeq(t) \o s[n + 1]
  <2>1. CASE n = 0
    <3>1. s[1] \in Seq(T) /\ n + 1 = 1
      BY <1>1, <2>1 DEF Rows
    <3>2. <<>> \o s[1] = s[1]
      BY <3>1
    <3> QED BY <1>3, <1>6, <2>1, <3>1, <3>2
  <2>2. CASE n # 0
    BY <1>2, <1>6, <2>2
  <2> QED BY <2>1, <2>2
<1> QED BY <1>1, <1>4, <1>5, <1>6, <1>7

KidsType ==
  /\ kids \in [Groups -> Seq(Groups)]
  /\ \A g \in Groups : \A i \in DOMAIN kids[g] : Depth[g] < Depth[kids[g][i]]

Linked(b) ==
  \A i \in 1 .. Len(b) - 1 : \E k \in DOMAIN kids[b[i]] : kids[b[i]][k] = b[i + 1]

\* A branch is some groups long, each mounted under the one before.
LEMMA BranchIs ==
  ASSUME NEW g, NEW b \in Branches(g)
  PROVE  /\ Len(b) \in Nat \ {0}
         /\ b \in [1 .. Len(b) -> Groups]
         /\ b[1] = g
         /\ Linked(b)
<1>1. PICK n \in UNION {1 .. Depth[h] : h \in Groups} : b \in [1 .. n -> Groups]
  BY DEF Branches
<1>2. n \in Nat \ {0}
  BY <1>1, RoutingAssumption
<1>3. Len(b) = n
  BY <1>1, <1>2
<1> QED BY <1>1, <1>2, <1>3 DEF Branches, Linked

\* Whatever groups are so linked, no more of them than a depth, are a branch.
LEMMA IsBranch ==
  ASSUME NEW g, NEW n \in Nat \ {0}, NEW b \in [1 .. n -> Groups], b[1] = g,
         Linked(b), NEW h \in Groups, n <= Depth[h]
  PROVE  b \in Branches(g)
<1>1. n \in UNION {1 .. Depth[x] : x \in Groups}
  BY RoutingAssumption
<1>2. Len(b) = n
  OBVIOUS
<1> QED BY <1>1, <1>2 DEF Branches, Linked

\* A group lies no higher in a branch than its depth, so that no branch is
\* longer than Branches looks for.
LEMMA BranchDepth ==
  ASSUME KidsType, NEW g, NEW b \in Branches(g)
  PROVE  Len(b) <= Depth[b[Len(b)]]
<1>1. /\ Len(b) \in Nat \ {0} /\ b \in [1 .. Len(b) -> Groups] /\ Linked(b)
  BY BranchIs
<1> DEFINE n == Len(b)
           Bad == {i \in 1 .. n : ~(i <= Depth[b[i]])}
<1>2. Bad = {}
  <2> SUFFICES ASSUME Bad # {} PROVE FALSE
    OBVIOUS
  <2>1. PICK k \in Bad : \A j \in Bad : k <= j
    <3>1. Bad \in SUBSET Nat
      OBVIOUS
    <3> HIDE DEF Bad
    <3> QED BY <3>1, LeastExists
  <2> HIDE DEF n
  <2>2. k \in 1 .. n /\ ~(k <= Depth[b[k]]) /\ b[k] \in Groups /\ Depth[b[k]] \in Nat \ {0}
    BY <1>1, <2>1, RoutingAssumption DEF n
  <2>3. k # 1
    BY <2>2
  <2>4. k - 1 \in 1 .. n - 1 /\ k - 1 \notin Bad /\ (k - 1) + 1 = k
    BY <2>1, <2>2, <2>3, <1>1 DEF n
  <2>5. k - 1 <= Depth[b[k - 1]]
    BY <2>4, <1>1 DEF n
  <2>6. PICK i \in DOMAIN kids[b[k - 1]] : kids[b[k - 1]][i] = b[k]
    <3>1. \E i \in DOMAIN kids[b[k - 1]] : kids[b[k - 1]][i] = b[(k - 1) + 1]
      BY <1>1, <2>4 DEF Linked, n
    <3> QED BY <2>4, <3>1
  <2>7. b[k - 1] \in Groups /\ Depth[b[k - 1]] \in Nat
    BY <1>1, <2>4, RoutingAssumption DEF n
  <2>8. Depth[b[k - 1]] < Depth[b[k]]
    BY <2>6, <2>7 DEF KidsType
  <2> QED BY <2>2, <2>5, <2>7, <2>8
<1> QED BY <1>1, <1>2

\* The leading part of a branch is one, and so is a branch grown by a group
\* that is mounted at its end.
LEMMA BranchCut ==
  ASSUME KidsType, NEW g, NEW b \in Branches(g), NEW k \in 1 .. Len(b)
  PROVE  /\ Cut(b, k) \in Branches(g)
         /\ Cut(b, k) \in [1 .. k -> Groups] /\ Len(Cut(b, k)) = k
         /\ Cut(b, k)[k] = b[k]
<1>1. /\ Len(b) \in Nat \ {0} /\ b \in [1 .. Len(b) -> Groups] /\ Linked(b) /\ b[1] = g
  BY BranchIs
<1>2. Len(b) <= Depth[b[Len(b)]] /\ b[Len(b)] \in Groups
  BY <1>1, BranchDepth
<1>3. /\ Cut(b, k) \in [1 .. k -> Groups] /\ Len(Cut(b, k)) = k
      /\ \A i \in 1 .. k : Cut(b, k)[i] = b[i]
  BY <1>1 DEF Cut
<1>4. Linked(Cut(b, k))
  <2>1. ASSUME NEW i \in 1 .. k - 1
        PROVE  \E j \in DOMAIN kids[Cut(b, k)[i]] : kids[Cut(b, k)[i]][j] = Cut(b, k)[i + 1]
    <3>1. i \in 1 .. Len(b) - 1 /\ i \in 1 .. k /\ i + 1 \in 1 .. k
      BY <1>1
    <3>2. Cut(b, k)[i] = b[i] /\ Cut(b, k)[i + 1] = b[i + 1]
      BY <1>3, <3>1
    <3>3. \E j \in DOMAIN kids[b[i]] : kids[b[i]][j] = b[i + 1]
      BY <1>1, <3>1 DEF Linked
    <3> QED BY <3>2, <3>3
  <2> QED BY <1>3, <2>1 DEF Linked
<1>5. k <= Depth[b[Len(b)]] /\ k \in Nat \ {0}
  BY <1>1, <1>2, RoutingAssumption
<1> QED BY <1>1, <1>2, <1>3, <1>4, <1>5, IsBranch

\* A branch grown by a group mounted at its end is one.
LEMMA BranchLonger ==
  ASSUME KidsType, NEW g, NEW b \in Branches(g),
         NEW i \in DOMAIN kids[b[Len(b)]]
  PROVE  LET h == kids[b[Len(b)]][i]
         IN /\ Longer(b, h) \in Branches(g)
            /\ Longer(b, h) \in [1 .. Len(b) + 1 -> Groups]
            /\ Len(Longer(b, h)) = Len(b) + 1
            /\ Longer(b, h)[Len(b) + 1] = h
            /\ Cut(Longer(b, h), Len(b)) = b
<1> DEFINE h == kids[b[Len(b)]][i]
           n == Len(b)
<1>1. /\ n \in Nat \ {0} /\ b \in [1 .. n -> Groups] /\ Linked(b) /\ b[1] = g
  BY BranchIs
<1>2. n <= Depth[b[n]] /\ b[n] \in Groups
  BY <1>1, BranchDepth
<1>3. h \in Groups /\ Depth[b[n]] < Depth[h]
  BY <1>2 DEF KidsType
<1> HIDE DEF h
<1>4. /\ Longer(b, h) \in [1 .. n + 1 -> Groups] /\ Len(Longer(b, h)) = n + 1
      /\ \A j \in 1 .. n : Longer(b, h)[j] = b[j]
      /\ Longer(b, h)[n + 1] = h
  BY <1>1, <1>3 DEF Longer
<1>5. Linked(Longer(b, h))
  <2>1. ASSUME NEW j \in 1 .. n
        PROVE  \E k \in DOMAIN kids[Longer(b, h)[j]] :
                 kids[Longer(b, h)[j]][k] = Longer(b, h)[j + 1]
    <3>1. CASE j = n
      BY <1>4, <3>1 DEF h
    <3>2. CASE j # n
      <4>1. j \in 1 .. Len(b) - 1 /\ j + 1 \in 1 .. n
        <5>1. n \in Nat
          BY <1>1
        <5> HIDE DEF n
        <5>2. j \in 1 .. n - 1 /\ j + 1 \in 1 .. n
          BY <3>2, <5>1
        <5> QED BY <5>2 DEF n
      <4>2. \E k \in DOMAIN kids[b[j]] : kids[b[j]][k] = b[j + 1]
        BY <1>1, <4>1 DEF Linked
      <4> QED BY <1>4, <4>1, <4>2
    <3> QED BY <3>1, <3>2
  <2>2. 1 .. Len(Longer(b, h)) - 1 = 1 .. n
    BY <1>1, <1>4
  <2> QED BY <2>1, <2>2 DEF Linked
<1>6. n + 1 <= Depth[h] /\ n + 1 \in Nat \ {0}
  BY <1>1, <1>2, <1>3, RoutingAssumption
<1>7. Longer(b, h)[1] = g
  BY <1>1, <1>4
<1>8. Longer(b, h) \in Branches(g)
  BY <1>3, <1>4, <1>5, <1>6, <1>7, IsBranch
<1>9. Cut(Longer(b, h), n) = b
  BY <1>1, <1>4 DEF Cut
<1> QED BY <1>4, <1>8, <1>9 DEF h

\* A group is a branch of its own tree, and every branch begins with it.
LEMMA RootBranch ==
  ASSUME NEW g \in Groups
  PROVE  /\ [i \in 1 .. 1 |-> g] \in Branches(g)
         /\ \A b \in Branches(g) : 1 \in DOMAIN b /\ Cut(b, 1) = [i \in 1 .. 1 |-> g]
<1> DEFINE r == [i \in 1 .. 1 |-> g]
<1>1. r \in [1 .. 1 -> Groups] /\ r[1] = g /\ Len(r) = 1
  OBVIOUS
<1>2. Linked(r)
  BY <1>1 DEF Linked
<1>3. 1 <= Depth[g]
  BY RoutingAssumption
<1>4. r \in Branches(g)
  <2> HIDE DEF r
  <2>1. 1 \in Nat \ {0}
    OBVIOUS
  <2> QED BY <1>1, <1>2, <1>3, <2>1, IsBranch, Zenon
<1>5. ASSUME NEW b \in Branches(g) PROVE 1 \in DOMAIN b /\ Cut(b, 1) = r
  <2>1. Len(b) \in Nat \ {0} /\ b \in [1 .. Len(b) -> Groups] /\ b[1] = g
    BY BranchIs
  <2> QED BY <2>1 DEF Cut
<1> QED BY <1>4, <1>5

-----------------------------------------------------------------------------
(***************************************************************************)
(* The call of compile at the end of a branch, and what it registers.      *)
(***************************************************************************)
CallOf(b) ==
  [group  |-> b[Len(b)],
   parent |-> Along(Prefix, Cut(b, Len(b) - 1)),
   outer  |-> Along(mw, Cut(b, Len(b) - 1))]

GroupsType ==
  /\ mw \in [Groups -> Seq(Middlewares \cup {None})]
  /\ routes \in [Groups -> Seq(RouteType)]
  /\ errors \in [Groups -> Writers \cup {None}]
  /\ miss \in [Groups -> SUBSET {"notFound", "methodNotAllowed"}]

CallType == [group : Groups, parent : Seq(Segments), outer : Seq(Middlewares \cup {None})]

\* A call's own prefix and chain are those of its branch.
LEMMA CallIs ==
  ASSUME GroupsType, NEW g, NEW b \in Branches(g)
  PROVE  /\ CallOf(b) \in CallType
         /\ CallOf(b).group = b[Len(b)]
         /\ CallOf(b).parent \o Prefix[b[Len(b)]] = Along(Prefix, b)
         /\ CallOf(b).outer \o mw[b[Len(b)]] = Along(mw, b)
<1> DEFINE n == Len(b) - 1
<1>1. /\ n \in Nat /\ n + 1 = Len(b) /\ b \in [1 .. n + 1 -> Groups] /\ b[n + 1] \in Groups
  BY BranchIs
<1>2. \A h \in Groups : Prefix[h] \in Seq(Segments)
  BY RoutingAssumption DEF ModulePrefixes
<1>3. \A h \in Groups : mw[h] \in Seq(Middlewares \cup {None})
  BY DEF GroupsType
<1> HIDE DEF n
<1>4. /\ Along(Prefix, Cut(b, n)) \in Seq(Segments)
      /\ Along(Prefix, b) = Along(Prefix, Cut(b, n)) \o Prefix[b[n + 1]]
  BY <1>1, <1>2, AlongGrows
<1>5. /\ Along(mw, Cut(b, n)) \in Seq(Middlewares \cup {None})
      /\ Along(mw, b) = Along(mw, Cut(b, n)) \o mw[b[n + 1]]
  BY <1>1, <1>3, AlongGrows
<1>6. CallOf(b) = [group |-> b[n + 1], parent |-> Along(Prefix, Cut(b, n)),
                   outer |-> Along(mw, Cut(b, n))]
  BY <1>1 DEF CallOf, n
<1>7. /\ CallOf(b).group = b[Len(b)]
      /\ CallOf(b).parent = Along(Prefix, Cut(b, n))
      /\ CallOf(b).outer = Along(mw, Cut(b, n))
  BY <1>1, <1>6
<1>8. CallOf(b) \in CallType
  BY <1>1, <1>4, <1>5, <1>6 DEF CallType
<1> QED BY <1>1, <1>4, <1>5, <1>7, <1>8, Zenon

\* What compile registers for it is what the end of the branch declares.
LEMMA RegistersDeclared ==
  ASSUME GroupsType, NEW g, NEW b \in Branches(g)
  PROVE  LET own == Registered(CallOf(b))
         IN {own[i] : i \in DOMAIN own} = DeclaredAt(b)
<1> DEFINE leaf == b[Len(b)]
           own  == Registered(CallOf(b))
           path == Along(Prefix, b)
           chain == Along(mw, b)
<1>1. own = [i \in DOMAIN routes[leaf] |-> Entry(path, chain, routes[leaf][i])]
  <2> DEFINE c == CallOf(b)
             p == c.parent \o Prefix[c.group]
             o == c.outer \o mw[c.group]
  <2>1. own = [i \in DOMAIN routes[c.group] |-> Entry(p, o, routes[c.group][i])]
    BY Zenon DEF Registered
  <2>2. c.group = leaf /\ p = path /\ o = chain
    <3> HIDE DEF path, chain
    <3> QED BY CallIs, Zenon DEF path, chain
  <2> HIDE DEF c, p, o, path, chain, leaf, own
  <2> QED BY <2>1, <2>2
<1>2. DeclaredAt(b) = { Entry(path, chain, rt)
                        : rt \in {routes[leaf][i] : i \in DOMAIN routes[leaf]} }
  BY Zenon DEF DeclaredAt, Entry, Chain, Along
<1> HIDE DEF own, path, chain, leaf
<1>3. /\ DOMAIN own = DOMAIN routes[leaf]
      /\ \A i \in DOMAIN own : own[i] = Entry(path, chain, routes[leaf][i])
  BY <1>1
<1>4. {own[i] : i \in DOMAIN own} = DeclaredAt(b)
  BY <1>2, <1>3, Zenon
<1> QED BY <1>4 DEF own

\* The calls compile makes next are at the branches one group longer.
LEMMA CallBelow ==
  ASSUME KidsType, GroupsType, NEW g, NEW b \in Branches(g),
         NEW k \in 1 .. Len(b) - 1
  PROVE  CallOf(Cut(b, k + 1)) =
           [group  |-> b[k + 1],
            parent |-> CallOf(Cut(b, k)).parent \o Prefix[CallOf(Cut(b, k)).group],
            outer  |-> CallOf(Cut(b, k)).outer \o mw[CallOf(Cut(b, k)).group]]
<1>1. Len(b) \in Nat \ {0} /\ b \in [1 .. Len(b) -> Groups]
  BY BranchIs
<1>2. k \in 1 .. Len(b) /\ k + 1 \in 1 .. Len(b) /\ (k + 1) - 1 = k
  BY <1>1
<1>3. /\ Cut(b, k) \in Branches(g) /\ Len(Cut(b, k)) = k /\ Cut(b, k)[k] = b[k]
      /\ Len(Cut(b, k + 1)) = k + 1 /\ Cut(b, k + 1)[k + 1] = b[k + 1]
  BY <1>2, BranchCut
<1>4. Cut(Cut(b, k + 1), k) = Cut(b, k)
  BY <1>1, <1>2 DEF Cut
<1>5. /\ CallOf(Cut(b, k)).group = Cut(b, k)[k]
      /\ CallOf(Cut(b, k)).parent \o Prefix[Cut(b, k)[k]] = Along(Prefix, Cut(b, k))
      /\ CallOf(Cut(b, k)).outer \o mw[Cut(b, k)[k]] = Along(mw, Cut(b, k))
  BY <1>3, CallIs
<1>6. CallOf(Cut(b, k + 1)) = [group |-> Cut(b, k + 1)[k + 1],
                               parent |-> Along(Prefix, Cut(Cut(b, k + 1), k)),
                               outer |-> Along(mw, Cut(Cut(b, k + 1), k))]
  BY <1>2, <1>3, Zenon DEF CallOf
<1> QED BY <1>3, <1>4, <1>5, <1>6, Zenon

-----------------------------------------------------------------------------
(***************************************************************************)
(* The invariant of compiling.  The branches of the tree are compiled      *)
(* already, or lie below a call that is still to be made; and a module     *)
(* that is built serves what its tree, all of it sealed, declares.         *)
(***************************************************************************)
Compiled(b) == DeclaredAt(b) \subseteq mux /\ b[Len(b)] \in sealed

Pending(b) == \E k \in 1 .. Len(b), i \in DOMAIN work : work[i] = CallOf(Cut(b, k))

CompileInv ==
  root # None =>
    /\ \A i \in DOMAIN work : \E b \in Branches(root) : work[i] = CallOf(b)
    /\ mux \subseteq Declared(root)
    /\ \A b \in Branches(root) : Compiled(b) \/ Pending(b)

Built(m) ==
  /\ m.root \in Groups
  /\ m.mux = Declared(m.root)
  /\ m.miss = miss[m.root]
  /\ \A b \in Branches(m.root) : b[Len(b)] \in sealed

BuiltInv == \A m \in DOMAIN modules : modules[m].root # None => Built(modules[m])

TreeInv ==
  /\ GroupsType /\ KidsType /\ sealed \subseteq Groups
  /\ work \in Seq(CallType)
  /\ root \in Groups \cup {None}
  /\ root = None => work = <<>> /\ mux = {}

ServedInv == TreeInv /\ CompileInv /\ BuiltInv

\* What a sealed tree declares does not change under calls on other groups.
LEMMA SealedTreeKept ==
  ASSUME KidsType, NEW g \in Groups, \A b \in Branches(g) : b[Len(b)] \in sealed,
         KidsType',
         \A h \in sealed : /\ mw'[h] = mw[h] /\ routes'[h] = routes[h]
                           /\ kids'[h] = kids[h] /\ miss'[h] = miss[h]
  PROVE  /\ Branches(g)' = Branches(g)
         /\ Declared(g)' = Declared(g)
         /\ miss'[g] = miss[g]
<1>1. ASSUME NEW b \in Branches(g), NEW k \in 1 .. Len(b) PROVE b[k] \in sealed
  <2>1. Cut(b, k) \in Branches(g) /\ Len(Cut(b, k)) = k /\ Cut(b, k)[k] = b[k]
    BY <1>1, BranchCut
  <2> QED BY <2>1
<1>2. ASSUME NEW b \in Branches(g) PROVE b \in Branches(g)'
  <2>1. /\ Len(b) \in Nat \ {0} /\ b \in [1 .. Len(b) -> Groups] /\ b[1] = g /\ Linked(b)
    BY <1>2, BranchIs
  <2>2. \A i \in 1 .. Len(b) - 1 : \E k \in DOMAIN kids'[b[i]] : kids'[b[i]][k] = b[i + 1]
    <3>1. ASSUME NEW i \in 1 .. Len(b) - 1
          PROVE  \E k \in DOMAIN kids'[b[i]] : kids'[b[i]][k] = b[i + 1]
      <4>1. i \in 1 .. Len(b)
        BY <2>1
      <4>2. kids'[b[i]] = kids[b[i]]
        BY <1>1, <1>2, <4>1
      <4> QED BY <2>1, <4>2 DEF Linked
    <3> QED BY <3>1
  <2>3. b \in UNION {[1 .. n -> Groups] : n \in UNION {1 .. Depth[h] : h \in Groups}}
    BY <1>2 DEF Branches
  <2> QED BY <2>1, <2>2, <2>3 DEF Branches
<1>3. ASSUME NEW b \in Branches(g)' PROVE b \in Branches(g)
  <2>1. b \in UNION {[1 .. n -> Groups] : n \in UNION {1 .. Depth[h] : h \in Groups}}
    BY <1>3 DEF Branches
  <2>2. PICK n \in UNION {1 .. Depth[h] : h \in Groups} : b \in [1 .. n -> Groups]
    BY <2>1
  <2>3. PICK d \in Groups : n \in 1 .. Depth[d]
    BY <2>2
  <2>4. n \in Nat \ {0} /\ Len(b) = n /\ n <= Depth[d]
    BY <2>2, <2>3, RoutingAssumption
  <2>5. b[1] = g /\ \A i \in 1 .. n - 1 : \E k \in DOMAIN kids'[b[i]] : kids'[b[i]][k] = b[i + 1]
    BY <1>3, <2>4 DEF Branches
  <2> DEFINE Bad == {k \in 1 .. n : Cut(b, k) \notin Branches(g)}
  <2>6. Bad = {}
    <3> SUFFICES ASSUME Bad # {} PROVE FALSE
      OBVIOUS
    <3>1. PICK k \in Bad : \A j \in Bad : k <= j
      <4>1. Bad \in SUBSET Nat
        OBVIOUS
      <4> HIDE DEF Bad
      <4> QED BY <4>1, LeastExists
    <3>2. k \in 1 .. n /\ Cut(b, k) \notin Branches(g)
      BY <3>1
    <3>3. k # 1
      <4>1. Cut(b, 1) = [i \in 1 .. 1 |-> g]
        BY <2>2, <2>4, <2>5 DEF Cut
      <4>2. [i \in 1 .. 1 |-> g] \in Branches(g)
        BY RootBranch
      <4> QED BY <3>2, <4>1, <4>2
    <3>4. k - 1 \in 1 .. n /\ k - 1 \in 1 .. n - 1 /\ k - 1 \notin Bad /\ (k - 1) + 1 = k
      BY <2>4, <3>1, <3>2, <3>3
    <3> DEFINE a == Cut(b, k - 1)
    <3>5. a \in Branches(g)
      BY <3>4
    <3>6. Len(a) = k - 1 /\ a[k - 1] = b[k - 1]
      BY <2>2, <3>4 DEF Cut
    <3>7. b[k - 1] \in sealed
      BY <3>5, <3>6
    <3>8. PICK i \in DOMAIN kids[b[k - 1]] : kids[b[k - 1]][i] = b[k]
      BY <2>5, <3>4, <3>7
    <3>9. Longer(a, b[k]) \in Branches(g)
      <4> HIDE DEF a
      <4>1. i \in DOMAIN kids[a[Len(a)]] /\ kids[a[Len(a)]][i] = b[k]
        BY <3>6, <3>8
      <4> QED BY <3>5, <4>1, BranchLonger, Zenon
    <3>10. Longer(a, b[k]) = Cut(b, k)
      BY <2>2, <3>4, <3>6 DEF Longer, Cut
    <3> QED BY <3>2, <3>9, <3>10
  <2>7. Cut(b, n) \in Branches(g)
    <3>1. n \in 1 .. n
      BY <2>4
    <3> QED BY <2>6, <3>1
  <2>8. Cut(b, n) = b
    BY <2>2, <2>4 DEF Cut
  <2> QED BY <2>7, <2>8
<1>4. Branches(g)' = Branches(g)
  BY <1>2, <1>3
<1>5. ASSUME NEW b \in Branches(g) PROVE DeclaredAt(b)' = DeclaredAt(b)
  <2>1. Len(b) \in Nat \ {0} /\ b \in [1 .. Len(b) -> Groups]
    BY <1>5, BranchIs
  <2>2. [i \in DOMAIN b |-> mw'[b[i]]] = [i \in DOMAIN b |-> mw[b[i]]]
    BY <1>1, <1>5, <2>1
  <2>3. routes'[b[Len(b)]] = routes[b[Len(b)]]
    BY <1>5
  <2> DEFINE At1(o, rs) ==
        { [ method |-> rt.method, path |-> Along(Prefix, b) \o rt.pattern,
            through |-> Append(SelectSeq(o \o rt.mw, Present), rt.handler) ]
          : rt \in {rs[i] : i \in DOMAIN rs} }
  <2>4. /\ DeclaredAt(b) = At1(Along(mw, b), routes[b[Len(b)]])
        /\ DeclaredAt(b)' = At1(Along(mw', b), routes'[b[Len(b)]])
    BY Zenon DEF DeclaredAt, Along
  <2>5. Along(mw', b) = Along(mw, b)
    BY <2>2, Zenon DEF Along
  <2> HIDE DEF At1
  <2> QED BY <2>3, <2>4, <2>5, Zenon
<1>6. Declared(g)' = Declared(g)
  BY <1>4, <1>5, Zenon DEF Declared
<1>7. miss'[g] = miss[g]
  <2> DEFINE r == [i \in 1 .. 1 |-> g]
  <2>1. r \in Branches(g)
    BY RootBranch
  <2>2. r[Len(r)] = g
    OBVIOUS
  <2> QED BY <2>1, <2>2
<1> QED BY <1>4, <1>6, <1>7

\* A call on a group that is not sealed leaves every sealed tree as it is.
LEMMA DeclaringKeeps ==
  ASSUME ServedInv, root = None, NEW g \in Groups \ sealed,
         UNCHANGED <<sealed, work, root, mux, modules>>,
         GroupsType', KidsType',
         \A h \in Groups \ {g} : /\ mw'[h] = mw[h] /\ routes'[h] = routes[h]
                                 /\ kids'[h] = kids[h] /\ miss'[h] = miss[h]
  PROVE  ServedInv'
<1>1. sealed \subseteq Groups /\ g \notin sealed /\ KidsType
  BY DEF ServedInv, TreeInv
<1>2. \A h \in sealed : /\ mw'[h] = mw[h] /\ routes'[h] = routes[h]
                        /\ kids'[h] = kids[h] /\ miss'[h] = miss[h]
  BY <1>1
<1>3. ASSUME NEW m \in DOMAIN modules, modules[m].root # None
      PROVE  Built(modules[m])'
  <2>1. Built(modules[m])
    BY <1>3 DEF ServedInv, BuiltInv
  <2>2. PICK r \in Groups : r = modules[m].root
    BY <2>1 DEF Built
  <2>3. /\ modules[m].mux = Declared(r)
        /\ modules[m].miss = miss[r]
        /\ \A b \in Branches(r) : b[Len(b)] \in sealed
    BY <2>1, <2>2 DEF Built
  <2>4. Branches(r)' = Branches(r) /\ Declared(r)' = Declared(r) /\ miss'[r] = miss[r]
    BY <1>1, <1>2, <2>3, SealedTreeKept
  <2>5. modules'[m] = modules[m] /\ modules'[m].root = r
    BY <2>2
  <2>6. /\ modules'[m].mux = Declared(r)'
        /\ modules'[m].miss = miss'[r]
        /\ \A b \in Branches(r)' : b[Len(b)] \in sealed'
    BY <2>3, <2>4, <2>5
  <2> QED BY <2>2, <2>5, <2>6, Zenon DEF Built
<1>4. BuiltInv'
  BY <1>3 DEF BuiltInv
<1>5. TreeInv'
  BY DEF ServedInv, TreeInv
<1> QED BY <1>4, <1>5 DEF ServedInv, CompileInv

\* A step that leaves the groups and their compiling alone keeps it too, as
\* long as what is built is.
LEMMA ElsewhereKeeps ==
  ASSUME ServedInv, UNCHANGED <<groupVars, sealed, work, root, mux>>, BuiltInv'
  PROVE  ServedInv'
<1>1. UNCHANGED <<mw, routes, kids, errors, miss, sealed, work, root, mux>>
  BY DEF groupVars
<1>2. TreeInv'
  BY <1>1 DEF ServedInv, TreeInv, GroupsType, KidsType
<1>3. CompileInv'
  <2>1. \A b : (CallOf(b)' = CallOf(b)) /\ (DeclaredAt(b)' = DeclaredAt(b))
    BY <1>1 DEF CallOf, DeclaredAt
  <2>2. root' = root /\ (Branches(root)' = Branches(root)) /\ (Declared(root)' = Declared(root))
    BY <1>1 DEF Branches, Declared, DeclaredAt
  <2> QED BY <1>1, <2>1, <2>2 DEF ServedInv, CompileInv, Compiled, Pending
<1> QED BY <1>2, <1>3 DEF ServedInv

\* What is built stays so while nothing but more seals comes.
LEMMA BuiltKept ==
  ASSUME BuiltInv, UNCHANGED <<groupVars, modules>>, sealed \subseteq sealed'
  PROVE  BuiltInv'
<1>1. UNCHANGED <<mw, routes, kids, errors, miss>>
  BY DEF groupVars
<1>2. ASSUME NEW m, Built(m) PROVE Built(m)'
  <2>1. Branches(m.root)' = Branches(m.root) /\ Declared(m.root)' = Declared(m.root)
    BY <1>1 DEF Declared, DeclaredAt, Branches
  <2> QED BY <1>1, <1>2, <2>1 DEF Built
<1> QED BY <1>2 DEF BuiltInv

\* Declaring calls, one at a time.
LEMMA GroupCallStep ==
  ASSUME ServedInv, NEW g \in Groups,
         \/ \E m \in Middlewares \cup {None} : Use(g, m)
         \/ \E method \in Methods \cup {Every}, pattern \in Patterns, m \in RouteMw :
              Handle(g, method, pattern, m) \/ HandleErr(g, method, pattern, m)
         \/ \E ew \in Writers \cup {None} : SetErrorWriter(g, ew)
         \/ \E kind \in {"notFound", "methodNotAllowed"}, set \in BOOLEAN : SetMiss(g, kind, set)
         \/ \E child \in Groups : Mount(g, child)
  PROVE  ServedInv'
<1>1. /\ mw \in [Groups -> Seq(Middlewares \cup {None})]
      /\ routes \in [Groups -> Seq(RouteType)]
      /\ errors \in [Groups -> Writers \cup {None}]
      /\ miss \in [Groups -> SUBSET {"notFound", "methodNotAllowed"}]
      /\ kids \in [Groups -> Seq(Groups)]
      /\ \A h \in Groups : \A i \in DOMAIN kids[h] : Depth[h] < Depth[kids[h][i]]
  BY DEF ServedInv, TreeInv, GroupsType, KidsType
<1>2. ASSUME CallOn(g) PROVE /\ root = None /\ g \in Groups \ sealed
                             /\ UNCHANGED <<sealed, work, root, mux, modules>>
  BY <1>2 DEF CallOn, Call
<1>3. ASSUME NEW m \in Middlewares \cup {None}, Use(g, m) PROVE ServedInv'
  <2>1. /\ CallOn(g) /\ mw' = [mw EXCEPT ![g] = Append(mw[g], m)]
        /\ UNCHANGED <<routes, kids, errors, miss>>
    BY <1>3 DEF Use
  <2>2. Append(mw[g], m) \in Seq(Middlewares \cup {None})
    BY <1>1
  <2>3. GroupsType'
    BY <1>1, <2>1, <2>2 DEF GroupsType
  <2>4. KidsType'
    BY <1>1, <2>1 DEF KidsType
  <2> QED BY <1>1, <1>2, <2>1, <2>3, <2>4, DeclaringKeeps
<1>4. ASSUME NEW method \in Methods \cup {Every}, NEW pattern \in Patterns, NEW m \in RouteMw,
             NEW h \in Writers \cup {"plain"}, AddRoute(g, method, pattern, h, m)
      PROVE  ServedInv'
  <2> DEFINE rt == [method |-> method, pattern |-> pattern, handler |-> h, mw |-> m]
  <2>1. rt \in RouteType
    BY <1>4 DEF RouteType
  <2>2. /\ CallOn(g) /\ routes' = [routes EXCEPT ![g] = Append(routes[g], rt)]
        /\ UNCHANGED <<mw, kids, errors, miss>>
    BY <1>4 DEF AddRoute
  <2> HIDE DEF rt
  <2>3. Append(routes[g], rt) \in Seq(RouteType)
    BY <1>1, <2>1
  <2>4. GroupsType'
    BY <1>1, <2>2, <2>3 DEF GroupsType
  <2>5. KidsType'
    BY <1>1, <2>2 DEF KidsType
  <2> QED BY <1>1, <1>2, <2>2, <2>4, <2>5, DeclaringKeeps
<1>5. ASSUME NEW method \in Methods \cup {Every}, NEW pattern \in Patterns, NEW m \in RouteMw,
             Handle(g, method, pattern, m) \/ HandleErr(g, method, pattern, m)
      PROVE  ServedInv'
  <2>1. CASE Handle(g, method, pattern, m)
    BY <1>4, <2>1 DEF Handle
  <2>2. CASE HandleErr(g, method, pattern, m)
    <3>1. errors[g] \in Writers
      BY <1>1, <2>2 DEF HandleErr
    <3> QED BY <1>4, <2>2, <3>1 DEF HandleErr
  <2> QED BY <1>5, <2>1, <2>2
<1>6. ASSUME NEW ew \in Writers \cup {None}, SetErrorWriter(g, ew) PROVE ServedInv'
  <2>1. CallOn(g) /\ errors' = [errors EXCEPT ![g] = ew] /\ UNCHANGED <<mw, routes, kids, miss>>
    BY <1>6 DEF SetErrorWriter
  <2>2. GroupsType' /\ KidsType'
    BY <1>1, <2>1 DEF GroupsType, KidsType
  <2> QED BY <1>1, <1>2, <2>1, <2>2, DeclaringKeeps
<1>7. ASSUME NEW kind \in {"notFound", "methodNotAllowed"}, NEW set \in BOOLEAN,
             SetMiss(g, kind, set)
      PROVE  ServedInv'
  <2> DEFINE new == IF set THEN miss[g] \cup {kind} ELSE miss[g] \ {kind}
  <2>1. CallOn(g) /\ miss' = [miss EXCEPT ![g] = new] /\ UNCHANGED <<mw, routes, kids, errors>>
    BY <1>7 DEF SetMiss
  <2>2. new \in SUBSET {"notFound", "methodNotAllowed"}
    BY <1>1
  <2> HIDE DEF new
  <2>3. GroupsType' /\ KidsType'
    BY <1>1, <2>1, <2>2 DEF GroupsType, KidsType
  <2> QED BY <1>1, <1>2, <2>1, <2>3, DeclaringKeeps
<1>8. ASSUME NEW child \in Groups, Mount(g, child) PROVE ServedInv'
  <2>1. /\ CallOn(g) /\ Depth[g] < Depth[child]
        /\ kids' = [kids EXCEPT ![g] = Append(kids[g], child)]
        /\ UNCHANGED <<mw, routes, errors, miss>>
    BY <1>8 DEF Mount
  <2>2. /\ Append(kids[g], child) \in Seq(Groups)
        /\ \A i \in DOMAIN Append(kids[g], child) :
             \/ i \in DOMAIN kids[g] /\ Append(kids[g], child)[i] = kids[g][i]
             \/ Append(kids[g], child)[i] = child
    <3>1. kids[g] \in Seq(Groups)
      BY <1>1
    <3> QED BY <3>1
  <2>3. \A i \in DOMAIN kids'[g] : Depth[g] < Depth[kids'[g][i]]
    BY <1>1, <2>1, <2>2
  <2>4. GroupsType'
    BY <1>1, <2>1 DEF GroupsType
  <2>5. KidsType'
    BY <1>1, <2>1, <2>2, <2>3 DEF KidsType
  <2> QED BY <1>1, <1>2, <2>1, <2>4, <2>5, DeclaringKeeps
<1> QED BY <1>3, <1>5, <1>6, <1>7, <1>8

\* NewModule has every branch of the tree still to compile.
LEMMA NewModuleStep ==
  ASSUME ServedInv, NEW g \in Groups, NewModule(g)
  PROVE  ServedInv'
<1> DEFINE r == [i \in 1 .. 1 |-> g]
           c == [group |-> g, parent |-> <<>>, outer |-> <<>>]
<1>1. /\ root' = g /\ mux' = {} /\ work' = <<c>>
      /\ UNCHANGED <<groupVars, sealed, modules>>
  BY DEF NewModule
<1>2. UNCHANGED <<mw, routes, kids, errors, miss>>
  BY <1>1 DEF groupVars
<1>3. c \in CallType /\ <<c>> \in Seq(CallType)
  BY DEF CallType
<1>4. TreeInv'
  <2>1. g # None
    BY RoutingAssumption
  <2> HIDE DEF c
  <2>2. work' \in Seq(CallType)
    BY <1>1, <1>3
  <2> QED BY <1>1, <1>2, <2>1, <2>2 DEF ServedInv, TreeInv, GroupsType, KidsType
<1>5. CallOf(r) = c
  <2>1. r[Len(r)] = g /\ Len(r) - 1 = 0
    OBVIOUS
  <2>2. ASSUME NEW F PROVE Along(F, Cut(r, Len(r) - 1)) = <<>>
    <3> DEFINE t == [i \in DOMAIN Cut(r, 0) |-> F[Cut(r, 0)[i]]]
    <3>1. t = <<>>
      BY DEF Cut
    <3>2. Along(F, Cut(r, 0)) = FlattenSeq(t)
      BY Zenon DEF Along
    <3> HIDE DEF t
    <3>3. FlattenSeq(t) = <<>>
      BY <3>1 DEF FlattenSeq
    <3> QED BY <2>1, <3>2, <3>3, Zenon
  <2> HIDE DEF r
  <2> QED BY <2>1, <2>2, Zenon DEF CallOf
<1>6. (Branches(g)' = Branches(g)) /\ (CallOf(r)' = CallOf(r)) /\ r \in Branches(g)
      /\ \A b \in Branches(g) : 1 \in 1 .. Len(b) /\ Cut(b, 1) = r
  <2>1. \A b \in Branches(g) : 1 \in 1 .. Len(b)
    BY BranchIs
  <2>2. Branches(g)' = Branches(g)
    BY <1>2 DEF Branches
  <2>3. CallOf(r)' = CallOf(r)
    BY <1>2 DEF CallOf
  <2> QED BY <2>1, <2>2, <2>3, RootBranch
<1> HIDE DEF r, c
<1>7. DOMAIN work' = {1} /\ work'[1] = c
  BY <1>1
<1>8. r' = r
  BY DEF r
<1>9. \A b \in Branches(g) : Pending(b)'
  BY <1>5, <1>6, <1>7, <1>8 DEF Pending, Cut
<1>10. CompileInv'
  BY <1>1, <1>5, <1>6, <1>7, <1>8, <1>9 DEF CompileInv
<1> QED BY <1>1, <1>4, <1>10, BuiltKept DEF ServedInv

\* compile declares the end of one branch and has those that are one group
\* longer still to make.
LEMMA CompileStep ==
  ASSUME ServedInv, compile
  PROVE  ServedInv'
<1>1. PICK r \in Groups : r = root
  <2>1. work # <<>>
    BY Zenon DEF compile
  <2> QED BY <2>1 DEF ServedInv, TreeInv
<1>2. /\ GroupsType /\ KidsType /\ sealed \subseteq Groups
      /\ work \in Seq(CallType) /\ work # <<>> /\ r # None
  BY <1>1, RoutingAssumption, Zenon DEF ServedInv, TreeInv, compile
<1>3. /\ \A i \in DOMAIN work : \E b \in Branches(r) : work[i] = CallOf(b)
      /\ mux \subseteq Declared(r)
      /\ \A b \in Branches(r) : Compiled(b) \/ Pending(b)
  BY <1>1, <1>2 DEF ServedInv, CompileInv
<1> DEFINE c == Head(work)
           g == c.group
           own == Registered(c)
           nest == [i \in DOMAIN kids[g] |->
                      [group |-> kids[g][i], parent |-> c.parent \o Prefix[g],
                       outer |-> c.outer \o mw[g]]]
<1>4. /\ sealed' = sealed \cup {g}
      /\ mux' = mux \cup {own[i] : i \in DOMAIN own}
      /\ work' = nest \o Tail(work)
      /\ UNCHANGED <<groupVars, root, modules>>
  BY Zenon DEF compile, Seals
<1>5. UNCHANGED <<mw, routes, kids, errors, miss>>
  BY <1>4, Zenon DEF groupVars
<1>6. 1 \in DOMAIN work /\ c = work[1] /\ Len(work) \in Nat \ {0} /\ DOMAIN work = 1 .. Len(work)
  BY <1>2
<1>7. PICK beta \in Branches(r) : c = CallOf(beta)
  BY <1>3, <1>6
<1>8. /\ Len(beta) \in Nat \ {0} /\ beta \in [1 .. Len(beta) -> Groups]
  BY BranchIs
<1>9. /\ g = beta[Len(beta)] /\ g \in Groups
      /\ c.parent \o Prefix[g] = Along(Prefix, beta)
      /\ c.outer \o mw[g] = Along(mw, beta)
  <2>1. c.group = beta[Len(beta)]
    BY <1>2, <1>7, CallIs, Zenon
  <2>2. beta[Len(beta)] \in Groups
    BY <1>8
  <2>3. /\ c.parent \o Prefix[beta[Len(beta)]] = Along(Prefix, beta)
        /\ c.outer \o mw[beta[Len(beta)]] = Along(mw, beta)
    BY <1>2, <1>7, CallIs, Zenon
  <2> HIDE DEF c
  <2> QED BY <2>1, <2>2, <2>3
<1>10. {own[i] : i \in DOMAIN own} = DeclaredAt(beta)
  BY <1>2, <1>7, RegistersDeclared, Zenon
<1>11. /\ kids[g] \in Seq(Groups) /\ Len(kids[g]) \in Nat /\ DOMAIN kids[g] = 1 .. Len(kids[g])
  BY <1>2, <1>9 DEF KidsType
<1>12. ASSUME NEW i \in DOMAIN kids[g]
       PROVE  \E b \in Branches(r) : nest[i] = CallOf(b)
  <2> DEFINE h == kids[g][i]
             b == Longer(beta, h)
  <2>1. /\ b \in Branches(r) /\ Len(b) = Len(beta) + 1
        /\ b[Len(beta) + 1] = h /\ Cut(b, Len(beta)) = beta
    BY <1>2, <1>9, BranchLonger
  <2>2. Len(b) - 1 = Len(beta)
    BY <1>8, <2>1
  <2> HIDE DEF h, b
  <2>3. CallOf(b) = [group |-> h, parent |-> Along(Prefix, beta), outer |-> Along(mw, beta)]
    BY <2>1, <2>2, Zenon DEF CallOf
  <2>4. nest[i] = [group |-> h, parent |-> c.parent \o Prefix[g], outer |-> c.outer \o mw[g]]
    BY DEF h
  <2> HIDE DEF nest, c, g
  <2> QED BY <1>9, <2>1, <2>3, <2>4
<1> HIDE DEF own
<1>13. nest \in Seq(CallType) /\ Len(nest) = Len(kids[g]) /\ DOMAIN nest = DOMAIN kids[g]
  <2>1. \A i \in DOMAIN kids[g] : nest[i] \in CallType
    BY <1>2, <1>12, CallIs, Zenon
  <2>2. nest = [i \in DOMAIN kids[g] |-> nest[i]]
    OBVIOUS
  <2>3. DOMAIN nest = DOMAIN kids[g]
    OBVIOUS
  <2> HIDE DEF nest, c, g
  <2>4. nest \in [1 .. Len(kids[g]) -> CallType]
    BY <1>11, <2>1, <2>2
  <2> QED BY <1>11, <2>3, <2>4
<1>14. ASSUME NEW j \in DOMAIN kids[g], NEW b \in Branches(r), NEW k \in 1 .. Len(b) - 1,
              c = CallOf(Cut(b, k)), kids[g][j] = b[k + 1]
       PROVE  nest[j] = CallOf(Cut(b, k + 1))
  <2>1. CallOf(Cut(b, k + 1)) = [group  |-> b[k + 1],
                                 parent |-> c.parent \o Prefix[g],
                                 outer  |-> c.outer \o mw[g]]
    BY <1>2, <1>14, CallBelow, Zenon
  <2>2. nest[j] = [group |-> kids[g][j], parent |-> c.parent \o Prefix[g],
                   outer |-> c.outer \o mw[g]]
    OBVIOUS
  <2> HIDE DEF nest, c, g
  <2> QED BY <1>14, <2>1, <2>2
<1> HIDE DEF nest, c, g
<1>15. /\ Tail(work) \in Seq(CallType) /\ Len(Tail(work)) = Len(work) - 1
       /\ \A i \in 1 .. Len(work) - 1 : Tail(work)[i] = work[i + 1]
  BY <1>2, <1>6
<1>16. /\ work' \in Seq(CallType)
       /\ Len(work') = Len(nest) + (Len(work) - 1)
       /\ \A i \in DOMAIN nest : i \in DOMAIN work' /\ work'[i] = nest[i]
       /\ \A i \in DOMAIN work \ {1} :
            /\ Len(nest) + i - 1 \in DOMAIN work'
            /\ work'[Len(nest) + i - 1] = work[i]
       /\ \A i \in DOMAIN work' :
            \/ i \in DOMAIN nest /\ work'[i] = nest[i]
            \/ i + 1 - Len(nest) \in DOMAIN work /\ work'[i] = work[i + 1 - Len(nest)]
  <2> DEFINE t == Tail(work)
  <2>1. /\ t \in Seq(CallType) /\ Len(t) = Len(work) - 1
        /\ \A i \in 1 .. Len(work) - 1 : t[i] = work[i + 1]
    BY <1>15
  <2>2. work' = nest \o t
    BY <1>4
  <2> HIDE DEF t, nest, c, g
  <2>3. /\ work' \in Seq(CallType) /\ Len(work') = Len(nest) + (Len(work) - 1)
        /\ DOMAIN work' = 1 .. Len(nest) + (Len(work) - 1) /\ Len(nest) \in Nat
        /\ DOMAIN nest = 1 .. Len(nest)
    <3>1. Len(nest) \in Nat /\ DOMAIN nest = 1 .. Len(nest) /\ nest \in Seq(CallType)
      BY <1>11, <1>13
    <3> QED BY <1>6, <2>1, <2>2, <3>1
  <2>4. \A i \in DOMAIN nest : i \in DOMAIN work' /\ work'[i] = nest[i]
    BY <1>6, <1>13, <2>1, <2>2, <2>3
  <2>5. \A i \in DOMAIN work' : i > Len(nest) => /\ i + 1 - Len(nest) \in DOMAIN work
                                                 /\ work'[i] = work[i + 1 - Len(nest)]
    <3>1. ASSUME NEW i \in DOMAIN work', i > Len(nest)
          PROVE  /\ i + 1 - Len(nest) \in DOMAIN work
                 /\ work'[i] = work[i + 1 - Len(nest)]
      <4>1. i - Len(nest) \in 1 .. Len(work) - 1 /\ (i - Len(nest)) + 1 = i + 1 - Len(nest)
        BY <1>6, <2>3, <3>1
      <4>2. work'[i] = t[i - Len(nest)]
        <5>1. i \in Len(nest) + 1 .. Len(nest) + Len(t)
          BY <2>1, <2>3, <3>1
        <5>2. nest \in Seq(CallType) /\ t \in Seq(CallType)
          BY <1>13, <2>1
        <5> QED BY <2>2, <5>1, <5>2
      <4>3. t[i - Len(nest)] = work[(i - Len(nest)) + 1]
        BY <2>1, <4>1
      <4>4. (i - Len(nest)) + 1 \in DOMAIN work
        BY <1>6, <4>1
      <4> QED BY <4>1, <4>2, <4>3, <4>4
    <3> QED BY <3>1
  <2>6. ASSUME NEW i \in DOMAIN work \ {1}
        PROVE  /\ Len(nest) + i - 1 \in DOMAIN work'
               /\ work'[Len(nest) + i - 1] = work[i]
    <3>1. /\ Len(nest) + i - 1 \in DOMAIN work' /\ Len(nest) + i - 1 > Len(nest)
          /\ (Len(nest) + i - 1) + 1 - Len(nest) = i
      <4>1. i \in 2 .. Len(work) /\ Len(work) \in Nat /\ Len(nest) \in Nat
        BY <1>6, <2>3
      <4> QED BY <2>3, <4>1
    <3> QED BY <2>5, <3>1
  <2>7. \A i \in DOMAIN work' : i \in DOMAIN nest \/ i > Len(nest)
    BY <2>3
  <2> QED BY <2>3, <2>4, <2>5, <2>6, <2>7
<1>17. /\ root' = r /\ (Branches(r)' = Branches(r)) /\ (Declared(r)' = Declared(r))
       /\ \A b : (CallOf(b)' = CallOf(b)) /\ (DeclaredAt(b)' = DeclaredAt(b))
  <2>1. (Branches(r)' = Branches(r)) /\ (Declared(r)' = Declared(r))
    BY <1>5 DEF Branches, Declared, DeclaredAt
  <2>2. \A b : (CallOf(b)' = CallOf(b)) /\ (DeclaredAt(b)' = DeclaredAt(b))
    BY <1>5 DEF CallOf, DeclaredAt
  <2> QED BY <1>1, <1>4, <2>1, <2>2
<1>18. \A i \in DOMAIN work' : \E b \in Branches(r) : work'[i] = CallOf(b)
  <2>1. ASSUME NEW i \in DOMAIN work', i \in DOMAIN nest
        PROVE  \E b \in Branches(r) : work'[i] = CallOf(b)
    <3>1. work'[i] = nest[i] /\ i \in DOMAIN kids[g]
      BY <1>13, <1>16, <2>1
    <3> QED BY <1>12, <3>1, Zenon
  <2>2. ASSUME NEW i \in DOMAIN work', i \notin DOMAIN nest
        PROVE  \E b \in Branches(r) : work'[i] = CallOf(b)
    <3>1. PICK j \in DOMAIN work : work'[i] = work[j]
      BY <1>16, <2>2
    <3> QED BY <1>3, <3>1, Zenon
  <2> QED BY <2>1, <2>2, Zenon
<1>19. mux' = mux \cup DeclaredAt(beta) /\ mux' \subseteq Declared(r)
  <2>1. DeclaredAt(beta) \subseteq Declared(r)
    BY <1>7 DEF Declared
  <2> QED BY <1>3, <1>4, <1>10, <2>1
<1>20. ASSUME NEW b \in Branches(r) PROVE Compiled(b)' \/ Pending(b)'
  <2>1. CASE Compiled(b)
    <3>1. DeclaredAt(b)' \subseteq mux' /\ b[Len(b)] \in sealed'
      BY <1>4, <1>17, <1>19, <2>1 DEF Compiled
    <3> QED BY <3>1 DEF Compiled
  <2>2. CASE Pending(b)
    <3>1. PICK k \in 1 .. Len(b), i \in DOMAIN work : work[i] = CallOf(Cut(b, k))
      BY <2>2 DEF Pending
    <3>2. CASE i # 1
      <4>1. Len(nest) + i - 1 \in DOMAIN work' /\ work'[Len(nest) + i - 1] = CallOf(Cut(b, k))'
        BY <1>16, <1>17, <3>1, <3>2
      <4> QED BY <4>1 DEF Pending, Cut
    <3>3. CASE i = 1 /\ k = Len(b)
      <4>1. Len(b) \in Nat \ {0} /\ b \in [1 .. Len(b) -> Groups]
        BY BranchIs
      <4>2. Cut(b, k) = b
        BY <3>3, <4>1 DEF Cut
      <4>3. c = CallOf(b)
        BY <1>6, <3>1, <3>3, <4>2
      <4>4. {own[x] : x \in DOMAIN own} = DeclaredAt(b)
        BY <1>2, <4>3, RegistersDeclared, Zenon DEF own
      <4>5. c.group = b[Len(b)]
        BY <1>2, <4>3, CallIs
      <4>6. DeclaredAt(b)' \subseteq mux' /\ b[Len(b)] \in sealed'
        BY <1>4, <1>17, <4>4, <4>5 DEF g
      <4> QED BY <4>6 DEF Compiled
    <3>4. CASE i = 1 /\ k # Len(b)
      <4>1. Len(b) \in Nat \ {0} /\ b \in [1 .. Len(b) -> Groups] /\ Linked(b)
        BY BranchIs
      <4>2. k \in 1 .. Len(b) - 1 /\ k + 1 \in 1 .. Len(b)
        <5> DEFINE n == Len(b)
        <5>1. n \in Nat \ {0} /\ k \in 1 .. n /\ k # n
          BY <3>1, <3>4, <4>1, Zenon
        <5> HIDE DEF n
        <5>2. k \in 1 .. n - 1 /\ k + 1 \in 1 .. n
          BY <5>1
        <5> QED BY <5>2 DEF n
      <4>3. c = CallOf(Cut(b, k))
        BY <1>6, <3>1, <3>4
      <4>4. g = b[k]
        <5>1. Cut(b, k) \in Branches(r) /\ Len(Cut(b, k)) = k /\ Cut(b, k)[k] = b[k]
          BY <1>2, BranchCut
        <5>2. CallOf(Cut(b, k)).group = Cut(b, k)[Len(Cut(b, k))]
          BY <1>2, <5>1, CallIs
        <5> QED BY <4>3, <5>1, <5>2 DEF g
      <4>5. PICK j \in DOMAIN kids[g] : kids[g][j] = b[k + 1]
        BY <4>1, <4>2, <4>4 DEF Linked
      <4>6. nest[j] = CallOf(Cut(b, k + 1))
        BY <1>14, <4>2, <4>3, <4>5
      <4>7. j \in DOMAIN work' /\ work'[j] = CallOf(Cut(b, k + 1))'
        BY <1>13, <1>16, <1>17, <4>5, <4>6
      <4> QED BY <4>2, <4>7 DEF Pending, Cut
    <3> QED BY <3>2, <3>3, <3>4
  <2> QED BY <1>3, <2>1, <2>2
<1>21. CompileInv'
  <2>1. \A i \in DOMAIN work' : \E b \in Branches(r)' : work'[i] = CallOf(b)'
    BY <1>17, <1>18
  <2>2. mux' \subseteq Declared(r)'
    BY <1>17, <1>19
  <2>3. \A b \in Branches(r)' : Compiled(b)' \/ Pending(b)'
    BY <1>17, <1>20
  <2> QED BY <1>17, <2>1, <2>2, <2>3, Zenon DEF CompileInv
<1>22. TreeInv'
  <2>1. sealed' \subseteq Groups
    BY <1>2, <1>4, <1>9
  <2>2. GroupsType' /\ KidsType'
    BY <1>2, <1>5 DEF GroupsType, KidsType
  <2> QED BY <1>2, <1>16, <1>17, <2>1, <2>2 DEF TreeInv
<1>23. BuiltInv'
  BY <1>4, BuiltKept DEF ServedInv
<1> QED BY <1>21, <1>22, <1>23 DEF ServedInv

\* A panic leaves the tree sealed as far as it came, and nothing built.
LEMMA PanicStep ==
  ASSUME ServedInv, compilePanics
  PROVE  ServedInv'
<1>1. /\ work # <<>> /\ sealed' = sealed \cup {Head(work).group}
      /\ work' = <<>> /\ root' = None /\ mux' = {}
      /\ UNCHANGED <<groupVars, modules>>
  BY DEF compilePanics, Seals
<1>2. UNCHANGED <<mw, routes, kids, errors, miss>>
  BY <1>1 DEF groupVars
<1>3. Head(work).group \in Groups
  <2>1. Head(work) \in CallType
    BY <1>1 DEF ServedInv, TreeInv
  <2> QED BY <2>1 DEF CallType
<1>4. sealed' \subseteq Groups
  BY <1>1, <1>3 DEF ServedInv, TreeInv
<1>5. TreeInv'
  BY <1>1, <1>2, <1>4 DEF ServedInv, TreeInv, GroupsType, KidsType
<1>6. BuiltInv'
  BY <1>1, BuiltKept DEF ServedInv
<1>7. CompileInv'
  BY <1>1 DEF CompileInv
<1> QED BY <1>5, <1>6, <1>7 DEF ServedInv

\* One module more, which serves what it should, leaves the others as they were.
LEMMA BuiltAppended ==
  ASSUME IInv, BuiltInv, UNCHANGED <<groupVars, sealed>>,
         NEW e, modules' = Append(modules, e), e.root # None => Built(e)
  PROVE  BuiltInv'
<1> DEFINE S == {modules[m] : m \in DOMAIN modules} \cup {e}
<1>1. modules \in Seq(S) /\ DOMAIN modules = 1 .. Len(modules) /\ Len(modules) \in Nat
  BY DEF IInv, Indexed
<1>2. \A m \in DOMAIN modules' :
        \/ m \in DOMAIN modules /\ modules'[m] = modules[m]
        \/ modules'[m] = e
  BY <1>1
<1>3. UNCHANGED <<mw, routes, kids, errors, miss>>
  BY DEF groupVars
<1>4. ASSUME NEW m, Built(m) PROVE Built(m)'
  <2>1. Branches(m.root)' = Branches(m.root) /\ Declared(m.root)' = Declared(m.root)
    BY <1>3 DEF Declared, DeclaredAt, Branches
  <2> QED BY <1>3, <1>4, <2>1 DEF Built
<1>5. ASSUME NEW m \in DOMAIN modules', modules'[m].root # None PROVE Built(modules[m])'
  <2>1. PICK x : x = modules'[m]
    OBVIOUS
  <2>2. Built(x)
    BY <1>2, <1>5, <2>1 DEF BuiltInv
  <2>3. Built(x)'
    BY <1>4, <2>2
  <2> QED BY <2>1, <2>3, Zenon DEF Built
<1> QED BY <1>5 DEF BuiltInv

\* When no call is left, the module's mux is all its tree declares.
LEMMA NewModuleReturnsStep ==
  ASSUME IInv, ServedInv, NewModuleReturns
  PROVE  ServedInv'
<1>1. PICK r \in Groups : r = root
  BY DEF NewModuleReturns, ServedInv, TreeInv
<1> DEFINE e == [prefix |-> Prefix[r], root |-> r, mux |-> mux, miss |-> miss[r]]
<1>2. /\ work = <<>> /\ modules' = Append(modules, e) /\ root' = None /\ mux' = {}
      /\ UNCHANGED <<groupVars, sealed, work>>
  BY <1>1 DEF NewModuleReturns
<1>3. UNCHANGED <<mw, routes, kids, errors, miss>>
  BY <1>2 DEF groupVars
<1>4. \A b \in Branches(r) : Compiled(b)
  BY <1>1, <1>2, RoutingAssumption DEF ServedInv, CompileInv, Pending
<1>5. mux = Declared(r)
  <2>1. mux \subseteq Declared(r)
    BY <1>1, RoutingAssumption DEF ServedInv, CompileInv
  <2>2. Declared(r) \subseteq mux
    BY <1>4 DEF Compiled, Declared
  <2> QED BY <2>1, <2>2
<1>6. e.root = r /\ e.mux = mux /\ e.miss = miss[r]
  OBVIOUS
<1>7. Built(e)
  <2> HIDE DEF e
  <2> QED BY <1>4, <1>5, <1>6 DEF Built, Compiled
<1>8. BuiltInv'
  <2> HIDE DEF e
  <2> QED BY <1>2, <1>7, BuiltAppended DEF ServedInv
<1>9. TreeInv'
  BY <1>2, <1>3 DEF ServedInv, TreeInv, GroupsType, KidsType
<1>10. CompileInv'
  BY <1>2 DEF CompileInv
<1> QED BY <1>8, <1>9, <1>10 DEF ServedInv

\* A raw handler is a module of no group.
LEMMA NewHandlerModuleStep ==
  ASSUME IInv, ServedInv, NEW prefix, NEW m, NewHandlerModule(prefix, m)
  PROVE  ServedInv'
<1> DEFINE e == [prefix |-> prefix, root |-> None, mux |-> Chain("raw", m), miss |-> {}]
<1>1. modules' = Append(modules, e) /\ UNCHANGED <<groupVars, sealed, work, root, mux>>
  BY DEF NewHandlerModule
<1>2. e.root = None
  OBVIOUS
<1> HIDE DEF e
<1>3. BuiltInv'
  BY <1>1, <1>2, BuiltAppended DEF ServedInv
<1> QED BY <1>1, <1>3, ElsewhereKeeps

\* A step of the router's own.
LEMMA RouterStep ==
  ASSUME ServedInv, UNCHANGED <<groupVars, sealed, work, root, mux, modules>>
  PROVE  ServedInv'
BY BuiltKept, ElsewhereKeeps DEF ServedInv

\* Nothing is declared at first.
LEMMA InitServedInv == Init => ServedInv
<1> SUFFICES ASSUME Init PROVE ServedInv
  OBVIOUS
<1>1. /\ mw = [g \in Groups |-> <<>>] /\ routes = [g \in Groups |-> <<>>]
      /\ kids = [g \in Groups |-> <<>>] /\ errors = [g \in Groups |-> None]
      /\ miss = [g \in Groups |-> {}] /\ sealed = {} /\ work = <<>> /\ root = None
      /\ mux = {} /\ modules = <<>>
  BY DEF Init
<1>2. GroupsType /\ KidsType
  BY <1>1 DEF GroupsType, KidsType
<1>3. work \in Seq(CallType)
  BY <1>1
<1> QED BY <1>1, <1>2, <1>3 DEF ServedInv, TreeInv, CompileInv, BuiltInv

\* Every step keeps the invariant of compiling.
LEMMA NextServedInv == IInv /\ ServedInv /\ [Next]_vars => ServedInv'
<1> SUFFICES ASSUME IInv, ServedInv, [Next]_vars PROVE ServedInv'
  OBVIOUS
<1>1. ASSUME NEW g \in Groups,
             \/ \E m \in Middlewares \cup {None} : Use(g, m)
             \/ \E method \in Methods \cup {Every}, pattern \in Patterns, m \in RouteMw :
                  Handle(g, method, pattern, m) \/ HandleErr(g, method, pattern, m)
             \/ \E ew \in Writers \cup {None} : SetErrorWriter(g, ew)
             \/ \E kind \in {"notFound", "methodNotAllowed"}, set \in BOOLEAN :
                  SetMiss(g, kind, set)
             \/ \E child \in Groups : Mount(g, child)
             \/ NewModule(g)
      PROVE  ServedInv'
  <2>1. CASE NewModule(g)
    BY <2>1, NewModuleStep
  <2>2. CASE ~NewModule(g)
    BY <1>1, <2>2, GroupCallStep
  <2> QED BY <2>1, <2>2
<1>2. CASE compile
  BY <1>2, CompileStep
<1>3. CASE compilePanics
  BY <1>3, PanicStep
<1>4. CASE NewModuleReturns
  BY <1>4, NewModuleReturnsStep
<1>5. ASSUME NEW prefix \in RawPrefixes, NEW m \in RouteMw, NewHandlerModule(prefix, m)
      PROVE  ServedInv'
  BY <1>5, NewHandlerModuleStep
<1>6. ASSUME NEW m \in DOMAIN modules, RouterMount(m) PROVE ServedInv'
  BY <1>6, RouterStep DEF RouterMount
<1>7. ASSUME NEW m, RouterUse(m) PROVE ServedInv'
  BY <1>7, RouterStep DEF RouterUse, Call
<1>8. ASSUME NEW method, NEW path, RouterHandle(method, path) PROVE ServedInv'
  BY <1>8, RouterStep DEF RouterHandle, Call
<1>9. ASSUME NEW kind, NEW set, SetNativeMiss(kind, set) PROVE ServedInv'
  BY <1>9, RouterStep DEF SetNativeMiss, Call
<1>10. CASE UNCHANGED vars
  BY <1>10, RouterStep DEF vars
<1> QED
  BY <1>1, <1>2, <1>3, <1>4, <1>5, <1>6, <1>7, <1>8, <1>9, <1>10 DEF Next

-----------------------------------------------------------------------------
(***************************************************************************)
(* The bounds, and what is left of the router's own state.  A module is    *)
(* begun only when there is room for it.                                   *)
(***************************************************************************)
RestInv ==
  /\ Len(modules) <= MaxModules
  /\ root # None => Len(modules) < MaxModules
  /\ nativeMiss \subseteq {"notFound", "methodNotAllowed"}
  /\ handler = Chain("dispatch", routerMw)
  /\ calls \in 0 .. MaxCalls

\* A declaration within the bound, of the group kind or the router's.
LEMMA CallKeepsRest ==
  ASSUME RestInv, Call, UNCHANGED nativeMiss,
         handler' = Chain("dispatch", routerMw')
  PROVE  RestInv'
BY RoutingAssumption DEF RestInv, Call

\* Every step keeps the bounds.
LEMMA NextRestInv == IInv /\ RestInv /\ [Next]_vars => RestInv'
<1> SUFFICES ASSUME IInv, RestInv, [Next]_vars PROVE RestInv'
  OBVIOUS
<1>0. modules \in Seq({modules[m] : m \in DOMAIN modules}) /\ Len(modules) \in Nat
  BY DEF IInv, Indexed
<1>1. ASSUME NEW g, CallOn(g) PROVE RestInv'
  <2>1. Call /\ UNCHANGED <<mounted, native, nativeMiss, routerMw, handler>>
    BY <1>1 DEF CallOn, routerVars
  <2>2. handler' = Chain("dispatch", routerMw')
    BY <2>1, Zenon DEF RestInv
  <2> QED BY <2>1, <2>2, CallKeepsRest
<1>2. ASSUME NEW g \in Groups,
             \/ \E m \in Middlewares \cup {None} : Use(g, m)
             \/ \E method \in Methods \cup {Every}, pattern \in Patterns, m \in RouteMw :
                  Handle(g, method, pattern, m) \/ HandleErr(g, method, pattern, m)
             \/ \E ew \in Writers \cup {None} : SetErrorWriter(g, ew)
             \/ \E kind \in {"notFound", "methodNotAllowed"}, set \in BOOLEAN :
                  SetMiss(g, kind, set)
             \/ \E child \in Groups : Mount(g, child)
             \/ NewModule(g)
      PROVE  RestInv'
  <2>1. CASE NewModule(g)
    <3>1. Len(modules) < MaxModules /\ UNCHANGED <<modules, nativeMiss, handler, routerMw, calls>>
      BY <2>1 DEF NewModule, routerVars
    <3>2. handler' = Chain("dispatch", routerMw')
      BY <3>1, Zenon DEF RestInv
    <3> QED BY <3>1, <3>2 DEF RestInv
  <2>2. CASE ~NewModule(g)
    BY <1>1, <1>2, <2>2, Zenon DEF Use, Handle, HandleErr, AddRoute, SetErrorWriter, SetMiss, Mount
  <2> QED BY <2>1, <2>2
<1>3. ASSUME UNCHANGED <<modules, nativeMiss, handler, routerMw, calls>>,
             root' = root \/ root' = None
      PROVE  RestInv'
  <2>1. handler' = Chain("dispatch", routerMw')
    BY <1>3, Zenon DEF RestInv
  <2> QED BY <1>3, <2>1 DEF RestInv
<1>4. CASE compile \/ compilePanics
  BY <1>3, <1>4, Zenon DEF compile, compilePanics, routerVars
<1>5. ASSUME NEW e, modules' = Append(modules, e), Len(modules) < MaxModules, root' = None,
             UNCHANGED <<nativeMiss, handler, routerMw, calls>>
      PROVE  RestInv'
  <2>1. Len(modules') = Len(modules) + 1
    <3> DEFINE S == {modules[m] : m \in DOMAIN modules} \cup {e}
    <3>1. modules \in Seq(S) /\ e \in S
      BY <1>0
    <3> HIDE DEF S
    <3> QED BY <1>5, <3>1
  <2>2. handler' = Chain("dispatch", routerMw')
    BY <1>5, Zenon DEF RestInv
  <2> QED BY <1>0, <1>5, <2>1, <2>2, RoutingAssumption DEF RestInv
<1>6. CASE NewModuleReturns
  <2> DEFINE e == [prefix |-> Prefix[root], root |-> root, mux |-> mux, miss |-> miss[root]]
  <2>1. /\ modules' = Append(modules, e) /\ root # None /\ root' = None
        /\ UNCHANGED <<nativeMiss, handler, routerMw, calls>>
    BY <1>6 DEF NewModuleReturns, routerVars
  <2> HIDE DEF e
  <2> QED BY <1>5, <2>1 DEF RestInv
<1>7. ASSUME NEW prefix, NEW m, NewHandlerModule(prefix, m) PROVE RestInv'
  <2> DEFINE e == [prefix |-> prefix, root |-> None, mux |-> Chain("raw", m), miss |-> {}]
  <2>1. /\ modules' = Append(modules, e) /\ root' = None /\ Len(modules) < MaxModules
        /\ UNCHANGED <<nativeMiss, handler, routerMw, calls>>
    BY <1>7 DEF NewHandlerModule, routerVars
  <2> HIDE DEF e
  <2> QED BY <1>5, <2>1
<1>8. ASSUME NEW m, RouterMount(m) PROVE RestInv'
  BY <1>3, <1>8 DEF RouterMount
<1>9. ASSUME NEW m, RouterUse(m) PROVE RestInv'
  BY <1>9, CallKeepsRest DEF RouterUse
<1>10. ASSUME NEW method, NEW path, RouterHandle(method, path) PROVE RestInv'
  <2>1. Call /\ UNCHANGED <<nativeMiss, routerMw, handler>>
    BY <1>10 DEF RouterHandle
  <2>2. handler' = Chain("dispatch", routerMw')
    BY <2>1, Zenon DEF RestInv
  <2> QED BY <2>1, <2>2, CallKeepsRest
<1>11. ASSUME NEW kind \in {"notFound", "methodNotAllowed"}, NEW set, SetNativeMiss(kind, set)
       PROVE  RestInv'
  <2>1. Call /\ UNCHANGED <<routerMw, handler>>
        /\ nativeMiss' = IF set THEN nativeMiss \cup {kind} ELSE nativeMiss \ {kind}
    BY <1>11 DEF SetNativeMiss
  <2>2. handler' = Chain("dispatch", routerMw')
    BY <2>1, Zenon DEF RestInv
  <2>3. nativeMiss' \subseteq {"notFound", "methodNotAllowed"}
    BY <2>1 DEF RestInv
  <2> QED BY <2>1, <2>2, <2>3, RoutingAssumption DEF RestInv, Call
<1>12. CASE UNCHANGED vars
  BY <1>3, <1>12 DEF vars, routerVars
<1> QED
  BY <1>2, <1>4, <1>6, <1>7, <1>8, <1>9, <1>10, <1>11, <1>12 DEF Next

\* A Router nothing is declared to satisfies it.
LEMMA InitRestInv == Init => RestInv
<1> SUFFICES ASSUME Init PROVE RestInv
  OBVIOUS
<1>1. modules = <<>> /\ root = None /\ nativeMiss = {} /\ calls = 0
      /\ handler = Chain("dispatch", routerMw)
  BY DEF Init
<1> QED BY <1>1, RoutingAssumption DEF RestInv

RoutingInv == IInv /\ ServedInv /\ RestInv

\* The three together are inductive.
LEMMA RoutingInductive == Spec => []RoutingInv
<1>1. Init => RoutingInv
  BY InitIInv, InitServedInv, InitRestInv DEF RoutingInv
<1>2. RoutingInv /\ [Next]_vars => RoutingInv'
  BY NextIInv, NextServedInv, NextRestInv DEF RoutingInv
<1> QED BY <1>1, <1>2, PTL DEF Spec

\* Every state has its type: groups are mounted and compiled only as groups,
\* no module is built beyond the bound, the router mounts what was built, and
\* what Use composed is the router's middleware around dispatch.
THEOREM Typing == Spec => []TypeOK
<1>1. RoutingInv => TypeOK
  <2> SUFFICES ASSUME RoutingInv PROVE TypeOK
    OBVIOUS
  <2>1. \A i \in DOMAIN work : work[i].group \in Groups
    <3>1. \A c \in CallType : c.group \in Groups
      BY DEF CallType
    <3>2. \A i \in DOMAIN work : work[i] \in CallType
      BY DEF RoutingInv, ServedInv, TreeInv
    <3> QED BY <3>1, <3>2
  <2>2. \A i \in DOMAIN mounted : mounted[i] \in DOMAIN modules
    BY DEF RoutingInv, IInv, Indexed
  <2> QED BY <2>1, <2>2 DEF RoutingInv, IInv, ModuleShape, ServedInv, TreeInv, GroupsType,
                            KidsType, RestInv, TypeOK
<1> QED BY <1>1, RoutingInductive, PTL

-----------------------------------------------------------------------------
\* A module that serves a path of a group's tree answers from all the tree
\* declares, within the router's middleware.
LEMMA BuiltIsServed == RoutingInv => ServedAsDeclared
<1> SUFFICES ASSUME RoutingInv, NEW path \in Paths, NEW method \in Asked,
                    dispatch(path) # 0, modules[dispatch(path)].root # None
             PROVE  LET g == modules[dispatch(path)].root
                        declared == serveMux(Declared(g), miss[g], method, path)
                    IN Serve(method, path) =
                         [ is |-> declared.is,
                           through |-> Append(SelectSeq(routerMw, Present), "dispatch")
                                         \o declared.through ]
  BY Zenon DEF ServedAsDeclared
<1> DEFINE m == dispatch(path)
           g == modules[m].root
<1>1. m \in DOMAIN modules
  <2>1. mounted \in Seq(DOMAIN modules) /\ DOMAIN mounted = 1 .. Len(mounted)
        /\ Len(mounted) \in Nat
    BY DEF RoutingInv, IInv, Indexed
  <2>2. Matching(path) # {} /\ Matching(path) \in SUBSET Nat
    <3>1. Matching(path) # {}
      BY Zenon DEF dispatch
    <3>2. Matching(path) \in SUBSET Nat
      BY <2>1 DEF Matching
    <3> QED BY <3>1, <3>2
  <2>3. \E i \in Matching(path) : \A j \in Matching(path) : i <= j
    BY <2>2, LeastExists
  <2> DEFINE first == CHOOSE i \in Matching(path) : \A j \in Matching(path) : i <= j
  <2>4. first \in Matching(path)
    BY <2>3, Zenon
  <2>5. m = mounted[first]
    BY <2>2, Zenon DEF dispatch
  <2> HIDE DEF first, m
  <2>6. first \in DOMAIN mounted
    BY <2>4 DEF Matching
  <2> QED BY <2>1, <2>5, <2>6
<1>2. Built(modules[m])
  <2> HIDE DEF m
  <2>1. m # 0 /\ modules[m].root # None
    BY Zenon DEF m
  <2> QED BY <1>1, <2>1 DEF RoutingInv, ServedInv, BuiltInv
<1>3. modules[m].mux = Declared(g) /\ modules[m].miss = miss[g]
  BY <1>2, Zenon DEF Built
<1>4. handler = Append(SelectSeq(routerMw, Present), "dispatch")
  BY Zenon DEF RoutingInv, RestInv, Chain
<1> DEFINE inner == serveMux(modules[m].mux, modules[m].miss, method, path)
           declared == serveMux(Declared(g), miss[g], method, path)
<1>5. Serve(method, path) = [is |-> inner.is, through |-> handler \o inner.through]
  <2>1. m # 0 /\ modules[m].root # None
    OBVIOUS
  <2> HIDE DEF m, g, declared
  <2> QED BY <2>1, Zenon DEF Serve, m
<1>6. inner = declared
  <2> HIDE DEF m, g
  <2> QED BY <1>3, Zenon
<1> HIDE DEF inner
<1> QED BY <1>4, <1>5, <1>6, Zenon

\* Whatever is declared, built, mounted or refused, in whatever order, and
\* however the groups are shared, a module answers as its tree declares now.
THEOREM DeclaredIsServed == Spec => []ServedAsDeclared
BY RoutingInductive, BuiltIsServed, PTL
=============================================================================
