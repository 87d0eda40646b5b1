------------------------------ MODULE Routing ------------------------------
(***************************************************************************)
(* Groups, modules and the router (group.go, module.go, router.go,         *)
(* miss.go, middleware.go).  The actions are the calls the wiring makes,   *)
(* which run one at a time; a call that changes nothing, a refused one     *)
(* among them, is not a step.  What a request meets is the operator Serve. *)
(*                                                                         *)
(* A path, a prefix and a pattern are sequences of segments.  Patterns are *)
(* literal paths: wildcards and subtrees are http.ServeMux's.              *)
(***************************************************************************)
EXTENDS Integers, FiniteSets, SequencesExt

CONSTANTS
  Segments,   \* what lies between a path's slashes
  Groups,     \* the groups the wiring made
  Prefix,     \* the prefix of each
  Depth,      \* bound: a group is mounted only under one of lesser Depth
  Middlewares, Writers,
  Methods,    \* the methods routes are registered for
  Patterns,   \* and their patterns under the group's prefix
  RouteMw,    \* the middleware given with a route or a raw handler
  RawPrefixes,  \* the prefixes of raw handlers
  NativePaths,  \* what the router's own mux is given
  Paths,      \* the paths requests ask for
  Asked,      \* and their methods
  Begins,     \* <<s, t>> when the text of segment s begins that of t
  Bytes,      \* the length in bytes of each prefix
  None,       \* a nil middleware, writer or handler
  Every,      \* the empty method, which matches all
  MaxCalls,   \* bound: how many declarations are made
  MaxModules  \* bound: how many modules are built

ModulePrefixes == {Prefix[g] : g \in Groups} \cup RawPrefixes

Under(prefix, path) ==
  /\ Len(prefix) <= Len(path)
  /\ \A k \in 1 .. Len(prefix) : prefix[k] = path[k]

ASSUME RoutingAssumption ==
  /\ \A p \in ModulePrefixes :
       /\ p \in Seq(Segments) \ {<<>>}
       /\ <<p[Len(p)], p[Len(p)]>> \in Begins
       /\ Bytes[p] \in Nat
  /\ \A p, q \in ModulePrefixes :
       Under(p, q) /\ Len(p) < Len(q) => Bytes[p] < Bytes[q]
  /\ Paths \subseteq Seq(Segments)
  /\ Depth \in [Groups -> Nat \ {0}]
  /\ None \notin Groups
  /\ MaxModules \in Nat /\ MaxCalls \in Nat

VARIABLES
  mw,        \* each group's middleware
  routes,    \* its routes
  kids,      \* its child groups
  errors,    \* its error writer
  miss,      \* its miss handlers, of "notFound" and "methodNotAllowed"
  sealed,
  work,      \* the calls of compile still to make, innermost first
  root,      \* the group NewModule is compiling, or None
  mux,       \* what is registered so far
  modules,   \* the modules that were built
  mounted,   \* the router's, in the order dispatch tries them
  native,    \* the router's own mux
  nativeMiss,  \* and the miss handlers set on the router
  routerMw,  \* the router's middleware
  handler,   \* and what Use composed of it around dispatch
  calls

groupVars  == <<mw, routes, kids, errors, miss>>
routerVars == <<mounted, native, nativeMiss, routerMw, handler>>
vars == <<groupVars, sealed, work, root, mux, modules, routerVars, calls>>

-----------------------------------------------------------------------------
(***************************************************************************)
(* Helpers                                                                 *)
(***************************************************************************)

Present(m) == m # None

\* What a request passes, first to last; a nil entry is skipped.
Chain(h, middleware) == Append(SelectSeq(middleware, Present), h)

\* The path begins with the prefix's text, which ends there or at a '/'.
matches(path, prefix) ==
  /\ Len(path) >= Len(prefix)
  /\ \A k \in 1 .. Len(prefix) - 1 : path[k] = prefix[k]
  /\ <<prefix[Len(prefix)], path[Len(prefix)]>> \in Begins
  /\ path[Len(prefix)] = prefix[Len(prefix)]

\* Mutated Orders: a module goes where it was mounted.
OrdersAppended(s, m) == {Append(s, m)}

\* Every order slices.SortFunc, which is not stable, may leave s and m in.
Orders(s, m) ==
  LET all == {s[i] : i \in DOMAIN s} \cup {m}
  IN {t \in [1 .. Len(s) + 1 -> all] :
        /\ \A x \in all : \E i \in DOMAIN t : t[i] = x
        /\ \A i, j \in DOMAIN t : i < j =>
             /\ t[i] # t[j]
             /\ Bytes[modules[t[i]].prefix] >= Bytes[modules[t[j]].prefix]}

\* The entries of a mux a request for the path may hit.
At(entries, path) == {e \in entries : e.path = path}

\* http.ServeMux refuses an entry that is registered already.
Conflicts(e, entries) == \E f \in entries : f.path = e.path /\ f.method = e.method

-----------------------------------------------------------------------------
(***************************************************************************)
(* Declaring groups                                                        *)
(***************************************************************************)

Init ==
  /\ mw = [g \in Groups |-> <<>>]
  /\ routes = [g \in Groups |-> <<>>]
  /\ kids = [g \in Groups |-> <<>>]
  /\ errors = [g \in Groups |-> None]
  /\ miss = [g \in Groups |-> {}]
  /\ sealed = {}
  /\ work = <<>> /\ root = None /\ mux = {}
  /\ modules = <<>>
  /\ mounted = <<>> /\ native = {} /\ nativeMiss = {}
  /\ routerMw = <<>> /\ handler = Chain("dispatch", routerMw)
  /\ calls = 0

Call ==
  /\ root = None
  /\ calls < MaxCalls
  /\ calls' = calls + 1
  /\ UNCHANGED <<sealed, work, root, mux, modules>>

\* checkSeal, and the frame of every call on a group.
CallOn(g) ==
  /\ g \notin sealed
  /\ Call
  /\ UNCHANGED routerVars

Use(g, m) ==
  /\ CallOn(g)
  /\ mw' = [mw EXCEPT ![g] = Append(@, m)]
  /\ UNCHANGED <<routes, kids, errors, miss>>

AddRoute(g, method, pattern, h, m) ==
  /\ CallOn(g)
  /\ routes' = [routes EXCEPT ![g] =
       Append(@, [method |-> method, pattern |-> pattern, handler |-> h, mw |-> m])]
  /\ UNCHANGED <<mw, kids, errors, miss>>

Handle(g, method, pattern, m) == AddRoute(g, method, pattern, "plain", m)

\* The handler is adapted with the writer the group has now.
HandleErr(g, method, pattern, m) ==
  /\ errors[g] # None
  /\ AddRoute(g, method, pattern, errors[g], m)

SetErrorWriter(g, ew) ==
  /\ ew # errors[g]
  /\ CallOn(g)
  /\ errors' = [errors EXCEPT ![g] = ew]
  /\ UNCHANGED <<mw, routes, kids, miss>>

\* SetNotFound and SetMethodNotAllowed; a nil handler restores the default.
SetMiss(g, kind, set) ==
  /\ set # (kind \in miss[g])
  /\ CallOn(g)
  /\ miss' = [miss EXCEPT ![g] = IF set THEN @ \cup {kind} ELSE @ \ {kind}]
  /\ UNCHANGED <<mw, routes, kids, errors>>

\* The child may be sealed, or mounted elsewhere too.
Mount(g, child) ==
  /\ Depth[g] < Depth[child]
  /\ CallOn(g)
  /\ kids' = [kids EXCEPT ![g] = Append(@, child)]
  /\ UNCHANGED <<mw, routes, errors, miss>>

-----------------------------------------------------------------------------
(***************************************************************************)
(* Compiling a tree                                                        *)
(***************************************************************************)

NewModule(g) ==
  /\ root = None
  /\ Len(modules) < MaxModules
  /\ root' = g
  /\ mux' = {}
  /\ work' = << [group |-> g, parent |-> <<>>, outer |-> <<>>] >>
  /\ UNCHANGED <<groupVars, sealed, modules, routerVars, calls>>

\* The entry a route is registered as.
Entry(prefix, chain, rt) ==
  [ method |-> rt.method, path |-> prefix \o rt.pattern,
    through |-> Chain(rt.handler, chain \o rt.mw) ]

\* Mutated Seals: only the group passed to NewModule is sealed.
SealsRoot(call) == IF call.parent = <<>> THEN sealed \cup {call.group} ELSE sealed

Seals(call) == sealed \cup {call.group}

\* What compile registers for a call's own group, in order.
Registered(call) ==
  LET g == call.group
  IN [i \in DOMAIN routes[g] |->
        Entry(call.parent \o Prefix[g], call.outer \o mw[g], routes[g][i])]

\* A miss handler on a nested group, and an entry registered twice, panic.
Refused(call) ==
  LET own == Registered(call)
  IN \/ call.parent # <<>> /\ miss[call.group] # {}
     \/ \E i \in DOMAIN own :
          Conflicts(own[i], mux \cup {own[j] : j \in 1 .. i - 1})

compile ==
  /\ work # <<>>
  /\ sealed' = Seals(Head(work))
  /\ ~Refused(Head(work))
  /\ LET call == Head(work)
         g    == call.group
         own  == Registered(call)
         nest == [i \in DOMAIN kids[g] |->
                    [group |-> kids[g][i], parent |-> call.parent \o Prefix[g],
                     outer |-> call.outer \o mw[g]]]
     IN /\ mux' = mux \cup {own[i] : i \in DOMAIN own}
        /\ work' = nest \o Tail(work)
  /\ UNCHANGED <<groupVars, root, modules, routerVars, calls>>

\* The panic leaves what was sealed sealed, and no module.
compilePanics ==
  /\ work # <<>>
  /\ sealed' = Seals(Head(work))
  /\ Refused(Head(work))
  /\ work' = <<>>
  /\ root' = None
  /\ mux' = {}
  /\ UNCHANGED <<groupVars, modules, routerVars, calls>>

NewModuleReturns ==
  /\ root # None
  /\ work = <<>>
  /\ modules' = Append(modules,
       [prefix |-> Prefix[root], root |-> root, mux |-> mux, miss |-> miss[root]])
  /\ root' = None
  /\ mux' = {}
  /\ UNCHANGED <<groupVars, sealed, work, routerVars, calls>>

\* A raw handler, with the prefix stripped and the middleware within.
NewHandlerModule(prefix, m) ==
  /\ root = None
  /\ Len(modules) < MaxModules
  /\ modules' = Append(modules,
       [prefix |-> prefix, root |-> None, mux |-> Chain("raw", m), miss |-> {}])
  /\ UNCHANGED <<groupVars, sealed, work, root, mux, routerVars, calls>>

-----------------------------------------------------------------------------
(***************************************************************************)
(* The router                                                              *)
(***************************************************************************)

\* A second module at a prefix panics.
RouterMount(m) ==
  /\ root = None
  /\ \A i \in DOMAIN mounted : modules[mounted[i]].prefix # modules[m].prefix
  /\ mounted' \in Orders(mounted, m)
  /\ UNCHANGED <<groupVars, sealed, work, root, mux, modules, native, nativeMiss,
                 routerMw, handler, calls>>

\* Mutated RouterUse: it wraps what the last Use composed.
RouterUseAgain(m) ==
  /\ Call
  /\ routerMw' = Append(routerMw, m)
  /\ handler' = SelectSeq(routerMw', Present) \o handler
  /\ UNCHANGED <<groupVars, mounted, native, nativeMiss>>

RouterUse(m) ==
  /\ Call
  /\ routerMw' = Append(routerMw, m)
  /\ handler' = Chain("dispatch", routerMw')
  /\ UNCHANGED <<groupVars, mounted, native, nativeMiss>>

RouterHandle(method, path) ==
  LET e == [method |-> method, path |-> path, through |-> <<"native">>]
  IN /\ ~Conflicts(e, native)
     /\ Call
     /\ native' = native \cup {e}
     /\ UNCHANGED <<groupVars, mounted, nativeMiss, routerMw, handler>>

\* The router's own SetNotFound and SetMethodNotAllowed, which nothing seals.
SetNativeMiss(kind, set) ==
  /\ set # (kind \in nativeMiss)
  /\ Call
  /\ nativeMiss' = IF set THEN nativeMiss \cup {kind} ELSE nativeMiss \ {kind}
  /\ UNCHANGED <<groupVars, mounted, native, routerMw, handler>>

Next ==
  \/ \E g \in Groups :
       \/ \E m \in Middlewares \cup {None} : Use(g, m)
       \/ \E method \in Methods \cup {Every}, pattern \in Patterns, m \in RouteMw :
            Handle(g, method, pattern, m) \/ HandleErr(g, method, pattern, m)
       \/ \E ew \in Writers \cup {None} : SetErrorWriter(g, ew)
       \/ \E kind \in {"notFound", "methodNotAllowed"}, set \in BOOLEAN :
            SetMiss(g, kind, set)
       \/ \E child \in Groups : Mount(g, child)
       \/ NewModule(g)
  \/ compile \/ compilePanics \/ NewModuleReturns
  \/ \E prefix \in RawPrefixes, m \in RouteMw : NewHandlerModule(prefix, m)
  \/ \E m \in DOMAIN modules : RouterMount(m)
  \/ \E m \in Middlewares \cup {None} : RouterUse(m)
  \/ \E method \in Methods \cup {Every}, path \in NativePaths : RouterHandle(method, path)
  \/ \E kind \in {"notFound", "methodNotAllowed"}, set \in BOOLEAN :
       SetNativeMiss(kind, set)

Spec == Init /\ [][Next]_vars

-----------------------------------------------------------------------------
(***************************************************************************)
(* Serving a request                                                       *)
(***************************************************************************)

\* The modules whose prefix matches, by their place in mounted.
Matching(path) == {i \in DOMAIN mounted : matches(path, modules[mounted[i]].prefix)}

\* The first of them serves, and the native mux, 0, when there is none.
dispatch(path) ==
  IF Matching(path) = {} THEN 0
  ELSE mounted[CHOOSE i \in Matching(path) : \A j \in Matching(path) : i <= j]

\* A match, the path under another method, or neither, with the handlers the
\* answer passes.  An entry for the method is preferred to one for all.
serveMux(entries, overridden, method, path) ==
  LET for(m) == {e \in At(entries, path) : e.method = m}
      answer(kind) == [is |-> kind, through |->
                         <<IF kind \in overridden THEN "set" ELSE "problem">>]
  IN IF for(method) # {}
     THEN [is |-> "match", through |-> (CHOOSE e \in for(method) : TRUE).through]
     ELSE IF for(Every) # {}
     THEN [is |-> "match", through |-> (CHOOSE e \in for(Every) : TRUE).through]
     ELSE answer(IF At(entries, path) # {} THEN "methodNotAllowed" ELSE "notFound")

\* Router.ServeHTTP: what the request passes and where it ends.
Serve(method, path) ==
  LET m == dispatch(path)
      inner == IF m = 0 THEN serveMux(native, nativeMiss, method, path)
               ELSE IF modules[m].root = None
               THEN [is |-> "match", through |-> modules[m].mux]
               ELSE serveMux(modules[m].mux, modules[m].miss, method, path)
  IN [is |-> inner.is, through |-> handler \o inner.through]

-----------------------------------------------------------------------------
(***************************************************************************)
(* Properties                                                              *)
(***************************************************************************)

RouteType == [method : Methods \cup {Every}, pattern : Patterns,
              handler : Writers \cup {"plain"},
              mw : RouteMw]

TypeOK ==
  /\ mw \in [Groups -> Seq(Middlewares \cup {None})]
  /\ routes \in [Groups -> Seq(RouteType)]
  /\ kids \in [Groups -> Seq(Groups)]
  /\ errors \in [Groups -> Writers \cup {None}]
  /\ miss \in [Groups -> SUBSET {"notFound", "methodNotAllowed"}]
  /\ sealed \subseteq Groups
  /\ \A i \in DOMAIN work : work[i].group \in Groups
  /\ root \in Groups \cup {None}
  /\ root = None => work = <<>> /\ mux = {}
  /\ Len(modules) <= MaxModules
  /\ \A m \in DOMAIN modules : modules[m].prefix \in ModulePrefixes
  /\ \A i \in DOMAIN mounted : mounted[i] \in DOMAIN modules
  /\ nativeMiss \subseteq {"notFound", "methodNotAllowed"}
  /\ handler = Chain("dispatch", routerMw)
  /\ calls \in 0 .. MaxCalls

\* router.go:9: "longest-prefix match on segment boundaries".  Whatever the
\* order the modules were mounted in and however the sort left them, a path
\* is served by the module whose prefix has the most of its leading segments,
\* and by the native mux only when it lies under no module's prefix.
LongestPrefixServes ==
  \A path \in Paths :
    LET under == {i \in DOMAIN mounted : Under(modules[mounted[i]].prefix, path)}
    IN IF under = {} THEN dispatch(path) = 0
       ELSE \E i \in under :
              /\ dispatch(path) = mounted[i]
              /\ \A j \in under \ {i} : Len(modules[mounted[j]].prefix)
                                          < Len(modules[mounted[i]].prefix)

\* The chains of groups from g down to a group of its tree.
Branches(g) ==
  {b \in UNION {[1 .. n -> Groups] : n \in UNION {1 .. Depth[h] : h \in Groups}} :
     /\ b[1] = g
     /\ \A i \in 1 .. Len(b) - 1 : \E k \in DOMAIN kids[b[i]] : kids[b[i]][k] = b[i + 1]}

\* The routes at the end of a branch as they are declared now: the prefixes
\* of the branch and its middleware root to leaf, the route's own innermost.
DeclaredAt(b) ==
  LET leaf  == b[Len(b)]
      path  == FlattenSeq([i \in DOMAIN b |-> Prefix[b[i]]])
      outer == FlattenSeq([i \in DOMAIN b |-> mw[b[i]]])
  IN { [ method |-> rt.method, path |-> path \o rt.pattern,
         through |-> Append(SelectSeq(outer \o rt.mw, Present), rt.handler) ]
       : rt \in {routes[leaf][i] : i \in DOMAIN routes[leaf]} }

\* And those of g's tree.
Declared(g) == UNION {DeclaredAt(b) : b \in Branches(g)}

\* group.go:17: "any mutation of a sealed group panics, so a route added
\* after compilation is never silently dead".  Whatever is called after
\* NewModule, and however many modules share a group, a request to a module
\* is answered by the routes, the middleware and the miss handlers its tree
\* declares now, within the middleware the router was given, in their order.
ServedAsDeclared ==
  \A path \in Paths, method \in Asked :
    LET m == dispatch(path)
    IN m # 0 /\ modules[m].root # None =>
         LET g == modules[m].root
             declared == serveMux(Declared(g), miss[g], method, path)
         IN Serve(method, path) =
              [ is |-> declared.is,
                through |-> Append(SelectSeq(routerMw, Present), "dispatch")
                              \o declared.through ]
=============================================================================
