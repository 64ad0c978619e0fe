------------------------------- MODULE Routing -------------------------------
(***************************************************************************)
(* Registering routes (srcs/core/router.c, httpc_server_add_route) and     *)
(* finding the one for a request (dispatch_request).                       *)
(*                                                                         *)
(* What matters of a method or a path is its length and its leading        *)
(* slashes: the copies are cut to their buffers and the slashes are        *)
(* stripped, in another way for a registration than for a request.  A text *)
(* is some slashes and a rest; the rests with one stem are the prefixes of *)
(* one infinite string, and rests with two stems differ in their first     *)
(* character.                                                              *)
(***************************************************************************)
EXTENDS Naturals, Sequences

CONSTANTS
  Stems,        \* texts to tell apart
  None,         \* the stem of an empty rest, and no handler
  Methods,      \* methods that programs register and requests have
  Paths,        \* paths that programs register and requests have
  Handlers,     \* the registered functions
  MethodCap,    \* sizeof(node->method) - 1
  RouteCap,     \* sizeof(node->route) - 1
  PathCap,      \* sizeof(path) - 1 in dispatch_request
  MaxRoutes     \* bound: routes registered

Text == {t \in [slashes : Nat, stem : Stems \cup {None}, size : Nat] :
           t.size = 0 <=> t.stem = None}

ASSUME NoneAssumption == None \notin Stems /\ None \notin Handlers
ASSUME CapAssumption == MethodCap \in Nat /\ RouteCap \in Nat /\ PathCap \in Nat /\ MaxRoutes \in Nat
ASSUME TextAssumption == Methods \subseteq Text /\ Paths \subseteq Text

VARIABLES
  routes,  \* router.routes_head, the newest first
  calls    \* history: the registrations that were stored, the newest first

vars == <<routes, calls>>
-----------------------------------------------------------------------------
(* Texts.                                                                  *)

Length(t) == t.slashes + t.size

Rest(t, n) == [slashes |-> 0, stem |-> IF n = 0 THEN None ELSE t.stem, size |-> n]

\* strncpy of at most n characters, and a NUL.
Cut(t, n) ==
  IF Length(t) <= n THEN t
  ELSE IF t.slashes >= n THEN [slashes |-> n, stem |-> None, size |-> 0]
  ELSE [Rest(t, n - t.slashes) EXCEPT !.slashes = t.slashes]

\* normalize_route.
StripAll(t) == [t EXCEPT !.slashes = 0]

\* What dispatch_request does to the path it has copied.
StripOne(t) == IF t.slashes > 0 THEN [t EXCEPT !.slashes = @ - 1] ELSE t
-----------------------------------------------------------------------------
(* router.c                                                                *)

\* copy_node.
Node(m, p, h) ==
  [method |-> Cut(m, MethodCap), route |-> Cut(StripAll(p), RouteCap), handler |-> h]

\* The mutant links a node behind the others.
MutantLink(node) == Append(routes, node)
Link(node) == <<node>> \o routes

\* httpc_server_add_route, which returns 0 whether or not there was memory for
\* the node: without it, nothing is changed.
AddRoute(m, p, h) ==
  /\ Len(calls) < MaxRoutes
  /\ routes' = Link(Node(m, p, h))
  /\ calls' = <<[method |-> m, path |-> p, handler |-> h]>> \o calls

\* router_cleanup.
Cleanup == routes' = <<>> /\ calls' = <<>>

\* What a request is compared with: the two copies in dispatch_request.
Wanted(p) == StripOne(Cut(p, PathCap))

\* The first element of list that satisfies its test names the handler.
First(list, I) ==
  IF I = {} THEN None ELSE list[CHOOSE i \in I : \A j \in I : i <= j].handler

\* router_match.  The mutant compares the routes only.
MutantMatches(m, p) == {i \in DOMAIN routes : routes[i].route = Wanted(p)}
Matches(m, p) == {i \in DOMAIN routes : routes[i].method = m /\ routes[i].route = Wanted(p)}
Match(m, p) == First(routes, Matches(m, p))
-----------------------------------------------------------------------------
Init == routes = <<>> /\ calls = <<>>

Next ==
  \/ \E m \in Methods, p \in Paths, h \in Handlers : AddRoute(m, p, h)
  \/ Cleanup

Spec == Init /\ [][Next]_vars
-----------------------------------------------------------------------------
(* What a registration means.                                              *)

\* c registers a handler for the requests with this method and path.
Registers(c, m, p) == c.method = m /\ StripAll(c.path) = StripAll(p)

\* The handler that was registered last for the method and the path.
Registered(m, p) == First(calls, {i \in DOMAIN calls : Registers(calls[i], m, p)})

\* A request is plain if it fits the buffers, its path has at most one leading
\* slash, and no registration that does not fit is cut to what it asks for.
Plain(m, p) ==
  /\ p.slashes <= 1 /\ Length(p) <= PathCap
  /\ Length(m) <= MethodCap /\ p.size <= RouteCap
  /\ \A i \in DOMAIN calls :
       /\ Length(m) = MethodCap => Length(calls[i].method) <= MethodCap
       /\ p.size = RouteCap => calls[i].path.size <= RouteCap

TypeOK ==
  /\ calls \in Seq([method : Methods, path : Paths, handler : Handlers])
  /\ routes = [i \in DOMAIN calls |-> Node(calls[i].method, calls[i].path, calls[i].handler)]

\* The cutting and stripping of copies never shows for a plain request: it gets
\* the handler that was registered last for its method and path, or 404 if there
\* is none, whatever longer or oddly written routes are registered besides.
\* Two leading slashes are stripped from a registration but not from a request:
\* such a request gets 404 whatever is registered, unless the buffer is too short
\* to tell.
ServedAsRegistered ==
  \A m \in Methods, p \in Paths :
    /\ Plain(m, p) => Match(m, p) = Registered(m, p)
    /\ p.slashes > 1 /\ PathCap > 1 => Match(m, p) = None

\* Registering a route changes the answer to requests for that route only, and to
\* its handler.
OthersKeepTheirRoutes ==
  [][\A m \in Methods, p \in Paths, c \in [method : Methods, path : Paths, handler : Handlers] :
       calls' = <<c>> \o calls /\ Plain(m, p) /\ Plain(m, p)' /\ Match(m, p)' # Match(m, p)
         => Registers(c, m, p) /\ Match(m, p)' = c.handler]_vars
=============================================================================
