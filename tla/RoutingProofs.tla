---------------------------- MODULE RoutingProofs ----------------------------
(***************************************************************************)
(* Proofs about Routing, for every value of its constants: whatever the    *)
(* sizes of the buffers, a plain request is served as it was registered.   *)
(***************************************************************************)
EXTENDS Routing, WellFoundedInduction, TLAPS

USE NoneAssumption, CapAssumption, TextAssumption

(***************************************************************************)
(* Data: the first element, and a cut text.                                *)
(***************************************************************************)
LEMMA Least ==
  ASSUME NEW I, I \subseteq Nat, I # {}
  PROVE  \E i \in I : \A j \in I : i <= j
<1> DEFINE R == {ss \in Nat \X Nat : ss[1] < ss[2]}
<1>1. \E i \in I : \A j \in I : ~ (<<j, i>> \in R)
  <2>1. IsWellFoundedOn(R, Nat)
    BY NatLessThanWellFounded DEF OpToRel
  <2> HIDE DEF R
  <2> QED BY <2>1, WFMin
<1>2. PICK k \in I : \A j \in I : ~ (<<j, k>> \in R)
  BY <1>1
<1>3. ASSUME NEW j \in I
      PROVE  k <= j
  <2>1. j \in Nat /\ k \in Nat /\ ~ (<<j, k>> \in R)
    BY <1>2
  <2>2. ~ (j < k)
    BY <2>1
  <2> QED BY <2>1, <2>2
<1> QED BY <1>3

\* What First returns is the handler of an element none of whose predecessors is
\* in I.
LEMMA FirstIs ==
  ASSUME NEW list, NEW I, I \subseteq Nat, NEW k \in I, \A j \in I : k <= j
  PROVE  First(list, I) = list[k].handler
<1> DEFINE c == CHOOSE i \in I : \A j \in I : i <= j
<1>1. c \in I /\ \A j \in I : c <= j
  OBVIOUS
<1>2. c = k
  <2> HIDE DEF c
  <2> QED BY <1>1
<1> QED BY <1>2 DEF First

\* Two lists that agree on the handlers in I have the same first one.
LEMMA FirstAgrees ==
  ASSUME NEW s, NEW t, NEW I, I \subseteq Nat,
         \A i \in I : s[i].handler = t[i].handler
  PROVE  First(s, I) = First(t, I)
<1>1. CASE I = {}
  BY <1>1 DEF First
<1>2. CASE I # {}
  <2>1. PICK k \in I : \A j \in I : k <= j
    BY <1>2, Least
  <2>2. First(s, I) = s[k].handler /\ First(t, I) = t[k].handler
    BY <2>1, FirstIs
  <2> QED BY <2>2
<1> QED BY <1>1, <1>2

\* A text that fits is its own copy, and no longer text has the same copy unless
\* the copy fills the buffer.
LEMMA CutExact ==
  ASSUME NEW t \in Text, NEW u \in Text, NEW n \in Nat,
         Length(u) <= n, Length(u) = n => Length(t) <= n
  PROVE  Cut(t, n) = u <=> t = u
<1> USE DEF Text, Length, Cut, Rest
<1>1. CASE Length(t) <= n
  BY <1>1
<1>2. CASE Length(t) > n
  <2>1. Length(Cut(t, n)) = n
    BY <1>2
  <2> QED BY <1>2, <2>1
<1> QED BY <1>1, <1>2

LEMMA StripAllText ==
  ASSUME NEW t \in Text
  PROVE  StripAll(t) \in Text /\ Length(StripAll(t)) = t.size
BY DEF Text, StripAll, Length

\* The path a request asks for is its own, without the slashes.
LEMMA WantedPlain ==
  ASSUME NEW p \in Paths, p.slashes <= 1, Length(p) <= PathCap
  PROVE  Wanted(p) = StripAll(p)
<1>1. p \in Text /\ p.slashes \in {0, 1}
  BY DEF Text
<1>2. Cut(p, PathCap) = p
  BY DEF Cut
<1> QED BY <1>1, <1>2 DEF Wanted, StripOne, StripAll, Text

(***************************************************************************)
(* The list of routes holds the copies of what was registered.             *)
(***************************************************************************)
LEMMA TypeInvariant == Init /\ [][Next]_vars => []TypeOK
<1> DEFINE Call == [method : Methods, path : Paths, handler : Handlers]
<1>1. Init => TypeOK
  BY DEF Init, TypeOK
<1>2. TypeOK /\ [Next]_vars => TypeOK'
  <2> SUFFICES ASSUME TypeOK, [Next]_vars PROVE TypeOK'
    OBVIOUS
  <2>1. ASSUME NEW m \in Methods, NEW p \in Paths, NEW h \in Handlers, AddRoute(m, p, h)
        PROVE  TypeOK'
    <3> DEFINE call == [method |-> m, path |-> p, handler |-> h]
               Copies(s) == [i \in DOMAIN s |-> Node(s[i].method, s[i].path, s[i].handler)]
    <3>1. calls \in Seq(Call) /\ call \in Call
      BY DEF TypeOK
    <3> HIDE DEF call
    <3>2. calls' = <<call>> \o calls /\ routes' = <<Node(m, p, h)>> \o routes
      BY <2>1 DEF AddRoute, Link, call
    <3>3. calls' \in Seq(Call)
      BY <3>1, <3>2
    <3>4. routes = Copies(calls) /\ DOMAIN calls = 1 .. Len(calls) /\ Len(calls) \in Nat
      BY <3>1 DEF TypeOK
    <3>5. DOMAIN routes = 1 .. Len(calls) /\ Len(routes) = Len(calls)
      BY <3>4
    <3>6. routes' = Copies(calls')
      <4>1. /\ DOMAIN calls' = 1 .. Len(calls) + 1
            /\ \A i \in DOMAIN calls' : calls'[i] = IF i = 1 THEN call ELSE calls[i - 1]
        BY <3>1, <3>2, <3>4
      <4>2. routes' = [i \in 1 .. Len(calls) + 1 |-> IF i = 1 THEN Node(m, p, h) ELSE routes[i - 1]]
        BY <3>2, <3>5, <3>4
      <4>3. ASSUME NEW i \in 1 .. Len(calls) + 1
            PROVE  routes'[i] = Node(calls'[i].method, calls'[i].path, calls'[i].handler)
        <5>1. CASE i = 1
          BY <4>1, <4>2, <5>1 DEF call
        <5>2. CASE i # 1
          <6>1. i - 1 \in DOMAIN calls
            BY <5>2, <3>4
          <6> QED BY <4>1, <4>2, <5>2, <6>1, <3>4
        <5> QED BY <5>1, <5>2
      <4> QED BY <4>1, <4>2, <4>3
    <3> QED BY <3>3, <3>6 DEF TypeOK
  <2>2. CASE Cleanup
    BY <2>2 DEF Cleanup, TypeOK
  <2>3. CASE UNCHANGED vars
    BY <2>3 DEF vars, TypeOK
  <2> QED BY <2>1, <2>2, <2>3 DEF Next
<1> QED BY <1>1, <1>2, PTL

\* The list of routes always holds the copies of the registrations, the newest
\* first (router_add, router_cleanup).
THEOREM TypeCorrect == Spec => []TypeOK
BY TypeInvariant DEF Spec

(***************************************************************************)
(* A plain request.                                                        *)
(***************************************************************************)
LEMMA RegistrationType ==
  ASSUME TypeOK, NEW i \in DOMAIN calls
  PROVE  calls[i].method \in Methods /\ calls[i].path \in Paths
<1> DEFINE Call == [method : Methods, path : Paths, handler : Handlers]
<1>1. calls[i] \in Call
  <2>1. calls \in Seq(Call)
    BY DEF TypeOK
  <2> HIDE DEF Call
  <2> QED BY <2>1
<1> QED BY <1>1

LEMMA MatchesAreRegistered ==
  ASSUME TypeOK, NEW m \in Methods, NEW p \in Paths, Plain(m, p)
  PROVE  Matches(m, p) = {i \in DOMAIN calls : Registers(calls[i], m, p)}
<1>1. ASSUME NEW i \in DOMAIN calls
      PROVE  routes[i].method = m /\ routes[i].route = Wanted(p) <=> Registers(calls[i], m, p)
  <2>1. calls[i].method \in Methods /\ calls[i].path \in Paths
    BY RegistrationType
  <2>2. /\ routes[i].method = Cut(calls[i].method, MethodCap)
        /\ routes[i].route = Cut(StripAll(calls[i].path), RouteCap)
    BY DEF TypeOK, Node
  <2>3. Cut(calls[i].method, MethodCap) = m <=> calls[i].method = m
    <3>1. calls[i].method \in Text /\ m \in Text
      BY <2>1
    <3>2. Length(m) <= MethodCap /\ (Length(m) = MethodCap => Length(calls[i].method) <= MethodCap)
      BY DEF Plain
    <3> QED BY <3>1, <3>2, CutExact
  <2>4. Cut(StripAll(calls[i].path), RouteCap) = StripAll(p) <=> StripAll(calls[i].path) = StripAll(p)
    <3>1. /\ StripAll(calls[i].path) \in Text /\ Length(StripAll(calls[i].path)) = calls[i].path.size
          /\ StripAll(p) \in Text /\ Length(StripAll(p)) = p.size
      BY <2>1, StripAllText
    <3>2. p.size <= RouteCap /\ (p.size = RouteCap => calls[i].path.size <= RouteCap)
      BY DEF Plain
    <3> QED BY <3>1, <3>2, CutExact
  <2>5. Wanted(p) = StripAll(p)
    BY WantedPlain DEF Plain
  <2> QED BY <2>2, <2>3, <2>4, <2>5 DEF Registers
<1>2. DOMAIN routes = DOMAIN calls
  BY DEF TypeOK
<1> QED BY <1>1, <1>2 DEF Matches

LEMMA PlainServed ==
  ASSUME TypeOK, NEW m \in Methods, NEW p \in Paths, Plain(m, p)
  PROVE  Match(m, p) = Registered(m, p)
<1> DEFINE I == {i \in DOMAIN calls : Registers(calls[i], m, p)}
<1>1. Matches(m, p) = I
  BY MatchesAreRegistered
<1>2. I \subseteq Nat
  BY DEF TypeOK
<1>3. \A i \in I : routes[i].handler = calls[i].handler
  BY DEF TypeOK, Node
<1>4. First(routes, I) = First(calls, I)
  <2> HIDE DEF I
  <2> QED BY <1>2, <1>3, FirstAgrees
<1> QED BY <1>1, <1>4 DEF Match, Registered

(***************************************************************************)
(* Two leading slashes.                                                    *)
(***************************************************************************)
LEMMA NoDoubleSlash ==
  ASSUME TypeOK, NEW m \in Methods, NEW p \in Paths, p.slashes > 1, PathCap > 1
  PROVE  Match(m, p) = None
<1>1. Wanted(p).slashes > 0
  BY DEF Wanted, StripOne, Cut, Rest, Length, Text
<1>2. ASSUME NEW i \in DOMAIN routes
      PROVE  routes[i].route.slashes = 0
  <2>1. calls[i].path \in Paths /\ routes[i].route = Cut(StripAll(calls[i].path), RouteCap)
    <3>1. i \in DOMAIN calls
      BY DEF TypeOK
    <3> QED BY <3>1, RegistrationType DEF TypeOK, Node
  <2>2. StripAll(calls[i].path) \in Text /\ StripAll(calls[i].path).slashes = 0
    BY <2>1, StripAllText DEF StripAll, Text
  <2> QED BY <2>1, <2>2 DEF Cut, Rest, Length, Text
<1>3. Matches(m, p) = {}
  BY <1>1, <1>2 DEF Matches
<1> QED BY <1>3 DEF Match, First

(***************************************************************************)
(* Requests are served as registered.                                      *)
(***************************************************************************)

\* Whatever the buffer sizes and the texts: a plain request gets the handler that
\* was registered last for its method and path, or 404 (router_match, and the
\* copies dispatch_request makes), and one whose path begins with two slashes
\* never reaches a handler if the buffer holds them (normalize_route).
THEOREM Served == Spec => []ServedAsRegistered
<1>1. TypeOK => ServedAsRegistered
  BY PlainServed, NoDoubleSlash DEF ServedAsRegistered
<1> QED BY <1>1, TypeCorrect, PTL

(***************************************************************************)
(* A registration changes the answer to its own requests only.             *)
(***************************************************************************)
RegisteredIn(s, m, p) == First(s, {i \in DOMAIN s : Registers(s[i], m, p)})

LEMMA FirstOfLonger ==
  ASSUME NEW S, NEW s \in Seq(S), NEW c \in S, NEW m, NEW p
  PROVE  RegisteredIn(<<c>> \o s, m, p) =
           IF Registers(c, m, p) THEN c.handler ELSE RegisteredIn(s, m, p)
<1> DEFINE t == <<c>> \o s
           I == {i \in DOMAIN s : Registers(s[i], m, p)}
           J == {i \in DOMAIN t : Registers(t[i], m, p)}
<1>1. /\ DOMAIN s = 1 .. Len(s) /\ Len(s) \in Nat
      /\ DOMAIN t = 1 .. Len(s) + 1
      /\ t[1] = c
      /\ \A i \in 1 .. Len(s) : t[i + 1] = s[i]
  OBVIOUS
<1> HIDE DEF t
<1>2. I \subseteq Nat /\ J \subseteq Nat
  BY <1>1
<1>3. \A i \in 1 .. Len(s) : i \in I <=> i + 1 \in J
  BY <1>1
<1>4. 1 \in J <=> Registers(c, m, p)
  BY <1>1
<1>5. \A j \in J : j = 1 \/ (j - 1 \in 1 .. Len(s) /\ j - 1 \in I)
  <2>1. \A j \in J : j = 1 \/ (j - 1 \in 1 .. Len(s) /\ (j - 1) + 1 = j)
    BY <1>1
  <2> QED BY <2>1, <1>3
<1>6. I \subseteq 1 .. Len(s) /\ \A j \in J : j >= 1
  BY <1>1
<1> HIDE DEF I, J
<1>7. CASE Registers(c, m, p)
  <2>1. First(t, J) = t[1].handler
    BY <1>2, <1>4, <1>6, <1>7, FirstIs
  <2> QED BY <2>1, <1>1, <1>7 DEF t, I, J, RegisteredIn
<1>8. CASE ~Registers(c, m, p)
  <2>1. CASE I = {}
    <3>1. J = {}
      BY <2>1, <1>4, <1>5, <1>8
    <3>2. First(t, J) = None /\ First(s, I) = None
      BY <2>1, <3>1 DEF First
    <3> QED BY <3>2, <1>8 DEF t, I, J, RegisteredIn
  <2>2. CASE I # {}
    <3>1. PICK k \in I : \A j \in I : k <= j
      BY <2>2, <1>2, Least
    <3>2. First(s, I) = s[k].handler
      BY <1>2, <3>1, FirstIs
    <3>3. k + 1 \in J /\ \A j \in J : k + 1 <= j
      BY <3>1, <1>2, <1>3, <1>4, <1>5, <1>6, <1>8
    <3>4. First(t, J) = t[k + 1].handler
      BY <1>2, <3>3, FirstIs
    <3>5. First(t, J) = First(s, I)
      BY <3>1, <3>2, <3>4, <1>1, <1>6
    <3> QED BY <3>5, <1>8 DEF t, I, J, RegisteredIn
  <2> QED BY <2>1, <2>2
<1> QED BY <1>7, <1>8

LEMMA OneRegistration ==
  ASSUME TypeOK, ServedAsRegistered, ServedAsRegistered',
         NEW m \in Methods, NEW p \in Paths,
         NEW c \in [method : Methods, path : Paths, handler : Handlers],
         calls' = <<c>> \o calls, Plain(m, p), Plain(m, p)', Match(m, p)' # Match(m, p)
  PROVE  Registers(c, m, p) /\ Match(m, p)' = c.handler
<1>1. Match(m, p) = Registered(m, p)
  BY DEF ServedAsRegistered
<1>2. Match(m, p)' = Registered(m, p)'
  BY DEF ServedAsRegistered
<1>3. Registered(m, p)' = IF Registers(c, m, p) THEN c.handler ELSE Registered(m, p)
  <2>1. calls \in Seq([method : Methods, path : Paths, handler : Handlers])
    BY DEF TypeOK
  <2>2. Registered(m, p)' = RegisteredIn(<<c>> \o calls, m, p)
    BY DEF Registered, RegisteredIn, First, Registers
  <2>3. RegisteredIn(<<c>> \o calls, m, p) =
          IF Registers(c, m, p) THEN c.handler ELSE RegisteredIn(calls, m, p)
    <3> DEFINE Call == [method : Methods, path : Paths, handler : Handlers]
    <3>1. calls \in Seq(Call) /\ c \in Call
      BY <2>1
    <3> HIDE DEF Call
    <3> QED BY <3>1, FirstOfLonger
  <2> QED BY <2>2, <2>3 DEF Registered, RegisteredIn
<1> QED BY <1>1, <1>2, <1>3

\* Registering a route changes the answer of plain requests for that route only,
\* to its handler, for all buffer sizes and any number of routes (copy_node links
\* a node before all others and touches none).
THEOREM RegistrationIsLocal == Spec => OthersKeepTheirRoutes
<1>1. TypeOK /\ ServedAsRegistered /\ ServedAsRegistered' /\ [Next]_vars =>
        [\A m \in Methods, p \in Paths, c \in [method : Methods, path : Paths, handler : Handlers] :
           calls' = <<c>> \o calls /\ Plain(m, p) /\ Plain(m, p)' /\ Match(m, p)' # Match(m, p)
             => Registers(c, m, p) /\ Match(m, p)' = c.handler]_vars
  BY OneRegistration
<1> QED BY <1>1, TypeCorrect, Served, PTL DEF Spec, OthersKeepTheirRoutes
=============================================================================
