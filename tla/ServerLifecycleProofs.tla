------------------------ MODULE ServerLifecycleProofs ------------------------
(***************************************************************************)
(* Proofs about ServerLifecycle: for any number of servers, descriptors    *)
(* and configurations, wherever a signal interrupts the library.           *)
(***************************************************************************)
EXTENDS ServerLifecycle, TLAPS

USE ServersAssumption, MaxFdAssumption, ConfigsAssumption
-----------------------------------------------------------------------------
(* The inductive invariant: first the shape of the stack, then what each   *)
(* call in progress knows of its server, then what holds of the servers.   *)

Kind(i) == stack[i].proc
Of(i) == stack[i].srv
Place(i) == stack[i].at

Places ==
  [start |-> {"socket", "bind", "epoll", "table", "publish", "started"},
   run |-> {"check", "running", "handler", "test", "wait", "round", "ended", "settle"},
   stop |-> {"enter", "forget", "close", "closed"},
   destroy |-> {"stop", "free"},
   httpc_start |-> {"create", "start", "run"},
   httpc_cleanup |-> {"stop", "destroy", "clear"},
   SIGINT |-> {"test", "stop", "done"},
   SIGTERM |-> {"test", "stop", "done"}]

Calls == 1 .. Depth

Below(proc, i) == \E k \in Calls : k < i /\ Kind(k) = proc

\* A signal is not nested in its own handler, and only a signal handler and the stop
\* it calls run on top of start, stop, destroy or a signal handler; the other calls are
\* the application's.
Placed == \A i \in Calls : Place(i) \in Places[Kind(i)]
Innermost ==
  \A i, j \in Calls : i < j =>
    /\ Kind(i) \in Signals => Kind(j) # Kind(i)
    /\ Kind(i) \in {"start", "stop", "destroy"} \cup Signals => Kind(j) \in {"stop"} \cup Signals
Outermost ==
  \A i \in Calls :
    /\ Kind(i) \in {"run", "httpc_start", "httpc_cleanup"} => i = 1
    /\ Kind(i) = "destroy" => i = 1 \/ (i = 2 /\ Kind(1) = "httpc_cleanup" /\ Place(1) = "clear")
Nested == Placed /\ Innermost /\ Outermost

\* How deep a call can be: three calls before a signal, two for each signal.
Room(i) ==
  IF Kind(i) \in Signals
  THEN i <= 4 \/ (i <= 6 /\ \E sig \in Signals : Below(sig, i))
  ELSE \/ i <= 3
       \/ i <= 5 /\ \E sig \in Signals : Below(sig, i)
       \/ i <= 7 /\ \A sig \in Signals : Below(sig, i)
Shallow == \A i \in Calls : Room(i)

\* start has begun with a CREATED server, and nobody touches that until it returns.
StartKnows ==
  \A i \in Calls : Kind(i) = "start" =>
    /\ Of(i) \in live
    /\ Place(i) # "socket" => srv[Of(i)].state = "CREATED" /\ srv[Of(i)].sock # None
    /\ Place(i) \in {"bind", "epoll"} => srv[Of(i)].epoll = None
    /\ Place(i) = "started" => gsignal = Of(i) /\ latest = Of(i)

Loop == {"handler", "test", "wait", "round", "ended", "settle"}

\* A loop's server is RUNNING or STOPPING, and it waits with a socket or STOPPING.
RunKnows ==
  \A i \in Calls : Kind(i) = "run" =>
    /\ Of(i) \in live
    /\ Place(i) = "running" => srv[Of(i)].state \in {"STARTED", "STOPPING"}
    /\ Place(i) \in Loop => srv[Of(i)].state \in {"RUNNING", "STOPPING"}
    /\ Place(i) \in {"test", "wait", "round"} =>
         srv[Of(i)].sock # None \/ srv[Of(i)].state = "STOPPING"

\* A server being stopped is STOPPING; once signals have forgotten it none that
\* interrupts the stop gets hold of it.
StopKnows ==
  \A i \in Calls : Kind(i) = "stop" /\ Place(i) # "enter" =>
    /\ Of(i) \in live /\ srv[Of(i)].state = "STOPPING"
    /\ Place(i) \in {"close", "closed"} =>
         /\ gsignal # Of(i)
         /\ \A j \in Calls : i < j /\ Kind(j) = "stop" => Of(j) # Of(i)
         /\ \A j \in Calls : i < j /\ Kind(j) \in Signals /\ Place(j) = "stop" => Of(j) # Of(i)

\* What destroy frees has been stopped.
DestroyKnows ==
  \A i \in Calls : Kind(i) = "destroy" =>
    /\ Of(i) \in live
    /\ Of(i) = gdefault <=> i = 2
    /\ Place(i) = "free" =>
         \/ srv[Of(i)].state \in {"CREATED", "STOPPED", "STOPPING"}
         \/ i < Depth /\ Kind(i + 1) = "stop" /\ Of(i + 1) = Of(i) /\ Place(i + 1) = "enter"

\* The default server is there, until httpc_cleanup has destroyed it.
DefaultKnown ==
  /\ gdefault \in live \cup {None} \/ \E i \in Calls : Kind(i) = "httpc_cleanup" /\ Place(i) = "clear"
  /\ \A i \in Calls : Kind(i) = "httpc_start" /\ Place(i) # "create" => gdefault \in live
  /\ \A i \in Calls : Kind(i) = "httpc_cleanup" /\ Place(i) # "clear" => gdefault \in live

CallsKnow == StartKnows /\ RunKnows /\ StopKnows /\ DestroyKnows /\ DefaultKnown

\* A server has the descriptors its state says, and no other server has them.
Held ==
  /\ \A s \in live :
       /\ srv[s].sock # None => srv[s].sock \in open \/ Closing(s)
       /\ srv[s].epoll # None => srv[s].epoll \in open /\ srv[s].epoll # srv[s].sock
       /\ srv[s].state = "CREATED" =>
            \/ srv[s].sock = None /\ srv[s].epoll = None
            \/ \E i \in Calls : Kind(i) = "start" /\ Of(i) = s /\ Place(i) # "socket"
  /\ \A s, t \in live : s # t =>
       {srv[s].sock, srv[s].epoll} \cap {srv[t].sock, srv[t].epoll} \subseteq {None}

RunningLoops ==
  \A s \in live : srv[s].state = "RUNNING" =>
    \E i \in Calls : Kind(i) = "run" /\ Of(i) = s /\ Place(i) \in Loop

Typed ==
  /\ live \subseteq Servers /\ open \subseteq Fds
  /\ srv \in [Servers -> Server] /\ \A s \in live : srv[s].config \in Configs
  /\ gdefault \in Servers \cup {None} /\ gsignal \in Servers \cup {None}
  /\ gconfig \in Configs \cup {Unset} /\ handlers \in BOOLEAN
  /\ stack \in Seq(FrameSet)
  /\ ret \in {-1, 0} /\ latest \in Servers \cup {None} /\ undefined \in BOOLEAN

Knows == CallsKnow /\ Held /\ RunningLoops /\ StopIsComplete /\ SignalReaches

InductiveInvariant == Typed /\ Nested /\ Shallow /\ Knows
-----------------------------------------------------------------------------
(* What a step does to the stack, call by call.                            *)

Same(i) == /\ stack'[i].proc = stack[i].proc /\ stack'[i].srv = stack[i].srv
           /\ stack'[i].at = stack[i].at

\* The innermost call moves on to a place.
Moves(at) ==
  /\ Depth' = Depth
  /\ \A i \in Calls : i # Depth => Same(i)
  /\ stack'[Depth].proc = Top.proc /\ stack'[Depth].srv = Top.srv /\ stack'[Depth].at = at

\* It does so and calls another.
Enters(at, f) ==
  /\ Depth' = Depth + 1
  /\ \A i \in Calls : i # Depth => Same(i)
  /\ stack'[Depth].proc = Top.proc /\ stack'[Depth].srv = Top.srv /\ stack'[Depth].at = at
  /\ stack'[Depth + 1] = f

\* It returns.
Leaves == Depth' = Depth - 1 /\ \A i \in 1 .. Depth - 1 : Same(i)

\* A signal interrupts it.
Interrupts(f) ==
  Depth' = Depth + 1 /\ (\A i \in Calls : Same(i)) /\ stack'[Depth + 1] = f

FramePlaces ==
  {"socket", "bind", "epoll", "table", "publish", "started", "check", "running", "handler", "test",
   "wait", "round", "ended", "settle", "enter", "forget", "close", "closed", "stop", "free",
   "create", "start", "run", "destroy", "clear", "done"}

\* The calls in progress are frames, numbered from 1.
LEMMA StackType ==
  ASSUME Typed
  PROVE  Depth \in Nat /\ (\A i \in Calls : stack[i] \in FrameSet) /\ Calls = DOMAIN stack
BY DEF Typed, Depth, Calls

\* Goto, Call and Return do to the calls in progress what their names say.
LEMMA GotoMoves ==
  ASSUME Typed, Depth > 0, NEW at, Goto(at)
  PROVE  Moves(at)
BY StackType DEF Goto, Moves, Same, Depth, Top, Calls, Typed, FrameSet

LEMMA GotoType ==
  ASSUME Typed, Depth > 0, NEW at, Goto(at), [Top EXCEPT !.at = at] \in FrameSet
  PROVE  stack' \in Seq(FrameSet)
BY StackType DEF Goto, Depth, Top, Calls, Typed

LEMMA CallEnters ==
  ASSUME Typed, Depth > 0, NEW at, NEW f \in FrameSet, Call(at, f)
  PROVE  Enters(at, f)
BY StackType DEF Call, Enters, Same, Depth, Top, Calls, Typed, FrameSet

LEMMA ReturnLeaves ==
  ASSUME Typed, Depth > 0, NEW v \in {-1, 0}, Return(v)
  PROVE  Leaves /\ stack' \in Seq(FrameSet) /\ ret' \in {-1, 0}
<1>1. Depth \in Nat /\ stack \in Seq(FrameSet) /\ Len(stack) = Depth
  BY StackType DEF Typed, Depth
<1>2. CASE Depth = 1
  BY <1>1, <1>2 DEF Return, Leaves, Same, Depth, Typed
<1>3. CASE Depth # 1
  <2> DEFINE lower == SubSeq(stack, 1, Depth - 1)
  <2>1. lower \in Seq(FrameSet) /\ Len(lower) = Depth - 1
        /\ \A i \in 1 .. Depth - 1 : lower[i] = stack[i]
    BY <1>1, <1>3
  <2>2. stack' = [lower EXCEPT ![Depth - 1].val = v] /\ ret' = ret
    BY <1>3 DEF Return
  <2> HIDE DEF lower
  <2>3. Depth - 1 \in DOMAIN lower /\ lower[Depth - 1] \in FrameSet
    BY <1>1, <1>3, <2>1
  <2>4. [lower[Depth - 1] EXCEPT !.val = v] \in FrameSet
    BY <2>3 DEF FrameSet
  <2>5. stack' \in Seq(FrameSet) /\ Len(stack') = Depth - 1
    BY <2>1, <2>2, <2>3, <2>4
  <2>6. \A i \in 1 .. Depth - 1 : Same(i)
    BY <2>1, <2>2, <2>3 DEF Same, FrameSet
  <2> QED BY <2>2, <2>5, <2>6 DEF Leaves, Depth, Typed
<1> QED BY <1>2, <1>3

\* The frame of a call is a frame.
LEMMA FrameType ==
  ASSUME NEW proc \in Procs, NEW s \in Servers \cup {None},
         NEW at \in {"socket", "check", "enter", "stop", "create", "test"}
  PROVE  Frame(proc, s, at) \in FrameSet
BY DEF Frame, FrameSet

\* A signal puts its handler on top of the calls, and takes it away again.
LEMMA DeliverInterrupts ==
  ASSUME Typed, NEW sig \in Signals, Deliver(sig)
  PROVE  Interrupts(Frame(sig, None, "test")) /\ stack' \in Seq(FrameSet)
<1>1. Frame(sig, None, "test") \in FrameSet
  BY FrameType DEF Procs
<1> QED BY <1>1, StackType DEF Deliver, Interrupts, Same, Depth, Calls, Typed

LEMMA SignalDoneLeaves ==
  ASSUME Typed, NEW sig \in Signals, SignalDone(sig)
  PROVE  Leaves /\ stack' \in Seq(FrameSet)
<1> DEFINE lower == SubSeq(stack, 1, Depth - 1)
<1>1. Depth \in Nat /\ Depth > 0 /\ stack \in Seq(FrameSet) /\ Len(stack) = Depth /\ stack' = lower
  BY StackType DEF Typed, Depth, SignalDone, At
<1>2. lower \in Seq(FrameSet) /\ Len(lower) = Depth - 1 /\ \A i \in 1 .. Depth - 1 : lower[i] = stack[i]
  BY <1>1
<1> HIDE DEF lower
<1> QED BY <1>1, <1>2 DEF Leaves, Same, Depth

-----------------------------------------------------------------------------
(* The shape of the stack.                                                 *)

\* The room that the calls below leave a call does not change with those above.
LEMMA RoomStays ==
  ASSUME Typed, Depth' \in Nat, NEW n \in Nat, n <= Depth, n <= Depth',
         \A k \in 1 .. n : stack'[k].proc = stack[k].proc,
         NEW i \in 1 .. n
  PROVE  Room(i)' <=> Room(i)
<1>1. Depth \in Nat /\ 1 .. n \subseteq 1 .. Depth /\ 1 .. n \subseteq 1 .. Depth'
  BY StackType
<1>2. ASSUME NEW sig
      PROVE  Below(sig, i)' <=> Below(sig, i)
  <2>1. Below(sig, i) <=> \E k \in 1 .. n : k < i /\ stack[k].proc = sig
    BY <1>1 DEF Below, Calls, Kind
  <2>2. Below(sig, i)' <=> \E k \in 1 .. n : k < i /\ stack'[k].proc = sig
    BY <1>1 DEF Below, Calls, Kind
  <2> QED BY <2>1, <2>2
<1> QED BY <1>2 DEF Room, Kind

\* A call may move to any place of its own.
LEMMA MovesShape ==
  ASSUME Typed, Depth > 0, Nested, Shallow, NEW at, Moves(at), at \in Places[Top.proc]
  PROVE  Nested' /\ Shallow'
<1> USE StackType DEF Moves, Same, Top, Calls
<1>1. Nested'
  BY DEF Nested, Placed, Innermost, Outermost, Kind, Place
<1>2. \A i \in 1 .. Depth : Room(i)' <=> Room(i)
  <2>1. Depth' \in Nat /\ Depth <= Depth' /\ \A k \in 1 .. Depth : stack'[k].proc = stack[k].proc
    OBVIOUS
  <2> QED BY <2>1, RoomStays
<1> QED BY <1>1, <1>2 DEF Shallow

\* What is left when a call returns is nested as before.
LEMMA LeavesShape ==
  ASSUME Typed, Depth > 0, Nested, Shallow, Leaves
  PROVE  Nested' /\ Shallow'
<1> USE StackType DEF Leaves, Same, Calls
<1>1. Nested'
  BY DEF Nested, Placed, Innermost, Outermost, Kind, Place
<1>2. \A i \in 1 .. Depth - 1 : Room(i)' <=> Room(i)
  <2>1. Depth - 1 \in Nat /\ Depth' \in Nat /\ Depth - 1 <= Depth' /\ Depth - 1 <= Depth
        /\ \A k \in 1 .. Depth - 1 : stack'[k].proc = stack[k].proc
    OBVIOUS
  <2> QED BY <2>1, RoomStays
<1> QED BY <1>1, <1>2 DEF Shallow

\* A call is pushed on a call that may make it.
LEMMA EntersShape ==
  ASSUME Typed, Depth > 0, Nested, Shallow, NEW at, NEW f, Enters(at, f),
         at \in Places[Top.proc], f.at \in Places[f.proc],
         \/ f.proc = "stop" /\ Top.proc \in {"run", "destroy", "httpc_cleanup"} \cup Signals
         \/ f.proc = "start" /\ Top.proc \in {"run", "httpc_start"}
         \/ f.proc = "destroy" /\ Top.proc = "httpc_cleanup" /\ at = "clear"
  PROVE  Nested' /\ Shallow'
<1> USE StackType DEF Enters, Same, Top, Calls, Signals
<1>0. PICK n \in Nat : n = Depth + 1
  OBVIOUS
<1>1. Placed' /\ Outermost' /\ Innermost'
  <2>1. Placed'
    BY DEF Nested, Placed, Kind, Place
  <2>2. Outermost'
    BY DEF Nested, Outermost, Kind, Place
  <2>3. ASSUME NEW i \in Calls
        PROVE  /\ Kind(i) \in Signals => f.proc # Kind(i)
               /\ Kind(i) \in {"start", "stop", "destroy"} \cup Signals =>
                    f.proc \in {"stop"} \cup Signals
    BY DEF Nested, Innermost, Outermost, Kind
  <2>4. Innermost'
    BY <2>3 DEF Nested, Innermost, Kind
  <2> QED BY <2>1, <2>2, <2>4
<1>2. \A i \in 1 .. Depth : Room(i)' <=> Room(i)
  <2>1. Depth' \in Nat /\ Depth <= Depth' /\ \A k \in 1 .. Depth : stack'[k].proc = stack[k].proc
    OBVIOUS
  <2> QED BY <2>1, RoomStays
<1>3. Room(n)'
  <2>1. f.proc \notin Signals
    OBVIOUS
  <2>2. CASE Top.proc \notin Signals
    <3>1. Depth <= 2
      BY <2>2 DEF Nested, Outermost, Kind
    <3> QED BY <1>0, <2>1, <3>1 DEF Room, Kind
  <2>3. CASE Top.proc \in Signals
    <3>1. \A sig : Below(sig, Depth) \/ sig = Top.proc => Below(sig, n)'
      BY <1>0 DEF Below, Kind
    <3>2. Room(Depth)
      BY DEF Shallow
    <3>3. Depth <= 4 \/ (Depth <= 6 /\ \E sig \in Signals : Below(sig, Depth) /\ sig # Top.proc)
      BY <2>3, <3>2 DEF Room, Kind, Below, Nested, Innermost
    <3>4. CASE Depth <= 4
      <4>1. Depth + 1 <= 5 /\ \E sig \in Signals : Below(sig, n)'
        BY <1>0, <2>3, <3>1, <3>4
      <4> QED BY <1>0, <2>1, <4>1 DEF Room, Kind
    <3>5. CASE Depth <= 6 /\ \E sig \in Signals : Below(sig, Depth) /\ sig # Top.proc
      <4>1. Depth + 1 <= 7 /\ \A sig \in Signals : Below(sig, n)'
        BY <1>0, <2>3, <3>1, <3>5
      <4> QED BY <1>0, <2>1, <4>1 DEF Room, Kind
    <3> QED BY <3>3, <3>4, <3>5
  <2> QED BY <2>2, <2>3
<1>4. Shallow'
  <2>1. \A i \in 1 .. Depth' : i \in 1 .. Depth \/ i = n
    BY <1>0
  <2> QED BY <1>2, <1>3, <2>1 DEF Shallow
<1> QED BY <1>1, <1>4 DEF Nested

\* A signal may interrupt anything but its own handler.
LEMMA InterruptsShape ==
  ASSUME Typed, Nested, Shallow, NEW sig \in Signals, Interrupts(Frame(sig, None, "test")),
         \A i \in Calls : Kind(i) # sig
  PROVE  Nested' /\ Shallow'
<1> USE StackType DEF Interrupts, Frame, Same, Calls, Signals
<1>0. PICK n \in Nat : n = Depth + 1
  OBVIOUS
<1>1. Placed' /\ Outermost' /\ Innermost'
  <2>1. Placed'
    BY DEF Nested, Placed, Places, Kind, Place
  <2>2. Outermost'
    BY DEF Nested, Outermost, Kind, Place
  <2>3. Innermost'
    BY DEF Nested, Innermost, Kind
  <2> QED BY <2>1, <2>2, <2>3
<1>2. \A i \in 1 .. Depth : Room(i)' <=> Room(i)
  <2>1. Depth' \in Nat /\ Depth <= Depth' /\ \A k \in 1 .. Depth : stack'[k].proc = stack[k].proc
    OBVIOUS
  <2> QED BY <2>1, RoomStays
<1>3. Room(n)'
  <2>1. CASE Depth = 0
    BY <1>0, <2>1 DEF Room, Kind
  <2>2. CASE Depth > 0
    <3>1. \A g : Below(g, Depth) \/ g = Top.proc => Below(g, n)'
      BY <1>0, <2>2 DEF Below, Kind, Top
    <3>2. Room(Depth)
      BY <2>2 DEF Shallow
    <3>3. ~Below(sig, Depth) /\ Top.proc # sig
      BY <2>2 DEF Below, Kind, Top
    <3>4. Depth + 1 <= 4 \/ (Depth + 1 <= 6 /\ \E g \in Signals : Below(g, Depth) \/ g = Top.proc)
      <4>1. Top.proc \in Signals => ~Below(Top.proc, Depth)
        BY <2>2 DEF Nested, Innermost, Below, Kind, Top
      <4> QED BY <3>2, <3>3, <4>1 DEF Room, Kind, Top
    <3> QED BY <1>0, <3>1, <3>4 DEF Room, Kind
  <2> QED BY <2>1, <2>2
<1>4. Shallow'
  <2>1. \A i \in 1 .. Depth' : i \in 1 .. Depth \/ i = n
    BY <1>0
  <2> QED BY <1>2, <1>3, <2>1 DEF Shallow
<1> QED BY <1>1, <1>4 DEF Nested

\* What Goto and Return do.
LEMMA Stepping ==
  ASSUME Typed, Depth > 0
  PROVE  /\ \A at \in FramePlaces : Goto(at) => Moves(at) /\ stack' \in Seq(FrameSet) /\ ret' = ret
         /\ \A v \in {-1, 0} : Return(v) => Leaves /\ stack' \in Seq(FrameSet) /\ ret' \in {-1, 0}
<1>1. ASSUME NEW at \in FramePlaces, Goto(at)
      PROVE  Moves(at) /\ stack' \in Seq(FrameSet) /\ ret' = ret
  <2>1. [Top EXCEPT !.at = at] \in FrameSet
    BY StackType DEF Top, Calls, FrameSet, FramePlaces
  <2> QED BY <1>1, <2>1, GotoMoves, GotoType DEF Goto
<1> QED BY <1>1, ReturnLeaves

\* A call that returns without having changed anything.
LEMMA LeavesQuietly ==
  ASSUME Typed, Nested, Knows, Depth > 0, Leaves,
         UNCHANGED <<live, srv, open, gdefault, gsignal, latest>>,
         Top.proc = "start" => Top.at = "socket",
         Top.proc = "run" => srv[Top.srv].state # "RUNNING",
         Top.proc = "stop" /\ Top.srv \in live =>
           \/ srv[Top.srv].state \in {"CREATED", "STOPPED"} /\ Top.at # "closed"
           \/ srv[Top.srv].state = "STOPPING" /\ srv[Top.srv].sock = None /\ gsignal # Top.srv,
         Top.proc = "httpc_cleanup" => Top.at # "clear"
  PROVE  Knows'
<1>1. Depth \in Nat
  BY StackType
<1> USE <1>1 DEF Leaves, Same, Top, Calls, Kind, Of, Place, Knows, CallsKnow
<1>2. StartKnows'
  BY DEF StartKnows
<1>3. RunKnows'
  BY DEF RunKnows
<1>4. StopKnows'
  BY DEF StopKnows
<1>5. DestroyKnows'
  BY DEF DestroyKnows
<1>6. DefaultKnown'
  BY DEF DefaultKnown
<1>7. Held'
  BY DEF Held, Closing
<1>8. RunningLoops'
  BY DEF RunningLoops
<1>9. StopIsComplete'
  BY DEF StopIsComplete, Active
<1>10. SignalReaches'
  BY DEF SignalReaches
<1> QED BY <1>2, <1>3, <1>4, <1>5, <1>6, <1>7, <1>8, <1>9, <1>10

\* A call that moves on without having changed anything.
LEMMA MovesQuietly ==
  ASSUME Typed, Nested, Knows, Depth > 0, NEW at, Moves(at),
         UNCHANGED <<live, srv, open, gdefault, gsignal, latest>>,
         Top.proc \in {"run", "httpc_start"} \cup Signals,
         Top.proc = "run" /\ at = "running" => srv[Top.srv].state \in {"STARTED", "STOPPING"},
         Top.proc = "run" /\ at \in Loop => Top.at \in Loop,
         Top.proc = "run" /\ Top.at \in Loop => at \in Loop,
         Top.proc = "run" /\ at \in {"test", "wait", "round"} =>
           srv[Top.srv].sock # None \/ srv[Top.srv].state = "STOPPING",
         Top.proc = "httpc_start" => gdefault \in live,
         Top.proc \in Signals => at # "stop"
  PROVE  Knows'
<1>1. Depth \in Nat
  BY StackType
<1> USE <1>1 DEF Moves, Same, Top, Calls, Kind, Of, Place, Knows, CallsKnow, Signals
<1>2. StartKnows'
  BY DEF StartKnows
<1>3. RunKnows'
  BY DEF RunKnows
<1>4. StopKnows'
  BY DEF StopKnows
<1>5. DestroyKnows'
  BY DEF DestroyKnows
<1>6. DefaultKnown'
  BY DEF DefaultKnown
<1>7. Held'
  BY DEF Held, Closing
<1>8. RunningLoops'
  BY DEF RunningLoops
<1>9. StopIsComplete'
  BY DEF StopIsComplete, Active
<1>10. SignalReaches'
  BY DEF SignalReaches
<1> QED BY <1>2, <1>3, <1>4, <1>5, <1>6, <1>7, <1>8, <1>9, <1>10

\* A call that calls another.
LEMMA EntersQuietly ==
  ASSUME Typed, Nested, Nested', Knows, Depth > 0, NEW at, NEW f, Enters(at, f),
         UNCHANGED <<live, srv, open, gdefault, gsignal, latest>>,
         Top.proc \in {"run", "destroy", "httpc_start", "httpc_cleanup"} \cup Signals,
         Top.proc = "run" => at = Top.at,
         Top.proc = "destroy" => f.proc = "stop" /\ f.at = "enter" /\ f.srv = Top.srv,
         Top.proc \in {"httpc_start", "httpc_cleanup"} => gdefault \in live,
         Top.proc \in Signals =>
           at # "stop" /\ f.proc = "stop" /\ f.srv \in {Top.srv, gsignal} /\ Top.at = "stop",
         f.proc \in {"start", "stop", "destroy"},
         f.proc = "start" => f.at = "socket" /\ f.srv \in live,
         f.proc = "stop" => f.at = "enter",
         f.proc = "destroy" => f.at = "stop" /\ f.srv = gdefault /\ Top.proc = "httpc_cleanup"
  PROVE  Knows'
<1>1. Depth \in Nat
  BY StackType
<1> USE <1>1 DEF Enters, Same, Top, Calls, Kind, Of, Place, Knows, CallsKnow, Signals
<1>2. StartKnows'
  BY DEF StartKnows
<1>3. RunKnows'
  BY DEF RunKnows, Nested, Outermost
<1>4. StopKnows'
  BY DEF StopKnows, Nested, Innermost
<1>5. DestroyKnows'
  BY DEF DestroyKnows, Nested, Outermost
<1>6. DefaultKnown'
  BY DEF DefaultKnown
<1>7. Held'
  BY DEF Held, Closing
<1>8. RunningLoops'
  BY DEF RunningLoops
<1>9. StopIsComplete'
  BY DEF StopIsComplete, Active
<1>10. SignalReaches'
  BY DEF SignalReaches
<1> QED BY <1>2, <1>3, <1>4, <1>5, <1>6, <1>7, <1>8, <1>9, <1>10

\* A signal.
LEMMA InterruptsQuietly ==
  ASSUME Typed, Knows, NEW sig \in Signals, Interrupts(Frame(sig, None, "test")),
         UNCHANGED <<live, srv, open, gdefault, gsignal, latest>>
  PROVE  Knows'
<1>1. Depth \in Nat
  BY StackType
<1> USE <1>1 DEF Interrupts, Frame, Same, Calls, Kind, Of, Place, Knows, CallsKnow, Signals
<1>2. StartKnows'
  BY DEF StartKnows
<1>3. RunKnows'
  BY DEF RunKnows
<1>4. StopKnows'
  BY DEF StopKnows
<1>5. DestroyKnows'
  BY DEF DestroyKnows
<1>6. DefaultKnown'
  BY DEF DefaultKnown
<1>7. Held'
  BY DEF Held, Closing
<1>8. RunningLoops'
  BY DEF RunningLoops
<1>9. StopIsComplete'
  BY DEF StopIsComplete, Active
<1>10. SignalReaches'
  BY DEF SignalReaches
<1> QED BY <1>2, <1>3, <1>4, <1>5, <1>6, <1>7, <1>8, <1>9, <1>10
-----------------------------------------------------------------------------
(* Every step keeps the shape of the stack and the types.                  *)

StackInv == Nested /\ Shallow /\ stack \in Seq(FrameSet) /\ ret \in {-1, 0}

\* Moving on within a call, and returning.
LEMMA StepShape ==
  ASSUME Typed, Nested, Shallow, Depth > 0,
         \/ \E at \in FramePlaces : at \in Places[Top.proc] /\ Goto(at)
         \/ \E v \in {-1, 0} : Return(v)
  PROVE  StackInv'
<1>1. CASE \E at \in FramePlaces : at \in Places[Top.proc] /\ Goto(at)
  BY <1>1, Stepping, MovesShape DEF StackInv, Typed
<1>2. CASE \E v \in {-1, 0} : Return(v)
  BY <1>2, Stepping, LeavesShape DEF StackInv
<1> QED BY <1>1, <1>2

\* Making a call.
LEMMA CallShape ==
  ASSUME Typed, Nested, Shallow, Depth > 0, NEW at \in FramePlaces, at \in Places[Top.proc],
         NEW proc, NEW s \in Servers \cup {None}, NEW place,
         \/ proc = "stop" /\ place = "enter"
              /\ Top.proc \in {"run", "destroy", "httpc_cleanup"} \cup Signals
         \/ proc = "start" /\ place = "socket" /\ Top.proc \in {"run", "httpc_start"}
         \/ proc = "destroy" /\ place = "stop" /\ Top.proc = "httpc_cleanup" /\ at = "clear",
         Call(at, Frame(proc, s, place))
  PROVE  StackInv' /\ Enters(at, Frame(proc, s, place))
<1> DEFINE f == Frame(proc, s, place)
<1>1. f \in FrameSet
  BY FrameType DEF Procs
<1>2. Enters(at, f)
  BY <1>1, CallEnters
<1>3. f.proc = proc /\ f.at = place /\ place \in Places[proc]
  BY DEF Frame, Places
<1>4. Nested' /\ Shallow'
  BY <1>2, <1>3, EntersShape
<1>5. /\ [Top EXCEPT !.at = at] \in FrameSet
      /\ Depth \in Nat /\ stack \in Seq(FrameSet) /\ Depth = Len(stack)
  BY StackType DEF Top, Calls, FrameSet, FramePlaces, Typed, Depth
<1>6. [stack EXCEPT ![Depth].at = at] \in Seq(FrameSet)
  BY <1>5 DEF Top
<1>7. stack' \in Seq(FrameSet) /\ ret' \in {-1, 0}
  BY <1>1, <1>6 DEF Call, Typed
<1> QED BY <1>2, <1>4, <1>7 DEF StackInv

\* Nothing happens to the calls.
LEMMA SameShape ==
  ASSUME Typed, Nested, Shallow, UNCHANGED stack, ret' \in {-1, 0}
  PROVE  StackInv'
BY DEF Typed, StackInv, Nested, Placed, Innermost, Outermost, Shallow, Room, Below, Kind, Place,
     Calls, Depth

\* Every step of the library keeps the shape of the stack.
LEMMA LibraryShape ==
  ASSUME Typed, Nested, Shallow, Start \/ Run \/ Stop \/ DestroyStop \/ DestroyFree \/ DefaultServer
  PROVE  StackInv'
<1> USE StepShape, CallShape DEF At, FramePlaces, Places
<1>1. CASE StartSocket
  BY <1>1 DEF StartSocket
<1>2. CASE StartBind
  BY <1>2 DEF StartBind
<1>3. CASE StartEpoll
  BY <1>3 DEF StartEpoll
<1>4. CASE StartTable
  BY <1>4 DEF StartTable
<1>5. CASE StartPublish
  BY <1>5 DEF StartPublish
<1>6. CASE Started
  BY <1>6 DEF Started
<1>7. CASE RunCheck
  BY <1>7 DEF RunCheck
<1>8. CASE RunRunning
  BY <1>8 DEF RunRunning
<1>9. CASE RunHandler
  BY <1>9 DEF RunHandler
<1>10. CASE RunTest
  BY <1>10 DEF RunTest
<1>11. CASE RunWait
  BY <1>11 DEF RunWait
<1>12. CASE RunRound
  BY <1>12 DEF RunRound
<1>13. CASE RunEnded
  BY <1>13 DEF RunEnded
<1>14. CASE RunSettles
  BY <1>14 DEF RunSettles
<1>15. CASE StopForget
  BY <1>15 DEF StopForget
<1>16. CASE StopClose
  BY <1>16 DEF StopClose
<1>17. CASE StopClosed
  BY <1>17 DEF StopClosed
<1>18. CASE DestroyFree
  BY <1>18 DEF DestroyFree
<1>19. CASE DefaultCreate
  BY <1>19 DEF DefaultCreate
<1>20. CASE CleanupClear
  BY <1>20 DEF CleanupClear
<1>21. CASE StopEnter
  <2>1. CASE UNCHANGED <<stack, ret>>
    BY <2>1, SameShape DEF Typed
  <2>2. CASE ~UNCHANGED <<stack, ret>>
    BY <1>21, <2>2 DEF StopEnter
  <2> QED BY <2>1, <2>2
<1>22. CASE RunCallback
  <2>1. PICK s \in live, proc \in {"start", "stop"} :
          Call(Top.at, Frame(proc, s, IF proc = "start" THEN "socket" ELSE "enter"))
    BY <1>22 DEF RunCallback
  <2>2. Depth > 0 /\ Top.proc = "run" /\ Top.at \in {"handler", "round"}
    BY <1>22 DEF RunCallback
  <2>3. s \in Servers \cup {None}
    BY DEF Typed
  <2> QED BY <2>1, <2>2, <2>3
<1>23. CASE DestroyStop
  <2>1. Top.srv \in Servers \cup {None}
    BY <1>23, StackType DEF DestroyStop, Top, Calls, FrameSet
  <2> QED BY <1>23, <2>1 DEF DestroyStop
<1>24. CASE DefaultStart
  BY <1>24 DEF DefaultStart, Typed
<1>25. CASE CleanupStop
  BY <1>25 DEF CleanupStop, Typed
<1>26. CASE CleanupDestroy
  BY <1>26 DEF CleanupDestroy, Typed
<1>27. CASE DefaultRun
  <2>1. CASE stack' = [stack EXCEPT ![Depth] = Frame("run", gdefault, "check")] /\ ret' = ret
    <3>1. Frame("run", gdefault, "check") \in FrameSet
      BY FrameType DEF Typed, Procs
    <3>2. Depth = 1
      BY <1>27, StackType DEF DefaultRun, Nested, Outermost, Kind, Top, Calls
    <3>3. stack \in Seq(FrameSet) /\ Len(stack) = 1
      BY <3>2 DEF Typed, Depth
    <3>4. stack' \in Seq(FrameSet) /\ Len(stack') = 1 /\ stack'[1] = Frame("run", gdefault, "check")
      BY <2>1, <3>1, <3>2, <3>3
    <3> HIDE StepShape, CallShape
    <3>5. Depth' = 1 /\ stack'[1].proc = "run" /\ stack'[1].at = "check"
      BY <3>4 DEF Frame, Depth
    <3>6. Nested'
      BY <3>5 DEF Nested, Placed, Innermost, Outermost, Calls, Kind, Place
    <3>7. Shallow'
      BY <3>5 DEF Shallow, Room, Calls, Kind, Signals
    <3> QED BY <2>1, <3>4, <3>6, <3>7 DEF StackInv, Typed
  <2>2. CASE Return(-1)
    BY <1>27, <2>2 DEF DefaultRun
  <2> QED BY <1>27, <2>1, <2>2 DEF DefaultRun
<1> QED BY <1>1, <1>2, <1>3, <1>4, <1>5, <1>6, <1>7, <1>8, <1>9, <1>10, <1>11, <1>12, <1>13, <1>14,
        <1>15, <1>16, <1>17, <1>18, <1>19, <1>20, <1>21, <1>22, <1>23, <1>24, <1>25, <1>26, <1>27
       DEF Start, Run, Stop, DefaultServer

\* So does the signal handler.
LEMMA SignalShape ==
  ASSUME Typed, Nested, Shallow, NEW sig \in Signals, SignalHandler(sig)
  PROVE  StackInv'
<1>1. CASE Deliver(sig)
  BY <1>1, DeliverInterrupts, InterruptsShape DEF Deliver, Calls, Kind, StackInv, Typed
<1>2. CASE SignalTest(sig)
  <2>1. /\ Depth \in Nat /\ Depth > 0 /\ Top.proc = sig /\ Top \in FrameSet /\ Depth = Len(stack)
        /\ stack \in Seq(FrameSet) /\ gsignal \in Servers \cup {None}
    BY <1>2, StackType DEF SignalTest, At, Top, Calls, Typed, Depth
  <2>2. PICK at \in {"done", "stop"} : stack' = [stack EXCEPT ![Depth].at = at, ![Depth].srv = gsignal]
    BY <1>2 DEF SignalTest
  <2>3. [Top EXCEPT !.at = at, !.srv = gsignal] \in FrameSet
    BY <2>1, <2>2 DEF FrameSet
  <2>4. /\ Depth' = Depth /\ \A i \in Calls : i # Depth => Same(i)
        /\ stack'[Depth].proc = sig /\ stack'[Depth].at = at /\ stack' \in Seq(FrameSet)
    <3> DEFINE g == [Top EXCEPT !.at = at, !.srv = gsignal]
    <3>1. stack' = [stack EXCEPT ![Depth] = g]
      BY <2>2 DEF Top
    <3>2. g.proc = sig /\ g.at = at
      BY <2>1 DEF FrameSet
    <3> HIDE DEF g
    <3>3. g \in FrameSet
      BY <2>3 DEF g
    <3>4. stack' \in Seq(FrameSet) /\ Len(stack') = Len(stack) /\ stack'[Depth] = g
          /\ \A i \in 1 .. Depth : i # Depth => stack'[i] = stack[i]
      BY <2>1, <3>1, <3>3
    <3> QED BY <2>1, <3>2, <3>4 DEF Depth, Calls, Same
  <2>5. at \in Places[sig]
    BY <2>2 DEF Places, Signals
  <2>6. Placed' /\ Innermost' /\ Outermost'
    <3> USE <2>1, <2>4, <2>5 DEF Nested, Calls, Kind, Place, Same, Top
    <3>1. Placed'
      BY DEF Placed
    <3>2. Innermost'
      BY DEF Innermost
    <3>3. Outermost'
      BY DEF Outermost, Signals
    <3> QED BY <3>1, <3>2, <3>3
  <2>7. \A i \in 1 .. Depth : Room(i)' <=> Room(i)
    <3>1. \A k \in 1 .. Depth : stack'[k].proc = stack[k].proc
      BY <2>1, <2>4 DEF Calls, Same, Top
    <3> QED BY <2>1, <2>4, <3>1, RoomStays
  <2> QED BY <1>2, <2>4, <2>6, <2>7 DEF StackInv, Nested, Shallow, Calls, SignalTest, Typed
<1>3. CASE SignalStop(sig)
  <2>1. PICK s \in {Top.srv, gsignal} : Call("done", Frame("stop", s, "enter"))
    BY <1>3 DEF SignalStop
  <2>2. s \in Servers \cup {None} /\ Depth > 0 /\ Top.proc = sig
    BY <1>3, StackType DEF SignalStop, At, Top, Calls, FrameSet, Typed
  <2> QED BY <2>1, <2>2, CallShape DEF Places, FramePlaces, Signals
<1>4. CASE SignalDone(sig)
  BY <1>4, SignalDoneLeaves, LeavesShape DEF SignalDone, At, StackInv, Typed
<1> QED BY <1>1, <1>2, <1>3, <1>4 DEF SignalHandler

\* So do the application's calls.
LEMMA ApplicationShape ==
  ASSUME Typed, Nested, Shallow, Application
  PROVE  StackInv'
<1>1. CASE UNCHANGED stack /\ ret' \in {-1, 0}
  BY <1>1, SameShape
<1>2. ASSUME NEW proc \in Procs, NEW s \in Servers \cup {None},
             NEW at \in {"socket", "check", "enter", "stop", "create"},
             at \in Places[proc], proc \notin Signals,
             Invoke(proc, s, at)
      PROVE  StackInv'
  <2>1. stack' = <<Frame(proc, s, at)>> /\ Frame(proc, s, at) \in FrameSet /\ ret' = ret
    BY <1>2, FrameType DEF Invoke
  <2>2. stack' \in Seq(FrameSet) /\ Depth' = 1 /\ stack'[1].proc = proc /\ stack'[1].at = at
    BY <2>1 DEF Depth, Frame
  <2>3. Nested'
    BY <1>2, <2>2 DEF Nested, Placed, Innermost, Outermost, Calls, Kind, Place
  <2>4. Shallow'
    BY <1>2, <2>2 DEF Shallow, Room, Calls, Kind
  <2> QED BY <2>1, <2>2, <2>3, <2>4 DEF StackInv, Typed
<1>3. live \subseteq Servers
  BY DEF Typed
<1>4. CASE \/ HttpcInit
           \/ \E c \in Configs : HttpcConfigure(c) \/ \E s \in Servers : HttpcServerCreate(s, c)
  BY <1>1, <1>4 DEF HttpcInit, HttpcConfigure, HttpcServerCreate, Typed
<1>5. CASE \E s \in live : \/ Invoke("start", s, "socket")
                           \/ Invoke("run", s, "check")
                           \/ Invoke("stop", s, "enter")
  BY <1>2, <1>3, <1>5 DEF Procs, Places, Signals
<1>6. CASE \E s \in live : Invoke("destroy", s, "stop")
  BY <1>2, <1>3, <1>6 DEF Procs, Places, Signals
<1>7. CASE Invoke("httpc_start", None, "create") \/ Invoke("httpc_cleanup", None, "stop")
  BY <1>2, <1>7 DEF Procs, Places, Signals
<1> QED BY <1>4, <1>5, <1>6, <1>7 DEF Application

-----------------------------------------------------------------------------
(* What start, run, stop and destroy change.                               *)

\* Only s changes, to this.
Becomes(s, state, sock, epoll) ==
  /\ srv'[s].state = state /\ srv'[s].sock = sock /\ srv'[s].epoll = epoll
  /\ \A t \in live : t # s => srv'[t] = srv[t]

\* Nothing but start's callers is below start.
LEMMA StartAlone ==
  ASSUME Typed, Nested, Depth > 0, Top.proc = "start"
  PROVE  \A i \in Calls : i # Depth => Kind(i) \in {"run", "httpc_start", "httpc_cleanup"}
BY StackType DEF Nested, Innermost, Top, Calls, Kind, Typed, FrameSet, Procs, Signals

\* start changes only the server it works on, which no other call knows anything of.
LEMMA StartKeeps ==
  ASSUME Typed, Nested, Knows, Start
  PROVE  Knows'
<1> DEFINE s == Top.srv
<1>1. Depth \in Nat /\ Depth > 0 /\ Top.proc = "start" /\ s \in live
  BY StackType DEF Start, StartSocket, StartBind, StartEpoll, StartTable, StartPublish, Started, At,
                   Knows, CallsKnow, StartKnows, Top, Calls, Kind, Of
<1>2. /\ Top.at \in {"bind", "epoll", "table", "publish", "started"} =>
           srv[s].state = "CREATED" /\ srv[s].sock # None
      /\ Top.at \in {"bind", "epoll"} => srv[s].epoll = None
      /\ Top.at = "started" => gsignal = s /\ latest = s
  BY <1>1 DEF Knows, CallsKnow, StartKnows, Top, Calls, Kind, Of, Place
<1>3. \A i \in Calls : i # Depth => Kind(i) \in {"run", "httpc_start", "httpc_cleanup"}
  BY <1>1, StartAlone
<1>4. srv \in [Servers -> Server] /\ live \subseteq Servers /\ open \subseteq Fds
  BY DEF Typed
<1>5. /\ \A at \in FramePlaces : Goto(at) => Moves(at)
      /\ \A v \in {-1, 0} : Return(v) => Leaves
  BY <1>1, Stepping
<1> USE <1>1, <1>3 DEF Knows, CallsKnow, Moves, Leaves, Same, Top, Calls, Kind, Of, Place
<1>6. CASE StartSocket
  <2>1. Top.at = "socket" /\ UNCHANGED <<live, gdefault, gsignal, latest>>
    BY <1>6 DEF StartSocket, At, globals, history
  <2>2. CASE Return(-1) /\ UNCHANGED <<srv, open>>
    BY <1>5, <2>1, <2>2, LeavesQuietly
  <2>3. CASE srv[s].state = "CREATED" /\ Goto("bind") /\ \E fd \in Fds :
               FreeFd(fd) /\ open' = open \cup {fd} /\ srv' = [srv EXCEPT ![s].sock = fd]
    <3>1. PICK fd \in Fds : FreeFd(fd) /\ open' = open \cup {fd} /\ srv' = [srv EXCEPT ![s].sock = fd]
      BY <2>3
    <3>2. fd # None /\ fd \notin open
      BY <3>1 DEF FreeFd, Fds
    <3>3. srv[s].epoll = None /\ srv[s].sock = None /\ srv[s].state = "CREATED"
      BY <2>1, <2>3 DEF Held
    <3>4. Becomes(s, "CREATED", fd, None)
      BY <1>4, <3>1, <3>3 DEF Becomes, Server
    <3>5. Moves("bind")
      BY <1>5, <2>3 DEF FramePlaces
    <3>6. /\ srv'[s].state = "CREATED" /\ srv'[s].sock = fd /\ srv'[s].epoll = None
          /\ \A t \in live : t # s => srv'[t] = srv[t]
      BY <3>4 DEF Becomes
    <3>7. StartKnows'
      BY <2>1, <3>1, <3>2, <3>3, <3>5, <3>6 DEF StartKnows
    <3>8. RunKnows'
      BY <2>1, <3>1, <3>2, <3>3, <3>5, <3>6 DEF RunKnows
    <3>9. StopKnows'
      BY <2>1, <3>1, <3>2, <3>3, <3>5, <3>6 DEF StopKnows
    <3>10. DestroyKnows'
      BY <2>1, <3>1, <3>2, <3>3, <3>5, <3>6 DEF DestroyKnows
    <3>11. DefaultKnown'
      BY <2>1, <3>1, <3>2, <3>3, <3>5, <3>6 DEF DefaultKnown
    <3>12. Held'
      BY <2>1, <3>1, <3>2, <3>3, <3>5, <3>6 DEF Held, Closing
    <3>13. RunningLoops'
      BY <2>1, <3>1, <3>2, <3>3, <3>5, <3>6 DEF RunningLoops
    <3>14. StopIsComplete'
      BY <2>1, <3>1, <3>2, <3>3, <3>5, <3>6 DEF StopIsComplete, Active
    <3>15. SignalReaches'
      BY <2>1, <3>1, <3>2, <3>3, <3>5, <3>6 DEF SignalReaches
    <3> QED BY <3>7, <3>8, <3>9, <3>10, <3>11, <3>12, <3>13, <3>14, <3>15
  <2> QED BY <1>6, <2>2, <2>3 DEF StartSocket
<1>7. CASE StartBind
  <2>1. Top.at = "bind" /\ UNCHANGED <<live, gdefault, gsignal, latest>>
    BY <1>7 DEF StartBind, At, globals, history
  <2>2. CASE GiveUpSocket(s) /\ Return(-1)
    <3>1. open' = open \ {srv[s].sock} /\ Becomes(s, "CREATED", None, None) /\ Leaves
      BY <1>2, <1>4, <1>5, <2>1, <2>2 DEF GiveUpSocket, Becomes, Server
    <3>2. /\ srv'[s].state = "CREATED" /\ srv'[s].sock = None /\ srv'[s].epoll = None
          /\ \A t \in live : t # s => srv'[t] = srv[t]
      BY <3>1 DEF Becomes
    <3>3. \A i \in Calls : Kind(i) = "run" /\ Place(i) \in {"running"} \cup Loop => Of(i) # s
      BY <1>2, <2>1 DEF RunKnows
    <3>4. ASSUME NEW t \in live, t # s
          PROVE  /\ srv[t].sock # None => srv[t].sock \in open'
                 /\ srv[t].epoll # None => srv[t].epoll \in open' /\ srv[t].epoll # srv[t].sock
                 /\ srv[t].state = "CREATED" => srv[t].sock = None /\ srv[t].epoll = None
      <4>1. ~Closing(t)
        BY DEF Closing
      <4>2. {srv[t].sock, srv[t].epoll} \cap {srv[s].sock, srv[s].epoll} \subseteq {None}
        BY <3>4 DEF Held
      <4>3. /\ srv[t].sock # None => srv[t].sock \in open
            /\ srv[t].epoll # None => srv[t].epoll \in open /\ srv[t].epoll # srv[t].sock
        BY <4>1 DEF Held
      <4>4. srv[t].state = "CREATED" => srv[t].sock = None /\ srv[t].epoll = None
        BY <3>4 DEF Held
      <4> QED BY <1>2, <2>1, <3>1, <4>2, <4>3, <4>4
    <3>5. StartKnows'
      BY <2>1, <3>1, <3>2, <3>3, <3>4 DEF StartKnows
    <3>6. RunKnows'
      BY <2>1, <3>1, <3>2, <3>3, <3>4 DEF RunKnows, Loop
    <3>7. StopKnows'
      BY <2>1, <3>1, <3>2, <3>3, <3>4 DEF StopKnows
    <3>8. DestroyKnows'
      BY <2>1, <3>1, <3>2, <3>3, <3>4 DEF DestroyKnows
    <3>9. DefaultKnown'
      BY <2>1, <3>1, <3>2, <3>3, <3>4 DEF DefaultKnown
    <3>10. Held'
      BY <2>1, <3>1, <3>2, <3>3, <3>4 DEF Held, Closing
    <3>11. RunningLoops'
      BY <2>1, <3>1, <3>2, <3>3, <3>4 DEF RunningLoops
    <3>12. StopIsComplete'
      BY <2>1, <3>1, <3>2, <3>3, <3>4 DEF StopIsComplete, Active
    <3>13. SignalReaches'
      BY <2>1, <3>1, <3>2, <3>3, <3>4 DEF SignalReaches
    <3> QED BY <3>5, <3>6, <3>7, <3>8, <3>9, <3>10, <3>11, <3>12, <3>13
  <2>3. CASE Goto("epoll") /\ UNCHANGED <<srv, open>>
    <3>1. Moves("epoll") /\ UNCHANGED <<srv, open>>
      BY <1>5, <2>3 DEF FramePlaces
    <3>2. StartKnows'
      BY <1>2, <2>1, <3>1 DEF StartKnows
    <3>3. RunKnows'
      BY <1>2, <2>1, <3>1 DEF RunKnows
    <3>4. StopKnows'
      BY <1>2, <2>1, <3>1 DEF StopKnows
    <3>5. DestroyKnows'
      BY <1>2, <2>1, <3>1 DEF DestroyKnows
    <3>6. DefaultKnown'
      BY <1>2, <2>1, <3>1 DEF DefaultKnown
    <3>7. Held'
      BY <1>2, <2>1, <3>1 DEF Held, Closing
    <3>8. RunningLoops'
      BY <1>2, <2>1, <3>1 DEF RunningLoops
    <3>9. StopIsComplete'
      BY <1>2, <2>1, <3>1 DEF StopIsComplete, Active
    <3>10. SignalReaches'
      BY <1>2, <2>1, <3>1 DEF SignalReaches
    <3> QED BY <3>2, <3>3, <3>4, <3>5, <3>6, <3>7, <3>8, <3>9, <3>10
  <2> QED BY <1>7, <2>2, <2>3 DEF StartBind
<1>8. CASE StartEpoll
  <2>1. Top.at = "epoll" /\ UNCHANGED <<live, gdefault, gsignal, latest>>
    BY <1>8 DEF StartEpoll, At, globals, history
  <2>2. CASE GiveUpSocket(s) /\ Return(-1)
    <3>1. open' = open \ {srv[s].sock} /\ Becomes(s, "CREATED", None, None) /\ Leaves
      BY <1>2, <1>4, <1>5, <2>1, <2>2 DEF GiveUpSocket, Becomes, Server
    <3>2. /\ srv'[s].state = "CREATED" /\ srv'[s].sock = None /\ srv'[s].epoll = None
          /\ \A t \in live : t # s => srv'[t] = srv[t]
      BY <3>1 DEF Becomes
    <3>3. \A i \in Calls : Kind(i) = "run" /\ Place(i) \in {"running"} \cup Loop => Of(i) # s
      BY <1>2, <2>1 DEF RunKnows
    <3>4. ASSUME NEW t \in live, t # s
          PROVE  /\ srv[t].sock # None => srv[t].sock \in open'
                 /\ srv[t].epoll # None => srv[t].epoll \in open' /\ srv[t].epoll # srv[t].sock
                 /\ srv[t].state = "CREATED" => srv[t].sock = None /\ srv[t].epoll = None
      <4>1. ~Closing(t)
        BY DEF Closing
      <4>2. {srv[t].sock, srv[t].epoll} \cap {srv[s].sock, srv[s].epoll} \subseteq {None}
        BY <3>4 DEF Held
      <4>3. /\ srv[t].sock # None => srv[t].sock \in open
            /\ srv[t].epoll # None => srv[t].epoll \in open /\ srv[t].epoll # srv[t].sock
        BY <4>1 DEF Held
      <4>4. srv[t].state = "CREATED" => srv[t].sock = None /\ srv[t].epoll = None
        BY <3>4 DEF Held
      <4> QED BY <1>2, <2>1, <3>1, <4>2, <4>3, <4>4
    <3>5. StartKnows'
      BY <2>1, <3>1, <3>2, <3>3, <3>4 DEF StartKnows
    <3>6. RunKnows'
      BY <2>1, <3>1, <3>2, <3>3, <3>4 DEF RunKnows, Loop
    <3>7. StopKnows'
      BY <2>1, <3>1, <3>2, <3>3, <3>4 DEF StopKnows
    <3>8. DestroyKnows'
      BY <2>1, <3>1, <3>2, <3>3, <3>4 DEF DestroyKnows
    <3>9. DefaultKnown'
      BY <2>1, <3>1, <3>2, <3>3, <3>4 DEF DefaultKnown
    <3>10. Held'
      BY <2>1, <3>1, <3>2, <3>3, <3>4 DEF Held, Closing
    <3>11. RunningLoops'
      BY <2>1, <3>1, <3>2, <3>3, <3>4 DEF RunningLoops
    <3>12. StopIsComplete'
      BY <2>1, <3>1, <3>2, <3>3, <3>4 DEF StopIsComplete, Active
    <3>13. SignalReaches'
      BY <2>1, <3>1, <3>2, <3>3, <3>4 DEF SignalReaches
    <3> QED BY <3>5, <3>6, <3>7, <3>8, <3>9, <3>10, <3>11, <3>12, <3>13
  <2>3. CASE Goto("table") /\ \E fd \in Fds :
               FreeFd(fd) /\ open' = open \cup {fd} /\ srv' = [srv EXCEPT ![s].epoll = fd]
    <3>1. PICK fd \in Fds : FreeFd(fd) /\ open' = open \cup {fd} /\ srv' = [srv EXCEPT ![s].epoll = fd]
      BY <2>3
    <3>2. fd # None /\ fd \notin open
      BY <3>1 DEF FreeFd, Fds
    <3>3. srv[s].sock \in open
      BY <1>2, <2>1 DEF Held, Closing
    <3>4. Becomes(s, "CREATED", srv[s].sock, fd) /\ Moves("table")
      BY <1>2, <1>4, <1>5, <2>1, <2>3, <3>1 DEF Becomes, Server, FramePlaces
    <3>5. /\ srv'[s].state = "CREATED" /\ srv'[s].sock = srv[s].sock /\ srv'[s].epoll = fd
          /\ \A t \in live : t # s => srv'[t] = srv[t]
      BY <3>4 DEF Becomes
    <3>6. StartKnows'
      BY <1>2, <2>1, <3>1, <3>2, <3>3, <3>4, <3>5 DEF StartKnows
    <3>7. RunKnows'
      BY <1>2, <2>1, <3>1, <3>2, <3>3, <3>4, <3>5 DEF RunKnows
    <3>8. StopKnows'
      BY <1>2, <2>1, <3>1, <3>2, <3>3, <3>4, <3>5 DEF StopKnows
    <3>9. DestroyKnows'
      BY <1>2, <2>1, <3>1, <3>2, <3>3, <3>4, <3>5 DEF DestroyKnows
    <3>10. DefaultKnown'
      BY <1>2, <2>1, <3>1, <3>2, <3>3, <3>4, <3>5 DEF DefaultKnown
    <3>11. Held'
      BY <1>2, <2>1, <3>1, <3>2, <3>3, <3>4, <3>5 DEF Held, Closing
    <3>12. RunningLoops'
      BY <1>2, <2>1, <3>1, <3>2, <3>3, <3>4, <3>5 DEF RunningLoops
    <3>13. StopIsComplete'
      BY <1>2, <2>1, <3>1, <3>2, <3>3, <3>4, <3>5 DEF StopIsComplete, Active
    <3>14. SignalReaches'
      BY <1>2, <2>1, <3>1, <3>2, <3>3, <3>4, <3>5 DEF SignalReaches
    <3> QED BY <3>6, <3>7, <3>8, <3>9, <3>10, <3>11, <3>12, <3>13, <3>14
  <2> QED BY <1>8, <2>2, <2>3 DEF StartEpoll
<1>9. CASE StartTable
  <2>1. Top.at = "table" /\ UNCHANGED <<live, gdefault, gsignal, latest>>
    BY <1>9 DEF StartTable, At, globals, history
  <2>2. CASE /\ open' = open \ {srv[s].sock, srv[s].epoll} /\ Return(-1)
             /\ srv' = [srv EXCEPT ![s].sock = None, ![s].epoll = None]
    <3>1. Becomes(s, "CREATED", None, None) /\ Leaves
      BY <1>2, <1>4, <1>5, <2>1, <2>2 DEF Becomes, Server
    <3>2. /\ srv'[s].state = "CREATED" /\ srv'[s].sock = None /\ srv'[s].epoll = None
          /\ \A t \in live : t # s => srv'[t] = srv[t]
      BY <3>1 DEF Becomes
    <3>3. \A i \in Calls : Kind(i) = "run" /\ Place(i) \in {"running"} \cup Loop => Of(i) # s
      BY <1>2, <2>1 DEF RunKnows
    <3>4. ASSUME NEW t \in live, t # s
          PROVE  /\ srv[t].sock # None => srv[t].sock \in open'
                 /\ srv[t].epoll # None => srv[t].epoll \in open' /\ srv[t].epoll # srv[t].sock
                 /\ srv[t].state = "CREATED" => srv[t].sock = None /\ srv[t].epoll = None
      <4>1. ~Closing(t)
        BY DEF Closing
      <4>2. {srv[t].sock, srv[t].epoll} \cap {srv[s].sock, srv[s].epoll} \subseteq {None}
        BY <3>4 DEF Held
      <4>3. /\ srv[t].sock # None => srv[t].sock \in open
            /\ srv[t].epoll # None => srv[t].epoll \in open /\ srv[t].epoll # srv[t].sock
        BY <4>1 DEF Held
      <4>4. srv[t].state = "CREATED" => srv[t].sock = None /\ srv[t].epoll = None
        BY <3>4 DEF Held
      <4> QED BY <1>2, <2>1, <2>2, <3>1, <4>2, <4>3, <4>4
    <3>5. StartKnows'
      BY <2>1, <3>1, <3>2, <3>3, <3>4 DEF StartKnows
    <3>6. RunKnows'
      BY <2>1, <3>1, <3>2, <3>3, <3>4 DEF RunKnows, Loop
    <3>7. StopKnows'
      BY <2>1, <3>1, <3>2, <3>3, <3>4 DEF StopKnows
    <3>8. DestroyKnows'
      BY <2>1, <3>1, <3>2, <3>3, <3>4 DEF DestroyKnows
    <3>9. DefaultKnown'
      BY <2>1, <3>1, <3>2, <3>3, <3>4 DEF DefaultKnown
    <3>10. Held'
      BY <2>1, <3>1, <3>2, <3>3, <3>4 DEF Held, Closing
    <3>11. RunningLoops'
      BY <2>1, <3>1, <3>2, <3>3, <3>4 DEF RunningLoops
    <3>12. StopIsComplete'
      BY <2>1, <3>1, <3>2, <3>3, <3>4 DEF StopIsComplete, Active
    <3>13. SignalReaches'
      BY <2>1, <3>1, <3>2, <3>3, <3>4 DEF SignalReaches
    <3> QED BY <3>5, <3>6, <3>7, <3>8, <3>9, <3>10, <3>11, <3>12, <3>13
  <2>3. CASE Goto("publish") /\ UNCHANGED <<srv, open>>
    <3>1. Moves("publish") /\ UNCHANGED <<srv, open>>
      BY <1>5, <2>3 DEF FramePlaces
    <3>2. StartKnows'
      BY <1>2, <2>1, <3>1 DEF StartKnows
    <3>3. RunKnows'
      BY <1>2, <2>1, <3>1 DEF RunKnows
    <3>4. StopKnows'
      BY <1>2, <2>1, <3>1 DEF StopKnows
    <3>5. DestroyKnows'
      BY <1>2, <2>1, <3>1 DEF DestroyKnows
    <3>6. DefaultKnown'
      BY <1>2, <2>1, <3>1 DEF DefaultKnown
    <3>7. Held'
      BY <1>2, <2>1, <3>1 DEF Held, Closing
    <3>8. RunningLoops'
      BY <1>2, <2>1, <3>1 DEF RunningLoops
    <3>9. StopIsComplete'
      BY <1>2, <2>1, <3>1 DEF StopIsComplete, Active
    <3>10. SignalReaches'
      BY <1>2, <2>1, <3>1 DEF SignalReaches
    <3> QED BY <3>2, <3>3, <3>4, <3>5, <3>6, <3>7, <3>8, <3>9, <3>10
  <2> QED BY <1>9, <2>2, <2>3 DEF StartTable
<1>10. CASE StartPublish
  <2>1. /\ Top.at = "publish" /\ UNCHANGED <<live, gdefault, srv, open>>
        /\ gsignal' = s /\ latest' = s /\ Moves("started")
    BY <1>5, <1>10 DEF StartPublish, At, FramePlaces
  <2>2. StartKnows'
    BY <1>2, <2>1 DEF StartKnows
  <2>3. RunKnows'
    BY <1>2, <2>1 DEF RunKnows
  <2>4. StopKnows'
    BY <1>2, <2>1 DEF StopKnows
  <2>5. DestroyKnows'
    BY <1>2, <2>1 DEF DestroyKnows
  <2>6. DefaultKnown'
    BY <1>2, <2>1 DEF DefaultKnown
  <2>7. Held'
    BY <1>2, <2>1 DEF Held, Closing
  <2>8. RunningLoops'
    BY <1>2, <2>1 DEF RunningLoops
  <2>9. StopIsComplete'
    BY <1>2, <2>1 DEF StopIsComplete, Active
  <2>10. SignalReaches'
    BY <1>2, <2>1 DEF SignalReaches
  <2> QED BY <2>2, <2>3, <2>4, <2>5, <2>6, <2>7, <2>8, <2>9, <2>10
<1>11. CASE Started
  <2>1. /\ Top.at = "started" /\ UNCHANGED <<live, gdefault, gsignal, latest, open>>
        /\ Becomes(s, "STARTED", srv[s].sock, srv[s].epoll) /\ Leaves
    BY <1>4, <1>5, <1>11 DEF Started, At, globals, history, Becomes, Server
  <2>2. /\ srv'[s].state = "STARTED" /\ srv'[s].sock = srv[s].sock /\ srv'[s].epoll = srv[s].epoll
        /\ \A t \in live : t # s => srv'[t] = srv[t]
    BY <2>1 DEF Becomes
  <2>3. StartKnows'
    BY <1>2, <2>1, <2>2 DEF StartKnows
  <2>4. RunKnows'
    BY <1>2, <2>1, <2>2 DEF RunKnows
  <2>5. StopKnows'
    BY <1>2, <2>1, <2>2 DEF StopKnows
  <2>6. DestroyKnows'
    BY <1>2, <2>1, <2>2 DEF DestroyKnows
  <2>7. DefaultKnown'
    BY <1>2, <2>1, <2>2 DEF DefaultKnown
  <2>8. Held'
    BY <1>2, <2>1, <2>2 DEF Held, Closing
  <2>9. RunningLoops'
    BY <1>2, <2>1, <2>2 DEF RunningLoops
  <2>10. StopIsComplete'
    BY <1>2, <2>1, <2>2 DEF StopIsComplete, Active
  <2>11. SignalReaches'
    BY <1>2, <2>1, <2>2 DEF SignalReaches
  <2> QED BY <2>3, <2>4, <2>5, <2>6, <2>7, <2>8, <2>9, <2>10, <2>11
<1> QED BY <1>6, <1>7, <1>8, <1>9, <1>10, <1>11 DEF Start

\* A step that changes neither servers nor calls.
LEMMA KnowsSame ==
  ASSUME Knows, UNCHANGED <<live, srv, open, gdefault, gsignal, latest, stack>>
  PROVE  Knows'
<1> USE DEF Knows, CallsKnow, Calls, Depth, Kind, Of, Place
<1>1. StartKnows'
  BY DEF StartKnows
<1>2. RunKnows'
  BY DEF RunKnows, Loop
<1>3. StopKnows'
  BY DEF StopKnows
<1>4. DestroyKnows'
  BY DEF DestroyKnows
<1>5. DefaultKnown'
  BY DEF DefaultKnown
<1>6. Held'
  BY DEF Held, Closing
<1>7. RunningLoops'
  BY DEF RunningLoops, Loop
<1>8. StopIsComplete'
  BY DEF StopIsComplete, Active
<1>9. SignalReaches'
  BY DEF SignalReaches
<1> QED BY <1>1, <1>2, <1>3, <1>4, <1>5, <1>6, <1>7, <1>8, <1>9

\* run may take its server back from STOPPING, when no stop is in progress.
LEMMA RunKeeps ==
  ASSUME Typed, Nested, Nested', Knows, Run
  PROVE  Knows'
<1> DEFINE s == Top.srv
<1>1. Depth = 1 /\ Top.proc = "run" /\ s \in live
  <2>1. Depth \in Nat /\ Depth > 0 /\ Top.proc = "run"
    BY StackType DEF Run, RunCheck, RunRunning, RunHandler, RunTest, RunWait, RunRound, RunCallback,
                     RunEnded, RunSettles, At
  <2> QED BY <2>1 DEF Nested, Outermost, Knows, CallsKnow, RunKnows, Top, Calls, Kind, Of
<1>2. /\ Top.at = "running" => srv[s].state \in {"STARTED", "STOPPING"}
      /\ Top.at \in Loop => srv[s].state \in {"RUNNING", "STOPPING"}
      /\ Top.at \in {"test", "wait", "round"} => srv[s].sock # None \/ srv[s].state = "STOPPING"
      /\ Top.at = "check" => srv[s].state # "RUNNING"
  BY <1>1 DEF Knows, CallsKnow, RunKnows, RunningLoops, Loop, Top, Calls, Kind, Of, Place
<1>3. srv \in [Servers -> Server] /\ live \subseteq Servers
  BY DEF Typed
<1>4. /\ \A at \in FramePlaces : Goto(at) => Moves(at)
      /\ \A v \in {-1, 0} : Return(v) => Leaves
  BY <1>1, Stepping
<1>5. CASE RunCheck \/ RunHandler \/ RunTest \/ RunWait \/ RunRound \/ RunEnded
  <2>1. UNCHANGED <<live, srv, open, gdefault, gsignal, latest>>
    BY <1>5 DEF RunCheck, RunHandler, RunTest, RunWait, RunRound, RunEnded, globals, history
  <2>2. CASE srv[s].state # "RUNNING" /\ \E v \in {-1, 0} : Return(v)
    BY <1>1, <1>4, <2>1, <2>2, LeavesQuietly
  <2>3. CASE \E at \in FramePlaces :
            /\ Goto(at)
            /\ \/ at = "running" /\ Top.at = "check" /\ srv[s].state = "STARTED"
               \/ at \in {"wait", "test", "round"} /\ Top.at \in Loop
                    /\ (srv[s].sock # None \/ srv[s].state = "STOPPING")
               \/ at \in {"ended", "settle"} /\ Top.at \in Loop
    <3>1. PICK at \in FramePlaces :
            /\ Goto(at)
            /\ \/ at = "running" /\ Top.at = "check" /\ srv[s].state = "STARTED"
               \/ at \in {"wait", "test", "round"} /\ Top.at \in Loop
                    /\ (srv[s].sock # None \/ srv[s].state = "STOPPING")
               \/ at \in {"ended", "settle"} /\ Top.at \in Loop
      BY <2>3
    <3>2. Moves(at) /\ (at \in Loop => Top.at \in Loop) /\ (Top.at \in Loop => at \in Loop)
      BY <1>4, <3>1 DEF Loop
    <3> QED BY <1>1, <2>1, <3>1, <3>2, MovesQuietly
  <2>4. CASE RunCheck
    BY <1>2, <2>2, <2>3, <2>4 DEF RunCheck, At, Loop, FramePlaces
  <2>5. CASE RunHandler
    BY <1>2, <2>2, <2>3, <2>5 DEF RunHandler, At, Loop, FramePlaces
  <2>6. CASE RunTest
    BY <1>2, <2>2, <2>3, <2>6 DEF RunTest, At, Loop, FramePlaces
  <2>7. CASE RunWait
    BY <1>2, <2>2, <2>3, <2>7 DEF RunWait, At, Loop, FramePlaces
  <2>8. CASE RunRound
    BY <1>2, <2>2, <2>3, <2>8 DEF RunRound, At, Loop, FramePlaces
  <2>9. CASE RunEnded
    BY <1>2, <2>2, <2>3, <2>9 DEF RunEnded, At, Loop, FramePlaces
  <2> QED BY <1>5, <2>4, <2>5, <2>6, <2>7, <2>8, <2>9
<1>6. CASE RunCallback
  <2>1. PICK t \in live, proc \in {"start", "stop"} :
          Call(Top.at, Frame(proc, t, IF proc = "start" THEN "socket" ELSE "enter"))
    BY <1>6 DEF RunCallback
  <2> DEFINE f == Frame(proc, t, IF proc = "start" THEN "socket" ELSE "enter")
  <2>2. f \in FrameSet
    BY <1>3, FrameType DEF Procs
  <2>3. Enters(Top.at, f)
    BY <1>1, <2>1, <2>2, CallEnters
  <2>4. f.proc = proc /\ f.srv = t /\ f.at = (IF proc = "start" THEN "socket" ELSE "enter")
    BY DEF Frame
  <2>5. UNCHANGED <<live, srv, open, gdefault, gsignal, latest>>
    BY <1>6 DEF RunCallback, globals, history
  <2> HIDE DEF f
  <2> QED BY <1>1, <2>3, <2>4, <2>5, EntersQuietly DEF Signals
<1> USE <1>1 DEF Knows, CallsKnow, Moves, Leaves, Same, Top, Calls, Kind, Of, Place
<1>7. CASE RunRunning
  <2>1. /\ Top.at = "running" /\ UNCHANGED <<live, gdefault, gsignal, latest, open>>
        /\ Becomes(s, "RUNNING", srv[s].sock, srv[s].epoll) /\ Moves("handler")
    BY <1>3, <1>4, <1>7 DEF RunRunning, At, globals, history, Becomes, Server, FramePlaces
  <2>2. /\ srv'[s].state = "RUNNING" /\ srv'[s].sock = srv[s].sock /\ srv'[s].epoll = srv[s].epoll
        /\ \A t \in live : t # s => srv'[t] = srv[t]
    BY <2>1 DEF Becomes
  <2>3. StartKnows'
    BY <1>2, <2>1, <2>2 DEF StartKnows
  <2>4. RunKnows'
    BY <1>2, <2>1, <2>2 DEF RunKnows, Loop
  <2>5. StopKnows'
    BY <1>2, <2>1, <2>2 DEF StopKnows
  <2>6. DestroyKnows'
    BY <1>2, <2>1, <2>2 DEF DestroyKnows
  <2>7. DefaultKnown'
    BY <1>2, <2>1, <2>2 DEF DefaultKnown
  <2>8. Held'
    BY <1>2, <2>1, <2>2 DEF Held, Closing
  <2>9. RunningLoops'
    BY <1>2, <2>1, <2>2 DEF RunningLoops, Loop
  <2>10. StopIsComplete'
    BY <1>2, <2>1, <2>2 DEF StopIsComplete, Active
  <2>11. SignalReaches'
    BY <1>2, <2>1, <2>2 DEF SignalReaches, StopIsComplete, Active
  <2> QED BY <2>3, <2>4, <2>5, <2>6, <2>7, <2>8, <2>9, <2>10, <2>11
<1>8. CASE RunSettles
  <2>1. /\ Top.at = "settle" /\ UNCHANGED <<live, gdefault, gsignal, latest, open>>
        /\ Becomes(s, "STOPPED", srv[s].sock, srv[s].epoll) /\ Leaves
    BY <1>3, <1>4, <1>8 DEF RunSettles, At, globals, history, Becomes, Server
  <2>2. /\ srv'[s].state = "STOPPED" /\ srv'[s].sock = srv[s].sock /\ srv'[s].epoll = srv[s].epoll
        /\ \A t \in live : t # s => srv'[t] = srv[t]
    BY <2>1 DEF Becomes
  <2>3. StartKnows'
    BY <1>2, <2>1, <2>2 DEF StartKnows
  <2>4. RunKnows'
    BY <1>2, <2>1, <2>2 DEF RunKnows, Loop
  <2>5. StopKnows'
    BY <1>2, <2>1, <2>2 DEF StopKnows
  <2>6. DestroyKnows'
    BY <1>2, <2>1, <2>2 DEF DestroyKnows
  <2>7. DefaultKnown'
    BY <1>2, <2>1, <2>2 DEF DefaultKnown
  <2>8. Held'
    BY <1>2, <2>1, <2>2 DEF Held, Closing
  <2>9. RunningLoops'
    BY <1>2, <2>1, <2>2 DEF RunningLoops, Loop
  <2>10. StopIsComplete'
    BY <1>2, <2>1, <2>2 DEF StopIsComplete, Active
  <2>11. SignalReaches'
    BY <1>2, <2>1, <2>2 DEF SignalReaches
  <2> QED BY <2>3, <2>4, <2>5, <2>6, <2>7, <2>8, <2>9, <2>10, <2>11
<1> QED BY <1>5, <1>6, <1>7, <1>8 DEF Run

\* A stop forgets and closes; one below it, of the same server, is never past forgetting.
LEMMA StopKeeps ==
  ASSUME Typed, Nested, Knows, Stop
  PROVE  Knows'
<1> DEFINE s == Top.srv
<1>1. Depth \in Nat /\ Depth > 0 /\ Top.proc = "stop"
  BY StackType DEF Stop, StopEnter, StopForget, StopClose, StopClosed, At
<1>2. Top.at # "enter" => s \in live /\ srv[s].state = "STOPPING"
  BY <1>1 DEF Knows, CallsKnow, StopKnows, Top, Calls, Kind, Of, Place
<1>3. Top.at \in {"close", "closed"} => gsignal # s
  BY <1>1 DEF Knows, CallsKnow, StopKnows, Top, Calls, Kind, Of, Place
<1>4. srv \in [Servers -> Server] /\ live \subseteq Servers /\ open \subseteq Fds
  BY DEF Typed
<1>5. /\ \A at \in FramePlaces : Goto(at) => Moves(at)
      /\ \A v \in {-1, 0} : Return(v) => Leaves
  BY <1>1, Stepping
<1>6. CASE StopEnter
  <2>1. Top.at = "enter" /\ UNCHANGED <<live, open, gdefault, gsignal, latest>>
    BY <1>6 DEF StopEnter, At, globals
  <2>2. CASE UNCHANGED <<srv, stack>>
    BY <2>1, <2>2, KnowsSame
  <2>3. CASE /\ s \notin live \/ srv[s].state \in {"STOPPED", "CREATED"}
             /\ UNCHANGED srv /\ \E v \in {-1, 0} : Return(v)
    BY <1>1, <1>5, <2>1, <2>3, LeavesQuietly
  <2>4. CASE /\ s \in live /\ srv[s].state \notin {"STOPPED", "CREATED"}
             /\ srv' = [srv EXCEPT ![s].state = "STOPPING"] /\ Goto("forget")
    <3> USE <1>1 DEF Knows, CallsKnow, Moves, Leaves, Same, Top, Calls, Kind, Of, Place
    <3>1. Becomes(s, "STOPPING", srv[s].sock, srv[s].epoll) /\ Moves("forget")
      BY <1>4, <1>5, <2>4 DEF Becomes, Server, FramePlaces
    <3>2. /\ srv'[s].state = "STOPPING" /\ srv'[s].sock = srv[s].sock /\ srv'[s].epoll = srv[s].epoll
          /\ \A t \in live : t # s => srv'[t] = srv[t]
      BY <3>1 DEF Becomes
    <3>3. StartKnows'
      BY <2>1, <2>4, <3>1, <3>2 DEF StartKnows
    <3>4. RunKnows'
      BY <2>1, <2>4, <3>1, <3>2 DEF RunKnows, Loop
    <3>5. StopKnows'
      BY <2>1, <2>4, <3>1, <3>2 DEF StopKnows
    <3>6. DestroyKnows'
      BY <2>1, <2>4, <3>1, <3>2 DEF DestroyKnows
    <3>7. DefaultKnown'
      BY <2>1, <2>4, <3>1, <3>2 DEF DefaultKnown
    <3>8. Held'
      BY <2>1, <2>4, <3>1, <3>2 DEF Held, Closing
    <3>9. RunningLoops'
      BY <2>1, <2>4, <3>1, <3>2 DEF RunningLoops, Loop
    <3>10. StopIsComplete'
      BY <2>1, <2>4, <3>1, <3>2 DEF StopIsComplete, Active
    <3>11. SignalReaches'
      BY <2>1, <2>4, <3>1, <3>2 DEF SignalReaches
    <3> QED BY <3>3, <3>4, <3>5, <3>6, <3>7, <3>8, <3>9, <3>10, <3>11
  <2> QED BY <1>4, <1>6, <2>2, <2>3, <2>4 DEF StopEnter
<1>7. CASE StopClose /\ srv[s].sock = None
  <2>1. Top.at = "close" /\ UNCHANGED <<live, srv, open, gdefault, gsignal, latest>> /\ Leaves
    BY <1>5, <1>7 DEF StopClose, At, globals, history
  <2> QED BY <1>1, <1>2, <1>3, <1>7, <2>1, LeavesQuietly
<1> USE <1>1 DEF Knows, CallsKnow, Moves, Leaves, Same, Top, Calls, Kind, Of, Place
<1>8. CASE StopForget
  <2>1. /\ Top.at = "forget" /\ UNCHANGED <<live, srv, open, gdefault, latest>> /\ Moves("close")
        /\ gsignal' = IF gsignal = s THEN None ELSE gsignal
    BY <1>5, <1>8 DEF StopForget, At, history, FramePlaces
  <2>2. gsignal' # s /\ (gsignal' = gsignal \/ (gsignal' = None /\ gsignal = s)) /\ None \notin live
    BY <1>2, <1>4, <2>1
  <2>3. StartKnows'
    BY <1>2, <2>1, <2>2 DEF StartKnows
  <2>4. RunKnows'
    BY <1>2, <2>1, <2>2 DEF RunKnows, Loop
  <2>5. StopKnows'
    BY <1>2, <2>1, <2>2 DEF StopKnows
  <2>6. DestroyKnows'
    BY <1>2, <2>1, <2>2 DEF DestroyKnows
  <2>7. DefaultKnown'
    BY <1>2, <2>1, <2>2 DEF DefaultKnown
  <2>8. Held'
    BY <1>2, <2>1, <2>2 DEF Held, Closing
  <2>9. RunningLoops'
    BY <1>2, <2>1, <2>2 DEF RunningLoops, Loop
  <2>10. StopIsComplete'
    BY <1>2, <2>1, <2>2 DEF StopIsComplete, Active
  <2>11. SignalReaches'
    BY <1>2, <2>1, <2>2 DEF SignalReaches
  <2> QED BY <2>3, <2>4, <2>5, <2>6, <2>7, <2>8, <2>9, <2>10, <2>11
<1>9. CASE StopClose /\ srv[s].sock # None
  <2>1. /\ Top.at = "close" /\ UNCHANGED <<live, srv, gdefault, gsignal, latest>> /\ Moves("closed")
        /\ open' = open \ {srv[s].sock}
    BY <1>5, <1>9 DEF StopClose, At, globals, history, FramePlaces
  <2>2. ASSUME NEW t \in live, t # s
        PROVE  /\ srv[t].sock # None => srv[t].sock # srv[s].sock
               /\ srv[t].epoll # None => srv[t].epoll # srv[s].sock
    <3>1. {srv[t].sock, srv[t].epoll} \cap {srv[s].sock, srv[s].epoll} \subseteq {None}
      BY <1>2, <2>1, <2>2 DEF Held
    <3> QED BY <3>1
  <2>3. Closing(s)'
    BY <2>1 DEF Closing
  <2>4. \A t : Closing(t) => Closing(t)'
    BY <2>1 DEF Closing
  <2>5. StartKnows'
    BY <1>2, <1>3, <1>9, <2>1 DEF StartKnows
  <2>6. RunKnows'
    BY <1>2, <1>3, <1>9, <2>1 DEF RunKnows, Loop
  <2>7. StopKnows'
    BY <1>2, <1>3, <1>9, <2>1 DEF StopKnows
  <2>8. DestroyKnows'
    BY <1>2, <1>3, <1>9, <2>1 DEF DestroyKnows
  <2>9. DefaultKnown'
    BY <1>2, <1>3, <1>9, <2>1 DEF DefaultKnown
  <2>10. Held'
    BY <1>2, <1>3, <1>9, <2>1, <2>2, <2>3, <2>4 DEF Held
  <2>11. RunningLoops'
    BY <1>2, <1>3, <1>9, <2>1 DEF RunningLoops, Loop
  <2>12. StopIsComplete'
    BY <1>2, <1>3, <1>9, <2>1 DEF StopIsComplete, Active
  <2>13. SignalReaches'
    BY <1>2, <1>3, <1>9, <2>1 DEF SignalReaches
  <2> QED BY <2>5, <2>6, <2>7, <2>8, <2>9, <2>10, <2>11, <2>12, <2>13
<1>10. CASE StopClosed
  <2>1. /\ Top.at = "closed" /\ UNCHANGED <<live, gdefault, gsignal, latest, open>>
        /\ Becomes(s, "STOPPING", None, srv[s].epoll) /\ Leaves
    BY <1>2, <1>4, <1>5, <1>10 DEF StopClosed, At, globals, history, Becomes, Server
  <2>2. /\ srv'[s].state = "STOPPING" /\ srv'[s].sock = None /\ srv'[s].epoll = srv[s].epoll
        /\ \A t \in live : t # s => srv'[t] = srv[t]
    BY <2>1 DEF Becomes
  <2>3. StartKnows'
    BY <1>2, <1>3, <2>1, <2>2 DEF StartKnows
  <2>4. RunKnows'
    BY <1>2, <1>3, <2>1, <2>2 DEF RunKnows, Loop
  <2>5. StopKnows'
    BY <1>2, <1>3, <2>1, <2>2 DEF StopKnows
  <2>6. DestroyKnows'
    BY <1>2, <1>3, <2>1, <2>2 DEF DestroyKnows
  <2>7. DefaultKnown'
    BY <1>2, <1>3, <2>1, <2>2 DEF DefaultKnown
  <2>8. Held'
    BY <1>2, <1>3, <2>1, <2>2 DEF Held, Closing
  <2>9. RunningLoops'
    BY <1>2, <1>3, <2>1, <2>2 DEF RunningLoops, Loop
  <2>10. StopIsComplete'
    BY <1>2, <1>3, <2>1, <2>2 DEF StopIsComplete, Active
  <2>11. SignalReaches'
    BY <1>2, <1>3, <2>1, <2>2 DEF SignalReaches
  <2> QED BY <2>3, <2>4, <2>5, <2>6, <2>7, <2>8, <2>9, <2>10, <2>11
<1> QED BY <1>6, <1>7, <1>8, <1>9, <1>10 DEF Stop

\* destroy frees the server it has stopped, which no call below it uses.
LEMMA DestroyKeeps ==
  ASSUME Typed, Nested, Nested', Knows, DestroyStop \/ DestroyFree
  PROVE  Knows'
<1> DEFINE s == Top.srv
<1>1. Depth \in Nat /\ Depth > 0 /\ Top.proc = "destroy"
  BY StackType DEF DestroyStop, DestroyFree, At
<1>2. /\ s \in live /\ (s = gdefault <=> Depth = 2)
      /\ live \subseteq Servers /\ srv \in [Servers -> Server]
  BY <1>1 DEF Knows, CallsKnow, DestroyKnows, Top, Calls, Kind, Of, Typed
<1>3. Depth = 1 \/ (Depth = 2 /\ Kind(1) = "httpc_cleanup" /\ Place(1) = "clear")
  BY <1>1 DEF Nested, Outermost, Top, Calls, Kind
<1>4. CASE DestroyStop
  <2> DEFINE f == Frame("stop", s, "enter")
  <2>1. f \in FrameSet
    BY <1>2, FrameType DEF Procs
  <2>2. Enters("free", f)
    BY <1>1, <1>4, <2>1, CallEnters DEF DestroyStop
  <2>3. f.proc = "stop" /\ f.srv = s /\ f.at = "enter"
    BY DEF Frame
  <2>4. UNCHANGED <<live, srv, open, gdefault, gsignal, latest>>
    BY <1>4 DEF DestroyStop, globals, history
  <2> HIDE DEF f
  <2> QED BY <1>1, <2>2, <2>3, <2>4, EntersQuietly DEF Signals
<1>5. CASE DestroyFree
  <2>1. /\ Top.at = "free" /\ UNCHANGED <<gdefault, gsignal, latest>> /\ Leaves
        /\ open' = open \ {srv[s].epoll} /\ live' = live \ {s}
        /\ \A t \in live' : srv'[t] = srv[t]
    BY <1>1, <1>2, <1>5, Stepping DEF DestroyFree, At, globals, history
  <2> USE <1>1 DEF Knows, CallsKnow, Leaves, Same, Top, Calls, Kind, Of, Place
  <2>2. ASSUME NEW t \in live'
        PROVE  /\ srv[t].sock # None => srv[t].sock \in open'
               /\ srv[t].epoll # None => srv[t].epoll \in open'
    <3>1. {srv[t].sock, srv[t].epoll} \cap {srv[s].sock, srv[s].epoll} \subseteq {None}
      BY <1>2, <2>1, <2>2 DEF Held
    <3>2. ~Closing(t)
      BY <1>3 DEF Closing
    <3> QED BY <2>1, <2>2, <3>1, <3>2 DEF Held
  <2>3. StartKnows'
    BY <1>2, <1>3, <2>1 DEF StartKnows
  <2>4. RunKnows'
    BY <1>2, <1>3, <2>1 DEF RunKnows, Loop
  <2>5. StopKnows'
    BY <1>2, <1>3, <2>1 DEF StopKnows
  <2>6. DestroyKnows'
    BY <1>2, <1>3, <2>1 DEF DestroyKnows
  <2>7. DefaultKnown'
    BY <1>2, <1>3, <2>1 DEF DefaultKnown
  <2>8. Held'
    BY <1>2, <1>3, <2>1, <2>2 DEF Held, Closing
  <2>9. RunningLoops'
    BY <1>2, <1>3, <2>1 DEF RunningLoops, Loop
  <2>10. StopIsComplete'
    BY <1>2, <1>3, <2>1 DEF StopIsComplete, Active
  <2>11. SignalReaches'
    BY <1>2, <1>3, <2>1 DEF SignalReaches
  <2> QED BY <2>3, <2>4, <2>5, <2>6, <2>7, <2>8, <2>9, <2>10, <2>11
<1> QED BY <1>4, <1>5

\* httpc_start and httpc_cleanup create, start, run, stop and destroy the default server.
LEMMA DefaultKeeps ==
  ASSUME Typed, Nested, Nested', Knows, DefaultServer
  PROVE  Knows'
<1>1. Depth = 1 /\ Top.proc \in {"httpc_start", "httpc_cleanup"}
  <2>1. Depth \in Nat /\ Depth > 0 /\ Top.proc \in {"httpc_start", "httpc_cleanup"}
    BY StackType DEF DefaultServer, DefaultCreate, DefaultStart, DefaultRun, CleanupStop,
         CleanupDestroy,
                     CleanupClear, At
  <2> QED BY <2>1 DEF Nested, Outermost, Top, Calls, Kind
<1>2. /\ Top.proc = "httpc_start" => gdefault \in live \cup {None}
      /\ Top.proc = "httpc_start" /\ Top.at # "create" => gdefault \in live
      /\ Top.proc = "httpc_cleanup" /\ Top.at # "clear" => gdefault \in live
  BY <1>1 DEF Knows, CallsKnow, DefaultKnown, Top, Calls, Kind, Place
<1>3. srv \in [Servers -> Server] /\ live \subseteq Servers /\ None \notin live
  BY DEF Typed
<1>4. /\ \A at \in FramePlaces : Goto(at) => Moves(at)
      /\ \A v \in {-1, 0} : Return(v) => Leaves
  BY <1>1, Stepping
<1>5. CASE DefaultCreate
  <2>1. Top.proc = "httpc_start" /\ Top.at = "create" /\ UNCHANGED <<open, gsignal, latest>>
    BY <1>5 DEF DefaultCreate, At, history
  <2>2. CASE gdefault # None /\ Goto("start") /\ UNCHANGED <<live, srv, gdefault>>
    <3>1. Moves("start")
      BY <1>4, <2>2 DEF FramePlaces
    <3> QED BY <1>1, <1>2, <2>1, <2>2, <3>1, MovesQuietly DEF Signals
  <2>3. CASE Return(-1) /\ UNCHANGED <<live, srv, gdefault>>
    BY <1>1, <1>4, <2>1, <2>3, LeavesQuietly
  <2>4. ASSUME NEW s \in Servers \ live, live' = live \cup {s},
               srv' = [srv EXCEPT ![s] = Fresh(gconfig)],
               gdefault' = s, Goto("start")
        PROVE  Knows'
    <3>1. /\ srv'[s].state = "CREATED" /\ srv'[s].sock = None /\ srv'[s].epoll = None
          /\ \A t \in live : t # s /\ srv'[t] = srv[t]
      BY <1>3, <2>4 DEF Fresh
    <3>2. Moves("start")
      BY <1>4, <2>4 DEF FramePlaces
    <3> USE <1>1 DEF Knows, CallsKnow, Moves, Same, Top, Calls, Kind, Of, Place
    <3>3. StartKnows'
      BY <2>1, <2>4, <3>1, <3>2 DEF StartKnows
    <3>4. RunKnows'
      BY <2>1, <2>4, <3>1, <3>2 DEF RunKnows, Loop
    <3>5. StopKnows'
      BY <2>1, <2>4, <3>1, <3>2 DEF StopKnows
    <3>6. DestroyKnows'
      BY <2>1, <2>4, <3>1, <3>2 DEF DestroyKnows
    <3>7. DefaultKnown'
      BY <2>1, <2>4, <3>1, <3>2 DEF DefaultKnown
    <3>8. Held'
      BY <2>1, <2>4, <3>1, <3>2 DEF Held, Closing
    <3>9. RunningLoops'
      BY <2>1, <2>4, <3>1, <3>2 DEF RunningLoops, Loop
    <3>10. StopIsComplete'
      BY <2>1, <2>4, <3>1, <3>2 DEF StopIsComplete, Active
    <3>11. SignalReaches'
      BY <2>1, <2>4, <3>1, <3>2 DEF SignalReaches
    <3> QED BY <3>3, <3>4, <3>5, <3>6, <3>7, <3>8, <3>9, <3>10, <3>11
  <2> QED BY <1>5, <2>2, <2>3, <2>4 DEF DefaultCreate
<1>6. ASSUME NEW at \in FramePlaces, NEW proc \in {"start", "stop", "destroy"}, NEW place,
             Call(at, Frame(proc, gdefault, place)),
             UNCHANGED <<live, srv, open, gdefault, gsignal, latest>>, gdefault \in live,
             place = [start |-> "socket", stop |-> "enter", destroy |-> "stop"][proc],
             proc = "destroy" => Top.proc = "httpc_cleanup"
      PROVE  Knows'
  <2> DEFINE f == Frame(proc, gdefault, place)
  <2>1. f \in FrameSet
    BY <1>3, <1>6, FrameType DEF Procs
  <2>2. Enters(at, f)
    BY <1>1, <1>6, <2>1, CallEnters
  <2>3. f.proc = proc /\ f.srv = gdefault /\ f.at = place
    BY DEF Frame
  <2> HIDE DEF f
  <2> QED BY <1>1, <1>6, <2>2, <2>3, EntersQuietly DEF Signals
<1>7. CASE DefaultStart
  BY <1>2, <1>6, <1>7 DEF DefaultStart, At, FramePlaces, globals, history
<1>8. CASE CleanupStop
  BY <1>2, <1>6, <1>8 DEF CleanupStop, At, FramePlaces, globals, history
<1>9. CASE CleanupDestroy
  BY <1>2, <1>6, <1>9 DEF CleanupDestroy, At, FramePlaces, globals, history
<1>10. CASE DefaultRun
  <2>1. /\ Top.proc = "httpc_start" /\ Top.at = "run"
        /\ UNCHANGED <<live, srv, open, gdefault, gsignal, latest>>
    BY <1>10 DEF DefaultRun, At, globals, history
  <2>2. CASE Return(-1)
    BY <1>1, <1>4, <2>1, <2>2, LeavesQuietly
  <2>3. CASE stack' = [stack EXCEPT ![Depth] = Frame("run", gdefault, "check")]
    <3>1. Depth' = 1 /\ stack'[1].proc = "run" /\ stack'[1].srv = gdefault /\ stack'[1].at = "check"
      <4>1. Len(stack) = 1 /\ stack \in Seq(FrameSet) /\ Frame("run", gdefault, "check") \in FrameSet
        BY <1>1, FrameType DEF Depth, Typed, Procs
      <4>2. Len(stack') = 1 /\ stack'[1] = Frame("run", gdefault, "check")
        BY <1>1, <2>3, <4>1
      <4> QED BY <4>2 DEF Depth, Frame
    <3> USE <1>1 DEF Knows, CallsKnow, Same, Top, Calls, Kind, Of, Place
    <3>2. StartKnows'
      BY <1>2, <2>1, <3>1 DEF StartKnows
    <3>3. RunKnows'
      BY <1>2, <2>1, <3>1 DEF RunKnows, Loop
    <3>4. StopKnows'
      BY <1>2, <2>1, <3>1 DEF StopKnows
    <3>5. DestroyKnows'
      BY <1>2, <2>1, <3>1 DEF DestroyKnows
    <3>6. DefaultKnown'
      BY <1>2, <2>1, <3>1 DEF DefaultKnown
    <3>7. Held'
      BY <1>2, <2>1, <3>1 DEF Held, Closing
    <3>8. RunningLoops'
      BY <1>2, <2>1, <3>1 DEF RunningLoops, Loop
    <3>9. StopIsComplete'
      BY <1>2, <2>1, <3>1 DEF StopIsComplete, Active
    <3>10. SignalReaches'
      BY <1>2, <2>1, <3>1 DEF SignalReaches
    <3> QED BY <3>2, <3>3, <3>4, <3>5, <3>6, <3>7, <3>8, <3>9, <3>10
  <2> QED BY <1>10, <2>2, <2>3 DEF DefaultRun
<1>11. CASE CleanupClear
  <2>1. /\ Top.proc = "httpc_cleanup" /\ Top.at = "clear" /\ Leaves /\ gdefault' = None
        /\ UNCHANGED <<live, srv, open, gsignal, latest>>
    BY <1>4, <1>11 DEF CleanupClear, At, history
  <2> USE <1>1 DEF Knows, CallsKnow, Leaves, Same, Top, Calls, Kind, Of, Place
  <2>2. StartKnows'
    BY <1>2, <2>1 DEF StartKnows
  <2>3. RunKnows'
    BY <1>2, <2>1 DEF RunKnows, Loop
  <2>4. StopKnows'
    BY <1>2, <2>1 DEF StopKnows
  <2>5. DestroyKnows'
    BY <1>2, <2>1 DEF DestroyKnows
  <2>6. DefaultKnown'
    BY <1>2, <2>1 DEF DefaultKnown
  <2>7. Held'
    BY <1>2, <2>1 DEF Held, Closing
  <2>8. RunningLoops'
    BY <1>2, <2>1 DEF RunningLoops, Loop
  <2>9. StopIsComplete'
    BY <1>2, <2>1 DEF StopIsComplete, Active
  <2>10. SignalReaches'
    BY <1>2, <2>1 DEF SignalReaches
  <2> QED BY <2>2, <2>3, <2>4, <2>5, <2>6, <2>7, <2>8, <2>9, <2>10
<1> QED BY <1>5, <1>7, <1>8, <1>9, <1>10, <1>11 DEF DefaultServer

\* The handler itself changes no server; it stops one that was registered.
LEMMA SignalKeeps ==
  ASSUME Typed, Nested, Nested', Knows, NEW sig \in Signals, SignalHandler(sig)
  PROVE  Knows'
<1>1. UNCHANGED <<live, srv, open, gdefault, gsignal, latest>>
  BY DEF SignalHandler, Deliver, SignalTest, SignalStop, SignalDone, globals, history
<1>2. CASE Deliver(sig)
  BY <1>1, <1>2, DeliverInterrupts, InterruptsQuietly
<1>3. CASE SignalTest(sig)
  <2>1. /\ Depth \in Nat /\ Depth > 0 /\ Top.proc = sig /\ Top \in FrameSet /\ Depth = Len(stack)
        /\ stack \in Seq(FrameSet)
    BY <1>3, StackType DEF SignalTest, At, Top, Calls, Typed, Depth
  <2>2. PICK at \in {"done", "stop"} : stack' = [stack EXCEPT ![Depth].at = at, ![Depth].srv = gsignal]
    BY <1>3 DEF SignalTest
  <2>3. /\ Depth' = Depth /\ \A i \in Calls : i # Depth => Same(i)
        /\ stack'[Depth].proc = sig /\ stack'[Depth].srv = gsignal
    <3> DEFINE g == [Top EXCEPT !.at = at, !.srv = gsignal]
    <3>1. stack' = [stack EXCEPT ![Depth] = g]
      BY <2>2 DEF Top
    <3>2. g.proc = sig /\ g.srv = gsignal
      BY <2>1 DEF FrameSet
    <3> HIDE DEF g
    <3>3. /\ Len(stack') = Len(stack) /\ stack'[Depth] = g
          /\ \A i \in 1 .. Depth : i # Depth => stack'[i] = stack[i]
      BY <2>1, <3>1
    <3> QED BY <2>1, <3>2, <3>3 DEF Depth, Calls, Same
  <2> USE <2>1 DEF Knows, CallsKnow, Same, Top, Calls, Kind, Of, Place, Signals
  <2>4. StartKnows'
    BY <1>1, <2>3 DEF StartKnows
  <2>5. RunKnows'
    BY <1>1, <2>3 DEF RunKnows, Loop
  <2>6. StopKnows'
    BY <1>1, <2>3 DEF StopKnows
  <2>7. DestroyKnows'
    BY <1>1, <2>3 DEF DestroyKnows
  <2>8. DefaultKnown'
    BY <1>1, <2>3 DEF DefaultKnown
  <2>9. Held'
    BY <1>1, <2>3 DEF Held, Closing
  <2>10. RunningLoops'
    BY <1>1, <2>3 DEF RunningLoops, Loop
  <2>11. StopIsComplete'
    BY <1>1, <2>3 DEF StopIsComplete, Active
  <2>12. SignalReaches'
    BY <1>1, <2>3 DEF SignalReaches
  <2> QED BY <2>4, <2>5, <2>6, <2>7, <2>8, <2>9, <2>10, <2>11, <2>12
<1>4. CASE SignalStop(sig)
  <2>1. Depth > 0 /\ Top.proc = sig /\ Top.at = "stop" /\ Top.srv \in Servers \cup {None}
    BY <1>4, StackType DEF SignalStop, At, Top, Calls, FrameSet
  <2>2. PICK s \in {Top.srv, gsignal} : Call("done", Frame("stop", s, "enter"))
    BY <1>4 DEF SignalStop
  <2> DEFINE f == Frame("stop", s, "enter")
  <2>3. f \in FrameSet
    BY <2>1, FrameType DEF Procs, Typed
  <2>4. Enters("done", f)
    BY <2>1, <2>2, <2>3, CallEnters
  <2>5. f.proc = "stop" /\ f.srv = s /\ f.at = "enter"
    BY DEF Frame
  <2> HIDE DEF f
  <2> QED BY <1>1, <2>1, <2>2, <2>4, <2>5, EntersQuietly DEF Signals
<1>5. CASE SignalDone(sig)
  <2>1. Depth > 0 /\ Top.proc = sig
    BY <1>5, StackType DEF SignalDone, At
  <2> QED BY <1>1, <1>5, <2>1, SignalDoneLeaves, LeavesQuietly DEF Signals
<1> QED BY <1>2, <1>3, <1>4, <1>5 DEF SignalHandler

\* The application calls when no call is in progress.
LEMMA ApplicationKeeps ==
  ASSUME Typed, Nested, Knows, Application
  PROVE  Knows'
<1>1. Depth = 0
  BY DEF Application, HttpcInit, HttpcConfigure, HttpcServerCreate, Invoke, Idle, Depth
<1>2. CASE HttpcInit \/ \E c \in Configs : HttpcConfigure(c)
  BY <1>2, KnowsSame DEF HttpcInit, HttpcConfigure, history
<1>3. ASSUME NEW s \in Servers, NEW c \in Configs, HttpcServerCreate(s, c)
      PROVE  Knows'
  <2>1. /\ s \notin live /\ live' = live \cup {s} /\ Depth' = 0
        /\ UNCHANGED <<open, gdefault, gsignal, latest>>
    BY <1>1, <1>3 DEF HttpcServerCreate, globals, history, Depth
  <2>2. /\ srv'[s].state = "CREATED" /\ srv'[s].sock = None /\ srv'[s].epoll = None
        /\ \A t \in live : srv'[t] = srv[t]
    BY <1>3, <2>1 DEF HttpcServerCreate, Fresh, Typed
  <2> USE <1>1 DEF Knows, CallsKnow, Calls, Kind, Of, Place
  <2>3. StartKnows'
    BY <2>1, <2>2 DEF StartKnows
  <2>4. RunKnows'
    BY <2>1, <2>2 DEF RunKnows, Loop
  <2>5. StopKnows'
    BY <2>1, <2>2 DEF StopKnows
  <2>6. DestroyKnows'
    BY <2>1, <2>2 DEF DestroyKnows
  <2>7. DefaultKnown'
    BY <2>1, <2>2 DEF DefaultKnown
  <2>8. Held'
    BY <2>1, <2>2 DEF Held, Closing
  <2>9. RunningLoops'
    BY <2>1, <2>2 DEF RunningLoops, Loop
  <2>10. StopIsComplete'
    BY <2>1, <2>2 DEF StopIsComplete, Active
  <2>11. SignalReaches'
    BY <2>1, <2>2 DEF SignalReaches
  <2> QED BY <2>3, <2>4, <2>5, <2>6, <2>7, <2>8, <2>9, <2>10, <2>11
<1>4. ASSUME NEW proc \in {"start", "run", "stop", "destroy", "httpc_start", "httpc_cleanup"},
             NEW s, NEW at, Invoke(proc, s, at),
             proc \in {"start", "run", "destroy"} => s \in live,
             proc = "destroy" => s # gdefault,
             proc = "httpc_cleanup" => gdefault # None,
             at = [start |-> "socket", run |-> "check", stop |-> "enter", destroy |-> "stop",
                   httpc_start |-> "create", httpc_cleanup |-> "stop"][proc]
      PROVE  Knows'
  <2>1. /\ UNCHANGED <<live, srv, open, gdefault, gsignal, latest>>
        /\ Depth' = 1 /\ stack'[1].proc = proc /\ stack'[1].srv = s /\ stack'[1].at = at
    BY <1>4 DEF Invoke, globals, history, Depth, Frame
  <2>2. gdefault \in live \cup {None}
    BY <1>1 DEF Knows, CallsKnow, DefaultKnown, Calls
  <2> USE <1>1 DEF Knows, CallsKnow, Calls, Kind, Of, Place
  <2>3. StartKnows'
    BY <1>4, <2>1, <2>2 DEF StartKnows
  <2>4. RunKnows'
    BY <1>4, <2>1, <2>2 DEF RunKnows, Loop
  <2>5. StopKnows'
    BY <1>4, <2>1, <2>2 DEF StopKnows
  <2>6. DestroyKnows'
    BY <1>4, <2>1, <2>2 DEF DestroyKnows
  <2>7. DefaultKnown'
    BY <1>4, <2>1, <2>2 DEF DefaultKnown
  <2>8. Held'
    BY <1>4, <2>1, <2>2 DEF Held, Closing
  <2>9. RunningLoops'
    BY <1>4, <2>1, <2>2 DEF RunningLoops, Loop
  <2>10. StopIsComplete'
    BY <1>4, <2>1, <2>2 DEF StopIsComplete, Active
  <2>11. SignalReaches'
    BY <1>4, <2>1, <2>2 DEF SignalReaches
  <2> QED BY <2>3, <2>4, <2>5, <2>6, <2>7, <2>8, <2>9, <2>10, <2>11
<1> QED BY <1>2, <1>3, <1>4 DEF Application
-----------------------------------------------------------------------------
(* The types, and the theorems.                                            *)

\* A server, with some of its fields replaced, is a server; one that was given a
\* configuration keeps it.
LEMMA Types ==
  ASSUME Typed, Nested, Knows, Next, StackInv'
  PROVE  Typed'
<1> DEFINE s == Top.srv
           Data == /\ live' \subseteq Servers /\ open' \subseteq Fds
                   /\ srv' \in [Servers -> Server] /\ \A t \in live' : srv'[t].config \in Configs
                   /\ gdefault' \in Servers \cup {None} /\ gsignal' \in Servers \cup {None}
                   /\ gconfig' \in Configs \cup {Unset} /\ handlers' \in BOOLEAN
                   /\ latest' \in Servers \cup {None} /\ undefined' \in BOOLEAN
<1> SUFFICES Data
  BY DEF Typed, StackInv
<1> USE DEF Typed, globals, history
<1>1. Depth > 0 => Depth \in Calls /\ Top \in FrameSet
  BY StackType DEF Calls, Top
<1>2. CASE Start
  <2>1. s \in live /\ Depth > 0
    BY <1>1, <1>2 DEF Start, StartSocket, StartBind, StartEpoll, StartTable, StartPublish, Started,
                      At, Knows, CallsKnow, StartKnows, Kind, Of, Top
  <2> HIDE DEF s
  <2>2. CASE StartSocket
    <3>1. CASE UNCHANGED <<srv, open>>
      BY <2>2, <3>1 DEF StartSocket
    <3>2. CASE \E fd \in Fds : open' = open \cup {fd} /\ srv' = [srv EXCEPT ![s].sock = fd]
      BY <2>1, <2>2, <3>2 DEF StartSocket, Server
    <3> QED BY <2>2, <3>1, <3>2 DEF StartSocket, s
  <2>3. CASE StartBind
    <3>1. CASE UNCHANGED <<srv, open>>
      BY <2>3, <3>1 DEF StartBind
    <3>2. CASE GiveUpSocket(s)
      BY <2>1, <2>3, <3>2 DEF StartBind, GiveUpSocket, Server
    <3> QED BY <2>3, <3>1, <3>2 DEF StartBind, s
  <2>4. CASE StartEpoll
    <3>1. CASE \E fd \in Fds : open' = open \cup {fd} /\ srv' = [srv EXCEPT ![s].epoll = fd]
      BY <2>1, <2>4, <3>1 DEF StartEpoll, Server
    <3>2. CASE GiveUpSocket(s)
      BY <2>1, <2>4, <3>2 DEF StartEpoll, GiveUpSocket, Server
    <3> QED BY <2>4, <3>1, <3>2 DEF StartEpoll, s
  <2>5. CASE StartTable
    BY <2>1, <2>5 DEF StartTable, Server
  <2>6. CASE StartPublish
    BY <2>1, <2>6 DEF StartPublish, s
  <2>7. CASE Started
    BY <2>1, <2>7 DEF Started, Server, States, s
  <2> QED BY <1>2, <2>2, <2>3, <2>4, <2>5, <2>6, <2>7 DEF Start
<1>3. CASE Run
  <2>1. CASE RunRunning
    <3>1. s \in live
      BY <1>1, <2>1 DEF RunRunning, At, Knows, CallsKnow, RunKnows, Kind, Of, Top
    <3> QED BY <2>1, <3>1 DEF RunRunning, Server, States
  <2>2. CASE RunSettles
    <3>1. s \in live
      BY <1>1, <2>2 DEF RunSettles, At, Knows, CallsKnow, RunKnows, Kind, Of, Top
    <3> QED BY <2>2, <3>1 DEF RunSettles, Server, States
  <2>3. CASE RunCheck \/ RunHandler \/ RunTest \/ RunWait \/ RunRound \/ RunCallback \/ RunEnded
    BY <2>3 DEF RunCheck, RunHandler, RunTest, RunWait, RunRound, RunCallback, RunEnded
  <2> QED BY <1>3, <2>1, <2>2, <2>3 DEF Run
<1>4. CASE Stop
  <2>1. CASE StopEnter
    <3>1. CASE UNCHANGED srv
      BY <2>1, <3>1 DEF StopEnter
    <3>2. CASE s \in live /\ srv' = [srv EXCEPT ![s].state = "STOPPING"] /\ UNCHANGED undefined
      BY <2>1, <3>2 DEF StopEnter, Server, States
    <3> QED BY <2>1, <3>1, <3>2 DEF StopEnter
  <2>2. CASE StopForget
    BY <2>2 DEF StopForget
  <2>3. CASE StopClose
    BY <2>3 DEF StopClose
  <2>4. CASE StopClosed
    <3>1. s \in live
      BY <1>1, <2>4 DEF StopClosed, At, Knows, CallsKnow, StopKnows, Kind, Of, Place, Top
    <3> QED BY <2>4, <3>1 DEF StopClosed, Server
  <2> QED BY <1>4, <2>1, <2>2, <2>3, <2>4 DEF Stop
<1>5. CASE DestroyStop \/ DestroyFree
  BY <1>5 DEF DestroyStop, DestroyFree, Fresh, Server, States
<1>6. CASE DefaultServer
  BY <1>6 DEF DefaultServer, DefaultCreate, DefaultStart, DefaultRun, CleanupStop, CleanupDestroy,
              CleanupClear, Fresh, Server, States
<1>7. CASE \E sig \in Signals : SignalHandler(sig)
  BY <1>7 DEF SignalHandler, Deliver, SignalTest, SignalStop, SignalDone
<1>8. CASE Application
  <2>1. CASE HttpcInit \/ \E c \in Configs : HttpcConfigure(c)
    BY <2>1 DEF HttpcInit, HttpcConfigure
  <2>2. CASE \E c \in Configs, t \in Servers : HttpcServerCreate(t, c)
    BY <2>2 DEF HttpcServerCreate, Fresh, Server, States
  <2>3. CASE \E proc, t, at : Invoke(proc, t, at)
    BY <2>3 DEF Invoke
  <2> QED BY <1>8, <2>1, <2>2, <2>3 DEF Application
<1> QED BY <1>2, <1>3, <1>4, <1>5, <1>6, <1>7, <1>8 DEF Next

\* Initially there is no server and no call.
LEMMA InitInvariant == Init => InductiveInvariant
<1> SUFFICES ASSUME Init PROVE InductiveInvariant
  OBVIOUS
<1>1. Depth = 0 /\ Calls = {}
  BY DEF Init, Depth, Calls
<1>2. Typed
  <2>1. srv \in [Servers -> Server]
    BY DEF Init, Fresh, Server, States
  <2>2. stack \in Seq(FrameSet)
    BY DEF Init
  <2> QED BY <2>1, <2>2 DEF Init, Typed
<1>3. Nested /\ Shallow
  BY <1>1 DEF Nested, Placed, Innermost, Outermost, Shallow
<1>4. CallsKnow
  BY <1>1 DEF Init, CallsKnow, StartKnows, RunKnows, StopKnows, DestroyKnows, DefaultKnown
<1>5. Held /\ RunningLoops /\ StopIsComplete /\ SignalReaches
  BY DEF Init, Held, RunningLoops, StopIsComplete, SignalReaches
<1> QED BY <1>2, <1>3, <1>4, <1>5 DEF InductiveInvariant, Knows

\* A step that changes nothing keeps the invariant.
LEMMA StutterInvariant ==
  ASSUME InductiveInvariant, UNCHANGED vars
  PROVE  InductiveInvariant'
<1>1. Typed /\ Nested /\ Shallow /\ Knows
  BY DEF InductiveInvariant, Knows
<1>2. Typed'
  BY <1>1 DEF Typed, vars
<1>3. StackInv'
  BY <1>1, SameShape DEF vars, Typed
<1>4. Knows'
  BY <1>1, KnowsSame DEF vars
<1> QED BY <1>2, <1>3, <1>4 DEF InductiveInvariant, StackInv

\* So does every step: the shape of the stack, the types, then what the calls know.
LEMMA NextInvariant ==
  ASSUME InductiveInvariant, Next
  PROVE  InductiveInvariant'
<1>1. Typed /\ Nested /\ Shallow /\ Knows
  BY DEF InductiveInvariant, Knows
<1>2. StackInv'
  BY <1>1, LibraryShape, SignalShape, ApplicationShape DEF Next
<1>3. Nested' /\ Typed'
  BY <1>1, <1>2, Types DEF StackInv
<1>4. Knows'
  BY <1>1, <1>3, StartKeeps, RunKeeps, StopKeeps, DestroyKeeps, DefaultKeeps, SignalKeeps,
     ApplicationKeeps DEF Next
<1> QED BY <1>2, <1>3, <1>4 DEF InductiveInvariant, StackInv

\* Whatever a signal interrupts, the calls in progress are nested as the library
\* nests them, each knows of its server what its next step relies on, and the
\* servers hold what their states say.
THEOREM Invariance == Spec => []InductiveInvariant
<1>1. InductiveInvariant /\ [Next]_vars => InductiveInvariant'
  BY NextInvariant, StutterInvariant
<1> QED BY InitInvariant, <1>1, PTL DEF Spec

\* Every variable has its type, and however calls of the library, callbacks and
\* the two signals interrupt each other, no more than seven calls are in progress.
THEOREM TypeCorrect == Spec => []TypeOK
<1>1. ASSUME InductiveInvariant
      PROVE  TypeOK
  <2>1. Typed /\ Depth \in Nat /\ (Depth > 0 => Room(Depth))
    BY <1>1, StackType DEF InductiveInvariant, Knows, Shallow, Calls
  <2> QED BY <2>1 DEF Typed, TypeOK, Room
<1> QED BY <1>1, Invariance, PTL

\* On every path of httpc_server_start, its failures and httpc_server_stop, what a
\* server holds is open and its own, and a stop that a signal nests in another stop
\* of the same server never closes the socket a second time.
THEOREM DescriptorsAreHeld == Spec => []DescriptorsHeld
<1>1. ASSUME InductiveInvariant, TypeOK
      PROVE  DescriptorsHeld
  <2>1. Held /\ Typed /\ Depth \in Nat
    BY <1>1, StackType DEF InductiveInvariant, Knows
  <2>2. \A s \in live : srv[s].state = "CREATED" /\ ~Active("start", s) =>
          srv[s].sock = None /\ srv[s].epoll = None
    BY <2>1 DEF Held, Active, Calls, Kind, Of
  <2>3. ASSUME At("stop", "close"), Closing(Top.srv)
        PROVE  FALSE
    <3>1. PICK i \in Calls : Kind(i) = "stop" /\ Of(i) = Top.srv /\ Place(i) = "closed"
      BY <2>3 DEF Closing, Calls, Kind, Of, Place
    <3>2. i < Depth /\ Kind(Depth) = "stop"
      BY <2>1, <2>3, <3>1 DEF At, Top, Calls, Kind, Place
    <3> QED BY <1>1, <2>1, <3>1, <3>2
            DEF InductiveInvariant, Knows, CallsKnow, StopKnows, Top, Calls, Of
  <2> QED BY <1>1, <2>1, <2>2, <2>3 DEF DescriptorsHeld, Held
<1> QED BY <1>1, TypeCorrect, Invariance, PTL

\* When httpc_server_stop is not in progress on it, a STOPPING server has no socket
\* and the signal handler has forgotten it.
THEOREM StopsCompletely == Spec => []StopIsComplete
<1>1. InductiveInvariant => StopIsComplete
  BY DEF InductiveInvariant, Knows
<1> QED BY <1>1, Invariance, PTL

\* A RUNNING server is in a call of httpc_server_run: httpc_server_is_running is true.
THEOREM RunningIsTrue == Spec => []RunningMeansRun
<1>1. InductiveInvariant => RunningMeansRun
  BY DEF InductiveInvariant, Knows, RunningLoops, RunningMeansRun, Active, Calls, Kind, Of
<1> QED BY <1>1, Invariance, PTL

\* httpc_server_run may overwrite the STOPPING of a signal; even so its loop never
\* tests, waits or serves without a socket unless it is told to stop.
THEOREM NoLoopIsDeaf == Spec => []NoDeafLoop
<1>1. InductiveInvariant => NoDeafLoop
  BY DEF InductiveInvariant, Knows, CallsKnow, RunKnows, NoDeafLoop, Calls, Kind, Of, Place
<1> QED BY <1>1, Invariance, PTL

\* From the time it is STARTED until its socket is closed, the server that was
\* started last is the one a signal stops.
THEOREM SignalsReach == Spec => []SignalReaches
<1>1. InductiveInvariant => SignalReaches
  BY DEF InductiveInvariant, Knows
<1> QED BY <1>1, Invariance, PTL

\* Nothing but the last step of httpc_server_destroy frees a server.
LEMMA OnlyDestroyFrees ==
  ASSUME Next, ~DestroyFree
  PROVE  live \subseteq live'
<1> USE DEF globals, history
<1>1. CASE Application
  BY <1>1 DEF Application, HttpcInit, HttpcConfigure, HttpcServerCreate, Invoke
<1>2. CASE Start
  BY <1>2 DEF Start, StartSocket, StartBind, StartEpoll, StartTable, StartPublish, Started
<1>3. CASE Run
  BY <1>3 DEF Run, RunCheck, RunRunning, RunHandler, RunTest, RunWait, RunRound, RunCallback,
              RunEnded, RunSettles
<1>4. CASE Stop
  BY <1>4 DEF Stop, StopEnter, StopForget, StopClose, StopClosed
<1>5. CASE DestroyStop
  BY <1>5 DEF DestroyStop
<1>6. CASE DefaultServer
  BY <1>6 DEF DefaultServer, DefaultCreate, DefaultStart, DefaultRun, CleanupStop, CleanupDestroy,
              CleanupClear
<1>7. CASE \E sig \in Signals : SignalHandler(sig)
  BY <1>7 DEF SignalHandler, Deliver, SignalTest, SignalStop, SignalDone
<1> QED BY <1>1, <1>2, <1>3, <1>4, <1>5, <1>6, <1>7 DEF Next

\* httpc_server_destroy frees a server that has not STOPPED by itself only when
\* both its descriptors are closed and, unless it was never started, when the
\* signal handler has forgotten it.
THEOREM DestroyingReleases == Spec => DestroyReleases
<1> DEFINE Step == \A s \in Servers : Destroyed(s) /\ srv[s].state # "STOPPED" =>
                     Released(s) /\ (srv[s].state # "CREATED" => gsignal' # s)
<1>1. ASSUME InductiveInvariant, Next
      PROVE  Step
  <2> SUFFICES ASSUME NEW s \in Servers, Destroyed(s), srv[s].state # "STOPPED"
               PROVE  Released(s) /\ (srv[s].state # "CREATED" => gsignal' # s)
    OBVIOUS
  <2>1. DestroyFree /\ Top.srv = s /\ s \in live
    BY <1>1, OnlyDestroyFrees DEF Destroyed, DestroyFree
  <2>2. Typed /\ Nested /\ Held /\ StopIsComplete /\ DestroyKnows
    BY <1>1 DEF InductiveInvariant, Knows, CallsKnow
  <2>3. Depth \in Calls /\ Kind(Depth) = "destroy" /\ Of(Depth) = s /\ Place(Depth) = "free"
    BY <2>1, <2>2, StackType DEF DestroyFree, At, Top, Calls, Kind, Of, Place
  <2>4. srv[s].state \in {"CREATED", "STOPPING"}
    BY <2>2, <2>3 DEF DestroyKnows, Calls
  <2>5. \A i \in Calls : Kind(i) \notin {"start", "stop"}
    BY <2>2, <2>3, StackType DEF Nested, Innermost, Calls, Signals
  <2>6. None \notin open' /\ srv[s].epoll \notin open'
    BY <2>1, <2>2 DEF DestroyFree, Typed, Fds
  <2>7. srv[s].sock = None
    <3>1. CASE srv[s].state = "CREATED"
      BY <2>1, <2>2, <2>5, <3>1 DEF Held
    <3>2. CASE srv[s].state = "STOPPING"
      BY <2>1, <2>2, <2>5, <3>2 DEF StopIsComplete, Active, Calls, Kind
    <3> QED BY <2>4, <3>1, <3>2
  <2>8. srv[s].state = "STOPPING" => gsignal' # s
    BY <2>1, <2>2, <2>5 DEF DestroyFree, globals, StopIsComplete, Active, Calls, Kind
  <2> QED BY <2>4, <2>6, <2>7, <2>8 DEF Released
<1>2. InductiveInvariant /\ [Next]_vars => [Step]_vars
  BY <1>1
<1> QED BY <1>2, Invariance, PTL DEF Spec, DestroyReleases
=============================================================================
