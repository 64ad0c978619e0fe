--------------------------- MODULE ServerLifecycle ---------------------------
(***************************************************************************)
(* The life cycle of a server (srcs/core/server.c, with srcs/core/config.c *)
(* and srcs/api/httpc_lib.c): create, start, run, stop, destroy, the calls *)
(* on the default server, and the signal handler, which may interrupt any  *)
(* of them, and itself with the other signal.                              *)
(*                                                                         *)
(* One thread: a stack of the calls in progress, of which the innermost    *)
(* moves.  A step is at most one access to what the signal handler shares  *)
(* with the code it interrupts: state, server_socket, g_signal_server.     *)
(* A descriptor is a number, the lowest free one when it is opened; a      *)
(* server is its address, which calloc may hand out again after free.      *)
(*                                                                         *)
(* main_handler is reduced to its tests and its failures (EventLoop has    *)
(* the rest); a callback may stop or start servers.  Out of scope: calls   *)
(* with a pointer that is not a live server, and destroying or running a   *)
(* server from within a callback.                                          *)
(***************************************************************************)
EXTENDS Integers, Sequences, FiniteSets

CONSTANTS
  Servers,      \* addresses calloc may return for a server
  MaxFd,        \* the descriptor limit of the process
  Configs,      \* valid configurations
  Default,      \* the one httpc_init_default_config sets
  Unset,        \* the zeroed, invalid g_config before httpc_init
  None          \* NULL, or descriptor -1

ASSUME ServersAssumption == None \notin Servers
ASSUME MaxFdAssumption == MaxFd \in Nat /\ None \notin 0 .. MaxFd
ASSUME ConfigsAssumption == Default \in Configs /\ Unset \notin Configs

VARIABLES
  live,      \* addresses that hold a server
  srv,       \* the servers
  open,      \* descriptors that are open in the process
  gdefault,  \* g_default_server
  gsignal,   \* g_signal_server
  gconfig,   \* g_config
  handlers,  \* the signal handlers are installed
  stack,     \* the calls in progress
  ret,       \* what the application's last call returned
  latest,    \* history: the server that start registered for signals last
  undefined  \* freed memory was used: anything may follow

vars == <<live, srv, open, gdefault, gsignal, gconfig, handlers, stack, ret,
          latest, undefined>>
-----------------------------------------------------------------------------
States == {"CREATED", "STARTED", "RUNNING", "STOPPING", "STOPPED"}
Signals == {"SIGINT", "SIGTERM"}
Procs == {"start", "run", "stop", "destroy", "httpc_start", "httpc_cleanup"} \cup Signals
Fds == 0 .. MaxFd

Server == [state : States, sock : Fds \cup {None}, epoll : Fds \cup {None},
           config : Configs \cup {Unset}]

\* What calloc and httpc_server_create leave in a server.
Fresh(c) == [state |-> "CREATED", sock |-> None, epoll |-> None, config |-> c]

\* val is the result of the last call the frame made.
Frame(proc, s, at) == [proc |-> proc, srv |-> s, at |-> at, val |-> 0]

Depth == Len(stack)
Top == stack[Depth]
At(proc, at) == Depth > 0 /\ Top.proc = proc /\ Top.at = at
Goto(at) == stack' = [stack EXCEPT ![Depth].at = at] /\ UNCHANGED ret
Call(at, frame) ==
  stack' = Append([stack EXCEPT ![Depth].at = at], frame) /\ UNCHANGED ret

\* The innermost call returns v, to its caller or to the application.
Return(v) ==
  IF Depth = 1
  THEN stack' = <<>> /\ ret' = v
  ELSE /\ stack' = [SubSeq(stack, 1, Depth - 1) EXCEPT ![Depth - 1].val = v]
       /\ UNCHANGED ret

FreeFd(fd) == fd \in Fds \ open /\ \A g \in Fds \ open : fd <= g

globals == <<gdefault, gsignal, gconfig, handlers>>
history == <<latest, undefined>>
-----------------------------------------------------------------------------
(* httpc_server_start.  Each failing call undoes what was done before.     *)

StartSocket ==
  /\ At("start", "socket")
  /\ LET s == Top.srv
     IN  \/ Return(-1) /\ UNCHANGED <<srv, open>>
         \/ /\ srv[s].state = "CREATED"
            /\ \E fd \in Fds : /\ FreeFd(fd)
                               /\ open' = open \cup {fd}
                               /\ srv' = [srv EXCEPT ![s].sock = fd]
            /\ Goto("bind")
  /\ UNCHANGED <<live, globals, history>>

\* bind or listen fails.  The mutant keeps the descriptor it has closed.
MutantGiveUpSocket(s) == open' = open \ {srv[s].sock} /\ UNCHANGED srv
GiveUpSocket(s) ==
  /\ open' = open \ {srv[s].sock}
  /\ srv' = [srv EXCEPT ![s].sock = None]

StartBind ==
  /\ At("start", "bind")
  /\ \/ GiveUpSocket(Top.srv) /\ Return(-1)
     \/ Goto("epoll") /\ UNCHANGED <<srv, open>>
  /\ UNCHANGED <<live, globals, history>>

StartEpoll ==
  /\ At("start", "epoll")
  /\ \/ GiveUpSocket(Top.srv) /\ Return(-1)
     \/ /\ \E fd \in Fds : /\ FreeFd(fd)
                           /\ open' = open \cup {fd}
                           /\ srv' = [srv EXCEPT ![Top.srv].epoll = fd]
        /\ Goto("table")
  /\ UNCHANGED <<live, globals, history>>

\* calloc of the connection table.
StartTable ==
  /\ At("start", "table")
  /\ LET s == Top.srv
     IN  \/ /\ open' = open \ {srv[s].sock, srv[s].epoll}
            /\ srv' = [srv EXCEPT ![s].sock = None, ![s].epoll = None]
            /\ Return(-1)
         \/ Goto("publish") /\ UNCHANGED <<srv, open>>
  /\ UNCHANGED <<live, globals, history>>

\* The mutant does not register the server for signals.
MutantStartPublish ==
  /\ At("start", "publish")
  /\ latest' = Top.srv
  /\ Goto("started")
  /\ UNCHANGED <<live, srv, open, globals, undefined>>

StartPublish ==
  /\ At("start", "publish")
  /\ gsignal' = Top.srv /\ latest' = Top.srv
  /\ Goto("started")
  /\ UNCHANGED <<live, srv, open, gdefault, gconfig, handlers, undefined>>

Started ==
  /\ At("start", "started")
  /\ srv' = [srv EXCEPT ![Top.srv].state = "STARTED"]
  /\ Return(0)
  /\ UNCHANGED <<live, open, globals, history>>
-----------------------------------------------------------------------------
(* httpc_server_run.                                                       *)

RunCheck ==
  /\ At("run", "check")
  /\ IF srv[Top.srv].state = "STARTED" THEN Goto("running") ELSE Return(-1)
  /\ UNCHANGED <<live, srv, open, globals, history>>

RunRunning ==
  /\ At("run", "running")
  /\ srv' = [srv EXCEPT ![Top.srv].state = "RUNNING"]
  /\ Goto("handler")
  /\ UNCHANGED <<live, open, globals, history>>

\* The first lines of main_handler.  The mutant does not test the socket.
MutantRunHandler ==
  /\ At("run", "handler")
  /\ Goto("test")
  /\ UNCHANGED <<live, srv, open, globals, history>>

RunHandler ==
  /\ At("run", "handler")
  /\ \/ Goto("ended")
     \/ srv[Top.srv].sock # None /\ Goto("test")
  /\ UNCHANGED <<live, srv, open, globals, history>>

RunTest ==
  /\ At("run", "test")
  /\ Goto(IF srv[Top.srv].state = "RUNNING" THEN "wait" ELSE "ended")
  /\ UNCHANGED <<live, srv, open, globals, history>>

\* epoll_wait returns events or EINTR, or fails.
RunWait ==
  /\ At("run", "wait")
  /\ Goto("round") \/ Goto("ended")
  /\ UNCHANGED <<live, srv, open, globals, history>>

RunRound ==
  /\ At("run", "round")
  /\ Goto("test")
  /\ UNCHANGED <<live, srv, open, globals, history>>

\* on_request or a route's handler calls back into the library.
RunCallback ==
  /\ At("run", "handler") \/ At("run", "round")
  /\ \E s \in live, proc \in {"start", "stop"} :
       Call(Top.at, Frame(proc, s, IF proc = "start" THEN "socket" ELSE "enter"))
  /\ UNCHANGED <<live, srv, open, globals, history>>

\* The mutant leaves the state as it is when the loop has ended by itself.
MutantRunEnded ==
  /\ At("run", "ended")
  /\ Return(0)
  /\ UNCHANGED <<live, srv, open, globals, history>>

RunEnded ==
  /\ At("run", "ended")
  /\ IF srv[Top.srv].state = "RUNNING" THEN Goto("settle") ELSE Return(0)
  /\ UNCHANGED <<live, srv, open, globals, history>>

RunSettles ==
  /\ At("run", "settle")
  /\ srv' = [srv EXCEPT ![Top.srv].state = "STOPPED"]
  /\ Return(0)
  /\ UNCHANGED <<live, open, globals, history>>
-----------------------------------------------------------------------------
(* httpc_server_stop, called by the application, a callback or a signal.   *)

\* Tests and sets the state.  The signal handler may pass NULL or, when
\* g_signal_server dangles, the address of a server that is gone.
StopEnter ==
  /\ At("stop", "enter")
  /\ LET s == Top.srv
     IN  \/ s = None /\ Return(-1) /\ UNCHANGED <<srv, undefined>>
         \/ s \in Servers \ live /\ undefined' = TRUE /\ UNCHANGED <<srv, stack, ret>>
         \/ /\ s \in live /\ srv[s].state \in {"STOPPED", "CREATED"}
            /\ Return(0) /\ UNCHANGED <<srv, undefined>>
         \/ /\ s \in live /\ srv[s].state \notin {"STOPPED", "CREATED"}
            /\ srv' = [srv EXCEPT ![s].state = "STOPPING"]
            /\ Goto("forget") /\ UNCHANGED undefined
  /\ UNCHANGED <<live, open, globals, latest>>

\* The mutant does not clear g_signal_server.
MutantStopForget ==
  /\ At("stop", "forget")
  /\ Goto("close")
  /\ UNCHANGED <<live, srv, open, globals, history>>

StopForget ==
  /\ At("stop", "forget")
  /\ gsignal' = IF gsignal = Top.srv THEN None ELSE gsignal
  /\ Goto("close")
  /\ UNCHANGED <<live, srv, open, gdefault, gconfig, handlers, history>>

StopClose ==
  /\ At("stop", "close")
  /\ IF srv[Top.srv].sock = None
     THEN Return(0) /\ UNCHANGED open
     ELSE Goto("closed") /\ open' = open \ {srv[Top.srv].sock}
  /\ UNCHANGED <<live, srv, globals, history>>

StopClosed ==
  /\ At("stop", "closed")
  /\ srv' = [srv EXCEPT ![Top.srv].sock = None]
  /\ Return(0)
  /\ UNCHANGED <<live, open, globals, history>>
-----------------------------------------------------------------------------
(* httpc_server_destroy.                                                   *)

\* The mutant does not stop the server first.
MutantDestroyStop ==
  /\ At("destroy", "stop")
  /\ Goto("free")
  /\ UNCHANGED <<live, srv, open, globals, history>>

DestroyStop ==
  /\ At("destroy", "stop")
  /\ Call("free", Frame("stop", Top.srv, "enter"))
  /\ UNCHANGED <<live, srv, open, globals, history>>

DestroyFree ==
  /\ At("destroy", "free")
  /\ open' = open \ {srv[Top.srv].epoll}
  /\ live' = live \ {Top.srv}
  /\ srv' = [srv EXCEPT ![Top.srv] = Fresh(Unset)]
  /\ Return(0)
  /\ UNCHANGED <<globals, history>>
-----------------------------------------------------------------------------
(* The default server: httpc_start and httpc_cleanup.                      *)

\* httpc_server_create: an invalid configuration or calloc may make it fail.
DefaultCreate ==
  /\ At("httpc_start", "create")
  /\ \/ gdefault # None /\ Goto("start") /\ UNCHANGED <<live, srv, gdefault>>
     \/ gdefault = None /\ Return(-1) /\ UNCHANGED <<live, srv, gdefault>>
     \/ /\ gdefault = None /\ gconfig # Unset
        /\ \E s \in Servers \ live :
             /\ live' = live \cup {s}
             /\ srv' = [srv EXCEPT ![s] = Fresh(gconfig)]
             /\ gdefault' = s
        /\ Goto("start")
  /\ UNCHANGED <<open, gsignal, gconfig, handlers, history>>

DefaultStart ==
  /\ At("httpc_start", "start")
  /\ Call("run", Frame("start", gdefault, "socket"))
  /\ UNCHANGED <<live, srv, open, globals, history>>

DefaultRun ==
  /\ At("httpc_start", "run")
  /\ IF Top.val = 0
     THEN stack' = [stack EXCEPT ![Depth] = Frame("run", gdefault, "check")] /\ UNCHANGED ret
     ELSE Return(-1)
  /\ UNCHANGED <<live, srv, open, globals, history>>

CleanupStop ==
  /\ At("httpc_cleanup", "stop")
  /\ Call("destroy", Frame("stop", gdefault, "enter"))
  /\ UNCHANGED <<live, srv, open, globals, history>>

CleanupDestroy ==
  /\ At("httpc_cleanup", "destroy")
  /\ Call("clear", Frame("destroy", gdefault, "stop"))
  /\ UNCHANGED <<live, srv, open, globals, history>>

CleanupClear ==
  /\ At("httpc_cleanup", "clear")
  /\ gdefault' = None
  /\ Return(0)
  /\ UNCHANGED <<live, srv, open, gsignal, gconfig, handlers, history>>
-----------------------------------------------------------------------------
(* signal_handler.  The kernel does not nest a signal in its own handler.  *)

Deliver(sig) ==
  /\ handlers
  /\ \A i \in 1 .. Depth : stack[i].proc # sig
  /\ stack' = Append(stack, Frame(sig, None, "test"))
  /\ UNCHANGED <<live, srv, open, globals, ret, history>>

\* A compiler may load g_signal_server once for the test and the argument.
SignalTest(sig) ==
  /\ At(sig, "test")
  /\ stack' = [stack EXCEPT ![Depth].at = IF gsignal = None THEN "done" ELSE "stop",
                            ![Depth].srv = gsignal]
  /\ UNCHANGED <<live, srv, open, globals, ret, history>>

SignalStop(sig) ==
  /\ At(sig, "stop")
  /\ \E s \in {Top.srv, gsignal} : Call("done", Frame("stop", s, "enter"))
  /\ UNCHANGED <<live, srv, open, globals, history>>

SignalDone(sig) ==
  /\ At(sig, "done")
  /\ stack' = SubSeq(stack, 1, Depth - 1)
  /\ UNCHANGED <<live, srv, open, globals, ret, history>>
-----------------------------------------------------------------------------
(* The calls of the application.                                           *)

Idle == stack = <<>>

\* httpc_init: the default configuration, then the handlers.
HttpcInit ==
  /\ Idle
  /\ gconfig' = Default
  /\ handlers' = TRUE /\ ret' = 0
  /\ UNCHANGED <<live, srv, open, gdefault, gsignal, stack, history>>

\* httpc_configure with a valid configuration; an invalid one changes nothing.
HttpcConfigure(c) ==
  /\ Idle
  /\ gconfig' = c /\ ret' = 0
  /\ UNCHANGED <<live, srv, open, gdefault, gsignal, handlers, stack, history>>

HttpcServerCreate(s, c) ==
  /\ Idle /\ s \notin live
  /\ live' = live \cup {s}
  /\ srv' = [srv EXCEPT ![s] = Fresh(c)]
  /\ UNCHANGED <<open, globals, stack, ret, history>>

Invoke(proc, s, at) ==
  /\ Idle
  /\ stack' = <<Frame(proc, s, at)>>
  /\ UNCHANGED <<live, srv, open, globals, ret, history>>

\* httpc_run and httpc_stop are run and stop of the default server.
Application ==
  \/ HttpcInit
  \/ \E c \in Configs : HttpcConfigure(c) \/ \E s \in Servers : HttpcServerCreate(s, c)
  \/ \E s \in live : \/ Invoke("start", s, "socket")
                     \/ Invoke("run", s, "check")
                     \/ Invoke("stop", s, "enter")
                     \/ s # gdefault /\ Invoke("destroy", s, "stop")
  \/ Invoke("httpc_start", None, "create")
  \/ gdefault # None /\ Invoke("httpc_cleanup", None, "stop")

Init ==
  /\ live = {} /\ open = {}
  /\ srv = [s \in Servers |-> Fresh(Unset)]
  /\ gdefault = None /\ gsignal = None /\ gconfig = Unset
  /\ handlers = FALSE
  /\ stack = <<>> /\ ret = 0
  /\ latest = None /\ undefined = FALSE

Start == StartSocket \/ StartBind \/ StartEpoll \/ StartTable \/ StartPublish \/ Started
Run == RunCheck \/ RunRunning \/ RunHandler \/ RunTest \/ RunWait \/ RunRound
         \/ RunCallback \/ RunEnded \/ RunSettles
Stop == StopEnter \/ StopForget \/ StopClose \/ StopClosed
DefaultServer == DefaultCreate \/ DefaultStart \/ DefaultRun
                   \/ CleanupStop \/ CleanupDestroy \/ CleanupClear
SignalHandler(sig) == Deliver(sig) \/ SignalTest(sig) \/ SignalStop(sig) \/ SignalDone(sig)

Next ==
  /\ ~undefined
  /\ \/ Application \/ Start \/ Run \/ Stop \/ DestroyStop \/ DestroyFree \/ DefaultServer
     \/ \E sig \in Signals : SignalHandler(sig)

Spec == Init /\ [][Next]_vars
-----------------------------------------------------------------------------
(* Invariants.                                                             *)

FrameSet == [proc : Procs, srv : Servers \cup {None},
             at : {"socket", "bind", "epoll", "table", "publish", "started", "check", "running",
                   "handler", "test", "wait", "round", "ended", "settle", "enter", "forget",
                   "close", "closed", "stop", "free", "create", "start", "run", "destroy",
                   "clear", "done"},
             val : {-1, 0}]

\* Every variable has its type; a server that exists has a valid configuration,
\* and no more calls are nested than a callback and the two signals make possible.
TypeOK ==
  /\ live \subseteq Servers /\ open \subseteq Fds
  /\ srv \in [Servers -> Server] /\ \A s \in live : srv[s].config \in Configs
  /\ gdefault \in Servers \cup {None} /\ gsignal \in Servers \cup {None}
  /\ gconfig \in Configs \cup {Unset} /\ handlers \in BOOLEAN
  /\ stack \in Seq(FrameSet) /\ Depth <= 7
  /\ ret \in {-1, 0}
  /\ latest \in Servers \cup {None}
  /\ undefined \in BOOLEAN

Active(proc, s) == \E i \in 1 .. Depth : stack[i].proc = proc /\ stack[i].srv = s

\* httpc_server_stop has closed the socket and not yet stored -1.
Closing(s) ==
  \E i \in 1 .. Depth : stack[i].proc = "stop" /\ stack[i].srv = s /\ stack[i].at = "closed"

\* A descriptor a server holds is open and held by no other server, on every
\* path through start, its failures and stop, whatever a signal does meanwhile;
\* and no socket is closed twice, although a signal may stop a server that is
\* being stopped: close is never reached again before -1 is stored.
DescriptorsHeld ==
  /\ TypeOK
  /\ \A s \in live :
       /\ srv[s].sock # None => srv[s].sock \in open \/ Closing(s)
       /\ srv[s].epoll # None => srv[s].epoll \in open /\ srv[s].epoll # srv[s].sock
       /\ srv[s].state = "CREATED" /\ ~Active("start", s) =>
            srv[s].sock = None /\ srv[s].epoll = None
  /\ \A s, t \in live : s # t =>
       {srv[s].sock, srv[s].epoll} \cap {srv[t].sock, srv[t].epoll} \subseteq {None}
  /\ At("stop", "close") => ~Closing(Top.srv)

\* When no call of httpc_server_stop is in progress on it, a STOPPING server has
\* no socket and signals have forgotten it.
StopIsComplete ==
  \A s \in live : srv[s].state = "STOPPING" /\ ~Active("stop", s) =>
    srv[s].sock = None /\ gsignal # s

\* httpc_server_is_running tells the truth: a RUNNING server is in a call of run.
RunningMeansRun ==
  \A s \in live : srv[s].state = "RUNNING" => Active("run", s)

\* run overwrites the STOPPING of a signal that arrives after its test; even so
\* the loop is never in progress without a socket and unaware of being stopped.
NoDeafLoop ==
  \A s \in live :
    srv[s].sock = None /\ srv[s].state # "STOPPING" =>
      \A i \in 1 .. Depth : stack[i].proc = "run" /\ stack[i].srv = s =>
        stack[i].at \notin {"test", "wait", "round"}

\* The server that was started last can be stopped by a signal from the time it
\* is STARTED until its socket is closed.
SignalReaches ==
  latest \in live /\ srv[latest].state \in {"STARTED", "RUNNING"} =>
    gsignal = latest \/ srv[latest].sock = None

Destroyed(s) == s \in live /\ s \notin live'

Released(s) == srv[s].sock \notin open' /\ srv[s].epoll \notin open'

\* Freeing a server releases its descriptors and its place in g_signal_server,
\* unless its loop has ended by itself: then stop does nothing, and the next
\* server created at the address inherits the place.
DestroyReleases ==
  [][\A s \in Servers : Destroyed(s) /\ srv[s].state # "STOPPED" =>
       Released(s) /\ (srv[s].state # "CREATED" => gsignal' # s)]_vars
-----------------------------------------------------------------------------
(* What the header says, and the code does not do.                         *)

\* httpc_cleanup: "Clean up library resources".
CleanupReleases == [][\A s \in Servers : Destroyed(s) => Released(s) /\ gsignal' # s]_vars

\* httpc_configure: "Configure the server with the specified options".  The
\* default server that httpc_start starts has the options configured last.
ConfigurationApplies ==
  At("start", "publish") /\ Top.srv = gdefault => srv[gdefault].config = gconfig
=============================================================================
