------------------------------ MODULE EventLoop ------------------------------
(***************************************************************************)
(* The single-threaded event loop of MicroHTTP: main_handler and the       *)
(* functions it calls (srcs/core/handlers/handler.c), the connection table *)
(* it owns, the kernel it talks to (a listening socket, stream sockets and *)
(* an edge-triggered epoll instance), the peers, and the stop signal that  *)
(* may interrupt it anywhere.                                              *)
(*                                                                         *)
(* Granularity: one action per system call with the computation that       *)
(* follows it, so that a peer, the kernel or a signal may act between any  *)
(* two system calls.  A socket descriptor is identified with the TCP       *)
(* connection it refers to.                                                *)
(*                                                                         *)
(* Data: a peer sends a stream of units.  "t" stands for a CR LF CR LF,    *)
(* "x" for any other piece of the stream; recv splits between units.  The  *)
(* bytes in connection->buffer are the last buffer_len units received, so  *)
(* the buffer is a window on the stream.  A response is known by its       *)
(* number on the connection and its length.                                *)
(***************************************************************************)
EXTENDS Naturals, Sequences, FiniteSets

CONSTANTS
  Clients,       \* the TCP connections that peers may open
  MaxClients,    \* config.max_clients, the size of server->connections
  BufCap,        \* sizeof(connection->buffer) - 1, in units
  RequestLimit,  \* MAX_HEADER_SIZE + MAX_BODY_SIZE, in units
  MaxEvents,     \* length of the events array given to epoll_wait
  RespLens,      \* lengths a serialised response may have, in units
  SndBuf,        \* capacity of a socket's send queue, in units
  MaxUnits,      \* bound: units a peer sends on one connection
  MaxFaults,     \* bound: injected failures of system calls
  None           \* no descriptor

ASSUME MaxClientsAssumption == MaxClients \in Nat \ {0}
ASSUME BufCapAssumption == BufCap \in Nat \ {0}
ASSUME RequestLimitAssumption == RequestLimit \in Nat /\ BufCap <= RequestLimit
ASSUME MaxEventsAssumption == MaxEvents \in Nat \ {0}
ASSUME RespLensAssumption == RespLens \subseteq Nat \ {0}
ASSUME SndBufAssumption == SndBuf \in Nat \ {0}
ASSUME BoundsAssumption == MaxUnits \in Nat /\ MaxFaults \in Nat
ASSUME NoneAssumption == None \notin Clients

Slots == 1 .. MaxClients
Listener == 0             \* event.data.ptr = NULL marks the listening socket

VARIABLES
  pc,        \* where main_handler is
  cur,       \* the slot read_connection or write_connection works on, or 0
  batch,     \* events[] still to be handled in this round
  running,   \* server->state = HTTPC_SERVER_RUNNING
  conn,      \* server->connections
  listening, \* server->server_socket is an open listening socket
  phase,     \* kernel: life of each TCP connection
  peer,      \* kernel: what the peer has done to its end
  stream,    \* units the peer has sent on the connection
  rd,        \* how many of them recv has returned
  wire,      \* response units send has accepted
  got,       \* how many of them the peer has taken off the connection
  epi,       \* kernel: the epoll item of each connection
  answers,   \* history: for each response, the head it answers, its length
  faults     \* injected failures so far

loopVars == <<pc, cur, batch>>
kernelVars == <<phase, peer, stream, rd, wire, got>>
vars == <<pc, cur, batch, running, conn, listening, phase, peer, stream, rd,
          wire, got, epi, answers, faults>>
-----------------------------------------------------------------------------
(* connection_t.  in_use is fd # None: the code sets and clears the two    *)
(* together.  id names the heap block connection->response points to.      *)

Connection ==
  [fd : Clients \cup {None}, state : {"recv", "send"}, len : 0 .. BufCap,
   id : Nat, rlen : Nat, sent : Nat]

Unused == [fd |-> None, state |-> "recv", len |-> 0, id |-> 0, rlen |-> 0, sent |-> 0]

EpollItem == [ptr : 0 .. MaxClients, mask : {"none", "in", "out"}, ready : BOOLEAN]

Unregistered == [ptr |-> 0, mask |-> "none", ready |-> FALSE]

Event == [ptr : 0 .. MaxClients, fd : Clients \cup {None},
          flags : SUBSET {"in", "out", "hup"}]

InUse(s) == conn[s].fd # None

MaskOf(state) == IF state = "recv" THEN "in" ELSE "out"
-----------------------------------------------------------------------------
(* The kernel: readiness of a socket, wake-ups and epoll_ctl.              *)

Unread(c) == Len(stream[c]) - rd[c]
Readable(c) == rd[c] < Len(stream[c]) \/ peer[c] = "fin"
Writable(c) == Len(wire[c]) < got[c] + SndBuf

\* What polling the socket reports for the interest set mask.
Flags(c, mask) ==
  { f \in {"in", "out", "hup"} :
      \/ f = "hup" /\ peer[c] = "rst"
      \/ f = "in"  /\ mask = "in"  /\ Readable(c)
      \/ f = "out" /\ mask = "out" /\ Writable(c) }

\* A change on the socket of c queues its item if it is registered for one of
\* masks: an edge, reported once.
Wake(c, masks) ==
  epi' = [epi EXCEPT ![c].ready = @ \/ epi[c].mask \in masks]

\* epoll_ctl ADD and MOD: store the interest and poll the socket at once.
EpollCtl(c, s, mask) ==
  epi' = [epi EXCEPT ![c] =
            [ptr |-> s, mask |-> mask, ready |-> @.ready \/ Flags(c, mask) # {}]]
-----------------------------------------------------------------------------
(* connection->buffer holds the units From(s) .. rd of the stream.         *)

From(s) == rd[conn[s].fd] - conn[s].len + 1

IsHead(c, p) == stream[c][p] = "t"

\* sizeof(connection->buffer) - 1 - connection->buffer_len: one byte is kept for
\* the NUL.  MutantRoom forgets it.
MutantRoom(s) == BufCap + 1 - conn[s].len
Room(s) == BufCap - conn[s].len

\* headers_complete: the units from .. to of the stream contain a CR LF CR LF.
HeadersComplete(c, from, to) == \E p \in from .. to : IsHead(c, p)

\* What read_connection does after a recv: go on until EAGAIN.  The mutant goes
\* back to the loop after each recv, as under level-triggered epoll.
MutantAfterReceive(c, from, to) == IF HeadersComplete(c, from, to) THEN "dispatch" ELSE "batch"
AfterReceive(c, from, to) == IF HeadersComplete(c, from, to) THEN "dispatch" ELSE "read"

\* httpc_parse_request reads up to the first blank line in the buffer.
IsRequest(s, p) ==
  LET c == conn[s].fd
  IN  /\ p \in From(s) .. rd[c]
      /\ IsHead(c, p)
      /\ \A q \in From(s) .. p - 1 : ~IsHead(c, q)

\* find_free_slot returns s, the first slot that is not in use.  The mutant
\* takes an empty buffer for a free slot.
MutantFreeSlot(s) == conn[s].len = 0 /\ \A t \in 1 .. s - 1 : conn[t].len # 0
FreeSlot(s) == ~InUse(s) /\ \A t \in 1 .. s - 1 : InUse(t)

\* What accept_connections stores in a slot.
Fresh(c) == [Unused EXCEPT !.fd = c]

\* What dispatch_request stores, and write_connection after the last unit.  The
\* mutants of the latter leave buffer_len, or state, as it was.
Responding(r, id, n) ==
  [r EXCEPT !.state = "send", !.id = id, !.rlen = n, !.sent = 0]
MutantRearmedBuffer(r) == [r EXCEPT !.state = "recv", !.id = 0, !.rlen = 0, !.sent = 0]
MutantRearmedState(r) == [r EXCEPT !.len = 0, !.id = 0, !.rlen = 0, !.sent = 0]
Rearmed(r) ==
  [r EXCEPT !.state = "recv", !.len = 0, !.id = 0, !.rlen = 0, !.sent = 0]

\* close_connection: EPOLL_CTL_DEL, close, free, memset.
CloseConnection(s) ==
  IF InUse(s)
  THEN LET c == conn[s].fd
       IN  /\ conn' = [conn EXCEPT ![s] = Unused]
           /\ phase' = [phase EXCEPT ![c] = "closed"]
           /\ epi' = [epi EXCEPT ![c] = Unregistered]
  ELSE UNCHANGED <<conn, phase, epi>>

Fault == faults < MaxFaults /\ faults' = faults + 1
-----------------------------------------------------------------------------
(* main_handler: registration of the listening socket and the loop.        *)

\* The checks of main_handler's first lines: a closed listening socket, or a
\* failing fcntl or epoll_ctl, ends it before the loop.
Setup ==
  /\ pc = "setup"
  /\ \/ pc' = (IF listening THEN "guard" ELSE "done") /\ UNCHANGED faults
     \/ pc' = "done" /\ Fault
  /\ UNCHANGED <<cur, batch, running, conn, listening, kernelVars, epi, answers>>

\* while (httpc_server_is_running(server)).  The mutant does not look.
MutantLoopGuard ==
  /\ pc = "guard"
  /\ pc' = "wait"
  /\ UNCHANGED <<cur, batch, running, conn, listening, kernelVars, epi, answers, faults>>

LoopGuard ==
  /\ pc = "guard"
  /\ pc' = IF running THEN "wait" ELSE "done"
  /\ UNCHANGED <<cur, batch, running, conn, listening, kernelVars, epi, answers, faults>>

\* Items on the ready list whose socket polls as ready.
ReadyEvents ==
  { [ptr |-> epi[c].ptr, fd |-> c, flags |-> Flags(c, epi[c].mask)] :
      c \in { d \in Clients : epi[d].ready /\ Flags(d, epi[d].mask) # {} } }

\* The listening socket is level-triggered: reported while a peer is queued.
ListenerEvent ==
  IF listening /\ \E c \in Clients : phase[c] = "queued"
  THEN {[ptr |-> Listener, fd |-> None, flags |-> {"in"}]}
  ELSE {}

\* epoll_wait returns up to MaxEvents events.  What it reports, and what it
\* finds not ready after all, leaves the ready list; the rest stays.
EpollWait ==
  /\ pc = "wait"
  /\ \E b \in SUBSET (ReadyEvents \cup ListenerEvent) :
       /\ b # {}
       /\ Cardinality(b) <= MaxEvents
       /\ Cardinality(b) < MaxEvents => b = ReadyEvents \cup ListenerEvent
       /\ batch' = b
       /\ epi' = [c \in Clients |->
                    [epi[c] EXCEPT !.ready =
                       \E e \in ReadyEvents \ b : e.fd = c]]
  /\ pc' = "batch"
  /\ UNCHANGED <<cur, running, conn, listening, kernelVars, answers, faults>>

\* epoll_wait fails with anything but EINTR.
EpollFails ==
  /\ pc = "wait"
  /\ Fault
  /\ pc' = "done"
  /\ UNCHANGED <<cur, batch, running, conn, listening, kernelVars, epi, answers>>

NextRound ==
  /\ pc = "batch" /\ batch = {}
  /\ pc' = "guard"
  /\ UNCHANGED <<cur, batch, running, conn, listening, kernelVars, epi, answers, faults>>

\* The body of the for loop: events[index] selects the function to call.
HandleListener ==
  \E e \in batch :
    /\ pc = "batch" /\ e.ptr = Listener
    /\ batch' = batch \ {e}
    /\ pc' = "accept"
    /\ UNCHANGED <<cur, running, conn, listening, kernelVars, epi, answers, faults>>

HandleHangup ==
  \E e \in batch :
    /\ pc = "batch" /\ e.ptr # Listener /\ "hup" \in e.flags
    /\ batch' = batch \ {e}
    /\ CloseConnection(e.ptr)
    /\ UNCHANGED <<pc, cur, running, listening, peer, stream, rd, wire, got, answers, faults>>

Callee(e) ==
  CASE conn[e.ptr].state = "recv" /\ "in" \in e.flags -> "read"
    [] conn[e.ptr].state = "send" /\ "out" \in e.flags -> "write"
    [] OTHER -> "batch"

HandleEvent ==
  \E e \in batch :
    /\ pc = "batch" /\ e.ptr # Listener /\ "hup" \notin e.flags
    /\ batch' = batch \ {e}
    /\ pc' = Callee(e)
    /\ cur' = IF Callee(e) = "batch" THEN 0 ELSE e.ptr
    /\ UNCHANGED <<running, conn, listening, kernelVars, epi, answers, faults>>

\* read_connection and write_connection return to the for loop.
Return == pc' = "batch" /\ cur' = 0
-----------------------------------------------------------------------------
(* accept_connections: one action per return of accept.                    *)

\* EAGAIN, EBADF once the stop signal has closed the socket, or an error.
AcceptEnds ==
  /\ pc = "accept"
  /\ \/ (listening => \A c \in Clients : phase[c] # "queued") /\ UNCHANGED faults
     \/ listening /\ Fault
  /\ pc' = "batch"
  /\ UNCHANGED <<cur, batch, running, conn, listening, kernelVars, epi, answers>>

\* A slot is free, set_nonblocking and EPOLL_CTL_ADD succeed.
Admit(c, s) ==
  /\ pc = "accept" /\ listening /\ phase[c] = "queued"
  /\ FreeSlot(s)
  /\ conn' = [conn EXCEPT ![s] = Fresh(c)]
  /\ phase' = [phase EXCEPT ![c] = "accepted"]
  /\ EpollCtl(c, s, "in")
  /\ UNCHANGED <<pc, cur, batch, running, listening, peer, stream, rd, wire, got, answers, faults>>

\* EPOLL_CTL_ADD fails after the slot was filled: close_connection empties it
\* and closes the descriptor, of which epoll knows nothing.  The mutant closes
\* the descriptor alone.
MutantRegistrationFails(c, s) ==
  /\ pc = "accept" /\ listening /\ phase[c] = "queued"
  /\ FreeSlot(s) /\ Fault
  /\ conn' = [conn EXCEPT ![s] = Fresh(c)]
  /\ phase' = [phase EXCEPT ![c] = "closed"]
  /\ UNCHANGED <<pc, cur, batch, running, listening, peer, stream, rd, wire, got, epi, answers>>

RegistrationFails(c, s) ==
  /\ pc = "accept" /\ listening /\ phase[c] = "queued"
  /\ FreeSlot(s) /\ Fault
  /\ conn' = [conn EXCEPT ![s] = Unused]
  /\ phase' = [phase EXCEPT ![c] = "closed"]
  /\ UNCHANGED <<pc, cur, batch, running, listening, peer, stream, rd, wire, got, epi, answers>>

\* The pool is full, or set_nonblocking fails, before a slot is taken.  The
\* mutant leaves the peer in the queue until a slot is free.
MutantRefuse(c) ==
  /\ pc = "accept" /\ listening /\ phase[c] = "queued"
  /\ \A s \in Slots : InUse(s)
  /\ pc' = "batch"
  /\ UNCHANGED <<cur, batch, running, conn, listening, kernelVars, epi, answers, faults>>

Refuse(c) ==
  /\ pc = "accept" /\ listening /\ phase[c] = "queued"
  /\ \/ (\A s \in Slots : InUse(s)) /\ UNCHANGED faults
     \/ (\E s \in Slots : ~InUse(s)) /\ Fault
  /\ phase' = [phase EXCEPT ![c] = "closed"]
  /\ UNCHANGED <<pc, cur, batch, running, conn, listening, peer, stream, rd, wire, got, epi, answers>>
-----------------------------------------------------------------------------
(* read_connection: one action per outcome of recv.                        *)

Serving(s, c, place) == pc = place /\ cur = s /\ conn[s].fd = c

\* recv returns n > 0 units: all there are, or as many as fit.
Receive(s, c) ==
  LET n == IF Unread(c) <= Room(s) THEN Unread(c) ELSE Room(s)
  IN  /\ Serving(s, c, "read")
      /\ n > 0
      /\ rd' = [rd EXCEPT ![c] = @ + n]
      /\ IF conn[s].len + n > RequestLimit
         THEN Return /\ CloseConnection(s)
         ELSE /\ conn' = [conn EXCEPT ![s].len = @ + n]
              /\ pc' = AfterReceive(c, From(s), rd[c] + n)
              /\ UNCHANGED <<cur, phase, epi>>
      /\ UNCHANGED <<batch, running, listening, peer, stream, wire, got, answers, faults>>

\* recv returns 0: the peer has shut down, or no room is left for what is
\* unread (a zero-length recv).  The mutant takes EAGAIN for the end.
MutantReceiveNothing(s, c) ==
  /\ Serving(s, c, "read")
  /\ Unread(c) = 0
  /\ Return
  /\ CloseConnection(s)
  /\ UNCHANGED <<batch, running, listening, peer, stream, rd, wire, got, answers, faults>>

ReceiveNothing(s, c) ==
  /\ Serving(s, c, "read")
  /\ \/ Unread(c) = 0 /\ peer[c] = "fin"
     \/ Unread(c) > 0 /\ Room(s) = 0
  /\ Return
  /\ CloseConnection(s)
  /\ UNCHANGED <<batch, running, listening, peer, stream, rd, wire, got, answers, faults>>

\* EAGAIN.
ReceiveLater(s, c) ==
  /\ Serving(s, c, "read")
  /\ Unread(c) = 0 /\ peer[c] = "open"
  /\ Return
  /\ UNCHANGED <<batch, running, conn, listening, kernelVars, epi, answers, faults>>

\* recv or send fails: the peer has reset the connection.
IoFails(s, c) ==
  /\ \/ Serving(s, c, "read")
     \/ Serving(s, c, "write") /\ conn[s].sent < conn[s].rlen
  /\ peer[c] = "rst"
  /\ Return
  /\ CloseConnection(s)
  /\ UNCHANGED <<batch, running, listening, peer, stream, rd, wire, got, answers, faults>>

\* dispatch_request: whatever the handler, a response of some length results.
Dispatch(s, c) ==
  /\ Serving(s, c, "dispatch")
  /\ \E p \in 1 .. rd[c], n \in RespLens :
       /\ IsRequest(s, p)
       /\ answers' = [answers EXCEPT ![c] = Append(@, [head |-> p, len |-> n])]
       /\ conn' = [conn EXCEPT ![s] = Responding(@, Len(answers[c]) + 1, n)]
  /\ EpollCtl(c, s, "out")
  /\ Return
  /\ UNCHANGED <<batch, running, listening, kernelVars, faults>>
-----------------------------------------------------------------------------
(* write_connection: a send that accepts several units is several steps.   *)

\* The mutant stops one unit short.
MutantSent(s) == conn[s].sent + 1 >= conn[s].rlen
Sent(s) == conn[s].sent >= conn[s].rlen

\* One send per event, as under level-triggered epoll.
MutantTransmit(s, c) ==
  /\ Serving(s, c, "write")
  /\ ~Sent(s) /\ peer[c] # "rst" /\ Writable(c)
  /\ wire' = [wire EXCEPT ![c] = Append(@, <<conn[s].id, conn[s].sent + 1>>)]
  /\ conn' = [conn EXCEPT ![s].sent = @ + 1]
  /\ Return
  /\ UNCHANGED <<batch, running, listening, phase, peer, stream, rd, got, epi, answers, faults>>

Transmit(s, c) ==
  /\ Serving(s, c, "write")
  /\ ~Sent(s) /\ peer[c] # "rst" /\ Writable(c)
  /\ wire' = [wire EXCEPT ![c] = Append(@, <<conn[s].id, conn[s].sent + 1>>)]
  /\ conn' = [conn EXCEPT ![s].sent = @ + 1]
  /\ UNCHANGED <<loopVars, running, listening, phase, peer, stream, rd, got, epi, answers, faults>>

\* EAGAIN.  The mutant takes it for an error.
MutantTransmitLater(s, c) ==
  /\ Serving(s, c, "write")
  /\ ~Sent(s) /\ peer[c] # "rst" /\ ~Writable(c)
  /\ Return
  /\ CloseConnection(s)
  /\ UNCHANGED <<batch, running, listening, peer, stream, rd, wire, got, answers, faults>>

TransmitLater(s, c) ==
  /\ Serving(s, c, "write")
  /\ ~Sent(s) /\ peer[c] # "rst" /\ ~Writable(c)
  /\ Return
  /\ UNCHANGED <<batch, running, conn, listening, kernelVars, epi, answers, faults>>

TransmitEnds(s, c) ==
  /\ Serving(s, c, "write")
  /\ Sent(s)
  /\ conn' = [conn EXCEPT ![s] = Rearmed(@)]
  /\ EpollCtl(c, s, "in")
  /\ Return
  /\ UNCHANGED <<batch, running, listening, kernelVars, answers, faults>>
-----------------------------------------------------------------------------
(* The stop signal (signal_handler, httpc_server_stop) and the peers.      *)

\* The handler runs between any two steps.  At "wait" it either interrupts
\* epoll_wait or arrives after the loop's test and before the system call.
Signal ==
  /\ running /\ pc # "done"
  /\ running' = FALSE
  /\ listening' = FALSE
  /\ phase' = [c \in Clients |-> IF phase[c] = "queued" THEN "closed" ELSE phase[c]]
  /\ \/ UNCHANGED pc
     \/ pc = "wait" /\ pc' = "guard"
  /\ UNCHANGED <<cur, batch, conn, peer, stream, rd, wire, got, epi, answers, faults>>

Alive(c) == phase[c] \in {"queued", "accepted"}

Connect(c) ==
  /\ listening /\ phase[c] = "idle"
  /\ phase' = [phase EXCEPT ![c] = "queued"]
  /\ UNCHANGED <<loopVars, running, conn, listening, peer, stream, rd, wire, got, epi, answers, faults>>

PeerSends(c, u) ==
  /\ Alive(c) /\ peer[c] = "open" /\ Len(stream[c]) < MaxUnits
  /\ stream' = [stream EXCEPT ![c] = Append(@, u)]
  /\ Wake(c, {"in"})
  /\ UNCHANGED <<loopVars, running, conn, listening, phase, peer, rd, wire, got, answers, faults>>

PeerShutsDown(c) ==
  /\ Alive(c) /\ peer[c] = "open"
  /\ peer' = [peer EXCEPT ![c] = "fin"]
  /\ Wake(c, {"in", "out"})
  /\ UNCHANGED <<loopVars, running, conn, listening, phase, stream, rd, wire, got, answers, faults>>

PeerResets(c) ==
  /\ Alive(c) /\ peer[c] # "rst"
  /\ peer' = [peer EXCEPT ![c] = "rst"]
  /\ Wake(c, {"in", "out"})
  /\ UNCHANGED <<loopVars, running, conn, listening, phase, stream, rd, wire, got, answers, faults>>

\* Taking a unit off a full connection makes the socket writable again.
PeerReads(c) ==
  /\ phase[c] = "accepted" /\ peer[c] # "rst" /\ got[c] < Len(wire[c])
  /\ got' = [got EXCEPT ![c] = @ + 1]
  /\ IF Writable(c) THEN UNCHANGED epi ELSE Wake(c, {"out"})
  /\ UNCHANGED <<loopVars, running, conn, listening, phase, peer, stream, rd, wire, answers, faults>>
-----------------------------------------------------------------------------
Init ==
  /\ pc = "setup" /\ cur = 0 /\ batch = {}
  /\ running = TRUE /\ listening = TRUE
  /\ conn = [s \in Slots |-> Unused]
  /\ phase = [c \in Clients |-> "idle"]
  /\ peer = [c \in Clients |-> "open"]
  /\ stream = [c \in Clients |-> <<>>]
  /\ rd = [c \in Clients |-> 0]
  /\ wire = [c \in Clients |-> <<>>]
  /\ got = [c \in Clients |-> 0]
  /\ epi = [c \in Clients |-> Unregistered]
  /\ answers = [c \in Clients |-> <<>>]
  /\ faults = 0

Loop == Setup \/ LoopGuard \/ EpollWait \/ EpollFails \/ NextRound
          \/ HandleListener \/ HandleHangup \/ HandleEvent

Accepting == AcceptEnds \/ \E c \in Clients :
               Refuse(c) \/ \E s \in Slots : Admit(c, s) \/ RegistrationFails(c, s)

Io == \E s \in Slots, c \in Clients :
        \/ Receive(s, c) \/ ReceiveNothing(s, c) \/ ReceiveLater(s, c)
        \/ IoFails(s, c) \/ Dispatch(s, c)
        \/ Transmit(s, c) \/ TransmitLater(s, c) \/ TransmitEnds(s, c)

Server == Loop \/ Accepting \/ Io

Peer(c) == \/ Connect(c) \/ PeerShutsDown(c) \/ PeerResets(c) \/ PeerReads(c)
           \/ \E u \in {"x", "t"} : PeerSends(c, u)

Next == Server \/ Signal \/ \E c \in Clients : Peer(c)

Spec == Init /\ [][Next]_vars
\* The program keeps executing, and a peer that stays takes what it is sent.
FairSpec == Spec /\ WF_vars(Server) /\ \A c \in Clients : WF_vars(PeerReads(c))
-----------------------------------------------------------------------------
(* Invariants.                                                             *)

\* Every variable has its type; the buffer never outgrows connection->buffer.
TypeOK ==
  /\ pc \in {"setup", "guard", "wait", "batch", "accept", "read", "dispatch", "write", "done"}
  /\ cur \in 0 .. MaxClients
  /\ batch \subseteq Event
  /\ running \in BOOLEAN /\ listening \in BOOLEAN
  /\ conn \in [Slots -> Connection]
  /\ phase \in [Clients -> {"idle", "queued", "accepted", "closed"}]
  /\ peer \in [Clients -> {"open", "fin", "rst"}]
  /\ stream \in [Clients -> Seq({"x", "t"})]
  /\ rd \in [Clients -> Nat] /\ got \in [Clients -> Nat]
  /\ wire \in [Clients -> Seq(Nat \X Nat)]
  /\ epi \in [Clients -> EpollItem]
  /\ answers \in [Clients -> Seq([head : Nat, len : Nat])]
  /\ faults \in Nat

\* A descriptor is never shared by two slots, and the accepted connections are
\* exactly those a slot holds: none is leaked, none is used after close.
SlotOwnership ==
  /\ \A s, t \in Slots : InUse(s) /\ conn[s].fd = conn[t].fd => s = t
  /\ \A c \in Clients : phase[c] = "accepted" <=> \E s \in Slots : conn[s].fd = c

\* An event still in events[] points to a slot that holds the connection it was
\* reported for, although closes and accepts of the same round recycle slots.
NoStaleEvent ==
  \A e \in batch : e.ptr # Listener => e.fd # None /\ conn[e.ptr].fd = e.fd

\* epoll holds one registration per slot in use, for what its state waits for;
\* a closed connection has none.
EpollAgrees ==
  /\ \A s \in Slots : InUse(s) =>
       /\ epi[conn[s].fd].ptr = s
       /\ epi[conn[s].fd].mask = MaskOf(conn[s].state)
  /\ \A c \in Clients : phase[c] # "accepted" => epi[c] = Unregistered

ServedNow(s) == pc \in {"read", "dispatch", "write"} /\ cur = s

\* Edge-triggered readiness is never lost: a connection that can make progress
\* is on the ready list, in events[], or being served.
NoLostWakeup ==
  \A s \in Slots :
    LET c == conn[s].fd
    IN  InUse(s) /\ Flags(c, epi[c].mask) # {} =>
          epi[c].ready \/ (\E e \in batch : e.fd = c) \/ ServedNow(s)

\* No receiving connection sits on a complete request: read_connection tests
\* after every recv and write_connection empties the buffer it re-arms.
NoForgottenRequest ==
  \A s \in Slots :
    InUse(s) /\ conn[s].state = "recv" /\ ~(pc = "dispatch" /\ cur = s)
      => ~HeadersComplete(conn[s].fd, From(s), rd[conn[s].fd])

\* Each response answers a blank line of its own, in stream order: no request
\* is answered twice and none is invented out of an old buffer.
AnswersDistinctHeads ==
  \A c \in Clients : \A i \in 1 .. Len(answers[c]) :
    /\ answers[c][i].head \in 1 .. Len(stream[c])
    /\ IsHead(c, answers[c][i].head)
    /\ i > 1 => answers[c][i - 1].head < answers[c][i].head

\* <<i, k>>, the k-th unit of the i-th response of c, ends that response.
EndsResponse(c, u) == u[1] \in 1 .. Len(answers[c]) /\ u[2] = answers[c][u[1]].len

\* Each unit sent is the one that follows the unit before it.
InOrder(c) ==
  \A i \in 1 .. Len(wire[c]) :
    LET u == wire[c][i]
    IN  \/ u = <<1, 1>> /\ i = 1
        \/ i > 1 /\ u[2] > 1 /\ wire[c][i - 1] = <<u[1], u[2] - 1>>
        \/ i > 1 /\ u[2] = 1 /\ wire[c][i - 1][1] = u[1] - 1
             /\ EndsResponse(c, wire[c][i - 1])

AllSent(c) ==
  IF answers[c] = <<>> THEN wire[c] = <<>>
  ELSE wire[c] # <<>> /\ wire[c][Len(wire[c])] =
         <<Len(answers[c]), answers[c][Len(answers[c])].len>>

\* What is sent is the concatenation of the responses in order, nothing skipped
\* or sent twice; a connection that receives again has sent them all.
ResponsesInOrder ==
  /\ \A c \in Clients : InOrder(c)
  /\ \A s \in Slots : InUse(s) /\ conn[s].state = "recv" => AllSent(conn[s].fd)
-----------------------------------------------------------------------------
(* What a step may never do.                                               *)

Drops(c) == phase[c] = "accepted" /\ phase'[c] = "closed"

\* The server closes a connection in the middle of a response only if the peer
\* has reset it.
NoTruncatedResponse ==
  [][\A s \in Slots, c \in Clients :
       conn[s].fd = c /\ conn[s].state = "send" /\ Drops(c) => peer[c] = "rst"]_vars

\* The server closes a receiving connection only if the peer has reset it, or
\* has shut it down and all it sent is read, or the buffer is full of a head
\* that goes on.
DropsOnlyForCause ==
  [][\A s \in Slots, c \in Clients :
       conn[s].fd = c /\ conn[s].state = "recv" /\ Drops(c) =>
         \/ peer[c] = "rst"
         \/ peer[c] = "fin" /\ Unread(c) = 0
         \/ /\ Unread(c) > 0 /\ conn[s].len = BufCap
            /\ ~HeadersComplete(c, From(s), rd[c])]_vars
-----------------------------------------------------------------------------
(* Liveness.  The loop may stop: on the signal, or on a failing call.      *)

Ended(c) == phase[c] = "closed" \/ ~running \/ pc = "done"

\* What an admitted peer sends is read.
InputConsumed ==
  \A c \in Clients :
    phase[c] = "accepted" /\ Unread(c) > 0 ~> Unread(c) = 0 \/ Ended(c)

\* A response that is started is sent to its end, and the slot receives again.
ResponseCompleted ==
  \A s \in Slots, c \in Clients :
    conn[s].fd = c /\ conn[s].state = "send"
      ~> (conn[s].fd = c /\ conn[s].state = "recv") \/ Ended(c)

\* A queued peer is admitted or refused.
QueueServed == \A c \in Clients : phase[c] = "queued" ~> phase[c] # "queued" \/ Ended(c)

\* The loop ends after the stop signal unless that arrived between the test of
\* the state and epoll_wait, with nothing to report.
StopCompletes ==
  (~running /\ (pc # "wait" \/ ReadyEvents # {})) ~> pc = "done"

\* httpc_server_run runs "until a stop signal is received" (httpc.h).
StopTerminates == ~running ~> pc = "done"
-----------------------------------------------------------------------------
(* The loop implements the connection service, with its slots as capacity. *)

Service == INSTANCE ConnectionService WITH Capacity <- MaxClients

\* Every behaviour of the loop, its kernel and its peers is one of the service.
ImplementsService == Service!Spec
=============================================================================
