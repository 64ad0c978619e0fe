--------------------------- MODULE EventLoopProofs ---------------------------
(***************************************************************************)
(* Proofs about EventLoop, for every value of its constants, in three      *)
(* parts: the structure of slots, events and registrations; what is read,  *)
(* answered and sent; and the refinement of ConnectionService.             *)
(***************************************************************************)
EXTENDS EventLoopInvariant, TLAPS, FiniteSetTheorems

USE DEF Room

LEMMA UnusedType == Unused \in Connection
  BY BufCapAssumption DEF Unused, Connection

LEMMA SlotType ==
  ASSUME TypeOK, NEW s \in Slots
  PROVE  /\ conn[s] \in Connection
         /\ conn[s].fd \in Clients \cup {None}
         /\ conn[s].state \in {"recv", "send"}
         /\ conn[s].len \in 0 .. BufCap
         /\ conn[s].id \in Nat /\ conn[s].rlen \in Nat /\ conn[s].sent \in Nat
<1>1. conn[s] \in Connection
  BY DEF TypeOK
<1> QED BY <1>1 DEF Connection

LEMMA ClientType ==
  ASSUME TypeOK, NEW c \in Clients
  PROVE  /\ rd[c] \in Nat /\ got[c] \in Nat
         /\ Len(stream[c]) \in Nat /\ Len(wire[c]) \in Nat /\ Len(answers[c]) \in Nat
<1>1. /\ stream[c] \in Seq({"x", "t"}) /\ wire[c] \in Seq(Nat \X Nat)
      /\ answers[c] \in Seq([head : Nat, len : Nat])
      /\ rd[c] \in Nat /\ got[c] \in Nat
  BY DEF TypeOK
<1> QED BY <1>1

LEMMA CloseType ==
  ASSUME TypeOK, NEW s \in Slots, CloseConnection(s)
  PROVE  /\ conn' \in [Slots -> Connection]
         /\ phase' \in [Clients -> {"idle", "queued", "accepted", "closed"}]
         /\ epi' \in [Clients -> EpollItem]
<1>1. Unregistered \in EpollItem
  BY MaxClientsAssumption DEF Unregistered, EpollItem
<1>2. /\ conn \in [Slots -> Connection]
      /\ phase \in [Clients -> {"idle", "queued", "accepted", "closed"}]
      /\ epi \in [Clients -> EpollItem]
  BY DEF TypeOK
<1>3. CASE InUse(s)
  <2>1. /\ conn' = [conn EXCEPT ![s] = Unused]
        /\ phase' = [phase EXCEPT ![conn[s].fd] = "closed"]
        /\ epi' = [epi EXCEPT ![conn[s].fd] = Unregistered]
    BY <1>3 DEF CloseConnection
  <2> QED BY <1>1, <1>2, <2>1, UnusedType
<1>4. CASE ~InUse(s)
  BY <1>2, <1>4 DEF CloseConnection
<1> QED BY <1>3, <1>4

LEMMA EpollCtlType ==
  ASSUME TypeOK, NEW c \in Clients, NEW s \in Slots, NEW m \in {"in", "out"}, EpollCtl(c, s, m)
  PROVE  epi' \in [Clients -> EpollItem]
  BY DEF TypeOK, EpollCtl, EpollItem, Slots

LEMMA WakeType ==
  ASSUME TypeOK, NEW c \in Clients, NEW m, Wake(c, m)
  PROVE  epi' \in [Clients -> EpollItem]
  BY ZenonT(30) DEF TypeOK, Wake, EpollItem

LEMMA LoopType == TypeOK /\ Loop => TypeOK'
<1> SUFFICES ASSUME TypeOK, Loop PROVE TypeOK'
  OBVIOUS
<1>1. CASE Setup
  BY <1>1 DEF TypeOK, Setup, Fault, kernelVars
<1>2. CASE LoopGuard
  BY <1>2 DEF TypeOK, LoopGuard, kernelVars
<1>3. CASE EpollWait
  <2>1. ReadyEvents \subseteq Event
    BY DEF TypeOK, ReadyEvents, Event, EpollItem, Flags
  <2>2. ListenerEvent \subseteq Event
    BY MaxClientsAssumption DEF ListenerEvent, Event, Listener
  <2>3. batch' \subseteq Event
    BY <1>3, <2>1, <2>2 DEF EpollWait
  <2>4. epi' \in [Clients -> EpollItem]
    <3>1. PICK b : epi' = [c \in Clients |->
                    [epi[c] EXCEPT !.ready = \E e \in ReadyEvents \ b : e.fd = c]]
      BY <1>3 DEF EpollWait
    <3>2. ASSUME NEW c \in Clients, NEW v \in BOOLEAN
          PROVE  [epi[c] EXCEPT !.ready = v] \in EpollItem
      <4>1. epi[c] \in EpollItem
        BY DEF TypeOK
      <4> QED BY <4>1 DEF EpollItem
    <3> QED BY <3>1, <3>2
  <2> QED BY <1>3, <2>3, <2>4 DEF TypeOK, EpollWait, kernelVars
<1>4. CASE EpollFails
  BY <1>4 DEF TypeOK, EpollFails, Fault, kernelVars
<1>5. CASE NextRound
  BY <1>5 DEF TypeOK, NextRound, kernelVars
<1>6. CASE HandleListener
  BY <1>6 DEF TypeOK, HandleListener, kernelVars
<1>7. CASE HandleHangup
  BY <1>7, CloseType DEF TypeOK, HandleHangup, Event, Listener, Slots
<1>8. CASE HandleEvent
  BY <1>8, MaxClientsAssumption DEF TypeOK, HandleEvent, Callee, Event, kernelVars
<1> QED BY <1>1, <1>2, <1>3, <1>4, <1>5, <1>6, <1>7, <1>8 DEF Loop

LEMMA AcceptingType == TypeOK /\ Accepting => TypeOK'
<1> SUFFICES ASSUME TypeOK, Accepting PROVE TypeOK'
  OBVIOUS
<1>1. CASE AcceptEnds
  BY <1>1 DEF TypeOK, AcceptEnds, Fault, kernelVars
<1>2. ASSUME NEW c \in Clients, Refuse(c) PROVE TypeOK'
  BY <1>2 DEF TypeOK, Refuse, Fault
<1>3. ASSUME NEW c \in Clients, NEW s \in Slots, Admit(c, s) PROVE TypeOK'
  <2>1. Fresh(c) \in Connection
    BY BufCapAssumption DEF Fresh, Unused, Connection
  <2>2. epi' \in [Clients -> EpollItem]
    BY <1>3, EpollCtlType DEF Admit
  <2> QED BY <1>3, <2>1, <2>2 DEF TypeOK, Admit
<1>4. ASSUME NEW c \in Clients, NEW s \in Slots, RegistrationFails(c, s) PROVE TypeOK'
  <2>1. Unused \in Connection
    BY BufCapAssumption DEF Unused, Connection
  <2> QED BY <1>4, <2>1 DEF TypeOK, RegistrationFails, Fault
<1> QED BY <1>1, <1>2, <1>3, <1>4 DEF Accepting

LEMMA ReceiveAmount ==
  ASSUME TypeOK, NEW s \in Slots, NEW c \in Clients, Receive(s, c)
  PROVE  LET n == IF Unread(c) <= Room(s) THEN Unread(c) ELSE Room(s)
         IN  /\ n \in Nat /\ n > 0
             /\ conn[s].len + n <= BufCap /\ rd[c] + n <= Len(stream[c])
             /\ ~(conn[s].len + n > RequestLimit)
<1> DEFINE n == IF Unread(c) <= Room(s) THEN Unread(c) ELSE Room(s)
<1>1. n > 0
  BY DEF Receive
<1>2. n \in Nat
  BY <1>1, SlotType, ClientType, BufCapAssumption DEF Unread
<1>3. conn[s].len + n <= BufCap
  BY <1>1, SlotType, ClientType, NoneAssumption, BufCapAssumption, RespLensAssumption DEF Unread
<1>4. rd[c] + n <= Len(stream[c])
  BY <1>1, SlotType, ClientType, NoneAssumption, BufCapAssumption, RespLensAssumption DEF Unread
<1>5. ~(conn[s].len + n > RequestLimit)
  BY <1>2, <1>3, SlotType, BufCapAssumption, RequestLimitAssumption
<1> QED BY <1>1, <1>2, <1>3, <1>4, <1>5

LEMMA ReceiveType ==
  ASSUME TypeOK, NEW s \in Slots, NEW c \in Clients, Receive(s, c)
  PROVE  TypeOK'
<1> DEFINE room == Room(s)
           n == IF Unread(c) <= room THEN Unread(c) ELSE room
<1>1. n \in Nat /\ n <= room /\ room \in Nat
  <2>1. n > 0
    BY DEF Receive
  <2> QED BY <2>1, SlotType, ClientType, BufCapAssumption DEF Unread
<1>2. rd' \in [Clients -> Nat]
  <2>1. rd' = [rd EXCEPT ![c] = @ + n]
    BY DEF Receive
  <2> QED BY <1>1, <2>1, ClientType DEF TypeOK
<1>3. ~(conn[s].len + n > RequestLimit)
  BY <1>1, SlotType, BufCapAssumption, RequestLimitAssumption
<1>4. conn' \in [Slots -> Connection]
  <2>1. conn' = [conn EXCEPT ![s].len = @ + n]
    BY <1>3 DEF Receive
  <2>2. conn[s].len + n \in 0 .. BufCap
    BY <1>1, SlotType, BufCapAssumption
  <2>3. [conn[s] EXCEPT !.len = @ + n] \in Connection
    BY <2>2, SlotType DEF Connection
  <2> QED BY <2>1, <2>3 DEF TypeOK
<1>5. pc' \in {"read", "dispatch"}
  BY <1>3 DEF Receive, AfterReceive
<1>6. UNCHANGED <<cur, batch, running, listening, phase, peer, stream, wire, got, epi, answers, faults>>
  BY <1>3 DEF Receive
<1> QED BY <1>2, <1>4, <1>5, <1>6 DEF TypeOK

LEMMA IoType ==
  ASSUME TypeOK, NEW s \in Slots, NEW c \in Clients,
         \/ ReceiveNothing(s, c) \/ ReceiveLater(s, c) \/ IoFails(s, c) \/ Dispatch(s, c)
         \/ Transmit(s, c) \/ TransmitLater(s, c) \/ TransmitEnds(s, c)
  PROVE  TypeOK'
<1>1. CASE ReceiveNothing(s, c)
  BY <1>1, CloseType, MaxClientsAssumption DEF TypeOK, ReceiveNothing, Return
<1>2. CASE ReceiveLater(s, c)
  BY <1>2, MaxClientsAssumption DEF TypeOK, ReceiveLater, Return, kernelVars
<1>3. CASE IoFails(s, c)
  BY <1>3, CloseType, MaxClientsAssumption DEF TypeOK, IoFails, Return
<1>4. CASE Dispatch(s, c)
  <2>1. PICK p \in 1 .. rd[c], n \in RespLens :
          /\ answers' = [answers EXCEPT ![c] = Append(@, [head |-> p, len |-> n])]
          /\ conn' = [conn EXCEPT ![s] = Responding(@, Len(answers[c]) + 1, n)]
    BY <1>4 DEF Dispatch
  <2>2. p \in Nat /\ n \in Nat
    BY RespLensAssumption DEF TypeOK
  <2>3. answers' \in [Clients -> Seq([head : Nat, len : Nat])]
    BY <2>1, <2>2 DEF TypeOK
  <2>4. conn' \in [Slots -> Connection]
    <3>1. Responding(conn[s], Len(answers[c]) + 1, n) \in Connection
      <4>1. conn[s] \in Connection /\ Len(answers[c]) + 1 \in Nat
        BY SlotType, ClientType
      <4> QED BY <2>2, <4>1 DEF Responding, Connection
    <3> QED BY <2>1, <3>1 DEF TypeOK
  <2>5. epi' \in [Clients -> EpollItem]
    BY <1>4, EpollCtlType DEF Dispatch
  <2> QED BY <1>4, <2>3, <2>4, <2>5, MaxClientsAssumption DEF TypeOK, Dispatch, Return, kernelVars
<1>5. CASE Transmit(s, c)
  <2>1. wire' \in [Clients -> Seq(Nat \X Nat)]
    <3>1. <<conn[s].id, conn[s].sent + 1>> \in Nat \X Nat
      BY SlotType
    <3> QED BY <1>5, <3>1 DEF Transmit, TypeOK
  <2>2. conn' \in [Slots -> Connection]
    <3>1. [conn[s] EXCEPT !.sent = @ + 1] \in Connection
      BY SlotType DEF Connection
    <3> QED BY <1>5, <3>1 DEF Transmit, TypeOK
  <2> QED BY <1>5, <2>1, <2>2 DEF Transmit, TypeOK, loopVars
<1>6. CASE TransmitLater(s, c)
  BY <1>6, MaxClientsAssumption DEF TypeOK, TransmitLater, Return, kernelVars
<1>7. CASE TransmitEnds(s, c)
  <2>1. conn' \in [Slots -> Connection]
    <3>1. Rearmed(conn[s]) \in Connection
      <4>1. conn[s] \in Connection /\ 0 \in 0 .. BufCap
        BY SlotType, BufCapAssumption
      <4> QED BY <4>1 DEF Rearmed, Connection
    <3> QED BY <1>7, <3>1 DEF TransmitEnds, TypeOK
  <2>2. epi' \in [Clients -> EpollItem]
    BY <1>7, EpollCtlType DEF TransmitEnds
  <2> QED BY <1>7, <2>1, <2>2, MaxClientsAssumption DEF TypeOK, TransmitEnds, Return, kernelVars
<1> QED BY <1>1, <1>2, <1>3, <1>4, <1>5, <1>6, <1>7

LEMMA OutsideType ==
  ASSUME TypeOK, Signal \/ \E c \in Clients : Peer(c)
  PROVE  TypeOK'
<1>1. CASE Signal
  BY <1>1 DEF TypeOK, Signal
<1>2. ASSUME NEW c \in Clients, Connect(c) PROVE TypeOK'
  BY <1>2 DEF TypeOK, Connect, loopVars
<1>3. ASSUME NEW c \in Clients, NEW u \in {"x", "t"}, PeerSends(c, u) PROVE TypeOK'
  BY <1>3, WakeType, SMTT(20) DEF TypeOK, PeerSends, loopVars
<1>4. ASSUME NEW c \in Clients, PeerShutsDown(c) PROVE TypeOK'
  BY <1>4, WakeType DEF TypeOK, PeerShutsDown, loopVars
<1>5. ASSUME NEW c \in Clients, PeerResets(c) PROVE TypeOK'
  BY <1>5, WakeType DEF TypeOK, PeerResets, loopVars
<1>6. ASSUME NEW c \in Clients, PeerReads(c) PROVE TypeOK'
  <2>1. epi' \in [Clients -> EpollItem]
    <3>1. CASE Writable(c)
      BY <1>6, <3>1 DEF PeerReads, TypeOK
    <3>2. CASE ~Writable(c)
      BY <1>6, <3>2, WakeType DEF PeerReads
    <3> QED BY <3>1, <3>2
  <2>2. got' \in [Clients -> Nat]
    <3>1. got' = [got EXCEPT ![c] = @ + 1]
      BY <1>6 DEF PeerReads
    <3>2. got \in [Clients -> Nat] /\ got[c] + 1 \in Nat
      BY ClientType DEF TypeOK
    <3> QED BY <3>1, <3>2
  <2> QED BY <1>6, <2>1, <2>2 DEF TypeOK, PeerReads, loopVars
<1> QED BY <1>1, <1>2, <1>3, <1>4, <1>5, <1>6 DEF Peer

\* Every variable keeps its type; in particular the buffer never outgrows
\* connection->buffer, whatever arrives in whatever pieces.
THEOREM TypeCorrect == Spec => []TypeOK
<1>1. Init => TypeOK
  BY UnusedType, MaxClientsAssumption DEF Init, TypeOK, Unregistered, EpollItem, Event
<1>2. TypeOK /\ [Next]_vars => TypeOK'
  <2> SUFFICES ASSUME TypeOK, [Next]_vars PROVE TypeOK'
    OBVIOUS
  <2>1. CASE Server
    BY <2>1, LoopType, AcceptingType, ReceiveType, IoType DEF Server, Io
  <2>2. CASE Signal \/ \E c \in Clients : Peer(c)
    BY <2>2, OutsideType
  <2>3. CASE UNCHANGED vars
    BY <2>3 DEF TypeOK, vars
  <2> QED BY <2>1, <2>2, <2>3 DEF Next
<1> QED BY <1>1, <1>2, PTL DEF Spec
-----------------------------------------------------------------------------
(* Structure: slots, epoll items and events.                               *)

LEMMA FlagsSame ==
  ASSUME NEW c \in Clients, NEW m,
         UNCHANGED <<peer, stream, rd, wire, got>>
  PROVE  Flags(c, m)' = Flags(c, m)
  BY DEF Flags, Readable, Writable

\* A step that leaves slots and epoll alone and takes events off batch.
LEMMA QuietStep ==
  ASSUME Structure, UNCHANGED <<conn, phase, epi>>, batch' \subseteq batch
  PROVE  SlotOwnership' /\ EpollAgrees' /\ NoStaleEvent'
<1>1. SlotOwnership'
  BY DEF Structure, SlotOwnership, InUse
<1>2. EpollAgrees'
  BY DEF Structure, EpollAgrees, InUse
<1>3. NoStaleEvent'
  BY DEF Structure, NoStaleEvent
<1> QED BY <1>1, <1>2, <1>3

\* A step that changes the program counter only, outside the I/O functions.
LEMMA IdleStep ==
  ASSUME Structure, TypeOK', UNCHANGED <<conn, kernelVars, epi, cur, batch>>,
         pc \notin {"read", "dispatch", "write"}, pc' \notin {"read", "dispatch", "write"},
         batch # {} => pc' \in {"batch", "accept"}
  PROVE  Structure'
<1>0. UNCHANGED <<conn, phase, epi, cur, batch>> /\ UNCHANGED <<peer, stream, rd, wire, got>>
  BY DEF kernelVars
<1>1. SlotOwnership' /\ EpollAgrees' /\ NoStaleEvent'
  BY <1>0, QuietStep
<1>2. CurrentSlot'
  BY <1>0 DEF Structure, CurrentSlot
<1>3. PendingEvents'
  BY <1>0 DEF Structure, PendingEvents
<1>4. NoLostWakeup'
  <2> SUFFICES ASSUME NEW s \in Slots, InUse(s), Flags(conn[s].fd, epi[conn[s].fd].mask)'# {}
               PROVE  epi[conn[s].fd].ready \/ \E e \in batch : e.fd = conn[s].fd
    BY <1>0 DEF NoLostWakeup, InUse
  <2>1. conn[s].fd \in Clients
    BY SlotType DEF Structure, InUse
  <2>2. Flags(conn[s].fd, epi[conn[s].fd].mask) # {}
    BY <1>0, <2>1, FlagsSame
  <2> QED BY <2>2 DEF Structure, NoLostWakeup, ServedNow
<1> QED BY <1>1, <1>2, <1>3, <1>4 DEF Structure

LEMMA CloseStructure ==
  ASSUME Structure, TypeOK', NEW s \in Slots, InUse(s), CloseConnection(s),
         UNCHANGED <<peer, stream, rd, wire, got>>,
         cur \in {0, s}, pc' = "batch", cur' = 0, batch' \subseteq batch,
         \A e \in batch : e \in batch' <=> e.ptr # s
  PROVE  Structure'
<1> DEFINE c == conn[s].fd
<1>0. /\ c \in Clients /\ s # 0
      /\ conn' = [conn EXCEPT ![s] = Unused]
      /\ phase' = [phase EXCEPT ![c] = "closed"]
      /\ epi' = [epi EXCEPT ![c] = Unregistered]
  BY SlotType DEF Structure, InUse, CloseConnection, Slots
<1>1. /\ \A t \in Slots \ {s} : conn'[t] = conn[t] /\ conn[t].fd # c
      /\ conn'[s] = Unused /\ conn'[s].fd = None
      /\ \A d \in Clients \ {c} : phase'[d] = phase[d] /\ epi'[d] = epi[d]
      /\ phase'[c] = "closed" /\ epi'[c] = Unregistered
  BY <1>0 DEF Structure, TypeOK, SlotOwnership, InUse, Unused
<1>2. SlotOwnership'
  BY <1>0, <1>1, SlotType, NoneAssumption DEF Structure, SlotOwnership, InUse
<1>3. EpollAgrees'
  BY <1>0, <1>1, SlotType DEF Structure, EpollAgrees, InUse
<1>4. CurrentSlot'
  BY DEF CurrentSlot
<1>5. \A e \in batch' : e.ptr # Listener => e.ptr \in Slots \ {s}
  BY DEF Structure, TypeOK, Event, Slots, Listener
<1>6. PendingEvents'
  BY <1>1, <1>5 DEF Structure, PendingEvents, MaskOf, Slots, Listener
<1>7. NoStaleEvent'
  BY <1>1, <1>5 DEF Structure, NoStaleEvent
<1>8. NoLostWakeup'
  <2> SUFFICES ASSUME NEW t \in Slots, InUse(t)', Flags(conn[t].fd, epi[conn[t].fd].mask)' # {}
               PROVE  epi'[conn'[t].fd].ready \/ \E e \in batch' : e.fd = conn'[t].fd
    BY DEF NoLostWakeup
  <2>1. t # s /\ conn'[t] = conn[t] /\ conn[t].fd \in Clients \ {c} /\ InUse(t)
    BY <1>1, SlotType DEF InUse, Structure
  <2>2. epi'[conn[t].fd] = epi[conn[t].fd]
    BY <1>1, <2>1
  <2>3. Flags(conn[t].fd, epi[conn[t].fd].mask) # {}
    BY <2>1, <2>2, FlagsSame
  <2>4. epi[conn[t].fd].ready \/ \E e \in batch : e.fd = conn[t].fd
    BY <2>1, <2>3 DEF Structure, NoLostWakeup, ServedNow, CurrentSlot, Slots
  <2>5. ASSUME NEW e \in batch, e.fd = conn[t].fd PROVE e \in batch'
    BY <2>1, <2>5 DEF Structure, NoStaleEvent, PendingEvents, InUse
  <2> QED BY <2>1, <2>2, <2>4, <2>5
<1> QED BY <1>2, <1>3, <1>4, <1>6, <1>7, <1>8 DEF Structure

\* EPOLL_CTL_MOD (or ADD) polls the socket, so whatever is already there counts.
LEMMA CtlWakes ==
  ASSUME TypeOK, NEW c \in Clients, NEW s, NEW m, EpollCtl(c, s, m)
  PROVE  /\ epi'[c].ptr = s /\ epi'[c].mask = m
         /\ Flags(c, m) # {} => epi'[c].ready
         /\ \A d \in Clients \ {c} : epi'[d] = epi[d]
  BY DEF EpollCtl, TypeOK

LEMMA RearmStructure ==
  ASSUME Structure, TypeOK', NEW s \in Slots, NEW c \in Clients, NEW r, cur = s,
         conn[s].fd = c, conn' = [conn EXCEPT ![s] = r], r.fd = c,
         r.state \in {"recv", "send"}, EpollCtl(c, s, MaskOf(r.state)),
         UNCHANGED kernelVars, batch' = batch, Return
  PROVE  Structure'
<1>0. /\ UNCHANGED <<peer, stream, rd, wire, got>> /\ phase' = phase
      /\ s # 0 /\ c # None /\ InUse(s) /\ conn'[s] = r
      /\ \A t \in Slots \ {s} : conn'[t] = conn[t] /\ conn[t].fd # c
      /\ \A d \in Clients \ {c} : epi'[d] = epi[d]
      /\ epi'[c].ptr = s /\ epi'[c].mask = MaskOf(r.state)
      /\ Flags(c, MaskOf(r.state)) # {} => epi'[c].ready
  <2>1. \A d \in Clients \ {c} : epi'[d] = epi[d]
    BY CtlWakes DEF Structure
  <2>2. /\ epi'[c].ptr = s /\ epi'[c].mask = MaskOf(r.state)
        /\ Flags(c, MaskOf(r.state)) # {} => epi'[c].ready
    BY CtlWakes DEF Structure
  <2>3. conn'[s] = r /\ \A t \in Slots \ {s} : conn'[t] = conn[t]
    BY DEF Structure, TypeOK
  <2> QED BY <2>1, <2>2, <2>3, NoneAssumption DEF kernelVars, InUse, Slots, Structure, SlotOwnership
<1>2. SlotOwnership'
  BY <1>0 DEF Structure, SlotOwnership, InUse
<1>3. EpollAgrees'
  <2>1. ASSUME NEW t \in Slots, InUse(t)'
        PROVE  epi'[conn'[t].fd].ptr = t /\ epi'[conn'[t].fd].mask = MaskOf(conn'[t].state)
    <3>1. CASE t = s
      BY <1>0, <3>1
    <3>2. CASE t # s
      BY <1>0, <3>2, <2>1, SlotType DEF Structure, EpollAgrees, InUse
    <3> QED BY <3>1, <3>2
  <2>2. ASSUME NEW d \in Clients, phase'[d] # "accepted" PROVE epi'[d] = Unregistered
    BY <1>0, <2>2 DEF Structure, EpollAgrees, SlotOwnership
  <2> QED BY <2>1, <2>2 DEF EpollAgrees, MaskOf
<1>4. CurrentSlot'
  BY DEF CurrentSlot, Return
<1>5. \A e \in batch : e.ptr # Listener => e.ptr \in Slots \ {s}
  BY DEF Structure, TypeOK, Event, Slots, Listener, PendingEvents
<1>6. PendingEvents'
  BY <1>0, <1>5 DEF Structure, PendingEvents, MaskOf, Slots, Listener, Return
<1>7. NoStaleEvent'
  BY <1>0, <1>5 DEF Structure, NoStaleEvent
<1>8. NoLostWakeup'
  <2> SUFFICES ASSUME NEW t \in Slots, InUse(t)', Flags(conn[t].fd, epi[conn[t].fd].mask)' # {}
               PROVE  epi'[conn'[t].fd].ready \/ \E e \in batch' : e.fd = conn'[t].fd
    BY DEF NoLostWakeup
  <2>1. CASE t = s
    <3>1. Flags(c, epi[c].mask)' = Flags(c, epi'[c].mask)
      BY <1>0 DEF Flags, Readable, Writable
    <3> QED BY <1>0, <2>1, <3>1
  <2>2. CASE t # s
    <3>1. conn'[t] = conn[t] /\ conn[t].fd \in Clients \ {c} /\ InUse(t)
      BY <1>0, <2>2, SlotType DEF InUse, Structure
    <3>2. epi'[conn[t].fd] = epi[conn[t].fd]
      BY <1>0, <3>1
    <3>3. Flags(conn[t].fd, epi[conn[t].fd].mask) # {}
      BY <1>0, <3>1, <3>2, FlagsSame
    <3> QED BY <2>2, <3>1, <3>2, <3>3 DEF Structure, NoLostWakeup, ServedNow
  <2> QED BY <2>1, <2>2
<1> QED BY <1>2, <1>3, <1>4, <1>6, <1>7, <1>8 DEF Structure

LEMMA AdmitStructure ==
  ASSUME Structure, TypeOK', NEW s \in Slots, NEW c \in Clients, Admit(c, s)
  PROVE  Structure'
<1>0. /\ UNCHANGED <<peer, stream, rd, wire, got>> /\ UNCHANGED <<pc, cur, batch>>
      /\ pc = "accept" /\ ~InUse(s) /\ c # None /\ phase[c] = "queued"
      /\ conn'[s] = Fresh(c) /\ phase'[c] = "accepted"
      /\ Fresh(c).fd = c /\ Fresh(c).state = "recv"
      /\ \A t \in Slots \ {s} : conn'[t] = conn[t]
      /\ \A d \in Clients \ {c} : phase'[d] = phase[d]
  BY NoneAssumption DEF Admit, FreeSlot, Structure, TypeOK, Fresh, Unused
<1>1. /\ \A d \in Clients \ {c} : epi'[d] = epi[d]
      /\ epi'[c].ptr = s /\ epi'[c].mask = "in"
      /\ Flags(c, "in") # {} => epi'[c].ready
  BY CtlWakes DEF Structure, Admit
<1>2. \A t \in Slots \ {s} : conn[t].fd # c
  BY <1>0 DEF Structure, SlotOwnership
<1>3. SlotOwnership'
  BY <1>0, <1>2, NoneAssumption DEF Structure, SlotOwnership, InUse
<1>4. EpollAgrees'
  <2>1. ASSUME NEW t \in Slots, InUse(t)'
        PROVE  epi'[conn'[t].fd].ptr = t /\ epi'[conn'[t].fd].mask = MaskOf(conn'[t].state)
    <3>1. CASE t = s
      BY <1>0, <1>1, <3>1 DEF MaskOf
    <3>2. CASE t # s
      BY <1>0, <1>1, <1>2, <3>2, <2>1, SlotType DEF Structure, EpollAgrees, InUse
    <3> QED BY <3>1, <3>2
  <2>2. ASSUME NEW d \in Clients, phase'[d] # "accepted" PROVE epi'[d] = Unregistered
    BY <1>0, <1>1, <2>2 DEF Structure, EpollAgrees
  <2> QED BY <2>1, <2>2 DEF EpollAgrees, MaskOf
<1>5. CurrentSlot'
  BY <1>0 DEF Structure, CurrentSlot
<1>6. \A e \in batch : e.ptr # Listener => e.ptr \in Slots \ {s}
  BY <1>0 DEF Structure, TypeOK, Event, Slots, Listener, NoStaleEvent, InUse
<1>7. PendingEvents'
  BY <1>0, <1>6 DEF Structure, PendingEvents, MaskOf
<1>8. NoStaleEvent'
  BY <1>0, <1>6 DEF Structure, NoStaleEvent
<1>9. NoLostWakeup'
  <2> SUFFICES ASSUME NEW t \in Slots, InUse(t)', Flags(conn[t].fd, epi[conn[t].fd].mask)' # {}
               PROVE  epi'[conn'[t].fd].ready \/ \E e \in batch' : e.fd = conn'[t].fd
    BY DEF NoLostWakeup
  <2>1. CASE t = s
    <3>1. Flags(c, epi[c].mask)' = Flags(c, epi'[c].mask)
      BY <1>0 DEF Flags, Readable, Writable
    <3> QED BY <1>0, <1>1, <2>1, <3>1
  <2>2. CASE t # s
    <3>1. conn'[t] = conn[t] /\ conn[t].fd \in Clients \ {c} /\ InUse(t)
      BY <1>0, <1>2, <2>2, SlotType DEF InUse, Structure
    <3>2. epi'[conn[t].fd] = epi[conn[t].fd]
      BY <1>1, <3>1
    <3>3. Flags(conn[t].fd, epi[conn[t].fd].mask) # {}
      BY <1>0, <3>1, <3>2, FlagsSame
    <3> QED BY <1>0, <3>1, <3>2, <3>3 DEF Structure, NoLostWakeup, ServedNow
  <2> QED BY <2>1, <2>2
<1> QED BY <1>3, <1>4, <1>5, <1>7, <1>8, <1>9 DEF Structure

LEMMA WaitStructure ==
  ASSUME Structure, TypeOK', EpollWait
  PROVE  Structure'
<1>1. PICK b \in SUBSET (ReadyEvents \cup ListenerEvent) :
        /\ batch' = b
        /\ epi' = [c \in Clients |->
                     [epi[c] EXCEPT !.ready = \E e \in ReadyEvents \ b : e.fd = c]]
  BY DEF EpollWait
<1>2. /\ UNCHANGED <<peer, stream, rd, wire, got>> /\ UNCHANGED <<conn, phase, cur>>
      /\ pc = "wait" /\ pc' = "batch" /\ cur = 0
  BY DEF EpollWait, kernelVars, Structure, CurrentSlot
<1>3. \A c \in Clients : /\ epi'[c].ptr = epi[c].ptr /\ epi'[c].mask = epi[c].mask
                         /\ epi'[c].ready <=> \E e \in ReadyEvents \ b : e.fd = c
  <2> SUFFICES ASSUME NEW c \in Clients
               PROVE  /\ epi'[c].ptr = epi[c].ptr /\ epi'[c].mask = epi[c].mask
                      /\ epi'[c].ready <=> \E e \in ReadyEvents \ b : e.fd = c
    OBVIOUS
  <2>1. epi[c] \in EpollItem
    BY DEF Structure, TypeOK
  <2>2. epi'[c] = [epi[c] EXCEPT !.ready = \E e \in ReadyEvents \ b : e.fd = c]
    BY <1>1
  <2> QED BY <2>1, <2>2 DEF EpollItem
<1>4. ASSUME NEW e \in ReadyEvents
      PROVE  \E s \in Slots : /\ e.ptr = s /\ conn[s].fd = e.fd /\ InUse(s) /\ s # 0
                              /\ e.fd \in Clients
                              /\ e.flags # {} /\ e.flags \subseteq {"hup", MaskOf(conn[s].state)}
  <2>1. PICK c \in Clients : /\ epi[c].ready /\ Flags(c, epi[c].mask) # {}
                             /\ e = [ptr |-> epi[c].ptr, fd |-> c, flags |-> Flags(c, epi[c].mask)]
    BY <1>4 DEF ReadyEvents
  <2>2. phase[c] = "accepted"
    BY <2>1 DEF Structure, EpollAgrees, Unregistered
  <2>3. PICK s \in Slots : conn[s].fd = c
    BY <2>2 DEF Structure, SlotOwnership
  <2>4. InUse(s) /\ s # 0
    BY <2>3, NoneAssumption DEF InUse, Slots
  <2>5. epi[c].ptr = s /\ epi[c].mask = MaskOf(conn[s].state)
    BY <2>3, <2>4 DEF Structure, EpollAgrees
  <2>6. Flags(c, epi[c].mask) \subseteq {"hup", epi[c].mask}
    BY DEF Flags
  <2> QED BY <2>1, <2>3, <2>4, <2>5, <2>6
<1>5. ASSUME NEW e \in ListenerEvent PROVE e.ptr = Listener /\ e.fd = None
  BY DEF ListenerEvent
<1>6. SlotOwnership'
  BY <1>2 DEF Structure, SlotOwnership, InUse
<1>7. EpollAgrees'
  <2>1. ASSUME NEW t \in Slots, InUse(t)'
        PROVE  epi'[conn'[t].fd].ptr = t /\ epi'[conn'[t].fd].mask = MaskOf(conn'[t].state)
    BY <1>2, <1>3, <2>1, SlotType DEF Structure, EpollAgrees, InUse
  <2>2. ASSUME NEW d \in Clients, phase'[d] # "accepted" PROVE epi'[d] = Unregistered
    <3>1. epi[d] = Unregistered
      BY <1>2, <2>2 DEF Structure, EpollAgrees
    <3>2. ~ \E e \in ReadyEvents \ b : e.fd = d
      BY <3>1 DEF ReadyEvents, Unregistered
    <3>3. epi'[d] \in EpollItem
      BY DEF TypeOK
    <3>4. epi'[d].ptr = 0 /\ epi'[d].mask = "none" /\ ~epi'[d].ready
      BY <1>3, <3>1, <3>2 DEF Unregistered
    <3> QED BY <3>3, <3>4 DEF Unregistered, EpollItem
  <2> QED BY <2>1, <2>2 DEF EpollAgrees, MaskOf
<1>8. CurrentSlot'
  BY <1>2 DEF CurrentSlot
<1>9. \A e \in b : e \in ReadyEvents \/ e \in ListenerEvent
  OBVIOUS
<1>10. PendingEvents'
  <2>1. ASSUME NEW e \in b, e.ptr = Listener PROVE e.fd = None
    BY <1>4, <1>5, <1>9, <2>1 DEF Listener
  <2>2. ASSUME NEW e \in b, e.ptr # Listener
        PROVE  /\ e.ptr # cur
               /\ e.flags # {} /\ e.flags \subseteq {"hup", MaskOf(conn[e.ptr].state)}
    BY <1>2, <1>4, <1>5, <1>9, <2>2
  <2>3. ASSUME NEW e \in b, NEW f \in b, e.ptr # Listener, f.ptr = e.ptr
        PROVE  f = e
    <3>1. e \in ReadyEvents /\ f \in ReadyEvents
      BY <1>5, <1>9, <2>3
    <3>2. e.fd = f.fd
      BY <1>4, <2>3, <3>1
    <3> QED BY <3>1, <3>2 DEF ReadyEvents
  <2> QED BY <1>1, <1>2, <2>1, <2>2, <2>3 DEF PendingEvents, MaskOf
<1>11. NoStaleEvent'
  <2> SUFFICES ASSUME NEW e \in b, e.ptr # Listener
               PROVE  e.fd # None /\ conn[e.ptr].fd = e.fd
    BY <1>1, <1>2 DEF NoStaleEvent
  <2>1. e \in ReadyEvents
    BY <1>5, <1>9
  <2> QED BY <1>4, <2>1, NoneAssumption
<1>12. NoLostWakeup'
  <2> SUFFICES ASSUME NEW t \in Slots, InUse(t)', Flags(conn[t].fd, epi[conn[t].fd].mask)' # {}
               PROVE  epi'[conn'[t].fd].ready \/ \E e \in batch' : e.fd = conn'[t].fd
    BY DEF NoLostWakeup
  <2> DEFINE c == conn[t].fd
             e == [ptr |-> epi[c].ptr, fd |-> c, flags |-> Flags(c, epi[c].mask)]
  <2>1. InUse(t) /\ c \in Clients
    BY <1>2, SlotType DEF InUse, Structure
  <2>2. Flags(c, epi[c].mask) # {}
    BY <1>2, <1>3, <2>1, FlagsSame
  <2>3. epi[c].ready
    BY <1>2, <2>1, <2>2 DEF Structure, NoLostWakeup, ServedNow, PendingEvents
  <2>4. e \in ReadyEvents
    BY <2>1, <2>2, <2>3 DEF ReadyEvents
  <2>5. e.fd = c
    OBVIOUS
  <2>6. CASE e \in b
    BY <1>1, <1>2, <2>5, <2>6
  <2>7. CASE e \notin b
    BY <1>2, <1>3, <2>1, <2>4, <2>5, <2>7
  <2> QED BY <2>6, <2>7
<1> QED BY <1>6, <1>7, <1>8, <1>10, <1>11, <1>12 DEF Structure

LEMMA EventSlot ==
  ASSUME Structure, NEW e \in batch, e.ptr # Listener
  PROVE  e.ptr \in Slots /\ InUse(e.ptr) /\ conn[e.ptr].fd = e.fd
<1>1. e \in Event
  BY DEF Structure, TypeOK
<1>2. e.ptr \in Slots
  BY <1>1 DEF Event, Slots, Listener
<1> QED BY <1>2 DEF Structure, NoStaleEvent, InUse

LEMMA HandleStructure ==
  ASSUME Structure, TypeOK', HandleListener \/ HandleHangup \/ HandleEvent
  PROVE  Structure'
<1>0. pc = "batch" /\ cur = 0
  BY DEF HandleListener, HandleHangup, HandleEvent, Structure, CurrentSlot
<1>1. CASE HandleListener
  <2>1. PICK e \in batch : e.ptr = Listener /\ batch' = batch \ {e}
    BY <1>1 DEF HandleListener
  <2>2. /\ UNCHANGED <<peer, stream, rd, wire, got>> /\ UNCHANGED <<conn, phase, epi, cur>>
        /\ pc' = "accept"
    BY <1>1 DEF HandleListener, kernelVars
  <2>3. SlotOwnership' /\ EpollAgrees' /\ NoStaleEvent'
    BY <2>1, <2>2, QuietStep
  <2>4. CurrentSlot'
    BY <1>0, <2>2 DEF CurrentSlot
  <2>5. PendingEvents'
    BY <2>1, <2>2 DEF Structure, PendingEvents, MaskOf
  <2>6. NoLostWakeup'
    <3> SUFFICES ASSUME NEW t \in Slots, InUse(t), Flags(conn[t].fd, epi[conn[t].fd].mask)' # {}
                 PROVE  epi[conn[t].fd].ready \/ \E f \in batch' : f.fd = conn[t].fd
      BY <2>2 DEF NoLostWakeup, InUse
    <3>1. conn[t].fd \in Clients
      BY SlotType DEF Structure, InUse
    <3>2. Flags(conn[t].fd, epi[conn[t].fd].mask) # {}
      BY <2>2, <3>1, FlagsSame
    <3>3. epi[conn[t].fd].ready \/ \E f \in batch : f.fd = conn[t].fd
      BY <1>0, <3>2 DEF Structure, NoLostWakeup, ServedNow
    <3>4. e.fd = None
      BY <2>1 DEF Structure, PendingEvents
    <3> QED BY <2>1, <3>1, <3>3, <3>4, NoneAssumption
  <2> QED BY <2>3, <2>4, <2>5, <2>6 DEF Structure
<1>2. CASE HandleHangup
  <2>1. PICK e \in batch : /\ e.ptr # Listener /\ batch' = batch \ {e}
                           /\ CloseConnection(e.ptr)
    BY <1>2 DEF HandleHangup
  <2>2. e.ptr \in Slots /\ InUse(e.ptr)
    BY <2>1, EventSlot
  <2>3. \A f \in batch : f \in batch' <=> f.ptr # e.ptr
    BY <2>1 DEF Structure, PendingEvents
  <2>4. UNCHANGED <<peer, stream, rd, wire, got>> /\ UNCHANGED <<pc, cur>>
    BY <1>2 DEF HandleHangup
  <2> QED BY <1>0, <2>1, <2>2, <2>3, <2>4, CloseStructure
<1>3. CASE HandleEvent
  <2>1. PICK e \in batch : /\ e.ptr # Listener /\ "hup" \notin e.flags
                           /\ batch' = batch \ {e}
                           /\ pc' = Callee(e)
                           /\ cur' = IF Callee(e) = "batch" THEN 0 ELSE e.ptr
    BY <1>3 DEF HandleEvent
  <2>2. UNCHANGED <<peer, stream, rd, wire, got>> /\ UNCHANGED <<conn, phase, epi>>
    BY <1>3 DEF HandleEvent, kernelVars
  <2>3. e.ptr \in Slots /\ InUse(e.ptr) /\ conn[e.ptr].fd = e.fd
    BY <2>1, EventSlot
  <2>4. /\ conn[e.ptr].state = "recv" => "in" \in e.flags /\ Callee(e) = "read"
        /\ conn[e.ptr].state = "send" => "out" \in e.flags /\ Callee(e) = "write"
        /\ conn[e.ptr].state \in {"recv", "send"}
    <3>1. e.flags # {} /\ e.flags \subseteq {"hup", MaskOf(conn[e.ptr].state)}
      BY <2>1 DEF Structure, PendingEvents
    <3>2. conn[e.ptr].state \in {"recv", "send"}
      BY <2>3, SlotType DEF Structure
    <3>3. MaskOf(conn[e.ptr].state) \in e.flags
      BY <2>1, <3>1
    <3> QED BY <3>2, <3>3 DEF Callee, MaskOf
  <2>5. cur' = e.ptr /\ pc' \in {"read", "write"}
    BY <2>1, <2>4
  <2>6. SlotOwnership' /\ EpollAgrees' /\ NoStaleEvent'
    BY <2>1, <2>2, QuietStep
  <2>7. CurrentSlot'
    BY <2>1, <2>2, <2>3, <2>4, <2>5 DEF CurrentSlot, InUse
  <2>8. PendingEvents'
    BY <2>1, <2>2, <2>5 DEF Structure, PendingEvents, MaskOf
  <2>9. NoLostWakeup'
    <3> SUFFICES ASSUME NEW t \in Slots, InUse(t), t # e.ptr,
                        Flags(conn[t].fd, epi[conn[t].fd].mask)' # {}
                 PROVE  epi[conn[t].fd].ready \/ \E f \in batch' : f.fd = conn[t].fd
      BY <2>2, <2>5 DEF NoLostWakeup, InUse, ServedNow
    <3>1. conn[t].fd \in Clients
      BY SlotType DEF Structure, InUse
    <3>2. Flags(conn[t].fd, epi[conn[t].fd].mask) # {}
      BY <2>2, <3>1, FlagsSame
    <3>3. epi[conn[t].fd].ready \/ \E f \in batch : f.fd = conn[t].fd
      BY <1>0, <3>2 DEF Structure, NoLostWakeup, ServedNow
    <3>4. e.fd # conn[t].fd
      BY <2>3 DEF Structure, SlotOwnership
    <3> QED BY <2>1, <3>3, <3>4
  <2> QED BY <2>6, <2>7, <2>8, <2>9 DEF Structure
<1> QED BY <1>1, <1>2, <1>3

LEMMA LoopStructure ==
  ASSUME Structure, TypeOK', Loop \/ AcceptEnds
  PROVE  Structure'
<1>1. CASE Setup \/ LoopGuard \/ EpollFails
  <2>1. /\ UNCHANGED <<conn, kernelVars, epi, cur, batch>>
        /\ pc \in {"setup", "guard", "wait"} /\ pc' \in {"guard", "wait", "done"}
    BY <1>1 DEF Setup, LoopGuard, EpollFails
  <2>2. batch = {}
    BY <2>1 DEF Structure, PendingEvents
  <2> QED BY <2>1, <2>2, IdleStep
<1>2. CASE NextRound
  <2>1. /\ UNCHANGED <<conn, kernelVars, epi, cur, batch>>
        /\ pc = "batch" /\ batch = {} /\ pc' = "guard"
    BY <1>2 DEF NextRound
  <2> QED BY <2>1, IdleStep
<1>3. CASE AcceptEnds
  <2>1. UNCHANGED <<conn, kernelVars, epi, cur, batch>> /\ pc = "accept" /\ pc' = "batch"
    BY <1>3 DEF AcceptEnds
  <2> QED BY <2>1, IdleStep
<1> QED BY <1>1, <1>2, <1>3, WaitStructure, HandleStructure DEF Loop

\* Closing connections that no slot holds.
LEMMA DequeueStructure ==
  ASSUME Structure, TypeOK', UNCHANGED <<conn, epi, cur, batch, peer, stream, rd, wire, got>>,
         \A c \in Clients : phase'[c] # phase[c] => phase[c] = "queued" /\ phase'[c] = "closed",
         \/ pc' = pc
         \/ pc = "wait" /\ pc' = "guard"
  PROVE  Structure'
<1>1. SlotOwnership'
  BY DEF Structure, SlotOwnership, InUse
<1>2. EpollAgrees'
  BY DEF Structure, EpollAgrees, InUse, MaskOf
<1>3. CurrentSlot'
  BY DEF Structure, CurrentSlot, InUse
<1>4. PendingEvents'
  BY DEF Structure, PendingEvents, MaskOf
<1>5. NoStaleEvent'
  BY DEF Structure, NoStaleEvent
<1>6. NoLostWakeup'
  <2> SUFFICES ASSUME NEW s \in Slots, InUse(s), ~ServedNow(s)',
                      Flags(conn[s].fd, epi[conn[s].fd].mask)' # {}
               PROVE  epi[conn[s].fd].ready \/ \E e \in batch : e.fd = conn[s].fd
    BY DEF NoLostWakeup, InUse
  <2>1. conn[s].fd \in Clients
    BY SlotType DEF Structure, InUse
  <2>2. Flags(conn[s].fd, epi[conn[s].fd].mask) # {} /\ ~ServedNow(s)
    BY <2>1, FlagsSame DEF ServedNow
  <2> QED BY <2>2 DEF Structure, NoLostWakeup
<1> QED BY <1>1, <1>2, <1>3, <1>4, <1>5, <1>6 DEF Structure

\* The slot that is given back was free, and stays so.
LEMMA RegistrationFailsStructure ==
  ASSUME Structure, TypeOK', NEW s \in Slots, NEW c \in Clients, RegistrationFails(c, s)
  PROVE  Structure'
<1>1. /\ UNCHANGED <<pc, cur, batch, peer, stream, rd, wire, got, epi>> /\ pc = "accept"
      /\ \A d \in Clients : phase'[d] # phase[d] => phase[d] = "queued" /\ phase'[d] = "closed"
  BY DEF RegistrationFails, Structure, TypeOK
<1>2. /\ ~InUse(s) /\ ~InUse(s)'
      /\ \A t \in Slots : t # s => conn'[t] = conn[t]
  BY DEF RegistrationFails, FreeSlot, Structure, TypeOK, InUse, Unused
<1>3. \A t \in Slots : /\ conn'[t].fd = conn[t].fd
                       /\ InUse(t) => conn'[t] = conn[t]
  BY <1>2 DEF InUse
<1>4. SlotOwnership'
  BY <1>1, <1>3 DEF Structure, SlotOwnership, InUse
<1>5. EpollAgrees'
  BY <1>1, <1>3 DEF Structure, EpollAgrees, InUse, MaskOf
<1>6. CurrentSlot'
  BY <1>1 DEF Structure, CurrentSlot
<1>7. \A e \in batch : e.ptr # Listener => e.ptr \in Slots /\ InUse(e.ptr)
  BY EventSlot
<1>8. PendingEvents'
  BY <1>1, <1>3, <1>7 DEF Structure, PendingEvents, MaskOf
<1>9. NoStaleEvent'
  BY <1>1, <1>3, <1>7 DEF Structure, NoStaleEvent
<1>10. NoLostWakeup'
  <2> SUFFICES ASSUME NEW t \in Slots, InUse(t),
                      Flags(conn[t].fd, epi[conn[t].fd].mask)' # {}
               PROVE  epi[conn[t].fd].ready \/ \E e \in batch : e.fd = conn[t].fd
    BY <1>1, <1>3 DEF NoLostWakeup, InUse
  <2>1. conn[t].fd \in Clients /\ conn'[t] = conn[t]
    BY <1>3, SlotType DEF Structure, InUse
  <2>2. Flags(conn[t].fd, epi[conn[t].fd].mask) # {}
    BY <1>1, <2>1 DEF Flags, Readable, Writable
  <2> QED BY <1>1, <2>2 DEF Structure, NoLostWakeup, ServedNow
<1> QED BY <1>4, <1>5, <1>6, <1>8, <1>9, <1>10 DEF Structure

LEMMA AcceptingStructure ==
  ASSUME Structure, TypeOK', Accepting
  PROVE  Structure'
<1>1. ASSUME NEW c \in Clients, Refuse(c) PROVE Structure'
  <2>1. \A d \in Clients : phase'[d] # phase[d] => phase[d] = "queued" /\ phase'[d] = "closed"
    BY <1>1 DEF Refuse, Structure, TypeOK
  <2> QED BY <1>1, <2>1, DequeueStructure DEF Refuse
<1> QED BY <1>1, AdmitStructure, RegistrationFailsStructure, LoopStructure DEF Accepting

\* A step of an I/O function on its own connection, which stays the one served.
LEMMA BusyStructure ==
  ASSUME Structure, TypeOK', NEW s \in Slots, NEW c \in Clients, NEW r,
         cur = s, conn[s].fd = c, pc \in {"read", "write"},
         pc' \in IF pc = "read" THEN {"read", "dispatch"} ELSE {"write"},
         conn' = [conn EXCEPT ![s] = r], r.fd = c, r.state = conn[s].state,
         UNCHANGED <<cur, batch, phase, peer, stream, got, epi>>,
         \A d \in Clients \ {c} : rd'[d] = rd[d] /\ wire'[d] = wire[d]
  PROVE  Structure'
<1>0. /\ conn'[s] = r
      /\ \A t \in Slots \ {s} : conn'[t] = conn[t]
  BY DEF Structure, TypeOK
<1>1. \A t \in Slots : conn'[t].fd = conn[t].fd /\ conn'[t].state = conn[t].state
  BY <1>0
<1>2. SlotOwnership'
  BY <1>1 DEF Structure, SlotOwnership, InUse
<1>3. EpollAgrees'
  BY <1>1 DEF Structure, EpollAgrees, InUse, MaskOf
<1>4. CurrentSlot'
  BY <1>1 DEF Structure, CurrentSlot, InUse
<1>5. \A e \in batch : e.ptr # Listener => e.ptr \in Slots
  BY EventSlot
<1>6. PendingEvents'
  BY <1>1, <1>5 DEF Structure, PendingEvents, MaskOf
<1>7. NoStaleEvent'
  BY <1>1, <1>5 DEF Structure, NoStaleEvent
<1>8. NoLostWakeup'
  <2> SUFFICES ASSUME NEW t \in Slots, t # s, InUse(t),
                      Flags(conn[t].fd, epi[conn[t].fd].mask)' # {}
               PROVE  epi[conn[t].fd].ready \/ \E e \in batch : e.fd = conn[t].fd
    BY <1>1 DEF NoLostWakeup, InUse, ServedNow
  <2>1. conn[t].fd \in Clients \ {c}
    BY SlotType DEF Structure, InUse, SlotOwnership
  <2>2. conn'[t] = conn[t]
    BY <1>0
  <2>3. Flags(conn[t].fd, epi[conn[t].fd].mask)' = Flags(conn[t].fd, epi[conn[t].fd].mask)
    BY <2>1, <2>2 DEF Flags, Readable, Writable
  <2> QED BY <2>3 DEF Structure, NoLostWakeup, ServedNow
<1> QED BY <1>2, <1>3, <1>4, <1>6, <1>7, <1>8 DEF Structure

\* recv or send returns EAGAIN: nothing is ready any more.
LEMMA LaterStructure ==
  ASSUME Structure, TypeOK', NEW s \in Slots, NEW c \in Clients,
         ReceiveLater(s, c) \/ TransmitLater(s, c)
  PROVE  Structure'
<1>0. /\ UNCHANGED <<conn, phase, epi, batch>> /\ UNCHANGED <<peer, stream, rd, wire, got>>
      /\ pc' = "batch" /\ cur' = 0 /\ cur = s /\ conn[s].fd = c
  BY DEF ReceiveLater, TransmitLater, kernelVars, Return, Serving
<1>1. SlotOwnership' /\ EpollAgrees' /\ NoStaleEvent'
  BY <1>0, QuietStep
<1>2. CurrentSlot'
  BY <1>0 DEF CurrentSlot
<1>3. PendingEvents'
  BY <1>0 DEF Structure, PendingEvents, MaskOf, Listener
<1>4. InUse(s) /\ epi[c].mask = MaskOf(conn[s].state)
  BY <1>0, NoneAssumption DEF InUse, Structure, EpollAgrees
<1>5. Flags(c, epi[c].mask) = {}
  <2>1. CASE ReceiveLater(s, c)
    <3>1. epi[c].mask = "in" /\ peer[c] = "open" /\ Unread(c) = 0
      BY <1>4, <2>1 DEF ReceiveLater, Serving, Structure, CurrentSlot, MaskOf
    <3>2. ~Readable(c)
      BY <3>1, ClientType DEF Structure, Unread, Readable
    <3> QED BY <3>1, <3>2 DEF Flags
  <2>2. CASE TransmitLater(s, c)
    <3>1. epi[c].mask = "out" /\ peer[c] # "rst" /\ ~Writable(c)
      BY <1>4, <2>2 DEF TransmitLater, Serving, Structure, CurrentSlot, MaskOf
    <3> QED BY <3>1 DEF Flags
  <2> QED BY <2>1, <2>2
<1>6. NoLostWakeup'
  <2> SUFFICES ASSUME NEW t \in Slots, InUse(t), Flags(conn[t].fd, epi[conn[t].fd].mask)' # {}
               PROVE  epi[conn[t].fd].ready \/ \E f \in batch : f.fd = conn[t].fd
    BY <1>0 DEF NoLostWakeup, InUse
  <2>1. conn[t].fd \in Clients
    BY SlotType DEF Structure, InUse
  <2>2. Flags(conn[t].fd, epi[conn[t].fd].mask) # {}
    BY <1>0, <2>1, FlagsSame
  <2>3. t # s
    BY <1>0, <1>5, <2>2
  <2> QED BY <1>0, <2>2, <2>3 DEF Structure, NoLostWakeup, ServedNow
<1> QED BY <1>1, <1>2, <1>3, <1>6 DEF Structure

LEMMA IoStructure ==
  ASSUME Structure, TypeOK', NEW s \in Slots, NEW c \in Clients,
         \/ Receive(s, c) \/ ReceiveNothing(s, c) \/ ReceiveLater(s, c)
         \/ IoFails(s, c) \/ Dispatch(s, c)
         \/ Transmit(s, c) \/ TransmitLater(s, c) \/ TransmitEnds(s, c)
  PROVE  Structure'
<1>1. CASE Receive(s, c)
  <2> DEFINE room == Room(s)
             n == IF Unread(c) <= room THEN Unread(c) ELSE room
             r == [conn[s] EXCEPT !.len = @ + n]
  <2>1. ~(conn[s].len + n > RequestLimit)
    <3>1. n > 0
      BY <1>1 DEF Receive
    <3> QED BY <3>1, SlotType, ClientType, NoneAssumption, BufCapAssumption, RequestLimitAssumption,
               RespLensAssumption DEF Structure, Unread
  <2>2. /\ conn' = [conn EXCEPT ![s] = r] /\ pc' \in {"read", "dispatch"}
        /\ UNCHANGED <<cur, batch, phase, peer, stream, got, epi, wire>>
        /\ rd' = [rd EXCEPT ![c] = @ + n]
        /\ pc = "read" /\ cur = s /\ conn[s].fd = c
    BY <1>1, <2>1 DEF Receive, Serving, AfterReceive
  <2>3. r.fd = c /\ r.state = conn[s].state
    BY <2>2, SlotType DEF Structure, Connection
  <2>4. \A d \in Clients \ {c} : rd'[d] = rd[d] /\ wire'[d] = wire[d]
    BY <2>2 DEF Structure, TypeOK
  <2> QED BY <2>2, <2>3, <2>4, BusyStructure
<1>2. CASE ReceiveNothing(s, c) \/ IoFails(s, c)
  <2>1. /\ CloseConnection(s) /\ UNCHANGED <<peer, stream, rd, wire, got>>
        /\ cur = s /\ conn[s].fd = c /\ pc' = "batch" /\ cur' = 0 /\ batch' = batch
    BY <1>2 DEF ReceiveNothing, IoFails, Serving, Return
  <2>2. InUse(s)
    BY <2>1, NoneAssumption DEF InUse
  <2>3. \A e \in batch : e.ptr # s
    BY <2>1 DEF Structure, PendingEvents, Slots, Listener
  <2> QED BY <2>1, <2>2, <2>3, CloseStructure
<1>3. CASE Dispatch(s, c)
  <2>1. PICK p \in 1 .. rd[c], n \in RespLens :
          conn' = [conn EXCEPT ![s] = Responding(@, Len(answers[c]) + 1, n)]
    BY <1>3 DEF Dispatch
  <2> DEFINE r == Responding(conn[s], Len(answers[c]) + 1, n)
  <2>2. /\ cur = s /\ conn[s].fd = c /\ UNCHANGED kernelVars /\ batch' = batch
        /\ Return /\ EpollCtl(c, s, "out")
    BY <1>3 DEF Dispatch, Serving
  <2>3. r.fd = c /\ r.state = "send"
    BY <2>2, SlotType DEF Structure, Connection, Responding
  <2> QED BY <2>1, <2>2, <2>3, RearmStructure DEF MaskOf
<1>4. CASE TransmitEnds(s, c)
  <2> DEFINE r == Rearmed(conn[s])
  <2>1. /\ cur = s /\ conn[s].fd = c /\ UNCHANGED kernelVars /\ batch' = batch
        /\ Return /\ EpollCtl(c, s, "in") /\ conn' = [conn EXCEPT ![s] = r]
    BY <1>4 DEF TransmitEnds, Serving
  <2>2. r.fd = c /\ r.state = "recv"
    BY <2>1, SlotType DEF Structure, Connection, Rearmed
  <2> QED BY <2>1, <2>2, RearmStructure DEF MaskOf
<1>5. CASE Transmit(s, c)
  <2> DEFINE r == [conn[s] EXCEPT !.sent = @ + 1]
  <2>1. /\ conn' = [conn EXCEPT ![s] = r] /\ pc' = "write"
        /\ UNCHANGED <<cur, batch, phase, peer, stream, got, epi, rd>>
        /\ wire' = [wire EXCEPT ![c] = Append(@, <<conn[s].id, conn[s].sent + 1>>)]
        /\ pc = "write" /\ cur = s /\ conn[s].fd = c
    BY <1>5 DEF Transmit, Serving, loopVars
  <2>2. r.fd = c /\ r.state = conn[s].state
    BY <2>1, SlotType DEF Structure, Connection
  <2>3. \A d \in Clients \ {c} : rd'[d] = rd[d] /\ wire'[d] = wire[d]
    BY <2>1 DEF Structure, TypeOK
  <2> QED BY <2>1, <2>2, <2>3, BusyStructure
<1> QED BY <1>1, <1>2, <1>3, <1>4, <1>5, LaterStructure

\* A peer acts on its end, and what its item waits for wakes it.
LEMMA PeerStructure ==
  ASSUME Structure, TypeOK', NEW c \in Clients,
         UNCHANGED <<loopVars, conn, rd, wire>>,
         \A d \in Clients \ {c} : /\ peer'[d] = peer[d] /\ stream'[d] = stream[d]
                                  /\ got'[d] = got[d] /\ epi'[d] = epi[d],
         epi'[c].ptr = epi[c].ptr, epi'[c].mask = epi[c].mask,
         epi[c].ready => epi'[c].ready,
         epi[c] = Unregistered => epi'[c] = Unregistered,
         \A d \in Clients : phase'[d] # phase[d] => phase[d] = "idle" /\ phase'[d] = "queued",
         epi'[c].ready \/ epi[c].mask = "none" \/ Flags(c, epi[c].mask)' \subseteq Flags(c, epi[c].mask)
  PROVE  Structure'
<1>0. UNCHANGED <<pc, cur, batch, conn>>
  BY DEF loopVars
<1>1. SlotOwnership'
  BY <1>0 DEF Structure, SlotOwnership, InUse
<1>2. EpollAgrees'
  <2>1. ASSUME NEW t \in Slots, InUse(t)'
        PROVE  epi'[conn'[t].fd].ptr = t /\ epi'[conn'[t].fd].mask = MaskOf(conn'[t].state)
    <3>1. InUse(t) /\ conn[t].fd \in Clients
      BY <1>0, <2>1, SlotType DEF Structure, InUse
    <3> QED BY <1>0, <3>1 DEF Structure, EpollAgrees
  <2>2. ASSUME NEW d \in Clients, phase'[d] # "accepted" PROVE epi'[d] = Unregistered
    <3>1. phase[d] # "accepted"
      BY <2>2
    <3> QED BY <3>1 DEF Structure, EpollAgrees
  <2> QED BY <2>1, <2>2 DEF EpollAgrees, MaskOf
<1>3. CurrentSlot'
  BY <1>0 DEF Structure, CurrentSlot, InUse
<1>4. PendingEvents'
  BY <1>0 DEF Structure, PendingEvents, MaskOf
<1>5. NoStaleEvent'
  BY <1>0 DEF Structure, NoStaleEvent
<1>6. NoLostWakeup'
  <2> SUFFICES ASSUME NEW t \in Slots, InUse(t), ~ServedNow(t), ~epi'[conn[t].fd].ready,
                      Flags(conn[t].fd, epi[conn[t].fd].mask)' # {}
               PROVE  \E e \in batch : e.fd = conn[t].fd
    BY <1>0 DEF NoLostWakeup, InUse, ServedNow
  <2>1. conn[t].fd \in Clients
    BY SlotType DEF Structure, InUse
  <2>2. CASE conn[t].fd # c
    <3>1. Flags(conn[t].fd, epi[conn[t].fd].mask)' = Flags(conn[t].fd, epi[conn[t].fd].mask)
      BY <1>0, <2>1, <2>2 DEF Flags, Readable, Writable
    <3>2. ~epi[conn[t].fd].ready
      BY <2>1, <2>2
    <3> QED BY <3>1, <3>2 DEF Structure, NoLostWakeup
  <2>3. CASE conn[t].fd = c
    <3>1. epi[c].mask # "none"
      BY <2>3, SlotType DEF Structure, EpollAgrees, MaskOf
    <3>2. Flags(c, epi[c].mask)' \subseteq Flags(c, epi[c].mask)
      BY <2>3, <3>1
    <3>3. Flags(c, epi[c].mask) # {} /\ ~epi[c].ready
      BY <1>0, <2>3, <3>2
    <3> QED BY <2>3, <3>3 DEF Structure, NoLostWakeup
  <2> QED BY <2>2, <2>3
<1> QED BY <1>1, <1>2, <1>3, <1>4, <1>5, <1>6 DEF Structure

LEMMA WakeEffect ==
  ASSUME TypeOK, NEW c \in Clients, NEW m \in SUBSET {"in", "out"}, Wake(c, m)
  PROVE  /\ \A d \in Clients \ {c} : epi'[d] = epi[d]
         /\ epi'[c].ptr = epi[c].ptr /\ epi'[c].mask = epi[c].mask
         /\ epi[c].ready => epi'[c].ready
         /\ epi[c].mask \in m => epi'[c].ready
         /\ epi[c] = Unregistered => epi'[c] = Unregistered
<1>1. epi[c] \in EpollItem /\ epi'[c] = [epi[c] EXCEPT !.ready = @ \/ epi[c].mask \in m]
  BY DEF Wake, TypeOK
<1>2. \A d \in Clients \ {c} : epi'[d] = epi[d]
  BY DEF Wake, TypeOK
<1>3. /\ epi'[c].ptr = epi[c].ptr /\ epi'[c].mask = epi[c].mask
      /\ epi'[c].ready <=> (epi[c].ready \/ epi[c].mask \in m)
  BY <1>1 DEF EpollItem
<1>4. ASSUME epi[c] = Unregistered PROVE epi'[c] = Unregistered
  <2>1. epi'[c].ptr = 0 /\ epi'[c].mask = "none" /\ ~epi'[c].ready
    BY <1>3, <1>4 DEF Unregistered
  <2>2. epi'[c] \in EpollItem
    BY WakeType DEF TypeOK
  <2> QED BY <2>1, <2>2 DEF Unregistered, EpollItem
<1> QED BY <1>2, <1>3, <1>4

LEMMA OutsideStructure ==
  ASSUME Structure, TypeOK', Signal \/ \E c \in Clients : Peer(c)
  PROVE  Structure'
<1>1. CASE Signal
  <2>1. \A c \in Clients : phase'[c] # phase[c] => phase[c] = "queued" /\ phase'[c] = "closed"
    BY <1>1 DEF Signal
  <2>2. /\ UNCHANGED <<conn, epi, cur, batch, peer, stream, rd, wire, got>>
        /\ pc' = pc \/ (pc = "wait" /\ pc' = "guard")
    BY <1>1 DEF Signal
  <2> QED BY <2>1, <2>2, DequeueStructure
<1>2. ASSUME NEW c \in Clients, Connect(c) PROVE Structure'
  <2>1. /\ UNCHANGED <<loopVars, conn, rd, wire>> /\ UNCHANGED <<peer, stream, got, epi>>
        /\ \A d \in Clients : phase'[d] # phase[d] => phase[d] = "idle" /\ phase'[d] = "queued"
    BY <1>2 DEF Connect, Structure, TypeOK
  <2>2. Flags(c, epi[c].mask)' = Flags(c, epi[c].mask)
    BY <2>1 DEF Flags, Readable, Writable
  <2> QED BY <2>1, <2>2, PeerStructure
<1>3. ASSUME NEW c \in Clients, NEW u \in {"x", "t"}, PeerSends(c, u) PROVE Structure'
  <2>1. /\ UNCHANGED <<loopVars, conn, rd, wire>> /\ UNCHANGED <<peer, got, phase>>
        /\ stream' = [stream EXCEPT ![c] = Append(@, u)] /\ Wake(c, {"in"})
    BY <1>3 DEF PeerSends
  <2>2. epi'[c].ready \/ epi[c].mask = "none" \/ Flags(c, epi[c].mask)' \subseteq Flags(c, epi[c].mask)
    <3>1. CASE epi[c].mask = "in"
      BY <2>1, <3>1, WakeEffect DEF Structure
    <3>2. CASE epi[c].mask = "out"
      <4>1. epi'[c].mask = "out"
        BY <2>1, <3>2, WakeEffect DEF Structure
      <4> QED BY <2>1, <3>2, <4>1 DEF Flags, Writable
    <3> QED BY <3>1, <3>2 DEF Structure, TypeOK, EpollItem
  <2>3. \A d \in Clients \ {c} : stream'[d] = stream[d]
    BY <2>1 DEF Structure, TypeOK
  <2>4. /\ \A d \in Clients \ {c} : epi'[d] = epi[d]
        /\ epi'[c].ptr = epi[c].ptr /\ epi'[c].mask = epi[c].mask
        /\ epi[c].ready => epi'[c].ready
        /\ epi[c] = Unregistered => epi'[c] = Unregistered
    BY <2>1, WakeEffect DEF Structure
  <2> QED BY <2>1, <2>2, <2>3, <2>4, PeerStructure
<1>4. ASSUME NEW c \in Clients, PeerShutsDown(c) \/ PeerResets(c) PROVE Structure'
  <2>1. /\ UNCHANGED <<loopVars, conn, rd, wire>> /\ UNCHANGED <<stream, got, phase>>
        /\ Wake(c, {"in", "out"})
    BY <1>4 DEF PeerShutsDown, PeerResets
  <2>2. \A d \in Clients \ {c} : peer'[d] = peer[d]
    BY <1>4 DEF PeerShutsDown, PeerResets, Structure, TypeOK
  <2>3. /\ \A d \in Clients \ {c} : epi'[d] = epi[d]
        /\ epi'[c].ptr = epi[c].ptr /\ epi'[c].mask = epi[c].mask
        /\ epi[c].ready => epi'[c].ready
        /\ epi[c] = Unregistered => epi'[c] = Unregistered
        /\ epi[c].mask \in {"in", "out"} => epi'[c].ready
    BY <2>1, WakeEffect DEF Structure
  <2>4. epi[c].mask \in {"none", "in", "out"}
    BY DEF Structure, TypeOK, EpollItem
  <2> QED BY <2>1, <2>2, <2>3, <2>4, PeerStructure
<1>5. ASSUME NEW c \in Clients, PeerReads(c) PROVE Structure'
  <2>1. /\ UNCHANGED <<loopVars, conn, rd, wire>> /\ UNCHANGED <<peer, stream, phase>>
        /\ got' = [got EXCEPT ![c] = @ + 1]
        /\ IF Writable(c) THEN UNCHANGED epi ELSE Wake(c, {"out"})
    BY <1>5 DEF PeerReads
  <2>2. \A d \in Clients \ {c} : got'[d] = got[d]
    BY <2>1 DEF Structure, TypeOK
  <2>3. epi[c].mask \in {"none", "in", "out"}
    BY DEF Structure, TypeOK, EpollItem
  <2>4. CASE Writable(c)
    <3>1. UNCHANGED epi
      BY <2>1, <2>4
    <3>2. Flags(c, epi[c].mask)' \subseteq Flags(c, epi[c].mask)
      BY <2>1, <2>4, <3>1 DEF Flags, Readable
    <3> QED BY <2>1, <2>2, <3>1, <3>2, PeerStructure
  <2>5. CASE ~Writable(c)
    <3>1. /\ \A d \in Clients \ {c} : epi'[d] = epi[d]
          /\ epi'[c].ptr = epi[c].ptr /\ epi'[c].mask = epi[c].mask
          /\ epi[c].ready => epi'[c].ready
          /\ epi[c] = Unregistered => epi'[c] = Unregistered
          /\ epi[c].mask = "out" => epi'[c].ready
      BY <2>1, <2>5, WakeEffect DEF Structure
    <3>2. epi'[c].ready \/ epi[c].mask = "none" \/ Flags(c, epi[c].mask)' \subseteq Flags(c, epi[c].mask)
      <4>1. CASE epi[c].mask = "in"
        BY <2>1, <3>1, <4>1 DEF Flags, Readable
      <4> QED BY <2>3, <3>1, <4>1
    <3> QED BY <2>1, <2>2, <3>1, <3>2, PeerStructure
  <2> QED BY <2>4, <2>5
<1> QED BY <1>1, <1>2, <1>3, <1>4, <1>5 DEF Peer

LEMMA StructureInvariant == Spec => []Structure
<1>1. Init => Structure
  <2> SUFFICES ASSUME Init PROVE Structure
    OBVIOUS
  <2>1. TypeOK
    BY UnusedType, MaxClientsAssumption DEF Init, TypeOK, Unregistered, EpollItem, Event
  <2>2. \A s \in Slots : ~InUse(s)
    BY DEF Init, InUse, Unused
  <2> QED BY <2>1, <2>2, NoneAssumption DEF Init, Structure, SlotOwnership, EpollAgrees, CurrentSlot,
        PendingEvents, NoStaleEvent, NoLostWakeup, InUse
<1>2. Structure /\ TypeOK' /\ [Next]_vars => Structure'
  <2> SUFFICES ASSUME Structure, TypeOK', [Next]_vars PROVE Structure'
    OBVIOUS
  <2>1. CASE Server
    BY <2>1, LoopStructure, AcceptingStructure, IoStructure DEF Server, Io
  <2>2. CASE Signal \/ \E c \in Clients : Peer(c)
    BY <2>2, OutsideStructure
  <2>3. CASE UNCHANGED vars
    <3>1. UNCHANGED <<conn, epi, cur, batch, peer, stream, rd, wire, got, phase, pc>>
      BY <2>3 DEF vars
    <3> QED BY <3>1, DequeueStructure
  <2> QED BY <2>1, <2>2, <2>3 DEF Next
<1> QED BY <1>1, <1>2, TypeCorrect, PTL DEF Spec

\* No two slots share a descriptor, and the descriptors the process owns are
\* those in the table, whatever the peers, the kernel and the signal do.
THEOREM SlotOwnershipHolds == Spec => []SlotOwnership
BY StructureInvariant, PTL DEF Structure

\* No event is ever applied to another connection than it was reported for.
THEOREM NoStaleEventHolds == Spec => []NoStaleEvent
BY StructureInvariant, PTL DEF Structure

\* The registrations in epoll match the table.
THEOREM EpollAgreesHolds == Spec => []EpollAgrees
BY StructureInvariant, PTL DEF Structure

\* Edge-triggered notification loses no connection that can make progress.
THEOREM NoLostWakeupHolds == Spec => []NoLostWakeup
BY StructureInvariant, PTL DEF Structure

-----------------------------------------------------------------------------
(* The conversations.  They rest on Structure: that a slot keeps its         *)
(* connection while it is served is what makes its buffer, response and     *)
(* wire agree.                                                              *)

\* Steps change a stream only by appending to it.
Grows(c) == stream'[c] = stream[c] \/ \E u \in {"x", "t"} : stream'[c] = Append(stream[c], u)

LEMMA GrowsKeeps ==
  ASSUME TypeOK, NEW c \in Clients, Grows(c)
  PROVE  /\ Len(stream[c]) <= Len(stream'[c])
         /\ \A p \in 1 .. Len(stream[c]) : stream'[c][p] = stream[c][p]
<1>1. stream[c] \in Seq({"x", "t"})
  BY DEF TypeOK
<1> QED BY <1>1 DEF Grows

\* A connection on which nothing is read, answered or sent.
LEMMA ClientFrame ==
  ASSUME TypeOK, NEW c \in Clients, ClientTalk(c), Grows(c),
         rd'[c] = rd[c], answers'[c] = answers[c], wire'[c] = wire[c],
         phase'[c] \in {"idle", "queued"} => phase[c] \in {"idle", "queued"}
  PROVE  ClientTalk(c)'
<1>1. rd'[c] <= Len(stream'[c]) /\ rd[c] \in Nat
  BY GrowsKeeps, ClientType DEF ClientTalk
<1>2. \A p \in 1 .. rd[c] : stream'[c][p] = stream[c][p]
  BY GrowsKeeps, ClientType DEF ClientTalk
<1>3. InOrder(c)'
  BY DEF ClientTalk, InOrder, EndsResponse
<1>4. \A i \in 1 .. Len(answers'[c]) :
       /\ answers'[c][i].head \in 1 .. rd'[c] /\ answers'[c][i].len > 0
       /\ stream'[c][answers'[c][i].head] = "t"
       /\ i > 1 => answers'[c][i - 1].head < answers'[c][i].head
  BY <1>2 DEF ClientTalk, IsHead
<1> QED BY <1>1, <1>3, <1>4 DEF ClientTalk, IsHead

\* A slot that is left alone, on such a connection.
LEMMA SlotFrame ==
  ASSUME TypeOK, NEW s \in Slots, NEW c \in Clients, conn[s].fd = c,
         ClientTalk(c), SlotTalk(s, c), Grows(c),
         conn'[s] = conn[s], rd'[c] = rd[c], answers'[c] = answers[c], wire'[c] = wire[c],
         pc = "dispatch" /\ cur = s => pc' = "dispatch" /\ cur' = s
  PROVE  SlotTalk(s, c)'
<1>1. rd[c] <= Len(stream[c]) /\ rd[c] \in Nat /\ conn[s].len <= rd[c] /\ conn[s].len \in Nat
  BY ClientType, SlotType DEF ClientTalk, SlotTalk
<1>2. From(s)' = From(s) /\ From(s) > 0 /\ From(s) \in Nat
  BY <1>1 DEF From
<1>3. CASE conn[s].state = "recv"
  <2>1. \A p \in 1 .. rd[c] : IsHead(c, p)' <=> IsHead(c, p)
    BY <1>1, GrowsKeeps DEF IsHead
  <2>2. HeadersComplete(c, From(s), rd[c])' <=> HeadersComplete(c, From(s), rd[c])
    BY <1>1, <1>2, <2>1 DEF HeadersComplete, IsHead
  <2>3. Receiving(s, c)'
    BY <1>2, <1>3, <2>2 DEF SlotTalk, Receiving, AllSent
  <2> QED BY <1>1, <1>3, <2>3 DEF SlotTalk
<1>4. CASE conn[s].state = "send"
  <2>1. Sending(s, c)'
    BY <1>4 DEF SlotTalk, Sending, EndsWith
  <2> QED BY <1>1, <1>4, <2>1 DEF SlotTalk
<1> QED BY <1>3, <1>4, SlotType

\* A step that reads, answers and sends nothing, and may close connections.
LEMMA QuietTalk ==
  ASSUME Structure, Conversation,
         UNCHANGED <<rd, answers, wire>>, \A c \in Clients : Grows(c),
         \A c \in Clients : phase'[c] \in {"idle", "queued"} => phase[c] \in {"idle", "queued"},
         \A s \in Slots : conn'[s] = conn[s] \/ conn'[s] = Unused,
         pc = "dispatch" => pc' = "dispatch" /\ cur' = cur
  PROVE  Conversation'
<1>1. ASSUME NEW c \in Clients PROVE ClientTalk(c)'
  BY ClientFrame DEF Structure, Conversation
<1>2. ASSUME NEW s \in Slots, NEW c \in Clients, conn'[s].fd = c PROVE SlotTalk(s, c)'
  <2>1. conn'[s] = conn[s]
    BY <1>2, NoneAssumption DEF Unused
  <2> QED BY <1>2, <2>1, SlotFrame DEF Structure, Conversation
<1> QED BY <1>1, <1>2 DEF Conversation

LEMMA QuietSteps ==
  ASSUME Structure, Conversation,
         \/ Loop \/ AcceptEnds \/ Signal
         \/ \E c \in Clients : Refuse(c) \/ Peer(c)
         \/ \E s \in Slots, c \in Clients : RegistrationFails(c, s)
         \/ \E s \in Slots, c \in Clients :
              ReceiveNothing(s, c) \/ ReceiveLater(s, c) \/ IoFails(s, c) \/ TransmitLater(s, c)
         \/ UNCHANGED vars
  PROVE  Conversation'
<1>1. CASE Loop \/ AcceptEnds \/ Signal \/ \E c \in Clients : Refuse(c)
  <2>1. UNCHANGED <<rd, answers, wire, stream>>
    BY <1>1 DEF Loop, Setup, LoopGuard, EpollWait, EpollFails, NextRound, HandleListener,
       HandleHangup, HandleEvent, AcceptEnds, Signal, Refuse, kernelVars
  <2>2. pc # "dispatch" \/ (pc' = pc /\ cur' = cur)
    BY <1>1 DEF Loop, Setup, LoopGuard, EpollWait, EpollFails, NextRound, HandleListener,
       HandleHangup, HandleEvent, AcceptEnds, Signal, Refuse
  <2>3. /\ \A s \in Slots : conn'[s] = conn[s] \/ conn'[s] = Unused
        /\ \A c \in Clients : phase'[c] = phase[c] \/ phase'[c] = "closed"
    <3>1. CASE HandleHangup
      <4>1. PICK e \in batch : CloseConnection(e.ptr)
        BY <3>1 DEF HandleHangup
      <4>2. /\ conn \in [Slots -> Connection]
            /\ phase \in [Clients -> {"idle", "queued", "accepted", "closed"}]
        BY DEF Structure, TypeOK
      <4>3. CASE InUse(e.ptr)
        BY <4>1, <4>2, <4>3 DEF CloseConnection
      <4>4. CASE ~InUse(e.ptr)
        BY <4>1, <4>4 DEF CloseConnection
      <4> QED BY <4>3, <4>4
    <3>2. CASE Signal \/ \E c \in Clients : Refuse(c)
      BY <3>2 DEF Signal, Refuse, Structure, TypeOK
    <3>3. CASE (Loop /\ ~HandleHangup) \/ AcceptEnds
      BY <3>3 DEF Loop, Setup, LoopGuard, EpollWait, EpollFails, NextRound, HandleListener,
         HandleEvent, AcceptEnds, kernelVars
    <3> QED BY <1>1, <3>1, <3>2, <3>3
  <2> QED BY <2>1, <2>2, <2>3, QuietTalk DEF Grows
<1>2. ASSUME NEW c \in Clients, Peer(c) PROVE Conversation'
  <2>1. UNCHANGED <<pc, cur, conn, rd, answers, wire>>
    BY <1>2 DEF Peer, Connect, PeerSends, PeerShutsDown, PeerResets, PeerReads, loopVars
  <2>2. \A d \in Clients : phase'[d] \in {"idle", "queued"} => phase[d] \in {"idle", "queued"}
    BY <1>2 DEF Peer, Connect, PeerSends, PeerShutsDown, PeerResets, PeerReads, Structure, TypeOK
  <2>3. \A d \in Clients : Grows(d)
    BY <1>2, SMTT(40)
      DEF Peer, Connect, PeerSends, PeerShutsDown, PeerResets, PeerReads, Structure, TypeOK, Grows
  <2> QED BY <2>1, <2>2, <2>3, QuietTalk
<1>3. ASSUME NEW s \in Slots, NEW c \in Clients,
             ReceiveNothing(s, c) \/ ReceiveLater(s, c) \/ IoFails(s, c) \/ TransmitLater(s, c)
      PROVE  Conversation'
  <2>1. UNCHANGED <<rd, answers, wire, stream>> /\ pc # "dispatch"
    BY <1>3 DEF ReceiveNothing, ReceiveLater, IoFails, TransmitLater, Serving, kernelVars
  <2>2. CloseConnection(s) \/ UNCHANGED <<conn, phase>>
    BY <1>3 DEF ReceiveNothing, ReceiveLater, IoFails, TransmitLater, kernelVars
  <2>3. /\ \A t \in Slots : conn'[t] = conn[t] \/ conn'[t] = Unused
        /\ \A d \in Clients : phase'[d] = phase[d] \/ phase'[d] = "closed"
    BY <2>2, SMTT(20) DEF CloseConnection, Structure, TypeOK
  <2> QED BY <2>1, <2>3, QuietTalk DEF Grows
<1>4. ASSUME NEW s \in Slots, NEW c \in Clients, RegistrationFails(c, s) PROVE Conversation'
  <2>1. UNCHANGED <<rd, answers, wire, stream>> /\ pc # "dispatch"
    BY <1>4 DEF RegistrationFails
  <2>2. /\ \A t \in Slots : conn'[t] = conn[t] \/ conn'[t] = Unused
        /\ \A d \in Clients : phase'[d] = phase[d] \/ phase'[d] = "closed"
    BY <1>4 DEF RegistrationFails, Structure, TypeOK
  <2> QED BY <2>1, <2>2, QuietTalk DEF Grows
<1>5. CASE UNCHANGED vars
  BY <1>5, QuietTalk DEF vars, Grows
<1> QED BY <1>1, <1>2, <1>3, <1>4, <1>5

\* A step on one connection, by the slot that holds it.
LEMMA OwnStep ==
  ASSUME Structure, SlotOwnership', Conversation,
         NEW s \in Slots, NEW c \in Clients, conn'[s].fd = c,
         ClientTalk(c)', SlotTalk(s, c)',
         UNCHANGED stream,
         \A d \in Clients \ {c} : /\ rd'[d] = rd[d] /\ answers'[d] = answers[d]
                                  /\ wire'[d] = wire[d] /\ phase'[d] = phase[d],
         \A t \in Slots \ {s} : conn'[t] = conn[t],
         pc = "dispatch" => cur = s
  PROVE  Conversation'
<1>1. ASSUME NEW d \in Clients PROVE ClientTalk(d)'
  <2>1. CASE d # c
    BY <2>1, ClientFrame DEF Structure, Conversation, Grows
  <2> QED BY <2>1
<1>2. ASSUME NEW t \in Slots, NEW d \in Clients, conn'[t].fd = d PROVE SlotTalk(t, d)'
  <2>1. CASE t # s
    <3>1. d # c
      BY <1>2, <2>1, NoneAssumption DEF SlotOwnership, InUse
    <3>2. ~(pc = "dispatch" /\ cur = t)
      BY <2>1
    <3> QED BY <1>2, <2>1, <3>1, <3>2, SlotFrame DEF Structure, Conversation, Grows
  <2>2. CASE t = s
    BY <1>2, <2>2
  <2> QED BY <2>1, <2>2
<1> QED BY <1>1, <1>2 DEF Conversation

LEMMA AdmitTalk ==
  ASSUME Structure, Structure', Conversation, NEW s \in Slots, NEW c \in Clients, Admit(c, s)
  PROVE  Conversation'
<1>1. /\ UNCHANGED <<rd, answers, wire, stream>> /\ pc = "accept" /\ pc' = pc
      /\ phase[c] = "queued" /\ phase'[c] = "accepted"
      /\ conn'[s] = Fresh(c)
      /\ \A t \in Slots \ {s} : conn'[t] = conn[t]
      /\ \A d \in Clients \ {c} : phase'[d] = phase[d]
  BY DEF Admit, Structure, TypeOK
<1>2. rd[c] = 0 /\ answers[c] = <<>> /\ wire[c] = <<>>
  BY <1>1 DEF Conversation, ClientTalk
<1>3. /\ conn'[s].fd = c /\ conn'[s].state = "recv" /\ conn'[s].len = 0
  BY <1>1 DEF Fresh, Unused
<1>4. ClientTalk(c)'
  BY <1>1, ClientFrame DEF Structure, Conversation, Grows
<1>5. SlotTalk(s, c)'
  <2>1. From(s)' = 1
    BY <1>1, <1>2, <1>3 DEF From
  <2>2. ~HeadersComplete(c, From(s), rd[c])'
    BY <1>1, <1>2, <2>1 DEF HeadersComplete
  <2>3. Receiving(s, c)'
    BY <1>1, <1>2, <2>1, <2>2 DEF Receiving, AllSent
  <2> QED BY <1>1, <1>2, <1>3, <2>3 DEF SlotTalk
<1> QED BY <1>1, <1>3, <1>4, <1>5, OwnStep DEF Structure

LEMMA ReceiveTalk ==
  ASSUME Structure, Structure', Conversation, NEW s \in Slots, NEW c \in Clients, Receive(s, c)
  PROVE  Conversation'
<1> DEFINE room == Room(s)
           n == IF Unread(c) <= room THEN Unread(c) ELSE room
<1>1. /\ n \in Nat /\ rd[c] + n <= Len(stream[c]) /\ rd[c] \in Nat
      /\ conn[s].len \in Nat /\ conn[s].len + n <= BufCap
      /\ ~(conn[s].len + n > RequestLimit)
  BY ReceiveAmount, SlotType, ClientType DEF Structure
<1>2. /\ UNCHANGED <<answers, wire, stream, phase>> /\ cur = s /\ cur' = s /\ pc = "read"
      /\ rd' = [rd EXCEPT ![c] = @ + n]
      /\ conn' = [conn EXCEPT ![s].len = @ + n]
      /\ pc' = IF HeadersComplete(c, From(s), rd[c] + n) THEN "dispatch" ELSE "read"
      /\ conn[s].fd = c
  BY <1>1 DEF Receive, Serving, AfterReceive
<1>3. /\ rd'[c] = rd[c] + n
      /\ \A d \in Clients \ {c} : rd'[d] = rd[d]
      /\ conn'[s] = [conn[s] EXCEPT !.len = @ + n]
      /\ \A t \in Slots \ {s} : conn'[t] = conn[t]
  BY <1>2 DEF Structure, TypeOK
<1>4. /\ conn'[s].fd = c /\ conn'[s].len = conn[s].len + n
      /\ conn[s].state = "recv" /\ conn'[s].state = "recv"
  BY <1>2, <1>3, SlotType DEF Structure, Connection, CurrentSlot
<1>5. ClientTalk(c) /\ SlotTalk(s, c)
  BY <1>2 DEF Conversation
<1>6. From(s)' = From(s) /\ From(s) \in Nat
  BY <1>1, <1>2, <1>3, <1>4, <1>5, SMTT(30) DEF From, SlotTalk
<1>7. ClientTalk(c)'
  <2>1. \A i \in 1 .. Len(answers[c]) : answers[c][i].head \in 1 .. rd[c] + n
    BY <1>1, <1>5 DEF ClientTalk
  <2>2. InOrder(c)'
    BY <1>2, <1>5, SMTT(30) DEF ClientTalk, InOrder, EndsResponse
  <2>3. phase[c] = "accepted"
    BY <1>2 DEF Structure, SlotOwnership
  <2> QED BY <1>1, <1>2, <1>3, <1>5, <2>1, <2>2, <2>3 DEF ClientTalk, IsHead
<1>8. SlotTalk(s, c)'
  <2>1. conn'[s].len <= rd'[c]
    BY <1>1, <1>3, <1>4, <1>5 DEF SlotTalk
  <2>2. HeadersComplete(c, From(s), rd[c])' <=> HeadersComplete(c, From(s), rd[c] + n)
    BY <1>2, <1>3, <1>6 DEF HeadersComplete, IsHead
  <2>3. Receiving(s, c)'
    BY <1>2, <1>4, <1>5, <1>6, <2>2 DEF SlotTalk, Receiving, AllSent
  <2> QED BY <1>4, <2>1, <2>3 DEF SlotTalk
<1> QED BY <1>2, <1>3, <1>4, <1>7, <1>8, OwnStep DEF Structure

LEMMA DispatchTalk ==
  ASSUME Structure, Structure', Conversation, NEW s \in Slots, NEW c \in Clients, Dispatch(s, c)
  PROVE  Conversation'
<1> DEFINE k == Len(answers[c]) + 1
<1>1. /\ UNCHANGED <<rd, wire, stream, phase>> /\ cur = s /\ conn[s].fd = c
      /\ pc = "dispatch" /\ pc' = "batch"
  BY DEF Dispatch, Serving, Return, kernelVars
<1>2. PICK p \in 1 .. rd[c], n \in RespLens :
        /\ IsRequest(s, p)
        /\ answers' = [answers EXCEPT ![c] = Append(@, [head |-> p, len |-> n])]
        /\ conn' = [conn EXCEPT ![s] = Responding(@, k, n)]
  BY DEF Dispatch
<1>3. /\ n \in Nat /\ n > 0 /\ rd[c] \in Nat /\ p \in Nat
      /\ conn[s].state = "recv" /\ k \in Nat /\ k > 0
  BY <1>1, RespLensAssumption, ClientType DEF Structure, CurrentSlot
<1>4. /\ answers[c] \in Seq([head : Nat, len : Nat])
      /\ answers'[c] = Append(answers[c], [head |-> p, len |-> n])
      /\ \A d \in Clients \ {c} : answers'[d] = answers[d]
      /\ conn'[s] = Responding(conn[s], k, n)
      /\ \A t \in Slots \ {s} : conn'[t] = conn[t]
  BY <1>2 DEF Structure, TypeOK
<1>5. /\ Len(answers'[c]) = k /\ answers'[c][k].head = p /\ answers'[c][k].len = n
      /\ \A i \in 1 .. k - 1 : answers'[c][i] = answers[c][i]
  BY <1>3, <1>4
<1>6. /\ conn'[s].fd = c /\ conn'[s].state = "send" /\ conn'[s].id = k
      /\ conn'[s].rlen = n /\ conn'[s].sent = 0 /\ conn'[s].len = conn[s].len
  <2>1. conn[s] \in Connection
    BY SlotType DEF Structure
  <2> QED BY <1>1, <1>4, <2>1 DEF Responding, Connection
<1>7. ClientTalk(c) /\ SlotTalk(s, c) /\ Receiving(s, c) /\ conn[s].len <= rd[c]
  BY <1>1, <1>3 DEF Conversation, SlotTalk
<1>8. From(s) \in Nat
  BY <1>1, <1>3, <1>7, SlotType DEF From, Structure
<1>9. /\ IsHead(c, p) /\ p >= From(s) /\ p <= rd[c]
  BY <1>1, <1>2, <1>3, <1>8 DEF IsRequest
<1>10. ClientTalk(c)'
  <2>1. ASSUME NEW i \in 1 .. k
        PROVE  /\ answers'[c][i].head \in 1 .. rd[c] /\ answers'[c][i].len > 0
               /\ IsHead(c, answers'[c][i].head)
               /\ i > 1 => answers'[c][i - 1].head < answers'[c][i].head
    <3>1. CASE i = k
      <4>1. k > 1 => answers'[c][k - 1].head < From(s) /\ answers'[c][k - 1].head \in Nat
        BY <1>3, <1>5, <1>7, SMTT(20) DEF Receiving, ClientTalk
      <4> QED BY <1>3, <1>5, <1>8, <1>9, <3>1, <4>1, SMTT(20)
    <3>2. CASE i # k
      <4>1. i \in 1 .. Len(answers[c]) /\ answers'[c][i] = answers[c][i]
            /\ (i > 1 => answers'[c][i - 1] = answers[c][i - 1])
        BY <1>3, <1>5, <3>2, SMTT(20)
      <4> QED BY <1>7, <4>1 DEF ClientTalk
    <3> QED BY <3>1, <3>2
  <2>2. InOrder(c)'
    <3>1. ASSUME NEW u, EndsResponse(c, u)
          PROVE  u[1] \in 1 .. Len(answers'[c]) /\ u[2] = answers'[c][u[1]].len
      BY <1>3, <1>5, <3>1 DEF EndsResponse
    <3>2. InOrder(c)
      BY <1>7 DEF ClientTalk
    <3>3. wire' = wire
      BY <1>1
    <3> QED BY <3>1, <3>2, <3>3 DEF InOrder, EndsResponse
  <2>3. phase[c] = "accepted"
    BY <1>1 DEF Structure, SlotOwnership
  <2> QED BY <1>1, <1>5, <1>7, <2>1, <2>2, <2>3 DEF ClientTalk, IsHead
<1>11. SlotTalk(s, c)'
  <2>1. k = 1 => wire[c] = <<>>
    BY <1>3, <1>4, <1>7 DEF Receiving, AllSent
  <2>2. k > 1 => wire[c] # <<>> /\ wire[c][Len(wire[c])] = <<k - 1, answers[c][k - 1].len>>
    BY <1>3, <1>4, <1>7 DEF Receiving, AllSent
  <2>3. Sending(s, c)'
    BY <1>1, <1>3, <1>5, <1>6, <2>1, <2>2, SMTT(20) DEF Sending, EndsWith
  <2> QED BY <1>1, <1>6, <1>7, <2>3 DEF SlotTalk
<1> QED BY <1>1, <1>4, <1>6, <1>10, <1>11, OwnStep DEF Structure

LEMMA TransmitTalk ==
  ASSUME Structure, Structure', Conversation, NEW s \in Slots, NEW c \in Clients, Transmit(s, c)
  PROVE  Conversation'
<1> DEFINE k == Len(answers[c])
           m == Len(wire[c])
           u == <<conn[s].id, conn[s].sent + 1>>
<1>1. /\ UNCHANGED <<rd, answers, stream, phase>> /\ cur = s /\ conn[s].fd = c
      /\ pc = "write" /\ pc' = pc /\ conn[s].state = "send" /\ ~Sent(s)
      /\ wire' = [wire EXCEPT ![c] = Append(@, u)]
      /\ conn' = [conn EXCEPT ![s].sent = @ + 1]
  BY DEF Transmit, Serving, loopVars, Structure, CurrentSlot
<1>2. /\ wire[c] \in Seq(Nat \X Nat) /\ m \in Nat /\ k \in Nat
      /\ wire'[c] = Append(wire[c], u)
      /\ \A d \in Clients \ {c} : wire'[d] = wire[d]
      /\ conn'[s] = [conn[s] EXCEPT !.sent = @ + 1]
      /\ \A t \in Slots \ {s} : conn'[t] = conn[t]
  BY <1>1, ClientType DEF Structure, TypeOK
<1>3. /\ conn'[s].fd = c /\ conn'[s].state = "send" /\ conn'[s].id = conn[s].id
      /\ conn'[s].rlen = conn[s].rlen /\ conn'[s].sent = conn[s].sent + 1
      /\ conn'[s].len = conn[s].len
      /\ conn[s].sent \in Nat /\ conn[s].rlen \in Nat
  <2>1. conn[s] \in Connection
    BY SlotType DEF Structure
  <2> QED BY <1>1, <1>2, <2>1 DEF Connection
<1>4. ClientTalk(c) /\ SlotTalk(s, c) /\ Sending(s, c)
  BY <1>1 DEF Conversation, SlotTalk
<1>5. conn[s].sent + 1 <= conn[s].rlen /\ conn[s].id = k /\ k > 0
  BY <1>1, <1>3, <1>4 DEF Sent, Sending
<1>6. /\ m \in Nat /\ Len(wire'[c]) = m + 1 /\ wire'[c][m + 1] = u
      /\ \A i \in 1 .. m : wire'[c][i] = wire[c][i]
      /\ wire[c] = <<>> <=> m = 0
  BY <1>2
<1>7. InOrder(c)'
  <2>a. answers' = answers /\ Len(wire'[c]) = m + 1
    BY <1>1, <1>6
  <2> SUFFICES ASSUME NEW i \in 1 .. m + 1
               PROVE  LET v == wire'[c][i]
                      IN  \/ v = <<1, 1>> /\ i = 1
                          \/ i > 1 /\ v[2] > 1 /\ wire'[c][i - 1] = <<v[1], v[2] - 1>>
                          \/ i > 1 /\ v[2] = 1 /\ wire'[c][i - 1][1] = v[1] - 1
                               /\ EndsResponse(c, wire'[c][i - 1])
    <3> HIDE DEF m, k, u
    <3> QED BY <2>a DEF InOrder, EndsResponse
  <2>1. CASE i # m + 1
    <3>1. i \in 1 .. m /\ (i > 1 => i - 1 \in 1 .. m)
      <4> HIDE DEF m
      <4> QED BY <1>6, <2>1
    <3>2. wire'[c][i] = wire[c][i] /\ (i > 1 => wire'[c][i - 1] = wire[c][i - 1])
      BY <1>6, <3>1
    <3> QED BY <1>4, <3>1, <3>2 DEF ClientTalk, InOrder
  <2>2. CASE i = m + 1
    <3>1. wire'[c][i] = u /\ u[1] = k /\ u[2] = conn[s].sent + 1
      BY <1>5, <1>6, <2>2
    <3>2. m > 0 => wire'[c][i - 1] = wire[c][m]
      BY <1>6, <2>2
    <3>3. CASE conn[s].sent > 0
      <4>1. m > 0 /\ wire[c][m] = <<k, conn[s].sent>>
        BY <1>2, <1>4, <1>6, <3>3, SMTT(20) DEF Sending, EndsWith
      <4> QED BY <1>2, <1>3, <2>2, <3>1, <3>2, <3>3, <4>1, SMTT(20)
    <3>4. CASE conn[s].sent = 0 /\ k = 1
      <4>1. m = 0
        BY <1>4, <1>6, <3>4 DEF Sending
      <4> QED BY <1>5, <2>2, <3>1, <3>4, <4>1
    <3>5. CASE conn[s].sent = 0 /\ k > 1
      <4>1. m > 0 /\ wire[c][m] = <<k - 1, answers[c][k - 1].len>>
        BY <1>2, <1>4, <1>6, <3>5, SMTT(20) DEF Sending, EndsWith
      <4>2. EndsResponse(c, wire[c][m])
        BY <1>2, <3>5, <4>1 DEF EndsResponse
      <4>3. i > 1 /\ wire'[c][i - 1] = wire[c][m]
        BY <1>6, <2>2, <3>2, <4>1
      <4>4. wire'[c][i][2] = 1 /\ wire'[c][i - 1][1] = wire'[c][i][1] - 1
        BY <3>1, <3>5, <4>1, <4>3
      <4> QED BY <4>2, <4>3, <4>4
    <3>6. conn[s].sent \in Nat /\ k \in Nat /\ k > 0
      BY <1>2, <1>3, <1>5
    <3>7. \/ conn[s].sent > 0
          \/ conn[s].sent = 0 /\ k = 1
          \/ conn[s].sent = 0 /\ k > 1
      <4> HIDE DEF k
      <4> QED BY <3>6
    <3> QED BY <3>3, <3>4, <3>5, <3>7
  <2> QED BY <2>1, <2>2
<1>8. phase[c] = "accepted"
  BY <1>1 DEF Structure, SlotOwnership
<1>9. ClientTalk(c)'
  BY <1>1, <1>4, <1>7, <1>8 DEF ClientTalk, IsHead
<1>10. SlotTalk(s, c)'
  <2>1. wire'[c] # <<>> /\ wire'[c][Len(wire'[c])] = <<k, conn'[s].sent>>
    <3>1. wire'[c] # <<>>
      <4>1. Len(wire'[c]) # 0
        <5> HIDE DEF m
        <5> QED BY <1>6
      <4> QED BY <4>1
    <3>2. u = <<k, conn'[s].sent>>
      BY <1>3, <1>5
    <3> QED BY <1>6, <3>1, <3>2
  <2>2. Sending(s, c)'
    BY <1>1, <1>3, <1>4, <1>5, <2>1 DEF Sending, EndsWith
  <2> QED BY <1>1, <1>3, <1>4, <2>2 DEF SlotTalk
<1> QED BY <1>1, <1>2, <1>3, <1>9, <1>10, OwnStep DEF Structure

LEMMA TransmitEndsTalk ==
  ASSUME Structure, Structure', Conversation,
         NEW s \in Slots, NEW c \in Clients, TransmitEnds(s, c)
  PROVE  Conversation'
<1> DEFINE k == Len(answers[c])
<1>1. /\ UNCHANGED <<rd, answers, stream, phase, wire>> /\ cur = s /\ conn[s].fd = c
      /\ pc = "write" /\ pc' = "batch" /\ conn[s].state = "send" /\ Sent(s)
      /\ conn' = [conn EXCEPT ![s] = Rearmed(@)]
  BY DEF TransmitEnds, Serving, kernelVars, Return, Structure, CurrentSlot
<1>2. /\ conn'[s] = Rearmed(conn[s])
      /\ \A t \in Slots \ {s} : conn'[t] = conn[t]
  BY <1>1 DEF Structure, TypeOK
<1>3. conn'[s].fd = c /\ conn'[s].state = "recv" /\ conn'[s].len = 0
  <2>1. conn[s] \in Connection
    BY SlotType DEF Structure
  <2>2. /\ Rearmed(conn[s]).fd = conn[s].fd /\ Rearmed(conn[s]).state = "recv"
        /\ Rearmed(conn[s]).len = 0
    BY <2>1 DEF Rearmed, Connection
  <2> QED BY <1>1, <1>2, <2>2
<1>4. ClientTalk(c) /\ Sending(s, c)
  BY <1>1 DEF Conversation, SlotTalk
<1>5. ClientTalk(c)'
  BY <1>1, <1>4, ClientFrame DEF Structure, Grows
<1>6. rd[c] \in Nat /\ k \in Nat /\ k > 0
  BY <1>4, ClientType DEF Structure, Sending
<1>7. From(s)' = rd[c] + 1
  BY <1>1, <1>3, <1>6 DEF From
<1>8. Receiving(s, c)'
  <2>1. ~HeadersComplete(c, From(s), rd[c])'
    BY <1>1, <1>6, <1>7 DEF HeadersComplete
  <2>2. \A i \in 1 .. k : answers[c][i].head < rd[c] + 1
    BY <1>4, <1>6 DEF ClientTalk
  <2>3. answers[c] # <<>> /\ answers[c][k].len > 0
    BY <1>4, <1>6 DEF ClientTalk
  <2>4. conn[s].sent = answers[c][k].len /\ conn[s].sent > 0
    BY <1>1, <1>4, <2>3, SlotType DEF Sending, Sent, Structure
  <2>5. AllSent(c)
    BY <1>4, <2>3, <2>4 DEF Sending, EndsWith, AllSent
  <2> QED BY <1>1, <1>7, <2>1, <2>2, <2>5 DEF Receiving, AllSent
<1>9. SlotTalk(s, c)'
  BY <1>1, <1>3, <1>6, <1>8 DEF SlotTalk
<1> QED BY <1>1, <1>2, <1>3, <1>5, <1>9, OwnStep DEF Structure

LEMMA ConversationInvariant == Spec => []Conversation
<1>1. Init => Conversation
  BY NoneAssumption DEF Init, Conversation, ClientTalk, InOrder, Unused
<1>2. Structure /\ Structure' /\ Conversation /\ [Next]_vars => Conversation'
  <2> SUFFICES ASSUME Structure, Structure', Conversation, [Next]_vars PROVE Conversation'
    OBVIOUS
  <2>1. CASE Loop \/ Accepting
    BY <2>1, QuietSteps, AdmitTalk DEF Accepting
  <2>2. CASE Io
    BY <2>2, QuietSteps, ReceiveTalk, DispatchTalk, TransmitTalk, TransmitEndsTalk DEF Io
  <2>3. CASE Signal \/ (\E c \in Clients : Peer(c)) \/ UNCHANGED vars
    BY <2>3, QuietSteps
  <2> QED BY <2>1, <2>2, <2>3 DEF Next, Server
<1> QED BY <1>1, <1>2, StructureInvariant, PTL DEF Spec

\* A connection that waits for input never has a whole request in its buffer.
THEOREM NoForgottenRequestHolds == Spec => []NoForgottenRequest
<1>1. Structure /\ Conversation => NoForgottenRequest
  <2> SUFFICES ASSUME Structure, Conversation, NEW s \in Slots, InUse(s),
                      conn[s].state = "recv", ~(pc = "dispatch" /\ cur = s)
               PROVE  ~HeadersComplete(conn[s].fd, From(s), rd[conn[s].fd])
    BY DEF NoForgottenRequest
  <2>1. conn[s].fd \in Clients
    BY SlotType DEF Structure, InUse
  <2> QED BY <2>1 DEF Conversation, SlotTalk, Receiving
<1> QED BY <1>1, StructureInvariant, ConversationInvariant, PTL

\* No request is answered twice, none is invented, and answers keep the order
\* of the requests.
THEOREM AnswersDistinctHeadsHolds == Spec => []AnswersDistinctHeads
<1>1. Structure /\ Conversation => AnswersDistinctHeads
  <2> SUFFICES ASSUME Structure, Conversation, NEW c \in Clients, NEW i \in 1 .. Len(answers[c])
               PROVE  /\ answers[c][i].head \in 1 .. Len(stream[c])
                      /\ IsHead(c, answers[c][i].head)
                      /\ i > 1 => answers[c][i - 1].head < answers[c][i].head
    BY DEF AnswersDistinctHeads
  <2>1. ClientTalk(c)
    BY DEF Conversation
  <2>2. rd[c] \in Nat /\ Len(stream[c]) \in Nat
    BY ClientType DEF Structure
  <2> QED BY <2>1, <2>2 DEF ClientTalk
<1> QED BY <1>1, StructureInvariant, ConversationInvariant, PTL

\* The bytes on a connection are the responses in order, whole but for the last.
THEOREM ResponsesInOrderHolds == Spec => []ResponsesInOrder
<1>1. Structure /\ Conversation => ResponsesInOrder
  BY SlotType DEF Structure, Conversation, ResponsesInOrder, ClientTalk, SlotTalk, Receiving, InUse
<1> QED BY <1>1, StructureInvariant, ConversationInvariant, PTL
-----------------------------------------------------------------------------
(* What a step may never do.                                               *)

LEMMA HangupsInvariant == Spec => []HangupsAreResets
<1>1. Init => HangupsAreResets
  BY DEF Init, HangupsAreResets
<1>2. TypeOK /\ HangupsAreResets /\ [Next]_vars => HangupsAreResets'
  <2> SUFFICES ASSUME TypeOK, HangupsAreResets, [Next]_vars PROVE HangupsAreResets'
    OBVIOUS
  <2>1. \A c \in Clients : peer[c] = "rst" => peer'[c] = "rst"
    <3>1. \/ peer' = peer
          \/ \E c \in Clients : peer[c] # "rst" /\ \E v : peer' = [peer EXCEPT ![c] = v]
      BY DEF Next, Server, Loop, Accepting, Io, Peer, Setup, LoopGuard, EpollWait, EpollFails,
         NextRound, HandleListener, HandleHangup, HandleEvent, AcceptEnds, Refuse, RegistrationFails, Admit,
         Receive, ReceiveNothing, ReceiveLater, IoFails, Dispatch, Transmit, TransmitLater,
         TransmitEnds, Signal, Connect, PeerSends, PeerShutsDown, PeerResets, PeerReads,
         kernelVars, vars
    <3> QED BY <3>1 DEF TypeOK
  <2>2. CASE batch' \subseteq batch
    BY <2>1, <2>2 DEF HangupsAreResets
  <2>3. CASE EpollWait
    <3>1. batch' \subseteq ReadyEvents \cup ListenerEvent /\ peer' = peer
      BY <2>3 DEF EpollWait, kernelVars
    <3>2. \A e \in ReadyEvents : "hup" \in e.flags => e.fd \in Clients /\ peer[e.fd] = "rst"
      BY DEF ReadyEvents, Flags
    <3>3. \A e \in ListenerEvent : "hup" \notin e.flags
      BY DEF ListenerEvent
    <3> QED BY <3>1, <3>2, <3>3 DEF HangupsAreResets
  <2>4. batch' \subseteq batch \/ EpollWait
    BY DEF Next, Server, Loop, Accepting, Io, Peer, Setup, LoopGuard, EpollFails,
       NextRound, HandleListener, HandleHangup, HandleEvent, AcceptEnds, Refuse, RegistrationFails, Admit,
       Receive, ReceiveNothing, ReceiveLater, IoFails, Dispatch, Transmit, TransmitLater,
       TransmitEnds, Signal, Connect, PeerSends, PeerShutsDown, PeerResets, PeerReads,
       loopVars, vars
  <2> QED BY <2>2, <2>3, <2>4
<1> QED BY <1>1, <1>2, TypeCorrect, PTL DEF Spec

\* The only steps that end an admitted connection.
LEMMA DropCauses ==
  ASSUME Structure, HangupsAreResets, Next, NEW s \in Slots, NEW c \in Clients,
         conn[s].fd = c, Drops(c)
  PROVE  \/ peer[c] = "rst"
         \/ ReceiveNothing(s, c)
<1>1. phase' # phase /\ phase[c] # phase'[c] /\ phase[c] = "accepted"
  BY DEF Drops
<1>2. \/ HandleHangup
      \/ \E t \in Slots, d \in Clients : ReceiveNothing(t, d) \/ IoFails(t, d)
  <2>1. ~(Setup \/ LoopGuard \/ EpollWait \/ EpollFails \/ NextRound \/ HandleListener
           \/ HandleEvent \/ AcceptEnds)
    BY <1>1 DEF Setup, LoopGuard, EpollWait, EpollFails, NextRound, HandleListener,
       HandleEvent, AcceptEnds, kernelVars
  <2>2. ~Signal /\ ~ \E d \in Clients : Peer(d) \/ Refuse(d)
                                       \/ \E t \in Slots : Admit(d, t) \/ RegistrationFails(d, t)
    BY <1>1 DEF Signal, Peer, Connect, PeerSends, PeerShutsDown, PeerResets, PeerReads,
       Refuse, RegistrationFails, Admit, Drops, Structure, TypeOK
  <2>3. ASSUME NEW t \in Slots, NEW d \in Clients
        PROVE  ~(ReceiveLater(t, d) \/ Dispatch(t, d) \/ Transmit(t, d)
                  \/ TransmitLater(t, d) \/ TransmitEnds(t, d))
    BY <1>1 DEF ReceiveLater, Dispatch, Transmit, TransmitLater, TransmitEnds, kernelVars
  <2>4. ASSUME NEW t \in Slots, NEW d \in Clients, Receive(t, d) PROVE FALSE
    <3> DEFINE room == Room(t)
               n == IF Unread(d) <= room THEN Unread(d) ELSE room
    <3>1. n > 0
      BY <2>4 DEF Receive
    <3>2. ~(conn[t].len + n > RequestLimit)
      BY <3>1, SlotType, ClientType, BufCapAssumption, RequestLimitAssumption
         DEF Structure, Unread
    <3> QED BY <1>1, <2>4, <3>2 DEF Receive
  <2> QED BY <2>1, <2>2, <2>3, <2>4 DEF Next, Server, Loop, Accepting, Io
<1>3. ASSUME NEW t \in Slots, InUse(t), CloseConnection(t) PROVE t = s /\ conn[t].fd = c
  <2>1. phase' = [phase EXCEPT ![conn[t].fd] = "closed"]
    BY <1>3 DEF CloseConnection
  <2>2. conn[t].fd = c
    BY <1>1, <2>1 DEF Structure, TypeOK
  <2> QED BY <1>3, <2>2 DEF Structure, SlotOwnership
<1>4. CASE HandleHangup
  <2>1. PICK e \in batch : e.ptr # Listener /\ "hup" \in e.flags /\ CloseConnection(e.ptr)
    BY <1>4 DEF HandleHangup
  <2> QED BY <1>3, <2>1, EventSlot DEF HangupsAreResets
<1>5. ASSUME NEW t \in Slots, NEW d \in Clients, ReceiveNothing(t, d) \/ IoFails(t, d)
      PROVE  peer[c] = "rst" \/ ReceiveNothing(s, c)
  <2>1. conn[t].fd = d /\ CloseConnection(t)
    BY <1>5 DEF ReceiveNothing, IoFails, Serving
  <2>2. t = s /\ d = c
    BY <1>3, <2>1, NoneAssumption DEF InUse
  <2> QED BY <1>5, <2>2 DEF IoFails
<1> QED BY <1>2, <1>4, <1>5

\* The server truncates no response: it closes a connection it is sending on
\* only after a reset.
THEOREM NoTruncatedResponseHolds == Spec => NoTruncatedResponse
<1> DEFINE A == \A s \in Slots, c \in Clients :
                  conn[s].fd = c /\ conn[s].state = "send" /\ Drops(c) => peer[c] = "rst"
<1>1. Structure /\ HangupsAreResets /\ [Next]_vars => [A]_vars
  <2> SUFFICES ASSUME Structure, HangupsAreResets, Next, NEW s \in Slots, NEW c \in Clients,
                      conn[s].fd = c, conn[s].state = "send", Drops(c)
               PROVE  peer[c] = "rst"
    OBVIOUS
  <2>1. ~ReceiveNothing(s, c)
    BY DEF ReceiveNothing, Serving, Structure, CurrentSlot
  <2> QED BY <2>1, DropCauses
<1> QED BY <1>1, StructureInvariant, HangupsInvariant, PTL DEF Spec, NoTruncatedResponse

\* A receiving connection is closed only after a reset, at the end of the
\* stream, or with a full buffer that holds no complete request.
THEOREM DropsOnlyForCauseHolds == Spec => DropsOnlyForCause
<1> DEFINE A == \A s \in Slots, c \in Clients :
                  conn[s].fd = c /\ conn[s].state = "recv" /\ Drops(c) =>
                    \/ peer[c] = "rst"
                    \/ peer[c] = "fin" /\ Unread(c) = 0
                    \/ /\ Unread(c) > 0 /\ conn[s].len = BufCap
                       /\ ~HeadersComplete(c, From(s), rd[c])
<1>1. Structure /\ HangupsAreResets /\ Conversation /\ [Next]_vars => [A]_vars
  <2> SUFFICES ASSUME Structure, HangupsAreResets, Conversation, Next,
                      NEW s \in Slots, NEW c \in Clients,
                      conn[s].fd = c, conn[s].state = "recv", Drops(c)
               PROVE  \/ peer[c] = "rst"
                      \/ peer[c] = "fin" /\ Unread(c) = 0
                      \/ /\ Unread(c) > 0 /\ conn[s].len = BufCap
                         /\ ~HeadersComplete(c, From(s), rd[c])
    OBVIOUS
  <2>1. CASE ReceiveNothing(s, c)
    <3>1. ~HeadersComplete(c, From(s), rd[c])
      BY <2>1 DEF ReceiveNothing, Serving, Conversation, SlotTalk, Receiving
    <3>2. Room(s) = 0 => conn[s].len = BufCap
      BY SlotType, BufCapAssumption DEF Structure
    <3> QED BY <2>1, <3>1, <3>2 DEF ReceiveNothing
  <2> QED BY <2>1, DropCauses
<1> QED BY <1>1, StructureInvariant, HangupsInvariant, ConversationInvariant, PTL
      DEF Spec, DropsOnlyForCause
-----------------------------------------------------------------------------
(* The refinement: under the identity on phase, stream, answers and wire     *)
(* every step of the loop, of its kernel and of its peers is a step of the  *)
(* service or changes none of them.                                         *)

\* With a free slot, fewer connections are admitted than there are slots.
LEMMA FreeSlotMeansCapacity ==
  ASSUME Structure, NEW s \in Slots, ~InUse(s)
  PROVE  Cardinality(Service!Admitted) < MaxClients
<1> DEFINE D == { t \in Slots : InUse(t) }
           f == [t \in D |-> conn[t].fd]
<1>1. f \in Surjection(D, Service!Admitted)
  <2>1. \A t \in D : conn[t].fd \in Service!Admitted
    BY SlotType DEF Structure, SlotOwnership, InUse, Service!Admitted
  <2>2. \A c \in Service!Admitted : \E t \in D : conn[t].fd = c
    BY NoneAssumption DEF Structure, SlotOwnership, InUse, Service!Admitted
  <2> QED BY <2>1, <2>2 DEF Surjection
<1>2. IsFiniteSet(Slots) /\ Cardinality(Slots) = MaxClients
  BY FS_Interval, MaxClientsAssumption DEF Slots
<1>3. IsFiniteSet(Slots \ {s}) /\ Cardinality(Slots \ {s}) = MaxClients - 1
  BY <1>2, FS_RemoveElement
<1>4. IsFiniteSet(D) /\ Cardinality(D) <= MaxClients - 1
  <2>1. D \in SUBSET (Slots \ {s})
    OBVIOUS
  <2> HIDE DEF D
  <2> QED BY <1>3, <2>1, FS_Subset
<1>5. /\ IsFiniteSet(Service!Admitted)
      /\ Cardinality(Service!Admitted) <= Cardinality(D)
  <2> HIDE DEF D, f
  <2> QED BY <1>1, <1>4, FS_Surjection
<1>6. Cardinality(D) \in Nat /\ Cardinality(Service!Admitted) \in Nat
  <2> HIDE DEF D
  <2> QED BY <1>4, <1>5, FS_CardinalityType
<1> QED BY <1>4, <1>5, <1>6, MaxClientsAssumption

\* A step that only closes one connection ends it in the service.
LEMMA CloseEnds ==
  ASSUME Structure, NEW s \in Slots, InUse(s), CloseConnection(s),
         UNCHANGED <<stream, answers, wire>>
  PROVE  Service!Next
<1> DEFINE c == conn[s].fd
<1>1. c \in Clients /\ phase[c] = "accepted" /\ phase' = [phase EXCEPT ![c] = "closed"]
  BY SlotType DEF Structure, SlotOwnership, InUse, CloseConnection
<1>2. Service!End(c)
  BY <1>1 DEF Service!End
<1> QED BY <1>1, <1>2 DEF Service!Next

LEMMA LoopImplements ==
  ASSUME Structure, Loop \/ AcceptEnds
  PROVE  Service!Next \/ UNCHANGED <<phase, stream, answers, wire>>
<1>1. CASE HandleHangup
  <2>1. PICK e \in batch : e.ptr # Listener /\ CloseConnection(e.ptr)
    BY <1>1 DEF HandleHangup
  <2> QED BY <1>1, <2>1, EventSlot, CloseEnds DEF HandleHangup
<1>2. CASE ~HandleHangup
  BY <1>2 DEF Loop, Setup, LoopGuard, EpollWait, EpollFails, NextRound, HandleListener,
     HandleEvent, AcceptEnds, kernelVars
<1> QED BY <1>1, <1>2

LEMMA AcceptImplements ==
  ASSUME Structure, NEW c \in Clients,
         Refuse(c) \/ \E s \in Slots : Admit(c, s) \/ RegistrationFails(c, s)
  PROVE  Service!Next
<1>1. CASE Refuse(c) \/ \E s \in Slots : RegistrationFails(c, s)
  BY <1>1 DEF Refuse, RegistrationFails, Service!Next, Service!End
<1>2. ASSUME NEW s \in Slots, Admit(c, s) PROVE Service!Next
  <2>1. Cardinality(Service!Admitted) < MaxClients
    BY <1>2, FreeSlotMeansCapacity DEF Admit, FreeSlot
  <2>2. Service!Cardinality(Service!Admitted) = Cardinality(Service!Admitted)
    BY DEF Service!Cardinality, Cardinality
  <2>3. Service!Admit(c)
    BY <1>2, <2>1, <2>2 DEF Admit, Service!Admit
  <2> QED BY <2>3 DEF Service!Next
<1> QED BY <1>1, <1>2

LEMMA DispatchImplements ==
  ASSUME Structure, Conversation, NEW s \in Slots, NEW c \in Clients, Dispatch(s, c)
  PROVE  Service!Next
<1>1. /\ UNCHANGED <<wire, stream, phase>> /\ cur = s /\ conn[s].fd = c /\ pc = "dispatch"
  BY DEF Dispatch, Serving, kernelVars
<1>2. PICK p \in 1 .. rd[c], n \in RespLens :
        /\ IsRequest(s, p)
        /\ answers' = [answers EXCEPT ![c] = Append(@, [head |-> p, len |-> n])]
  BY DEF Dispatch
<1>3. /\ phase[c] = "accepted" /\ conn[s].state = "recv"
      /\ rd[c] \in Nat /\ Len(stream[c]) \in Nat /\ Len(answers[c]) \in Nat
  BY <1>1, ClientType DEF Structure, SlotOwnership, CurrentSlot
<1>4. ClientTalk(c) /\ Receiving(s, c) /\ conn[s].len <= rd[c]
  BY <1>1, <1>3 DEF Conversation, SlotTalk
<1>5. From(s) \in Nat /\ p >= From(s) /\ stream[c][p] = "t"
  <2>1. From(s) \in Nat
    BY <1>1, <1>3, <1>4, SlotType DEF Structure, From
  <2> QED BY <1>1, <1>2, <1>3, <2>1 DEF IsRequest, IsHead
<1>6. p \in 1 .. Len(stream[c])
  BY <1>2, <1>3, <1>4 DEF ClientTalk
<1>7. Service!Delivered(c)
  BY <1>4 DEF Receiving, AllSent, Service!Delivered
<1>8. p > Service!LastHead(c)
  <2>1. CASE answers[c] = <<>>
    BY <1>6, <2>1 DEF Service!LastHead
  <2>2. CASE answers[c] # <<>>
    <3>1. answers[c] \in Seq([head : Nat, len : Nat])
      BY DEF Structure, TypeOK
    <3>2. Len(answers[c]) \in 1 .. Len(answers[c])
      BY <2>2, <3>1
    <3>3. answers[c][Len(answers[c])].head < From(s) /\ answers[c][Len(answers[c])].head \in Nat
      BY <1>4, <3>2 DEF Receiving, ClientTalk
    <3> QED BY <1>5, <1>6, <2>2, <3>3 DEF Service!LastHead
  <2> QED BY <2>1, <2>2
<1>9. Service!Answer(c, p, n)
  BY <1>1, <1>2, <1>3, <1>5, <1>6, <1>7, <1>8 DEF Service!Answer
<1> QED BY <1>6, <1>9 DEF Service!Next

LEMMA TransmitImplements ==
  ASSUME Structure, Conversation, NEW s \in Slots, NEW c \in Clients, Transmit(s, c)
  PROVE  Service!Next
<1> DEFINE k == Len(answers[c])
<1>1. /\ UNCHANGED <<answers, stream, phase>> /\ conn[s].fd = c
      /\ conn[s].state = "send" /\ ~Sent(s)
      /\ wire' = [wire EXCEPT ![c] = Append(@, <<conn[s].id, conn[s].sent + 1>>)]
  BY DEF Transmit, Serving, Structure, CurrentSlot
<1>2. /\ phase[c] = "accepted" /\ ClientTalk(c) /\ Sending(s, c)
      /\ conn[s].sent \in Nat /\ conn[s].rlen \in Nat /\ k \in Nat
  BY <1>1, SlotType, ClientType DEF Structure, SlotOwnership, Conversation, SlotTalk
<1>3. /\ k > 0 /\ conn[s].id = k /\ conn[s].rlen = answers[c][k].len
      /\ conn[s].sent < conn[s].rlen /\ answers[c] # <<>>
  <2>1. k > 0 /\ conn[s].id = k /\ conn[s].rlen = answers[c][k].len
    BY <1>2 DEF Sending
  <2> QED BY <1>1, <1>2, <2>1 DEF Sent
<1>4. CASE conn[s].sent > 0
  <2>1. wire[c] # <<>> /\ wire[c][Len(wire[c])] = <<k, conn[s].sent>>
    BY <1>2, <1>4 DEF Sending, EndsWith
  <2>2. ~Service!Delivered(c)
    BY <1>2, <1>3, <2>1 DEF Service!Delivered
  <2>3. Service!NextUnit(c) = <<k, conn[s].sent + 1>>
    BY <2>1 DEF Service!NextUnit
  <2>4. Service!Transmit(c)
    BY <1>1, <1>2, <1>3, <2>2, <2>3 DEF Service!Transmit
  <2> QED BY <2>4 DEF Service!Next
<1>5. CASE conn[s].sent = 0
  <2>1. \/ k = 1 /\ wire[c] = <<>>
        \/ k > 1 /\ wire[c] # <<>> /\ wire[c][Len(wire[c])][1] = k - 1
    <3>1. k = 1 => wire[c] = <<>>
      BY <1>2, <1>5 DEF Sending
    <3>2. k > 1 => wire[c] # <<>> /\ wire[c][Len(wire[c])] = <<k - 1, answers[c][k - 1].len>>
      BY <1>2, <1>5 DEF Sending, EndsWith
    <3>3. k = 1 \/ k > 1
      <4> HIDE DEF k
      <4> QED BY <1>2, <1>3
    <3> QED BY <3>1, <3>2, <3>3
  <2>2. wire[c] = <<>> \/ wire[c][Len(wire[c])][1] # k
    <3> HIDE DEF k
    <3> QED BY <1>2, <2>1
  <2>3. ~Service!Delivered(c)
    BY <1>3, <2>2 DEF Service!Delivered
  <2>4. Service!NextUnit(c) = <<k, conn[s].sent + 1>>
    BY <1>5, <2>2 DEF Service!NextUnit
  <2>5. Service!Transmit(c)
    BY <1>1, <1>2, <1>3, <2>3, <2>4 DEF Service!Transmit
  <2> QED BY <2>5 DEF Service!Next
<1> QED BY <1>2, <1>4, <1>5

LEMMA IoImplements ==
  ASSUME Structure, Conversation, Io
  PROVE  Service!Next \/ UNCHANGED <<phase, stream, answers, wire>>
<1>1. PICK s \in Slots, c \in Clients :
        \/ Receive(s, c) \/ ReceiveNothing(s, c) \/ ReceiveLater(s, c)
        \/ IoFails(s, c) \/ Dispatch(s, c)
        \/ Transmit(s, c) \/ TransmitLater(s, c) \/ TransmitEnds(s, c)
  BY DEF Io
<1>2. CASE Receive(s, c)
  <2> DEFINE room == Room(s)
             n == IF Unread(c) <= room THEN Unread(c) ELSE room
  <2>1. n > 0
    BY <1>2 DEF Receive
  <2>2. ~(conn[s].len + n > RequestLimit)
    BY <2>1, SlotType, ClientType, BufCapAssumption, RequestLimitAssumption
       DEF Structure, Unread
  <2> QED BY <1>2, <2>2 DEF Receive
<1>3. CASE ReceiveNothing(s, c) \/ IoFails(s, c)
  <2>1. conn[s].fd = c /\ CloseConnection(s) /\ UNCHANGED <<stream, answers, wire>>
    BY <1>3 DEF ReceiveNothing, IoFails, Serving
  <2> QED BY <2>1, CloseEnds, NoneAssumption DEF InUse
<1>4. CASE ReceiveLater(s, c) \/ TransmitLater(s, c) \/ TransmitEnds(s, c)
  BY <1>4 DEF ReceiveLater, TransmitLater, TransmitEnds, kernelVars
<1> QED BY <1>1, <1>2, <1>3, <1>4, DispatchImplements, TransmitImplements

LEMMA OutsideImplements ==
  ASSUME Structure, Signal \/ \E c \in Clients : Peer(c)
  PROVE  Service!Next \/ UNCHANGED <<phase, stream, answers, wire>>
<1>1. CASE Signal
  BY <1>1 DEF Signal, Service!Next, Service!StopListening
<1>2. ASSUME NEW c \in Clients, Connect(c) PROVE Service!Next
  <2>1. Service!Open(c)
    BY <1>2 DEF Connect, Service!Open
  <2> QED BY <2>1 DEF Service!Next
<1>3. ASSUME NEW c \in Clients, NEW u \in {"x", "t"}, PeerSends(c, u) PROVE Service!Next
  <2>1. Service!Ask(c, u)
    BY <1>3 DEF PeerSends, Alive, Service!Ask
  <2> QED BY <2>1 DEF Service!Next
<1>4. ASSUME NEW c \in Clients, PeerShutsDown(c) \/ PeerResets(c) \/ PeerReads(c)
      PROVE  UNCHANGED <<phase, stream, answers, wire>>
  BY <1>4 DEF PeerShutsDown, PeerResets, PeerReads
<1> QED BY <1>1, <1>2, <1>3, <1>4 DEF Peer

\* The event loop implements the connection service.
THEOREM ServiceImplemented == Spec => ImplementsService
<1>1. Init => Service!Init
  BY DEF Init, Service!Init
<1>2. Structure /\ Conversation /\ [Next]_vars => [Service!Next]_(Service!vars)
  <2> SUFFICES ASSUME Structure, Conversation, [Next]_vars
               PROVE  Service!Next \/ UNCHANGED <<phase, stream, answers, wire>>
    BY DEF Service!vars
  <2>1. CASE Server
    BY <2>1, LoopImplements, AcceptImplements, IoImplements DEF Server, Accepting
  <2>2. CASE Signal \/ \E c \in Clients : Peer(c)
    BY <2>2, OutsideImplements
  <2>3. CASE UNCHANGED vars
    BY <2>3 DEF vars
  <2> QED BY <2>1, <2>2, <2>3 DEF Next
<1> QED BY <1>1, <1>2, StructureInvariant, ConversationInvariant, PTL
      DEF Spec, ImplementsService, Service!Spec
=============================================================================
