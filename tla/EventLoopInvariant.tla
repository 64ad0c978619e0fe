------------------------- MODULE EventLoopInvariant -------------------------
(***************************************************************************)
(* The inductive strengthening of the invariants of EventLoop, in two      *)
(* layers: Structure speaks of slots, epoll items, events and the program  *)
(* counter; Conversation, on top of it, of what is read, answered and      *)
(* sent on each connection.  EventLoopProofs proves both inductive.        *)
(***************************************************************************)
EXTENDS EventLoop

\* main_handler works on a slot exactly in read_connection and
\* write_connection; the slot is in use and in the matching state.
CurrentSlot ==
  IF pc \in {"read", "dispatch", "write"}
  THEN /\ cur \in Slots /\ InUse(cur)
       /\ conn[cur].state = IF pc = "write" THEN "send" ELSE "recv"
  ELSE cur = 0

\* events[] has one event per slot, never of the slot being worked on, which
\* says what the slot waits for or that it hung up; it is empty between rounds.
PendingEvents ==
  /\ batch # {} => pc \in {"batch", "accept", "read", "dispatch", "write"}
  /\ \A e \in batch : e.ptr = Listener => e.fd = None
  /\ \A e \in batch : e.ptr # Listener =>
       /\ e.ptr # cur
       /\ e.flags # {} /\ e.flags \subseteq {"hup", MaskOf(conn[e.ptr].state)}
  /\ \A e, f \in batch : e.ptr # Listener /\ f.ptr = e.ptr => f = e

\* A hang-up in events[] is a reset of the connection it was reported for.
HangupsAreResets ==
  \A e \in batch : "hup" \in e.flags => e.fd \in Clients /\ peer[e.fd] = "rst"

\* The invariants on slots, registrations and events together are inductive.
Structure ==
  /\ TypeOK
  /\ SlotOwnership
  /\ EpollAgrees
  /\ CurrentSlot
  /\ PendingEvents
  /\ NoStaleEvent
  /\ NoLostWakeup
-----------------------------------------------------------------------------
\* Of a connection: what is read was sent, each response answers a request of
\* its own among what is read, and nothing happens before it is admitted.
ClientTalk(c) ==
  /\ rd[c] <= Len(stream[c])
  /\ phase[c] \in {"idle", "queued"} => rd[c] = 0 /\ answers[c] = <<>> /\ wire[c] = <<>>
  /\ \A i \in 1 .. Len(answers[c]) :
       /\ answers[c][i].head \in 1 .. rd[c] /\ answers[c][i].len > 0
       /\ IsHead(c, answers[c][i].head)
       /\ i > 1 => answers[c][i - 1].head < answers[c][i].head
  /\ InOrder(c)

\* What the wire of c ends with when k is the unit sent last.
EndsWith(c, k) == wire[c] # <<>> /\ wire[c][Len(wire[c])] = k

\* Of a slot that receives: its buffer lies behind the last request that was
\* answered and holds no complete request unless one is being dispatched.
Receiving(s, c) ==
  /\ ~(pc = "dispatch" /\ cur = s) => ~HeadersComplete(c, From(s), rd[c])
  /\ \A i \in 1 .. Len(answers[c]) : answers[c][i].head < From(s)
  /\ AllSent(c)

\* Of a slot that sends: it holds the last response, and the wire ends with the
\* part of it that response_sent says, after all of the previous one.
Sending(s, c) ==
  LET k == Len(answers[c])
  IN  /\ k > 0 /\ conn[s].id = k
      /\ conn[s].rlen = answers[c][k].len /\ conn[s].sent <= conn[s].rlen
      /\ conn[s].sent > 0 => EndsWith(c, <<k, conn[s].sent>>)
      /\ conn[s].sent = 0 /\ k = 1 => wire[c] = <<>>
      /\ conn[s].sent = 0 /\ k > 1 => EndsWith(c, <<k - 1, answers[c][k - 1].len>>)

SlotTalk(s, c) ==
  /\ conn[s].len <= rd[c]
  /\ conn[s].state = "recv" => Receiving(s, c)
  /\ conn[s].state = "send" => Sending(s, c)

Conversation ==
  /\ \A c \in Clients : ClientTalk(c)
  /\ \A s \in Slots, c \in Clients : conn[s].fd = c => SlotTalk(s, c)
-----------------------------------------------------------------------------
\* All of it, for TLC.
InductiveInvariant == Structure /\ HangupsAreResets /\ Conversation
=============================================================================
