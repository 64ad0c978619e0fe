-------------------------- MODULE ConnectionService --------------------------
(***************************************************************************)
(* What the event loop promises to its peers, without its machinery: no    *)
(* slots, no epoll, no program counter, no buffers, no partial reads.      *)
(*                                                                         *)
(* A connection is queued, admitted while there is capacity, and answered: *)
(* each response answers a request of its own, in the order in which the   *)
(* requests were sent, the next one only after the previous one has been   *)
(* transmitted as a whole.  The service may skip a request (what arrives   *)
(* together with another request is dropped with it) and may end a         *)
(* connection at any time; it never mixes, repeats or invents responses.   *)
(***************************************************************************)
EXTENDS Naturals, Sequences, FiniteSets

CONSTANTS
  Clients,     \* the connections
  Capacity,    \* how many may be admitted at a time
  RespLens     \* possible lengths of a response

VARIABLES
  phase,       \* life of each connection
  stream,      \* what each peer has sent; "t" ends a request
  answers,     \* for each response, the request it answers and its length
  wire         \* what has been transmitted: unit k of response i is <<i, k>>

vars == <<phase, stream, answers, wire>>

Admitted == { c \in Clients : phase[c] = "accepted" }

\* What the units on the wire of c say has been done with its last response.
Delivered(c) ==
  IF answers[c] = <<>> THEN wire[c] = <<>>
  ELSE wire[c] # <<>> /\ wire[c][Len(wire[c])] =
         <<Len(answers[c]), answers[c][Len(answers[c])].len>>

\* The unit to transmit next, when the last response is not delivered.
NextUnit(c) ==
  LET i == Len(answers[c])
      begun == wire[c] # <<>> /\ wire[c][Len(wire[c])][1] = i
  IN  <<i, IF begun THEN wire[c][Len(wire[c])][2] + 1 ELSE 1>>

LastHead(c) == IF answers[c] = <<>> THEN 0 ELSE answers[c][Len(answers[c])].head
-----------------------------------------------------------------------------
Init ==
  /\ phase = [c \in Clients |-> "idle"]
  /\ stream = [c \in Clients |-> <<>>]
  /\ answers = [c \in Clients |-> <<>>]
  /\ wire = [c \in Clients |-> <<>>]

Open(c) ==
  /\ phase[c] = "idle"
  /\ phase' = [phase EXCEPT ![c] = "queued"]
  /\ UNCHANGED <<stream, answers, wire>>

Ask(c, u) ==
  /\ phase[c] \in {"queued", "accepted"}
  /\ stream' = [stream EXCEPT ![c] = Append(@, u)]
  /\ UNCHANGED <<phase, answers, wire>>

Admit(c) ==
  /\ phase[c] = "queued"
  /\ Cardinality(Admitted) < Capacity
  /\ phase' = [phase EXCEPT ![c] = "accepted"]
  /\ UNCHANGED <<stream, answers, wire>>

\* The oldest request not yet answered need not be taken, but none is repeated.
Answer(c, p, n) ==
  /\ phase[c] = "accepted"
  /\ Delivered(c)
  /\ p > LastHead(c) /\ p <= Len(stream[c]) /\ stream[c][p] = "t"
  /\ answers' = [answers EXCEPT ![c] = Append(@, [head |-> p, len |-> n])]
  /\ UNCHANGED <<phase, stream, wire>>

Transmit(c) ==
  /\ phase[c] = "accepted"
  /\ ~Delivered(c)
  /\ wire' = [wire EXCEPT ![c] = Append(@, NextUnit(c))]
  /\ UNCHANGED <<phase, stream, answers>>

End(c) ==
  /\ phase[c] \in {"queued", "accepted"}
  /\ phase' = [phase EXCEPT ![c] = "closed"]
  /\ UNCHANGED <<stream, answers, wire>>

\* The service stops listening: nobody waits any longer.
StopListening ==
  /\ phase' = [c \in Clients |-> IF phase[c] = "queued" THEN "closed" ELSE phase[c]]
  /\ UNCHANGED <<stream, answers, wire>>

Next ==
  \/ StopListening
  \/ \E c \in Clients :
       \/ Open(c) \/ Admit(c) \/ Transmit(c) \/ End(c)
       \/ \E u \in {"x", "t"} : Ask(c, u)
       \/ \E p \in 1 .. Len(stream[c]), n \in RespLens : Answer(c, p, n)

Spec == Init /\ [][Next]_vars
=============================================================================
