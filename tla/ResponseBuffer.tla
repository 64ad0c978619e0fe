---------------------------- MODULE ResponseBuffer ----------------------------
(***************************************************************************)
(* The bytes of an answer (src/srcs/api/response.c).  The serialisers ask  *)
(* for one buffer whose size they compute first and write the parts one    *)
(* after the other, each checked against what is left; the terminating NUL *)
(* is written without a check.  A text is its length.                      *)
(***************************************************************************)
EXTENDS Naturals

CONSTANT Texts  \* lengths of the keys and values of extra headers

ASSUME TextsAssumption == Texts \subseteq Nat

VARIABLES
  response,  \* lengths of what httpc_response_t holds and of the lines made of it
  out        \* the serialiser: who is at work, the part it is at, its buffer

bufferVars == <<response, out>>

Programs == {"string", "headers"}

\* headers = 0 is no extra headers, newline tells how they end, room is the
\* size of their block.
Responses ==
  [status : Nat, type : Nat, digits : Nat, connection : Nat, body : Nat,
   headers : Nat, newline : BOOLEAN, room : Nat]

Idle == [program |-> "none", part |-> 0, total |-> 0, remaining |-> 0, at |-> 0]

\* The two bytes of CR LF that are added to headers that do not end in a newline.
Closing(r) == IF r.headers > 0 /\ ~r.newline THEN 2 ELSE 0

\* Mutant: the CR LF after the headers is not counted.
MutantTotalSize(r, program) ==
  r.status + r.type + r.digits + r.connection + r.headers
    + IF program = "string" THEN r.body + 2 ELSE 2

TotalSize(r, program) ==
  r.status + r.type + r.digits + r.connection + r.headers + Closing(r)
    + IF program = "string" THEN 4 + r.body ELSE 2

\* The parts in the order they are written; one that is absent has length 0.
Length(r, program, part) ==
  CASE part = 1 -> r.status [] part = 2 -> r.type [] part = 3 -> r.digits
    [] part = 4 -> r.connection [] part = 5 -> r.headers [] part = 6 -> Closing(r)
    [] part = 7 -> 2 [] OTHER -> IF program = "string" THEN r.body ELSE 0

\* safe_snprintf needs room for its NUL as well, safe_memcpy does not.
Enough(part, length, remaining) == IF part <= 4 THEN length < remaining ELSE length <= remaining
-----------------------------------------------------------------------------
\* httpc_create_response, and extra headers the program sets itself.
NewResponse ==
  /\ out.program = "none"
  /\ response' \in Responses /\ (response'.headers > 0 => response'.headers < response'.room)
  /\ UNCHANGED out

\* httpc_set_header; when the block cannot be had nothing changes.
SetHeader(key, value) ==
  /\ out.program = "none"
  /\ response' = [response EXCEPT !.headers = @ + key + value + 4, !.newline = TRUE,
                                  !.room = response.headers + key + value + 4 + 1]
  /\ UNCHANGED out

\* The buffer is one byte larger than total_size.
Begin(program) ==
  /\ out.program = "none"
  /\ out' = [program |-> program, part |-> 1, total |-> TotalSize(response, program),
             remaining |-> TotalSize(response, program), at |-> 0]
  /\ UNCHANGED response

WritePart ==
  /\ out.program \in Programs /\ out.part \in 1..8
  /\ LET length == Length(response, out.program, out.part)
     IN out' = IF Enough(out.part, length, out.remaining)
               THEN [out EXCEPT !.part = @ + 1, !.at = @ + length, !.remaining = @ - length]
               ELSE [out EXCEPT !.program = "gave up"]
  /\ UNCHANGED response

\* build_response: a second buffer for the headers and the body.
AddBody ==
  /\ out.program = "headers" /\ out.part = 9
  /\ out' = [program |-> "whole", part |-> 9, total |-> out.at + response.body,
             remaining |-> 0, at |-> out.at + response.body]
  /\ UNCHANGED response

\* The text is handed over, or a block could not be had.
Release ==
  /\ out.program # "none"
  /\ out' = Idle
  /\ UNCHANGED response

BufferInit ==
  /\ response \in Responses /\ response.headers = 0
  /\ out = Idle

BufferNext ==
  \/ NewResponse
  \/ \E key, value \in Texts : SetHeader(key, value)
  \/ \E program \in Programs : Begin(program)
  \/ WritePart \/ AddBody \/ Release

BufferSpec == BufferInit /\ [][BufferNext]_bufferVars
-----------------------------------------------------------------------------
BufferTypeOK ==
  /\ response \in Responses
  /\ out \in [program : Programs \cup {"none", "gave up", "whole"}, part : 0..9,
              total : Nat, remaining : Nat, at : Nat]

\* The size computed is enough for what is written: no check of the
\* serialisers ever fails (response.c:201 and 108 against the writes below).
SizesAgree == out.program # "gave up"

\* Every byte written, the NUL of vsnprintf and the last one included, is in
\* the buffer of total_size + 1 bytes.
WritesInside ==
  /\ out.program # "none" => out.at + out.remaining = out.total
  /\ response.headers > 0 => response.headers < response.room

\* A finished text has all its parts, and nothing was cut: httpc_response_to_string
\* leaves 2 bytes unused, httpc_build_headers and build_response none.
TextComplete ==
  out.part = 9 =>
    LET head == response.status + response.type + response.digits + response.connection
                  + response.headers + Closing(response) + 2
    IN out.at = CASE out.program = "headers" -> head [] OTHER -> head + response.body

\* An answer of any size is built whole and inside its buffer: the size computed
\* in one place is what is written in another (httpc_response_to_string,
\* httpc_build_headers, build_response, httpc_set_header).
WholeAnswer == SizesAgree /\ WritesInside /\ TextComplete
-----------------------------------------------------------------------------
(* What makes the sizes agree: what is left covers the parts to come.        *)

\* Bytes the parts from this one on will take.
Rest(r, program, part) ==
  (IF part <= 1 THEN r.status ELSE 0) + (IF part <= 2 THEN r.type ELSE 0)
    + (IF part <= 3 THEN r.digits ELSE 0) + (IF part <= 4 THEN r.connection ELSE 0)
    + (IF part <= 5 THEN r.headers ELSE 0) + (IF part <= 6 THEN Closing(r) ELSE 0)
    + (IF part <= 7 THEN 2 ELSE 0)
    + (IF part <= 8 /\ program = "string" THEN r.body ELSE 0)

Unused(program) == IF program = "string" THEN 2 ELSE 0

WorkAhead ==
  out.program \in Programs =>
    /\ out.part >= 1
    /\ out.total = TotalSize(response, out.program)
    /\ out.remaining = Rest(response, out.program, out.part) + Unused(out.program)

WholeText ==
  /\ out.program = "whole" => out.part = 9 /\ out.at = Rest(response, "string", 1)
  /\ out.program = "none" => out.part = 0

BufferInvariant == BufferTypeOK /\ SizesAgree /\ WritesInside /\ WorkAhead /\ WholeText
=============================================================================
