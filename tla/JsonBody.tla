------------------------------- MODULE JsonBody -------------------------------
(***************************************************************************)
(* The body of a request arrives in pieces, and is handed to the parser    *)
(* (httpc_parse_json).                                                     *)
(***************************************************************************)
EXTENDS JsonParser

CONSTANTS
  Words,   \* what a body is made of, each a sequence of bytes
  Starts   \* longer beginnings of a body

ASSUME WordsAssumption == Words \cup Starts \subseteq Seq(Bytes)

VARIABLE input  \* the body so far

Contents == {input, Terminated(input)}

\* Allocations enough for any parse of the body.
Plenty == 3 * (Len(input) + 4)

Arrive(word) == input' = input \o word
Taken == input' = <<>>

BodyInit == input = <<>>
BodyNext == (\E word \in Words \cup Starts : Arrive(word)) \/ Taken
BodySpec == BodyInit /\ [][BodyNext]_input
-----------------------------------------------------------------------------
Inside(r, content) == ~r.p.outside /\ r.p.offset \in 0..Len(content)

\* Whatever the text and whether or not a NUL ends it, the parser reads no
\* byte behind it and writes none behind the block of a string (parse_string,
\* parse_array, parse_object, buffer_skip_whitespace).
ReadsInside ==
  \A content \in Contents, strict \in BOOLEAN : Inside(Parse(content, strict, Plenty), content)
=============================================================================
