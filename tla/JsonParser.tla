------------------------------ MODULE JsonParser ------------------------------
(***************************************************************************)
(* The parser of src/srcs/json/cJSON.c as functions.  A text is a sequence *)
(* of bytes; a byte that continues a character of several is "+".  An item *)
(* is its kind, key, text and children, key and text being sets of at most *)
(* one sequence.  Fractions, exponents, false and true are like what is    *)
(* modelled and left out.  Every read and write that the code does not     *)
(* check is checked here: outside tells whether one missed its block.      *)
(***************************************************************************)
EXTENDS Integers, Sequences

CONSTANTS
  Bytes,         \* what texts are made of
  Lead(_),       \* the first byte of a code point in UTF-8
  NestingLimit   \* CJSON_NESTING_LIMIT

ASSUME ParserAssumption == "nul" \in Bytes /\ NestingLimit \in Nat

Quote == "\""
Backslash == "\\"
Null == <<"n", "u", "l", "l">>
Bom == <<"bom", "+", "+">>
Whitespace == {"newline", "space", "tab", "nul"}
NumberBytes == {"1", "-"}

Item(kind) == [kind |-> kind, key |-> {}, text |-> {}, kids |-> <<>>]
-----------------------------------------------------------------------------
(* parse_buffer: content, offset, depth, the allocations that will succeed *)
(* and the blocks allocated so far.                                         *)

Parsing == [content : Seq(Bytes), offset : Int, depth : Int, fuel : Nat, blocks : Nat, outside : BOOLEAN]

CanAccess(p, i) == p.offset + i < Len(p.content)
At(p, i) == p.content[p.offset + i + 1]
Sees(p, byte) == CanAccess(p, 0) /\ At(p, 0) = byte
Move(p, n) == [p EXCEPT !.offset = @ + n]
Allocate(p) == [p EXCEPT !.fuel = @ - 1, !.blocks = @ + 1]

\* What a function returns: freed are the items it had cJSON_Delete free.
Result(ok, p, item) == [ok |-> ok, p |-> p, item |-> item, freed |-> <<>>]

\* How many bytes from the i-th on are in S.
Span(p, i, S) ==
  LET Inside(n) == CanAccess(p, i + n) /\ At(p, i + n) \in S
  IN CHOOSE n \in 0..Len(p.content) : ~Inside(n) /\ \A m \in 0..(n - 1) : Inside(m)

\* A buffer that ends in whitespace is left at its last byte.
SkipWhitespace(p) ==
  LET n == Span(p, 0, Whitespace)
  IN IF n > 0 /\ p.offset + n = Len(p.content) THEN Move(p, n - 1) ELSE Move(p, n)

SkipBom(p) == IF CanAccess(p, 4) /\ SubSeq(p.content, 1, 3) = Bom THEN Move(p, 3) ELSE p

\* strtod reads a sign and digits out of the copy of all bytes that may be part of a number.
ParseNumber(p, item) ==
  LET copy == SubSeq(p.content, p.offset + 1, p.offset + Span(p, 0, NumberBytes))
      sign == IF copy[1] = "-" THEN 1 ELSE 0
      read == sign + Span(p, sign, {"1"})
  IN IF p.fuel = 0 THEN Result(FALSE, p, item)
     ELSE IF read = sign THEN Result(FALSE, [p EXCEPT !.fuel = @ - 1], item)
     ELSE Result(TRUE, [Move(p, read) EXCEPT !.fuel = @ - 1],
                 [item EXCEPT !.kind = "number", !.text = {SubSeq(copy, 1, read)}])
-----------------------------------------------------------------------------
(* Strings.                                                                 *)

\* The loop that looks for the closing quote: where it is and the backslashes
\* that began an escape.
ScanByte(p, s) ==
  IF ~CanAccess(p, s.at) \/ At(p, s.at) = Quote THEN s
  ELSE IF At(p, s.at) = Backslash THEN [at |-> s.at + 2, skipped |-> s.skipped + 1]
  ELSE [s EXCEPT !.at = @ + 1]

Scan(p) ==
  LET scan[n \in Nat] == IF n = 0 THEN [at |-> 1, skipped |-> 0] ELSE ScanByte(p, scan[n - 1]) IN scan

HexDigits == [c \in {"0", "1", "8", "c", "d"} |->
                CASE c = "0" -> 0 [] c = "1" -> 1 [] c = "8" -> 8 [] c = "c" -> 12 [] c = "d" -> 13]

\* parse_hex4 answers 0 when a byte is no hex digit.
Hex4(p, i) ==
  LET Digit(k) == HexDigits[At(p, i + k)]
  IN IF \E k \in 0..3 : At(p, i + k) \notin DOMAIN HexDigits THEN 0
     ELSE 16 * (16 * (16 * Digit(0) + Digit(1)) + Digit(2)) + Digit(3)

\* A code point in UTF-8, one byte named and the rest "+".
Utf8(code) ==
  LET more == IF code < 128 THEN 0 ELSE IF code < 2048 THEN 1 ELSE IF code < 65536 THEN 2 ELSE 3
  IN <<IF code = 0 THEN "nul" ELSE Lead(code)>> \o [k \in 1..more |-> "+"]

\* utf16_literal_to_utf8: the bytes read, 0 on failure, and those written.
Utf16(p, i, end) ==
  LET Reads(n, bytes) == [read |-> n, bytes |-> bytes]
      Surrogate(code) == code \div 1024
      bad == Reads(0, <<>>)
      Pair(first, second) ==
        IF Surrogate(second) # 55 THEN bad
        ELSE Reads(12, Utf8(65536 + 1024 * (first % 1024) + (second % 1024)))
      Code(first) ==
        IF Surrogate(first) = 55 THEN bad
        ELSE IF Surrogate(first) # 54 THEN Reads(6, Utf8(first))
        ELSE IF end - i < 12 \/ At(p, i + 6) # Backslash \/ At(p, i + 7) # "u" THEN bad
        ELSE Pair(first, Hex4(p, i + 8))
  IN IF end - i < 6 THEN bad ELSE Code(Hex4(p, i + 2))

\* The loop through the literal: where it is, what it has written and whether it
\* read behind the text; a sequence it cannot decode stops it.
DecodeSequence(p, end, s) ==
  LET c == At(p, s.at + 1)
      code == Utf16(p, s.at, end)
      Takes(n, bytes) == [at |-> s.at + n, bytes |-> s.bytes \o bytes,
                          outside |-> s.outside \/ ~CanAccess(p, s.at + n - 1)]
  IN IF s.at >= end THEN s
     ELSE IF At(p, s.at) # Backslash THEN Takes(1, <<At(p, s.at)>>)
     ELSE IF c \in {Quote, Backslash} THEN Takes(2, <<c>>)
     ELSE IF c = "n" THEN Takes(2, <<"newline">>)
     ELSE IF c = "u" /\ code.read > 0 THEN Takes(code.read, code.bytes)
     ELSE s

Decode(p, end) ==
  LET decode[n \in Nat] ==
        IF n = 0 THEN [at |-> 1, bytes |-> <<>>, outside |-> FALSE]
        ELSE DecodeSequence(p, end, decode[n - 1])
  IN decode

\* Bytes up to the first NUL, as every reader of the string sees them.
CString(bytes) ==
  LET ends == {i \in DOMAIN bytes : bytes[i] = "nul"}
  IN IF ends = {} THEN bytes
     ELSE SubSeq(bytes, 1, (CHOOSE i \in ends : \A j \in ends : i <= j) - 1)

\* The estimate is one byte per byte of the literal, its quote included, less
\* the backslashes; another is added for the NUL.
Decoded(p, item, scan, done) ==
  LET q == [p EXCEPT !.fuel = @ - 1,
                     !.outside = @ \/ done.outside \/ Len(done.bytes) > scan.at - scan.skipped]
  IN IF done.at < scan.at THEN Result(FALSE, Move(q, done.at), item)
     ELSE Result(TRUE, [Move(q, scan.at + 1) EXCEPT !.blocks = @ + 1],
                 [item EXCEPT !.kind = "string", !.text = {CString(done.bytes)}])

Scanned(p, item, scan) ==
  IF At(p, 0) # Quote \/ ~CanAccess(p, scan.at) \/ p.fuel = 0 THEN Result(FALSE, Move(p, 1), item)
  ELSE Decoded(p, item, scan, Decode(p, scan.at)[scan.at])

ParseString(p, item) ==
  IF ~CanAccess(p, 0) THEN Result(FALSE, [Move(p, 1) EXCEPT !.outside = TRUE], item)
  ELSE Scanned(p, item, Scan(p)[Len(p.content)])

\* The name of a member: it is parsed as a string and moved to the key.
Named(p) ==
  LET Colon(q, item) == Result(Sees(q, ":"), q, [item EXCEPT !.key = item.text, !.text = {}])
      Read(name) == IF name.ok THEN Colon(SkipWhitespace(name.p), name.item) ELSE name
  IN Read(ParseString(SkipWhitespace(Move(p, 1)), Item("none")))

\* Mutant: whether anything comes after the comma is not asked.
MutantParseKey(p) == Named(p)
ParseKey(p) == IF CanAccess(p, 1) THEN Named(p) ELSE Result(FALSE, p, Item("none"))
-----------------------------------------------------------------------------
(* Values.                                                                  *)

Close(kind) == IF kind = "object" THEN "}" ELSE "]"

\* Mutant: the depth is not taken back.
MutantClosed(p, item, kind, kids) ==
  Result(TRUE, Move(p, 1), [item EXCEPT !.kind = kind, !.kids = kids])

Closed(p, item, kind, kids) ==
  Result(TRUE, [Move(p, 1) EXCEPT !.depth = @ - 1], [item EXCEPT !.kind = kind, !.kids = kids])

\* Mutant: only the first of a list is freed.
MutantFailed(list, item) ==
  [Result(FALSE, list.p, item) EXCEPT !.freed = list.freed \o SubSeq(list.kids, 1, IF list.kids = <<>> THEN 0 ELSE 1)]

\* A list whose parse fails: cJSON_Delete frees its elements.
Failed(list, item) == [Result(FALSE, list.p, item) EXCEPT !.freed = list.freed \o list.kids]

\* parse_array and parse_object.  elements is their loop from a byte in front
\* of an element on; it returns the elements, where it stopped and whether
\* all went well.
ParseList(elements, p, item, kind) ==
  LET inner == SkipWhitespace([Move(p, 1) EXCEPT !.depth = @ + 1])
      Ends(list) == IF list.ok THEN Closed(list.p, item, kind, list.kids) ELSE Failed(list, item)
  IN IF p.depth >= NestingLimit THEN Result(FALSE, p, item)
     ELSE IF Sees(inner, Close(kind)) THEN Closed(inner, item, kind, <<>>)
     ELSE IF ~CanAccess(inner, 0) THEN Result(FALSE, Move(inner, -1), item)
     ELSE Ends(elements[[p |-> Move(inner, -1), kind |-> kind]])

ParseValue(elements, p, item) ==
  IF CanAccess(p, 3) /\ SubSeq(p.content, p.offset + 1, p.offset + 4) = Null
  THEN Result(TRUE, Move(p, 4), [item EXCEPT !.kind = "null", !.text = {}])
  ELSE IF Sees(p, Quote) THEN ParseString(p, item)
  ELSE IF \E byte \in NumberBytes : Sees(p, byte) THEN ParseNumber(p, item)
  ELSE IF Sees(p, "[") THEN ParseList(elements, p, item, "array")
  ELSE IF Sees(p, "{") THEN ParseList(elements, p, item, "object")
  ELSE Result(FALSE, p, item)

\* What the loop starts from.
Loops == [p : Parsing, kind : {"array", "object"}]

List(ok, p, kids, freed) == [ok |-> ok, p |-> p, kids |-> kids, freed |-> freed]

\* One turn of the loop, and those that follow.
ParseElements(elements, c) ==
  LET Fails(r) == List(FALSE, r.p, <<r.item>>, r.freed)
      Before(rest, item) == List(rest.ok, rest.p, <<item>> \o rest.kids, rest.freed)
      Next(after, item) ==
        IF Sees(after, ",") THEN Before(elements[[p |-> after, kind |-> c.kind]], item)
        ELSE List(Sees(after, Close(c.kind)), after, <<item>>, <<>>)
      Value(value) ==
        IF value.ok THEN Next(SkipWhitespace(value.p), value.item) ELSE Fails(value)
      Name(name) ==
        IF name.ok THEN Value(ParseValue(elements, SkipWhitespace(Move(name.p, 1)), name.item))
        ELSE Fails(name)
  IN IF c.p.fuel = 0 THEN List(FALSE, c.p, <<>>, <<>>)
     ELSE Name(IF c.kind = "object" THEN ParseKey(Allocate(c.p))
               ELSE Result(TRUE, Allocate(c.p), Item("none")))

\* With at most n allocations left, one for each turn.
Elements ==
  LET elements[n \in Nat] ==
        IF n = 0 THEN [c \in Loops |-> List(FALSE, c.p, <<>>, <<>>)]
        ELSE [c \in Loops |-> ParseElements(elements[n - 1], c)]
  IN elements

\* cJSON_ParseWithLengthOpts; strict requires a NUL after the value.
Parse(content, strict, fuel) ==
  LET start == [content |-> content, offset |-> 0, depth |-> 0, fuel |-> fuel, blocks |-> 0,
                outside |-> FALSE]
      Ends(value, after) ==
        IF value.ok /\ (strict => Sees(after, "nul")) THEN Result(TRUE, after, value.item)
        ELSE [Result(FALSE, after, Item("none")) EXCEPT !.freed = value.freed \o <<value.item>>]
      Value(value) == Ends(value, IF strict /\ value.ok THEN SkipWhitespace(value.p) ELSE value.p)
  IN IF content = <<>> \/ fuel = 0 THEN Result(FALSE, start, Item("none"))
     ELSE Value(ParseValue(Elements[fuel], SkipWhitespace(SkipBom(Allocate(start))), Item("none")))

\* cJSON_Parse and cJSON_ParseWithOpts count the NUL at the end of the text.
Terminated(text) == Append(text, "nul")
=============================================================================
