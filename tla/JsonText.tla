------------------------------- MODULE JsonText -------------------------------
(***************************************************************************)
(* The printer and the minifier of src/srcs/json/cJSON.c as functions, on  *)
(* the texts and items of JsonParser.                                      *)
(***************************************************************************)
EXTENDS JsonParser, SequencesExt, FiniteSetsExt

CONSTANTS
  DefaultSize,   \* default_buffer_size of print
  IntMax         \* INT_MAX

ASSUME LimitsAssumption == {DefaultSize, IntMax} \subseteq Nat /\ DefaultSize > 0

\* What cJSON_Delete frees.
RECURSIVE Blocks(_)
Blocks(item) ==
  1 + Cardinality(item.key) + (IF item.kind = "number" THEN 0 ELSE Cardinality(item.text))
    + FoldLeft(LAMBDA n, kid : n + Blocks(kid), 0, item.kids)
-----------------------------------------------------------------------------
(* printbuffer: length, offset, depth, noalloc, format and the hooks.      *)
(* text is what the buffer holds, nul where the NUL after it is, if any;   *)
(* ok is cleared by the first operation that fails, and the rest is not    *)
(* done.                                                                    *)

Buffer(size, noalloc, format, resizes, fuel) ==
  [length |-> size, offset |-> 0, depth |-> 0, noalloc |-> noalloc, format |-> format,
   resizes |-> resizes, fuel |-> fuel, blocks |-> IF noalloc THEN 0 ELSE 1,
   text |-> <<>>, nul |-> {}, ok |-> TRUE, outside |-> FALSE]

\* Mutant: the room for the NUL is not asked for.
MutantEnsure(o, n) ==
  LET needed == n + o.offset
      size == IF needed > IntMax \div 2 THEN IntMax ELSE needed * 2
      Stop(b) == [b EXCEPT !.ok = FALSE]
  IN IF ~o.ok \/ (o.length > 0 /\ o.offset >= o.length) \/ n > IntMax THEN Stop(o)
     ELSE IF needed <= o.length THEN o
     ELSE IF o.noalloc \/ needed > IntMax THEN Stop(o)
     ELSE IF o.fuel = 0 THEN Stop([o EXCEPT !.blocks = 0, !.length = 0])
     ELSE [o EXCEPT !.length = size, !.fuel = @ - 1]

\* ensure: at least n more bytes, and room for one after them.
Ensure(o, n) ==
  LET needed == n + o.offset + 1
      size == IF needed > IntMax \div 2 THEN IntMax ELSE needed * 2
      Stop(b) == [b EXCEPT !.ok = FALSE]
  IN IF ~o.ok \/ (o.length > 0 /\ o.offset >= o.length) \/ n > IntMax THEN Stop(o)
     ELSE IF needed <= o.length THEN o
     ELSE IF o.noalloc \/ needed > IntMax THEN Stop(o)
     ELSE IF o.fuel = 0 THEN Stop([o EXCEPT !.blocks = 0, !.length = 0])
     ELSE [o EXCEPT !.length = size, !.fuel = @ - 1,
                    !.outside = @ \/ (~o.resizes /\ o.offset + 1 > o.length)]

\* Bytes written at the offset, with or without a NUL after them; the offset
\* is moved by Advance or by UpdateOffset.
Put(o, bytes, nul) ==
  LET end == o.offset + Len(bytes)
  IN IF ~o.ok THEN o
     ELSE [o EXCEPT !.text = SubSeq(@, 1, o.offset) \o bytes,
                    !.nul = IF nul THEN {end} ELSE {},
                    !.outside = @ \/ (IF nul THEN end >= o.length ELSE end > o.length)]

Advance(o, n) == IF o.ok THEN [o EXCEPT !.offset = @ + n] ELSE o

UpdateOffset(o) ==
  IF ~o.ok THEN o
  ELSE IF o.nul = {} THEN [o EXCEPT !.outside = TRUE]
  ELSE [o EXCEPT !.offset = Min(o.nul)]

\* The text of a set that holds at most one.
Only(texts) == FoldSet(LAMBDA t, s : t, <<>>, texts)

\* The counting pass of print_string_ptr: bytes an escape has more than the byte
\* it stands for.  Mutant: a control character counts as one with a letter.
MutantEscapeCharacters(byte) ==
  CASE byte \in {Quote, Backslash, "newline", "17"} -> 1
    [] OTHER -> 0

EscapeCharacters(byte) ==
  CASE byte \in {Quote, Backslash, "newline"} -> 1
    [] byte = "17" -> 5
    [] OTHER -> 0

\* Its writing pass.
Escaped(byte) ==
  CASE byte \in {Quote, Backslash} -> <<Backslash, byte>>
    [] byte = "newline" -> <<Backslash, "n">>
    [] byte = "17" -> <<Backslash, "u", "0", "0", "1", "1">>
    [] OTHER -> <<byte>>

\* print_string_ptr; without a text it writes an empty one.  The count decides
\* how much room is asked for, whether the text is copied as it is, and where
\* the quote and the NUL are put, over whatever the writing pass left there.
PutString(o, text) ==
  LET source == Only(text)
      escapes == FoldLeft(LAMBDA n, byte : n + EscapeCharacters(byte), 0, source)
      length == Len(source) + escapes
      written == IF escapes = 0 THEN source
                 ELSE FoldLeft(LAMBDA s, byte : s \o Escaped(byte), <<>>, source)
      kept == [i \in 1..length |-> IF i \in DOMAIN written THEN written[i] ELSE "unset"]
      filled == Put(Ensure(o, length + 3), <<Quote>> \o written, FALSE)
  IN Put(filled, <<Quote>> \o kept \o <<Quote>>, TRUE)

Tabs(n) == [k \in 1..n |-> "tab"]
Formatted(o, bytes) == IF o.format THEN bytes ELSE <<>>
Deeper(o, n) == [o EXCEPT !.depth = @ + n]
Write(o, bytes) == Advance(Put(o, bytes, FALSE), Len(bytes))

\* print_value, print_array, print_object and the loops of these two.
RECURSIVE PrintValue(_, _), PrintElements(_, _), PrintMembers(_, _)
PrintElements(o, kids) ==
  LET comma == <<",">> \o Formatted(o, <<"space">>)
      More(printed) ==
        IF Len(kids) = 1 THEN printed
        ELSE PrintElements(Advance(Put(Ensure(printed, Len(comma) + 1), comma, TRUE), Len(comma)),
                           Tail(kids))
  IN IF kids = <<>> THEN o ELSE More(UpdateOffset(PrintValue(o, Head(kids))))

PrintMembers(o, kids) ==
  LET indented == IF o.format THEN Write(Ensure(o, o.depth), Tabs(o.depth)) ELSE o
      named == UpdateOffset(PutString(indented, Head(kids).key))
      colon == <<":">> \o Formatted(o, <<"tab">>)
      printed == UpdateOffset(PrintValue(Write(Ensure(named, Len(colon)), colon), Head(kids)))
      ending == (IF Len(kids) > 1 THEN <<",">> ELSE <<>>) \o Formatted(o, <<"newline">>)
      next == Advance(Put(Ensure(printed, Len(ending) + 1), ending, TRUE), Len(ending))
  IN IF kids = <<>> THEN o ELSE PrintMembers(next, Tail(kids))

PrintValue(o, item) ==
  LET text == Only(item.text)
      brace == <<"{">> \o Formatted(o, <<"newline">>)
      CloseArray(array) == Deeper(Put(Ensure(array, 2), <<"]">>, TRUE), -1)
      CloseObject(object) ==
        Deeper(Put(Ensure(object, IF o.format THEN object.depth + 1 ELSE 2),
                   Formatted(o, Tabs(object.depth - 1)) \o <<"}">>, TRUE), -1)
  IN CASE item.kind = "null" -> Put(Ensure(o, 5), Null, TRUE)
       [] item.kind = "number" -> Advance(Put(Ensure(o, Len(text) + 1), text, TRUE), Len(text))
       [] item.kind = "raw" /\ item.text # {} -> Put(Ensure(o, Len(text) + 1), text, TRUE)
       [] item.kind = "string" -> PutString(o, item.text)
       [] item.kind = "array" ->
            CloseArray(PrintElements(Deeper(Write(Ensure(o, 1), <<"[">>), 1), item.kids))
       [] item.kind = "object" ->
            CloseObject(PrintMembers(Deeper(Write(Ensure(o, Len(brace) + 1), brace), 1), item.kids))
       [] OTHER -> [o EXCEPT !.ok = FALSE]

\* cJSON_Print and cJSON_PrintUnformatted: the text is moved to a block of its
\* own size, by realloc or by a copy of at most what the buffer holds.
PrintText(item, format, resizes, fuel) ==
  LET Fails(o) == [o EXCEPT !.ok = FALSE, !.blocks = 0]
      Moved(o) ==
        IF o.ok /\ o.fuel > 0 THEN [o EXCEPT !.fuel = @ - 1, !.length = o.offset + 1] ELSE Fails(o)
      start == Buffer(DefaultSize, FALSE, format, resizes, fuel - 1)
  IN IF fuel = 0 THEN Fails(start) ELSE Moved(UpdateOffset(PrintValue(start, item)))

\* cJSON_PrintBuffered; what it returns is not cut to size.
PrintBuffered(item, prebuffer, format, resizes, fuel) ==
  LET Ends(o) == IF o.ok THEN o ELSE [o EXCEPT !.blocks = 0]
      start == Buffer(prebuffer, FALSE, format, resizes, fuel - 1)
  IN IF fuel = 0 THEN [start EXCEPT !.ok = FALSE, !.blocks = 0] ELSE Ends(PrintValue(start, item))

\* cJSON_PrintPreallocated.
PrintPreallocated(item, size, format) == PrintValue(Buffer(size, TRUE, format, TRUE, 0), item)
-----------------------------------------------------------------------------
(* cJSON_Minify, which works in place on a text with comments.             *)

Tail2(s) == SubSeq(s, 3, Len(s))
Comments(s, byte) == Len(s) > 1 /\ s[1] = "/" /\ s[2] = byte

\* skip_oneline_comment and skip_multiline_comment: what follows the comment.
RECURSIVE AfterComment(_, _)
AfterComment(s, end) ==
  IF s = <<>> \/ IsPrefix(end, s) THEN SubSeq(s, Len(end) + 1, Len(s)) ELSE AfterComment(Tail(s), end)

RECURSIVE Minify(_), MinifyString(_)
\* Mutant: minify_string stops at any quote.
MutantMinifyString(s) ==
  IF s = <<>> THEN <<>>
  ELSE IF s[1] = Quote THEN <<Quote>> \o Minify(Tail(s))
  ELSE <<s[1]>> \o MinifyString(Tail(s))

MinifyString(s) ==
  IF s = <<>> THEN <<>>
  ELSE IF s[1] = Quote THEN <<Quote>> \o Minify(Tail(s))
  ELSE IF Len(s) > 1 /\ s[1] = Backslash /\ s[2] = Quote
       THEN <<Backslash, Quote>> \o MinifyString(Tail2(s))
  ELSE <<s[1]>> \o MinifyString(Tail(s))

Minify(s) ==
  IF s = <<>> THEN <<>>
  ELSE IF s[1] \in Whitespace THEN Minify(Tail(s))
  ELSE IF Comments(s, "/") THEN Minify(AfterComment(Tail2(s), <<"newline">>))
  ELSE IF Comments(s, "*") THEN Minify(AfterComment(Tail2(s), <<"*", "/">>))
  ELSE IF s[1] = "/" THEN Minify(Tail(s))
  ELSE IF s[1] = Quote THEN <<Quote>> \o MinifyString(Tail(s))
  ELSE <<s[1]>> \o Minify(Tail(s))
=============================================================================
