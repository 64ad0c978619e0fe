------------------------------ MODULE JsonGrammar ------------------------------
(***************************************************************************)
(* The reference for JsonParser and JsonText: which texts are JSON, by     *)
(* splitting a whole text instead of scanning it, and the text of a tree,  *)
(* without a buffer.                                                       *)
(***************************************************************************)
EXTENDS JsonText

From(s, i) == SubSeq(s, i, Len(s))

\* Whitespace taken off both ends.
Trim(s) ==
  LET ink == {i \in DOMAIN s : s[i] \notin Whitespace}
  IN IF ink = {} THEN <<>> ELSE SubSeq(s, Min(ink), Max(ink))

IsCode(s) == Len(s) >= 6 /\ s[1] = Backslash /\ s[2] = "u" /\ \A k \in 3..6 : s[k] \in DOMAIN HexDigits
IsHigh(s) == IsCode(s) /\ s[3] = "d" /\ s[4] = "8"
IsLow(s) == IsCode(s) /\ s[3] = "d" /\ s[4] \in {"c", "d"}

\* What stands between the quotes of a string.
RECURSIVE IsBody(_)
IsBody(s) ==
  \/ s = <<>>
  \/ s[1] \notin {Quote, Backslash} /\ IsBody(From(s, 2))
  \/ Len(s) > 1 /\ s[1] = Backslash /\ s[2] \in {Quote, Backslash, "n"} /\ IsBody(From(s, 3))
  \/ IsCode(s) /\ ~IsHigh(s) /\ ~IsLow(s) /\ IsBody(From(s, 7))
  \/ IsHigh(s) /\ IsLow(From(s, 7)) /\ IsBody(From(s, 13))

IsString(s) ==
  Len(s) > 1 /\ s[1] = Quote /\ s[Len(s)] = Quote /\ IsBody(SubSeq(s, 2, Len(s) - 1))

IsNumber(s) == s # <<>> /\ s # <<"-">> /\ s[1] \in NumberBytes /\ \A i \in 2..Len(s) : s[i] = "1"

\* A value at most NestingLimit - depth levels deep.
RECURSIVE IsValue(_, _), AreElements(_, _), AreMembers(_, _)
IsValue(s, depth) ==
  LET inner == Trim(SubSeq(s, 2, Len(s) - 1))
      Within(open, close) == depth < NestingLimit /\ Len(s) > 1 /\ s[1] = open /\ s[Len(s)] = close
  IN \/ s = Null \/ IsNumber(s) \/ IsString(s)
     \/ Within("[", "]") /\ (inner = <<>> \/ AreElements(inner, depth + 1))
     \/ Within("{", "}") /\ (inner = <<>> \/ AreMembers(inner, depth + 1))

Cuts(s, byte) == {i \in DOMAIN s : s[i] = byte}
Before(s, i) == Trim(SubSeq(s, 1, i - 1))
After(s, i) == Trim(From(s, i + 1))

AreElements(s, depth) ==
  \/ IsValue(s, depth)
  \/ \E i \in Cuts(s, ",") : IsValue(Before(s, i), depth) /\ AreElements(After(s, i), depth)

IsMember(s, depth) ==
  \E i \in Cuts(s, ":") : IsString(Before(s, i)) /\ IsValue(After(s, i), depth)

AreMembers(s, depth) ==
  \/ IsMember(s, depth)
  \/ \E i \in Cuts(s, ",") : IsMember(Before(s, i), depth) /\ AreMembers(After(s, i), depth)

\* A byte order mark is passed over in contents of five bytes and more.
Body(content) ==
  Trim(IF Len(content) >= 5 /\ IsPrefix(Bom, content) THEN From(content, 4) ELSE content)

\* Some beginning of the content is a value, or all of it.
HasValue(content) == \E n \in DOMAIN Body(content) : IsValue(SubSeq(Body(content), 1, n), 0)
IsDocument(content) == IsValue(Body(content), 0)

\* An escape \u without four digits; cJSON reads it as the code 0.
BadHex(content) ==
  \E i \in 1..(Len(content) - 1) :
    SubSeq(content, i, i + 1) = <<Backslash, "u">> /\ ~IsCode(From(content, i))
-----------------------------------------------------------------------------
Rendered(text) ==
  <<Quote>> \o FoldLeft(LAMBDA s, byte : s \o Escaped(byte), <<>>, Only(text)) \o <<Quote>>

\* The text of an item at a depth, formatted or not.
RECURSIVE TextOf(_, _, _)
TextOf(item, format, depth) ==
  LET If(bytes) == IF format THEN bytes ELSE <<>>
      last == Len(item.kids)
      Element(i) == TextOf(item.kids[i], format, depth + 1)
                      \o (IF i < last THEN <<",">> \o If(<<"space">>) ELSE <<>>)
      Member(i) == If(Tabs(depth + 1)) \o Rendered(item.kids[i].key) \o <<":">> \o If(<<"tab">>)
                     \o TextOf(item.kids[i], format, depth + 1)
                     \o (IF i < last THEN <<",">> ELSE <<>>) \o If(<<"newline">>)
  IN CASE item.kind = "null" -> Null
       [] item.kind \in {"number", "raw"} -> Only(item.text)
       [] item.kind = "string" -> Rendered(item.text)
       [] item.kind = "array" -> <<"[">> \o FlattenSeq([i \in 1..last |-> Element(i)]) \o <<"]">>
       [] item.kind = "object" ->
            <<"{">> \o If(<<"newline">>) \o FlattenSeq([i \in 1..last |-> Member(i)])
              \o If(Tabs(depth)) \o <<"}">>

\* Made of what a text can hold: keys for members only, a text in every string, no raw text.
RECURSIVE IsPlain(_, _)
IsPlain(item, member) ==
  /\ item.kind # "raw" /\ (item.key # {}) = member /\ (item.kind = "string" => item.text # {})
  /\ \A i \in DOMAIN item.kids : IsPlain(item.kids[i], item.kind = "object")
-----------------------------------------------------------------------------
\* Whether the end of a text is inside a string.
InString(text) ==
  FoldLeft(LAMBDA s, byte : CASE s = "escape" -> "in"
                              [] s = "in" /\ byte = Backslash -> "escape"
                              [] byte = Quote -> IF s = "in" THEN "out" ELSE "in"
                              [] OTHER -> s, "out", text) # "out"

\* Each whitespace byte between the strings of a text replaced.
Spaced(text, space) ==
  FlattenSeq([i \in DOMAIN text |->
    IF text[i] \in Whitespace /\ ~InString(SubSeq(text, 1, i - 1)) THEN space ELSE <<text[i]>>])

\* A string ends in an escaped backslash.
EndsEscaped(text) ==
  \E i \in 3..Len(text) :
    /\ text[i] = Quote /\ InString(SubSeq(text, 1, i - 1)) /\ ~InString(SubSeq(text, 1, i))
    /\ text[i - 1] = Backslash
=============================================================================
