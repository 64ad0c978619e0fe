----------------------------- MODULE MCJsonAnswer -----------------------------
(***************************************************************************)
(* Bounds of JsonAnswer for TLC.                                           *)
(***************************************************************************)
EXTENDS JsonAnswer

MCLead(code) == ToString(code)

Code(a, b, c, d) == <<Backslash, "u", a, b, c, d>>

MCWords ==
  {<<byte>> : byte \in {"[", "]", "{", "}", ",", ":", "newline", Quote, Backslash, "1", "-", "n"}}
    \cup {Null, Code("1", "1", "1", "1"), Code("0", "0", "1", "1"), Code("d", "8", "1", "1"),
          Code("d", "c", "1", "1"), Code("1", "1", "n", "1")}

\* Those of the words, of what they stand for and of what is printed.
MCBytes ==
  UNION {{word[i] : i \in DOMAIN word} : word \in MCWords}
    \cup Whitespace \cup {"bom", "+", "17", "4369", "69649"}

Member == <<Quote, "1", Quote, ":">>

MCStarts ==
  {Bom, <<"{">> \o Member, <<"{">> \o Member \o <<"1", ",", "newline">>, <<"[", "[", "1", "]", ",">>,
   <<"[", "[", "]", ",", "[">>, <<"[", "{">> \o Member \o <<"1", "}", ",">>,
   <<"{">> \o Member \o <<"[", "1", "newline">>,
   <<"{">> \o Member \o <<"1", ",">> \o Member, <<"[", Quote, Backslash, Backslash, Quote>>}

String(bytes) == [Item("string") EXCEPT !.text = {bytes}]

\* Raw text, a member without a key, a string without a text, a kind that is none.
MCBuilt ==
  LET Branch(kind, kids) == [Item(kind) EXCEPT !.kids = kids]
  IN {[Item("raw") EXCEPT !.text = {<<"1", ",">>}],
      Branch("object", <<String(<<"1">>)>>),
      Branch("array", <<Item("string"), Branch("object", <<[Item("null") EXCEPT !.key = {<<Quote>>}]>>)>>)}
=============================================================================
