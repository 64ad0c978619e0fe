------------------------------ MODULE JsonAnswer ------------------------------
(***************************************************************************)
(* A JSON request answered in JSON: the body arrives byte by byte, is      *)
(* parsed (httpc_parse_json), or the handler builds a tree of its own; the *)
(* tree is printed into a response (httpc_create_json_response), headers   *)
(* are added and the response is serialised, by ResponseBuffer's actions.  *)
(* The texts are every one up to MaxAny words and beyond that those whose  *)
(* end alone the parser objects to.                                        *)
(***************************************************************************)
EXTENDS JsonBody, JsonGrammar, ResponseBuffer

CONSTANTS
  MaxAny,       \* words of a text of any kind
  MaxString,    \* words of a text that is one string
  MaxWords,     \* words of any other text that may still become JSON
  Built,        \* trees a handler builds
  StatusLines,  \* lengths of a status line
  Bodies,       \* lengths of a body that is plain text
  MaxHeaders    \* bytes of extra headers

VARIABLES
  count,  \* words in the body so far
  tree    \* the tree a handler has, if any

vars == <<input, count, tree, response, out>>

\* What may come next in a body: anything in a short text and in a short string,
\* later only what goes on with a text whose end is all that is wrong, without
\* the escapes, which belong in strings.
NextWords ==
  IF input = <<>> THEN Words \cup Starts
  ELSE IF count < MaxAny THEN Words
  ELSE IF input[1] = Quote /\ count < MaxString /\ InString(input) THEN Words
  ELSE IF count >= MaxWords THEN {}
  ELSE IF InString(input) THEN {<<Quote>>, <<"1">>}
  ELSE LET r == Parse(input, FALSE, Plenty)
       IN IF ~r.ok /\ r.p.offset >= Len(input) - 1 THEN {word \in Words : word[1] # Backslash} ELSE {}

NoResponse == [status |-> 0, type |-> 0, digits |-> 0, connection |-> 0, body |-> 0, headers |-> 0,
               newline |-> FALSE, room |-> 0]

\* Decimal digits of a length.
DigitsOf(n) == IF n < 10 THEN 1 ELSE IF n < 100 THEN 2 ELSE 3

\* httpc_create_response: "Content-Type: application/json", "Content-Length: ...", "Connection: keep-alive".
NewAnswer(status, body) ==
  [NoResponse EXCEPT !.status = status, !.type = 32, !.digits = 18 + DigitsOf(body),
                     !.connection = 24, !.body = body]
-----------------------------------------------------------------------------
Read ==
  /\ tree = {} /\ response = NoResponse
  /\ (\E word \in NextWords : Arrive(word)) /\ count' = count + 1
  /\ UNCHANGED <<tree, response, out>>

\* httpc_parse_json; a body it refuses is answered with a text.
ParseBody ==
  /\ input # <<>>
  /\ LET r == Parse(Terminated(input), FALSE, Plenty) IN tree' = IF r.ok THEN {r.item} ELSE {}
  /\ Taken /\ count' = 0
  /\ UNCHANGED <<response, out>>

BuildTree ==
  /\ input = <<>> /\ tree = {} /\ response = NoResponse
  /\ \E item \in Built : tree' = {item}
  /\ UNCHANGED <<input, count, response, out>>

\* httpc_create_json_response, and the tree is deleted; with too little memory there is no response.
Answer(item, status, fuel) ==
  LET printed == PrintText(item, TRUE, TRUE, fuel)
  IN /\ tree = {item}
     /\ response' = IF printed.ok THEN NewAnswer(status, Len(printed.text)) ELSE NoResponse
     /\ tree' = {}
     /\ UNCHANGED <<input, count, out>>

\* httpc_create_response with any other body.
AnswerText(status, body) ==
  /\ input = <<>> /\ tree = {} /\ response = NoResponse
  /\ response' = NewAnswer(status, body)
  /\ UNCHANGED <<input, count, tree, out>>

\* Extra headers the program writes itself, with or without the last newline.
OwnHeaders(length, newline) ==
  /\ response # NoResponse /\ response.headers = 0 /\ out = Idle
  /\ response' = [response EXCEPT !.headers = length, !.newline = newline, !.room = length + 1]
  /\ UNCHANGED <<input, count, tree, out>>

AddHeader(key, value) ==
  /\ response # NoResponse /\ response.headers + key + value + 4 <= MaxHeaders
  /\ SetHeader(key, value)
  /\ UNCHANGED <<input, count, tree>>

Serialise ==
  /\ response # NoResponse
  /\ (\E program \in Programs : Begin(program)) \/ WritePart \/ AddBody \/ Release
  /\ UNCHANGED <<input, count, tree>>

\* httpc_free_response.
FreeResponse ==
  /\ response # NoResponse /\ out = Idle
  /\ response' = NoResponse
  /\ UNCHANGED <<input, count, tree, out>>

Init == BodyInit /\ count = 0 /\ tree = {} /\ response = NoResponse /\ out = Idle

Next ==
  \/ Read \/ ParseBody \/ BuildTree
  \/ \E item \in tree, status \in StatusLines, fuel \in 0..4 : Answer(item, status, fuel)
  \/ \E status \in StatusLines, body \in Bodies : AnswerText(status, body)
  \/ \E length \in Texts, newline \in BOOLEAN : length > 0 /\ OwnHeaders(length, newline)
  \/ \E key, value \in Texts : AddHeader(key, value)
  \/ Serialise \/ FreeResponse

Spec == Init /\ [][Next]_vars
-----------------------------------------------------------------------------
\* Whichever allocation fails first and wherever the text is wrong, a parse
\* that fails leaves no block behind and one that succeeds just its tree.
AllOrNothing ==
  LET content == Terminated(input)
  IN \A fuel \in 0..(Plenty - Parse(content, FALSE, Plenty).p.fuel) :
       LET r == Parse(content, FALSE, fuel)
       IN r.p.blocks = FoldLeft(LAMBDA n, item : n + Blocks(item), 0,
                                IF r.ok THEN r.freed \o <<r.item>> ELSE r.freed)

\* The parser accepts the texts that begin with a value, and with a required
\* end those that are one value; escapes without four hex digits aside, which
\* parse_hex4 reads as the code 0.
AcceptsGrammar ==
  ~BadHex(input) =>
    \A content \in Contents :
      /\ Parse(content, FALSE, Plenty).ok <=> HasValue(content)
      /\ Parse(content, TRUE, Plenty).ok <=> content # input /\ IsDocument(content)

\* A tree that was parsed, printed and parsed again is the same tree, in both
\* formats (cJSON_Print, cJSON_PrintUnformatted, cJSON_Parse).
RoundTrip ==
  \A item \in tree, format \in BOOLEAN : IsPlain(item, FALSE) =>
    LET text == PrintPreallocated(item, 1000, format).text
        r == Parse(Terminated(text), TRUE, 1000)
    IN r.ok /\ r.item = item

\* Nothing is written or read outside the buffer however often it has to
\* grow, a failure frees it and a success yields the whole text, which
\* only a text too long for an int prevents when there is memory.  The
\* exception: cJSON_PrintBuffered with a buffer of no bytes and no realloc
\* copies one byte of it.  cJSON_PrintPreallocated needs one byte more than the
\* text and its NUL, no less and no more; so the five of cJSON.h:168 suffice.
PrintsInside ==
  \A item \in tree, format \in BOOLEAN :
    LET text == TextOf(item, format, 0)
        Whole(o) == o.text = text /\ o.nul = {Len(text)} /\ Len(text) < o.length
    IN /\ \A resizes \in BOOLEAN, fuel \in 0..5 :
            LET Good(o) == /\ ~o.outside
                           /\ o.blocks = IF o.ok THEN 1 ELSE 0
                           /\ o.ok => Whole(o)
                           /\ Len(text) + 2 > IntMax => ~o.ok
                           /\ fuel = 5 /\ Len(text) + 2 <= IntMax => o.ok
            IN /\ Good(PrintText(item, format, resizes, fuel))
               /\ \A prebuffer \in 0..5 : prebuffer > 0 \/ resizes =>
                    Good(PrintBuffered(item, prebuffer, format, resizes, fuel))
       /\ \A size \in 0..(Len(text) + 3) :
            LET o == PrintPreallocated(item, size, format)
            IN /\ ~o.outside
               /\ o.ok <=> size >= Len(text) + 2
               /\ o.ok => Whole(o)

\* Minifying takes out exactly the blanks between the strings, and comments in
\* their place (cJSON_Minify).  The exception: minify_string runs over the end
\* of a string whose last character is an escaped backslash.
MinifyKeepsStrings ==
  ~EndsEscaped(input) =>
    \A space \in {<<"newline">>, <<"/", "/", Quote, "newline">>, <<"/", "*", Quote, "*", "*", "/">>} :
      Minify(Spaced(input, space)) = Spaced(input, <<>>)
=============================================================================
