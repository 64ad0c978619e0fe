------------------------ MODULE RequestDispatchProofs ------------------------
(***************************************************************************)
(* Proofs about RequestDispatch: for requests with any number of pairs and *)
(* lines, and whichever and however many allocations fail.                 *)
(***************************************************************************)
EXTENDS RequestDispatch, Integers, TLAPS

USE BoundsAssumption
-----------------------------------------------------------------------------
(* The inductive invariant.  Where the control is says what each pointer   *)
(* may hold.                                                               *)

Reading == {"parse", "method", "path", "query", "pathless", "pairs", "pair", "decode", "param",
            "headers", "lines", "line", "lower", "header", "body", "abandon"}
Ending == {"refuse", "fallback", "store", "done"}
Calling == {"tree", "errortree", "data", "object", "attach", "print", "create", "type", "text",
            "giveup", "release", "decorate"}

\* A handler is where its kind takes it.
RouteInv ==
  /\ pc \in {"tree", "errortree"} => route = "json"
  /\ pc \in {"data", "object", "attach"} => route = "success"
  /\ pc = "print" => route \in {"json", "success"}
  /\ pc \in Calling => route # "null"

\* The strings of the request: made one after the other, freed all at once; but
\* the method alone, and not the query, when there is no path.
RequestInv ==
  /\ \A b \in RequestBlocks : mem[b] \in {"null", "live", "stale"}
  /\ \A b \in RequestBlocks \ {"method"} : mem[b] # "stale"
  /\ mem["method"] = "stale" => pc \in Ending
  /\ pc \in Ending => mem["method"] # "live"
  /\ pc \in {"parse", "method"} => mem["method"] = "null"
  /\ pc \notin Ending \cup {"parse", "method"} => mem["method"] = "live"
  /\ pc \in Ending \cup {"parse", "method", "path", "pathless"} => mem["path"] = "null"
  /\ pc \notin Ending \cup {"parse", "method", "path", "pathless", "query"} => mem["path"] = "live"
  /\ pc = "query" /\ mem["path"] = "null" => failures > 0
  /\ pc \in {"parse", "method", "path", "query"} => mem["query_string"] = "null"
  /\ pc \in Ending /\ mem["query_string"] # "null" => mem["method"] = "stale"
  /\ pc \in Ending \cup {"parse", "method", "path", "query", "pathless"} => mem["headers"] = "null"
  /\ pc \in (Reading \cup Ending) \ {"abandon"} => mem["body"] = "null"
  /\ pc = "match" /\ failures = 0 => (request.body <=> mem["body"] = "live")

\* The copies the parser works on.
CopiesInv ==
  /\ \A b \in {"query_copy", "decoded_value", "headers_copy", "name_lower"} : mem[b] \in {"null", "live"}
  /\ mem["query_copy"] = "live" => pc \in {"pair", "decode", "param"}
  /\ mem["decoded_value"] = "live" => pc = "param"
  /\ mem["headers_copy"] = "live" => pc \in {"line", "lower", "header"}
  /\ mem["name_lower"] = "live" => pc = "header"
  /\ pc = "decode" => request.pairs[at] = "valued"
  /\ pc = "param" /\ failures = 0 =>
       (mem["decoded_value"] = "live" <=> request.pairs[at] = "valued")

\* The handler's trees and text.
TreesInv ==
  /\ mem["json"] \in {"null", "live", "stale"} /\ mem["json_string"] \in {"null", "live"}
  /\ mem["data"] \in {"null", "live", "moved"}
  /\ mem["json"] = "live" => pc \in {"attach", "print", "create", "type", "text", "giveup", "release"}
  /\ pc \in {"attach", "print"} => mem["json"] = "live"
  /\ mem["json"] = "stale" =>
       pc \notin Reading \cup {"match", "tree", "errortree", "data", "object", "attach", "print"}
  /\ mem["json_string"] = "live" =>
       mem["json"] = "live" /\ pc \in {"create", "type", "text", "giveup", "release"}
  /\ mem["data"] # "null" => route = "success"
  /\ mem["data"] = "live" => pc \in {"object", "attach"} \/ failures > 0

\* The response: its body is not set before its content type.
ResponseInv ==
  /\ \A b \in ResponseBlocks : mem[b] \in {"null", "live", "wild"}
  /\ \A b \in ResponseBlocks \ {"response_body"} : mem[b] # "wild"
  /\ pc \notin {"type", "text", "giveup", "release", "decorate", "serialise", "free"} =>
       \A b \in ResponseBlocks : mem[b] = "null"
  /\ pc \in {"type", "text", "giveup"} => mem["response"] = "live"
  /\ pc \in {"type", "text"} => mem["response_body"] = "wild"
  /\ pc \notin {"type", "text", "giveup"} => mem["response_body"] # "wild"
  /\ pc \in {"release", "decorate", "serialise", "free"} /\ mem["response"] # "live" =>
       route = "null" \/ failures > 0
  /\ pc \in {"serialise", "free"} /\ route = "null" => mem["response"] = "null"
  /\ pc = "giveup" => failures > 0

\* The status is decided by what the parser has found and what the handler is.
Fit ==
  IF Refusable THEN 400
  ELSE [none |-> 404, null |-> 500, text |-> 200, json |-> 200, success |-> 200][route]

AnswerInv ==
  /\ mem["out"] \in {"null", "live"}
  /\ pc \notin {"free", "freerequest", "fallback", "store", "done"} => mem["out"] = "null"
  /\ mem["out"] = "null" => answer = 0
  /\ mem["out"] = "live" => answer = Fit \/ (failures > 0 /\ answer \in {400, 500})
  /\ pc \in {"free", "freerequest", "fallback"} /\ mem["out"] = "null" => failures > 0
  /\ pc \in {"store", "done"} /\ mem["out"] = "null" => failures >= 2
  /\ pc # "parse" /\ ~request.wellformed => pc \in Ending
  /\ request.lines = <<>> =>
       pc \in {"parse", "method", "path", "query", "pathless", "pairs", "pair", "decode", "param",
               "headers", "abandon"} \cup Ending
  /\ pc \in {"refuse", "abandon"} => Refusable \/ failures > 0
  /\ pc = "pathless" => failures > 0

\* The pointers, whatever the lists hold.
PointerInv == RouteInv /\ RequestInv /\ CopiesInv /\ TreesInv /\ ResponseInv /\ AnswerInv

\* The pair or line in hand is there, and of the kind that is worked on.
PlaceInv ==
  /\ at \in 1 .. (IF MaxPairs > MaxLines THEN MaxPairs ELSE MaxLines) + 1
  /\ pc \in {"pair", "decode", "param"} => at <= Len(request.pairs) + 1
  /\ pc \in {"decode", "param"} => at \in DOMAIN request.pairs /\ request.pairs[at] # "nameless"
  /\ pc \in {"line", "lower", "header"} => at <= Len(request.lines)
  /\ pc \in {"lower", "header"} => at < Len(request.lines) /\ request.lines[at] = "field"

\* How many pairs and lines the parser has dealt with.
PairsDone ==
  CASE pc \in Ending \cup {"parse", "method", "path", "query", "pathless", "pairs"} -> 0
    [] pc \in {"pair", "decode", "param"} -> at - 1
    [] OTHER -> Len(request.pairs)
LinesDone ==
  CASE pc \in Ending \cup {"parse", "method", "path", "query", "pathless", "pairs", "pair", "decode",
                          "param", "headers", "lines"} -> 0
    [] pc \in {"line", "lower", "header"} -> at - 1
    [] OTHER -> IF request.lines = <<>> THEN 0 ELSE Len(request.lines) - 1

\* What a list holds of the first n pairs or lines if no allocation fails.
Value(k) == IF request.pairs[k] = "valued" THEN "sent" ELSE "empty"
ParamsOf(n) ==
  {[pair |-> k, value |-> Value(k)] :
     k \in {k \in DOMAIN request.pairs : k <= n /\ request.pairs[k] # "nameless"}}
FieldsOf(n) == {k \in 1 .. n : request.lines[k] = "field"}

ParamsInv ==
  /\ params \in Seq([pair : 1 .. MaxPairs, value : {"sent", "empty"}])
  /\ \A i, j \in DOMAIN params : i < j => params[i].pair > params[j].pair
  /\ \A i \in DOMAIN params : params[i].pair <= PairsDone
  /\ failures = 0 => {params[i] : i \in DOMAIN params} = ParamsOf(PairsDone)

HeadersInv ==
  /\ headers \in Seq(1 .. MaxLines)
  /\ \A i, j \in DOMAIN headers : i < j => headers[i] > headers[j]
  /\ \A i \in DOMAIN headers : headers[i] <= LinesDone
  /\ failures = 0 => {headers[i] : i \in DOMAIN headers} = FieldsOf(LinesDone)

\* The nodes are those that are linked, each with its two strings.
NodesOf(list, S) == {<<list, k, Parts[i]>> : k \in S, i \in 1 .. 3}
PairsStored == {params[i].pair : i \in DOMAIN params}
FieldsStored == {headers[i] : i \in DOMAIN headers}
NodesInv == nodes = NodesOf("param", PairsStored) \cup NodesOf("header", FieldsStored)

ListInv == PlaceInv /\ ParamsInv /\ HeadersInv /\ NodesInv

HeapType ==
  /\ request \in Requests /\ route \in DOMAIN Entry /\ pc \in Places
  /\ mem \in [Blocks -> Holds] /\ failures \in 0 .. MaxFailures /\ misused \subseteq Blocks

\* A response is stored, unless the missing one counts as misused.
StoredInv == pc = "done" /\ misused = {} => mem["out"] = "live"

InductiveInvariant == HeapType /\ PointerInv /\ ListInv /\ StoredInv /\ OnlyKnownMisuse
-----------------------------------------------------------------------------
\* The three flags of a request are Boolean.
LEMMA RequestType ==
  ASSUME request \in Requests
  PROVE  request.wellformed \in BOOLEAN /\ request.query \in BOOLEAN /\ request.body \in BOOLEAN
  BY DEF Requests

\* What a pointer may hold, kept by every step of the parser.
LEMMA ReadingPointers ==
  ASSUME HeapType, PointerInv, misused = {}, ParseRequest
  PROVE  PointerInv'
<1> USE DEF HeapType, Places, Reading, Ending, Calling, RequestBlocks, ResponseBlocks, Locals, Blocks,
        Holds,
        PointerInv, RouteInv, RequestInv, CopiesInv, TreesInv, ResponseInv, AnswerInv, Fit, Refusable,
        input, Goto, Malloc, Free, FreeRequest, FreeName, Build, Entry
<1>1. CASE Parse
  BY <1>1, RequestType, SMTT(60) DEF Parse
<1>2. CASE CopyMethod
  BY <1>2, RequestType, SMTT(60) DEF CopyMethod
<1>3. CASE CopyPath
  BY <1>3, RequestType, SMTT(60) DEF CopyPath
<1>4. CASE CopyQuery
  BY <1>4, RequestType, SMTT(60) DEF CopyQuery
<1>5. CASE Pathless
  BY <1>5, RequestType, SMTT(60) DEF Pathless
<1>6. CASE CopyPairs
  BY <1>6, RequestType, SMTT(60) DEF CopyPairs
<1>7. CASE Pair
  BY <1>7, RequestType, SMTT(60) DEF Pair
<1>8. CASE Decode
  BY <1>8, RequestType, SMTT(60) DEF Decode
<1>9. CASE AddQueryParam
  BY <1>9, RequestType, SMTT(60) DEF AddQueryParam
<1>10. CASE CopyHeaders
  BY <1>10, RequestType, SMTT(60) DEF CopyHeaders
<1>11. CASE CopyLines
  BY <1>11, RequestType, SMTT(60) DEF CopyLines
<1>12. CASE Line
  BY <1>12, RequestType, SMTT(60) DEF Line
<1>13. CASE CopyName
  BY <1>13, RequestType, SMTT(60) DEF CopyName
<1>14. CASE AddHeader
  BY <1>14, RequestType, SMTT(60) DEF AddHeader
<1>15. CASE CopyBody
  BY <1>15, RequestType, SMTT(60) DEF CopyBody
<1>16. CASE Abandon
  BY <1>16, RequestType, SMTT(60) DEF Abandon
<1> QED BY <1>1, <1>2, <1>3, <1>4, <1>5, <1>6, <1>7, <1>8, <1>9, <1>10, <1>11, <1>12, <1>13, <1>14,
        <1>15, <1>16 DEF ParseRequest

\* The same for every step of the handler and the helpers it calls.
LEMMA HandlingPointers ==
  ASSUME HeapType, PointerInv, misused = {}, Handle
  PROVE  PointerInv'
<1> USE DEF HeapType, Places, Reading, Ending, Calling, RequestBlocks, ResponseBlocks, Locals, Blocks,
        Holds,
        PointerInv, RouteInv, RequestInv, CopiesInv, TreesInv, ResponseInv, AnswerInv, Fit, Refusable,
        input, Goto, Malloc, Free, FreeRequest, FreeName, Build, Entry
<1>1. CASE Match
  BY <1>1, RequestType, SMTT(60) DEF Match
<1>2. CASE CreateTree
  BY <1>2, RequestType, SMTT(60) DEF CreateTree
<1>3. CASE CreateData
  BY <1>3, RequestType, SMTT(60) DEF CreateData
<1>4. CASE CreateObject
  BY <1>4, RequestType, SMTT(60) DEF CreateObject
<1>5. CASE Attach
  BY <1>5, RequestType, SMTT(60) DEF Attach
<1>6. CASE PrintTree
  BY <1>6, RequestType, SMTT(60) DEF PrintTree
<1>7. CASE CreateResponse
  BY <1>7, RequestType, SMTT(60) DEF CreateResponse
<1>8. CASE CopyType
  BY <1>8, RequestType, SMTT(60) DEF CopyType
<1>9. CASE CopyText
  BY <1>9, RequestType, SMTT(60) DEF CopyText
<1>10. CASE GiveUpResponse
  BY <1>10, RequestType, SMTT(60) DEF GiveUpResponse
<1>11. CASE Release
  BY <1>11, RequestType, SMTT(60) DEF Release
<1>12. CASE SetHeader
  BY <1>12, RequestType, SMTT(60) DEF SetHeader
<1>13. CASE HandlerReturns
  BY <1>13, RequestType, SMTT(60) DEF HandlerReturns
<1> QED BY <1>1, <1>2, <1>3, <1>4, <1>5, <1>6, <1>7, <1>8, <1>9, <1>10, <1>11, <1>12, <1>13 DEF Handle

\* The same for the rest of dispatch_request.
LEMMA RespondingPointers ==
  ASSUME HeapType, PointerInv, misused = {}, Respond
  PROVE  PointerInv'
<1> USE DEF HeapType, Places, Reading, Ending, Calling, RequestBlocks, ResponseBlocks, Locals, Blocks,
        Holds,
        PointerInv, RouteInv, RequestInv, CopiesInv, TreesInv, ResponseInv, AnswerInv, Fit, Refusable,
        input, Goto, Malloc, Free, FreeRequest, FreeName, Build, Entry
<1>1. CASE Refuse
  BY <1>1, RequestType, SMTT(60) DEF Refuse
<1>2. CASE Serialise
  BY <1>2, RequestType, SMTT(60) DEF Serialise
<1>3. CASE FreeResponse
  BY <1>3, RequestType, SMTT(60) DEF FreeResponse
<1>4. CASE FreeTheRequest
  BY <1>4, RequestType, SMTT(60) DEF FreeTheRequest
<1>5. CASE Fallback
  BY <1>5, RequestType, SMTT(60) DEF Fallback
<1>6. CASE Store
  BY <1>6, RequestType, SMTT(60) DEF Store
<1> QED BY <1>1, <1>2, <1>3, <1>4, <1>5, <1>6 DEF Respond

\* The texts of a request are sequences of bounded length.
LEMMA RequestShape ==
  ASSUME request \in Requests
  PROVE  /\ request.pairs \in Seq({"valued", "bare", "nameless"}) /\ Len(request.pairs) \in 0 .. MaxPairs
         /\ request.lines \in Seq({"field", "other"}) /\ Len(request.lines) \in 0 .. MaxLines
         /\ ~request.query => Len(request.pairs) = 0
<1>1. /\ request.pairs \in SeqsUpTo({"valued", "bare", "nameless"}, MaxPairs)
      /\ request.lines \in SeqsUpTo({"field", "other"}, MaxLines)
      /\ request.query \/ request.pairs = <<>>
  BY DEF Requests
<1>2. PICK k \in 0 .. MaxPairs : request.pairs \in [1 .. k -> {"valued", "bare", "nameless"}]
  BY <1>1 DEF SeqsUpTo
<1>3. PICK n \in 0 .. MaxLines : request.lines \in [1 .. n -> {"field", "other"}]
  BY <1>1 DEF SeqsUpTo
<1> QED BY <1>1, <1>2, <1>3

\* A sequence with an element put before it.
LEMMA Prepend ==
  ASSUME NEW S, NEW s \in Seq(S), NEW e \in S
  PROVE  /\ <<e>> \o s \in Seq(S)
         /\ DOMAIN (<<e>> \o s) = 1 .. Len(s) + 1 /\ DOMAIN s = 1 .. Len(s) /\ Len(s) \in Nat
         /\ (<<e>> \o s)[1] = e
         /\ \A i \in DOMAIN s : (<<e>> \o s)[i + 1] = s[i]
         /\ \A i \in DOMAIN (<<e>> \o s) : i # 1 => i - 1 \in DOMAIN s /\ (<<e>> \o s)[i] = s[i - 1]
  OBVIOUS

\* What query list elements are.
LEMMA ParamType ==
  ASSUME ParamsInv, NEW i \in DOMAIN params
  PROVE  params[i] \in [pair : 1 .. MaxPairs, value : {"sent", "empty"}] /\ params[i].pair \in 1 .. MaxPairs
<1> DEFINE R == [pair : 1 .. MaxPairs, value : {"sent", "empty"}]
<1>1. params \in Seq(R)
  BY DEF ParamsInv
<1>2. params[i] \in R
  <2> HIDE DEF R
  <2> QED BY <1>1
<1> QED BY <1>2

\* The query list is right after a step that leaves it alone and deals with no
\* named pair, or with one whose node could not be allocated.
LEMMA KeepParams ==
  ASSUME HeapType, PlaceInv, PlaceInv', ParamsInv, UNCHANGED <<request, params>>, failures' \in Nat,
         failures' >= failures,
         \/ PairsDone' = PairsDone
         \/ /\ PairsDone' >= PairsDone
            /\ \/ failures' > 0
               \/ \A k \in DOMAIN request.pairs :
                    PairsDone < k /\ k <= PairsDone' => request.pairs[k] = "nameless"
  PROVE  ParamsInv'
<1>1. PairsDone \in Int /\ PairsDone' \in Int
  BY RequestShape DEF PairsDone, HeapType, PlaceInv
<1>2. DOMAIN request.pairs \subseteq Nat
  BY RequestShape DEF HeapType
<1>3. ASSUME NEW i \in DOMAIN params
      PROVE  params[i].pair \in Nat
  BY ParamType
<1>4. \A i \in DOMAIN params : params[i].pair <= PairsDone'
  BY <1>1, <1>3 DEF ParamsInv
<1>5. ASSUME failures' = 0
      PROVE  ParamsOf(PairsDone)' = ParamsOf(PairsDone)
  <2>1. \A k \in DOMAIN request.pairs : request.pairs[k] # "nameless" => (k <= PairsDone' <=> k <= PairsDone)
    BY <1>1, <1>2, <1>5
  <2> QED BY <2>1 DEF ParamsOf, Value
<1>6. failures' = 0 => failures = 0
  BY DEF HeapType
<1> QED BY <1>4, <1>5, <1>6 DEF ParamsInv

\* The same for the header list.
LEMMA KeepHeaders ==
  ASSUME HeapType, PlaceInv, PlaceInv', HeadersInv, UNCHANGED <<request, headers>>,
         failures' \in Nat, failures' >= failures,
         \/ LinesDone' = LinesDone
         \/ /\ LinesDone' >= LinesDone
            /\ \/ failures' > 0
               \/ \A k \in 1 .. LinesDone' : LinesDone < k => request.lines[k] # "field"
  PROVE  HeadersInv'
<1>1. LinesDone \in Int /\ LinesDone' \in Int
  BY RequestShape DEF LinesDone, HeapType, PlaceInv
<1>2. \A i \in DOMAIN headers : headers[i] \in Nat
  BY DEF HeadersInv
<1>3. \A i \in DOMAIN headers : headers[i] <= LinesDone'
  BY <1>1, <1>2 DEF HeadersInv
<1>4. ASSUME failures' = 0
      PROVE  FieldsOf(LinesDone)' = FieldsOf(LinesDone)
  <2>1. \A k : k \in 1 .. LinesDone' /\ request.lines[k] = "field" <=> k \in 1 .. LinesDone /\ request.lines[k] = "field"
    BY <1>1, <1>4
  <2> QED BY <2>1 DEF FieldsOf
<1>5. failures' = 0 => failures = 0
  BY DEF HeapType
<1> QED BY <1>3, <1>4, <1>5 DEF HeadersInv

\* The nodes of one more pair or field.
LEMMA NodesGrow ==
  ASSUME NEW list, NEW S, NEW k
  PROVE  NodesOf(list, S \cup {k}) = NodesOf(list, S) \cup NodesOf(list, {k})
  BY DEF NodesOf

\* The nodes are right after a step that leaves the lists alone.
LEMMA KeepNodes ==
  ASSUME NodesInv, UNCHANGED lists
  PROVE  NodesInv'
  BY DEF NodesInv, NodesOf, PairsStored, FieldsStored, lists

\* httpc_free_request frees every node there is.
LEMMA DropLists ==
  ASSUME HeapType, UNCHANGED request, ParamsInv, HeadersInv, NodesInv, FreeRequest, LinesDone' = 0,
         PairsDone' = 0
  PROVE  ParamsInv' /\ HeadersInv' /\ NodesInv'
<1>1. params' = <<>> /\ headers' = <<>>
  BY DEF FreeRequest
<1>2. ASSUME NEW n \in nodes
      PROVE  <<n[1], n[2]>> \in Linked
  <2>1. CASE n \in NodesOf("param", PairsStored)
    BY <2>1 DEF NodesOf, PairsStored, Linked
  <2>2. CASE n \in NodesOf("header", FieldsStored)
    BY <2>2 DEF NodesOf, FieldsStored, Linked
  <2> QED BY <2>1, <2>2 DEF NodesInv
<1>3. nodes' = {}
  BY <1>2 DEF FreeRequest
<1>4. NodesInv'
  BY <1>1, <1>3 DEF NodesInv, NodesOf, PairsStored, FieldsStored
<1>5. ParamsOf(PairsDone)' = {} /\ FieldsOf(LinesDone)' = {}
  <2>1. \A k \in DOMAIN request'.pairs : ~ (k <= PairsDone')
    BY RequestShape DEF HeapType
  <2> QED BY <2>1 DEF ParamsOf, FieldsOf
<1> QED BY <1>1, <1>4, <1>5 DEF ParamsInv, HeadersInv

\* add_query_param links a whole node or leaves nothing allocated.
LEMMA AddToParams ==
  ASSUME HeapType, PointerInv, PlaceInv, ParamsInv, HeadersInv, NodesInv, AddQueryParam
  PROVE  ParamsInv' /\ NodesInv'
<1> DEFINE R == [pair : 1 .. MaxPairs, value : {"sent", "empty"}]
           e == [pair |-> at, value |-> IF mem["decoded_value"] = "live" THEN "sent" ELSE "empty"]
<1>1. /\ pc = "param" /\ pc' = "pair" /\ at' = at + 1 /\ request' = request /\ headers' = headers
      /\ at \in 1 .. Len(request.pairs) /\ at \in 1 .. MaxPairs /\ request.pairs[at] # "nameless"
  BY RequestShape DEF AddQueryParam, Goto, input, HeapType, PlaceInv
<1>2. PairsDone = at - 1 /\ PairsDone' = at
  BY <1>1 DEF PairsDone, Ending
<1>3. e \in R
  BY <1>1
<1>4. \A i \in DOMAIN params : params[i] \in R /\ params[i].pair \in Nat /\ params[i].pair < at
  <2>1. \A i \in DOMAIN params : params[i].pair <= at - 1
    BY <1>2 DEF ParamsInv
  <2> QED BY <1>1, <2>1, ParamType
<1>5. params \in Seq(R)
  BY DEF ParamsInv
<1>6. CASE params' = <<e>> \o params /\ nodes' = nodes \cup NodesOf("param", {at}) /\ failures' = failures
  <2>1. /\ params' \in Seq(R) /\ DOMAIN params' = 1 .. Len(params) + 1 /\ DOMAIN params = 1 .. Len(params)
        /\ Len(params) \in Nat /\ params'[1] = e
        /\ \A i \in DOMAIN params : params'[i + 1] = params[i]
        /\ \A i \in DOMAIN params' : i # 1 => i - 1 \in DOMAIN params /\ params'[i] = params[i - 1]
    <3> HIDE DEF R, e
    <3> QED BY <1>3, <1>5, <1>6, Prepend
  <2>2. ASSUME NEW i \in DOMAIN params', NEW j \in DOMAIN params', i < j
        PROVE  params'[i].pair > params'[j].pair
    <3>1. j # 1 /\ j - 1 \in DOMAIN params /\ params'[j] = params[j - 1] /\ params[j - 1].pair < at
      BY <1>4, <2>1, <2>2
    <3>2. CASE i = 1
      BY <2>1, <3>1, <3>2, <1>1, <1>4
    <3>3. CASE i # 1
      <4>1. i - 1 \in DOMAIN params /\ params'[i] = params[i - 1] /\ i - 1 < j - 1
        BY <2>1, <2>2, <3>3
      <4> QED BY <3>1, <4>1 DEF ParamsInv
    <3> QED BY <3>2, <3>3
  <2>3. ASSUME NEW i \in DOMAIN params'
        PROVE  params'[i].pair <= PairsDone'
    <3>1. CASE i = 1
      BY <2>1, <3>1, <1>1, <1>2
    <3>2. CASE i # 1
      <4>1. params'[i] = params[i - 1] /\ params[i - 1].pair < at /\ params[i - 1].pair \in Nat
        BY <2>1, <3>2, <1>4
      <4> QED BY <4>1, <1>1, <1>2
    <3> QED BY <3>1, <3>2
  <2>4. {params'[i] : i \in DOMAIN params'} = {e} \cup {params[i] : i \in DOMAIN params}
    <3> HIDE DEF e
    <3>1. 1 \in DOMAIN params' /\ \A i \in DOMAIN params : i + 1 \in DOMAIN params'
      BY <2>1
    <3> QED BY <2>1, <3>1
  <2>5. PairsStored' = PairsStored \cup {at}
    <3>1. 1 \in DOMAIN params' /\ \A i \in DOMAIN params : i + 1 \in DOMAIN params'
      BY <2>1
    <3> QED BY <2>1, <3>1 DEF PairsStored
  <2>6. NodesInv'
    <3>1. FieldsStored' = FieldsStored
      BY <1>1 DEF FieldsStored
    <3>2. nodes' = NodesOf("param", PairsStored \cup {at}) \cup NodesOf("header", FieldsStored)
      <4>1. NodesOf("param", PairsStored \cup {at}) = NodesOf("param", PairsStored) \cup NodesOf("param", {at})
        BY NodesGrow
      <4> QED BY <1>6, <4>1 DEF NodesInv
    <3> QED BY <2>5, <3>1, <3>2 DEF NodesInv
  <2>7. ASSUME failures = 0
        PROVE  ParamsOf(PairsDone)' = {e} \cup ParamsOf(PairsDone)
    <3>1. e = [pair |-> at, value |-> Value(at)]
      BY <1>1, <2>7 DEF Value, PointerInv, CopiesInv
    <3>2. \A k \in DOMAIN request.pairs : k <= at <=> k = at \/ k <= at - 1
      BY <1>1
    <3>3. at \in DOMAIN request.pairs /\ ~ (at <= at - 1)
      BY <1>1, RequestShape DEF HeapType
    <3> HIDE DEF e
    <3> QED BY <1>1, <1>2, <3>1, <3>2, <3>3 DEF ParamsOf, Value
  <2> QED BY <1>6, <2>1, <2>2, <2>3, <2>4, <2>6, <2>7 DEF ParamsInv
<1>7. CASE params' = params /\ failures' = failures + 1 /\ \E n \in 0 .. 2 : Built("param", n)
  <2>1. at \notin PairsStored
    BY <1>1, <1>4 DEF PairsStored
  <2>2. PICK n \in 0 .. 2 : nodes' = nodes \ {<<"param", at, Parts[i]>> : i \in 1 .. n}
    <3>1. PICK n \in 0 .. 2 : Built("param", n)
      BY <1>7
    <3> QED BY <3>1 DEF Built
  <2>3. nodes' = nodes
    BY <2>1, <2>2 DEF NodesInv, NodesOf
  <2>4. NodesInv'
    <3>1. FieldsStored' = FieldsStored /\ PairsStored' = PairsStored
      BY <1>1, <1>7 DEF FieldsStored, PairsStored
    <3> QED BY <2>3, <3>1 DEF NodesInv
  <2>5. \A i \in DOMAIN params' : params'[i].pair <= PairsDone'
    BY <1>1, <1>2, <1>4, <1>7
  <2>6. failures' # 0
    BY <1>7 DEF HeapType
  <2> QED BY <1>7, <2>4, <2>5, <2>6 DEF ParamsInv
<1> QED
  <2>1. CASE Built("param", 3) /\ LinkParam /\ UNCHANGED failures
    <3>1. nodes' = nodes \cup NodesOf("param", {at})
      BY <2>1 DEF Built, NodesOf
    <3> QED BY <2>1, <3>1, <1>6 DEF LinkParam
  <2> QED BY <1>7, <2>1 DEF AddQueryParam

\* So does parse_headers.
LEMMA AddToHeaders ==
  ASSUME HeapType, PlaceInv, HeadersInv, NodesInv, AddHeader
  PROVE  HeadersInv' /\ NodesInv'
<1>1. /\ pc = "header" /\ pc' = "line" /\ at' = at + 1 /\ request' = request /\ params' = params
      /\ at \in 1 .. Len(request.lines) /\ at \in 1 .. MaxLines /\ request.lines[at] = "field"
  BY RequestShape DEF AddHeader, Goto, input, HeapType, PlaceInv
<1>2. LinesDone = at - 1 /\ LinesDone' = at
  BY <1>1 DEF LinesDone, Ending
<1>3. \A i \in DOMAIN headers : headers[i] \in Nat /\ headers[i] < at
  <2>1. \A i \in DOMAIN headers : headers[i] <= at - 1 /\ headers[i] \in 1 .. MaxLines
    BY <1>2 DEF HeadersInv
  <2> QED BY <1>1, <2>1
<1>4. CASE headers' = <<at>> \o headers /\ nodes' = nodes \cup NodesOf("header", {at}) /\ failures' = failures
  <2>1. /\ headers' \in Seq(1 .. MaxLines) /\ DOMAIN headers' = 1 .. Len(headers) + 1
        /\ DOMAIN headers = 1 .. Len(headers) /\ Len(headers) \in Nat /\ headers'[1] = at
        /\ \A i \in DOMAIN headers : headers'[i + 1] = headers[i]
        /\ \A i \in DOMAIN headers' : i # 1 => i - 1 \in DOMAIN headers /\ headers'[i] = headers[i - 1]
    <3>1. headers \in Seq(1 .. MaxLines)
      BY DEF HeadersInv
    <3> QED BY <1>1, <1>4, <3>1, Prepend
  <2>2. ASSUME NEW i \in DOMAIN headers', NEW j \in DOMAIN headers', i < j
        PROVE  headers'[i] > headers'[j]
    <3>1. j # 1 /\ j - 1 \in DOMAIN headers /\ headers'[j] = headers[j - 1] /\ headers[j - 1] < at
      BY <1>3, <2>1, <2>2
    <3>2. CASE i = 1
      BY <2>1, <3>1, <3>2, <1>1, <1>3
    <3>3. CASE i # 1
      <4>1. i - 1 \in DOMAIN headers /\ headers'[i] = headers[i - 1] /\ i - 1 < j - 1
        BY <2>1, <2>2, <3>3
      <4> QED BY <3>1, <4>1 DEF HeadersInv
    <3> QED BY <3>2, <3>3
  <2>3. ASSUME NEW i \in DOMAIN headers'
        PROVE  headers'[i] <= LinesDone'
    <3>1. CASE i = 1
      BY <2>1, <3>1, <1>1, <1>2
    <3>2. CASE i # 1
      BY <2>1, <3>2, <1>1, <1>2, <1>3
    <3> QED BY <3>1, <3>2
  <2>4. FieldsStored' = FieldsStored \cup {at}
    <3>1. 1 \in DOMAIN headers' /\ \A i \in DOMAIN headers : i + 1 \in DOMAIN headers'
      BY <2>1
    <3>2. FieldsStored' \subseteq FieldsStored \cup {at}
      BY <2>1 DEF FieldsStored
    <3>3. at \in FieldsStored' /\ FieldsStored \subseteq FieldsStored'
      BY <2>1, <3>1 DEF FieldsStored
    <3> QED BY <3>2, <3>3
  <2>5. NodesInv'
    <3>1. PairsStored' = PairsStored
      BY <1>1 DEF PairsStored
    <3>2. nodes' = NodesOf("param", PairsStored) \cup NodesOf("header", FieldsStored \cup {at})
      <4>1. NodesOf("header", FieldsStored \cup {at}) = NodesOf("header", FieldsStored) \cup NodesOf("header", {at})
        BY NodesGrow
      <4> QED BY <1>4, <4>1 DEF NodesInv
    <3> QED BY <2>4, <3>1, <3>2 DEF NodesInv
  <2>6. FieldsOf(LinesDone)' = FieldsOf(LinesDone) \cup {at}
    BY <1>1, <1>2 DEF FieldsOf
  <2> QED BY <1>4, <2>1, <2>2, <2>3, <2>4, <2>5, <2>6 DEF HeadersInv, FieldsStored
<1>5. CASE headers' = headers /\ failures' = failures + 1 /\ \E n \in 0 .. 2 : Built("header", n)
  <2>1. at \notin FieldsStored
    BY <1>1, <1>3 DEF FieldsStored
  <2>2. PICK n \in 0 .. 2 : nodes' = nodes \ {<<"header", at, Parts[i]>> : i \in 1 .. n}
    <3>1. PICK n \in 0 .. 2 : Built("header", n)
      BY <1>5
    <3> QED BY <3>1 DEF Built
  <2>3. nodes' = nodes
    BY <2>1, <2>2 DEF NodesInv, NodesOf
  <2>4. NodesInv'
    <3>1. FieldsStored' = FieldsStored /\ PairsStored' = PairsStored
      BY <1>1, <1>5 DEF FieldsStored, PairsStored
    <3> QED BY <2>3, <3>1 DEF NodesInv
  <2>5. \A i \in DOMAIN headers' : headers'[i] <= LinesDone'
    BY <1>1, <1>2, <1>3, <1>5
  <2>6. failures' # 0
    BY <1>5 DEF HeapType
  <2> QED BY <1>5, <2>4, <2>5, <2>6 DEF HeadersInv
<1> QED
  <2>1. CASE Built("header", 3) /\ headers' = <<at>> \o headers /\ UNCHANGED failures
    <3>1. nodes' = nodes \cup NodesOf("header", {at})
      BY <2>1 DEF Built, NodesOf
    <3> QED BY <2>1, <3>1, <1>4
  <2> QED BY <1>5, <2>1 DEF AddHeader

\* The lists and their nodes through every step of the parser.
LEMMA ReadingLists ==
  ASSUME HeapType, PointerInv, ListInv, ParseRequest
  PROVE  ListInv'
<1> USE RequestShape DEF Ending, input, lists, Goto, Malloc, Free, Build
<1>1. /\ PlaceInv /\ ParamsInv /\ HeadersInv /\ NodesInv /\ request \in Requests /\ failures \in Nat
      /\ pc \in Places
  BY DEF ListInv, HeapType
<1>2. CASE Parse
  <2>1. PlaceInv'
    BY <1>1, <1>2 DEF PlaceInv, Parse
  <2>2. UNCHANGED <<request, params, headers, nodes>> /\ failures' \in Nat /\ failures' >= failures
    BY <1>1, <1>2 DEF Parse
  <2>3. PairsDone' = PairsDone
    BY <1>1, <1>2 DEF PairsDone, PlaceInv, Parse
  <2>4. LinesDone' = LinesDone
    BY <1>1, <1>2 DEF LinesDone, PlaceInv, Parse
  <2> QED BY <1>1, <2>1, <2>2, <2>3, <2>4, KeepParams, KeepHeaders, KeepNodes DEF ListInv
<1>3. CASE CopyMethod
  <2>1. PlaceInv'
    BY <1>1, <1>3 DEF PlaceInv, CopyMethod
  <2>2. UNCHANGED <<request, params, headers, nodes>> /\ failures' \in Nat /\ failures' >= failures
    BY <1>1, <1>3 DEF CopyMethod
  <2>3. PairsDone' = PairsDone
    BY <1>1, <1>3 DEF PairsDone, PlaceInv, CopyMethod
  <2>4. LinesDone' = LinesDone
    BY <1>1, <1>3 DEF LinesDone, PlaceInv, CopyMethod
  <2> QED BY <1>1, <2>1, <2>2, <2>3, <2>4, KeepParams, KeepHeaders, KeepNodes DEF ListInv
<1>4. CASE CopyPath
  <2>1. PlaceInv'
    BY <1>1, <1>4 DEF PlaceInv, CopyPath
  <2>2. UNCHANGED <<request, params, headers, nodes>> /\ failures' \in Nat /\ failures' >= failures
    BY <1>1, <1>4 DEF CopyPath
  <2>3. PairsDone' = PairsDone
    BY <1>1, <1>4 DEF PairsDone, PlaceInv, CopyPath
  <2>4. LinesDone' = LinesDone
    BY <1>1, <1>4 DEF LinesDone, PlaceInv, CopyPath
  <2> QED BY <1>1, <2>1, <2>2, <2>3, <2>4, KeepParams, KeepHeaders, KeepNodes DEF ListInv
<1>5. CASE CopyQuery
  <2>1. PlaceInv'
    BY <1>1, <1>5 DEF PlaceInv, CopyQuery
  <2>2. UNCHANGED <<request, params, headers, nodes>> /\ failures' \in Nat /\ failures' >= failures
    BY <1>1, <1>5 DEF CopyQuery
  <2>3. PairsDone' >= PairsDone /\ (PairsDone' = PairsDone \/ failures' > 0)
    BY <1>1, <1>5 DEF PairsDone, PlaceInv, CopyQuery
  <2>4. LinesDone' = LinesDone
    BY <1>1, <1>5 DEF LinesDone, PlaceInv, CopyQuery
  <2> QED BY <1>1, <2>1, <2>2, <2>3, <2>4, KeepParams, KeepHeaders, KeepNodes DEF ListInv
<1>6. CASE Pathless
  <2>1. PlaceInv'
    BY <1>1, <1>6 DEF PlaceInv, Pathless
  <2>2. UNCHANGED <<request, params, headers, nodes>> /\ failures' \in Nat /\ failures' >= failures
    BY <1>1, <1>6 DEF Pathless
  <2>3. PairsDone' = PairsDone
    BY <1>1, <1>6 DEF PairsDone, PlaceInv, Pathless
  <2>4. LinesDone' = LinesDone
    BY <1>1, <1>6 DEF LinesDone, PlaceInv, Pathless
  <2> QED BY <1>1, <2>1, <2>2, <2>3, <2>4, KeepParams, KeepHeaders, KeepNodes DEF ListInv
<1>7. CASE CopyPairs
  <2>1. PlaceInv'
    BY <1>1, <1>7 DEF PlaceInv, CopyPairs
  <2>2. UNCHANGED <<request, params, headers, nodes>> /\ failures' \in Nat /\ failures' >= failures
    BY <1>1, <1>7 DEF CopyPairs
  <2>3. PairsDone' >= PairsDone /\ (PairsDone' = PairsDone \/ failures' > 0)
    BY <1>1, <1>7 DEF PairsDone, PlaceInv, CopyPairs
  <2>4. LinesDone' = LinesDone
    BY <1>1, <1>7 DEF LinesDone, PlaceInv, CopyPairs
  <2> QED BY <1>1, <2>1, <2>2, <2>3, <2>4, KeepParams, KeepHeaders, KeepNodes DEF ListInv
<1>8. CASE Pair
  <2>1. PlaceInv'
    BY <1>1, <1>8 DEF PlaceInv, Pair
  <2>2. UNCHANGED <<request, params, headers, nodes>> /\ failures' \in Nat /\ failures' >= failures
    BY <1>1, <1>8 DEF Pair
  <2>3. PairsDone' >= PairsDone /\ \A k \in DOMAIN request.pairs :
          PairsDone < k /\ k <= PairsDone' => request.pairs[k] = "nameless"
    <3>1. at \in Nat /\ at >= 1 /\ at <= Len(request.pairs) + 1 /\ PairsDone = at - 1
      BY <1>1, <1>8 DEF PairsDone, PlaceInv, Pair
    <3>2. CASE at <= Len(request.pairs) /\ request.pairs[at] = "nameless" /\ at' = at + 1 /\ UNCHANGED pc
      BY <1>1, <1>8, <3>1, <3>2 DEF PairsDone, Pair
    <3>3. CASE at <= Len(request.pairs) /\ pc' \in {"decode", "param"} /\ at' = at
      BY <1>1, <1>8, <3>1, <3>3 DEF PairsDone, Pair
    <3>4. CASE at > Len(request.pairs) /\ pc' = "headers"
      BY <1>1, <1>8, <3>1, <3>4 DEF PairsDone, Pair
    <3> QED BY <1>8, <3>2, <3>3, <3>4 DEF Pair
  <2>4. LinesDone' = LinesDone
    BY <1>1, <1>8 DEF LinesDone, PlaceInv, Pair
  <2> QED BY <1>1, <2>1, <2>2, <2>3, <2>4, KeepParams, KeepHeaders, KeepNodes DEF ListInv
<1>9. CASE Decode
  <2>1. PlaceInv'
    BY <1>1, <1>9 DEF PlaceInv, Decode
  <2>2. UNCHANGED <<request, params, headers, nodes>> /\ failures' \in Nat /\ failures' >= failures
    BY <1>1, <1>9 DEF Decode
  <2>3. PairsDone' = PairsDone
    BY <1>1, <1>9 DEF PairsDone, PlaceInv, Decode
  <2>4. LinesDone' = LinesDone
    BY <1>1, <1>9 DEF LinesDone, PlaceInv, Decode
  <2> QED BY <1>1, <2>1, <2>2, <2>3, <2>4, KeepParams, KeepHeaders, KeepNodes DEF ListInv
<1>10. CASE AddQueryParam
  <2>1. PlaceInv'
    BY <1>1, <1>10 DEF PlaceInv, AddQueryParam
  <2>2. UNCHANGED <<request, headers>> /\ failures' \in Nat /\ failures' >= failures
    BY <1>1, <1>10 DEF AddQueryParam
  <2>3. LinesDone' = LinesDone
    BY <1>1, <1>10 DEF LinesDone, AddQueryParam
  <2>4. HeadersInv'
    BY <1>1, <2>1, <2>2, <2>3, KeepHeaders
  <2> QED BY <1>1, <1>10, <2>1, <2>4, AddToParams DEF ListInv
<1>11. CASE CopyHeaders
  <2>1. PlaceInv'
    BY <1>1, <1>11 DEF PlaceInv, CopyHeaders
  <2>2. UNCHANGED <<request, params, headers, nodes>> /\ failures' \in Nat /\ failures' >= failures
    BY <1>1, <1>11 DEF CopyHeaders
  <2>3. PairsDone' = PairsDone
    BY <1>1, <1>11 DEF PairsDone, PlaceInv, CopyHeaders
  <2>4. LinesDone' = LinesDone \/ (failures' > 0 /\ LinesDone' >= LinesDone)
    BY <1>1, <1>11 DEF LinesDone, PlaceInv, CopyHeaders
  <2> QED BY <1>1, <2>1, <2>2, <2>3, <2>4, KeepParams, KeepHeaders, KeepNodes DEF ListInv
<1>12. CASE CopyLines
  <2>1. PlaceInv'
    BY <1>1, <1>12 DEF PlaceInv, CopyLines, PointerInv, AnswerInv
  <2>2. UNCHANGED <<request, params, headers, nodes>> /\ failures' \in Nat /\ failures' >= failures
    BY <1>1, <1>12 DEF CopyLines
  <2>3. PairsDone' = PairsDone
    BY <1>1, <1>12 DEF PairsDone, PlaceInv, CopyLines
  <2>4. LinesDone' >= LinesDone /\ (LinesDone' = LinesDone \/ failures' > 0)
    <3>1. request.lines # <<>> /\ Len(request.lines) \in Nat /\ Len(request.lines) >= 1
      BY <1>1, <1>12 DEF CopyLines, PointerInv, AnswerInv
    <3> QED BY <1>1, <1>12, <3>1 DEF LinesDone, PlaceInv, CopyLines
  <2> QED BY <1>1, <2>1, <2>2, <2>3, <2>4, KeepParams, KeepHeaders, KeepNodes DEF ListInv
<1>13. CASE Line
  <2>1. PlaceInv'
    BY <1>1, <1>13 DEF PlaceInv, Line
  <2>2. UNCHANGED <<request, params, headers, nodes>> /\ failures' \in Nat /\ failures' >= failures
    BY <1>1, <1>13 DEF Line
  <2>3. PairsDone' = PairsDone
    BY <1>1, <1>13 DEF PairsDone, PlaceInv, Line
  <2>4. LinesDone' >= LinesDone /\ \A k \in 1 .. LinesDone' : LinesDone < k => request.lines[k] # "field"
    BY <1>1, <1>13 DEF LinesDone, PlaceInv, Line
  <2> QED BY <1>1, <2>1, <2>2, <2>3, <2>4, KeepParams, KeepHeaders, KeepNodes DEF ListInv
<1>14. CASE CopyName
  <2>0. /\ pc = "lower" /\ UNCHANGED request
        /\ \/ pc' = "header" /\ at' = at /\ failures' = failures
           \/ pc' = "line" /\ at' = at + 1 /\ failures' > 0
    <3>1. "name_lower" \in DOMAIN mem
      BY DEF HeapType, Blocks, Locals
    <3> QED BY <1>1, <1>14, <3>1 DEF CopyName
  <2>1. PlaceInv'
    BY <1>1, <1>14, <2>0 DEF PlaceInv
  <2>2. UNCHANGED <<request, params, headers, nodes>> /\ failures' \in Nat /\ failures' >= failures
    BY <1>1, <1>14 DEF CopyName
  <2>3. PairsDone' = PairsDone
    BY <1>1, <1>14 DEF PairsDone, PlaceInv, CopyName
  <2>4. LinesDone' >= LinesDone /\ (LinesDone' = LinesDone \/ failures' > 0)
    BY <1>1, <1>14, <2>0 DEF LinesDone, PlaceInv
  <2> QED BY <1>1, <2>1, <2>2, <2>3, <2>4, KeepParams, KeepHeaders, KeepNodes DEF ListInv
<1>15. CASE AddHeader
  <2>1. PlaceInv'
    BY <1>1, <1>15 DEF PlaceInv, AddHeader
  <2>2. UNCHANGED <<request, params>> /\ failures' \in Nat /\ failures' >= failures
    BY <1>1, <1>15 DEF AddHeader
  <2>3. PairsDone' = PairsDone
    BY <1>1, <1>15 DEF PairsDone, AddHeader
  <2>4. ParamsInv'
    BY <1>1, <2>1, <2>2, <2>3, KeepParams
  <2> QED BY <1>1, <1>15, <2>1, <2>4, AddToHeaders DEF ListInv
<1>16. CASE CopyBody
  <2>1. PlaceInv'
    BY <1>1, <1>16 DEF PlaceInv, CopyBody
  <2>2. UNCHANGED <<request, params, headers, nodes>> /\ failures' \in Nat /\ failures' >= failures
    BY <1>1, <1>16 DEF CopyBody
  <2>3. PairsDone' = PairsDone
    BY <1>1, <1>16 DEF PairsDone, PlaceInv, CopyBody
  <2>4. LinesDone' = LinesDone
    BY <1>1, <1>16 DEF LinesDone, PlaceInv, CopyBody
  <2> QED BY <1>1, <2>1, <2>2, <2>3, <2>4, KeepParams, KeepHeaders, KeepNodes DEF ListInv
<1>17. CASE Abandon
  <2>1. PlaceInv'
    BY <1>1, <1>17 DEF PlaceInv, Abandon
  <2>2. UNCHANGED request /\ FreeRequest /\ PairsDone' = 0 /\ LinesDone' = 0
    BY <1>1, <1>17 DEF Abandon, PairsDone, LinesDone
  <2> QED BY <1>1, <2>1, <2>2, DropLists DEF ListInv
<1> QED BY <1>2, <1>3, <1>4, <1>5, <1>6, <1>7, <1>8, <1>9, <1>10, <1>11, <1>12, <1>13, <1>14, <1>15,
        <1>16, <1>17 DEF ParseRequest

\* No handler touches them.
LEMMA HandlingLists ==
  ASSUME HeapType, PointerInv, ListInv, Handle
  PROVE  ListInv'
<1> DEFINE after == Calling \cup {"match", "serialise"}
<1>1. PlaceInv /\ ParamsInv /\ HeadersInv /\ NodesInv /\ failures \in Nat /\ route \in DOMAIN Entry
  BY DEF ListInv, HeapType
<1>2. /\ UNCHANGED <<request, at, params, headers, nodes>> /\ failures' \in Nat /\ failures' >= failures
      /\ pc \in after /\ pc' \in after
  <2> USE DEF Calling, input, lists, Goto, Malloc, Free, Entry
  <2>1. CASE Match
    BY <1>1, <2>1 DEF Match
  <2>2. CASE CreateTree
    BY <1>1, <2>2 DEF CreateTree
  <2>3. CASE CreateData
    BY <1>1, <2>3 DEF CreateData
  <2>4. CASE CreateObject
    BY <1>1, <2>4 DEF CreateObject
  <2>5. CASE Attach
    BY <1>1, <2>5 DEF Attach
  <2>6. CASE PrintTree
    BY <1>1, <2>6 DEF PrintTree
  <2>7. CASE CreateResponse
    BY <1>1, <2>7 DEF CreateResponse
  <2>8. CASE CopyType
    BY <1>1, <2>8 DEF CopyType
  <2>9. CASE CopyText
    BY <1>1, <2>9 DEF CopyText
  <2>10. CASE GiveUpResponse
    BY <1>1, <2>10 DEF GiveUpResponse
  <2>11. CASE Release
    BY <1>1, <2>11 DEF Release
  <2>12. CASE SetHeader
    BY <1>1, <2>12 DEF SetHeader
  <2>13. CASE HandlerReturns
    BY <1>1, <2>13 DEF HandlerReturns
  <2> QED BY <2>1, <2>2, <2>3, <2>4, <2>5, <2>6, <2>7, <2>8, <2>9, <2>10, <2>11, <2>12, <2>13 DEF Handle
<1>3. PlaceInv'
  BY <1>1, <1>2 DEF PlaceInv, Calling
<1>4. PairsDone' = PairsDone /\ LinesDone' = LinesDone
  BY <1>2 DEF PairsDone, LinesDone, Ending, Calling
<1> QED BY <1>1, <1>2, <1>3, <1>4, KeepParams, KeepHeaders, KeepNodes DEF ListInv, lists

\* The rest of dispatch_request frees them or leaves them alone.
LEMMA RespondingLists ==
  ASSUME HeapType, PointerInv, ListInv, Respond
  PROVE  ListInv'
<1>1. PlaceInv /\ ParamsInv /\ HeadersInv /\ NodesInv /\ failures \in Nat
  BY DEF ListInv, HeapType
<1>2. CASE FreeTheRequest
  <2>1. PlaceInv'
    BY <1>1, <1>2 DEF PlaceInv, FreeTheRequest, input, Goto
  <2>2. UNCHANGED request /\ FreeRequest /\ PairsDone' = 0 /\ LinesDone' = 0
    BY <1>2 DEF FreeTheRequest, PairsDone, LinesDone, Ending, input, Goto
  <2> QED BY <1>1, <2>1, <2>2, DropLists DEF ListInv
<1>3. CASE ~FreeTheRequest
  <2>1. /\ UNCHANGED <<request, at, params, headers, nodes>> /\ failures' \in Nat /\ failures' >= failures
        /\ \/ pc \in Ending /\ pc' \in Ending
           \/ pc \in {"serialise", "free"} /\ pc' \in {"free", "freerequest"}
    BY <1>1, <1>3 DEF Respond, Refuse, Serialise, FreeResponse, Fallback, Store,
                      Ending, input, lists, Goto, Malloc, Free, Build
  <2>2. PlaceInv'
    BY <1>1, <2>1 DEF PlaceInv, Ending
  <2>3. PairsDone' = PairsDone /\ LinesDone' = LinesDone
    BY <2>1 DEF PairsDone, LinesDone, Ending
  <2> QED BY <1>1, <2>1, <2>2, <2>3, KeepParams, KeepHeaders, KeepNodes DEF ListInv, lists
<1> QED BY <1>2, <1>3

\* Types, and what the parser misuses: nothing.
LEMMA ReadingHeap ==
  ASSUME HeapType, PointerInv, misused = {}, ParseRequest
  PROVE  HeapType' /\ StoredInv' /\ OnlyKnownMisuse'
<1> USE DEF HeapType, Places, RequestBlocks, ResponseBlocks, Locals, Blocks, Holds, Ending, Entry,
        OnlyKnownMisuse, StoredInv, Live,
        PointerInv, RequestInv, CopiesInv, TreesInv, ResponseInv, AnswerInv, RouteInv, Reading, Calling,
        input, Goto, Malloc, Free, FreeRequest, FreeName, Build
<1>1. CASE Parse
  BY <1>1, RequestType, SMTT(60) DEF Parse
<1>2. CASE CopyMethod
  BY <1>2, RequestType, SMTT(60) DEF CopyMethod
<1>3. CASE CopyPath
  BY <1>3, RequestType, SMTT(60) DEF CopyPath
<1>4. CASE CopyQuery
  BY <1>4, RequestType, SMTT(60) DEF CopyQuery
<1>5. CASE Pathless
  BY <1>5, RequestType, SMTT(60) DEF Pathless
<1>6. CASE CopyPairs
  BY <1>6, RequestType, SMTT(60) DEF CopyPairs
<1>7. CASE Pair
  BY <1>7, RequestType, SMTT(60) DEF Pair
<1>8. CASE Decode
  BY <1>8, RequestType, SMTT(60) DEF Decode
<1>9. CASE AddQueryParam
  BY <1>9, RequestType, SMTT(60) DEF AddQueryParam
<1>10. CASE CopyHeaders
  BY <1>10, RequestType, SMTT(60) DEF CopyHeaders
<1>11. CASE CopyLines
  BY <1>11, RequestType, SMTT(60) DEF CopyLines
<1>12. CASE Line
  BY <1>12, RequestType, SMTT(60) DEF Line
<1>13. CASE CopyName
  BY <1>13, RequestType, SMTT(60) DEF CopyName
<1>14. CASE AddHeader
  BY <1>14, RequestType, SMTT(60) DEF AddHeader
<1>15. CASE CopyBody
  BY <1>15, RequestType, SMTT(60) DEF CopyBody
<1>16. CASE Abandon
  BY <1>16, RequestType, SMTT(60) DEF Abandon
<1> QED BY <1>1, <1>2, <1>3, <1>4, <1>5, <1>6, <1>7, <1>8, <1>9, <1>10, <1>11, <1>12, <1>13, <1>14,
        <1>15, <1>16 DEF ParseRequest

\* A handler misuses only the body of a response without a content type.
LEMMA HandlingHeap ==
  ASSUME HeapType, PointerInv, misused = {}, Handle
  PROVE  HeapType' /\ StoredInv' /\ OnlyKnownMisuse'
<1> USE DEF HeapType, Places, RequestBlocks, ResponseBlocks, Locals, Blocks, Holds, Ending, Entry,
        OnlyKnownMisuse, StoredInv, Live,
        PointerInv, RequestInv, CopiesInv, TreesInv, ResponseInv, AnswerInv, RouteInv, Reading, Calling,
        input, Goto, Malloc, Free, FreeRequest, FreeName, Build
<1>1. CASE Match
  BY <1>1, RequestType, SMTT(60) DEF Match
<1>2. CASE CreateTree
  BY <1>2, RequestType, SMTT(60) DEF CreateTree
<1>3. CASE CreateData
  BY <1>3, RequestType, SMTT(60) DEF CreateData
<1>4. CASE CreateObject
  BY <1>4, RequestType, SMTT(60) DEF CreateObject
<1>5. CASE Attach
  BY <1>5, RequestType, SMTT(60) DEF Attach
<1>6. CASE PrintTree
  BY <1>6, RequestType, SMTT(60) DEF PrintTree
<1>7. CASE CreateResponse
  BY <1>7, RequestType, SMTT(60) DEF CreateResponse
<1>8. CASE CopyType
  BY <1>8, RequestType, SMTT(60) DEF CopyType
<1>9. CASE CopyText
  BY <1>9, RequestType, SMTT(60) DEF CopyText
<1>10. CASE GiveUpResponse
  BY <1>10, RequestType, SMTT(60) DEF GiveUpResponse
<1>11. CASE Release
  BY <1>11, RequestType, SMTT(60) DEF Release
<1>12. CASE SetHeader
  BY <1>12, RequestType, SMTT(60) DEF SetHeader
<1>13. CASE HandlerReturns
  BY <1>13, RequestType, SMTT(60) DEF HandlerReturns
<1> QED BY <1>1, <1>2, <1>3, <1>4, <1>5, <1>6, <1>7, <1>8, <1>9, <1>10, <1>11, <1>12, <1>13 DEF Handle

\* The rest of dispatch_request misuses only a response that was never built.
LEMMA RespondingHeap ==
  ASSUME HeapType, PointerInv, misused = {}, Respond
  PROVE  HeapType' /\ StoredInv' /\ OnlyKnownMisuse'
<1> USE DEF HeapType, Places, RequestBlocks, ResponseBlocks, Locals, Blocks, Holds, Ending, Entry,
        OnlyKnownMisuse, StoredInv, Live,
        PointerInv, RequestInv, CopiesInv, TreesInv, ResponseInv, AnswerInv, RouteInv, Reading, Calling,
        input, Goto, Malloc, Free, FreeRequest, FreeName, Build
<1>1. CASE Refuse
  BY <1>1, RequestType, SMTT(60) DEF Refuse
<1>2. CASE Serialise
  BY <1>2, RequestType, SMTT(60) DEF Serialise
<1>3. CASE FreeResponse
  BY <1>3, RequestType, SMTT(60) DEF FreeResponse
<1>4. CASE FreeTheRequest
  BY <1>4, RequestType, SMTT(60) DEF FreeTheRequest
<1>5. CASE Fallback
  BY <1>5, RequestType, SMTT(60) DEF Fallback
<1>6. CASE Store
  BY <1>6, RequestType, SMTT(60) DEF Store
<1> QED BY <1>1, <1>2, <1>3, <1>4, <1>5, <1>6 DEF Respond

\* The invariant is inductive.
LEMMA InitInvariant == Init => InductiveInvariant
<1> SUFFICES ASSUME Init PROVE InductiveInvariant
  OBVIOUS
<1>1. HeapType /\ StoredInv /\ OnlyKnownMisuse
  BY DEF Init, HeapType, StoredInv, OnlyKnownMisuse, Places, Blocks, Locals, RequestBlocks,
       ResponseBlocks, Holds
<1>2. PointerInv
  BY DEF Init, PointerInv, RouteInv, RequestInv, CopiesInv, TreesInv, ResponseInv, AnswerInv, Reading,
         Ending, Calling, Blocks, Locals, RequestBlocks, ResponseBlocks
<1>3. PlaceInv
  BY DEF Init, PlaceInv
<1>4. PairsDone = 0 /\ LinesDone = 0 /\ params = <<>> /\ headers = <<>>
  BY DEF Init, PairsDone, LinesDone
<1>5. ParamsOf(PairsDone) = {} /\ FieldsOf(LinesDone) = {}
  <2>1. \A k \in DOMAIN request.pairs : ~ (k <= PairsDone)
    BY <1>4, RequestShape DEF Init
  <2> QED BY <1>4, <2>1 DEF ParamsOf, FieldsOf
<1>6. ParamsInv /\ HeadersInv
  BY <1>4, <1>5 DEF ParamsInv, HeadersInv
<1>7. NodesInv
  BY <1>4 DEF Init, NodesInv, NodesOf, PairsStored, FieldsStored
<1> QED BY <1>1, <1>2, <1>3, <1>6, <1>7 DEF InductiveInvariant, ListInv

LEMMA StutterInvariant == InductiveInvariant /\ UNCHANGED vars => InductiveInvariant'
<1> SUFFICES ASSUME InductiveInvariant, UNCHANGED vars PROVE InductiveInvariant'
  OBVIOUS
<1> USE DEF vars, InductiveInvariant
<1>1. HeapType' /\ StoredInv' /\ OnlyKnownMisuse'
  BY DEF HeapType, StoredInv, OnlyKnownMisuse
<1>2. PointerInv'
  BY DEF PointerInv, RouteInv, RequestInv, CopiesInv, TreesInv, ResponseInv, AnswerInv, Fit, Refusable
<1>3. PlaceInv'
  BY DEF ListInv, PlaceInv
<1>4. PairsDone' = PairsDone /\ LinesDone' = LinesDone
  BY DEF PairsDone, LinesDone
<1>5. ParamsInv' /\ HeadersInv'
  BY <1>3, <1>4, KeepParams, KeepHeaders DEF ListInv, HeapType
<1>6. NodesInv'
  BY KeepNodes DEF ListInv, lists
<1> QED BY <1>1, <1>2, <1>3, <1>5, <1>6 DEF ListInv

LEMMA NextInvariant == InductiveInvariant /\ Next => InductiveInvariant'
<1> SUFFICES ASSUME InductiveInvariant, Next PROVE InductiveInvariant'
  OBVIOUS
<1> USE DEF InductiveInvariant
<1>1. misused = {}
  BY DEF Next
<1>2. CASE ParseRequest
  BY <1>1, <1>2, ReadingPointers, ReadingLists, ReadingHeap
<1>3. CASE Handle
  BY <1>1, <1>3, HandlingPointers, HandlingLists, HandlingHeap
<1>4. CASE Respond
  BY <1>1, <1>4, RespondingPointers, RespondingLists, RespondingHeap
<1> QED BY <1>2, <1>3, <1>4 DEF Next
-----------------------------------------------------------------------------
(* The theorems.                                                           *)

\* The invariant that carries the others: what each pointer holds at each place,
\* and what of the request the lists hold, with exactly their nodes allocated.
THEOREM Invariance == Spec => []InductiveInvariant
<1>1. InductiveInvariant /\ [Next]_vars => InductiveInvariant'
  BY NextInvariant, StutterInvariant
<1> QED BY <1>1, InitInvariant, PTL DEF Spec

\* Every variable has its type, and the parser's local copies are freed when it
\* is done with them.
THEOREM TypeCorrect == Spec => []TypeOK
<1>1. ASSUME InductiveInvariant
      PROVE  TypeOK
  <2> USE <1>1 DEF InductiveInvariant
  <2>1. /\ request \in Requests /\ route \in DOMAIN Entry /\ pc \in Places
        /\ mem \in [Blocks -> Holds] /\ failures \in 0 .. MaxFailures /\ misused \subseteq Blocks
    BY DEF HeapType
  <2>2. /\ at \in 1 .. (IF MaxPairs > MaxLines THEN MaxPairs ELSE MaxLines) + 1
        /\ pc = "param" => at \in DOMAIN request.pairs
        /\ pc = "header" => at \in DOMAIN request.lines
    BY <2>1, RequestShape DEF ListInv, PlaceInv
  <2>3. /\ "query_copy" \in Live => pc \in {"pair", "decode", "param"}
        /\ "decoded_value" \in Live => pc = "param"
        /\ "headers_copy" \in Live => pc \in {"line", "lower", "header"}
        /\ "name_lower" \in Live => pc = "header"
        /\ "json_string" \in Live => pc \in {"create", "type", "text", "giveup", "release"}
    BY DEF Live, PointerInv, CopiesInv, TreesInv
  <2>4. /\ params \in Seq([pair : 1 .. MaxPairs, value : {"sent", "empty"}])
        /\ headers \in Seq(1 .. MaxLines)
    BY DEF ListInv, ParamsInv, HeadersInv
  <2>5. nodes \subseteq {"param", "header"} \X (1 .. MaxPairs + MaxLines) \X {Parts[i] : i \in 1 .. 3}
    <3>1. PairsStored \subseteq 1 .. MaxPairs
      BY ParamType DEF ListInv, PairsStored
    <3>2. FieldsStored \subseteq 1 .. MaxLines
      BY <2>4 DEF FieldsStored
    <3>3. 1 .. MaxPairs \subseteq 1 .. MaxPairs + MaxLines /\ 1 .. MaxLines \subseteq 1 .. MaxPairs + MaxLines
      BY BoundsAssumption
    <3>4. ASSUME NEW list \in {"param", "header"}, NEW S, S \subseteq 1 .. MaxPairs + MaxLines
          PROVE  NodesOf(list, S) \subseteq
                   {"param", "header"} \X (1 .. MaxPairs + MaxLines) \X {Parts[i] : i \in 1 .. 3}
      <4> SUFFICES ASSUME NEW n \in NodesOf(list, S)
                   PROVE  n \in {"param", "header"} \X (1 .. MaxPairs + MaxLines) \X {Parts[i] : i \in 1 .. 3}
        OBVIOUS
      <4>1. PICK k \in S, i \in 1 .. 3 : n = <<list, k, Parts[i]>>
        BY DEF NodesOf
      <4> QED BY <3>4, <4>1
    <3>5. /\ PairsStored \subseteq 1 .. MaxPairs + MaxLines
          /\ FieldsStored \subseteq 1 .. MaxPairs + MaxLines
      BY <3>1, <3>2, <3>3
    <3>6. nodes = NodesOf("param", PairsStored) \cup NodesOf("header", FieldsStored)
      BY DEF ListInv, NodesInv
    <3> QED BY <3>4, <3>5, <3>6
  <2>6. answer \in {0, 200, 400, 404, 500}
    <3>1. Fit \in {200, 400, 404, 500}
      BY <2>1 DEF Fit, Entry
    <3>2. mem["out"] \in {"null", "live"}
      BY DEF PointerInv, AnswerInv
    <3> QED BY <3>1, <3>2 DEF PointerInv, AnswerInv
  <2> QED BY <2>1, <2>2, <2>3, <2>4, <2>5, <2>6 DEF TypeOK
<1> QED BY <1>1, Invariance, PTL

\* Whichever allocations fail, what was allocated for a request is freed once it
\* is answered, but for the two leaks that Released names.
THEOREM EverythingReleased == Spec => []Released
<1>1. ASSUME InductiveInvariant, pc = "done"
      PROVE  /\ nodes = {}
             /\ Live \subseteq {"out", "query_string", "data"}
             /\ "query_string" \in Live => mem["method"] = "stale"
             /\ "data" \in Live => route = "success" /\ failures > 0
  <2> USE <1>1 DEF InductiveInvariant
  <2>1. PairsDone = 0 /\ LinesDone = 0
    BY DEF PairsDone, LinesDone, Ending
  <2>2. PairsStored = {}
    <3>1. \A i \in DOMAIN params : params[i].pair \in 1 .. MaxPairs /\ params[i].pair <= 0
      BY <2>1, ParamType DEF ListInv, ParamsInv
    <3> QED BY <3>1 DEF PairsStored
  <2>3. FieldsStored = {}
    <3>1. \A i \in DOMAIN headers : headers[i] \in 1 .. MaxLines /\ headers[i] <= 0
      BY <2>1 DEF ListInv, HeadersInv
    <3> QED BY <3>1 DEF FieldsStored
  <2>4. nodes = {}
    BY <2>2, <2>3 DEF ListInv, NodesInv, NodesOf
  <2>5. Live \subseteq {"out", "query_string", "data"}
    <3>1. mem["method"] # "live" /\ mem["path"] # "live" /\ mem["headers"] # "live" /\ mem["body"] # "live"
      BY DEF PointerInv, RequestInv, RequestBlocks, Reading, Ending
    <3>2. \A b \in {"query_copy", "decoded_value", "headers_copy", "name_lower"} : mem[b] # "live"
      BY DEF PointerInv, CopiesInv
    <3>3. mem["json"] # "live" /\ mem["json_string"] # "live"
      BY DEF PointerInv, TreesInv
    <3>4. \A b \in ResponseBlocks : mem[b] # "live"
      BY DEF PointerInv, ResponseInv
    <3> QED BY <3>1, <3>2, <3>3, <3>4 DEF Live, Blocks, Locals, RequestBlocks, ResponseBlocks
  <2>6. "query_string" \in Live => mem["method"] = "stale"
    BY DEF Live, PointerInv, RequestInv, Ending
  <2>7. "data" \in Live => route = "success" /\ failures > 0
    BY DEF Live, PointerInv, TreesInv
  <2> QED BY <2>4, <2>5, <2>6, <2>7
<1>2. InductiveInvariant => Released
  BY <1>1 DEF Released
<1> QED BY <1>2, Invariance, PTL

\* No pointer is freed twice, freed unset or read when NULL, but for the two that
\* OnlyKnownMisuse names.
THEOREM MisuseKnown == Spec => []OnlyKnownMisuse
<1>1. InductiveInvariant => OnlyKnownMisuse
  BY DEF InductiveInvariant
<1> QED BY <1>1, Invariance, PTL

\* A handler sees whole lists, newest first, and all of the request but its last
\* field when no allocation has failed.
THEOREM HandlerView == Spec => []HandlerSees
<1>1. ASSUME InductiveInvariant, pc = "match"
      PROVE  /\ {"method", "path"} \subseteq Live
             /\ nodes = {<<l[1], l[2], Parts[i]>> : l \in Linked, i \in 1 .. 3}
             /\ \A i, j \in DOMAIN params : i < j => params[i].pair > params[j].pair
             /\ \A i, j \in DOMAIN headers : i < j => headers[i] > headers[j]
             /\ failures = 0 =>
                  /\ {params[i] : i \in DOMAIN params} =
                       {[pair |-> k, value |-> IF request.pairs[k] = "valued" THEN "sent" ELSE "empty"] :
                          k \in {k \in DOMAIN request.pairs : request.pairs[k] # "nameless"}}
                  /\ {headers[i] : i \in DOMAIN headers} =
                       {k \in 1 .. Len(request.lines) - 1 : request.lines[k] = "field"}
                  /\ request.body <=> "body" \in Live
  <2> USE <1>1 DEF InductiveInvariant
  <2>1. {"method", "path"} \subseteq Live
    BY DEF Live, Blocks, RequestBlocks, PointerInv, RequestInv, Ending
  <2>2. nodes = {<<l[1], l[2], Parts[i]>> : l \in Linked, i \in 1 .. 3}
    <3>1. /\ nodes = NodesOf("param", PairsStored) \cup NodesOf("header", FieldsStored)
          /\ Linked = {<<"param", k>> : k \in PairsStored} \cup {<<"header", k>> : k \in FieldsStored}
      BY DEF ListInv, NodesInv, Linked, PairsStored, FieldsStored
    <3>2. ASSUME NEW list, NEW S
          PROVE  NodesOf(list, S) = {<<l[1], l[2], Parts[i]>> : l \in {<<list, k>> : k \in S}, i \in 1 .. 3}
      <4> DEFINE L == {<<list, k>> : k \in S}
      <4>1. \A l \in L : l = <<list, l[2]>> /\ l[1] = list /\ l[2] \in S
        OBVIOUS
      <4>2. ASSUME NEW k \in S
            PROVE  \E l \in L : l[1] = list /\ l[2] = k
        <5>1. <<list, k>> \in L /\ <<list, k>>[1] = list /\ <<list, k>>[2] = k
          OBVIOUS
        <5> QED BY <5>1
      <4> HIDE DEF L
      <4> QED BY <4>1, <4>2 DEF NodesOf
    <3> QED BY <3>1, <3>2
  <2>3. /\ \A i, j \in DOMAIN params : i < j => params[i].pair > params[j].pair
        /\ \A i, j \in DOMAIN headers : i < j => headers[i] > headers[j]
    BY DEF ListInv, ParamsInv, HeadersInv
  <2>4. request.lines # <<>> /\ request \in Requests
    BY DEF PointerInv, AnswerInv, HeapType, Ending
  <2>5. PairsDone = Len(request.pairs) /\ LinesDone = Len(request.lines) - 1
    BY <2>4 DEF PairsDone, LinesDone, Ending
  <2>6. \A k \in DOMAIN request.pairs : k <= PairsDone
    BY <2>4, <2>5, RequestShape
  <2>7. ParamsOf(PairsDone) =
          {[pair |-> k, value |-> IF request.pairs[k] = "valued" THEN "sent" ELSE "empty"] :
             k \in {k \in DOMAIN request.pairs : request.pairs[k] # "nameless"}}
    BY <2>6 DEF ParamsOf, Value
  <2>8. FieldsOf(LinesDone) = {k \in 1 .. Len(request.lines) - 1 : request.lines[k] = "field"}
    BY <2>5 DEF FieldsOf
  <2>9. failures = 0 => (request.body <=> "body" \in Live)
    BY DEF Live, Blocks, RequestBlocks, PointerInv, RequestInv
  <2> QED BY <2>1, <2>2, <2>3, <2>7, <2>8, <2>9 DEF ListInv, ParamsInv, HeadersInv
<1>2. InductiveInvariant => HandlerSees
  BY <1>1 DEF HandlerSees
<1> QED BY <1>2, Invariance, PTL

\* The status that is sent is the one that fits, or 400 or 500 after a failed
\* allocation.
THEOREM AnswersFit == Spec => []AnswerFits
<1>1. ASSUME InductiveInvariant, pc = "done", misused = {}
      PROVE  answer = Fit \/ (failures > 0 /\ answer \in {400, 500})
  BY <1>1 DEF InductiveInvariant, StoredInv, PointerInv, AnswerInv
<1>2. InductiveInvariant => AnswerFits
  BY <1>1 DEF AnswerFits, Fit
<1> QED BY <1>2, Invariance, PTL
=============================================================================
