--------------------------- MODULE RequestDispatch ---------------------------
(***************************************************************************)
(* One request through dispatch_request (srcs/core/handlers/handler.c):    *)
(* the parser (srcs/core/request_parser.c), a handler that uses the        *)
(* response and JSON helpers (srcs/api, srcs/json), and the serialised     *)
(* response, with who owns which heap block when an allocation fails.      *)
(*                                                                         *)
(* One thread.  A step is one allocation with what follows it up to the    *)
(* next; every allocation may fail, at most MaxFailures of them do.  Each  *)
(* block is named for the pointer that owns it.  Of the request only its   *)
(* shape is kept: which pairs its query has, which lines its head, whether *)
(* a body follows.  A cJSON tree is one block.                             *)
(***************************************************************************)
EXTENDS Naturals, Sequences, FiniteSets

CONSTANTS
  MaxPairs,     \* bound: pairs in a query
  MaxLines,     \* bound: header lines in a request
  MaxFailures   \* bound: allocations that fail

ASSUME BoundsAssumption == MaxPairs \in Nat /\ MaxLines \in Nat /\ MaxFailures \in Nat

VARIABLES
  request,   \* the shape of the request in connection->buffer
  route,     \* what the matching route's handler does, "none" if there is none
  pc,        \* where the control is
  at,        \* the pair or the line in hand
  mem,       \* what each pointer of the request and the response holds
  nodes,     \* the blocks of the list nodes that are allocated
  params,    \* request.parsed_query_params, newest first
  headers,   \* request.parsed_headers, newest first
  answer,    \* the status of the response in out, 0 before; 200 stands for
             \* whatever status the handler has chosen
  failures,  \* allocations that have failed
  misused    \* pointers that were freed or read without holding a block

vars == <<request, route, pc, at, mem, nodes, params, headers, answer, failures, misused>>
input == <<request, route>>
lists == <<nodes, params, headers>>
-----------------------------------------------------------------------------
(* The heap.                                                               *)

RequestBlocks == {"method", "path", "query_string", "headers", "body"}
ResponseBlocks == {"response", "content_type", "response_body", "response_headers"}
Locals == {"query_copy", "decoded_value", "headers_copy", "name_lower",
           "json", "data", "json_string"}
Blocks == RequestBlocks \cup ResponseBlocks \cup Locals \cup {"out"}

\* "wild" is a pointer nobody has initialised, "stale" one to a freed block,
\* "moved" one to a tree that has become part of another.
Holds == {"null", "live", "stale", "wild", "moved"}

Parts == <<"node", "name", "value">>

Live == {b \in Blocks : mem[b] = "live"}

Malloc(b, next, otherwise) ==
  \/ /\ mem' = [mem EXCEPT ![b] = "live"]
     /\ pc' = next /\ UNCHANGED failures
  \/ /\ failures < MaxFailures /\ failures' = failures + 1
     /\ mem' = [mem EXCEPT ![b] = "null"]
     /\ pc' = otherwise

\* free(NULL) does nothing; left is what the pointers hold afterwards.
Free(B, left) ==
  /\ mem' = [b \in Blocks |-> IF b \in B /\ mem[b] # "null" THEN left ELSE mem[b]]
  /\ misused' = misused \cup {b \in B : mem[b] \in {"stale", "wild"}}

\* httpc_free_request: the fields, and the nodes that are linked.
Linked == {<<"param", params[i].pair>> : i \in DOMAIN params}
            \cup {<<"header", headers[i]>> : i \in DOMAIN headers}

FreeRequest ==
  /\ Free(RequestBlocks, "null")
  /\ nodes' = {n \in nodes : <<n[1], n[2]>> \notin Linked}
  /\ params' = <<>> /\ headers' = <<>>

\* A node with its two strings: n of its three allocations succeed, and the
\* failing one frees what the others have got.  The mutant forgets the name when
\* the value fails.
MutantBuilt(list, n) ==
  LET got == {<<list, at, Parts[i]>> : i \in 1 .. n}
  IN  nodes' = (nodes \cup got) \ (IF n = 3 THEN {} ELSE {<<list, at, "node">>})
Built(list, n) ==
  LET got == {<<list, at, Parts[i]>> : i \in 1 .. n}
  IN  nodes' = (nodes \cup got) \ (IF n = 3 THEN {} ELSE got)
-----------------------------------------------------------------------------
(* httpc_parse_request.                                                    *)

Goto(next) == pc' = next

\* No terminator before a NUL, no three words, or not HTTP/1.0 or 1.1.
Parse ==
  /\ pc = "parse"
  /\ Goto(IF request.wellformed THEN "method" ELSE "refuse")
  /\ UNCHANGED <<input, at, mem, lists, answer, failures, misused>>

CopyMethod ==
  /\ pc = "method"
  /\ Malloc("method", "path", "refuse")
  /\ UNCHANGED <<input, at, lists, answer, misused>>

CopyPath ==
  /\ pc = "path"
  /\ Malloc("path", IF request.query THEN "query" ELSE "headers",
                    IF request.query THEN "query" ELSE "pathless")
  /\ UNCHANGED <<input, at, lists, answer, misused>>

\* The query is copied although the copy of the path has failed.
CopyQuery ==
  /\ pc = "query"
  /\ LET pathless == mem["path"] # "live"
     IN  Malloc("query_string", IF pathless THEN "pathless" ELSE "pairs",
                                IF pathless THEN "pathless" ELSE "headers")
  /\ UNCHANGED <<input, at, lists, answer, misused>>

Pathless ==
  /\ pc = "pathless"
  /\ Free({"method"}, "stale")
  /\ Goto("refuse")
  /\ UNCHANGED <<input, at, lists, answer, failures>>

\* parse_query_string works on a copy.
CopyPairs ==
  /\ pc = "pairs"
  /\ Malloc("query_copy", "pair", "headers")
  /\ at' = 1
  /\ UNCHANGED <<input, lists, answer, misused>>

\* A pair with "=" is "valued", one without is "bare", one without a name is
\* "nameless".
Pair ==
  /\ pc = "pair"
  /\ \/ /\ at <= Len(request.pairs) /\ request.pairs[at] = "nameless"
        /\ at' = at + 1 /\ UNCHANGED <<pc, mem, misused>>
     \/ /\ at <= Len(request.pairs) /\ request.pairs[at] # "nameless"
        /\ Goto(IF request.pairs[at] = "valued" THEN "decode" ELSE "param")
        /\ UNCHANGED <<at, mem, misused>>
     \/ at > Len(request.pairs) /\ Free({"query_copy"}, "null") /\ Goto("headers") /\ UNCHANGED at
  /\ UNCHANGED <<input, lists, answer, failures>>

\* url_decode.
Decode ==
  /\ pc = "decode"
  /\ Malloc("decoded_value", "param", "param")
  /\ UNCHANGED <<input, at, lists, answer, misused>>

\* add_query_param, which puts the pair at the head of the list; a value that
\* could not be decoded is empty.  The mutant puts it at the end.
MutantLinkParam ==
  params' = Append(params, [pair |-> at, value |-> IF mem["decoded_value"] = "live"
                                                   THEN "sent" ELSE "empty"])
LinkParam ==
  params' = <<[pair |-> at, value |-> IF mem["decoded_value"] = "live"
                                      THEN "sent" ELSE "empty"]>> \o params

AddQueryParam ==
  /\ pc = "param"
  /\ \/ Built("param", 3) /\ LinkParam /\ UNCHANGED failures
     \/ /\ failures < MaxFailures /\ failures' = failures + 1
        /\ \E n \in 0 .. 2 : Built("param", n)
        /\ UNCHANGED params
  /\ Free({"decoded_value"}, "null")
  /\ at' = at + 1
  /\ Goto("pair")
  /\ UNCHANGED <<input, headers, answer>>

\* Without a header line headers_end lies before headers_start, and the length
\* wraps around to more than MAX_HEADER_SIZE.
CopyHeaders ==
  /\ pc = "headers"
  /\ \/ /\ request.lines = <<>>
        /\ Goto("abandon") /\ UNCHANGED <<mem, failures>>
     \/ /\ request.lines # <<>>
        /\ Malloc("headers", "lines", "abandon")
  /\ UNCHANGED <<input, at, lists, answer, misused>>

\* parse_headers works on a copy of the copy.
CopyLines ==
  /\ pc = "lines"
  /\ Malloc("headers_copy", "line", "body")
  /\ at' = 1
  /\ UNCHANGED <<input, lists, answer, misused>>

\* The copies end before the CR LF of the last line, which is never stored.  A
\* line with a name, a colon and a value is a "field".
Line ==
  /\ pc = "line"
  /\ \/ /\ at < Len(request.lines) /\ request.lines[at] = "other"
        /\ at' = at + 1 /\ UNCHANGED <<pc, mem, misused>>
     \/ /\ at < Len(request.lines) /\ request.lines[at] = "field"
        /\ Goto("lower") /\ UNCHANGED <<at, mem, misused>>
     \/ /\ at >= Len(request.lines)
        /\ Free({"headers_copy"}, "null") /\ Goto("body") /\ UNCHANGED at
  /\ UNCHANGED <<input, lists, answer, failures>>

\* A field whose name cannot be copied is skipped.
CopyName ==
  /\ pc = "lower"
  /\ Malloc("name_lower", "header", "line")
  /\ at' = IF mem'["name_lower"] = "live" THEN at ELSE at + 1
  /\ UNCHANGED <<input, lists, answer, misused>>

\* The mutant keeps the copy of the name.
MutantFreeName == UNCHANGED <<mem, misused>>
FreeName == Free({"name_lower"}, "null")

AddHeader ==
  /\ pc = "header"
  /\ \/ Built("header", 3) /\ headers' = <<at>> \o headers /\ UNCHANGED failures
     \/ /\ failures < MaxFailures /\ failures' = failures + 1
        /\ \E n \in 0 .. 2 : Built("header", n)
        /\ UNCHANGED headers
  /\ FreeName
  /\ at' = at + 1
  /\ Goto("line")
  /\ UNCHANGED <<input, params, answer>>

CopyBody ==
  /\ pc = "body"
  /\ \/ ~request.body /\ Goto("match") /\ UNCHANGED <<mem, failures>>
     \/ request.body /\ Malloc("body", "match", "abandon")
  /\ UNCHANGED <<input, at, lists, answer, misused>>

Abandon ==
  /\ pc = "abandon"
  /\ FreeRequest
  /\ Goto("refuse")
  /\ UNCHANGED <<input, at, answer, failures>>
-----------------------------------------------------------------------------
(* The handler, with the library calls handlers make.  A handler "text"    *)
(* builds its response with httpc_create_response, "json" with             *)
(* httpc_json_ok, "success" with httpc_create_json_success_response; "null"*)
(* returns NULL.  Without a route the dispatcher creates the 404 itself.   *)

\* What a handler does first.  The mutant answers 404 for a handler's NULL.
MutantEntry == [none |-> "create", null |-> "create", text |-> "create",
                json |-> "tree", success |-> "data"]
Entry == [none |-> "create", null |-> "serialise", text |-> "create",
          json |-> "tree", success |-> "data"]

Match ==
  /\ pc = "match"
  /\ Goto(Entry[route])
  /\ UNCHANGED <<input, at, mem, lists, answer, failures, misused>>

\* The handler's tree; for NULL httpc_json_error tries once more, and then does
\* without.
CreateTree ==
  /\ \/ pc = "tree" /\ Malloc("json", "print", "errortree")
     \/ pc = "errortree" /\ Malloc("json", "print", "create")
  /\ UNCHANGED <<input, at, lists, answer, misused>>

\* httpc_create_json_success_response, called with the handler's data.
CreateData ==
  /\ pc = "data"
  /\ Malloc("data", "object", "object")
  /\ UNCHANGED <<input, at, lists, answer, misused>>

CreateObject ==
  /\ pc = "object"
  /\ Malloc("json", "attach", "decorate")
  /\ UNCHANGED <<input, at, lists, answer, misused>>

\* cJSON_AddItemToObject takes the data over, unless it cannot copy the key.
Attach ==
  /\ pc = "attach"
  /\ \/ mem' = [mem EXCEPT !["data"] = IF @ = "live" THEN "moved" ELSE @] /\ UNCHANGED failures
     \/ /\ mem["data"] = "live" /\ failures < MaxFailures
        /\ failures' = failures + 1 /\ UNCHANGED mem
  /\ Goto("print")
  /\ UNCHANGED <<input, at, lists, answer, misused>>

\* cJSON_Print.  When it fails httpc_json answers "{}" for the tree it deletes,
\* httpc_create_json_response answers NULL.
PrintTree ==
  /\ pc = "print"
  /\ \/ Malloc("json_string", "create", "release") /\ (route = "success" \/ pc' = "create")
        /\ UNCHANGED misused
     \/ /\ route = "json" /\ failures < MaxFailures /\ failures' = failures + 1
        /\ Free({"json"}, "stale") /\ Goto("create")
  /\ UNCHANGED <<input, at, lists, answer>>

\* httpc_create_response: of the structure, the content type and the body.
CreateResponse ==
  /\ pc = "create"
  /\ \/ /\ mem' = [mem EXCEPT !["response"] = "live", !["response_body"] = "wild"]
        /\ Goto("type") /\ UNCHANGED failures
     \/ /\ failures < MaxFailures /\ failures' = failures + 1
        /\ Goto("release") /\ UNCHANGED mem
  /\ UNCHANGED <<input, at, lists, answer, misused>>

CopyType ==
  /\ pc = "type"
  /\ Malloc("content_type", "text", "giveup")
  /\ UNCHANGED <<input, at, lists, answer, misused>>

CopyText ==
  /\ pc = "text"
  /\ Malloc("response_body", "release", "giveup")
  /\ UNCHANGED <<input, at, lists, answer, misused>>

GiveUpResponse ==
  /\ pc = "giveup"
  /\ Free(ResponseBlocks, "null")
  /\ Goto("release")
  /\ UNCHANGED <<input, at, lists, answer, failures>>

\* httpc_json and the JSON responses: free the text, delete the tree.
Release ==
  /\ pc = "release"
  /\ IF mem["json"] = "live" THEN Free({"json_string", "json"}, "null") ELSE UNCHANGED <<mem, misused>>
  /\ Goto("decorate")
  /\ UNCHANGED <<input, at, lists, answer, failures>>

\* A handler may call httpc_set_header, whose realloc keeps the old block when it
\* fails, and returns.
SetHeader ==
  /\ pc = "decorate" /\ route \notin {"none", "null"} /\ mem["response"] = "live"
  /\ \/ mem["response_headers"] = "null" /\ Malloc("response_headers", pc, pc)
     \/ /\ mem["response_headers"] = "live" /\ failures < MaxFailures
        /\ failures' = failures + 1 /\ UNCHANGED <<mem, pc>>
  /\ UNCHANGED <<input, at, lists, answer, misused>>

HandlerReturns ==
  /\ pc = "decorate"
  /\ Goto("serialise")
  /\ UNCHANGED <<input, at, mem, lists, answer, failures, misused>>
-----------------------------------------------------------------------------
(* The rest of dispatch_request.                                           *)

\* build_response, which frees its header block on every path.
Build(status, next) ==
  \/ /\ mem' = [mem EXCEPT !["out"] = "live"] /\ answer' = status
     /\ Goto(next) /\ UNCHANGED failures
  \/ /\ failures < MaxFailures /\ failures' = failures + 1
     /\ Goto(next) /\ UNCHANGED <<mem, answer>>

\* httpc_parse_request has failed.  The mutant frees the request here as well.
MutantRefuse ==
  /\ pc = "refuse"
  /\ Build(400, "free")
  /\ UNCHANGED <<input, at, lists, misused>>

Refuse ==
  /\ pc = "refuse"
  /\ Build(400, "fallback")
  /\ UNCHANGED <<input, at, lists, misused>>

\* httpc_response_to_string, or build_response for a handler's NULL.
Serialise ==
  /\ pc = "serialise"
  /\ \/ /\ mem["response"] = "live" /\ Malloc("out", "free", "free")
        /\ answer' = IF mem'["out"] # "live" THEN 0 ELSE IF route = "none" THEN 404 ELSE 200
     \/ mem["response"] # "live" /\ Build(500, "free")
  /\ UNCHANGED <<input, at, lists, misused>>

FreeResponse ==
  /\ pc = "free"
  /\ Free(ResponseBlocks, "null")
  /\ Goto("freerequest")
  /\ UNCHANGED <<input, at, lists, answer, failures>>

FreeTheRequest ==
  /\ pc = "freerequest"
  /\ FreeRequest
  /\ Goto("fallback")
  /\ UNCHANGED <<input, at, answer, failures>>

Fallback ==
  /\ pc = "fallback"
  /\ \/ mem["out"] = "live" /\ Goto("store") /\ UNCHANGED <<mem, answer, failures>>
     \/ mem["out"] # "live" /\ Build(500, "store")
  /\ UNCHANGED <<input, at, lists, misused>>

\* strlen(response), then the connection owns the block.
Store ==
  /\ pc = "store"
  /\ misused' = misused \cup ({"out"} \ Live)
  /\ Goto("done")
  /\ UNCHANGED <<input, at, mem, lists, answer, failures>>
-----------------------------------------------------------------------------
SeqsUpTo(S, n) == UNION {[1 .. k -> S] : k \in 0 .. n}

Requests ==
  {r \in [wellformed : BOOLEAN, query : BOOLEAN, body : BOOLEAN,
          pairs : SeqsUpTo({"valued", "bare", "nameless"}, MaxPairs),
          lines : SeqsUpTo({"field", "other"}, MaxLines)] :
     r.query \/ r.pairs = <<>>}

Init ==
  /\ request \in Requests
  /\ route \in DOMAIN Entry
  /\ pc = "parse" /\ at = 1
  /\ mem = [b \in Blocks |-> "null"]
  /\ nodes = {} /\ params = <<>> /\ headers = <<>>
  /\ answer = 0 /\ failures = 0 /\ misused = {}

ParseRequest ==
  \/ Parse \/ CopyMethod \/ CopyPath \/ CopyQuery \/ Pathless
  \/ CopyPairs \/ Pair \/ Decode \/ AddQueryParam
  \/ CopyHeaders \/ CopyLines \/ Line \/ CopyName \/ AddHeader \/ CopyBody \/ Abandon
Handle ==
  \/ Match \/ CreateTree \/ CreateData \/ CreateObject \/ Attach \/ PrintTree
  \/ CreateResponse \/ CopyType \/ CopyText \/ GiveUpResponse \/ Release
  \/ SetHeader \/ HandlerReturns
Respond == Refuse \/ Serialise \/ FreeResponse \/ FreeTheRequest \/ Fallback \/ Store

\* Nothing can be said of what follows a misuse.
Next == misused = {} /\ (ParseRequest \/ Handle \/ Respond)

Spec == Init /\ [][Next]_vars
-----------------------------------------------------------------------------
(* Invariants.                                                             *)

Places == {"parse", "method", "path", "query", "pathless", "pairs", "pair", "decode", "param",
           "headers", "lines", "line", "lower", "header", "body", "abandon", "match", "tree",
           "errortree", "data", "object", "attach", "print", "create", "type", "text", "giveup",
           "release", "decorate", "refuse", "serialise", "free", "freerequest", "fallback",
           "store", "done"}

\* Every variable has its type, no pair or line is stored that is not there, and a
\* local copy lives no longer than it is used.
TypeOK ==
  /\ request \in Requests /\ route \in DOMAIN Entry /\ pc \in Places
  /\ at \in 1 .. (IF MaxPairs > MaxLines THEN MaxPairs ELSE MaxLines) + 1
  /\ pc = "param" => at \in DOMAIN request.pairs
  /\ pc = "header" => at \in DOMAIN request.lines
  /\ "query_copy" \in Live => pc \in {"pair", "decode", "param"}
  /\ "decoded_value" \in Live => pc = "param"
  /\ "headers_copy" \in Live => pc \in {"line", "lower", "header"}
  /\ "name_lower" \in Live => pc = "header"
  /\ "json_string" \in Live => pc \in {"create", "type", "text", "giveup", "release"}
  /\ mem \in [Blocks -> Holds]
  /\ nodes \subseteq {"param", "header"} \X (1 .. MaxPairs + MaxLines) \X {Parts[i] : i \in 1 .. 3}
  /\ params \in Seq([pair : 1 .. MaxPairs, value : {"sent", "empty"}])
  /\ headers \in Seq(1 .. MaxLines)
  /\ answer \in {0, 200, 400, 404, 500}
  /\ failures \in 0 .. MaxFailures /\ misused \subseteq Blocks

\* When the response is stored, nothing else that was allocated for the request
\* remains, whichever allocations have failed, but for two leaks: the query when
\* the path could not be copied, and the data that a JSON success response was
\* given and did not take over.
Released ==
  pc = "done" /\ misused = {} =>
    /\ nodes = {}
    /\ Live \subseteq {"out", "query_string", "data"}
    /\ "query_string" \in Live => mem["method"] = "stale"
    /\ "data" \in Live => route = "success" /\ failures > 0

\* No pointer is freed twice, freed without having been set, or read when it is
\* NULL, whichever allocations have failed, but for two: the body of a response
\* whose content type could not be copied, and a response that could not be built
\* in two attempts.
OnlyKnownMisuse ==
  \/ misused = {}
  \/ misused = {"response_body"} /\ pc = "release" /\ mem["content_type"] = "null"
  \/ misused = {"out"} /\ failures >= 2

\* The handler is given a method and a path, and lists without half-made nodes in
\* which a later pair or field comes before an earlier one, so that the last of
\* several wins.  Without a failing allocation they have every named pair, with
\* its value, and every field but the one on the last line.
HandlerSees ==
  pc = "match" =>
    /\ {"method", "path"} \subseteq Live
    /\ nodes = {<<l[1], l[2], Parts[i]>> : l \in Linked, i \in 1 .. 3}
    /\ \A i, j \in DOMAIN params : i < j => params[i].pair > params[j].pair
    /\ \A i, j \in DOMAIN headers : i < j => headers[i] > headers[j]
    /\ failures = 0 =>
         /\ {params[i] : i \in DOMAIN params} =
              {[pair |-> k, value |-> IF request.pairs[k] = "valued" THEN "sent" ELSE "empty"] :
                 k \in {k \in DOMAIN request.pairs : request.pairs[k] # "nameless"}}
         /\ {headers[i] : i \in DOMAIN headers} =
              {k \in 1 .. Len(request.lines) - 1 : request.lines[k] = "field"}
         /\ request.body <=> "body" \in Live

Refusable == ~request.wellformed \/ request.lines = <<>>

\* The status is the handler's, 404 only without a route, 400 for a request the
\* parser refuses and 500 for a handler's NULL; a failing allocation may turn each
\* into 400 or 500 and into nothing else.
AnswerFits ==
  pc = "done" /\ misused = {} =>
    LET fit == IF Refusable THEN 400
               ELSE [none |-> 404, null |-> 500, text |-> 200, json |-> 200, success |-> 200][route]
    IN  answer = fit \/ (failures > 0 /\ answer \in {400, 500})
-----------------------------------------------------------------------------
(* What the example says of the handler's view, and the parser does not do. *)

\* A handler finds every header field that was sent.
FieldsReachHandler ==
  pc = "match" /\ failures = 0 =>
    \A k \in DOMAIN request.lines : request.lines[k] = "field" => k \in {headers[i] : i \in DOMAIN headers}
=============================================================================
