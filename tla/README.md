# A verification project for MicroHTTP

MicroHTTP (`src/`) is a small HTTP/1.x server library in C: a single-threaded,
edge-triggered epoll loop that owns a fixed table of connections, a request
parser, a router of registered handlers, a response builder, JSON helpers over
a vendored cJSON, and a create/start/run/stop/destroy life cycle with a stop
signal.  This directory holds TLA+ models of it, the TLC runs that check them
and proofs that TLAPS checks.

## 1. Inventory

| component | state it keeps | operations | what makes it correct |
|---|---|---|---|
| event loop (`srcs/core/handlers/handler.c`, `structs/connection.h`) | `server->connections[]` (fd, state, buffer, response), the epoll set, `events[]` | `main_handler`, `accept_connections`, `read_connection`, `dispatch_request`, `write_connection`, `close_connection` | a slot is one connection; no edge is lost; events never point to a recycled slot; one whole response per request, in order |
| server life cycle (`srcs/core/server.c`) | `server->state`, listening socket, epoll descriptor, table, `g_default_server`, `g_signal_server` | create, start, run, stop, destroy, the default-server calls | resources are released once and completely; the state only moves forward; a stop is not lost |
| signals (`server.c:70`, `httpc_setup_signals`) | `g_signal_server` | `signal_handler` between any two steps | a signal stops the server that runs |
| configuration (`srcs/core/config.c`) | `g_config` | configure, init defaults, get | only valid configurations are stored |
| request parser (`srcs/core/request_parser.c`) | the `httpc_request_t` it fills | parse, free, header/query/body getters | limits hold; every allocation is freed exactly once; lookups see what was sent |
| router (`srcs/core/router.c`) | list of routes | add, match, cleanup | a request reaches the handler registered for it |
| response builder (`srcs/api/response.c`) | `httpc_response_t`, the output buffer | create, set header, serialise, free | writes stay within the computed size; failure paths free once |
| response helpers, JSON utilities (`srcs/api/response_helpers.c`, `srcs/json/json_utils.c`) | ownership of cJSON trees | build JSON/HTML/text responses | each tree is deleted exactly once |
| cJSON trees (`srcs/json/cJSON.c`) | items linked by `next`, `prev`, `child`, the texts they own or borrow | create, add, reference, detach, insert, replace, duplicate, compare, delete | lists stay whole; every block has one owner; a failing call leaves things as they were |
| cJSON texts (`srcs/json/cJSON.c`) | `parse_buffer`, `printbuffer` | parse, print in four variants, minify | no access outside a block; what is accepted is JSON; printing and parsing are inverse |
| logger, error handling, string helpers | none that others read | formatting, syslog | - |

Interaction: `httpc_server_run` calls `main_handler`; the loop calls the parser,
the router, the registered handler and the response builder in one go inside
`dispatch_request`; the signal handler calls `httpc_server_stop`, which changes
the state and closes the listening socket under the running loop; everything
else is function calls on one thread.  What is hard is the interleaving of the
loop's system calls with peers, the kernel's edge-triggered readiness and the
signal; partial reads and writes; recycling of slots within a round; and the
failure paths of allocation and of system calls.

Hard behaviours, each at its line in `PROJECT.json` under `hazards`: an edge
that is consumed and not acted upon (the connection sleeps for good); an event
of this round that points to a slot recycled earlier in the round; a second
request that arrives while the first is answered; a buffer that fills up exactly
(`recv` of zero bytes looks like the end of the stream); a stop signal in the
middle of accept, start, stop or just before `epoll_wait`; a descriptor closed
twice; a failing allocation in the middle of building a list, a tree or a
response; texts that are cut to their buffers and then compared; relinking a
list at its ends; references that share what another item owns; sizes that are
estimated in one place and used in another.

## 2. Plan

Modules, in the order in which they were written.

| module | models | used by |
|---|---|---|
| `EventLoop` | `main_handler` and all it calls, kernel, peers, stop signal | everything about connections |
| `ConnectionService` | abstract: what peers may rely on | refined by `EventLoop` |
| `EventLoopInvariant`, `EventLoopProofs` | inductive invariants; their proofs and the refinement | - |
| `ServerLifecycle` | `server.c`, `config.c`, `httpc_lib.c`, signals | `EventLoop` has the loop it reduces to a few steps |
| `RequestDispatch` | parser, handler, helpers, serialisation under failing allocations | `EventLoop`'s `Dispatch` is one pass through it |
| `Routing` | `router.c`, the copies made for it in `dispatch_request` | `RequestDispatch`'s `route` is its result |
| `RoutingProofs` | proofs about `Routing` | - |
| `JsonChildren` | sequences of children and what a tree owns | `JsonList`, `JsonForest` |
| `JsonList` | the four functions that relink a list of cJSON items | `JsonTree` |
| `TurnTheorems` | induction over the turns of a loop | `JsonHeapProofs`, `JsonAnswerProofs` |
| `JsonForest` | abstract: trees as ordered sequences of children, no pointers | refined by `JsonTree` |
| `JsonTree` | every call that builds, changes, copies or frees a tree | - |
| `JsonCompare` | `cJSON_Compare`, which recurs twice, of trees and their copies | - |
| `JsonHeapProofs` | that each relinking function does to any list what its name says; what holds of a heap, and what the functions that make, free and relink items do to it | `JsonTreeProofs` |
| `JsonTreeProofs` | the invariant of the calls, the loops, the refinement | - |
| `JsonParser` | the parser as functions, the recursion in C as a recursive function of the allocations left | `JsonBody`, `JsonText` |
| `JsonBody` | a body that arrives in pieces and is parsed | `JsonAnswer` |
| `JsonText`, `JsonGrammar` | printer and minifier as functions; the reference that they and the parser are compared with | `JsonAnswer` |
| `ResponseBuffer` | sizes and writes of the serialisers | `JsonAnswer` composes it with parser and printer |
| `JsonAnswerProofs` | proofs about `JsonParser`, `JsonBody` and `ResponseBuffer` | - |
| `JsonAnswer` | a body that is parsed, a tree that is printed into a response, which is serialised | - |
| `RequestDispatchProofs`, `ServerLifecycleProofs` | proofs about `RequestDispatch` and `ServerLifecycle` | - |

The components meet at three places, and each has one model on either side.
`main_handler` is in full in `EventLoop`, where the application's life cycle is
one start and one signal, and reduced to its tests and failures in
`ServerLifecycle`, where connections play no part.  `dispatch_request` is one
step in `EventLoop` (a response of some length results, whatever happens
inside), many steps in `RequestDispatch` (whatever the bytes, is each block
released and does a response result), and its path handling is in `Routing`.
Composing them in one state space would multiply states without a property that
needs more than one side: none of the shared state of one side (slots, heap
blocks, routes) is read by another.

## 3. The event loop

`EventLoop` has one action per system call with the computation that follows it,
since only at a system call can a peer, the kernel or a signal change what the
next instruction sees.

| state | code |
|---|---|
| `pc`, `cur`, `batch` | where `main_handler` is, the connection it works on, `events[index..]` |
| `conn` | `server->connections`: `fd` with `in_use`, `state`, `buffer_len`, the response's identity, length and `response_sent` |
| `running`, `listening` | `server->state`, `server->server_socket` |
| `stream`, `rd` | what each peer has sent and how much `recv` has returned; `connection->buffer` is the last `len` units of it |
| `wire`, `got` | what `send` has accepted and how much of it the peer has taken |
| `epi` | the kernel's epoll item: pointer, interest, and whether it is on the ready list |
| `answers` | history: which request each response answers |

| action | code |
|---|---|
| `Setup`, `LoopGuard`, `EpollWait`, `EpollFails`, `NextRound` | `main_handler` up to the `for` loop |
| `HandleListener`, `HandleHangup`, `HandleEvent` | the body of the `for` loop |
| `Admit`, `RegistrationFails`, `Refuse`, `AcceptEnds` | one iteration of `accept_connections` with `find_free_slot`, `set_nonblocking`, `EPOLL_CTL_ADD` |
| `Receive`, `ReceiveNothing`, `ReceiveLater`, `IoFails` | one `recv` in `read_connection` with the limit and `headers_complete` |
| `Dispatch` | `dispatch_request` and `EPOLL_CTL_MOD` to `EPOLLOUT` |
| `Transmit`, `TransmitLater`, `TransmitEnds` | `write_connection`; one `send` of several units is several steps |
| `Signal` | `signal_handler` between any two steps |
| `Connect`, `PeerSends`, `PeerShutsDown`, `PeerResets`, `PeerReads` | the environment |

Edge-triggered epoll is modelled by its ready list: a change on a socket queues
its item if it changes something the item is registered for, ADD and MOD poll
the socket at once, `epoll_wait` takes an item off the list when it reports it,
whether or not the program then does anything about it.  The events of a round
are a set: the program may rely on no order among them.  The listening socket is
level-triggered, as the code registers it.

A stream is made of units, `"t"` for a CR LF CR LF and `"x"` for anything else.
This loses one thing, a terminator that is split between two calls of `recv`;
`headers_complete` scans the whole buffer after every `recv`, so the terminator
is found by the call that delivers its last byte, which is where the model has
the unit arrive.  A terminator whose halves lie on either side of an emptied or
full buffer is none to the code, and two units `"x"` to the model.

`ConnectionService` is the abstract specification: connections are admitted
within a capacity, each response answers a request of its own, in order, and is
transmitted as a whole before the next one.  It may skip a request, because the
code empties its buffer after a response: a request pipelined behind another in
the same buffer is dropped with it.

### Runs

| run | instance | question |
|---|---|---|
| `event_loop_pool` | three peers, two slots, two events a round, one fault | `SlotOwnership`, `NoStaleEvent`, `EpollAgrees`, `NoLostWakeup`, refinement of `ConnectionService` |
| `event_loop_conversation` | one peer, four units, a buffer of two, responses of one or three units, a send queue of two, one fault, fairness | `TypeOK`, `NoForgottenRequest`, `AnswersDistinctHeads`, `ResponsesInOrder`, `NoTruncatedResponse`, `DropsOnlyForCause`, `InputConsumed`, `ResponseCompleted` |
| `event_loop_queue` | two peers, one slot, one fault | `QueueServed`, `StopCompletes` |
| `event_loop_stop` | one peer; a violation | `StopTerminates` |

Bounds.  More peers than slots make slots be recycled and the pool be full; more
connections ready than a round has events leaves some on the ready list; a stream
of twice the buffer has a second request arrive before, during and after the
first response, and fills the buffer with and without a terminator; a response
longer than the send queue takes several `EPOLLOUT` rounds.  One fault is enough
where faults are allowed because a failing call closes its connection or ends the
loop, and with it what the next fault could interact with; in the pool it is, among
others, the `EPOLL_CTL_ADD` that fails behind the stores to a slot, which must come
back for the peers still to be accepted, and the safety
properties of these runs are proved for any number of faults.  `RequestLimit` is at
least `BufCap` as in the code (`MAX_HEADER_SIZE + MAX_BODY_SIZE` against the
buffer's size), so the limit's own branch is only reachable when they are made
unequal the other way; the branch is kept in `Receive` and never taken.

Fairness.  `WF_vars(Server)` says that the process keeps being scheduled; the loop
is one thread, hence one fairness condition for all its steps, and none for the
choice among them.  `WF_vars(PeerReads(c))` is an assumption about the peer: the
code has no timeout, so a peer that never reads holds its slot for good, and a
response is only completed for one that does.  Nothing is assumed of peers that
should send, close or connect, nor of the signal.

`StopTerminates` is violated: the loop tests the state (handler.c:223) and then
calls `epoll_wait` without a timeout; a signal in between closes the listening
socket, which removes it from epoll, and nothing wakes the loop.  `StopCompletes`
is what does hold: in every other place the signal ends the loop.

### Proofs

`EventLoopProofs` proves every safety property of the first two runs and the
refinement for every value of the constants that meets the ASSUMEs of `EventLoop` (positive sizes, `BufCap` at most
`RequestLimit`, positive response lengths, `None` not a connection).  Clients need
not be finitely many for the invariants; nothing but the parameters is assumed.

No invariant of the run is inductive on its own: that an event points to its
connection depends on one slot per descriptor, which depends on the epoll item's
pointer, which depends on the slot's state.  The argument has three layers, in
`EventLoopInvariant`:

1. `Structure`: the type invariant, `SlotOwnership`, `EpollAgrees`,
   `NoStaleEvent`, `NoLostWakeup`, strengthened by `CurrentSlot` (the functions
   that take a connection are called with a slot in use and in the matching
   state) and `PendingEvents` (one event per slot, none of the slot in hand, none
   left between rounds).  The last is what makes recycling safe: closing a slot
   uses up the only event that points to it.
2. `HangupsAreResets`: a hang-up still in `events[]` is a reset of the connection
   in the slot, so closing for it is for a cause.
3. `Conversation`: the buffer of a receiving slot lies behind the last request
   answered and holds no complete request unless it is being dispatched; a
   sending slot's `response_sent` is where the wire ends.

The refinement then maps each step to a step of the service or a stutter;
admission within the capacity follows from the free slot that `find_free_slot`
has found, since distinct accepted connections have distinct slots.

## 4. The life cycle

`ServerLifecycle` is a stack of calls of which the innermost moves, so that a
signal handler is a call pushed at any moment, and the other signal one pushed on
top of it.  A step has at most one access to what the handler shares with what it
interrupts (`state`, `server_socket`, `g_signal_server`).  Descriptors are the
lowest free number, so a stale descriptor may denote another's; addresses are
reused after `free`.  `undefined` records the use of freed memory, after which
nothing moves.

| actions | code |
|---|---|
| `StartSocket` .. `Started` | `httpc_server_start`, each failing call with its undoing |
| `RunCheck` .. `RunSettles` | `httpc_server_run` around the tests of `main_handler` |
| `RunCallback` | a handler or `on_request` that calls start or stop |
| `StopEnter`, `StopForget`, `StopClose`, `StopClosed` | `httpc_server_stop` |
| `DestroyStop`, `DestroyFree` | `httpc_server_destroy` |
| `DefaultCreate`, `DefaultStart`, `DefaultRun`, `CleanupStop`, `CleanupDestroy`, `CleanupClear` | `httpc_start`, `httpc_cleanup` |
| `HttpcInit`, `HttpcConfigure`, `HttpcServerCreate` | the calls that are one step |
| `Deliver`, `SignalTest`, `SignalStop`, `SignalDone` | `signal_handler` |

`server_lifecycle` has two servers that compete for `g_signal_server` and three
descriptors, one less than both need, so that `socket` and `epoll_create1` run out
in the middle; both signals nest.  It checks that a held descriptor is open and
held once and that no path reaches `close` twice (`DescriptorsHeld`), that a stop has
done everything when it returns (`StopIsComplete`), that RUNNING
is said only within run (`RunningMeansRun`), that `run` overwriting the STOPPING
of a signal leaves no loop that can never be stopped (`NoDeafLoop`), that the
server started last is the one a signal stops (`SignalReaches`), and that
`destroy` releases what it should (`DestroyReleases`).  `NoDeafLoop` is the
subtle one: the signal's stop may be overwritten by `state = RUNNING`, and what
saves the loop is that `main_handler` looks at the socket before it starts.

Two runs are violations, each one line of a header against what the code does:

- `server_cleanup`: after a loop that ended on a failing call the state is
  STOPPED, `httpc_server_stop` returns at once, and `destroy` frees the server
  with its socket open and `g_signal_server` pointing at it.
- `server_configure`: a default server that failed to start keeps the
  configuration it was created with.

### Proofs

`ServerLifecycleProofs` proves the six properties of the run, and `TypeOK`, for any
number of servers, descriptors and configurations, from the ASSUMEs of
`ServerLifecycle` only (`None` is neither a server nor a descriptor, `Default` is a
valid configuration and `Unset` is none).  Every property there speaks of servers; what
makes it true is in the stack of calls, so the inductive invariant begins with that.

1. The shape of the stack.  `Nested`: on top of start, stop, destroy or a signal
   handler there are only stops and handlers, and no handler twice; the other calls
   are the application's own.  `Shallow`: three calls below a signal, two more for
   each, which is where the 7 of `TypeOK` comes from.  It is proved first and by
   itself, since it needs nothing of what the calls do to servers.
2. What each call in progress knows of its server at its place (`StartKnows`,
   `RunKnows`, `StopKnows`, `DestroyKnows`, `DefaultKnown`): what the code has
   tested or stored before, and still relies on after whatever interrupted it.  The
   one that is not a matter of one call is in `StopKnows`: once a stop has cleared
   `g_signal_server`, no stop above it and no handler about to stop has its server.
   That is why a stop nested in another never closes the socket a second time: it
   either finishes before the outer one forgets the server, or never gets hold of it.
3. What holds of servers: `Held`, `RunningLoops`, `StopIsComplete`, `SignalReaches`.

Each group of actions then has a lemma for the shape (`LibraryShape`, `SignalShape`,
`ApplicationShape`) and one for the rest (`StartKeeps`, `RunKeeps`, ...); steps
that change no server share `MovesQuietly`, `LeavesQuietly`, `EntersQuietly` and
`InterruptsQuietly`.  `RunKeeps` is where the overwritten STOPPING is settled: `run` is
the outermost call, so no stop is in progress when it stores RUNNING, and the stop
that was overwritten has taken the socket that `main_handler` will look for.

## 5. One request

`RequestDispatch` follows one request through `dispatch_request` with one step
per allocation; each may fail, up to `MaxFailures` of them.  State is which
pointer holds what (`mem`), which list nodes are allocated (`nodes`) and linked
(`params`, `headers`), and what was misused.  A request is a shape: which pairs
its query has (with value, without, without a name), which of its lines are
fields, whether it has a body.  A handler is one of four kinds, by the library
calls it makes; 200 stands for the status it chooses.

`request_dispatch` takes every shape with up to two pairs and three lines, every
kind of handler and any two failures.  Two pairs and three lines are the fewest
where the order in a list shows and the last line differs from the others; two
failures are needed for the `500` that `dispatch_request` builds when it has no
response to fail as well.

`Released` and `OnlyKnownMisuse` state what holds and name the exceptions, each a
path through the code that only a failing allocation reaches:

- the query string is leaked when the copy of the path fails (the parser frees the
  method only);
- `httpc_create_json_success_response` leaks the data it does not take over when
  the object or the key cannot be allocated;
- `httpc_create_response` frees a body it has never set when the copy of the
  content type fails;
- `strlen` is applied to NULL when two attempts to build a response have failed.

`HandlerSees` says what a handler may rely on: lists that are complete, newest
first (so the last of several pairs of one name wins), without half-made nodes.
It says so for every field but the last: `request_headers` is the violation.  The
header block is copied up to the CR LF CR LF, and `parse_headers` looks only at
lines that end in CR LF, so the last header of every request is lost.
`AnswerFits` says which status results.

### Proofs

`RequestDispatchProofs` proves `TypeOK`, `Released`, `OnlyKnownMisuse`, `HandlerSees` and
`AnswerFits` for requests with any number of pairs and lines and any number of failing
allocations; it assumes only that the three bounds are natural numbers.  The control is
a path with branches and two loops, so the inductive invariant says what holds at each
place of it:

- `PointerInv` (on `HeapType`): what every pointer of the request, the parser's copies,
  the handler's trees, the response and the serialised answer may hold there, and what
  has then become of the request.  `Released` and `AnswerFits` are it, read off at the
  last place; `OnlyKnownMisuse` is it, read off at every free, and is in the invariant
  itself because nothing is promised after a misuse.
- `ListInv`: between steps the two lists hold only pairs and fields behind the cursor,
  the later before the earlier, all of them if no allocation has failed, and the nodes
  allocated are exactly those of the lists, each with its strings.  It is what the
  cleanups of a half-made node have to restore, and what `HandlerSees` and the empty
  `nodes` of `Released` are read off.
- `StoredInv`: a request that is done has an answer unless the missing one counts as
  misused.

Each of the three is shown for the parser, the handler and the serialisation
separately (`ReadingPointers`, `HandlingPointers`, `RespondingPointers`, ...), the lists
from `AddToParams`, `AddToHeaders` and `DropLists`, which are about the operations
themselves.

## 6. Routing

`Routing` keeps of a text what routing depends on: leading slashes, a stem and a
length.  A registration strips all slashes and cuts the rest to 255 characters and
the method to 7; a request's path is cut to 255 characters first and then loses
one slash.  `routing` has texts at 0, 1, 254, 255 and 256 characters with zero, one
and two slashes, methods of 3, 7 and 8, and two registrations, which is what an
override or a confusion of two routes takes.  `ServedAsRegistered` compares the
list search over cut copies with what the registrations say, for requests that are
`Plain`; what is not plain is: longer texts than the buffers, which may be
served by a route they merely share a prefix with, and two leading slashes, which
are never served.  `OthersKeepTheirRoutes` compares the answers before and after
a registration.

`RoutingProofs` proves both, and `TypeOK`, for every buffer size, every set of
texts and any number of routes.  `TypeOK` (the list is the copies of the
registrations, newest first) is inductive; that a cut copy equals a plain text
only if the text cut was that text (`CutExact`) gives that the positions matched
are the positions registered (`MatchesAreRegistered`), and the first of them is
the same in both lists.

## 7. JSON trees

`JsonTree` has one action per public call of `cJSON.c` that builds, relinks,
copies or deletes; the wrappers of `json_utils.c` are such calls.  A call is a
function from one heap to the next (`JsonList` for the four functions that
relink), and a heap is a record:

| field | code |
|---|---|
| `next`, `prev`, `child`, `kind`, `key` | the members of `struct cJSON`; a text is owned or not, its bytes play no part |
| `ref`, `const` | the flags `cJSON_IsReference` and `cJSON_StringIsConst` |
| `live`, `texts` | the items and texts that are allocated |
| `fuel` | how many more allocations of the running call succeed: any of them may be the first to fail |
| `room` | the bound on what a behaviour creates |
| `undefined` | an item was freed twice or through a stale pointer |

`mine` is what the caller was given and has to delete, `kids` the children of each
item as a walk along `next` reads them.  The caller keeps the contract of
`cJSON.h`: it adds only items that are in no list, adds no item to its own tree,
changes no list through a reference and copies none whose referent is gone.

`json_tree` takes every sequence of calls in three rooms: four items without keys
or texts, the fewest with two siblings of which one is replaced or inserted before
by an item made elsewhere; three items with a reference, a copied text and a
constant key; and three with two copied texts.  `CJSON_CIRCULAR_LIMIT` is 2, so that a copy gets there.  Beside the
list structure (`WellLinked`) and the ownership of items and texts (`OwnedOnce`),
which span any number of calls, it checks at every heap what the next failing call
would leave (`FailureRestores`) and that a copy compares equal (`CopyCompares`).
`ImplementsForest` is the refinement: without pointers, a call moves one item, makes
one tree or removes one.

Two exceptions are stated in the properties.  `OwnedOnce`: the reference that
`cJSON_AddItemReferenceToObject` makes is in nobody's hands when its key cannot be
copied (cJSON.c:2132); no more than that block is lost.  `CopyCompares`: an object with two members of one name, or
with one that has no key, which ends an exact search and not an inexact one
(cJSON.c:1948), need not compare equal to its copy.

The functions that loop or recur in C are functions of how often: `Visit` of
`cJSON_Delete` of the items still to meet, `Copies` of `cJSON_Duplicate` of the depth
that `CJSON_CIRCULAR_LIMIT` leaves, `Elements` of `cJSON_CreateStringArray` of the
elements made.  Only `Compare` is RECURSIVE, and in a module of its own, which no
proof uses.

### Proofs

`WellLinked`, `OwnedOnce`, `FailureRestores` and `ImplementsForest` are proved for any
finite set of items and any bounds on depth, length and what allocations succeed, from
the ASSUMEs of `JsonList` and `JsonTree` (`Null` is no item, items are finitely many,
`None` is no name, the kinds the caller asks for are kinds).  The argument has three
layers.

1. Lists (the first part of `JsonHeapProofs`).  An append, a detachment, an insertion and a replacement
   leave exactly the list that the name says, of any length, every back link and the
   first item's link to the last included, and the removed item loose.
2. Heaps (the rest of it).  `Good(h, k, open)` says that the heap h stands for the
   forest k: the children of each item are the list that k names (`Whole`; the lists of
   the items in `open` are still being made and lack the link to the last), roots are
   loose (`RootsLoose`), memory that is free is blank (`Blank`), the texts allocated are
   those the items own (`Counted`), and k is a forest: one parent each and no cycle
   (`IsForest`).  The last is what makes `cJSON_Delete` end, and free nothing twice
   (`DeleteCorrect`).  References are outside: their children are another's, so k gives
   them none.  `Held` adds whose the roots are: the caller's, or lost references.
   `AppendSound`, `DetachSound`, `InsertSound`, `ReplaceSound`, `DeleteSound` and
   `LeafSound` show that each elementary step leads from `Sound`, which is both, to
   `Sound`.
3. Calls (`JsonTreeProofs`).  The inductive invariant `IInv` is `Sound(heap, kids, mine)`.
   `WellLinked` and `OwnedOnce` are not inductive without it: that a link leads to an item
   that is allocated takes the blank rest of memory, that deleting frees every item once
   takes the forest, and `Counted` is what relates texts to items across a key that is
   swapped.  Each call has a lemma that it leaves the heap `Steady`: sound again, and its
   forest `Turned`, which is one of the steps of `JsonForest` said without primes.  The
   refinement is read off that.

A call that loops makes a tree beside the forest.  `Grown` says so of the heap in the
middle of it: nothing is new but the tree below one root, and freeing that tree would
give the heap that the call began with but for the allocations left
(`Same`).  Every turn of the loops keeps it, at whatever depth of the recursion, so a
call that gives up restores (`FailureRestores`) and one that succeeds has added one tree
(`Sprouted`).  The induction is over the number of turns (`EveryTurn`, `Loop` in
`TurnTheorems`), for which no operator needs to be passed: a set of numbers of
turns has a least element.

`CopyCompares` stays with TLC, since `Compare` is RECURSIVE.

## 8. JSON texts and answers

`JsonParser` is the parser, `JsonText` the printer and the minifier, as functions on
sequences of bytes.  Recursion in C is recursion here; in the parser it is the function
`Elements` of the allocations left, of which every element takes one.  What `cJSON_Delete`
is given is listed in `freed`, what was allocated is counted in `blocks`.  Every access the code does not check itself
is checked by the model, which records in `outside` whether one missed its block.
Bytes are members of a small set, one for each way the code treats them: digits are
`"1"`, letters `"n"`, `null` stands for `true` and `false` too.  `JsonGrammar` is what
it is compared with: JSON recognised by splitting a whole text, and the text of a tree
without a buffer.

`JsonAnswer` composes them with `ResponseBuffer`.  A body arrives word by word
(`JsonBody`); it is parsed, or a handler builds a tree of its own; the tree is printed into a response;
headers are added; the response is serialised by `httpc_response_to_string` or by
`build_response`, part by part into a buffer whose size is computed beforehand.

`json_answer` has every text of up to three words out of 18, strings of up to four,
and the texts of up to four words, the first of which may be a longer start, that the
parser objects to only at their end (with no escapes added outside strings); those
that fail earlier fail the same whatever follows.  Starts bring it further: members,
nested lists, siblings at the nesting limit (2), a byte order mark, a string that ends
in an escaped backslash.  `default_buffer_size` is 4, so that printing grows the buffer
several times, and `INT_MAX` is 24, so that it gets there.

Two functions of cJSON measure first and write afterwards, and the model keeps their
passes apart.  `parse_string` sizes a block by one scan (`Scanned`) and decodes into it
(`Decode`); `print_string_ptr` counts what escaping adds (`EscapeCharacters`), asks for
that much, and writes the escapes (`Escaped`), with the closing quote and the NUL where
the count says: a count that disagrees cuts the text or writes behind the buffer, which
`RoundTrip` and `PrintsInside` both notice.

| property | question |
|---|---|
| `ReadsInside` | no byte is read behind the text or written behind a string's block, with and without a NUL at the end |
| `AllOrNothing` | whichever allocation fails and wherever the text is wrong, all or nothing is left |
| `AcceptsGrammar` | exactly the texts of the grammar are accepted |
| `RoundTrip` | printing a tree and parsing the text gives the tree, in both formats |
| `PrintsInside` | the print buffer is never overrun; how large one given to `cJSON_PrintPreallocated` must be: the text and two bytes, so that the five of cJSON.h:168 suffice |
| `MinifyKeepsStrings` | exactly the blanks and comments between strings are taken out |
| `WholeAnswer` | the computed size of an answer suffices (`SizesAgree`), nothing is written behind it (`WritesInside`), nothing is cut (`TextComplete`) |

Exceptions, each in the property it concerns: `parse_hex4` takes four bytes that are no
hex digits for the code 0, so such an escape is accepted; `cJSON_PrintBuffered` with a
buffer of no bytes and hooks without a `realloc` copies one byte it does not have
(cJSON.c:561); `minify_string` takes the quote after an escaped backslash for an escaped
one and runs on to the next (cJSON.c:2901).

### Proofs

`JsonAnswerProofs` proves `ReadsInside` of the parser for texts of any bytes, any length
and depth, any nesting limit and any allocation failing (`ParseCorrect`), and so of any
body in whatever pieces it arrives (`ParsesInside`, from the ASSUMEs that texts are made
of `Bytes` and that the NUL is one of them).  The invariant is `Fits`: the offset is in
the text or at its end and nothing was missed so far.  Each function has a lemma that it
keeps it, given what its caller has looked at before (`CanAccess`); the recursion is an
induction over the allocations left (`ElementsFit`), in which a list that succeeds also
leaves a byte to stand on, its closing bracket, and the depth it found.

The hard part is the block of a string (`DecodeFits`).  Its size is what a first loop
finds between the quotes, less a byte for each escape; a second loop decodes.  The two do
not stop at the same bytes: what `parse_hex4` takes for four digits may hold a backslash,
so the decoder can stand between the two bytes of what the first loop took for an
escape, and even end one byte behind the closing quote.  `Covered` says that what is
written is still covered by what the first loop has counted up to there or, when
the decoder is inside one of its escapes, up to one byte further: at least half the bytes
of a sequence of six or twelve are counted (`ScanReaches`), and at most three or four are
written (`Utf16Fits`).

`AnswersWhole` proves the three parts of `WholeAnswer` for texts of every
length.  The invariant that carries them is `WorkAhead`: what remains
of the buffer is what the parts to come will take, and two bytes more in
`httpc_response_to_string`, which counts four for a CR LF.  It assumes that sums of
lengths fit into `size_t` and that a response's `headers` are not an empty string
(`httpc_set_header` makes none; `response->headers[strlen - 1]` would be read before
the block).

The other properties of texts stay with TLC: the printer, the grammar and the count of a
tree's blocks recur over trees, which are no set an induction here could go over.

## 9. What is proved, what is only checked, what is left out

Proved for every value of the constants: the safety properties of `EventLoop` and its
refinement of `ConnectionService`; what the passing runs check of `ServerLifecycle`,
`RequestDispatch` and `Routing`; of `JsonTree` that lists stay whole, blocks have one
owner and failures restore, and its refinement of `JsonForest`; that the JSON parser
stays in the text and in its blocks; the sizes of a serialised response.  Only
model-checked:

- all liveness (`InputConsumed`, `ResponseCompleted`, `QueueServed`, `StopCompletes`):
  the prover does not handle fairness and ENABLED;
- `CopyCompares` and the other properties of JSON texts (`AllOrNothing`, `AcceptsGrammar`,
  `RoundTrip`, `MinifyKeepsStrings`, `PrintsInside`): the comparison, the printer, the
  count of a tree's blocks and the grammar are RECURSIVE operators, with which the prover
  cannot work.

Each property comes with a mutant, the model changed as a plausible bug would
change the code, under which TLC finds the property violated.

Not modelled:

- in `EventLoop`: a failing `EPOLL_CTL_MOD`; failing allocations (they are in
  `RequestDispatch`); what a handler does; data a peer sends after `close`; the
  backlog limit of `listen`;
- at `httpc_server_destroy`: open connections and their responses are not closed
  or freed by the code, and the model of the life cycle does not count them;
- the compiler's freedom to reorder the two stores at the end of
  `httpc_server_start`, which are not volatile or atomic; a signal between them
  finds a server in state CREATED and is lost, in the model as in the code;
- of request texts: %-decoding, trimming and name comparison;
- of cJSON: fractions, exponents, the conversion between numbers and texts;
  `cJSON_InitHooks` beyond whether there is a `realloc`; `cJSON_GetErrorPtr`; raw
  items that are not text; a caller that breaks the contract of `cJSON.h`;
- the getters of `json_utils.c`, which read a tree and change nothing;
- logger, error texts, string helpers: they keep no state that the library reads;
- tests and examples, which are read for what they expect.
