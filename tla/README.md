# Formal models of phosg-event

phosg-event wraps libevent in C++ classes and adds three servers: StreamServer (TCP), HTTPServer
and HTTPWebSocketServer. The repository has no tests; what it promises is in its code, a few
comments and its names. This directory holds TLA+ models of the parts that have logic of their own,
the TLC configurations that check them on small instances, and TLAPS proofs of the main results.
Every source line below is in `src/` of the repository.

- [1. The system](#1-the-system)
- [2. Modules](#2-modules)
- [3. Runs](#3-runs)
- [4. Fairness](#4-fairness)
- [5. Proofs](#5-proofs)
- [6. Disagreements found](#6-disagreements-found)
- [7. Not modelled](#7-not-modelled)
- [8. Plan](#8-plan)

## 1. The system

Everything runs in the one thread that runs the libevent loop. What makes it hard is not parallelism
but callbacks: libevent calls static `dispatch_*` functions with raw pointers, these call virtual
hooks, and the hooks call back into the classes, destroy objects, throw, and nest. Memory is owned
partly by C++ objects and partly by libevent, and addresses are reused.

| component | state | operations | hard behaviour | what makes it correct |
|---|---|---|---|---|
| StreamServer, clients | `bev_to_client`, the Clients and their bufferevents | accept, input, error, `disconnect_client`, three hooks, destructor | hooks nest, re-enter and throw; a Client outlives its registration, or the server; addresses are reused | nothing freed twice or leaked, map and objects agree, hooks come in order and once |
| StreamServer and HTTPServer, listening sockets | `listeners`; what evhttp was given | `listen`, `add_socket`, `remove_socket`, destructors | sockets are known by descriptor numbers, which the program may close and reuse; failures that are ignored | what is served is what the program was told is served |
| HTTPWebSocketServer | `bev_to_websocket_client`, per client the pending message | upgrade, frame decoder, replies to control frames, `disconnect_websocket_client`, send | bytes arrive in any pieces; a size that wraps; hooks that disconnect the client whose callback runs; close racing its own reply | messages are the right frames in order; the client leaves once; no lookup fails |
| wrapper classes (Event, EventBase, EvBuffer and its LockGuard, Listener, BufferEvent, EvDNSBase, EvHTTPRequest) | a pointer and an `owned` flag each | construct, wrap, copy, move, assign, `set_owned`, destroy | eight hand-written copies of one pattern that differ in details; self-assignment; libevent remembers the address of the creator | one owner from allocation to one release; the callback reaches the owner |
| CallbackEvent, EventBase `once` and `call_later` | a `std::function`, pending and persistent events, closures on the heap | arm, delete, fire, copy, move, assign, destroy | the function that runs may move or destroy its own event; exceptions; the base is freed first | an event calls the function it was made with; closures are deleted once |
| EvBuffer | bytes, references to memory of others | add, reference, transfer, remove, pull up, free | references shared and split between buffers; calls that consume and then throw | referenced memory outlives its bytes and is released with them; no byte lost or doubled |
| BoundedReader | `bytes_remaining` | skip, read, get | an unsigned count | never more than the bound is read |
| HTTPServer | the evhttp, created by the first `add_socket` | dispatch, three `send_response`, destructor | an unknown response code throws half way; a request can be copied and answered late, answered twice, upgraded; connection, request and client outlive each other | one reply or one upgrade per request; nothing freed is used, or freed again |
| EvHTTPRequest | a libevent request | accessors, `parse_url_params` | percent decoding in place | decoding agrees with the standard |
| BufferEvent, Listener, EvDNSBase, EventConfig, SSL | (ownership as above) | forward to one libevent or OpenSSL function each | | |

The servers are built from the wrappers: a StreamServer Client contains an owning BufferEvent; a
WebSocketClient wraps the bufferevent of an evhttp connection and frees the connection; HTTPServer
wraps requests without owning them; the WebSocket decoder reads through EvBuffer and HTTPWebSocketServer
derives from HTTPServer. `PROJECT.json` lists for every component what is modelled and, under
`hazards`, each place where something can go wrong that a test would hardly reach.

## 2. Modules

| module | models | checked through |
|---|---|---|
| `StreamServer` | clients of StreamServer (`StreamServer.hh` 32, 99-104, 120-205) | `MCStreamServer` |
| `ClientSessions` | the abstract promise to a subclass about each client | refined by `StreamServer` |
| `WebSocketConnection` | one WebSocket connection (`HTTPWebsocketServer.hh` 28-226) | `MCWebSocketConnection` |
| `WebSocketLength` | the length field of a frame, as written and as read (the same file, 136-151 and 228-250) | `MCWebSocketConnection` |
| `ListeningSockets` | sockets of a server of either class (`StreamServer.hh` 34-72, `HTTPServer.cc` 94-113) | `MCHTTPServer` |
| `HTTPRequests` | extends it and `UrlParams` by connections, requests and upgrades (`HTTPServer.cc`, `HTTPWebsocketServer.hh` 59-106, 216-226) | `MCHTTPServer` |
| `HTTPExchange` | the abstract promise: one reply, or one upgrade, per request | refined by `HTTPRequests` |
| `UrlParams` | `EvHTTPRequest::parse_url_params` (`EvHTTPRequest.cc` 38-80) | `MCHTTPServer` |
| `Handles` | ownership in eight wrapper classes | `MCHandles` |
| `UniqueOwner` | the abstract promise: one owner until one release | refined by `Handles` |
| `CallbackEvents` | functions the loop calls later; takes the actions of `Handles` for class Event and adds the function | `MCCallbackEvents` |
| `EvBuffers` | contents of buffers and what they refer to | `MCEvBuffers` |
| `BoundedReader` | EvBuffer::BoundedReader, lengths only | `MCBoundedReader` |
| `StreamServerProofs`, `HandlesProofs`, `HTTPRequestsProofs`, `UrlParamsProofs`, `WebSocketConnectionProofs`, `CallbackEventsProofs`, `EvBuffersProofs`, `BoundedReaderProofs` | theorems | TLAPS |

**How hooks are modelled.** A hook is not one step: between the call and the return the subclass may do
anything the API lets it do. `StreamServer` and `WebSocketConnection` therefore keep a *stack* of the
hooks that run. An action of libevent (`Accept`, `ClientInput`, `ErrorEvent`, ...) needs an empty stack and
runs the dispatch function up to the call of the hook; actions named `App...` are what the subclass
does; `...Returns` and `...Throws` run the rest of the function that called the hook. Destruction of
a `shared_ptr` is not an action: `Settle` (and `Remains`) computes, in every step that changes owners,
which objects lose their last one, and runs their destructors in that step.

**How misuse is modelled.** The code states no contract for its callers. Instead of assuming one, each
module lets callers do everything, records in a history variable what they did (`broken`, `misuse`,
`cause`, `did`), and each property names exactly the deeds it depends on: `NoDoubleFree ==
fault = "double_free" => "keep" \in broken`. Such a property is stronger than one proved under an assumption:
it says which rule protects against what, and that all other rules do not matter for it. The contract that
results is in section 3.

**StreamServer.** `map` is `bev_to_client` keyed by addresses (`Addr`), which are reused as soon as a
bufferevent is gone; `bevOf` remembers the address of each Client. `Disconnect` is `disconnect_client`: the lookup
by `c->bev.get()`, the hook, and (in `DisconnectReturns`) the erase through the iterator, which is undefined if the
entry is gone by then (`fault = "stale_iterator"`). `FreeUnregistered` is the bare `bufferevent_free` in the catch
clauses of the input and error dispatchers. `DestroyServer` is the defaulted destructor (line 32): it calls no hook, the entries of the
map let go of their clients, and a client that the subclass still holds keeps callbacks whose argument was the server (`LateEvent`).

**WebSocketConnection.** Bytes are counted, not represented: `avail` bytes are in the input buffer,
`pos` frames were taken, and `Complete`, `Taken` and `Removed` follow the arithmetic of the decoder (with `size_t`
as integers modulo `SizeT`). `called` tells whether libevent has called the read callback yet: bytes that came with the upgraded request are in the buffer
without a call (`EnableWebsockets(n)`). The iterator of `disconnect_websocket_client` is valid after its hook if the entry is there and the map was not rehashed meanwhile
(`IteratorIsValid`): the hook may upgrade another request that the subclass kept, and `emplace` may rehash (`AppUpgradesAnother`; `rehashed` says how many
functions of the stack are older than the last rehash). Behaviours stop taking input after a masked frame was decoded, since the decoder has lost
the frame boundary then. The header cannot be instantiated as written (it passes an `SSL_CTX*`
where HTTPServer wants a `shared_ptr`, and calls hooks `handle_websocket_*` that it declares as
`on_websocket_*` and `in_websocket_disconnect`); the model takes the calls to mean the declared functions.

**WebSocketLength.** A size is the sequence of its eight bytes, so that the writer and the reader can be compared for
sizes of 64 bits; `Bytes` are the values a byte may have (five of them in the run, any in the theorem). The opcode and the payload are
left out. `WebSocketConnection` extends it.

**ListeningSockets.** `listening` and `watched` are libevent's and the kernel's view: libevent has any number of listeners
per descriptor number but asks the kernel to watch it only for the first; the kernel watches sockets and forgets closed
ones. `promised` is the view of the program: what `add_socket` or `listen` accepted without an exception. A failure of
`evhttp_accept_socket`, which `HTTPServer::add_socket` ignores, is a disjunct of `HTTPServerAdds`.

**HTTPRequests.** Three objects meet: the `evhttp_connection` (`conn`), its `evhttp_request` (`request`), both evhttp's, and
the `WebSocketClient` (the key in `wsmap` and the subclass's `held`), whose destructor frees the connection. `handle_request` is
not one step: `who` says for which connection it runs, and between `Request` and `HandlerReturns` the subclass may answer,
upgrade, copy the request (`kept`) and so on; for a kept request it may do so later, too. `SendResponse` and `SendUnknown` are what the three
`send_response` have in common: the code is looked up (in the one with a format by the one it calls), which may throw, into the callback that runs at the
moment, and then the reply is sent. The headers that they add first are not modelled. What evhttp does by itself (`Connect`, `Flush`, `PeerCloses`) is external, as is `SendReply`: it takes the callbacks of the
bufferevent back, and just frees a request that has lost its connection. `did` records for each connection what the program did
(`Deeds`). A WebSocketClient's life after the upgrade is only as detailed as its ownership needs; the rest is in `WebSocketConnection`.

**UrlParams.** The decoder is a recursive function of the state of the loop (`Loop`: the string, which is changed in place, and the two
offsets of the code); `value.size() - 2` wraps modulo `SizeT`. It is compared with a reference decoder that is written from the standard
(`application/x-www-form-urlencoded`, `Meaning`), and with a browser's encoder (`Encoded`, `Query`) for whole forms. `Values` and `Forms` say
which values and forms a run looks at. An escape that stands for no character of interest decodes to "other".

**Handles.** One module with a table of features (`EventFeatures` and so on) that says in what each
class departs from the pattern: who frees in `operator=`, who checks for null, who has
`set_owned`, which class libevent calls back. A behaviour is about one class.

**CallbackEvents** instantiates `Handles` for class Event (`Handle!Move` and so on) and adds what
happens to the function, to pending events and to the base. `call_later(fn, usecs)` is
the constructor with `usecs` as its `persist` argument, as in the code.

**EvBuffers.** A byte knows its block and whether it is a copy or a reference. libevent's part is marked external: which bytes of
a split chain are copied, and `refs`, how many chains refer to a block. Every call says which chains it makes and which it lets go of (`Install`).
`Released` is the pair of cleanup callbacks: they run when a call brings the count of a block down to zero, whatever the buffers then have.
`ReferenceRefused` is `add_reference` when libevent does not take the data.

## 3. Runs

| run | result | instance | question |
|---|---|---|---|
| `any_subclass` | pass, 153,641 states | 2 clients, 2 addresses, 3 nested hooks, any subclass | which promises of StreamServer depend on what |
| `disciplined_subclass` | pass, 2,831 | the same, a subclass that keeps the rules | StreamServer implements ClientSessions, with liveness |
| `any_caller` | pass, 91,857 | 3 objects, 2 resources and one of libevent's, 8 classes | what ownership each class guarantees; Handles implements UniqueOwner |
| `any_frames` | pass, 2.2 million | 3 frames out of 9 kinds in any pieces, up to 2 bytes with the request, 2 nested hooks; 390,625 sizes | decoder, message assembly, removal; which sizes the encoder writes so that the decoder reads them |
| `masked_frame_is_read` | violated | 1 frame | see section 6 |
| `close_is_answered` | violated | 1 frame | see section 6 |
| `callbacks` | pass, 145,496 | 2 objects, 2 events, 1 once | what an event calls, and when |
| `call_later_calls` | violated | 1 object | see section 6 |
| `http_server` | pass, 26,295 | 2 classes, 1 descriptor number for 2 sockets, 1 connection, 2 codes, 2 responses; values of up to 6 characters, forms of 2 fields | what is served, freed once, said once; HTTPRequests implements HTTPExchange; which URL parameters are decoded right |
| `buffers` | pass, 183,950 | 2 buffers, 2 blocks of 2 bytes, one duplication | lifetime of references, conservation of bytes |
| `bounded_reader` | pass, 132,066 | bound 3, `size_t` of 3 bits | what the count means |
| `insufficient_means_too_few` | violated | the same | see section 6 |

Runs with `CHECK_DEADLOCK FALSE` model systems that may stop: after an undefined behaviour or an escaped
exception, and when the bounded supply of clients, frames or blocks is used up.

**Bounds.** Every bad outcome the properties speak of needs at most two clients: one whose
pointer is stale and one that reuses its address. Three nested hooks are enough for a hook
inside a hook that disconnects the client of either. Objects: a source, a target and a bystander. Three
frames contain a message of three fragments, a control frame between two fragments, and two frames that
arrive together. Nothing follows a frame whose length wraps, since the decoder never gets past it (`Init`); two bytes with the request (`MaxEarly`) are
the shortest frame or a part of a longer one. One HTTP connection is enough because connections share nothing but the server and the loop
(`HTTPRequestsProofs` shows the same for any number); two responses are an answer and a second one, or an unknown code and then
a known one; one number for two sockets is the reuse of a number. Sizes have bytes on both sides of every limit of the length
field (0, 1, 125, 126, 255); values of six characters hold two escapes, or one beside anything else. The two properties of pure functions
(`SentLengthsReadBack`, `UrlParamsDecoded`) are evaluated where the program calls them: while a websocket is open, while a
handler runs. Two blocks of two bytes contain a split reference and a neighbour. That the
interesting cases happen is shown by the mutants: for every property, one plausible bug of the code
(a dropped membership check, an entry erased first, a copy that owns, a header
counted twice, ...) is defined beside the definition it changes, and the property fails with it under the
same bounds.

### The contract that the checks establish

StreamServer keeps all its promises to a subclass that obeys four rules (`Rules`):

| rule | if broken |
|---|---|
| keep: hold no Client across a return to the loop once it is unregistered, or while the server is destroyed | double free, or another connection is erased in its place, or a callback into the destroyed server |
| early: no `disconnect_client(c)` inside `on_client_connect(c)` | the call has no effect, c is registered afterwards |
| reenter: no `disconnect_client(c)` inside `on_client_disconnect(c)` | erase through a stale iterator |
| throw: `on_client_disconnect` does not throw | the client stays, or the exception passes through libevent |

Whatever the subclass does: a key of the map is the address of its own live Client (`MapKeysLive`),
the unchecked `emplace` always inserts (`EmplaceInserts`), nothing leaks unless kept (`NoLeak`), a refused client is never
reported as disconnected (`DisconnectHookAfterConnect`), and an entry is only removed by its own
`disconnect_client` (`ErasedByItsOwnDisconnect`).

Wrapper classes: two owners only after `set_owned(true)`; a leak only by `set_owned(false)`, by assignment in the classes
whose `operator=` does not free (EventBase, Listener, BufferEvent, EvDNSBase, EvHTTPRequest, LockGuard), or in EvHTTPRequest, which never
frees; callbacks reach the owner until it is moved (`CallbackReachesOwner`). A CallbackEvent that was moved
while it is armed calls the moved-from object's (possibly empty) function (`CallsOwnFunction`, `FireIsSafe`). A function that
destroys or assigns its own event destroys itself while it runs: state `crash = "displaced"`, which
no class prevents.

Listening sockets: what is served is what was accepted and not removed (`ServedAsPromised`), unless the program closes a
descriptor whose number the server still has, or evhttp failed unnoticed.

HTTP requests: everything holds for a subclass that answers or upgrades each request once.

| deed | if done |
|---|---|
| again: answer or upgrade a request that was answered or upgraded | the request may have been freed (`RequestsSafe`); the map may keep a client whose callbacks evhttp took back, or whose connection is freed (`MapConnsLive`, `ConnsFreedOnce`) |
| late: upgrade after `handle_request` returned | the connection may be gone: libevent is asked for the bufferevent of null (`RequestsSafe`) |
| outlived: hold a WebSocketClient while the server is destroyed | its connection is freed twice (`ConnsFreedOnce`) |

To answer a kept request late is safe, even when the client has gone.

URL parameters: values are decoded as the standard says unless a plus sign comes after a percent sign, and the form a browser wrote
is read back unless a blank comes after an escaped character or a key needs an escape (`UrlParamsDecoded`).

WebSocket connections: messages are assembled right whatever comes between the fragments (`MessagesAssembled`), violators
leave (`ViolatorsLeave`), but a second frame that arrived together with the first waits for more bytes
(`NoStall`), as does one that arrived with the upgraded request, and a subclass must not disconnect twice, nor keep a disconnected client in the loop,
nor upgrade another request inside `in_websocket_disconnect` (`NoBadIterator`). A payload of
126 to 65535 bytes is announced in a form that the decoder takes for an empty frame (`SentLengthsReadBack`).

## 4. Fairness

Only two properties need any. `BrokenConnectionLeaves` and the liveness part of `ImplementsSessions`
assume that hooks end (`SF(HookEnds)`: a subclass does not loop for ever inside a hook),
that libevent reports an error it has seen (`SF(ClientError(c))`: strong, because the event is disabled whenever another hook
runs, and justified because a pass of `event_base_loop` runs every active event), and, for the release of Clients, that
the subclass drops pointers to clients it was told about (`AppFairness`). Nothing is assumed of peers, of accepts or of
what subclasses call. `CallLaterCalls` is refuted under the assumption that the loop runs every pending event and that
functions return, so it fails because the event is not pending.

## 5. Proofs

TLAPS proves every safety property of the passing runs, for every value of the constants that satisfies the
named assumptions: `ConstantsAssumption` (of StreamServer and of WebSocketConnection, where a `size_t` is wider than any header),
`SocketsAssumption`, `RequestsAssumption`, `ParamsAssumption`, `CallbackAssumption`, `BuffersAssumption`, `BytesAssumption`, `BoundedReaderAssumption`. They say
that null values and tags are not members of the sets they are beside, that bounds are numbers and bytes are in 0..255, that a block has at least one
byte, that the values and queries that are looked at are strings shorter than the largest `size_t`, and that a `size_t` holds a reader's bound and the sizes 1 and 2 of the numbers it gets. No theorem assumes anything
of what callers or peers do.

- `StreamServerProofs`: `TypeCorrect`, `SingleFree` (`NoDoubleFree`), `MapIsSound` (`MapKeysLive`),
  `NewKeyIsFresh` (`EmplaceInserts`), `NothingLeaks` (`NoLeak`), `ServerOutlivesEvents` (`NoLateEvent`), for any number of clients and
  addresses, any nesting, any subclass; `EraseIsValid` (`NoStaleErase`), `ToldOnce` (`DisconnectHookOnce`), `ToldOnlyIfConnected`
  (`DisconnectHookAfterConnect`), `DisconnectLasts` (`DisconnectIsFinal`) and `EntriesLeaveByTheirOwnCall`
  (`ErasedByItsOwnDisconnect`), each from the rules its property names and no other; and `RefinesSessions`, the safety part of
  `ImplementsSessions` for a subclass that keeps every rule.
- `HandlesProofs`: `TypeCorrect`, `OwnersAreUnique`, `OwnedIsLive`, `FreesAreSound`, `BorrowedIsKept`,
  `LeaksAreExplained`, `CallbacksReachOwners`, and `RefinesUniqueOwner` (`ImplementsUniqueOwner`), for any number of objects and
  resources of any class.
- `HTTPRequestsProofs`: `TypeCorrect`, `PromisesAreKept` (`ServedAsPromised`), `ListenersAreCounted`, `FreedRequestsRest` (`RequestsSafe`),
  `ConnsHaveOneEnd` (`ConnsFreedOnce`), `MapIsLive` (`MapConnsLive`), `ParametersAreDecoded`
  (`UrlParamsDecoded`) and `RefinesExchange` (`ImplementsExchange`), for any number of sockets, connections and responses.
- `UrlParamsProofs`: `DecodesValues`, for every value of any length, and `ReadsForms`, for forms of any number of fields of any length: the two
  halves of `UrlParamsDecoded`.
- `WebSocketConnectionProofs`: `ControlInvariance` (types among others), `HookRunsOnce` (`DisconnectHookOnce`), `IteratorsAreValid` (`NoBadIterator`),
  `ExceptionsAreExplained` (`EscapesExplained`), `FramesAreRead` (`NoStall`), `ErasedClientsAreSilent` (`SilentAfterDisconnect`), `MessageInvariance`,
  `MessagesAreAssembled` (`MessagesAssembled`) and `ViolatorsAreDisconnected` (`ViolatorsLeave`), for any number of frames of any kind in any pieces, any nesting
  of hooks and any width of `size_t`; `SentLengths` (`SentLengthsReadBack`), for all sizes of 64 bits.
- `CallbackEventsProofs`: `Invariance` (types among others), `EventsCallTheirFunction` (`CallsOwnFunction`), `CallsAreSafe` (`FireIsSafe`), `OnceIsDeleted`
  (`OnceDeleted`), and `EventsAreHandles`: it refines `Handles` for class Event, so the theorems of `HandlesProofs` hold of events with
  functions, for any number of objects, events and calls of `once`.
- `EvBuffersProofs`: `Invariance` (types among others), `ReferencedDataLives` (`DataLives`), `ReferencedDataIsReleased` (`NothingLeaks`), `BytesAreConserved`
  (`BytesConserved`), for any number of buffers and blocks of any length.
- `BoundedReaderProofs`: `BoundIsTakenAtOnce` (`NothingInPieces`) and `BytesAccounted` (`Accounts`), for every bound and width of `size_t`.

*StreamServer.* None of the invariants is inductive alone. That the new key is fresh (`EmplaceInserts`) needs that live
bufferevents have different addresses and that a registered client's bufferevent is live; that in
turn needs that the bare `bufferevent_free` only hits clients that are not registered *and not about to be*,
which needs that `on_client_connect` runs only at the bottom of the hook stack. `IInv` adds exactly these facts (`Shape`), that
objects have owners, and which clients only "keep" can have left behind (`KeepBlamed`); beside it stands `Down`: a destroyed server has no hook
running and nothing registered, so whoever is left was kept. Almost every action ends in `Settle`, so
the lemma `SettleKeeps` shows once that a well-shaped result is kept through the destruction of ownerless
clients; one lemma per kind of action then shows that what it hands to `Settle` is well shaped. `TailFrames` and `PushFrames` are
the facts about sequences that this needs.

What happened to a client needs a second invariant, `RInv`, on top of `IInv`, with one conjunct per set of rules that voids it.
`AnySubclass` holds of everyone: `on_client_input` runs only at the bottom of the stack (so the client whose handler threw is
disconnected with no hook below), and what was asked to leave is neither registered nor about to be, but for "early".
`NotReentered` says that the entry of every `on_client_disconnect` on the stack is still in the map and that no client has two of
them: exactly what `DisconnectReturns` needs, kept because a client that returns erases only its own key (`OwnKey`). `NotThrown` says that a client
that was told and is still registered is being told now. For the refinement nothing is ever broken (`SettleIsDisciplined`), `Calm`
collects what the two invariants then say, and every action is one step of ClientSessions or a stutter.

*Handles.* The guarantees fail after `set_owned(true)`, so `IInv` has two halves: what holds of every history
(pointers point to what was allocated, leaks and lost callbacks are explained), and `Sound`, which holds
until "adopt" enters the history: owners differ and own what is alive. For the refinement, `View` shows that until a caller does one of
the `Waivers` the abstract owner of a resource tells all of `Owns`, `born` and `alive`; each action is then one of four shapes (`Quiet`,
an acquisition, `Releases`, `Passes`), and each shape maps to a step of UniqueOwner. That assignment
releases what the target had needs `TargetFrees`: in classes whose `operator=` frees nothing it is a waiver.

*HTTPRequests.* The sockets have an invariant of their own (`SocketsInv`): `ServedAsPromised` needs that different numbers have different
sockets, that a number with a listener is watched until one was closed (`Heard`), and that a StreamServer has one listener per key. The
requests have one per connection: what its state says about the past (`Traced`: a freed request was answered or upgraded or the
server has gone; a client in the map or held was upgraded) and what is certain until a request is used again (`Clean`: the client's
connection is open and calls the websocket functions, one reply or upgrade was said). Connections do not notice each other (`OthersKeep`), so each
action is looked at for its own connection. The same facts give the refinement, where every step that only ends
connections is `Lose` (`Closes`).

*UrlParams.* The decoder, the reference and the encoder recur over strings, so both that they exist and what they compute need induction. The
library's theorems on induction and on recursive functions take an operator as a parameter and cannot be used, but `WFMin`, which is about sets, can:
a set of numbers without a least element is empty (`NoDescent`). From it follow `Induction`, for a set `good` of arguments and a size, and `Recursion`: a
definition that asks a function only for smaller arguments has a solution. Each recursive function then has a lemma that
gives its type and its equation (`DecodedIs`, `MeaningIs`, ...). `During` is the invariant of the loop: behind `write_offset` the string is what it was, and the
offsets differ only after a percent sign. `DecodesRest` says what decoding gives from any such state: it throws if there is a bad escape ahead, and else
gives what was written already and what the rest means. `StartsIs` is where the wrapping difference enters: the code's test for an escape is the intended one but
for a value of one character. For forms, `Encodes` collects what must be known of what a browser writes (no delimiter in it, escapes complete, a plus behind
an escape only for a blank behind an escaped character, and its meaning), `FirstIsThere` says where `find` and `split` cut, and `FieldsOf` what `split` gives.

*WebSocketConnection.* Two invariants, one on top of the other; both were checked on the instance of `any_frames` before they were proved. `CInv` is about
control. That an iterator is valid after a hook depends on who is on the stack: `Stacked` says that hooks nest only inside
`disconnect_websocket_client`, and that `on_websocket_read` is at work exactly below its own hook; `Hooked` ties the stack to
the history, e.g. that an erased client has a disconnect on the stack only if the subclass reentered. `Buffered` is `NoStall` at every moment
instead of between callbacks only. `MInv` is about messages. `MessagesAssembled` speaks of the moments between callbacks, so the invariant has to say how far a
frame is handled at any other: `Done` counts the handled frames, and while `on_websocket_message` runs the pending message is delivered
but not reset yet (`InMessage`). What was delivered is `Whole`, what is pending is `Open`, and `Rest` says that no data frame after
those was passed over, unless the client is `Leaving` because of it; until then all frames were `Lawful`. The definitions are
of any sequence of frames and any messages, so that the lemmas that append a fragment (`FragmentTaken`), deliver a message (`WholeGrows`) or pass over a frame
(`RestControl`, `RestTaken`) are facts about sequences, and those about actions (`...Assembles`) only say which of them applies.

*WebSocketLength.* No induction is needed since a size has eight bytes: each of the three forms is taken apart byte by byte.

*CallbackEvents.* An event calls back the object it was created by, and that object's function of the moment. `Tied` says that as long as nothing was
moved the two are what they were: the object exists, owns the event, and has its function. Assignment and destruction replace the function, but free
the event first; a move from an object that owns nothing takes a function that no event calls.

*EvBuffers.* Nearly every call rearranges: a byte that is in a buffer afterwards was in a buffer before. `Rearranges` gives for every place of the new content the
place its byte comes from, so that one lemma each shows that a call keeps `Known`, `Present` and `InOnePlace` if this map is injective and leaves out
only places whose bytes are handed to the caller. What remains for each call is to give the map, and to show
that the counts stay right. `Counted` has two parts: `refs` is the number of last bytes of chains in all buffers, and every part of a chain is followed
by the chain's last byte (`Chained`: calls cut chains at the front, and `Prefix` copies what it moves of a chain that it splits). Together they make the count of a
block positive just when a buffer refers to it (`CountedIsReferenced`), so that a block is neither deleted while a buffer refers to it (`DataLives`) nor left
when none does (`NothingLeaks`); without `Chained` a block could be deleted while some of its bytes are left. The counts are cardinalities of sets of places,
and change by those of the one or two buffers that a call changes (`OneChanges`).

*BoundedReader.* `taken + left` stays what it is modulo `SizeT` when both change by the same size, also when `left` wraps.

*Model-checked only.* The liveness properties (`BrokenConnectionLeaves`, the liveness part of `ImplementsSessions`), since liveness under fairness and ENABLED are out of
the prover's reach. The four runs that end in a violation are counterexamples and need no proof.

## 6. Disagreements found

| where | what | run |
|---|---|---|
| `EventBase.cc:192` | `call_later` and `call_next` create the event but never add it; `usecs` becomes `persist`. The function is never called | `call_later_calls` |
| `HTTPWebsocketServer.hh:155-158` | the mask key is drained with the header, then four payload bytes are taken for it; a masked frame alone in the buffer (every client frame is masked) throws out of the callback | `masked_frame_is_read` |
| `HTTPWebsocketServer.hh:181` | the reply to a close frame is queued and the connection freed with it | `close_is_answered` |
| `EvBuffer.cc:13` | `BoundedReader::consume` compares the wrong way round: it throws when enough remains and wraps when too little does | `insufficient_means_too_few` |

Exceptions that the properties of passing runs name, because no document says otherwise: the encoder announces 126 to 65535
bytes by a four-byte length (`HTTPWebsocketServer.hh:237`) where the decoder reads two (line 143); the decoder of URL parameters looks for
plus signs at `write_offset` (`EvHTTPRequest.cc:63`) and does not decode keys; a frame that arrives together with
another, or with the request that is upgraded, waits for more bytes; an upgraded connection has two owners.

Seen while reading, without a run: `enable_websockets` does not call the connect hook its comment (lines 53-55)
promises; a malformed escape makes `parse_url_params` throw, and a request without a query passes null to it
(`EvHTTPRequest.cc:44`); `EventBase::update_cache_time` throws when libevent succeeds (`EventBase.cc:218`); `StreamServer::listen` leaks
the descriptor when `add_socket` throws (`StreamServer.hh:36`); `socket_count` returns `bool`; a response code that is not in the table of `HTTPServer` makes `send_response` throw when the headers have been added already (`HTTPServer.cc:150`, 177); the handshake lines after the first start with blanks (lines 98-103); the constructor of `WebSocketClient` takes `bev` from `http_conn` before `http_conn` is initialised, because `bev` is declared first
(`HTTPWebsocketServer.hh:33-42`): undefined behaviour, which the models leave out, since they take the upgrade as it is meant; `EchoServerExample.cc` includes headers that do not exist.

## 7. Not modelled

- Locks and threads: with `evthread_use_pthreads` buffers can be shared; the code's own use of locks is the LockGuard
  (in `Handles`) and `send_websocket_message`.
- The headers of an HTTP reply (a handler that tries an unknown code and then another one adds them twice).
- Bytes as values: WebSocket payloads and masks, HTTP text, search and line reading in EvBuffer.
- Methods that only forward to one libevent function and keep no state of their own: BufferEvent's I/O, Listener's and
  EvDNSBase's methods, EventBase's loop control, EventConfig, the accessors of EvHTTPRequest, `set_server_name`; a model of them would
  be a model of libevent. SSL is a straight line of calls into OpenSSL, and `dispatch_on_ssl_connection` another.
- `parse_url_params_unique`, which keeps the first or the last of several values as the order of the multimap decides.
- `HTTPRequests`: more than one request over a connection; a second client beside one that was erased and is still held.
- Out of memory in libevent, except where the code passes the failure on: constructors that accept null
  (`unchecked`), the accept that throws (`AcceptThrows`) and an `add_reference` that must delete what it allocated (`ReferenceRefused`). For other calls the wrapper throws and nothing changes.
- `EvBuffers`: blocks of zero bytes, file segments, the restrictions libevent has on duplicating duplicates.
- Moving, assigning or destroying an EvBuffer while a LockGuard holds it: the guard keeps the address of the EvBuffer (`EvBuffer.cc` 34-52),
  and would unlock what is there then.
- A StreamServer that is destroyed by one of its own hooks, and what a subclass's destructor does before `~StreamServer` runs.
- Input after the decoder has lost the frame boundary; the output buffer's lock in `send_websocket_message`.

## 8. Plan

Done: the modules of section 2, in the order StreamServer, Handles, WebSocketConnection, CallbackEvents, EvBuffers,
BoundedReader, ListeningSockets, HTTPRequests, UrlParams, WebSocketLength; the proofs of section 5.

Next, the model:

1. Several requests over one HTTP connection (a kept request beside the next one).
2. `EvBuffers`: `reserve_space` and `commit_space` with the iovecs between them, and line reading.
3. The frames of `send_websocket_message` from several threads, under the lock of the output buffer.

Next, the proofs: what these extensions add to the invariants.
