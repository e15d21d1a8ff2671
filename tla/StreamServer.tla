---------------------------- MODULE StreamServer ----------------------------
(***************************************************************************)
(* Client connections of StreamServer<ClientStateT> (src/StreamServer.hh). *)
(*                                                                         *)
(* One thread runs the libevent loop. The loop calls a static dispatch_*   *)
(* function, which looks the connection up in bev_to_client and calls a    *)
(* virtual hook of the subclass. While a hook runs, the subclass may do    *)
(* whatever the API lets it do: copy or drop a shared_ptr<Client>, call    *)
(* disconnect_client on a client it can name (which runs another hook),    *)
(* return, or throw. So control is a stack of running hooks, top first;    *)
(* an empty stack means that control is in the loop.                       *)
(*                                                                         *)
(* A Client owns its bufferevent; it is destroyed, and frees the           *)
(* bufferevent, when the last shared_ptr goes away. A bufferevent is known *)
(* to libevent and to bev_to_client by its address, and the allocator may  *)
(* give the address of a freed bufferevent to a later connection.          *)
(*                                                                         *)
(* The code has no documented contract for subclasses. Rules names four    *)
(* things a subclass may or may not do; broken records what it has done so *)
(* far, so that each property says precisely on which rules it depends.    *)
(***************************************************************************)
EXTENDS Naturals, Sequences

CONSTANTS
  Client,    \* Client objects, each constructed at most once (bounds accepts)
  NoClient,  \* "not in the map"
  Addr,      \* addresses the allocator may hand out for a bufferevent
  NoAddr,    \* the bev of a Client that has not been constructed
  MaxDepth,  \* bound on the nesting of hooks
  Obeys      \* the rules that the subclass is assumed to keep

(* keep:    a Client is still held by the subclass when control returns to *)
(*          the loop although it is not (or no longer) registered, or the  *)
(*          server is destroyed                                            *)
(* early:   disconnect_client(c) is called during on_client_connect(c)     *)
(* reenter: disconnect_client(c) is called during on_client_disconnect(c)  *)
(* throw:   on_client_disconnect throws                                    *)
Rules == {"keep", "early", "reenter", "throw"}

ASSUME ConstantsAssumption ==
  /\ NoClient \notin Client
  /\ NoAddr \notin Addr
  /\ MaxDepth \in Nat \ {0}
  /\ Obeys \subseteq Rules

VARIABLES
  up,       \* the server object exists
  bevOf,    \* Client.bev.bev of every constructed Client, kept for ever
  objects,  \* Client objects that exist
  freed,    \* Clients whose bufferevent went through a bare bufferevent_free
  map,      \* bev_to_client
  held,     \* Clients to which the subclass keeps a shared_ptr of its own
  stack,    \* hooks that are running, top first
  net,      \* per connection: open, closing (EOF or error to report), closed
  fault,    \* the first undefined behaviour or escaped exception, or "none"
  \* History of what happened, for the properties:
  joined,   \* Clients that were registered
  told,     \* number of on_client_disconnect calls per Client (2: 2 or more)
  asked,    \* Clients for which a call of disconnect_client has returned
  broken    \* rules that the subclass has broken

serverVars  == <<up, bevOf, objects, freed, map>>
historyVars == <<joined, told, asked, broken>>
vars == <<serverVars, held, stack, net, fault, historyVars>>

Frame == [hook : {"connect", "input", "disconnect"},
          client : Client,
          by : {"libevent", "app"}]

Faults == {"none", "double_free", "stale_iterator", "escaped", "accept_threw",
           "server_gone"}

TypeOK ==
  /\ up \in BOOLEAN
  /\ bevOf \in [Client -> Addr \cup {NoAddr}]
  /\ objects \subseteq Client
  /\ freed \subseteq Client
  /\ map \in [Addr -> Client \cup {NoClient}]
  /\ held \subseteq Client
  /\ stack \in Seq(Frame)
  /\ net \in [Client -> {"open", "closing", "closed"}]
  /\ fault \in Faults
  /\ joined \subseteq Client
  /\ told \in [Client -> 0..2]
  /\ asked \subseteq Client
  /\ broken \subseteq Rules

-----------------------------------------------------------------------------
Registered(m) == {m[a] : a \in Addr} \ {NoClient}

Running(s, hook) == {s[i].client : i \in {j \in DOMAIN s : s[j].hook = hook}}

InFrames(s) == {s[i].client : i \in DOMAIN s}

(* Every place a shared_ptr<Client> can live: the map, the subclass, the   *)
(* arguments and locals of the functions that are running.                 *)
Owned(m, h, s) == Registered(m) \cup h \cup InFrames(s)

(* Addresses at which there is a bufferevent now.                          *)
Live == {bevOf[c] : c \in objects \ freed}

Idle == fault = "none" /\ stack = <<>>

InHook == fault = "none" /\ stack # <<>>

(* Clients that subclass code can name: those it holds, those in the       *)
(* (protected) map, and the argument of the hook that is running.          *)
Nameable == held \cup Registered(map)
              \cup {c \in InFrames(stack) : c = Head(stack).client}

(* Installs the new map, set of held Clients and stack. Clients left       *)
(* without an owner are destroyed: ~BufferEvent frees the bufferevent once *)
(* more if a bare bufferevent_free already did. r: rules broken by the     *)
(* step itself; "keep" is judged whenever control is back in the loop.     *)
Settle(objs, m, h, s, r) ==
  LET survivors == objs \cap Owned(m, h, s)
      kept  == {x \in {"keep"} : s = <<>> /\ ~(h \subseteq Registered(m))}
      rules == r \cup kept
  IN /\ rules \cap Obeys = {}
     /\ map' = m
     /\ held' = h
     /\ stack' = s
     /\ objects' = survivors
     /\ broken' = broken \cup rules
     /\ fault' = IF (objs \ survivors) \cap freed = {}
                   THEN "none" ELSE "double_free"

Push(hook, c, by, s) == <<[hook |-> hook, client |-> c, by |-> by]>> \o s

(* Mutant: disconnect_client without the membership check.                 *)
Disconnect_Unchecked(c, by, s, r) ==
  /\ told' = [told EXCEPT ![c] = IF @ < 2 THEN @ + 1 ELSE 2]
  /\ Settle(objects, map, held, Push("disconnect", c, by, s), r)
  /\ UNCHANGED <<up, asked, bevOf, freed, joined>>

(* Mutant: the entry is erased before on_client_disconnect runs.           *)
Disconnect_ErasesFirst(c, by, s, r) ==
  /\ map[bevOf[c]] # NoClient
  /\ told' = [told EXCEPT ![c] = IF @ < 2 THEN @ + 1 ELSE 2]
  /\ Settle(objects, [map EXCEPT ![bevOf[c]] = NoClient], held,
            Push("disconnect", c, by, s), r)
  /\ UNCHANGED <<up, asked, bevOf, freed, joined>>

(* disconnect_client(c), called with the frames of s running: if the key   *)
(* c->bev.get() is in the map, on_client_disconnect(c) runs (the entry is  *)
(* erased when it returns), else the call has no effect and returns.       *)
Disconnect(c, by, s, r) ==
  /\ \/ /\ map[bevOf[c]] # NoClient
        /\ told' = [told EXCEPT ![c] = IF @ < 2 THEN @ + 1 ELSE 2]
        /\ Settle(objects, map, held, Push("disconnect", c, by, s), r)
        /\ UNCHANGED asked
     \/ /\ map[bevOf[c]] = NoClient
        /\ asked' = asked \cup {c}
        /\ Settle(objects, map, held, s, r)
        /\ UNCHANGED told
  /\ UNCHANGED <<up, bevOf, freed, joined>>

-----------------------------------------------------------------------------
Init ==
  /\ up = TRUE
  /\ bevOf = [c \in Client |-> NoAddr]
  /\ objects = {}
  /\ freed = {}
  /\ map = [a \in Addr |-> NoClient]
  /\ held = {}
  /\ stack = <<>>
  /\ net = [c \in Client |-> "open"]
  /\ fault = "none"
  /\ joined = {}
  /\ told = [c \in Client |-> 0]
  /\ asked = {}
  /\ broken = {}

(* Mutant: the Client enters the map before on_client_connect is called.   *)
Accept_RegistersFirst(c, a) ==
  /\ Idle /\ up
  /\ bevOf[c] = NoAddr
  /\ a \notin Live
  /\ bevOf' = [bevOf EXCEPT ![c] = a]
  /\ Settle(objects \cup {c}, [map EXCEPT ![a] = c], held,
            Push("connect", c, "libevent", <<>>), {})
  /\ UNCHANGED <<up, freed, net, joined, told, asked>>

(* dispatch_on_listen_accept up to the call of on_client_connect.          *)
Accept(c, a) ==
  /\ Idle /\ up
  /\ bevOf[c] = NoAddr
  /\ a \notin Live
  /\ bevOf' = [bevOf EXCEPT ![c] = a]
  /\ Settle(objects \cup {c}, map, held,
            Push("connect", c, "libevent", <<>>), {})
  /\ UNCHANGED <<up, freed, net, joined, told, asked>>

(* The BufferEvent constructor throws when libevent cannot allocate; it is *)
(* outside the try block of dispatch_on_listen_accept.                     *)
AcceptThrows ==
  /\ Idle /\ up
  /\ \E c \in Client : bevOf[c] = NoAddr
  /\ fault' = "accept_threw"
  /\ UNCHANGED <<serverVars, held, stack, net, historyVars>>

(* Mutant: the bufferevent of a registered client is freed as well.        *)
FreeUnregistered_Always(c) ==
  /\ freed' = freed \cup {c}
  /\ UNCHANGED <<up, bevOf, objects, map, held, stack, fault, historyVars>>

(* The catch clauses of dispatch_on_client_input and _error: the address   *)
(* is not in the map, so the bufferevent is freed on the spot.             *)
FreeUnregistered(c) ==
  /\ map[bevOf[c]] = NoClient
  /\ freed' = freed \cup {c}
  /\ UNCHANGED <<up, bevOf, objects, map, held, stack, fault, historyVars>>

(* dispatch_on_client_input for the bufferevent of c.                      *)
ClientInput(c) ==
  /\ Idle /\ up
  /\ c \in objects \ freed
  /\ net[c] # "closed"
  /\ \/ FreeUnregistered(c)
     \/ /\ map[bevOf[c]] # NoClient
        /\ Settle(objects, map, held,
                  Push("input", map[bevOf[c]], "libevent", <<>>), {})
        /\ UNCHANGED <<up, bevOf, freed, joined, told, asked>>
  /\ UNCHANGED net

(* Mutant: an error of a registered client is only logged.                 *)
ClientError_LogsOnly(c) ==
  /\ Idle /\ up
  /\ c \in objects \ freed
  /\ net[c] = "closing"
  /\ net' = [net EXCEPT ![c] = "closed"]
  /\ \/ FreeUnregistered(c)
     \/ /\ map[bevOf[c]] # NoClient
        /\ UNCHANGED <<serverVars, held, stack, fault, historyVars>>

(* dispatch_on_client_error with BEV_EVENT_EOF or BEV_EVENT_ERROR, which   *)
(* libevent reports once per connection.                                   *)
ClientError(c) ==
  /\ Idle /\ up
  /\ c \in objects \ freed
  /\ net[c] = "closing"
  /\ net' = [net EXCEPT ![c] = "closed"]
  /\ \/ FreeUnregistered(c)
     \/ /\ map[bevOf[c]] # NoClient
        /\ Disconnect(map[bevOf[c]], "libevent", <<>>, {})

(* dispatch_on_client_error with any other event (a timeout the subclass   *)
(* set on the bufferevent): a registered client is left alone.             *)
ClientOtherEvent(c) ==
  /\ Idle /\ up
  /\ c \in objects \ freed
  /\ FreeUnregistered(c)
  /\ UNCHANGED net

(* The peer closes the connection or the connection breaks.                *)
PeerCloses(c) ==
  /\ fault = "none"
  /\ c \in objects \ freed
  /\ net[c] = "open"
  /\ net' = [net EXCEPT ![c] = "closing"]
  /\ UNCHANGED <<serverVars, held, stack, fault, historyVars>>

-----------------------------------------------------------------------------
(* What subclass code does, from a hook or from an event of its own.       *)

AppRetains(c) ==
  /\ fault = "none"
  /\ c \in Nameable \ held
  /\ Settle(objects, map, held \cup {c}, stack, {})
  /\ UNCHANGED <<up, bevOf, freed, net, joined, told, asked>>

AppReleases(c) ==
  /\ fault = "none"
  /\ c \in held
  /\ Settle(objects, map, held \ {c}, stack, {})
  /\ UNCHANGED <<up, bevOf, freed, net, joined, told, asked>>

(* The subclass calls disconnect_client(c).                                *)
AppDisconnects(c) ==
  /\ fault = "none" /\ up
  /\ c \in Nameable
  /\ Len(stack) < MaxDepth
  /\ Disconnect(c, "app", stack,
                {x \in {"early"} : c \in Running(stack, "connect")}
                  \cup {x \in {"reenter"} : c \in Running(stack, "disconnect")})
  /\ UNCHANGED net

(* on_client_connect returns: the Client enters the map (emplace leaves a  *)
(* map that already has the key as it is, and drops the new Client).       *)
ConnectReturns ==
  /\ InHook
  /\ Head(stack).hook = "connect"
  /\ LET c == Head(stack).client
         m == IF map[bevOf[c]] = NoClient
                THEN [map EXCEPT ![bevOf[c]] = c] ELSE map
     IN /\ joined' = joined \cup {c}
        /\ Settle(objects, m, held, Tail(stack), {})
  /\ UNCHANGED <<up, bevOf, freed, net, told, asked>>

(* Mutant: the Client of a refused connection is not destroyed.            *)
ConnectThrows_Leaks ==
  /\ InHook
  /\ Head(stack).hook = "connect"
  /\ stack' = Tail(stack)
  /\ UNCHANGED <<serverVars, held, net, fault, historyVars>>

(* on_client_connect throws: the exception is logged and the Client goes   *)
(* out of scope.                                                           *)
ConnectThrows ==
  /\ InHook
  /\ Head(stack).hook = "connect"
  /\ Settle(objects, map, held, Tail(stack), {})
  /\ UNCHANGED <<up, bevOf, freed, net, joined, told, asked>>

InputReturns ==
  /\ InHook
  /\ Head(stack).hook = "input"
  /\ Settle(objects, map, held, Tail(stack), {})
  /\ UNCHANGED <<up, bevOf, freed, net, joined, told, asked>>

(* Mutant: the client is dropped without going through disconnect_client.  *)
InputThrows_Erases ==
  /\ InHook
  /\ Head(stack).hook = "input"
  /\ Settle(objects, [map EXCEPT ![bevOf[Head(stack).client]] = NoClient],
            held, Tail(stack), {})
  /\ UNCHANGED <<up, bevOf, freed, net, joined, told, asked>>

(* on_client_input throws: dispatch_on_client_input logs the exception and *)
(* disconnects the client.                                                 *)
InputThrows ==
  /\ InHook
  /\ Head(stack).hook = "input"
  /\ Disconnect(Head(stack).client, "libevent", Tail(stack), {})
  /\ UNCHANGED net

(* Mutant: the entry is left in the map.                                   *)
DisconnectReturns_KeepsEntry ==
  /\ InHook
  /\ Head(stack).hook = "disconnect"
  /\ asked' = asked \cup {Head(stack).client}
  /\ Settle(objects, map, held, Tail(stack), {})
  /\ UNCHANGED <<up, bevOf, freed, net, joined, told>>

(* on_client_disconnect returns: disconnect_client erases the entry it     *)
(* found and returns. Erasing an iterator whose entry is gone is undefined.*)
DisconnectReturns ==
  /\ InHook
  /\ Head(stack).hook = "disconnect"
  /\ LET c == Head(stack).client
     IN \/ /\ map[bevOf[c]] # NoClient
           /\ asked' = asked \cup {c}
           /\ Settle(objects, [map EXCEPT ![bevOf[c]] = NoClient], held,
                     Tail(stack), {})
        \/ /\ map[bevOf[c]] = NoClient
           /\ fault' = "stale_iterator"
           /\ UNCHANGED <<objects, map, held, stack, asked, broken>>
  /\ UNCHANGED <<up, bevOf, freed, net, joined, told>>

(* on_client_disconnect throws before the entry is erased. The exception   *)
(* reaches the subclass code that called disconnect_client, or leaves the  *)
(* dispatch function and unwinds into libevent.                            *)
DisconnectThrows ==
  /\ InHook
  /\ Head(stack).hook = "disconnect"
  /\ \/ /\ Head(stack).by = "app"
        /\ Settle(objects, map, held, Tail(stack), {"throw"})
     \/ /\ Head(stack).by = "libevent"
        /\ "throw" \notin Obeys
        /\ broken' = broken \cup {"throw"}
        /\ fault' = "escaped"
        /\ UNCHANGED <<objects, map, held, stack>>
  /\ UNCHANGED <<up, bevOf, freed, net, joined, told, asked>>

-----------------------------------------------------------------------------
NoClients == [a \in Addr |-> NoClient]

(* Mutant: the entries of the map do not own their clients.                *)
DestroyServer_LosesClients ==
  /\ Idle /\ up
  /\ up' = FALSE
  /\ map' = NoClients
  /\ UNCHANGED <<bevOf, objects, freed, held, stack, net, fault, historyVars>>

(* ~StreamServer destroys the listeners and the map, no hook is called. A  *)
(* Client goes with its entry, unless somebody holds it: then it outlives  *)
(* the server, and its bufferevent still has the server as the argument of *)
(* its callbacks. A hook that destroys its own server is not considered.   *)
DestroyServer ==
  /\ Idle /\ up
  /\ up' = FALSE
  /\ Settle(objects, NoClients, held, <<>>, {})
  /\ UNCHANGED <<bevOf, freed, net, joined, told, asked>>

(* libevent reports anything about a bufferevent that outlived the server: *)
(* the dispatch function looks it up in a map that does not exist.         *)
LateEvent(c) ==
  /\ Idle /\ ~up
  /\ c \in objects \ freed
  /\ fault' = "server_gone"
  /\ UNCHANGED <<serverVars, held, stack, net, historyVars>>

-----------------------------------------------------------------------------
HookEnds ==
  \/ ConnectReturns \/ ConnectThrows
  \/ InputReturns \/ InputThrows
  \/ DisconnectReturns \/ DisconnectThrows

Next ==
  \/ \E c \in Client, a \in Addr : Accept(c, a)
  \/ AcceptThrows
  \/ \E c \in Client : ClientInput(c)
  \/ \E c \in Client : ClientError(c)
  \/ \E c \in Client : ClientOtherEvent(c)
  \/ \E c \in Client : PeerCloses(c)
  \/ \E c \in Client : AppRetains(c)
  \/ \E c \in Client : AppReleases(c)
  \/ \E c \in Client : AppDisconnects(c)
  \/ HookEnds
  \/ DestroyServer
  \/ \E c \in Client : LateEvent(c)

Spec == Init /\ [][Next]_vars

-----------------------------------------------------------------------------
(* Fairness: hooks end (the subclass does not loop for ever inside one),   *)
(* and libevent reports an error once it is back in the loop: a pass of    *)
(* event_base_loop runs every active event, so other events cannot starve  *)
(* it although each of them disables it while its hook runs.               *)
Fairness ==
  /\ SF_vars(HookEnds)
  /\ \A c \in Client : SF_vars(ClientError(c))

(* A subclass that drops its own pointers to the clients it was told about.*)
AppFairness ==
  \A c \in Client : WF_vars(told[c] > 0 /\ AppReleases(c))

FairSpec == Spec /\ Fairness

-----------------------------------------------------------------------------
(* A bufferevent is freed twice only if the subclass kept a Client beyond  *)
(* its registration: nothing that happens inside nested hooks, and no      *)
(* exception from a hook, makes the catch clauses of the dispatch          *)
(* functions free a bufferevent that a Client is still going to free.      *)
NoDoubleFree == fault = "double_free" => "keep" \in broken

(* disconnect_client erases through an iterator it obtained before calling *)
(* on_client_disconnect; the entry is still there unless the hook called   *)
(* disconnect_client for the same client, or a kept Client shares the      *)
(* address of a newer connection.                                          *)
NoStaleErase == fault = "stale_iterator" => broken \cap {"reenter", "keep"} # {}

(* A key of bev_to_client is always the address of its own Client's        *)
(* bufferevent, whatever the subclass does; and that bufferevent has not   *)
(* been freed behind the map's back, up to the moment of a double free.    *)
MapKeysLive ==
  \A a \in Addr : map[a] # NoClient =>
    /\ map[a] \in objects \ freed
    /\ bevOf[map[a]] = a

(* dispatch_on_listen_accept ignores the result of emplace: rightly, since *)
(* the address of a new bufferevent is never a key of the map already,     *)
(* not even after hooks that ran between its allocation and the emplace.   *)
EmplaceInserts ==
  fault = "none" =>
    \A c \in Running(stack, "connect") : map[bevOf[c]] = NoClient

(* Nothing leaks: when control is back in the loop, the Client objects and *)
(* the bufferevents are those of the map, unless the subclass kept some.   *)
NoLeak ==
  Idle /\ "keep" \notin broken =>
    objects = Registered(map) /\ Live = {a \in Addr : map[a] # NoClient}

(* on_client_disconnect runs at most once per client.                      *)
DisconnectHookOnce ==
  \A c \in Client :
    told[c] = 2 => broken \cap {"keep", "reenter", "throw"} # {}

(* on_client_disconnect runs only for clients whose on_client_connect has  *)
(* returned: a client that the subclass refused, by throwing from          *)
(* on_client_connect, is never reported as disconnected.                   *)
DisconnectHookAfterConnect ==
  \A c \in Client : told[c] > 0 /\ c \notin joined => "keep" \in broken

(* Once disconnect_client(c) has returned, c is unregistered for good, so  *)
(* on_client_input(c) never runs again - except when disconnect_client was *)
(* called from on_client_connect(c), which registers the client later.     *)
DisconnectIsFinal ==
  \A c \in asked : c \in Registered(map) => "early" \in broken

(* An entry leaves the map only when the disconnect_client call for that   *)
(* very client returns, or with the server; in particular no call for one  *)
(* client removes another, unless a kept Client's address was reused.      *)
ErasedByItsOwnDisconnect ==
  [][\A a \in Addr :
       map[a] # NoClient /\ map'[a] # map[a] =>
         \/ up /\ ~up'
         \/ /\ Head(stack).hook = "disconnect"
            /\ Head(stack).client = map[a]
         \/ "keep" \in broken]_vars

(* libevent never calls back into a server that was destroyed: the clients *)
(* and their bufferevents are gone by then, whatever hooks threw or nested *)
(* before, unless the subclass kept a Client.                              *)
NoLateEvent == fault = "server_gone" => "keep" \in broken

(* A connection that broke is unregistered, unless undefined behaviour or  *)
(* an escaped exception ends the run first.                                *)
BrokenConnectionLeaves ==
  \A c \in Client :
    (c \in Registered(map) /\ net[c] = "closing")
      ~> (c \notin Registered(map) \/ fault # "none")

(* The promise to the subclass, kept when the subclass keeps every rule.   *)
Session(c) ==
  CASE bevOf[c] = NoAddr -> "none"
    [] c \in Running(stack, "connect") -> "connecting"
    [] c \in Registered(map) /\ told[c] = 0 -> "open"
    [] c \in Registered(map) /\ told[c] > 0 -> "leaving"
    [] OTHER -> "gone"

Sessions == INSTANCE ClientSessions WITH
  session <- [c \in Client |-> Session(c)],
  serving <- Running(stack, "input"),
  present <- objects \ freed

(* Seen through Session, the server is a ClientSessions, liveness included:*)
(* every on_client_disconnect that starts ends with the client gone, and   *)
(* what is gone is eventually released.                                    *)
ImplementsSessions == Sessions!Spec

DisciplinedSpec == FairSpec /\ AppFairness
=============================================================================
