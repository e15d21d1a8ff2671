---------------------------- MODULE HTTPRequests ----------------------------
(***************************************************************************)
(* The requests of an HTTPServer (src/HTTPServer.cc) whose subclass may    *)
(* also be an HTTPWebSocketServer (src/HTTPWebsocketServer.hh), beside its *)
(* listening sockets: dispatch to handle_request, send_response, and       *)
(* enable_websockets, which takes the connection away from evhttp.         *)
(*                                                                         *)
(* Three objects meet here, and each can outlive the others: the           *)
(* connection and its request, which belong to evhttp, and the             *)
(* WebSocketClient, which frees the connection when its last shared_ptr    *)
(* goes. The subclass may copy the EvHTTPRequest and answer later.         *)
(*                                                                         *)
(* A connection carries one request (a bound; HTTP/1.1 could send more).   *)
(* What goes over a WebSocket, and what happens to a client after the      *)
(* subclass disconnected it, is the subject of WebSocketConnection.        *)
(***************************************************************************)
EXTENDS ListeningSockets, UrlParams

CONSTANTS
  Conn,         \* connections
  Code,         \* response codes that the subclass uses
  MaxResponses  \* bound on the calls of send_response for a request

ASSUME RequestsAssumption ==
  /\ "loop" \notin Conn
  /\ MaxResponses \in Nat \ {0}

VARIABLES
  who,      \* the function running: "loop", or handle_request for this one
  conn,     \* the evhttp_connection: none, open or freed
  cb,       \* whose callbacks its bufferevent has: "http" or "ws"
  request,  \* the evhttp_request: none; pending; answered, but not written
            \* yet; detached (it lost its connection unanswered); freed
  answers,  \* number of calls of send_response for the request
  wire,     \* what was queued for the client, from "reply" and "101"
  wsmap,    \* the keys of bev_to_websocket_client
  kept,     \* the subclass has copied the EvHTTPRequest
  held,     \* the subclass holds the shared_ptr<WebSocketClient>
  fault,    \* undefined behaviour, or an exception that left a callback
  did       \* history: what the subclass did, from Deeds

requestVars == <<who, conn, cb, request, answers, wire, wsmap, kept, held,
                 fault, did>>
vars == <<socketVars, requestVars>>

(* replied, upgraded: it answered with a known code, called                *)
(*                    enable_websockets                                    *)
(* again:    it did one of these after one of these                        *)
(* late:     it called enable_websockets after handle_request returned     *)
(* outlived: it held the client when the server was destroyed              *)
Deeds == {"replied", "upgraded", "again", "late", "outlived"}

Faults == {"escaped", "freed_request", "freed_connection", "no_connection"}

TypeOK ==
  /\ SocketsTypeOK
  /\ who \in Conn \cup {"loop"}
  /\ conn \in [Conn -> {"none", "open", "freed"}]
  /\ cb \in [Conn -> {"http", "ws"}]
  /\ request \in [Conn -> {"none", "pending", "answered", "detached", "freed"}]
  /\ answers \in [Conn -> 0..MaxResponses]
  /\ wire \in [Conn -> Seq({"reply", "101"})]
  /\ wsmap \subseteq Conn
  /\ kept \subseteq Conn
  /\ held \subseteq Conn
  /\ fault \in [Conn -> Faults \cup {"none"}]
  /\ did \in [Conn -> SUBSET Deeds]

Running == \A c \in Conn : fault[c] = "none"

-----------------------------------------------------------------------------
(* explanation_for_response_code                                           *)
KnownCodes ==
  (100..102) \cup (200..208) \cup {226} \cup (300..305) \cup {307, 308}
    \cup (400..418) \cup {420} \cup (422..424) \cup {426, 428, 429, 431}
    \cup {444, 449, 451} \cup (500..511) \cup {598, 599}

Init ==
  /\ SocketsInit
  /\ who = "loop"
  /\ conn = [c \in Conn |-> "none"]
  /\ cb = [c \in Conn |-> "http"]
  /\ request = [c \in Conn |-> "none"]
  /\ answers = [c \in Conn |-> 0]
  /\ wire = [c \in Conn |-> <<>>]
  /\ wsmap = {} /\ kept = {} /\ held = {}
  /\ fault = [c \in Conn |-> "none"]
  /\ did = [c \in Conn |-> {}]

(* The last shared_ptr to the clients of S goes: each destructor calls     *)
(* evhttp_connection_free, which frees a request that is still attached.   *)
ReleaseClients(S) ==
  /\ conn' = [c \in Conn |-> IF c \in S THEN "freed" ELSE conn[c]]
  /\ request' =
       [c \in Conn |->
         IF c \in S /\ request[c] \in {"pending", "answered"} THEN "freed"
         ELSE request[c]]
  /\ fault' =
       [c \in Conn |->
         IF c \in S /\ conn[c] = "freed" THEN "freed_connection" ELSE fault[c]]

(* The subclass has answered or upgraded the request before.               *)
Again(c) ==
  {d \in {"again"} : did[c] \cap {"replied", "upgraded"} # {}}

-----------------------------------------------------------------------------
(* What libevent does with connections.                                    *)

Connect(c) ==
  /\ Running /\ up /\ who = "loop"
  /\ class = "HTTPServer" /\ watched # {}
  /\ conn[c] = "none"
  /\ conn' = [conn EXCEPT ![c] = "open"]
  /\ UNCHANGED <<socketVars, who, cb, request, answers, wire, wsmap, kept,
                 held, fault, did>>

(* The reply has been written: the request is freed, the connection may be *)
(* kept for another request.                                               *)
Flush(c) ==
  /\ Running /\ who = "loop"
  /\ conn[c] = "open" /\ cb[c] = "http" /\ request[c] = "answered"
  /\ request' = [request EXCEPT ![c] = "freed"]
  /\ conn' \in {conn, [conn EXCEPT ![c] = "freed"]}
  /\ UNCHANGED <<socketVars, who, cb, answers, wire, wsmap, kept, held,
                 fault, did>>

(* The client goes while evhttp hears its events. A request that waits for *)
(* its answer loses its connection; any other is freed with it.            *)
PeerCloses(c) ==
  /\ Running /\ who = "loop"
  /\ conn[c] = "open" /\ cb[c] = "http"
  /\ conn' = [conn EXCEPT ![c] = "freed"]
  /\ request' = [request EXCEPT ![c] =
                   CASE @ = "pending" -> "detached"
                     [] @ = "answered" -> "freed"
                     [] OTHER -> @]
  /\ UNCHANGED <<socketVars, who, cb, answers, wire, wsmap, kept, held,
                 fault, did>>

-----------------------------------------------------------------------------
(* dispatch_handle_request begins.                                         *)
Request(c) ==
  /\ Running /\ up /\ who = "loop"
  /\ conn[c] = "open" /\ cb[c] = "http" /\ request[c] = "none"
  /\ request' = [request EXCEPT ![c] = "pending"]
  /\ who' = c
  /\ UNCHANGED <<socketVars, conn, cb, answers, wire, wsmap, kept, held,
                 fault, did>>

(* handle_request copies req, to answer after it has returned.             *)
KeepRequest(c) ==
  /\ Running
  /\ who = c
  /\ kept' = kept \cup {c}
  /\ UNCHANGED <<socketVars, who, conn, cb, request, answers, wire, wsmap,
                 held, fault, did>>

(* Mutant: req_obj owns the request.                                       *)
HandlerReturns_Owned(c) ==
  /\ Running
  /\ who = c
  /\ who' = "loop"
  /\ request' = [request EXCEPT ![c] = "freed"]
  /\ UNCHANGED <<socketVars, conn, cb, answers, wire, wsmap, kept, held,
                 fault, did>>

(* dispatch_handle_request returns: req_obj does not own the request.      *)
HandlerReturns(c) ==
  /\ Running
  /\ who = c
  /\ who' = "loop"
  /\ UNCHANGED <<socketVars, conn, cb, request, answers, wire, wsmap, kept,
                 held, fault, did>>

(* The subclass can name the request.                                      *)
Usable(c) == Running /\ up /\ c \in kept \cup {who}

(* Bound: the calls of send_response for one request. Each of the three    *)
(* adds headers (not modelled), looks the code up and sends the reply; the *)
(* one with a format writes into a buffer of its own and calls another.    *)
Answers(c) ==
  /\ answers[c] < MaxResponses
  /\ answers' = [answers EXCEPT ![c] = @ + 1]

(* evhttp_send_reply takes the callbacks back. A request that has lost its *)
(* connection is just freed.                                               *)
SendReply(c) ==
  \/ /\ request[c] = "detached"
     /\ request' = [request EXCEPT ![c] = "freed"]
     /\ UNCHANGED <<cb, wire>>
  \/ /\ request[c] \in {"pending", "answered"}
     /\ request' = [request EXCEPT ![c] = "answered"]
     /\ cb' = [cb EXCEPT ![c] = "http"]
     /\ wire' = [wire EXCEPT ![c] = Append(@, "reply")]

(* send_response, called by handle_request or, for a kept request, at any  *)
(* time.                                                                   *)
SendResponse(c, code) ==
  /\ Usable(c) /\ request[c] # "freed"
  /\ code \in KnownCodes
  /\ Answers(c)
  /\ SendReply(c)
  /\ did' = [did EXCEPT ![c] = @ \cup {"replied"} \cup Again(c)]
  /\ UNCHANGED <<socketVars, who, conn, wsmap, kept, held, fault>>

(* Mutant: the code is looked up after the reply was sent.                 *)
SendUnknown_SendsFirst(c, code) ==
  /\ Usable(c) /\ request[c] # "freed"
  /\ code \notin KnownCodes
  /\ Answers(c)
  /\ SendReply(c)
  /\ UNCHANGED <<socketVars, who, conn, wsmap, kept, held, fault, did>>

(* send_response throws when it looks the code up, before it sends. If     *)
(* nobody catches that, it leaves the callback of libevent that runs:      *)
(* dispatch_handle_request, or another one for an answer that comes late.  *)
SendUnknown(c, code) ==
  /\ Usable(c) /\ request[c] # "freed"
  /\ code \notin KnownCodes
  /\ Answers(c)
  /\ UNCHANGED fault \/ fault' = [fault EXCEPT ![c] = "escaped"]
  /\ UNCHANGED <<socketVars, who, conn, cb, request, wire, wsmap, kept, held,
                 did>>

(* send_response or enable_websockets for a request that has been freed.   *)
UseFreed(c) ==
  /\ Usable(c) /\ request[c] = "freed"
  /\ fault' = [fault EXCEPT ![c] = "freed_request"]
  /\ did' = [did EXCEPT ![c] = @ \cup Again(c)]
  /\ UNCHANGED <<socketVars, who, conn, cb, request, answers, wire, wsmap,
                 kept, held>>

-----------------------------------------------------------------------------
(* enable_websockets for a request that asks for it (any other call        *)
(* returns null and changes nothing), h: the subclass keeps the result.    *)
(* emplace makes the new client first. When the connection has one already *)
(* the new one is destroyed, with the connection, and the old one returned.*)
(* Bounds: at most one use after another, and no second client beside one  *)
(* that was erased and is still held.                                      *)
Upgrade(c, h) ==
  /\ Usable(c) /\ request[c] \in {"pending", "answered"}
  /\ "again" \notin did[c]
  /\ c \in held => c \in wsmap
  /\ cb' = [cb EXCEPT ![c] = "ws"]
  /\ wire' = [wire EXCEPT ![c] = Append(@, "101")]
  /\ wsmap' = wsmap \cup {c}
  /\ held' = IF h THEN held \cup {c} ELSE held
  /\ ReleaseClients(wsmap \cap {c})
  /\ did' = [did EXCEPT ![c] =
               @ \cup {"upgraded"} \cup Again(c)
                 \cup {d \in {"late"} : who # c}]
  /\ UNCHANGED <<socketVars, who, answers, kept>>

(* enable_websockets for a request that has lost its connection: it asks   *)
(* libevent for the bufferevent of no connection.                          *)
UpgradeDetached(c) ==
  /\ Usable(c) /\ request[c] = "detached"
  /\ fault' = [fault EXCEPT ![c] = "no_connection"]
  /\ did' = [did EXCEPT ![c] = @ \cup {d \in {"late"} : who # c}]
  /\ UNCHANGED <<socketVars, who, conn, cb, request, answers, wire, wsmap,
                 kept, held>>

(* The subclass keeps a client that a websocket hook was given.            *)
HoldClient(c) ==
  /\ Running /\ who = "loop"
  /\ c \in wsmap \ held
  /\ held' = held \cup {c}
  /\ UNCHANGED <<socketVars, who, conn, cb, request, answers, wire, wsmap,
                 kept, fault, did>>

DropClient(c) ==
  /\ Running
  /\ c \in held
  /\ held' = held \ {c}
  /\ ReleaseClients({c} \ wsmap)
  /\ UNCHANGED <<socketVars, who, cb, answers, wire, wsmap, kept, did>>

(* Mutant: the connection is freed, and the key stays.                     *)
Disconnect_KeepsKey(c) ==
  /\ Running
  /\ c \in wsmap
  /\ UNCHANGED wsmap
  /\ ReleaseClients({c} \ held)
  /\ UNCHANGED <<socketVars, who, cb, answers, wire, kept, held, did>>

(* disconnect_websocket_client, called by the subclass or after an event.  *)
Disconnect(c) ==
  /\ Running
  /\ c \in wsmap
  /\ wsmap' = wsmap \ {c}
  /\ ReleaseClients({c} \ held)
  /\ UNCHANGED <<socketVars, who, cb, answers, wire, kept, held, did>>

(* Mutant: evhttp_free runs before the map of the clients is destroyed.    *)
FreeServer_First ==
  /\ conn' = [c \in Conn |-> IF conn[c] = "open" THEN "freed" ELSE conn[c]]
  /\ request' =
       [c \in Conn |->
         IF conn[c] = "open" /\ request[c] \in {"pending", "answered"}
         THEN "freed" ELSE request[c]]
  /\ fault' = [c \in Conn |->
                IF c \in wsmap \ held THEN "freed_connection" ELSE fault[c]]

(* The map of an HTTPWebSocketServer is destroyed first; then evhttp_free  *)
(* frees the connections that are left.                                    *)
FreeServer ==
  /\ conn' = [c \in Conn |-> IF conn[c] = "open" THEN "freed" ELSE conn[c]]
  /\ request' =
       [c \in Conn |->
         IF conn[c] = "open" /\ request[c] \in {"pending", "answered"}
         THEN "freed" ELSE request[c]]
  /\ fault' =
       [c \in Conn |->
         IF c \in wsmap \ held /\ conn[c] = "freed" THEN "freed_connection"
         ELSE fault[c]]

(* The destructors of the server, outside of its callbacks.                *)
Destroy ==
  /\ Running /\ who = "loop"
  /\ DestroyServer
  /\ FreeServer
  /\ wsmap' = {}
  /\ did' = [c \in Conn |->
               did[c] \cup {d \in {"outlived"} : c \in held}]
  /\ UNCHANGED <<who, cb, answers, wire, kept, held>>

(* The program opens, adds, removes and closes sockets.                    *)
Sockets == Running /\ who = "loop" /\ SocketsNext /\ UNCHANGED requestVars

Next ==
  \/ Sockets
  \/ Destroy
  \/ \E c \in Conn :
       \/ Connect(c) \/ Flush(c) \/ PeerCloses(c)
       \/ Request(c) \/ KeepRequest(c) \/ HandlerReturns(c)
       \/ \E code \in Code : SendResponse(c, code) \/ SendUnknown(c, code)
       \/ UseFreed(c) \/ UpgradeDetached(c)
       \/ \E h \in BOOLEAN : Upgrade(c, h)
       \/ HoldClient(c) \/ DropClient(c) \/ Disconnect(c)

Spec == Init /\ [][Next]_vars

-----------------------------------------------------------------------------
(* A request that is used has not been freed, unless the program answered  *)
(* or upgraded it before: a copy of it may be answered long after          *)
(* handle_request returned and after the client has gone. One that is      *)
(* upgraded has a connection, unless that was done late.                   *)
RequestsSafe ==
  \A c \in Conn :
    /\ fault[c] = "freed_request" => "again" \in did[c]
    /\ fault[c] = "no_connection" => "late" \in did[c]

(* A connection is freed once, by evhttp or by its client, in whatever     *)
(* order the client, the subclass and the server go; unless the program    *)
(* answered and upgraded or upgraded twice, or held the client for longer  *)
(* than the server lived.                                                  *)
ConnsFreedOnce ==
  \A c \in Conn :
    fault[c] = "freed_connection" => did[c] \cap {"again", "outlived"} # {}

(* The keys of bev_to_websocket_client are live bufferevents that call the *)
(* websocket functions, so that no other connection gets the same key.     *)
MapConnsLive ==
  \A c \in wsmap :
    "again" \in did[c] \/ (conn[c] = "open" /\ cb[c] = "ws")

(* What a handler is told of the parameters of its request                 *)
(* (parse_url_params) is what the standard says of a value, unless a plus  *)
(* sign comes after a percent sign in it, and the form that a browser      *)
(* wrote, unless a blank comes after a character that is written as an     *)
(* escape, or a key has a character that is not written as it is.          *)
UrlParamsDecoded == who # "loop" => AllParamsDecoded

Waived(c) == "again" \in did[c]

Said(c) ==
  CASE Waived(c) -> "waived"
    [] ~Waived(c) /\ wire[c] = <<>> -> "nothing"
    [] ~Waived(c) /\ Len(wire[c]) = 1 -> wire[c][1]
    [] OTHER -> "more"

Ears(c) ==
  CASE Waived(c) -> "waived"
    [] ~Waived(c) /\ conn[c] = "none" -> "nobody"
    [] ~Waived(c) /\ conn[c] = "open" -> cb[c]
    [] OTHER -> "gone"

Exchange == INSTANCE HTTPExchange WITH
  said <- [c \in Conn |-> Said(c)], ears <- [c \in Conn |-> Ears(c)]

(* The server implements HTTPExchange: one reply or one upgrade for a      *)
(* request, and the websocket functions hear a client exactly from the     *)
(* step that told it so.                                                   *)
ImplementsExchange == Exchange!Spec
=============================================================================
