------------------------- MODULE HTTPRequestsProofs -------------------------
(***************************************************************************)
(* Theorems about HTTPRequests and the listening sockets beside it, for    *)
(* any number of sockets, connections and responses.                       *)
(*                                                                         *)
(* SocketsInv is the inductive invariant of the sockets. That of the       *)
(* requests is one of each connection: what its state says about what the  *)
(* subclass did (Traced), and what is certain for as long as the subclass  *)
(* has not used a request that it had answered or upgraded (Clean).        *)
(***************************************************************************)
EXTENDS HTTPRequests, UrlParamsProofs

(* Numbers have different sockets.                                         *)
Distinct ==
  \A fd, g \in Fd : open[fd] = open[g] /\ open[fd] # NoSocket => fd = g

(* A number that has a listener has a socket, and the kernel watches it,   *)
(* unless the program closed one.                                          *)
Heard ==
  "closed" \notin socketsDid =>
    \A fd \in Fd : listening[fd] > 0 => open[fd] \in watched

(* No listener outlives the server.                                        *)
Wired ==
  /\ Distinct
  /\ Heard
  /\ ~up => /\ listeners = {} /\ watched = {} /\ promised = {}
            /\ \A fd \in Fd : listening[fd] = 0

SocketsInv == SocketsTypeOK /\ Wired /\ OneListenerEach /\ ServedAsPromised

(* A connection that has no request yet is untouched.                      *)
Untouched(c) ==
  /\ conn[c] = "none" => request[c] = "none"
  /\ request[c] = "none" =>
       /\ did[c] = {}
       /\ c \notin kept \cup wsmap \cup held \cup {who}
       /\ wire[c] = <<>> /\ cb[c] = "http"

(* What the state of a request, of its client and of its connection says   *)
(* about what the subclass did.                                            *)
Traced(c) ==
  /\ request[c] \in {"pending", "answered"} => conn[c] = "open"
  /\ request[c] = "answered" => "replied" \in did[c]
  /\ request[c] = "detached" => who # c
  /\ request[c] = "freed" => ~up \/ did[c] \cap {"replied", "upgraded"} # {}
  /\ c \in wsmap \cup held => "upgraded" \in did[c]
  /\ {"replied", "upgraded"} \subseteq did[c] => "again" \in did[c]

(* What holds until the subclass uses a request again.                     *)
Clean(c) ==
  /\ c \in wsmap => conn[c] = "open" /\ cb[c] = "ws"
  /\ c \in held /\ "outlived" \notin did[c] => conn[c] = "open" /\ cb[c] = "ws"
  /\ "upgraded" \notin did[c] => cb[c] = "http"
  /\ did[c] \cap {"replied", "upgraded"} = {} => wire[c] = <<>>
  /\ wire[c] \in {<<>>, <<"reply">>, <<"101">>}

Explained(c) ==
  /\ fault[c] = "freed_request" => "again" \in did[c]
  /\ fault[c] = "no_connection" => "late" \in did[c]
  /\ fault[c] = "freed_connection" => did[c] \cap {"again", "outlived"} # {}

CInv(c) ==
  /\ Untouched(c)
  /\ Traced(c)
  /\ "again" \notin did[c] => Clean(c)
  /\ Explained(c)

IInv ==
  /\ SocketsInv
  /\ TypeOK
  /\ \A c \in Conn : CInv(c)

-----------------------------------------------------------------------------
(* The listening sockets.                                                  *)

(* A server has no sockets at first.                                       *)
LEMMA SocketsInitInv ==
  SocketsInit => SocketsInv
BY SocketsAssumption
   DEF SocketsInit, SocketsInv, SocketsTypeOK, Wired, Distinct, Heard,
       OneListenerEach, ServedAsPromised

(* A socket that the program opens is not one that is served.              *)
LEMMA OpenSocketKeeps ==
  ASSUME SocketsInv, NEW fd \in Fd, NEW s \in Socket, OpenSocket(fd, s)
  PROVE  SocketsInv'
<1>1. SocketsTypeOK'
  BY SocketsAssumption DEF SocketsInv, SocketsTypeOK, OpenSocket
<1>2. Distinct'
  BY SocketsAssumption
     DEF SocketsInv, SocketsTypeOK, Wired, Distinct, OpenSocket
<1>3. Heard'
  BY SocketsAssumption
     DEF SocketsInv, SocketsTypeOK, Wired, Heard, OpenSocket
<1>4. (Wired /\ OneListenerEach /\ ServedAsPromised)'
  BY <1>2, <1>3
     DEF SocketsInv, Wired, OneListenerEach, ServedAsPromised, OpenSocket
<1> QED
  BY <1>1, <1>4 DEF SocketsInv

(* A number that has a listener is served already, unless one was closed.  *)
LEMMA ListenKeeps ==
  ASSUME SocketsInv, NEW fd \in Fd, NEW s \in Socket, Listen(fd, s)
  PROVE  SocketsInv'
<1>1. SocketsTypeOK'
  BY SocketsAssumption
     DEF SocketsInv, SocketsTypeOK, Listen, StreamServerAdds, NewListener
<1>2. Distinct'
  BY SocketsAssumption
     DEF SocketsInv, SocketsTypeOK, Wired, Distinct, Listen
<1>3. Heard'
  <2>1. \A g \in Fd \ {fd} : open'[g] = open[g] /\ listening'[g] = listening[g]
    BY DEF SocketsInv, SocketsTypeOK, Listen, StreamServerAdds, NewListener
  <2>2. watched \subseteq watched' /\ socketsDid' = socketsDid
    BY DEF Listen, StreamServerAdds, NewListener
  <2>3. "closed" \notin socketsDid => listening[fd] = 0
    BY SocketsAssumption
       DEF SocketsInv, SocketsTypeOK, Wired, Heard, Listen
  <2>4. CASE UNCHANGED listening
    BY <2>1, <2>2, <2>3, <2>4 DEF SocketsInv, Wired, Heard
  <2>5. CASE NewListener(fd, s)
    BY <2>1, <2>2, <2>3, <2>5
       DEF SocketsInv, SocketsTypeOK, Wired, Heard, NewListener, Listen
  <2> QED
    BY <2>4, <2>5 DEF Listen, StreamServerAdds
<1>4. Wired'
  BY <1>2, <1>3 DEF Wired, Listen
<1>5. OneListenerEach'
  BY SocketsAssumption
     DEF SocketsInv, SocketsTypeOK, OneListenerEach, Listen,
         StreamServerAdds, NewListener
<1>6. ServedAsPromised'
  <2>1. socketsDid \subseteq socketsDid'
    BY DEF Listen
  <2> SUFFICES ASSUME socketsDid = {}, watched = promised, Heard
               PROVE  watched' = promised'
    BY <2>1 DEF SocketsInv, SocketsTypeOK, SocketDeeds, Wired,
                ServedAsPromised
  <2>2. NoSocket \notin watched
    BY DEF SocketsInv, SocketsTypeOK
  <2>3. listening[fd] \in Nat /\ ~(listening[fd] > 0)
    BY <2>2, SocketsAssumption DEF SocketsInv, SocketsTypeOK, Heard, Listen
  <2>4. listening[fd] = 0
    BY <2>3
  <2>5. fd \notin listeners
    BY <2>4 DEF SocketsInv, OneListenerEach, Listen
  <2> QED
    BY <2>4, <2>5 DEF Listen, StreamServerAdds, NewListener
<1> QED
  BY <1>1, <1>4, <1>5, <1>6 DEF SocketsInv

(* A socket is watched when its number gets its first listener.            *)
LEMMA AddSocketKeeps ==
  ASSUME SocketsInv, NEW fd \in Fd, AddSocket(fd)
  PROVE  SocketsInv'
<1>1. SocketsTypeOK'
  BY SocketsAssumption
     DEF SocketsInv, SocketsTypeOK, AddSocket, StreamServerAdds,
         HTTPServerAdds, NewListener, SocketDeeds
<1>2. Distinct'
  BY DEF SocketsInv, Wired, Distinct, AddSocket
<1>3. Heard'
  <2>1. \A g \in Fd \ {fd} : listening'[g] = listening[g]
    BY DEF SocketsInv, SocketsTypeOK, AddSocket, StreamServerAdds,
           HTTPServerAdds, NewListener
  <2>2. open' = open /\ watched \subseteq watched'
    BY DEF AddSocket, StreamServerAdds, HTTPServerAdds, NewListener
  <2>3. "closed" \notin socketsDid' => "closed" \notin socketsDid
    BY DEF AddSocket, HTTPServerAdds
  <2>4. CASE UNCHANGED listening
    BY <2>2, <2>3, <2>4 DEF SocketsInv, Wired, Heard
  <2>5. CASE NewListener(fd, open[fd])
    BY <2>1, <2>2, <2>3, <2>5
       DEF SocketsInv, SocketsTypeOK, Wired, Heard, NewListener
  <2> QED
    BY <2>4, <2>5 DEF AddSocket, StreamServerAdds, HTTPServerAdds
<1>4. Wired'
  BY <1>2, <1>3 DEF Wired, AddSocket
<1>5. OneListenerEach'
  BY SocketsAssumption
     DEF SocketsInv, SocketsTypeOK, OneListenerEach, AddSocket,
         StreamServerAdds, HTTPServerAdds, NewListener
<1>6. ServedAsPromised'
  <2>1. socketsDid \subseteq socketsDid'
    BY DEF AddSocket, HTTPServerAdds
  <2> SUFFICES ASSUME socketsDid = {}, watched = promised, Heard
               PROVE  watched' = promised' \/ "ignored" \in socketsDid'
    BY <2>1 DEF SocketsInv, SocketsTypeOK, SocketDeeds, Wired,
                ServedAsPromised
  <2>2. listening[fd] \in Nat
    BY SocketsAssumption DEF SocketsInv, SocketsTypeOK
  <2>3. listening[fd] # 0 => open[fd] \in watched
    BY <2>2 DEF Heard
  <2>4. CASE HTTPServerAdds(fd, open[fd])
    BY <2>3, <2>4 DEF HTTPServerAdds, NewListener
  <2>5. CASE StreamServerAdds(fd, open[fd])
    <3>1. fd \in listeners => listening[fd] # 0
      BY <2>5 DEF SocketsInv, OneListenerEach, StreamServerAdds
    <3> QED
      BY <2>3, <2>5, <3>1
         DEF AddSocket, StreamServerAdds, HTTPServerAdds, NewListener
  <2> QED
    BY <2>4, <2>5 DEF AddSocket
<1> QED
  BY <1>1, <1>4, <1>5, <1>6 DEF SocketsInv

(* The one listener of a number goes with its key.                         *)
LEMMA RemoveSocketKeeps ==
  ASSUME SocketsInv, NEW fd \in Fd, RemoveSocket(fd)
  PROVE  SocketsInv'
<1>1. listening[fd] = 1
  BY DEF SocketsInv, OneListenerEach, RemoveSocket
<1> QED
  BY <1>1, SocketsAssumption
     DEF SocketsInv, SocketsTypeOK, Wired, Distinct, Heard,
       OneListenerEach, ServedAsPromised,
         RemoveSocket

(* Closing a number that has no listener takes nothing from the server.    *)
LEMMA CloseDescriptorKeeps ==
  ASSUME SocketsInv, NEW fd \in Fd, CloseDescriptor(fd)
  PROVE  SocketsInv'
BY SocketsAssumption
   DEF SocketsInv, SocketsTypeOK, Wired, Distinct, Heard,
       OneListenerEach, ServedAsPromised,
       CloseDescriptor, SocketDeeds

(* Nothing is served after the server has gone.                            *)
LEMMA DestroyServerKeeps ==
  ASSUME SocketsInv, DestroyServer
  PROVE  SocketsInv'
<1>1. SocketsTypeOK'
  <2>1. open' \in [Fd -> opened' \cup {NoSocket}]
    BY DEF SocketsInv, SocketsTypeOK, DestroyServer
  <2>2. listening' \in [Fd -> 0..MaxListeners]
    BY SocketsAssumption DEF DestroyServer
  <2> QED
    BY <2>1, <2>2 DEF SocketsInv, SocketsTypeOK, DestroyServer
<1>2. Distinct'
  BY DEF SocketsInv, SocketsTypeOK, Wired, Distinct, DestroyServer
<1>3. (Heard /\ Wired /\ OneListenerEach /\ ServedAsPromised)'
  BY <1>2
     DEF Wired, Heard, OneListenerEach, ServedAsPromised, DestroyServer
<1> QED
  BY <1>1, <1>3 DEF SocketsInv

(* All that the program does with sockets; the server is not destroyed.    *)
LEMMA SocketsNextKeeps ==
  ASSUME SocketsInv, SocketsNext
  PROVE  SocketsInv' /\ up' = up
<1>1. SocketsInv'
  BY OpenSocketKeeps, ListenKeeps, AddSocketKeeps, RemoveSocketKeeps,
     CloseDescriptorKeeps DEF SocketsNext
<1>2. up' = up
  BY DEF SocketsNext, OpenSocket, Listen, AddSocket, RemoveSocket,
         CloseDescriptor
<1> QED
  BY <1>1, <1>2

(* A step that leaves the sockets alone.                                   *)
LEMMA SocketsStutter ==
  ASSUME SocketsInv, UNCHANGED socketVars
  PROVE  SocketsInv'
BY DEF SocketsInv, SocketsTypeOK, Wired, Distinct, Heard,
       OneListenerEach, ServedAsPromised,
       socketVars

-----------------------------------------------------------------------------
(* The requests.                                                           *)

(* What a step leaves alone of one connection.                             *)
Same(d) ==
  /\ conn'[d] = conn[d] /\ cb'[d] = cb[d] /\ request'[d] = request[d]
  /\ wire'[d] = wire[d]
  /\ fault'[d] = fault[d] /\ did'[d] = did[d]
  /\ d \in wsmap' <=> d \in wsmap
  /\ d \in kept' <=> d \in kept
  /\ d \in held' <=> d \in held

(* A connection does not notice what happens to the others, nor that       *)
(* handle_request returns.                                                 *)
LEMMA OthersKeep ==
  ASSUME NEW d \in Conn, CInv(d), Same(d), who' = d => who = d,
         up' => up
  PROVE  CInv(d)'
<1>1. Untouched(d)'
  BY DEF CInv, Same, Untouched
<1>2. Traced(d)'
  BY DEF CInv, Same, Traced
<1>3. ("again" \notin did[d] => Clean(d))'
  BY DEF CInv, Same, Clean
<1>4. Explained(d)'
  BY DEF CInv, Same, Explained
<1> QED
  BY <1>1, <1>2, <1>3, <1>4 DEF CInv

(* Before there are connections.                                           *)
LEMMA InitIInv ==
  Init => IInv
<1> SUFFICES ASSUME Init PROVE IInv
  OBVIOUS
<1>1. SocketsInv
  BY SocketsInitInv DEF Init
<1>2. TypeOK
  BY <1>1, RequestsAssumption DEF Init, TypeOK, SocketsInv
<1>3. ASSUME NEW c \in Conn PROVE CInv(c)
  BY RequestsAssumption
     DEF Init, CInv, Untouched, Traced, Clean, Explained
<1> QED
  BY <1>1, <1>2, <1>3 DEF IInv

(* Connections are accepted by a server that exists.                       *)
LEMMA ConnectKeeps ==
  ASSUME IInv, NEW c \in Conn, Connect(c)
  PROVE  IInv'
<1> USE DEF IInv
<1>1. SocketsInv'
  BY SocketsStutter DEF Connect
<1>2. TypeOK'
  BY <1>1 DEF TypeOK, Connect, SocketsInv
<1>3. CInv(c)'
  BY RequestsAssumption
     DEF TypeOK, CInv, Untouched, Traced, Clean, Explained, Connect,
         socketVars
<1>4. ASSUME NEW d \in Conn \ {c} PROVE CInv(d)'
  <2>1. Same(d) /\ who' = who /\ up' = up
    BY DEF TypeOK, Connect, Same, socketVars
  <2> QED
    BY <2>1, OthersKeep
<1> QED
  BY <1>1, <1>2, <1>3, <1>4

(* A reply that was written was sent.                                      *)
LEMMA FlushKeeps ==
  ASSUME IInv, NEW c \in Conn, Flush(c)
  PROVE  IInv'
<1> USE DEF IInv
<1>1. SocketsInv'
  BY SocketsStutter DEF Flush
<1>2. TypeOK'
  BY <1>1 DEF TypeOK, Flush, SocketsInv
<1>3. CInv(c)'
  <2>1. conn'[c] \in {"open", "freed"} /\ request'[c] = "freed"
    BY DEF TypeOK, Flush
  <2> QED
    BY <2>1 DEF TypeOK, CInv, Untouched, Traced, Clean, Explained, Flush,
                socketVars
<1>4. ASSUME NEW d \in Conn \ {c} PROVE CInv(d)'
  <2>1. Same(d) /\ who' = who /\ up' = up
    BY DEF TypeOK, Flush, Same, socketVars
  <2> QED
    BY <2>1, OthersKeep
<1> QED
  BY <1>1, <1>2, <1>3, <1>4

(* A client that goes is not one of the websocket server's.                *)
LEMMA PeerClosesKeeps ==
  ASSUME IInv, NEW c \in Conn, PeerCloses(c)
  PROVE  IInv'
<1> USE DEF IInv
<1>1. SocketsInv'
  BY SocketsStutter DEF PeerCloses
<1>2. TypeOK'
  BY <1>1 DEF TypeOK, PeerCloses, SocketsInv
<1>3. CInv(c)'
  BY RequestsAssumption
     DEF TypeOK, CInv, Untouched, Traced, Clean, Explained, PeerCloses,
         socketVars
<1>4. ASSUME NEW d \in Conn \ {c} PROVE CInv(d)'
  <2>1. Same(d) /\ who' = who /\ up' = up
    BY DEF TypeOK, PeerCloses, Same, socketVars
  <2> QED
    BY <2>1, OthersKeep
<1> QED
  BY <1>1, <1>2, <1>3, <1>4

(* A request comes over an open connection and is fresh.                   *)
LEMMA RequestKeeps ==
  ASSUME IInv, NEW c \in Conn, Request(c)
  PROVE  IInv'
<1> USE DEF IInv
<1>1. SocketsInv'
  BY SocketsStutter DEF Request
<1>2. TypeOK'
  BY <1>1 DEF TypeOK, Request, SocketsInv
<1>3. CInv(c)'
  BY DEF TypeOK, CInv, Untouched, Traced, Clean, Explained, Request,
         socketVars
<1>4. ASSUME NEW d \in Conn \ {c} PROVE CInv(d)'
  <2>1. Same(d) /\ who' = c /\ up' = up
    BY DEF TypeOK, Request, Same, socketVars
  <2> QED
    BY <2>1, OthersKeep
<1> QED
  BY <1>1, <1>2, <1>3, <1>4

(* Only a request can be kept.                                             *)
LEMMA KeepRequestKeeps ==
  ASSUME IInv, NEW c \in Conn, KeepRequest(c)
  PROVE  IInv'
<1> USE DEF IInv
<1>1. SocketsInv'
  BY SocketsStutter DEF KeepRequest
<1>2. TypeOK'
  BY <1>1 DEF TypeOK, KeepRequest, SocketsInv
<1>3. CInv(c)'
  BY DEF TypeOK, CInv, Untouched, Traced, Clean, Explained, KeepRequest,
         socketVars
<1>4. ASSUME NEW d \in Conn \ {c} PROVE CInv(d)'
  <2>1. Same(d) /\ who' = who /\ up' = up
    BY DEF TypeOK, KeepRequest, Same, socketVars
  <2> QED
    BY <2>1, OthersKeep
<1> QED
  BY <1>1, <1>2, <1>3, <1>4

(* A request stays as it is when handle_request returns.                   *)
LEMMA HandlerReturnsKeeps ==
  ASSUME IInv, NEW c \in Conn, HandlerReturns(c)
  PROVE  IInv'
<1> USE DEF IInv
<1>1. SocketsInv'
  BY SocketsStutter DEF HandlerReturns
<1>2. TypeOK'
  BY <1>1 DEF TypeOK, HandlerReturns, SocketsInv
<1>3. ASSUME NEW d \in Conn PROVE CInv(d)'
  <2>1. Same(d) /\ who' # d /\ up' = up
    BY RequestsAssumption DEF TypeOK, HandlerReturns, Same, socketVars
  <2> QED
    BY <2>1, OthersKeep
<1> QED
  BY <1>1, <1>2, <1>3

(* The words that are queued for a client.                                 *)
LEMMA Appended ==
  ASSUME NEW w, w \in {"reply", "101"}
  PROVE  /\ Append(<<>>, w) = <<w>>
         /\ \A q \in Seq({"reply", "101"}) :
              Append(q, w) \in Seq({"reply", "101"})
OBVIOUS

(* There is room for one more call.                                        *)
LEMMA RoomForAnswers ==
  ASSUME IInv, NEW c \in Conn, Answers(c)
  PROVE  /\ answers' \in [Conn -> 0..MaxResponses]
         /\ \A d \in Conn \ {c} : answers'[d] = answers[d]
BY RequestsAssumption DEF IInv, TypeOK, Answers

(* The first answer to a request goes to a connection that is open and was *)
(* told nothing yet, or to none.                                           *)
LEMMA SendResponseKeeps ==
  ASSUME IInv, NEW c \in Conn, NEW code, SendResponse(c, code)
  PROVE  IInv'
<1> USE DEF IInv
<1>1. SocketsInv'
  BY SocketsStutter DEF SendResponse
<1>2. TypeOK'
  <2>1. answers' \in [Conn -> 0..MaxResponses]
    BY RoomForAnswers DEF SendResponse
  <2>2. wire' \in [Conn -> Seq({"reply", "101"})]
    <3>1. Append(wire[c], "reply") \in Seq({"reply", "101"})
      BY Appended DEF TypeOK
    <3>2. wire' \in {wire, [wire EXCEPT ![c] = Append(wire[c], "reply")]}
      BY DEF SendResponse, SendReply
    <3> QED
      BY <3>1, <3>2 DEF TypeOK
  <2>3. did' \in [Conn -> SUBSET Deeds]
    BY DEF TypeOK, SendResponse, Again, Deeds
  <2> QED
    BY <1>1, <2>1, <2>2, <2>3 DEF TypeOK, SendResponse, SendReply, SocketsInv
<1>3. CInv(c)'
  <2>2. did'[c] = did[c] \cup {"replied"} \cup Again(c)
    BY DEF TypeOK, SendResponse
  <2>3. /\ "replied" \in did'[c] /\ did[c] \subseteq did'[c]
        /\ "upgraded" \in did'[c] => "upgraded" \in did[c]
        /\ "again" \notin did'[c] =>
             "again" \notin did[c] /\ did[c] \cap {"replied", "upgraded"} = {}
        /\ "outlived" \in did'[c] => "outlived" \in did[c]
    BY <2>2 DEF Again
  <2>4. request[c] \notin {"none", "freed"}
    BY DEF SendResponse, SendReply
  <2>5. \/ /\ request[c] = "detached" /\ request'[c] = "freed"
           /\ cb'[c] = cb[c] /\ wire'[c] = wire[c]
        \/ /\ request[c] \in {"pending", "answered"}
           /\ request'[c] = "answered" /\ cb'[c] = "http"
           /\ wire'[c] = Append(wire[c], "reply")
    BY DEF TypeOK, SendResponse, SendReply
  <2>6. /\ conn'[c] = conn[c] /\ fault'[c] = fault[c] /\ who' = who
        /\ wsmap' = wsmap /\ kept' = kept /\ held' = held /\ up' = up
    BY DEF SendResponse, socketVars
  <2>7. Untouched(c)'
    BY <2>4, <2>5, <2>6 DEF CInv, Untouched
  <2>8. Traced(c)'
    BY <2>3, <2>5, <2>6 DEF CInv, Traced, Again
  <2>9. "again" \notin did'[c] => Clean(c)'
    <3> SUFFICES ASSUME "again" \notin did'[c] PROVE Clean(c)'
      OBVIOUS
    <3>1. /\ Clean(c) /\ did[c] \cap {"replied", "upgraded"} = {}
          /\ request[c] # "answered" /\ c \notin wsmap \cup held
      BY <2>3 DEF CInv, Traced
    <3>3. wire[c] = <<>> /\ cb'[c] = "http"
      BY <2>5, <3>1 DEF Clean
    <3>4. wire'[c] \in {<<>>, <<"reply">>}
      BY <2>5, <3>3, Appended
    <3> QED
      BY <2>3, <2>6, <3>1, <3>3, <3>4 DEF Clean
  <2>10. Explained(c)'
    BY <2>3, <2>6 DEF CInv, Explained
  <2> QED
    BY <2>7, <2>8, <2>9, <2>10 DEF CInv
<1>4. ASSUME NEW d \in Conn \ {c} PROVE CInv(d)'
  <2>1. Same(d) /\ who' = who /\ up' = up
    BY RoomForAnswers DEF TypeOK, SendResponse, SendReply, Same, socketVars
  <2> QED
    BY <2>1, OthersKeep
<1> QED
  BY <1>1, <1>2, <1>3, <1>4

(* A code that is not known changes nothing.                               *)
LEMMA SendUnknownKeeps ==
  ASSUME IInv, NEW c \in Conn, NEW code, SendUnknown(c, code)
  PROVE  IInv'
<1> USE DEF IInv
<1>1. SocketsInv'
  BY SocketsStutter DEF SendUnknown
<1>2. TypeOK'
  <2>1. answers' \in [Conn -> 0..MaxResponses]
    BY RoomForAnswers DEF SendUnknown
  <2> QED
    BY <1>1, <2>1 DEF TypeOK, SendUnknown, SocketsInv, Faults
<1>3. CInv(c)'
  <2>1. Usable(c) /\ request[c] # "freed"
    BY DEF SendUnknown
  <2>2. request[c] # "none"
    BY <2>1 DEF CInv, Untouched, Usable
  <2> QED
    BY <2>1, <2>2
       DEF TypeOK, CInv, Untouched, Traced, Clean, Explained, SendUnknown,
           socketVars
<1>4. ASSUME NEW d \in Conn \ {c} PROVE CInv(d)'
  <2>1. Same(d) /\ who' = who /\ up' = up
    BY RoomForAnswers DEF TypeOK, SendUnknown, Same, socketVars
  <2> QED
    BY <2>1, OthersKeep
<1> QED
  BY <1>1, <1>2, <1>3, <1>4

(* A request that was freed while the server exists was used before.       *)
LEMMA UseFreedKeeps ==
  ASSUME IInv, NEW c \in Conn, UseFreed(c)
  PROVE  IInv'
<1> USE DEF IInv
<1>1. SocketsInv'
  BY SocketsStutter DEF UseFreed
<1>2. TypeOK'
  BY <1>1 DEF TypeOK, UseFreed, SocketsInv, Faults, Deeds, Again
<1>3. CInv(c)'
  BY DEF TypeOK, CInv, Untouched, Traced, Clean, Explained, UseFreed,
         Usable, Again, socketVars
<1>4. ASSUME NEW d \in Conn \ {c} PROVE CInv(d)'
  <2>1. Same(d) /\ who' = who /\ up' = up
    BY DEF TypeOK, UseFreed, Same, socketVars
  <2> QED
    BY <2>1, OthersKeep
<1> QED
  BY <1>1, <1>2, <1>3, <1>4

(* Destroying clients changes their own connections only.                  *)
LEMMA Released ==
  ASSUME IInv, NEW S, ReleaseClients(S)
  PROVE  /\ conn' \in [Conn -> {"none", "open", "freed"}]
         /\ request' \in
              [Conn -> {"none", "pending", "answered", "detached", "freed"}]
         /\ fault' \in [Conn -> Faults \cup {"none"}]
         /\ \A d \in Conn :
              IF d \in S
              THEN /\ conn'[d] = "freed"
                   /\ request'[d] = IF request[d] \in {"pending", "answered"}
                                    THEN "freed" ELSE request[d]
                   /\ fault'[d] = IF conn[d] = "freed"
                                  THEN "freed_connection" ELSE fault[d]
              ELSE /\ conn'[d] = conn[d] /\ request'[d] = request[d]
                   /\ fault'[d] = fault[d]
BY DEF IInv, TypeOK, ReleaseClients, Faults

(* A request that is upgraded for the first time has an open connection    *)
(* that was told nothing yet, and no client.                               *)
LEMMA UpgradeKeeps ==
  ASSUME IInv, NEW c \in Conn, NEW h \in BOOLEAN, Upgrade(c, h)
  PROVE  IInv'
<1> USE DEF IInv
<1>1. SocketsInv'
  BY SocketsStutter DEF Upgrade
<1>2. TypeOK'
  <2>1. Append(wire[c], "101") \in Seq({"reply", "101"})
    BY Appended DEF TypeOK
  <2>2. wire' \in [Conn -> Seq({"reply", "101"})]
    BY <2>1 DEF TypeOK, Upgrade
  <2>3. did' \in [Conn -> SUBSET Deeds]
    BY DEF TypeOK, Upgrade, Again, Deeds
  <2> QED
    BY <1>1, <2>2, <2>3, Released DEF TypeOK, Upgrade, SocketsInv
<1>3. CInv(c)'
  <2>1. did'[c] = did[c] \cup {"upgraded"} \cup Again(c)
                    \cup {d \in {"late"} : who # c}
    BY DEF TypeOK, Upgrade
  <2>2. /\ "upgraded" \in did'[c] /\ did[c] \subseteq did'[c]
        /\ "replied" \in did'[c] => "replied" \in did[c]
        /\ "again" \notin did'[c] => did[c] \cap {"replied", "upgraded"} = {}
        /\ did[c] \cap {"replied", "upgraded"} # {} => "again" \in did'[c]
        /\ "outlived" \in did'[c] => "outlived" \in did[c]
    BY <2>1 DEF Again
  <2>3. /\ request[c] \in {"pending", "answered"} /\ conn[c] = "open"
        /\ "again" \notin did[c] /\ Running
    BY DEF Upgrade, CInv, Traced, Usable
  <2>4. /\ cb'[c] = "ws" /\ wire'[c] = Append(wire[c], "101")
        /\ wsmap' = wsmap \cup {c} /\ held' \subseteq held \cup {c}
        /\ kept' = kept /\ who' = who /\ up' = up
    BY DEF TypeOK, Upgrade, socketVars
  <2>5. /\ c \notin wsmap => /\ conn'[c] = conn[c] /\ request'[c] = request[c]
                            /\ fault'[c] = fault[c]
        /\ c \in wsmap => conn'[c] = "freed" /\ request'[c] = "freed"
        /\ c \in wsmap => fault'[c] = fault[c]
    BY <2>3, Released DEF Upgrade
  <2>6. fault'[c] = "none"
    BY <2>3, <2>5 DEF Running
  <2>7. Untouched(c)'
    BY <2>3, <2>4, <2>5 DEF CInv, Untouched
  <2>8. Traced(c)'
    BY <2>2, <2>3, <2>4, <2>5 DEF CInv, Traced
  <2>9. "again" \notin did'[c] => Clean(c)'
    <3> SUFFICES ASSUME "again" \notin did'[c] PROVE Clean(c)'
      OBVIOUS
    <3>1. /\ Clean(c) /\ did[c] \cap {"replied", "upgraded"} = {}
          /\ c \notin wsmap
      BY <2>2, <2>3 DEF CInv, Traced
    <3>2. conn'[c] = "open" /\ wire[c] = <<>>
      BY <2>3, <2>5, <3>1 DEF Clean
    <3>3. wire'[c] = <<"101">>
      BY <2>4, <3>2, Appended
    <3> QED
      BY <2>2, <2>4, <3>1, <3>2, <3>3 DEF Clean
  <2>10. Explained(c)'
    BY <2>6 DEF Explained
  <2> QED
    BY <2>7, <2>8, <2>9, <2>10 DEF CInv
<1>4. ASSUME NEW d \in Conn \ {c} PROVE CInv(d)'
  <2>1. Same(d) /\ who' = who /\ up' = up
    BY Released DEF TypeOK, Upgrade, Same, socketVars
  <2> QED
    BY <2>1, OthersKeep
<1> QED
  BY <1>1, <1>2, <1>3, <1>4

(* A request loses its connection after handle_request has returned.       *)
LEMMA UpgradeDetachedKeeps ==
  ASSUME IInv, NEW c \in Conn, UpgradeDetached(c)
  PROVE  IInv'
<1> USE DEF IInv
<1>1. SocketsInv'
  BY SocketsStutter DEF UpgradeDetached
<1>2. TypeOK'
  BY <1>1 DEF TypeOK, UpgradeDetached, SocketsInv, Faults, Deeds
<1>3. CInv(c)'
  BY DEF TypeOK, CInv, Untouched, Traced, Clean, Explained,
         UpgradeDetached, socketVars
<1>4. ASSUME NEW d \in Conn \ {c} PROVE CInv(d)'
  <2>1. Same(d) /\ who' = who /\ up' = up
    BY DEF TypeOK, UpgradeDetached, Same, socketVars
  <2> QED
    BY <2>1, OthersKeep
<1> QED
  BY <1>1, <1>2, <1>3, <1>4

(* A client that a hook was given is in the map.                           *)
LEMMA HoldClientKeeps ==
  ASSUME IInv, NEW c \in Conn, HoldClient(c)
  PROVE  IInv'
<1> USE DEF IInv
<1>1. SocketsInv'
  BY SocketsStutter DEF HoldClient
<1>2. TypeOK'
  BY <1>1 DEF TypeOK, HoldClient, SocketsInv
<1>3. CInv(c)'
  BY DEF TypeOK, CInv, Untouched, Traced, Clean, Explained, HoldClient,
         socketVars
<1>4. ASSUME NEW d \in Conn \ {c} PROVE CInv(d)'
  <2>1. Same(d) /\ who' = who /\ up' = up
    BY DEF TypeOK, HoldClient, Same, socketVars
  <2> QED
    BY <2>1, OthersKeep
<1> QED
  BY <1>1, <1>2, <1>3, <1>4

(* The last pointer to a client that was erased: its connection is open,   *)
(* unless it was used again or outlived the server.                        *)
LEMMA DropClientKeeps ==
  ASSUME IInv, NEW c \in Conn, DropClient(c)
  PROVE  IInv'
<1> USE DEF IInv
<1>1. SocketsInv'
  BY SocketsStutter DEF DropClient
<1>2. TypeOK'
  BY <1>1, Released DEF TypeOK, DropClient, SocketsInv
<1>3. CInv(c)'
  <2>1. /\ cb'[c] = cb[c] /\ wire'[c] = wire[c]
        /\ did'[c] = did[c] /\ kept' = kept /\ who' = who /\ up' = up
        /\ wsmap' \subseteq wsmap /\ held' \subseteq held
        /\ "upgraded" \in did[c] /\ request[c] # "none" /\ fault[c] = "none"
    BY DEF DropClient, Running, CInv, Traced, Untouched, socketVars
  <2>2. CASE conn'[c] = conn[c] /\ request'[c] = request[c]
             /\ fault'[c] = fault[c]
    BY <2>1, <2>2 DEF CInv, Untouched, Traced, Clean, Explained
  <2>3. CASE /\ conn'[c] = "freed" /\ c \notin wsmap' \cup held'
             /\ request'[c] \in {"freed", request[c]}
             /\ request'[c] \notin {"pending", "answered"}
             /\ fault'[c] = IF conn[c] = "freed"
                            THEN "freed_connection" ELSE fault[c]
    <3>1. conn[c] = "freed" => did[c] \cap {"again", "outlived"} # {}
      BY DEF CInv, Clean, DropClient
    <3> QED
      BY <2>1, <2>3, <3>1 DEF CInv, Untouched, Traced, Clean, Explained
  <2> QED
    BY <2>2, <2>3, Released DEF DropClient
<1>4. ASSUME NEW d \in Conn \ {c} PROVE CInv(d)'
  <2>1. Same(d) /\ who' = who /\ up' = up
    BY Released DEF TypeOK, DropClient, Same, socketVars
  <2> QED
    BY <2>1, OthersKeep
<1> QED
  BY <1>1, <1>2, <1>3, <1>4

(* A client of the map has an open connection unless it was used again.    *)
LEMMA DisconnectKeeps ==
  ASSUME IInv, NEW c \in Conn, Disconnect(c)
  PROVE  IInv'
<1> USE DEF IInv
<1>1. SocketsInv'
  BY SocketsStutter DEF Disconnect
<1>2. TypeOK'
  BY <1>1, Released DEF TypeOK, Disconnect, SocketsInv
<1>3. CInv(c)'
  <2>1. /\ cb'[c] = cb[c] /\ wire'[c] = wire[c]
        /\ did'[c] = did[c] /\ kept' = kept /\ who' = who /\ up' = up
        /\ wsmap' \subseteq wsmap /\ held' \subseteq held
        /\ "upgraded" \in did[c] /\ request[c] # "none" /\ fault[c] = "none"
    BY DEF Disconnect, Running, CInv, Traced, Untouched, socketVars
  <2>2. CASE conn'[c] = conn[c] /\ request'[c] = request[c]
             /\ fault'[c] = fault[c]
    BY <2>1, <2>2 DEF CInv, Untouched, Traced, Clean, Explained
  <2>3. CASE /\ conn'[c] = "freed" /\ c \notin wsmap' \cup held'
             /\ request'[c] \in {"freed", request[c]}
             /\ request'[c] \notin {"pending", "answered"}
             /\ fault'[c] = IF conn[c] = "freed"
                            THEN "freed_connection" ELSE fault[c]
    <3>1. conn[c] = "freed" => did[c] \cap {"again", "outlived"} # {}
      BY DEF CInv, Clean, Disconnect
    <3> QED
      BY <2>1, <2>3, <3>1 DEF CInv, Untouched, Traced, Clean, Explained
  <2> QED
    BY <2>2, <2>3, Released DEF Disconnect
<1>4. ASSUME NEW d \in Conn \ {c} PROVE CInv(d)'
  <2>1. Same(d) /\ who' = who /\ up' = up
    BY Released DEF TypeOK, Disconnect, Same, socketVars
  <2> QED
    BY <2>1, OthersKeep
<1> QED
  BY <1>1, <1>2, <1>3, <1>4

(* The server goes: its clients first, then the connections that are left. *)
LEMMA DestroyKeeps ==
  ASSUME IInv, Destroy
  PROVE  IInv'
<1> USE DEF IInv
<1>1. SocketsInv'
  BY DestroyServerKeeps DEF Destroy
<1>2. ASSUME NEW d \in Conn
      PROVE  /\ conn'[d] = IF conn[d] = "open" THEN "freed" ELSE conn[d]
             /\ request'[d] = IF /\ conn[d] = "open"
                                 /\ request[d] \in {"pending", "answered"}
                              THEN "freed" ELSE request[d]
             /\ fault'[d] = IF d \in wsmap \ held /\ conn[d] = "freed"
                            THEN "freed_connection" ELSE fault[d]
             /\ did'[d] = did[d] \cup {e \in {"outlived"} : d \in held}
  BY DEF Destroy, FreeServer
<1>3. /\ cb' = cb /\ wire' = wire /\ answers' = answers /\ kept' = kept
      /\ held' = held /\ who' = who /\ wsmap' = {} /\ up' = FALSE /\ Running
  BY DEF Destroy, DestroyServer
<1>4. TypeOK'
  <2>1. did' \in [Conn -> SUBSET Deeds]
    BY DEF TypeOK, Destroy, Deeds
  <2>2. /\ conn' \in [Conn -> {"none", "open", "freed"}]
        /\ request' \in
             [Conn -> {"none", "pending", "answered", "detached", "freed"}]
        /\ fault' \in [Conn -> Faults \cup {"none"}]
    BY DEF TypeOK, Destroy, FreeServer, Faults
  <2> QED
    BY <1>1, <1>3, <2>1, <2>2 DEF TypeOK, SocketsInv
<1>5. ASSUME NEW d \in Conn PROVE CInv(d)'
  <2>1. Untouched(d)'
    BY <1>2, <1>3 DEF CInv, Untouched
  <2>2. Traced(d)'
    BY <1>2, <1>3 DEF CInv, Traced
  <2>3. "again" \notin did'[d] => Clean(d)'
    BY <1>2, <1>3 DEF CInv, Clean
  <2>4. Explained(d)'
    BY <1>2, <1>3 DEF CInv, Traced, Clean, Explained, Running
  <2> QED
    BY <2>1, <2>2, <2>3, <2>4 DEF CInv
<1> QED
  BY <1>1, <1>4, <1>5

(* What the program does with its sockets does not touch requests.         *)
LEMMA SocketsKeeps ==
  ASSUME IInv, Sockets
  PROVE  IInv'
<1>1. SocketsInv' /\ up' = up
  BY SocketsNextKeeps DEF IInv, Sockets
<1>2. TypeOK'
  BY <1>1 DEF IInv, TypeOK, Sockets, requestVars, SocketsInv
<1>3. ASSUME NEW d \in Conn PROVE CInv(d)'
  BY <1>1, OthersKeep DEF IInv, Sockets, requestVars, Same
<1> QED
  BY <1>1, <1>2, <1>3 DEF IInv

(* IInv is inductive.                                                      *)
LEMMA NextKeeps ==
  ASSUME IInv, [Next]_vars
  PROVE  IInv'
<1>1. CASE UNCHANGED vars
  <2>1. SocketsInv' /\ up' = up
    BY <1>1, SocketsStutter DEF IInv, vars, socketVars
  <2>2. TypeOK'
    BY <1>1, <2>1 DEF IInv, TypeOK, vars, requestVars, SocketsInv
  <2>3. ASSUME NEW d \in Conn PROVE CInv(d)'
    BY <1>1, <2>1, OthersKeep DEF IInv, vars, requestVars, Same
  <2> QED
    BY <2>1, <2>2, <2>3 DEF IInv
<1>2. CASE Sockets
  BY <1>2, SocketsKeeps
<1>3. CASE Destroy
  BY <1>3, DestroyKeeps
<1>4. ASSUME NEW c \in Conn,
             \/ Connect(c) \/ Flush(c) \/ PeerCloses(c)
             \/ Request(c) \/ KeepRequest(c) \/ HandlerReturns(c)
      PROVE  IInv'
  BY <1>4, ConnectKeeps, FlushKeeps, PeerClosesKeeps, RequestKeeps,
     KeepRequestKeeps, HandlerReturnsKeeps
<1>5. ASSUME NEW c \in Conn, NEW code \in Code,
             SendResponse(c, code) \/ SendUnknown(c, code)
      PROVE  IInv'
  BY <1>5, SendResponseKeeps, SendUnknownKeeps
<1>6. ASSUME NEW c \in Conn, NEW h \in BOOLEAN, Upgrade(c, h)
      PROVE  IInv'
  BY <1>6, UpgradeKeeps
<1>7. ASSUME NEW c \in Conn,
             \/ UseFreed(c) \/ UpgradeDetached(c)
             \/ HoldClient(c) \/ DropClient(c) \/ Disconnect(c)
      PROVE  IInv'
  BY <1>7, UseFreedKeeps, UpgradeDetachedKeeps, HoldClientKeeps,
     DropClientKeeps, DisconnectKeeps
<1> QED
  BY <1>1, <1>2, <1>3, <1>4, <1>5, <1>6, <1>7 DEF Next

(* The invariant of every behaviour.                                       *)
THEOREM Inductive == Spec => []IInv
<1>1. IInv /\ [Next]_vars => IInv'
  BY NextKeeps
<1> QED
  BY InitIInv, <1>1, PTL DEF Spec

(* Every variable keeps its type.                                          *)
THEOREM TypeCorrect == Spec => []TypeOK
<1>1. IInv => TypeOK
  BY DEF IInv
<1> QED
  BY Inductive, <1>1, PTL

(* What is served is what the program was told is served, for any numbers, *)
(* sockets and listeners, unless it closed a descriptor that is listened   *)
(* on or a failure of libevent was ignored.                                *)
THEOREM PromisesAreKept == Spec => []ServedAsPromised
<1>1. IInv => ServedAsPromised
  BY DEF IInv, SocketsInv
<1> QED
  BY Inductive, <1>1, PTL

(* A StreamServer has one listener of libevent for each key of its map.    *)
THEOREM ListenersAreCounted == Spec => []OneListenerEach
<1>1. IInv => OneListenerEach
  BY DEF IInv, SocketsInv
<1> QED
  BY Inductive, <1>1, PTL

(* No request that was freed is used by a subclass that uses each once.    *)
THEOREM FreedRequestsRest == Spec => []RequestsSafe
<1>1. IInv => RequestsSafe
  BY DEF IInv, CInv, Explained, RequestsSafe
<1> QED
  BY Inductive, <1>1, PTL

(* Connections with two owners are freed once, whichever goes first.       *)
THEOREM ConnsHaveOneEnd == Spec => []ConnsFreedOnce
<1>1. IInv => ConnsFreedOnce
  BY DEF IInv, CInv, Explained, ConnsFreedOnce
<1> QED
  BY Inductive, <1>1, PTL

(* The keys of bev_to_websocket_client are live and call the websocket     *)
(* functions.                                                              *)
THEOREM MapIsLive == Spec => []MapConnsLive
<1>1. IInv => MapConnsLive
  BY DEF IInv, TypeOK, CInv, Clean, MapConnsLive
<1> QED
  BY Inductive, <1>1, PTL

(* Whatever the values and the forms: what a handler is told of the        *)
(* parameters is what the standard says and what the browser was given,    *)
(* with the exceptions that UrlParamsDecoded names.                        *)
THEOREM ParametersAreDecoded == Spec => []UrlParamsDecoded
<1>1. UrlParamsDecoded
  BY ParamsDecoded DEF UrlParamsDecoded
<1> QED
  BY <1>1, PTL

-----------------------------------------------------------------------------
(* HTTPRequests implements HTTPExchange.                                   *)

(* What is said and heard depends on the state of the connection alone.    *)
LEMMA OthersSay ==
  ASSUME NEW d \in Conn, Same(d)
  PROVE  Said(d)' = Said(d) /\ Ears(d)' = Ears(d)
BY DEF Same, Said, Ears, Waived

(* Steps that nobody notices, that waive the promise for a connection, and *)
(* that lose connections.                                                  *)
LEMMA Stutters ==
  ASSUME \A d \in Conn : Said(d)' = Said(d) /\ Ears(d)' = Ears(d)
  PROVE  UNCHANGED Exchange!vars
BY DEF Exchange!vars

LEMMA Waives ==
  ASSUME NEW c \in Conn, "again" \in did'[c], \A d \in Conn \ {c} : Same(d)
  PROVE  Exchange!Waive(c)
<1>1. Said(c)' = "waived" /\ Ears(c)' = "waived"
  BY DEF Said, Ears, Waived
<1> QED
  BY <1>1, OthersSay DEF Exchange!Waive

LEMMA Loses ==
  ASSUME \A d \in Conn :
           /\ Said(d)' = Said(d)
           /\ \/ Ears(d)' = Ears(d)
              \/ Ears(d) \in {"http", "ws"} /\ Ears(d)' = "gone"
  PROVE  Exchange!Lose
<1> DEFINE S == {d \in Conn : Ears(d)' # Ears(d)}
<1>1. S \in SUBSET {d \in Conn : Ears(d) \in {"http", "ws"}}
  OBVIOUS
<1>2. \A d \in Conn : Ears(d)' = IF d \in S THEN "gone" ELSE Ears(d)
  OBVIOUS
<1> HIDE DEF S
<1> QED
  BY <1>1, <1>2 DEF Exchange!Lose

(* A step that says nothing and ends connections, or none.                 *)
Closing ==
  \A d \in Conn :
    /\ cb'[d] = cb[d] /\ wire'[d] = wire[d]
    /\ "again" \in did'[d] <=> "again" \in did[d]
    /\ conn'[d] = conn[d] \/ (conn[d] # "none" /\ conn'[d] = "freed")

LEMMA Closes ==
  ASSUME IInv, Closing
  PROVE  Exchange!Lose
<1>1. ASSUME NEW d \in Conn
      PROVE  /\ Said(d)' = Said(d)
             /\ \/ Ears(d)' = Ears(d)
                \/ Ears(d) \in {"http", "ws"} /\ Ears(d)' = "gone"
  <2>1. cb[d] \in {"http", "ws"} /\ conn[d] \in {"none", "open", "freed"}
    BY DEF IInv, TypeOK
  <2> QED
    BY <2>1 DEF Closing, Said, Ears, Waived
<1> QED
  BY <1>1, Loses

(* The end of a connection is one of those that the client may see.        *)
LEMMA LifeRefines ==
  ASSUME IInv, NEW c \in Conn,
         \/ Flush(c) \/ PeerCloses(c) \/ Request(c) \/ KeepRequest(c)
         \/ HandlerReturns(c) \/ UpgradeDetached(c) \/ HoldClient(c)
         \/ DropClient(c) \/ Disconnect(c)
  PROVE  Exchange!Lose
<1> USE DEF IInv
<1>1. CASE Flush(c) \/ PeerCloses(c)
  <2>1. Closing
    BY <1>1 DEF TypeOK, Flush, PeerCloses, Closing
  <2> QED
    BY <2>1, Closes
<1>2. CASE Request(c) \/ KeepRequest(c) \/ HandlerReturns(c)
           \/ UpgradeDetached(c) \/ HoldClient(c)
  <2>1. Closing
    BY <1>2 DEF TypeOK, Request, KeepRequest, HandlerReturns,
                UpgradeDetached, HoldClient, Closing
  <2> QED
    BY <2>1, Closes
<1>3. CASE DropClient(c) \/ Disconnect(c)
  <2>1. conn[c] # "none"
    BY <1>3 DEF CInv, Traced, Untouched, DropClient, Disconnect
  <2>2. Closing
    BY <1>3, <2>1, Released DEF DropClient, Disconnect, Closing
  <2> QED
    BY <2>2, Closes
<1> QED
  BY <1>1, <1>2, <1>3

(* A connection is new, and evhttp hears it.                               *)
LEMMA ConnectRefines ==
  ASSUME IInv, NEW c \in Conn, Connect(c)
  PROVE  Exchange!Connect(c)
<1> USE DEF IInv
<1>1. \A d \in Conn \ {c} : Same(d)
  BY DEF TypeOK, Connect, Same
<1>2. Ears(c) = "nobody" /\ Ears(c)' = "http" /\ Said(c)' = Said(c)
  BY DEF TypeOK, CInv, Untouched, Connect, Ears, Said, Waived
<1> QED
  BY <1>1, <1>2, OthersSay DEF Exchange!Connect

(* A reply is the first thing that is said, or the promise is waived, or   *)
(* there is nobody to hear it.                                             *)
LEMMA ResponseRefines ==
  ASSUME IInv, NEW c \in Conn, NEW code, SendResponse(c, code)
  PROVE  Exchange!Reply(c) \/ Exchange!Waive(c) \/ Exchange!Lose
<1> USE DEF IInv
<1>1. \A d \in Conn \ {c} : Same(d)
  BY RoomForAnswers DEF TypeOK, SendResponse, SendReply, Same, socketVars
<1>2. did'[c] = did[c] \cup {"replied"} \cup Again(c) /\ conn' = conn
  BY DEF TypeOK, SendResponse
<1>3. CASE "again" \in did'[c]
  BY <1>1, <1>3, Waives
<1>4. CASE "again" \notin did'[c] /\ request[c] = "detached"
  <2>1. cb' = cb /\ wire' = wire
    BY <1>4 DEF SendResponse, SendReply
  <2>2. "again" \notin did[c]
    BY <1>2, <1>4
  <2>3. Closing
    BY <1>1, <1>2, <1>4, <2>1, <2>2 DEF Closing, Same
  <2> QED
    BY <2>3, Closes
<1>5. CASE "again" \notin did'[c] /\ request[c] # "detached"
  <2>1. "again" \notin did[c] /\ did[c] \cap {"replied", "upgraded"} = {}
    BY <1>2, <1>5 DEF Again
  <2>2. /\ request[c] \in {"pending", "answered"} /\ cb'[c] = "http"
        /\ wire'[c] = Append(wire[c], "reply")
    BY <1>5 DEF TypeOK, SendResponse, SendReply
  <2>3. conn[c] = "open" /\ cb[c] = "http" /\ wire[c] = <<>>
    BY <2>1, <2>2 DEF CInv, Traced, Clean
  <2>4. wire'[c] = <<"reply">>
    BY <2>2, <2>3, Appended
  <2>5. Said(c) = "nothing" /\ Ears(c) = "http" /\ Ears(c)' = Ears(c)
    BY <1>2, <1>5, <2>1, <2>2, <2>3 DEF Said, Ears, Waived
  <2>6. Said(c)' = "reply"
    BY <1>5, <2>4 DEF Said, Waived
  <2> QED
    BY <1>1, <2>5, <2>6, OthersSay DEF Exchange!Reply
<1> QED
  BY <1>3, <1>4, <1>5

(* An upgrade is the first thing that is said, or the promise is waived.   *)
LEMMA UpgradeRefines ==
  ASSUME IInv, NEW c \in Conn, NEW h \in BOOLEAN, Upgrade(c, h)
  PROVE  Exchange!Upgrade(c) \/ Exchange!Waive(c)
<1> USE DEF IInv
<1>1. \A d \in Conn \ {c} : Same(d)
  BY Released DEF TypeOK, Upgrade, Same, socketVars
<1>2. did'[c] = did[c] \cup {"upgraded"} \cup Again(c)
                  \cup {d \in {"late"} : who # c}
  BY DEF TypeOK, Upgrade
<1>3. CASE "again" \in did'[c]
  BY <1>1, <1>3, Waives
<1>4. CASE "again" \notin did'[c]
  <2>1. "again" \notin did[c] /\ did[c] \cap {"replied", "upgraded"} = {}
    BY <1>2, <1>4 DEF Again
  <2>2. /\ cb'[c] = "ws" /\ wire'[c] = Append(wire[c], "101")
    BY DEF TypeOK, Upgrade
  <2>3. /\ conn[c] = "open" /\ cb[c] = "http" /\ wire[c] = <<>>
        /\ c \notin wsmap
    BY <2>1 DEF CInv, Traced, Clean, Upgrade
  <2>4. wire'[c] = <<"101">> /\ conn'[c] = "open"
    BY <2>2, <2>3, Appended, Released DEF Upgrade
  <2>5. Said(c) = "nothing" /\ Ears(c) = "http" /\ Ears(c)' = "ws"
    BY <1>4, <2>1, <2>2, <2>3, <2>4 DEF Said, Ears, Waived
  <2>6. Said(c)' = "101"
    BY <1>4, <2>4 DEF Said, Waived
  <2> QED
    BY <1>1, <2>5, <2>6, OthersSay DEF Exchange!Upgrade
<1> QED
  BY <1>3, <1>4

(* Failures are not noticed, except that the promise may be waived.        *)
LEMMA FailureRefines ==
  ASSUME IInv, NEW c \in Conn, NEW code,
         SendUnknown(c, code) \/ UseFreed(c)
  PROVE  Exchange!Waive(c) \/ Exchange!Lose
<1> USE DEF IInv
<1>1. \A d \in Conn \ {c} : Same(d)
  BY RoomForAnswers DEF TypeOK, SendUnknown, UseFreed, Same
<1>2. CASE "again" \in did'[c]
  BY <1>1, <1>2, Waives
<1>3. CASE "again" \notin did'[c]
  <2>1. "again" \notin did[c]
    BY <1>3 DEF TypeOK, SendUnknown, UseFreed
  <2>2. Closing
    BY <1>1, <1>3, <2>1 DEF Closing, Same, SendUnknown, UseFreed
  <2> QED
    BY <2>2, Closes
<1> QED
  BY <1>2, <1>3

(* When the server goes, so do its connections.                            *)
LEMMA ServerRefines ==
  ASSUME IInv, Destroy \/ Sockets
  PROVE  Exchange!Lose
<1>1. CASE Destroy
  <2>1. Closing
    BY <1>1 DEF IInv, TypeOK, Destroy, FreeServer, Closing
  <2> QED
    BY <2>1, Closes
<1>2. CASE Sockets
  <2>1. Closing
    BY <1>2 DEF Sockets, requestVars, Closing
  <2> QED
    BY <2>1, Closes
<1> QED
  BY <1>1, <1>2

(* Every step is one of HTTPExchange, or one that nobody notices.          *)
LEMMA NextRefines ==
  ASSUME IInv, [Next]_vars
  PROVE  [Exchange!Next]_(Exchange!vars)
<1>1. CASE UNCHANGED vars
  BY <1>1 DEF vars, requestVars, Exchange!vars, Said, Ears, Waived
<1>2. CASE Destroy \/ Sockets
  BY <1>2, ServerRefines DEF Exchange!Next
<1>3. ASSUME NEW c \in Conn, Connect(c)
      PROVE  Exchange!Next
  BY <1>3, ConnectRefines DEF Exchange!Next
<1>4. ASSUME NEW c \in Conn,
             \/ Flush(c) \/ PeerCloses(c) \/ Request(c) \/ KeepRequest(c)
             \/ HandlerReturns(c) \/ UpgradeDetached(c) \/ HoldClient(c)
             \/ DropClient(c) \/ Disconnect(c)
      PROVE  Exchange!Next
  BY <1>4, LifeRefines DEF Exchange!Next
<1>5. ASSUME NEW c \in Conn, NEW code \in Code, SendResponse(c, code)
      PROVE  Exchange!Next
  BY <1>5, ResponseRefines DEF Exchange!Next
<1>6. ASSUME NEW c \in Conn, NEW h \in BOOLEAN, Upgrade(c, h)
      PROVE  Exchange!Next
  BY <1>6, UpgradeRefines DEF Exchange!Next
<1>7. ASSUME NEW c \in Conn, NEW code,
             SendUnknown(c, code) \/ UseFreed(c)
      PROVE  Exchange!Next
  BY <1>7, FailureRefines DEF Exchange!Next
<1> QED
  BY <1>1, <1>2, <1>3, <1>4, <1>5, <1>6, <1>7 DEF Next

(* At first nothing was said, and nobody listens.                          *)
LEMMA InitRefines ==
  Init => Exchange!Init
BY DEF Init, Exchange!Init, Said, Ears, Waived

(* One reply or one upgrade for a request, and the websocket functions     *)
(* hear a client exactly from the step that told it so.                    *)
THEOREM RefinesExchange == Spec => ImplementsExchange
<1>1. IInv /\ [Next]_vars => [Exchange!Next]_(Exchange!vars)
  BY NextRefines
<1> QED
  BY Inductive, InitRefines, <1>1, PTL
     DEF Spec, ImplementsExchange, Exchange!Spec
=============================================================================
