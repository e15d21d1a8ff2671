------------------------ MODULE WebSocketConnection ------------------------
(***************************************************************************)
(* One connection of HTTPWebSocketServer (src/HTTPWebsocketServer.hh):     *)
(* the upgrade, the frame decoder, which runs once per read callback, the  *)
(* assembly of fragmented messages, the answers to control frames and the  *)
(* removal of the client.                                                  *)
(*                                                                         *)
(* stream is what the peer sends. Bytes are counted, not represented: pos  *)
(* frames have been taken out of the input buffer, which holds the next    *)
(* avail bytes. libevent calls dispatch_on_websocket_read once whenever    *)
(* bytes have arrived. What the decoder reads after it lost the frame      *)
(* boundary is arbitrary, so the input of a behaviour ends there (InSync). *)
(*                                                                         *)
(* The header calls hooks under names that it does not declare             *)
(* (handle_websocket_message, handle_websocket_disconnect); they are taken *)
(* to be the virtual functions on_websocket_message and                    *)
(* in_websocket_disconnect. Functions of the subclass nest; stack has them *)
(* top first ("own": a function that runs on an event of the subclass).    *)
(***************************************************************************)
EXTENDS Naturals, Sequences, SequencesExt, WebSocketLength

CONSTANTS
  Frames,    \* frames the peer may send
  MaxFrames, \* bound on the number of frames sent
  MaxEarly,  \* bound on the bytes that come with the upgraded request
  MaxDepth,  \* bound on the nesting of functions of the subclass
  SizeT      \* size_t is an integer modulo this (2^64 in the program)

Data    == {"text", "binary", "cont"}   \* opcodes 1-7, and 0 (continuation)
Control == {"close", "ping", "pong", "reserved"}   \* 8, 9, A, and B-F

(* ext: bytes of the extended length field; size: length of the payload.   *)
FrameType == [op : Data \cup Control, fin : BOOLEAN, masked : BOOLEAN,
              ext : {0, 2, 8}, size : 0..(SizeT - 1)]

ASSUME ConstantsAssumption ==
  /\ SizeT \in Nat /\ SizeT > 14
  /\ Frames \subseteq FrameType
  /\ MaxFrames \in Nat /\ MaxEarly \in Nat
  /\ MaxDepth \in Nat \ {0}

VARIABLES
  conn,      \* http; ws (in bev_to_websocket_client); off (erased); freed
  held,      \* the subclass keeps a shared_ptr<WebSocketClient>
  stream,    \* the frames the peer sends; never changes
  pos,       \* number of frames taken
  avail,     \* bytes in the input buffer
  called,    \* libevent has called dispatch_on_websocket_read
  broken,    \* end of file or an error has been reported
  reading,   \* on_websocket_read is handling stream[pos], and holds c
  stack,     \* functions of the subclass that run
  rehashed,  \* how many of them, from the bottom, ran when another client
             \* was put into bev_to_websocket_client and it was rehashed
  pendingOp, \* ws_pending_opcode ("none" for 0xFF)
  pending,   \* ws_pending_data, as the list of frames it came from
  unsent,    \* replies in the output buffer
  fault,     \* undefined behaviour or an exception that left a callback
  \* History, for the properties:
  delivered, \* messages handed to handle_websocket_message
  told,      \* number of handle_websocket_disconnect calls (2: 2 or more)
  cause      \* what the subclass and the network did, from Causes

inputVars   == <<stream, pos, avail, called, broken>>
messageVars == <<pendingOp, pending, delivered>>
hookVars    == <<stack, rehashed>>
vars == <<conn, held, inputVars, reading, hookVars, messageVars, unsent, fault,
          told, cause>>

(* keep:      a held client was erased, and libevent calls back for it     *)
(* twice:     disconnect_websocket_client is called for an erased client   *)
(* reenter:   it is called from handle_websocket_disconnect                *)
(* throw:     a hook throws                                                *)
(* coalesced: one read brought the end of more than one frame              *)
Causes == {"keep", "twice", "reenter", "throw", "coalesced"}

TypeOK ==
  /\ conn \in {"http", "ws", "off", "freed"}
  /\ held \in BOOLEAN
  /\ stream \in SeqOf(Frames, MaxFrames)
  /\ pos \in 0..Len(stream)
  /\ avail \in Nat
  /\ called \in BOOLEAN
  /\ broken \in BOOLEAN
  /\ reading \in BOOLEAN
  /\ stack \in SeqOf({"own", "message", "disconnect"}, MaxDepth)
  /\ rehashed \in 0..Len(stack)
  /\ pendingOp \in ({"none"} \cup Data) \ {"cont"}
  /\ pending \in Seq(1..pos)
  /\ unsent \in Seq({"close", "pong"})
  /\ fault \in {"none", "escaped", "bad_iterator"}
  /\ delivered \in Seq([op : Data \ {"cont"}, parts : Seq(1..pos)])
  /\ told \in 0..2
  /\ cause \subseteq Causes

-----------------------------------------------------------------------------
Header(f) == 2 + f.ext + (IF f.masked THEN 4 ELSE 0)

Length(f) == Header(f) + f.size

Huge(f) == Length(f) >= SizeT

(* Mutant: a frame is complete once there is more than that.               *)
Complete_Strict(f, a) ==
  /\ a >= 2
  /\ f.ext > 0 => a >= 2 + f.ext
  /\ a > Length(f) % SizeT

(* With a bytes of input that start with frame f, on_websocket_read finds  *)
(* the length field, and a complete frame (the sum is one of size_t).      *)
Complete(f, a) ==
  /\ a >= 2
  /\ f.ext > 0 => a >= 2 + f.ext
  /\ a >= Length(f) % SizeT

(* Mutant: the extended length is not a part of the drained header.        *)
Removed_LengthTwice(f) ==
  Header(f) + f.ext + (IF f.masked THEN 4 ELSE 0) + f.size

(* What it removes: the mask key is a part of the drained header, and the  *)
(* next four bytes are removed and used as the key.                        *)
Removed(f) == Header(f) + (IF f.masked THEN 4 ELSE 0) + f.size

(* Mutant: the client is not looked up.                                    *)
Taken_AnyClient(f, a) == ~Huge(f) /\ a >= Removed(f)

(* Taking a complete frame out fails if the client has been erased, if the *)
(* payload is too long for a string and if too few bytes are left.         *)
Taken(f, a) == conn = "ws" /\ ~Huge(f) /\ a >= Removed(f)

(* Bytes that the peer sends and that have not arrived.                    *)
Flight ==
  FoldLeft(LAMBDA s, f : s + Length(f), 0,
           SubSeq(stream, pos + 1, Len(stream))) - avail

InSync == \A i \in 1..pos : ~stream[i].masked

(* The connection when the subclass does or does not hold the client and   *)
(* functions s run: the last shared_ptr frees the evhttp_connection and    *)
(* with it the bufferevent.                                                *)
Remains(status, h, s) ==
  IF /\ status = "off"
     /\ ~h
     /\ s # <<>> => ~reading /\ "disconnect" \notin Range(s)
  THEN "freed"
  ELSE status

Idle == fault = "none" /\ ~reading /\ stack = <<>>

InHook(hook) == fault = "none" /\ stack # <<>> /\ Head(stack) = hook

Handling(ops) ==
  fault = "none" /\ reading /\ stack = <<>> /\ stream[pos].op \in ops

Fault(what) ==
  /\ fault' = what
  /\ UNCHANGED <<conn, held, inputVars, reading, hookVars, messageVars, unsent,
                 told>>

(* Mutant: the entry is erased before the hook is called, too.             *)
Disconnect_ErasesFirst ==
  /\ conn' = "off"
  /\ stack' = <<"disconnect">> \o stack
  /\ told' = IF told < 2 THEN told + 1 ELSE 2
  /\ UNCHANGED <<held, inputVars, reading, rehashed, messageVars, fault>>

(* disconnect_websocket_client uses the entry it looked up without a check *)
(* that it was found.                                                      *)
Disconnect ==
  \/ /\ conn = "ws"
     /\ stack' = <<"disconnect">> \o stack
     /\ told' = IF told < 2 THEN told + 1 ELSE 2
     /\ UNCHANGED <<conn, held, inputVars, reading, rehashed, messageVars,
                    fault>>
  \/ /\ conn # "ws"
     /\ fault' = "bad_iterator"
     /\ UNCHANGED <<conn, held, inputVars, reading, hookVars, messageVars,
                    told>>

(* The entry that disconnect_websocket_client looked up is still there,    *)
(* and the map has not been rehashed since.                                *)
IteratorIsValid == conn = "ws" /\ Len(stack) > rehashed

-----------------------------------------------------------------------------
(* Bound: nothing follows a huge frame, which the decoder never gets past. *)
Init ==
  /\ conn = "http"
  /\ held = FALSE
  /\ stream \in SeqOf(Frames, MaxFrames)
  /\ \A i \in 1..(Len(stream) - 1) : ~Huge(stream[i])
  /\ pos = 0
  /\ avail = 0
  /\ called = FALSE
  /\ broken = FALSE
  /\ reading = FALSE
  /\ stack = <<>>
  /\ rehashed = 0
  /\ pendingOp = "none"
  /\ pending = <<>>
  /\ unsent = <<>>
  /\ fault = "none"
  /\ delivered = <<>>
  /\ told = 0
  /\ cause = {}

(* enable_websockets with a request that asks for it, behind which n bytes *)
(* are in the input buffer already; the subclass keeps the shared_ptr it   *)
(* returns or not. No hook is called, and no callback for those bytes.     *)
EnableWebsockets(n) ==
  /\ Idle
  /\ conn = "http"
  /\ n <= MaxEarly
  /\ conn' = "ws"
  /\ held' \in BOOLEAN
  /\ avail' = n
  /\ UNCHANGED <<stream, pos, called, broken, reading, hookVars, messageVars,
                 unsent, fault, told, cause>>

(* n bytes arrive, which do not yet complete a frame.                      *)
ReadPart(n) ==
  /\ Idle /\ InSync /\ pos < Len(stream)
  /\ conn \in {"ws", "off"}
  /\ ~broken
  /\ ~Complete(stream[pos + 1], avail + n)
  /\ avail' = avail + n
  /\ called' = TRUE
  /\ UNCHANGED <<conn, held, stream, pos, broken, reading, hookVars,
                 messageVars, unsent, fault, told, cause>>

(* n bytes arrive and there is a complete frame.                           *)
ReadFrame(n) ==
  LET f == stream[pos + 1]
      rest == avail + n - Length(f)
      taken == Taken(f, avail + n)
  IN /\ Idle /\ InSync /\ pos < Len(stream)
     /\ conn \in {"ws", "off"}
     /\ ~broken
     /\ Complete(f, avail + n)
     /\ pos' = pos + 1
     /\ avail' = IF taken THEN avail + n - Removed(f) ELSE 0
     /\ called' = TRUE
     /\ reading' = taken
     /\ fault' = IF taken THEN "none" ELSE "escaped"
     /\ cause' = cause \cup {x \in {"keep"} : conn = "off"}
                       \cup {x \in {"coalesced"} :
                               /\ pos + 2 <= Len(stream)
                               /\ rest >= Length(stream[pos + 2])}
     /\ UNCHANGED <<conn, held, stream, broken, hookVars, messageVars, unsent,
                    told>>

(* The read callback is over and its c is gone; the client is still in     *)
(* the map.                                                                *)
ReadReturns ==
  /\ reading' = FALSE
  /\ UNCHANGED <<conn, held, inputVars, hookVars, fault, told, cause>>

IgnorePong ==
  /\ Handling({"pong"})
  /\ ReadReturns
  /\ UNCHANGED <<messageVars, unsent>>

AnswerClose ==
  /\ Handling({"close"})
  /\ unsent' = Append(unsent, "close")
  /\ Disconnect
  /\ UNCHANGED cause

AnswerPing ==
  /\ Handling({"ping"})
  /\ unsent' = Append(unsent, "pong")
  /\ ReadReturns
  /\ UNCHANGED messageVars

RefuseControl ==
  /\ Handling({"reserved"})
  /\ Disconnect
  /\ UNCHANGED <<unsent, cause>>

(* Mutant: a continuation frame may come first.                            *)
Continues_Lenient == pendingOp # "none" => stream[pos].op = "cont"

Continues == (pendingOp # "none") = (stream[pos].op = "cont")

RefuseData ==
  /\ Handling(Data)
  /\ ~Continues
  /\ Disconnect
  /\ UNCHANGED <<unsent, cause>>

SaveData ==
  /\ pendingOp' = IF stream[pos].op = "cont" THEN pendingOp ELSE stream[pos].op
  /\ pending' = Append(pending, pos)

AppendData ==
  /\ Handling(Data)
  /\ Continues
  /\ ~stream[pos].fin
  /\ SaveData
  /\ ReadReturns
  /\ UNCHANGED <<delivered, unsent>>

DeliverMessage ==
  /\ Handling(Data)
  /\ Continues
  /\ stream[pos].fin
  /\ SaveData
  /\ delivered' = Append(delivered, [op |-> pendingOp', parts |-> pending'])
  /\ stack' = <<"message">>
  /\ UNCHANGED <<conn, held, inputVars, reading, rehashed, unsent, fault, told,
                 cause>>

(* dispatch_on_websocket_error with BEV_EVENT_ERROR or BEV_EVENT_EOF (it   *)
(* ignores other events); input may still come after a write error.        *)
ErrorEvent ==
  /\ Idle
  /\ conn \in {"ws", "off"}
  /\ ~broken
  /\ broken' \in BOOLEAN
  /\ cause' = cause \cup {x \in {"keep"} : conn = "off"}
  /\ \/ /\ conn = "ws"
        /\ stack' = <<"disconnect">>
        /\ told' = IF told < 2 THEN told + 1 ELSE 2
        /\ UNCHANGED fault
     \/ /\ conn = "off"
        /\ fault' = "bad_iterator"
        /\ UNCHANGED <<stack, told>>
  /\ UNCHANGED <<conn, held, stream, pos, avail, called, reading, rehashed,
                 messageVars, unsent>>

(* The output buffer is written to the socket.                             *)
Flush ==
  /\ Idle
  /\ conn \in {"ws", "off"}
  /\ unsent # <<>>
  /\ unsent' = <<>>
  /\ UNCHANGED <<conn, held, inputVars, reading, hookVars, messageVars, fault,
                 told, cause>>

(* The function on top of the stack ends.                                  *)
Pop ==
  /\ stack' = Tail(stack)
  /\ rehashed' = IF rehashed = Len(stack) THEN rehashed - 1 ELSE rehashed

(* Mutant: ws_pending_data is not cleared after a message.                 *)
MessageReturns_KeepsData ==
  /\ InHook("message")
  /\ Pop
  /\ conn' = Remains(conn, held, <<>>)
  /\ reading' = FALSE
  /\ pendingOp' = "none"
  /\ UNCHANGED <<held, inputVars, pending, delivered, unsent, fault, told,
                 cause>>

(* handle_websocket_message returns; the pending frame is reset, in a      *)
(* client that may have been erased meanwhile, and the callback ends.      *)
MessageReturns ==
  /\ InHook("message")
  /\ Pop
  /\ conn' = Remains(conn, held, <<>>)
  /\ reading' = FALSE
  /\ pendingOp' = "none"
  /\ pending' = <<>>
  /\ UNCHANGED <<held, inputVars, delivered, unsent, fault, told, cause>>

(* handle_websocket_message throws. Nothing catches it.                    *)
MessageThrows ==
  /\ InHook("message")
  /\ Fault("escaped")
  /\ cause' = cause \cup {"throw"}

(* Mutant: the entry stays in the map.                                     *)
DisconnectReturns_KeepsEntry ==
  /\ InHook("disconnect")
  /\ Pop
  /\ reading' = (reading /\ Tail(stack) # <<>>)
  /\ UNCHANGED <<conn, held, inputVars, messageVars, unsent, fault, told,
                 cause>>

(* handle_websocket_disconnect returns and the entry is erased through the *)
(* iterator of the lookup. When libevent called, the callback ends.        *)
DisconnectReturns ==
  /\ InHook("disconnect")
  /\ \/ /\ IteratorIsValid
        /\ Pop
        /\ conn' = Remains("off", held, Tail(stack))
        /\ reading' = (reading /\ Tail(stack) # <<>>)
        /\ UNCHANGED <<held, inputVars, messageVars, unsent, fault, told>>
     \/ /\ ~IteratorIsValid
        /\ Fault("bad_iterator")
  /\ UNCHANGED cause

(* It throws: through libevent, or into the function of the subclass that  *)
(* called disconnect_websocket_client, with the entry still in the map.    *)
DisconnectThrows ==
  /\ InHook("disconnect")
  /\ \/ /\ Tail(stack) # <<>>
        /\ Pop
        /\ UNCHANGED <<conn, held, inputVars, reading, messageVars, unsent,
                       fault, told>>
     \/ /\ Tail(stack) = <<>>
        /\ Fault("escaped")
  /\ cause' = cause \cup {"throw"}

(* The subclass runs on an event of its own, such as a timer.              *)
AppEvent ==
  /\ Idle
  /\ stack' = <<"own">>
  /\ UNCHANGED <<conn, held, inputVars, reading, rehashed, messageVars, unsent,
                 fault, told, cause>>

AppReturns ==
  /\ InHook("own")
  /\ Pop
  /\ conn' = Remains(conn, held, Tail(stack))
  /\ UNCHANGED <<held, inputVars, reading, messageVars, unsent, fault, told,
                 cause>>

(* The subclass keeps the shared_ptr that its hook was given.              *)
AppHolds ==
  /\ InHook("message") \/ InHook("disconnect")
  /\ held' = TRUE
  /\ UNCHANGED <<conn, inputVars, reading, hookVars, messageVars, unsent,
                 fault, told, cause>>

AppDrops ==
  /\ fault = "none" /\ stack # <<>>
  /\ held
  /\ held' = FALSE
  /\ conn' = Remains(conn, FALSE, stack)
  /\ UNCHANGED <<inputVars, reading, hookVars, messageVars, unsent, fault, told,
                 cause>>

(* The subclass upgrades a request that it kept, on another connection:    *)
(* emplace invalidates all iterators if it rehashes the map, which makes a *)
(* difference while handle_websocket_disconnect runs.                      *)
AppUpgradesAnother ==
  /\ InHook("disconnect")
  /\ IteratorIsValid
  /\ rehashed' = Len(stack)
  /\ UNCHANGED <<conn, held, inputVars, reading, stack, messageVars, unsent,
                 fault, told, cause>>

(* The subclass calls disconnect_websocket_client.                         *)
AppDisconnects ==
  /\ fault = "none" /\ stack # <<>>
  /\ conn # "http"
  /\ Len(stack) < MaxDepth
  /\ Disconnect
  /\ UNCHANGED unsent
  /\ cause' = cause
       \cup {x \in {"twice"} : conn # "ws"}
       \cup {x \in {"reenter"} : conn = "ws" /\ "disconnect" \in Range(stack)}

Next ==
  \/ \E n \in 0..Flight : EnableWebsockets(n)
  \/ \E n \in 1..Flight : ReadPart(n)
  \/ \E n \in 1..Flight : ReadFrame(n)
  \/ IgnorePong \/ AnswerClose \/ AnswerPing \/ RefuseControl
  \/ RefuseData \/ AppendData \/ DeliverMessage
  \/ ErrorEvent \/ Flush
  \/ MessageReturns \/ MessageThrows
  \/ DisconnectReturns \/ DisconnectThrows
  \/ AppEvent \/ AppReturns \/ AppHolds \/ AppDrops
  \/ AppDisconnects \/ AppUpgradesAnother

Spec == Init /\ [][Next]_vars

-----------------------------------------------------------------------------
(* j is the first data frame after frame i, or of all if i is 0.           *)
Follows(i, j) ==
  /\ i < j
  /\ stream[j].op \in Data
  /\ \A k \in (i + 1)..(j - 1) : stream[k].op \notin Data

(* RFC 6455's rule, which the server enforces: a continuation frame comes  *)
(* after a data frame that is not the last of its message, and only there. *)
Legal(i, j) == (stream[j].op = "cont") = (i > 0 /\ ~stream[i].fin)

(* The first n frames of a message, after frame i.                         *)
Fragments(i, s, op, fin) ==
  /\ s # <<>>
  /\ Follows(i, s[1]) /\ \A k \in 1..(Len(s) - 1) : Follows(s[k], s[k + 1])
  /\ op = stream[s[1]].op /\ op # "cont"
  /\ \A k \in 2..Len(s) : stream[s[k]].op = "cont"
  /\ \A k \in 1..Len(s) : stream[s[k]].fin <=> fin /\ k = Len(s)

(* The last frame of message k - 1.                                        *)
Before(k) == IF k = 1 THEN 0 ELSE Last(delivered[k - 1].parts)

(* The last frame that is a part of a message.                             *)
Used ==
  IF pending = <<>> THEN Before(Len(delivered) + 1) ELSE Last(pending)

(* Whatever control frames come between them, however the bytes arrive and *)
(* whatever hooks do: between callbacks the messages delivered, and then   *)
(* the pending one, are all the data frames taken so far, in order, up to  *)
(* the first that is out of place; each message has the opcode of its      *)
(* first frame and ends with the FIN bit.                                  *)
MessagesAssembled ==
  TypeOK /\ (Idle =>
    /\ \A k \in 1..Len(delivered) :
         Fragments(Before(k), delivered[k].parts, delivered[k].op, TRUE)
    /\ IF pending = <<>> THEN pendingOp = "none"
       ELSE Fragments(Before(Len(delivered) + 1), pending, pendingOp, FALSE)
    /\ \A j \in 1..pos : Follows(Used, j) => ~Legal(Used, j))

(* A peer that breaks the fragmentation rule, or uses a reserved control   *)
(* opcode, is out of the map before the next callback.                     *)
ViolatorsLeave ==
  Idle /\ conn = "ws" =>
    /\ \A i \in 0..pos, j \in 1..pos :
         (i > 0 => stream[i].op \in Data) /\ Follows(i, j) => Legal(i, j)
    /\ \A i \in 1..pos : stream[i].op # "reserved"

(* A complete frame waits in the input buffer, with no callback to come if *)
(* the peer is silent, only after one read brought the end of two frames,  *)
(* or if it came with the request that was upgraded.                       *)
NoStall ==
  Idle /\ conn = "ws" /\ InSync /\ pos < Len(stream)
    /\ avail >= Length(stream[pos + 1])
  => "coalesced" \in cause \/ ~called

(* The client is told once that it was disconnected, unless its hook       *)
(* re-enters or throws.                                                    *)
DisconnectHookOnce == told > 1 => cause \cap {"reenter", "throw"} # {}

(* The lookups of disconnect_websocket_client, which are not checked, and  *)
(* the iterator that it keeps across handle_websocket_disconnect are right *)
(* unless the subclass disconnects a client twice, or keeps the shared_ptr *)
(* of a disconnected one in the event loop, or another request was upgraded*)
(* while a hook that still runs was running.                               *)
NoBadIterator ==
  fault = "bad_iterator" =>
    rehashed > 0 \/ cause \cap {"keep", "twice", "reenter"} # {}

(* An exception leaves a libevent callback only because a hook threw, or   *)
(* libevent called for an erased client, or the frame was masked or huge.  *)
EscapesExplained ==
  fault = "escaped" =>
    \/ cause \cap {"keep", "throw"} # {}
    \/ stream[pos].masked \/ Huge(stream[pos])

(* A frame that the server sends to a client (send_websocket_message) is   *)
(* one that it would read itself, unless the payload has between 126 and   *)
(* 65535 bytes.                                                            *)
SentLengthsReadBack == conn = "ws" => AllSizesReadBack

(* Once the client is erased the server delivers and answers nothing more, *)
(* although libevent may go on calling it.                                 *)
SilentAfterDisconnect ==
  [][told > 0 /\ conn # "ws" => /\ delivered' = delivered
                                /\ Len(unsent') <= Len(unsent)]_vars

(* Unlike what the header says (lines 153-154, 164 and 172): a complete    *)
(* masked frame is read and unmasked; ...                                  *)
MaskedFrameIsRead ==
  fault = "escaped" =>
    cause \cap {"keep", "throw"} # {} \/ Huge(stream[pos])

(* ... a close frame is answered: the reply is sent before the connection  *)
(* is freed.                                                               *)
CloseIsAnswered == conn = "freed" => "close" \notin Range(unsent)
=============================================================================
