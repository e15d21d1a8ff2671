--------------------------- MODULE WebSocketLength ---------------------------
(***************************************************************************)
(* The length field of a frame, as HTTPWebSocketServer writes it           *)
(* (send_websocket_message) and as it reads it (on_websocket_read), both   *)
(* in src/HTTPWebsocketServer.hh. A size is the sequence of its eight      *)
(* bytes, high byte first, so that sizes of 64 bits can be checked.        *)
(***************************************************************************)
EXTENDS Naturals, Sequences, SequencesExt

CONSTANT Bytes   \* the bytes that sizes are made of (all 256 in the program)

ASSUME BytesAssumption == Bytes \subseteq 0..255

Sizes(bytes) == [1..8 -> bytes]

Zero(digits) == \A i \in DOMAIN digits : digits[i] = 0

(* Mutant: put_u64 and put_u32, which write the low byte first.            *)
Written_LowFirst(size) ==
  CASE ~Zero(SubSeq(size, 1, 6)) -> <<127>> \o Reverse(size)
    [] Zero(SubSeq(size, 1, 6)) /\ (size[7] > 0 \/ size[8] > 125) ->
         <<126>> \o Reverse(SubSeq(size, 5, 8))
    [] OTHER -> <<size[8]>>

(* What send_websocket_message puts after the opcode: nothing but a length *)
(* of up to 0x7D; 0x7E and a length of 32 bits; or 0x7F and one of 64.     *)
Written(size) ==
  CASE ~Zero(SubSeq(size, 1, 6)) -> <<127>> \o size
    [] Zero(SubSeq(size, 1, 6)) /\ (size[7] > 0 \/ size[8] > 125) ->
         <<126>> \o SubSeq(size, 5, 8)
    [] OTHER -> <<size[8]>>

Padded(digits) == [i \in 1..(8 - Len(digits)) |-> 0] \o digits

(* What on_websocket_read finds in bytes: the payload size, and how many   *)
(* of them belong to the header. The first one has no mask bit.            *)
Read(bytes) ==
  CASE bytes[1] = 127 -> [size |-> SubSeq(bytes, 2, 9), used |-> 9]
    [] bytes[1] = 126 -> [size |-> Padded(SubSeq(bytes, 2, 3)), used |-> 3]
    [] OTHER -> [size |-> Padded(<<bytes[1]>>), used |-> 1]

(* From 126 to 65535: the field is two bytes wider than the standard says. *)
Medium(size) ==
  Zero(SubSeq(size, 1, 6)) /\ (size[7] > 0 \/ size[8] > 125)

(* The reader takes a frame of any other size apart as it was sent. One of *)
(* a medium size it takes for an empty frame, followed by the rest of the  *)
(* length and the payload as if they were more frames.                     *)
ReadsBack(sizes) ==
  \A size \in sizes :
    LET frame == Written(size)
        found == Read(frame)
    IN IF Medium(size)
       THEN Zero(found.size) /\ found.used = Len(frame) - 2
       ELSE found.size = size /\ found.used = Len(frame)

AllSizesReadBack == ReadsBack(Sizes(Bytes))
=============================================================================
