----------------------- MODULE MCWebSocketConnection -----------------------
(* Instances of WebSocketConnection for TLC.                               *)
EXTENDS WebSocketConnection

Frame(op, fin, masked, ext, size) ==
  [op |-> op, fin |-> fin, masked |-> masked, ext |-> ext, size |-> size]

(* Messages whole and in fragments, every control frame, every width of    *)
(* the length field; a masked frame, and one whose size and header exceed  *)
(* size_t.                                                                 *)
MixedFrames == {
  Frame("text", FALSE, FALSE, 0, 1), Frame("binary", TRUE, FALSE, 2, 0),
  Frame("cont", FALSE, FALSE, 0, 0), Frame("cont", TRUE, FALSE, 0, 0),
  Frame("close", TRUE, FALSE, 0, 0), Frame("ping", TRUE, FALSE, 0, 0),
  Frame("reserved", TRUE, FALSE, 0, 0), Frame("pong", TRUE, TRUE, 0, 0),
  Frame("text", TRUE, FALSE, 8, SizeT - 10)}

(* Sizes on both sides of every limit, up to 2^64 - 1.                     *)
LimitBytes == {0, 1, 125, 126, 255}
=============================================================================
