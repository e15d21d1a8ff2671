\* Any frames, any subclass.
CONSTANTS
  Frames <- MixedFrames
  MaxFrames = 3
  MaxEarly = 2
  MaxDepth = 2
  SizeT = 16
  Bytes <- LimitBytes
SPECIFICATION Spec
INVARIANTS
  MessagesAssembled
  ViolatorsLeave
  NoStall
  DisconnectHookOnce
  NoBadIterator
  EscapesExplained
  SentLengthsReadBack
PROPERTY
  SilentAfterDisconnect
CHECK_DEADLOCK FALSE
