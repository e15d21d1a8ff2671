\* The reply to a close frame.
CONSTANTS
  Frames <- MixedFrames
  MaxFrames = 1
  MaxEarly = 2
  MaxDepth = 1
  SizeT = 16
  Bytes <- LimitBytes
SPECIFICATION Spec
INVARIANT
  CloseIsAnswered
CHECK_DEADLOCK FALSE
