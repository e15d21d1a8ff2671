\* Masked frames.
CONSTANTS
  Frames <- MixedFrames
  MaxFrames = 1
  MaxEarly = 2
  MaxDepth = 1
  SizeT = 16
  Bytes <- LimitBytes
SPECIFICATION Spec
INVARIANT
  MaskedFrameIsRead
CHECK_DEADLOCK FALSE
