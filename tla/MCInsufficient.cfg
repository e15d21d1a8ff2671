\* The exception for insufficient data.
CONSTANTS
  Bound = 3
  MaxLen = 5
  MaxTaken = 20
  SizeT = 8
SPECIFICATION Spec
INVARIANT
  InsufficientMeansTooFew
CHECK_DEADLOCK FALSE
