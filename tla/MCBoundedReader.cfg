\* A bound of three bytes and a size_t of three bits.
CONSTANTS
  Bound = 3
  MaxLen = 5
  MaxTaken = 20
  SizeT = 8
SPECIFICATION Spec
INVARIANTS
  Accounts
  NothingInPieces
CHECK_DEADLOCK FALSE
