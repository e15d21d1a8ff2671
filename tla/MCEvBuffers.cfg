\* Any calls on two buffers.
CONSTANTS
  Buf = {b1, b2}
  Mem = {m1, m2}
  Size = 2
  MaxBytes = 4
SPECIFICATION Spec
SYMMETRY Symmetry
INVARIANTS
  DataLives
  
  BytesConserved
CHECK_DEADLOCK FALSE
