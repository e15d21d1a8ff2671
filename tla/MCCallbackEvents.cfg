\* Any use of the objects, also by the functions that run.
CONSTANTS
  Obj = {o1, o2}
  Event = {e1, e2}
  Once = {k1}
  Null = Null
  NoObj = NoObj
  NoFn = NoFn
SPECIFICATION Spec
SYMMETRY Symmetry
INVARIANTS
  CallsOwnFunction
  FireIsSafe
  OnceDeleted
CHECK_DEADLOCK FALSE
