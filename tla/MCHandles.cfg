\* Callers that may do anything with the objects.
CONSTANTS
  Class <- AllClasses
  Obj = {o1, o2, o3}
  Res = {r1, r2, ext}
  Ext = {ext}
  Null = Null
  NoObj = NoObj
SPECIFICATION Spec
SYMMETRY Symmetry
INVARIANTS
  OneOwner
  OwnersLive
  NoBadFree
  NoLeak
  CallbackReachesOwner
PROPERTY
  ImplementsUniqueOwner
CHECK_DEADLOCK FALSE
