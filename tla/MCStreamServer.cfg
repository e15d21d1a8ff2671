\* A subclass that may break every rule.
CONSTANTS
  Client = {c1, c2}
  NoClient = NoClient
  Addr = {a1, a2}
  NoAddr = NoAddr
  MaxDepth = 3
  Obeys = {}
SPECIFICATION Spec
SYMMETRY Symmetry
INVARIANTS
  NoDoubleFree
  NoStaleErase
  MapKeysLive
  EmplaceInserts
  NoLeak
  DisconnectHookOnce
  DisconnectHookAfterConnect
  DisconnectIsFinal
  NoLateEvent
PROPERTY
  ErasedByItsOwnDisconnect
CHECK_DEADLOCK FALSE
