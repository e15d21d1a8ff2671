\* The function given to call_later.
CONSTANTS
  Obj = {o1}
  Event = {e1}
  Once = {k1}
  Null = Null
  NoObj = NoObj
  NoFn = NoFn
SPECIFICATION FairSpec
PROPERTY
  CallLaterCalls
CHECK_DEADLOCK FALSE
