\* A server of either class, its sockets and one connection; URL parameters.
CONSTANTS
  Class = {"StreamServer", "HTTPServer"}
  Fd = {f1}
  Socket = {s1, s2}
  NoSocket = NoSocket
  MaxListeners = 2
  Conn = {c1}
  Code = {200, 299}
  MaxResponses = 2
  SizeT = 256
  Values <- ShortValues
  Forms <- SmallForms
SPECIFICATION Spec
INVARIANTS
  ServedAsPromised
  RequestsSafe
  ConnsFreedOnce
  MapConnsLive
  UrlParamsDecoded
PROPERTY
  ImplementsExchange
CHECK_DEADLOCK FALSE
