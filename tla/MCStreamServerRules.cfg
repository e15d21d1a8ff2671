\* A subclass that keeps every rule.
CONSTANTS
  Client = {c1, c2}
  NoClient = NoClient
  Addr = {a1, a2}
  NoAddr = NoAddr
  MaxDepth = 3
  Obeys <- AllRules
SPECIFICATION DisciplinedSpec
PROPERTIES
  BrokenConnectionLeaves
  ImplementsSessions
CHECK_DEADLOCK FALSE
