SPECIFICATION Spec
CONSTANTS
  a = a
  b = b
  c = c
  d = d
  NoGroup = NoGroup
  MaxTime = 2
  Person <- MCPerson
  KeyOrder <- MCKeyOrder
  Sizes <- MCSizes
INVARIANT LoopMatchesPosition
