SPECIFICATION Spec
CONSTANTS
  s1 = s1
  s2 = s2
  s3 = s3
  d1 = d1
  d2 = d2
  NoGroup = NoGroup
  Unknown = Unknown
  Socket <- MCThree
  KeyOrder <- MCKeyOrder
  DeviceOf <- MCReturns
  Sizes <- MCSizes
  HostPhases <- MCHostPhases
  c1 = c1
  c2 = c2
  Command <- MCCommands
  CommandsOverlap = FALSE
  AttachesOverlap = FALSE
  Faults = FALSE
SYMMETRY MCSymmetry
INVARIANTS
  NobodyLeftOut
  ScreensCurrent
