SPECIFICATION FairSpec
CONSTANTS
  s1 = s1
  s2 = s2
  s3 = s3
  d1 = d1
  d2 = d2
  NoGroup = NoGroup
  Unknown = Unknown
  Socket <- MCTwo
  KeyOrder <- MCKeyOrder
  DeviceOf <- MCDevices
  Sizes <- MCSizes
  HostPhases <- MCHostPhases
  c1 = c1
  c2 = c2
  Command <- MCCommands
  CommandsOverlap = FALSE
  AttachesOverlap = FALSE
  Faults = FALSE
INVARIANTS
  TypeOK
PROPERTY RoomSpec
