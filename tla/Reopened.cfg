SPECIFICATION Spec
CONSTANTS
  s1 = s1
  s2 = s2
  s3 = s3
  d1 = d1
  d2 = d2
  c1 = c1
  c2 = c2
  NoGroup = NoGroup
  Unknown = Unknown
  Socket <- MCTwo
  KeyOrder <- MCKeyOrder
  DeviceOf <- MCDevices
  Sizes = {1}
  HostPhases <- MCHostPhases
  Command <- MCCommands
  CommandsOverlap = TRUE
  AttachesOverlap = FALSE
  Faults = FALSE
PROPERTY
  ClosedIsFinal
