SPECIFICATION CapSpec
CONSTANTS
  s1 = s1
  s2 = s2
  s3 = s3
  t1 = t1
  t2 = t2
  t3 = t3
  home = home
  office = office
  Socket <- MCSockets
  Ip <- MCIps
  IpOf <- MCIpOf
  MaxPerIp = 2
  Errors <- MCHome
  EarlyEnds <- MCOffice
SYMMETRY MCSymmetry
INVARIANTS
  CapTypeOK
  CapRespected
PROPERTY
  RefusedOnlyAtCap
