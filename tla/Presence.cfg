SPECIFICATION Spec
CONSTANTS
  Device = {phone}
  Beat = 3
  Interval = 2
  Away = 6
  Offline = 12
  Expiry = 24
  MaxLag = 2
  MaxFaults = 1
INVARIANTS TypeOK PanelFresh BeatingIsOnline GoneIsOffline
