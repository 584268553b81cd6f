SPECIFICATION FairDiscoverySpec
CONSTANTS
  numDisplays <- TwoByOne
  windowSize <- OneByOne
  bezelWidth <- OneByOne
  Clients = {c1}
  HostOf <- Hosts
  PortOf <- Ports
  Magic = 77
  controlWindowSize <- TwoByOne
  Garbage = {0, 1}
INVARIANTS
  ControlWindowAsConfigured
CHECK_DEADLOCK FALSE
