SPECIFICATION FairDiscoverySpec
CONSTANTS
  numDisplays <- TwoByOne
  windowSize <- OneByOne
  bezelWidth <- OneByOne
  Clients = {c1, c2}
  HostOf <- Hosts
  PortOf <- Ports
  Magic = 77
  controlWindowSize <- TwoByOne
  Garbage = {0, 1}
INVARIANTS
  DiscoveryTypeOK
  ClientsFindTheService
PROPERTIES
  OnlyAnEndDisconnects
  EveryRequestEnds
CHECK_DEADLOCK FALSE
