SPECIFICATION FairSpec
CONSTANTS
  NumRanks = 1
  Clients = {c1, c2}
  Strangers = {}
  MaxFramesInFlight = 1
PROPERTIES
  WaitEnds
CHECK_DEADLOCK FALSE
