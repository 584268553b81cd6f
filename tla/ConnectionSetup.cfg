SPECIFICATION FairSpec
CONSTANTS
  NumRanks = 2
  Clients = {c1, c2}
  Strangers = {x}
  MaxFramesInFlight = 2
INVARIANTS
  TypeOK
  ConnectedTogether
  NoFrameTooEarly
PROPERTIES
  RemotesFixedOnceUsed
  ImplementsSoftBarrier
  OnlyMissedNotificationStops
CHECK_DEADLOCK FALSE
