SPECIFICATION FairSpec
CONSTANTS
  c1 = c1
  c2 = c2
  Clients = {c1, c2}
  NumDisplays = 2
  Touches <- TwoClientsTouches
  LastFrame = 3
  MaxFramesInFlight = 2
INVARIANTS
  TypeOK
  NobodyRunsAhead
PROPERTIES
  EveryDisplayIsFed
  ImplementsWallService
  OnlyRewindStopsTheWall
CHECK_DEADLOCK FALSE
