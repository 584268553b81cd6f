SPECIFICATION FairSpec
CONSTANTS
  c1 = c1
  c2 = c2
  wide = wide
  bezel = bezel
  other = other
  Clients <- TheClients
  Leavers = {c2}
  NumDisplays = 2
  Threads = {k1, k2}
  Tile <- TheTiles
  From <- TheSenders
  Reach <- TheReach
  DataParts = 1
  PipeSize = 1
  Nothing = Nothing
  MadeUp = MadeUp
INVARIANTS
  TypeOK
  NoCoreIdles
PROPERTIES
  ImplementsNetwork
  TilesGetThrough
CHECK_DEADLOCK FALSE
