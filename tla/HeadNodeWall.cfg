SPECIFICATION FairSpec
CONSTANTS
  left = left
  both = both
  bezel = bezel
  NumDisplays = 2
  Tiles = {left, both, bezel}
  Reach <- ThreeTilesReach
  ChannelSize = 1
  LastFrame = 2
  MaxFramesInFlight = 2
INVARIANTS
  TypeOK
  TilesPassTheHeadNode
PROPERTIES
  EveryDisplayIsFed
  OnlyRewindStopsTheWall
CHECK_DEADLOCK FALSE
