SPECIFICATION FairSpec
CONSTANTS
  t1 = t1
  t2 = t2
  t3 = t3
  left = left
  middle = middle
  right = right
  Threads = {t1, t2, t3}
  Tiles = {left, middle, right}
  Region <- ThreeTilesRegion
  Cover <- ThreeTilesCover
  LastFrame = 2
  MaxFramesInFlight = 2
INVARIANTS
  TypeOK
  ThreadSafe
  FramesWholeAndInOrder
  NoTileLost
  BoundedBacklog
PROPERTIES
  FinishedFramesFrozen
  ImplementsStream
  OnlyRewindStops
CHECK_DEADLOCK FALSE
