SPECIFICATION FairSpec
CONSTANTS
  t1 = t1
  t2 = t2
  t3 = t3
  left = left
  middle = middle
  right = right
  Threads = {t1, t2}
  Tiles = {left, right}
  Region <- TwoTilesRegion
  Cover <- TwoTilesCover
  LastFrame = 1
  MaxFramesInFlight = 1
PROPERTIES
  DeferredUntilStarted
CHECK_DEADLOCK FALSE
