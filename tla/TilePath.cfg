SPECIFICATION FairSpec
CONSTANTS
  numDisplays <- ThreeByTwo
  windowSize <- TwoByOne
  bezelWidth <- OneByOne
  Tilings <- FourGrids
  MaxSlack = 1
INVARIANTS
  TypeOK
  EveryPixelCountsOnce
  ScreenShowsImage
PROPERTIES
  EveryScreenFills
CHECK_DEADLOCK FALSE
