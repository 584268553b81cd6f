SPECIFICATION Spec
CONSTANTS
  none = none
  Consumers = {c1, c2}
  Message <- TheMessages
  FrameIDs <- TheFrames
  NoMessage = none
INVARIANTS
  TypeOK
  NothingWaitsInVain
  HandedOutOnce
  RePutKeepsOrder
PROPERTIES
  ImplementsService
