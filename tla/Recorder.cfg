SPECIFICATION Spec
CONSTANTS
  VideoFeeds <- MCVideoFeeds
  AudioFeeds <- MCAudioFeeds
  Tick = 2
INVARIANTS
  NothingAcceptedIsLost
  TimestampsAreInOrder
PROPERTIES
  StopEndsTheFile
