SPECIFICATION MCSpec
CONSTANTS
  Sizes <- MCSizes
  Turn <- MCTurn
  Apis <- MCApis
  Kept = 2
  Holds = 1
  MaxPackets = 3
  MaxSessions = 2
  FrameRoom = 1
  PoolRoom = 1
  MaxQueued = 2
  MaxMoves = 2
INVARIANTS
  PictureIsItsOwn
  DecodedWhereItMay
PROPERTIES
  FlexSettles
  NoFrameIsKept
CHECK_DEADLOCK FALSE
