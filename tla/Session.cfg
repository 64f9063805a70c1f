SPECIFICATION Spec
CONSTANTS
  PoolSize = 2
  FrameRoom = 1
  PacketRoom = 1
  LineRoom = 1
  MaxPackets = 6
INVARIANTS
  PictureIsNotOverwritten
PROPERTIES
  SessionEnds
