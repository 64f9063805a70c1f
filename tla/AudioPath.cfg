SPECIFICATION AudioSpec
CONSTANTS
  TargetFrames = 5
  SecondFrames = 5
  SixtyFrames = 1
  TenFrames = 1
  Outputs = {0, 3}
  Chunks = {0, 1, 4}
  Pulls = {1, 3}
  Depth = 2
  MaxAudioPackets = 6
INVARIANTS
  TheNewestAreKept
  ChannelsKeepTheirPlace
PROPERTIES
  EverythingIsRecorded
  PlaybackStarts
CHECK_DEADLOCK FALSE
