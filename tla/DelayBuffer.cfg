SPECIFICATION FairSpec
CONSTANTS
  InFlight = 2
  OutCap = 1
  MaxFrames = 6
INVARIANTS
  NoLostWakeup
  NothingLost
PROPERTIES
  ImplementsFifo
  NobodyWaitsForGood
