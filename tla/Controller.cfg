SPECIFICATION ControlSpec
CONSTANTS
  Pushers = {loop, transfer}
  QUEUE_LIMIT = 2
  MaxPushes = 2
INVARIANTS
  NothingVanishes
PROPERTIES
  AcceptedIsSent
