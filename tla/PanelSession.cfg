SPECIFICATION Spec
CONSTANTS
  Pads = {p1, p2}
  NoPad = NoPad
  MaxPads = 1
  Moves <- MCMoves
  MaxEvents = 1
  Forms <- MCForms
  Machines <- MCMachines
  Clients = {c1, c2}
  MaxAttempts = 2
INVARIANTS
  NothingOfAnother
  TheTrayTellsTheTruth
  PadsAreTheHands
PROPERTIES
  StoppedStaysStopped
  SessionsEnd
