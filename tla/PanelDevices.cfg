SPECIFICATION DevicesSpec
SYMMETRY Alike
CONSTANTS
  Serials = {d1, d2}
  None = None
  Other = Other
  Scans = {s1, s2}
  Profiles = {f1, f2, f3}
INVARIANTS
  SaveWritesItsOwn
PROPERTIES
  SessionGoesToTheTick
  TicksAreKept
