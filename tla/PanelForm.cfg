SPECIFICATION FormSpec
CONSTANTS
  Fits <- MCFits
  Expanded <- MCExpanded
  Ranges <- MCRanges
  Tilde <- MCTilde
  BareNames <- MCBareNames
  Devices = {"a", "b"}
  Typed <- MCTyped
  Together <- MCTogether
  Beside <- Filing
  Few = {"record_enabled"}
  Folders = {"", "~/Videos"}
  MaxCards = 1
INVARIANTS
  TheLineIsWhatRuns
PROPERTIES
  NothingStoredIsLost
