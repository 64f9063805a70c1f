SPECIFICATION Spec
CONSTANTS
  Letters = {"v", "q", "t"}
  Modifiers = {"alt", "ctrl"}
  Modes <- MCModes
  NoSession = NoSession
INVARIANTS
  NothingIsLeftHeld
  
  OnlyWhatWentDownComesUp
PROPERTIES
  GrabIsGivenBack
