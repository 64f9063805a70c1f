SPECIFICATION Spec
CONSTANTS
  usb = usb
  tcp = tcp
  Serials = {usb, tcp}
  TcpSerials = {tcp}
  NoSerial = NoSerial
  Ports = {1, 2, 3}
  OptionSets <- MCOptionSets
  MaxAttempts = 3
INVARIANTS
  WhatIsUpIsWhatWasAsked
PROPERTIES
  TheWaitIsBounded
  HealthyStartsComeUp
  NothingIsLeft
