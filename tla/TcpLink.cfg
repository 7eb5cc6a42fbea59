CONSTANTS
  MaxMessages = 4
  Sizes = {1, 3, 4}
  Capacity = 2
  WireCap = 4
  ReadMax = 2
  MaxBuffer = 2
SPECIFICATION Spec
CHECK_DEADLOCK FALSE
INVARIANTS
  TypeOK
  CutHasCause
PROPERTIES
  ImplementsLink
  Arrives
