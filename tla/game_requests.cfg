SPECIFICATION Spec
CONSTANTS
  a = a
  b = b
  Names <- TwoNames
  Configs <- Games
  MaxRequests = 3
  AtOnce = 2
CHECK_DEADLOCK FALSE
INVARIANTS NoStrayClient NoStrayServer OneLoopEach SameServer
PROPERTY DeleteClears
