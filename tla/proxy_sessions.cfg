SPECIFICATION Spec
CONSTANTS
  c1 = c1
  c2 = c2
  Conns <- TwoConns
  Limit = 1
  MaxSent = 1
  MaxWritten = 1
  Oversize = TRUE
INVARIANTS NothingLeaks RegistryMatches
PROPERTIES HandlerEnds
CHECK_DEADLOCK FALSE
