SPECIFICATION Spec
CONSTANTS
  c1 = c1
  c2 = c2
  Conns <- OneConn
  Limit = 1
  MaxSent = 3
  MaxWritten = 3
  Oversize = FALSE
INVARIANTS UpstreamInOrder
PROPERTIES DownRefined
CHECK_DEADLOCK FALSE
