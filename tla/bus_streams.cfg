SPECIFICATION Spec
CONSTANTS
  Streams = {o1, o2}
  QueueSize = 2
  MaxHistory = 3
  Shown = 2
  MaxEvents = 5
CHECK_DEADLOCK FALSE
INVARIANTS InOrder NoGap UpToDate
PROPERTIES EventsArrive
