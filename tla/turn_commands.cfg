SPECIFICATION FairSpec
CONSTANTS
  a1 = a1
  a2 = a2
  Agents <- OneAgent
  MaxTurn = 3
  MaxIter = 2
  MaxCommands = 2
  ServerTimeout = TRUE
  LossyLinks = TRUE
CHECK_DEADLOCK FALSE
INVARIANTS
  NoLostWakeup
  PhaseDoneNeverAhead
  PlayingIsCurrent
PROPERTIES
  NewestCommandWins
  SignalRefined
  LeavesAfterDisconnect
  QueueDrains
