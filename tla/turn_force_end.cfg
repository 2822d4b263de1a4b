SPECIFICATION Spec
CONSTANTS
  a1 = a1
  a2 = a2
  Agents <- OneAgent
  MaxTurn = 2
  MaxIter = 2
  MaxCommands = 0
  ServerTimeout = FALSE
  LossyLinks = FALSE
CHECK_DEADLOCK FALSE
PROPERTIES
  ForceEndsTimedOutTurn
