SPECIFICATION FairSpec
CONSTANTS
  a1 = a1
  a2 = a2
  Agents <- TwoAgents
  MaxTurn = 2
  MaxIter = 1
  MaxCommands = 0
  ServerTimeout = FALSE
  LossyLinks = TRUE
CHECK_DEADLOCK FALSE
PROPERTIES
  GameAdvances
