SPECIFICATION Spec
CONSTANTS
  TrimAt = 6
  Keep = 4
  MaxIter = 3
  MaxCalls = 2
  MaxCuts = 2
  OnePerCall = TRUE
INVARIANTS ToolsFollow UncutAnswered UncutTrimmed
PROPERTIES Recovers
