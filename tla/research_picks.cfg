SPECIFICATION Spec
CONSTANTS
  gone = gone
CHECK_DEADLOCK FALSE
INVARIANTS
  PicksResearchable
