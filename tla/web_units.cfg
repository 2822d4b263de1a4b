SPECIFICATION Spec
CONSTANTS
  me = me
  other = other
  none = none
  noTile = noTile
  Units = {1, 2, 3}
  Tiles = {1, 2}
  Players = {me, other}
  Me = me
  Status = {"ready", "done", "busy"}
  Start <- TwoUnits
  None = none
  NoTile = noTile
  MaxServed = 2
  MaxClicks = 2
CHECK_DEADLOCK FALSE
INVARIANTS MirrorSound FocusSound
PROPERTIES TurnsFindWork
