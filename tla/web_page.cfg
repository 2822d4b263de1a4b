SPECIFICATION FairSpec
CONSTANTS
  XSize = 4
  YSize = 4
  WrapX = FALSE
  WrapY = FALSE
  Iso = FALSE
  Hex = FALSE
  W = 4
  H = 2
  NoTile = NoTile
  NoOrigin = NoOrigin
  NoOne = NoOne
CHECK_DEADLOCK FALSE
INVARIANTS
  ViewsSound SessionSound TablesSound SpritesSound ResearchSound
PROPERTIES
  ObserverAsks
