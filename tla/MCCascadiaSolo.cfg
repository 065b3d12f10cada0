SPECIFICATION Spec
CONSTANTS
  Players = 1
  TurnsPerPlayer = 2
  Solo = TRUE
  Supply <- SoloSupply
  TileCount = 9
  WipeLimit = 1
INVARIANTS
  NoEngineErrors
PROPERTIES
  CallReturns
CHECK_DEADLOCK FALSE
