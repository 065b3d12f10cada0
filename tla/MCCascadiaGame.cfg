SPECIFICATION Spec
CONSTANTS
  Players = 2
  TurnsPerPlayer = 2
  Solo = FALSE
  Supply <- TightSupply
  TileCount = 8
  WipeLimit = 1
INVARIANTS
  TokenConservation
  SupplyNeverRunsDry
  NoEngineErrors
  WipeCanResolve
  TurnLedger
PROPERTIES
  FailedCallIsFree
  OneTurnOfTheMover
CHECK_DEADLOCK FALSE
