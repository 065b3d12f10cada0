SPECIFICATION EnvironmentSpec
CONSTANTS
  Cells <- Flower
  Width = 3
  Rulesets <- Uniform
  Palettes <- Mixes
  TokenCount = 5
  CountCap = 4
  Hexes <- Seven
  MaxBoardTiles = 23
  Slots = 2
  Offers <- Market
  Starters <- Cluster
  Turns = 2
INVARIANTS
  ScoreExact
  ScoresOptimal
  BoundsSound
  EnumerationExact
  RescoreExact
  RotationCommutes
CHECK_DEADLOCK FALSE
