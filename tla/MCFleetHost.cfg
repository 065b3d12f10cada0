SPECIFICATION FleetHostSpec
CONSTANTS
  Launches = {p1, p2}
  Chunks = 2
  Legacy <- OldChunks
  MaxFaults = 1
  Wrappers = {v1, v2, v3}
  MaxSignals = 2
  MaxWorkers = 2
  Games <- SmallGames
  CacheLimit = 2
  MaxFailures = 2
INVARIANTS
  CompleteHasAll
  OnePipeline
  DeliversWhole
  RunsAlone
  SeedsAccounted
  OwnRows
PROPERTIES
  CatalogDelivered
CHECK_DEADLOCK FALSE
