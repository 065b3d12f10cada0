SPECIFICATION FleetHostSpec
CONSTANTS
  Launches = {p1, p2}
  Chunks = 1
  Legacy = {}
  MaxFaults = 1
  Wrappers = {v1, v2}
  MaxSignals = 0
  MaxWorkers = 1
  Games <- SmallGames
  CacheLimit = 2
  MaxFailures = 0
INVARIANTS
  PublishedWhole
CHECK_DEADLOCK FALSE
