SPECIFICATION ApiSpec
CONSTANTS
  Collectors = {sampler, handler}
  MaxTime = 6
  Interval = 2
  Retention = 4
  Day = 2
  Compaction = 2
  MaxPoints = 1
  MaxFaults = 2
  Callers = {x, y}
  MaxCalls = 2
  MaxNoise = 1
  TotalTurns = 2
  Actions = {left, right}
  Legal <- NoRepeat
INVARIANT OpensItsOwnFile
CHECK_DEADLOCK FALSE
