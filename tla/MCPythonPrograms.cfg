SPECIFICATION PythonSpec
CONSTANTS
  Size = 4
  Windows = {1, 2, 3}
  MaxFaults = 3
  MaxLines = 4
  QueueMax = 2
  Records = 3
  BatchSize = 2
  GradAccum = 2
  RequestedSteps = 5
  MaxPasses = 3
  EvalEvery = 3
  SaveEvery = 2
  SwaPercent = 50
  GuardFailures = 2
  EarlyStopAfter = 2
  Metrics = {1, 2}
  MaxCrashes = 2
INVARIANTS
  OneJobPerItem
  OrphanIsNext
  TrainsTheStream
PROPERTIES
  WindowRespected
  ClosedForGood
  SubmittedCompletes
  IsSerial
CHECK_DEADLOCK FALSE
