SPECIFICATION TrainSpec
CONSTANTS
  Records = 3
  BatchSize = 2
  GradAccum = 2
  RequestedSteps = 5
  MaxPasses = 3
  EvalEvery = 3
  SaveEvery = 2
  SwaPercent = 50
  GuardFailures = 2
  EarlyStopAfter = 2
  Metrics = {1, 2}
  MaxCrashes = 2
INVARIANTS
  PassesCapped
CHECK_DEADLOCK FALSE
