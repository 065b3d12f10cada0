SPECIFICATION Spec
CONSTANTS
  Size = 4
  Windows = {1, 2, 3}
  MaxFaults = 3
INVARIANTS
  CancelStopsAll
CHECK_DEADLOCK FALSE
