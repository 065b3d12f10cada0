SPECIFICATION BridgeSpec
CONSTANTS
  a = a
  b = b
  c = c
  Clients = {a, b, c}
  Menu <- DistinctMenu
  MaxRows = 2
  Inflight = 2
  PipeRows = 1
  Faults = {"error"}
INVARIANTS
  InStep
CHECK_DEADLOCK FALSE
