\* One chart: rolling back to the oldest version of a full history.
SPECIFICATION Spec
CONSTANTS
  server = server
  desktop = desktop
  brk = brk
  brkB = brkB
  entry = entry
  Charts <- OneChart
  ViewCharts <- NoneNested
  Nested <- NoneNested
  Ids <- One
  Risk <- One
  Prices = {1, 2}
  Drawings <- Cleared
  Depth = 2
  MaxOps = 4
  MaxFaults = 0
PROPERTY RollbackRestoresAll
CHECK_DEADLOCK FALSE
