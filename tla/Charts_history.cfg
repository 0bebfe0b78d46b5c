\* Two charts, one key inside the other, histories of two versions.
SPECIFICATION Spec
CONSTANTS
  server = server
  desktop = desktop
  brk = brk
  brkB = brkB
  entry = entry
  Charts <- DottedCharts
  ViewCharts <- JustBrk
  Nested <- BInside
  Ids <- One
  Risk <- One
  Prices = {1, 2}
  Drawings <- Cleared
  Depth = 2
  MaxOps = 4
  MaxFaults = 1
INVARIANTS TypeOK HistoryWellKept
PROPERTIES VersionsAreImmutable EditsCanBeUndone RollbackRestores
CHECK_DEADLOCK FALSE
