\* The same two processes, without faults: both write at the same time.
SPECIFICATION Spec
CONSTANTS
  api = api
  desktop = desktop
  Nil = Nil
  Procs <- Both
  Servers <- ApiOnly
  AccessLife = 1
  RefreshLife = 2
  MaxCalls = 4
  MaxGrants = 3
  MaxTime = 3
  MaxFaults = 0
INVARIANT SubsequentRunsLoad
CHECK_DEADLOCK FALSE
