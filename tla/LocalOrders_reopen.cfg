\* The same two processes: a stale write-back reopens a cancelled order.
SPECIFICATION Spec
CONSTANTS
  api = api
  desktop = desktop
  Procs <- Both
  Servers <- ApiOnly
  MaxOrders = 2
  MaxTick = 3
  MaxCrashes = 0
INVARIANT CancelledStayClosed
