\* One API server that crashes, restarts and meets failing writes, on a
\* machine that is rebooted and whose clock may not tick between two orders.
SPECIFICATION Spec
CONSTANTS
  api = api
  desktop = desktop
  Procs <- ApiOnly
  Servers <- ApiOnly
  MaxOrders = 3
  MaxTick = 3
  MaxCrashes = 2
INVARIANTS TypeOK AcknowledgedAreStored CancelledStayClosed NeverBothOpen
PROPERTY ImplementsBook
