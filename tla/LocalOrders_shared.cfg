\* API server and desktop on one file, crashes, failed writes and reboots.
SPECIFICATION Spec
CONSTANTS
  api = api
  desktop = desktop
  Procs <- Both
  Servers <- ApiOnly
  MaxOrders = 2
  MaxTick = 2
  MaxCrashes = 1
INVARIANT InSubmissionOrder
