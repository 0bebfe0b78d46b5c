\* The API server and the desktop, with or without a keychain.
SPECIFICATION Spec
CONSTANTS
  api = api
  desktop = desktop
  Nil = Nil
  Procs <- Both
  Servers <- ApiOnly
  AccessLife = 1
  RefreshLife = 2
  MaxCalls = 4
  MaxGrants = 3
  MaxTime = 3
  MaxFaults = 1
INVARIANTS TypeOK StoredWasGranted NewestStored
PROPERTIES SessionKept ReauthOnlyWhenEnded
CHECK_DEADLOCK FALSE
