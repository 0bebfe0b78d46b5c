\* One snapshot; TWS sends an update or an error by itself.
SPECIFICATION FairSpec
CONSTANTS
  Damaged = Damaged
  Message <- AllMessages
  MaxLag = 2
  MaxExtras = 1
INVARIANTS TypeOK NoLostWakeup SnapshotIsWhole HangUpIsQuiet
PROPERTIES ImplementsStream FetchReturns
CHECK_DEADLOCK FALSE
