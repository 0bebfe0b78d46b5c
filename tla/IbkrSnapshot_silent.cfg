\* TWS may never answer the handshake.
SPECIFICATION FairSpec
CONSTANTS
  Damaged = Damaged
  Message <- AllMessages
  MaxLag = 1
  MaxExtras = 0
PROPERTY HandshakeTimesOut
CHECK_DEADLOCK FALSE
