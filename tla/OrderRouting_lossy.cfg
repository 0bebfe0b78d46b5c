\* Both brokers configured, answers get lost, local writes fail.
SPECIFICATION Spec
CONSTANTS
  SchwabConfigured = TRUE
  TdaConfigured = TRUE
  External = 1
  MaxRequests = 3
  MaxLost = 2
INVARIANTS TypeOK OneLiveOrderPerRequest OneOrderPerRequest AnswersAreTrue ReplacedOnce
PROPERTY LiveNeedsConfirmation
CHECK_DEADLOCK FALSE
