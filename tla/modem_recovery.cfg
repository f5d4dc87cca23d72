SPECIFICATION FairSpec
CONSTANTS
  MaxOps = 2
  WATCHDOG_TIMEOUT_SECONDS = 3
INVARIANT
  TimeoutsBounded
PROPERTIES
  RecoversForGood
  WaitIsEnded
  FailedModemIsReset
  TextsForwarded
