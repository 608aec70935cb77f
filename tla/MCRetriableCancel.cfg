CONSTANTS
  Ids = {j1}
  RawAttempts = 3
  MaxCrashes = 0
SPECIFICATION FairSpec
CHECK_DEADLOCK FALSE
INVARIANT CancelIsJournaled
