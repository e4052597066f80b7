SPECIFICATION FairSpec
CONSTANTS
  MaxTime = 3
  MaxAttempts = 2
  MaxRot = 2
  MaxFaults = 1
  Refresher = {"sdk"}
  Caller = {"sdk"}
  InOrder = FALSE
  Outage = TRUE
  Reaps = TRUE
INVARIANT BankGoesFirst
INVARIANT NewestDecidesElse
PROPERTY ErasedOnlyDead
PROPERTY RemovedIsErased
CHECK_DEADLOCK FALSE
