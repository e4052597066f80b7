SPECIFICATION FairSpec
CONSTANTS
  MaxTime = 1
  MaxAttempts = 2
  MaxRot = 2
  MaxFaults = 0
  Refresher = {"locked", "sdk"}
  Caller = {"sdk"}
  InOrder = TRUE
  Outage = FALSE
  Reaps = TRUE
PROPERTY ReapedOnlyDead
CHECK_DEADLOCK FALSE
