SPECIFICATION Spec
CONSTANTS
  MaxTime = 3
  MaxAttempts = 2
  MaxRot = 2
  MaxFaults = 1
  Refresher = {"locked"}
  Caller = {}
  InOrder = TRUE
  Outage = FALSE
  Reaps = FALSE
INVARIANT NewestDecides
CHECK_DEADLOCK FALSE
