SPECIFICATION FairEraseSpec
CONSTANTS
  o1 = o1
  o2 = o2
  Op = {o1, o2}
  Portals = 2
  Of <- TwoOf
  Lookback = 0
  MinDays = 1
  Grace = 0
  MaxTerm = 9
  MaxPortals = 1
  Attempts = 1
  MaxDays = 2
  MaxFaults = 0
  MaxAsks = 0
PROPERTY ErasedInTheEnd
CHECK_DEADLOCK FALSE
