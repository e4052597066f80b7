SPECIFICATION FairPollSpec
CONSTANTS
  o1 = o1
  o2 = o2
  Op = {o1}
  Portals = 1
  Of <- OneOf
  Lookback = 1
  MinDays = 1
  Grace = 2
  MaxTerm = 9
  MaxPortals = 1
  Attempts = 1
  MaxDays = 4
  MaxFaults = 1
  MaxAsks = 1
PROPERTY ErasedStaysErased
PROPERTY Delivered
CHECK_DEADLOCK FALSE
