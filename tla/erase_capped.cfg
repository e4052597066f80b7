SPECIFICATION PollSpec
CONSTANTS
  o1 = o1
  o2 = o2
  Op = {o1}
  Portals = 1
  Of <- OneOf
  Lookback = 2
  MinDays = 1
  Grace = 2
  MaxTerm = 2
  MaxPortals = 1
  Attempts = 2
  MaxDays = 4
  MaxFaults = 2
  MaxAsks = 1
PROPERTY ErasedStaysErased
CHECK_DEADLOCK FALSE
