SPECIFICATION FairSpec
CONSTANTS
  Field = {f1}
  Ttl = 3
  MaxRuns = 2
  MaxMishaps = 2
  MaxSaves = 1
INVARIANT OwnsLease
INVARIANT NoTwins
INVARIANT Usable
PROPERTY BothPartsKept
PROPERTY PortalFreed
CHECK_DEADLOCK FALSE
