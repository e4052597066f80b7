SPECIFICATION FairSpec
CONSTANTS
  Field = {f1}
  Ttl = 3
  MaxRuns = 2
  MaxMishaps = 1
  MaxSaves = 0
INVARIANT CardReachesAll
CHECK_DEADLOCK FALSE
