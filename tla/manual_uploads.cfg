SPECIFICATION FairSpec
CONSTANTS
  statement = statement
  first = first
  again = again
  File = {statement}
  Upload = {first, again}
  FileOf <- SameFile
  Concurrency = 2
  MaxAttempts = 2
  MaxStalls = 1
  MaxFaults = 1
  MaxCrashes = 1
INVARIANT WorkSurvives
PROPERTY EventuallyServed
CHECK_DEADLOCK FALSE
