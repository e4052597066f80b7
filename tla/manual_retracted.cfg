SPECIFICATION Spec
CONSTANTS
  statement = statement
  first = first
  again = again
  File = {statement}
  Upload = {first}
  FileOf <- SameFile
  Concurrency = 2
  MaxAttempts = 3
  MaxStalls = 1
  MaxFaults = 1
  MaxCrashes = 0
PROPERTY FailureIsFinal
CHECK_DEADLOCK FALSE
