SPECIFICATION Spec
CONSTANTS
  statement = statement
  first = first
  again = again
  File = {statement}
  Upload = {first}
  FileOf <- SameFile
  Concurrency = 2
  MaxAttempts = 2
  MaxStalls = 1
  MaxFaults = 0
  MaxCrashes = 0
INVARIANT NoRowLeftQueued
CHECK_DEADLOCK FALSE
