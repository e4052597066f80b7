SPECIFICATION FairSpec
CONSTANTS
  o1 = o1
  o2 = o2
  polled = polled
  uploaded = uploaded
  NoJob = NoJob
  Op = {o1, o2}
  Job = {uploaded}
  Batch <- WholeFile
  Parsed = {uploaded}
  Owned = {o1}
  Payable = {o1}
  Fading = {o1}
  Triggering = {o1}
  Ambiguous = {}
  Announced = {o1}
  PaymentSp = TRUE
  DistributionSp = FALSE
  AutoDistribute = TRUE
  LostReplies = TRUE
  MaxAttempts = 3
  MaxStalls = 1
  MaxDeferred = 1
  DeferredAttempts = 2
  TriggerAttempts = 2
  MaxRedeliveries = 1
  MaxFaults = 2
  MaxCrashes = 1
INVARIANT FiredOnce
PROPERTY EventuallySettled
PROPERTY EventuallyRecorded
CHECK_DEADLOCK FALSE
