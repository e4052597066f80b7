SPECIFICATION Spec
CONSTANTS
  o1 = o1
  o2 = o2
  polled = polled
  uploaded = uploaded
  NoJob = NoJob
  Op = {o1, o2}
  Job = {polled, uploaded}
  Batch <- OverlappingBatches
  Parsed = {uploaded}
  Owned = {o1, o2}
  Payable = {o1, o2}
  Fading = {o1}
  Triggering = {o1}
  Ambiguous = {}
  Announced = {o1}
  PaymentSp = TRUE
  DistributionSp = TRUE
  AutoDistribute = TRUE
  LostReplies = TRUE
  MaxAttempts = 2
  MaxStalls = 1
  MaxDeferred = 1
  DeferredAttempts = 2
  TriggerAttempts = 2
  MaxRedeliveries = 0
  MaxFaults = 2
  MaxCrashes = 1
INVARIANT OncePerOperation
INVARIANT DoneMeansRecorded
INVARIANT RegistryNotLost
PROPERTY ImplementsImportOnce
CHECK_DEADLOCK FALSE
