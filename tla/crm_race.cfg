SPECIFICATION Spec
CONSTANTS
  o1 = o1
  o2 = o2
  polled = polled
  uploaded = uploaded
  NoJob = NoJob
  Op = {o1, o2}
  Job = {polled}
  Batch <- OverlappingBatches
  Parsed = {}
  Owned = {o1, o2}
  Payable = {o1}
  Fading = {}
  Triggering = {o1}
  Ambiguous = {o2}
  Announced = {o1}
  PaymentSp = TRUE
  DistributionSp = TRUE
  AutoDistribute = TRUE
  LostReplies = FALSE
  MaxAttempts = 3
  MaxStalls = 1
  MaxDeferred = 1
  DeferredAttempts = 2
  TriggerAttempts = 2
  MaxRedeliveries = 0
  MaxFaults = 1
  MaxCrashes = 0
INVARIANT OneRegistryElement
CHECK_DEADLOCK FALSE
