SPECIFICATION FairSpec
CONSTANTS
  p1 = p1
  p2 = p2
  t1 = t1
  auto1 = auto1
  manual2 = manual2
  fact2 = fact2
  NoPayment = NoPayment
  NoTarget = NoTarget
  NoRow = NoRow
  Payment = {p1, p2}
  Target = {t1}
  Row = {auto1, manual2, fact2}
  Parent <- Parents
  To <- Targets
  Manual = {manual2}
  Fact = {fact2}
  MaxWalked = 1
  MaxAttempts = 2
  MaxRuns = 1
  MaxEdits = 0
  MaxFaults = 0
PROPERTY ButtonFrees
CHECK_DEADLOCK FALSE
