SPECIFICATION Spec
CONSTANTS
  a = a
  b = b
  Op = {a, b}
  NoOp = NoOp
  NoTarget = NoTarget
  NoDeal = NoDeal
  Target <- MCTarget
  Names <- MCNames
  Exact <- MCExact
  Setting <- MCSetting
  MaxAttempts = 2
  MaxRedeliveries = 1
  MaxFaults = 2
  MaxEdits = 1
CHECK_DEADLOCK FALSE
INVARIANT PaidIsBooked
