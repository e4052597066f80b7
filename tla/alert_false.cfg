SPECIFICATION AlertSpec
CONSTANTS
  Queue = {q1}
  Watch = {w1}
  Graced = {}
  Floor = 3
  MaxLost = 0
  MaxRestarts = 0
PROPERTY NoFalseRecovery
CHECK_DEADLOCK FALSE
