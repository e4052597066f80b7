SPECIFICATION FairAlertSpec
CONSTANTS
  Queue = {q1}
  Watch = {w1}
  Graced = {w1}
  Floor = 3
  MaxLost = 1
  MaxRestarts = 1
PROPERTY SaidOnce
PROPERTY LastWordIsTrue
CHECK_DEADLOCK FALSE
