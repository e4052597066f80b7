SPECIFICATION FairSpec
CONSTANTS
  alfa = alfa
  prior = prior
  n1 = n1
  n2 = n2
  c1 = c1
  c2 = c2
  Grant = {alfa}
  Number = {n1, n2}
  Caller = {c1, c2}
  MaxPairs = 2
  NoGrant = NoGrant
  Keyed = {alfa}
  Legacy = {}
  Patient = TRUE
  MaxFaults = 1
  MaxCrashes = 1
PROPERTY HealsByKey
CHECK_DEADLOCK FALSE
