SPECIFICATION Spec
CONSTANTS
  alfa = alfa
  prior = prior
  n1 = n1
  n2 = n2
  c1 = c1
  c2 = c2
  Grant = {alfa, prior}
  Number = {n1, n2}
  Caller = {c1, c2}
  MaxPairs = 3
  NoGrant = NoGrant
  Keyed = {alfa}
  Legacy = {prior}
  Patient = TRUE
  MaxFaults = 1
  MaxCrashes = 0
INVARIANT SpendsCurrentToken
INVARIANT OnePairPerGrant
INVARIANT StoredPairIsLive
INVARIANT RejectedIsDead
PROPERTY NotRevived
SYMMETRY Interchangeable
CHECK_DEADLOCK FALSE
