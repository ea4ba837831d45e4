SPECIFICATION Spec
CONSTANTS
  Servers = {s1, s2}
  Requests = {r1, r2}
  SECOND = 2
  AccessLife = 3
  RefreshLife = 5
  Leeway = 3
  Skew = 1
  MaxTokens = 3
  MaxTime = 9
  Faults <- AllFaults
SYMMETRY Symmetry
INVARIANTS
  RevokedIsRefused
  LeewayCoversSkew
CHECK_DEADLOCK FALSE
