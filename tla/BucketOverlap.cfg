SPECIFICATION BucketSpec
CONSTANTS
  Consumers = {r1, r2, r3}
  Capacity = 2
  Period = 3
  MaxTime = 5
  BucketFaults <- AllFaults
SYMMETRY Symmetry
INVARIANTS
  AdmittedIsBounded
PROPERTY DeniedHadQuota
CHECK_DEADLOCK FALSE
