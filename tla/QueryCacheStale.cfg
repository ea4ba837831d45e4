SPECIFICATION FairSpec
CONSTANTS
  d1 = d1
  Docs = {d1, d2}
  Questions = {q1}
  Asked <- OneAndAll
  Requests = {r1, r2}
  All = All
  MaxSweeps = 1
  Faults <- AllFaults
INVARIANTS
  CachedAnswersFit
  SweptIsGone
PROPERTY DeletedIsForgotten
CHECK_DEADLOCK FALSE
