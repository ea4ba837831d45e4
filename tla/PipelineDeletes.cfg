SPECIFICATION FairSpec
CONSTANTS
  Docs = {d1}
  Workers = {w1}
  Deletes = {q1, q2}
  MaxChunks = 1
  Faults <- StoreFaults
  NoDoc = NoDoc
INVARIANTS
  QuietDeleteIsClean
PROPERTIES
  EveryTaskSettles
  EveryUploadSettles
CHECK_DEADLOCK FALSE
