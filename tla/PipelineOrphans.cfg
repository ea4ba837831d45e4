SPECIFICATION Spec
CONSTANTS
  Docs = {d1}
  Workers = {w1}
  Deletes = {q1}
  MaxChunks = 1
  Faults <- NoFaults
  NoDoc = NoDoc
INVARIANT DeletedLeavesNoVectors
CHECK_DEADLOCK FALSE
