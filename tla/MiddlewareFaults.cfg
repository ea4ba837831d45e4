SPECIFICATION Spec
SYMMETRY Symmetry
CONSTANTS
  Requests = {r1, r2, r3}
  Keys = {k1}
  Bodies = {b1, b2}
  Faults <- AllFaults
  NoRequest = NoRequest
  NoKey = NoKey
  NoBody = NoBody
INVARIANTS
  TypeOK
  AnswersAreGenuine
  RetriesDoNotRun
  RunsAreExplained
  SavedAnswersExpire
CHECK_DEADLOCK FALSE
