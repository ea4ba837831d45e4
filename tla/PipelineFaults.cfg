SPECIFICATION Spec
SYMMETRY Symmetry
CONSTANTS
  Docs = {d1}
  Workers = {w1, w2}
  Deletes = {q1}
  MaxChunks = 2
  Faults <- AllFaults
  NoDoc = NoDoc
INVARIANTS
  TypeOK
  OneTaskPerDocument
  SettledIsIndexed
  CompletedEventIsTrue
  OutcomeEventsAgree
  RowHasFile
PROPERTIES
  ImplementsLifecycle
CHECK_DEADLOCK FALSE
