SPECIFICATION FairSpec
CONSTANTS
  MaxTokens = 3
  Faults <- AllFaults
INVARIANTS
  SavedIsWhole
  OneOutcome
PROPERTY StreamEnds
CHECK_DEADLOCK FALSE
