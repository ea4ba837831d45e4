SPECIFICATION HybridSpec
CONSTANTS
  Lengths <- UpTo7
  Sizes <- From1
  Overlaps <- UpTo3
  K = 1
  Limits = {1, 2}
  MaxChunks = 4
  Legacy = Legacy
INVARIANTS
  PassagesAreWhole
  ChunksAdvance
  BothBeatOne
CHECK_DEADLOCK FALSE
