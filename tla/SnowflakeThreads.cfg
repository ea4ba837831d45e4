SPECIFICATION FairSpec
CONSTANTS
  p1 = p1
  t1 = t1
  t2 = t2
  Processes = {p1}
  Threads = {t1, t2}
  Home <- OneHome
  Tag <- SameTag
  Tags = 2
  MaxSequence = 1
  MaxTime = 3
  MaxBacks = 1
  NoThread = NoThread
INVARIANT TypeOK
PROPERTIES
  ImplementsAllocator
  LockIsReleased
CHECK_DEADLOCK FALSE
