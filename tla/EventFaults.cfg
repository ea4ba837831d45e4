SPECIFICATION MCSpec
CONSTANTS
  upload = upload
  ask = ask
  search = search
  Requests = {upload, ask, search}
  Lifespan = Lifespan
  None = None
  Needs <- EachNeeds
  Searches = {search}
  Faults <- AllFaults
  MaxTroubles = 3
  EventTroubles = 2
  Partitions = {p1, p2}
INVARIANTS
  StartsAreUnderWay
  CommittedIsAccounted
  RepeatsAreExplained
  OneKeyIsInOrder
PROPERTIES
  FailuresAreExplained
  LoggedIsConsumed
CHECK_DEADLOCK FALSE
