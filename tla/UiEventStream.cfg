CONSTANTS
  MaxBufferSize = 2
  MaxEvents = 4
  MaxRestarts = 1
  MaxFaults = 2
SPECIFICATION FairSpec
INVARIANTS
  OneWayBack
  MarkerIsLast
PROPERTIES
  FeedInOrder
  CatchesUp
CHECK_DEADLOCK FALSE
