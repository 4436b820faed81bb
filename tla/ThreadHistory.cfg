CONSTANTS
  PageSize = 2
  Chunks = 2
  MaxTurns = 3
  Opened = {2, 3}
  MaxLoads = 3
  MaxElsewhere = 1
  MaxBatch = 2
SPECIFICATION ListSpec
INVARIANTS
  ShownOnce
  NoGap
  TextComplete
PROPERTIES
  Anchored
CHECK_DEADLOCK FALSE
