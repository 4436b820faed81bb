CONSTANTS
  Reads = {r1, r2}
  Initial = r1
  MaxMoves = 1
  MaxClicks = 2
  MaxLosses = 1
SPECIFICATION FairSpec
PROPERTIES
  PageSettles
CHECK_DEADLOCK FALSE
