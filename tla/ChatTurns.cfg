CONSTANTS
  Threads = {t1, t2}
  NoThread = NoThread
  MaxTurns = 2
  MaxStops = 1
  MaxCrashes = 1
  MaxStream = 3
SPECIFICATION FairSpec
INVARIANTS
  StopsOwnTurn
  FlagsHaveCause
  StopMatches
PROPERTIES
  ThinkingEnds
CHECK_DEADLOCK FALSE
