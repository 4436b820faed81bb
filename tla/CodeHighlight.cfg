CONSTANTS
  Blocks = {b1, b2}
  Codes = {k1, k2, k3}
  NoCode = NoCode
  MaxCache = 2
  MaxCommits = 4
  MaxFailures = 1
SPECIFICATION CodeFairSpec
INVARIANTS
  OneJobPerCode
  QuietShowsCode
PROPERTIES
  QueueDrains
CHECK_DEADLOCK FALSE
