CONSTANTS
  Enables = {e1, e2, e3}
  Disables = {d1, d2}
  None = None
  MaxParallel = 3
SPECIFICATION Spec
INVARIANTS
  OffStopsTunnel
CHECK_DEADLOCK FALSE
