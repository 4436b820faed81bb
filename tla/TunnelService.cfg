CONSTANTS
  Enables = {e1, e2, e3}
  Disables = {d1, d2}
  None = None
  MaxParallel = 3
SPECIFICATION FairSpec
INVARIANTS
  SessionsOfPassword
  OffStopsUncrossed
  TunnelAtHand
PROPERTIES
  KeepsTheGate
  RequestsEnd
CHECK_DEADLOCK FALSE
