CONSTANTS
  Calls = {k1, k2}
  Nobody = Nobody
  NoMessage = NoMessage
  MaxRetries = 3
  MaxCrashes = 2
SPECIFICATION FairSpec
INVARIANTS
  TypeOK
  OneProcess
  HandshakeFirst
  NoStrandedCall
  NoLeakedEntry
PROPERTIES
  CallsOnce
  EverythingEnds
CHECK_DEADLOCK FALSE
