CONSTANTS
  Calls = {k1, k2}
  Nobody = Nobody
  NoMessage = NoMessage
  MaxRetries = 1
  MaxCrashes = 1
  MaxAsks = 2
SPECIFICATION ApprovalsSpec
INVARIANTS
  AnsweredOnce
  PendingIsUnanswered
PROPERTIES
  KeepsTheDesk
CHECK_DEADLOCK FALSE
