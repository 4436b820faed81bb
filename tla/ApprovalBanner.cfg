CONSTANTS
  ApprovalKinds = {"command"}
  Pages = {p1, p2}
  MaxAsks = 2
  MaxCodex = 2
  MaxPosts = 3
  MaxReloads = 1
SPECIFICATION Spec
INVARIANTS
  ShownWhilePending
  OneDecisionCounts
SYMMETRY Symmetry
CHECK_DEADLOCK FALSE
