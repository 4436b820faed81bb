CONSTANTS
  Gets = {g1}
  Mutations = {m1, m2}
  GetRetries = 2
  MaxImages = 1
  MaxDrafts = 1
  MaxPicked = 1
SPECIFICATION ComposerSpec
INVARIANTS
  MutationRunsOnce
  ResolvedMeansExecuted
  SentOnce
PROPERTIES
  SubmitEnds
CHECK_DEADLOCK FALSE
