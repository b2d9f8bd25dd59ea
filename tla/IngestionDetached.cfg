SPECIFICATION Spec
CONSTANTS
  Worker = {w1}
  Commit <- TwoCommits
  NoCommit = NoCommit
  Tree <- OwnTree
  History <- Linear
  Local = FALSE
  DefaultBranch = FALSE
  MaxAttempts = 2
  HeadReturns = FALSE
  MaxMoves = 1
  MaxExplicit = 1
  MaxFaults = 0
INVARIANTS IngestionSucceeds
