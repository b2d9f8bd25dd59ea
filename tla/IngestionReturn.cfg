SPECIFICATION FairSpec
CONSTANTS
  Worker = {w1}
  Commit <- TwoCommits
  NoCommit = NoCommit
  Tree <- OwnTree
  History <- Linear
  Local = TRUE
  DefaultBranch = FALSE
  MaxAttempts = 2
  HeadReturns = TRUE
  MaxMoves = 3
  MaxExplicit = 0
  MaxFaults = 0
PROPERTIES HeadIsProcessed
