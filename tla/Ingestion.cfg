SPECIFICATION FairSpec
CONSTANTS
  Worker = {w1}
  Commit <- ThreeCommits
  NoCommit = NoCommit
  Tree <- RevertedTree
  History <- Forked
  Local = FALSE
  DefaultBranch = TRUE
  MaxAttempts = 2
  HeadReturns = FALSE
  MaxMoves = 2
  MaxExplicit = 1
  MaxFaults = 2
INVARIANTS OnePolledIngestion IndexedIsConsistent ExactCommitIngested
PROPERTIES DriftBeforeAdvance HeadIsProcessed
