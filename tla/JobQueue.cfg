SPECIFICATION Spec
CONSTANTS
  w1 = w1
  w2 = w2
  Worker = {w1, w2}
  WorkerId <- SharedId
  Handles <- MCHandles
  Job = {1, 2}
  JobType <- MCJobTypes
  SupportedType <- MCSupported
  IngestType = "ingest_repository"
  Key = {k1}
  MaxAttempts = 2
  RecoveryLimit = 1
  NoOverlap = FALSE
  NoOne = NoOne
  NoKey = NoKey
  NoJob = NoJob
INVARIANTS FencedAttempts LockMatchesStatus
