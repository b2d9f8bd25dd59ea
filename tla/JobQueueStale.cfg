SPECIFICATION Spec
CONSTANTS
  w1 = w1
  w2 = w2
  Worker = {w1, w2}
  WorkerId <- OwnId
  Handles <- MCHandles
  Job = {1}
  JobType <- MCJobTypes
  SupportedType <- MCSupported
  IngestType = "ingest_repository"
  Key = {}
  MaxAttempts = 2
  RecoveryLimit = 2
  NoOverlap = FALSE
  NoOne = NoOne
  NoKey = NoKey
  NoJob = NoJob
PROPERTIES StaleWorkersCannotFinalize
