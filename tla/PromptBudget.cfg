SPECIFICATION Spec
CONSTANTS
  MaxPrompt = 8000
  MaxObservation = 2500
  Requests <- MCRequests
INVARIANTS RefusedOnlyForFixedParts ShownFilesCanBeCited
CHECK_DEADLOCK FALSE
