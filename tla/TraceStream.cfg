SPECIFICATION FairSpec
CONSTANTS
  RunWriter = rw
  OtherWriter = {ow}
  MaxPerTxn = 2
  PageSize = 1
  MaxEvents = 3
  NoOne = NoOne
INVARIANTS IdsFollowVisibility NothingSkipped StreamEndsAfterLastEvent CompleteIsFinal
PROPERTIES FinishedRunCompletes FollowsFeed
CHECK_DEADLOCK FALSE
