SPECIFICATION FairSpec
CONSTANTS
  Repository = {r1}
  Scheduler = {s1, s2}
  Client = {c1, c2}
  Score <- MCScore
  ScoreRange <- MCRange
  NoMax = NoMax
  BatchSize = 1
  MaxClock = 3
  NoOne = NoOne
INVARIANTS NothingReplayed OneTriggerPerMatch
PROPERTIES EvaluatedInForce CoveredIsEvaluated
