SPECIFICATION Spec
CONSTANTS
  m1 = m1
  m2 = m2
  m3 = m3
  w1 = w1
  w2 = w2
  Messages = {m1}
  NoMessage = NoMessage
  Faults = {"ack_lost", "query", "publish", "publish_unconfirmed", "crash", "redeliver", "delete_destination"}
  Plan <- Twice
  Excluded = {}
  Invalid = {}
  PlanChecks <- SomeChecks
  Workers = {w1, w2}
  BatchSize = 2
  Retry = 1
  Threshold = 20
  MaxRuns = 2
SYMMETRY Symmetry
CHECK_DEADLOCK FALSE
INVARIANTS
  TypeOK
  NoLoss
  NoPublishIntoTheVoid
  NoFlood
  EvidenceRespected
