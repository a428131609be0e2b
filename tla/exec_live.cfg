SPECIFICATION FairSpec
CONSTANTS
  m1 = m1
  m2 = m2
  m3 = m3
  w1 = w1
  w2 = w2
  Messages = {m1, m2, m3}
  NoMessage = NoMessage
  Faults = {"publish_unconfirmed", "ack", "ack_unconfirmed", "crash", "redeliver", "deadline"}
  Plan <- OneEach
  Excluded = {m3}
  Invalid = {m2}
  PlanChecks <- SomeChecks
  Workers = {w1, w2}
  BatchSize = 1
  Retry = 1
  Threshold = 20
  MaxRuns = 1
CHECK_DEADLOCK FALSE
PROPERTIES
  RunTerminates
  RefinesAtLeastOnce
