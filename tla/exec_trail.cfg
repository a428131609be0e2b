SPECIFICATION Spec
CONSTANTS
  m1 = m1
  m2 = m2
  m3 = m3
  w1 = w1
  w2 = w2
  Messages = {m1, m2}
  NoMessage = NoMessage
  Faults = {"stats", "publish", "publish_unconfirmed", "ack", "ack_unconfirmed", "other_operator", "redeliver"}
  Plan <- Returned
  Excluded = {}
  Invalid = {}
  PlanChecks <- AllChecks
  Workers = {w1, w2}
  BatchSize = 2
  Retry = 0
  Threshold = 50
  MaxRuns = 2
SYMMETRY Symmetry
CHECK_DEADLOCK FALSE
INVARIANTS
  SuccessIsTrue
  DuplicatesTraced
  OutcomesAudited
  SummaryAddsUp
