SPECIFICATION Spec
CONSTANTS
  m1 = m1
  m2 = m2
  m3 = m3
  w1 = w1
  w2 = w2
  Messages = {m1, m2}
  NoMessage = NoMessage
  Faults = {"crash"}
  Plan <- OneEach
  Excluded = {}
  Invalid = {}
  PlanChecks <- AllChecks
  Workers = {w1, w2}
  BatchSize = 2
  Retry = 1
  Threshold = 20
  MaxRuns = 1
SYMMETRY Symmetry
CHECK_DEADLOCK FALSE
INVARIANTS
  RemovedHasSnapshot
