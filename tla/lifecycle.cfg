SPECIFICATION Spec
CONSTANTS
  o1 = o1
  o2 = o2
  home = home
  other = other
  None = None
  Originals = {o1}
  Destinations = {home, other}
  Transports = {"rabbitmq", "redisstream"}
  Faults = {"publish", "restore", "crash", "reject", "other_operator", "delete_dlq", "edited", "ack_lost", "store", "query", "override"}
  MaxKeys = 5
  MaxPlans = 2
  MaxRuns = 2
  MaxRollbacks = 1
SYMMETRY Symmetry
CHECK_DEADLOCK FALSE
INVARIANTS
  TypeOK
  NoLoss
  EntriesKnowTheirWay
  RecoveredOnce
PROPERTIES
  RollbackReverses
