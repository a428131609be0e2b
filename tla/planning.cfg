SPECIFICATION Spec
CONSTANTS
  DuplicateWords = {"already"}
  TransientWords = {"timeout", "503"}
  PermanentWords = {"invalid", "404"}
  Numbers = {"503", "404"}
  HighRetry = 6
  DefaultThreshold = 70
  DuplicateOverride = 80
  DefaultMaxCalls = 50
  Queues <- MCQueues
  Profiles <- MCProfiles
  Commands <- MCCommands
  Answers <- MCAnswers
  MaxCommands = 2
CHECK_DEADLOCK FALSE
INVARIANTS
  TypeOK
  MarkedNeverPlanned
  JevOnlyResolves
  PlanCoversItsGroup
  OneDestination
