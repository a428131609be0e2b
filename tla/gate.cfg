SPECIFICATION FairSpec
CONSTANTS
  m1 = m1
  m2 = m2
  m3 = m3
  m4 = m4
  Messages = {m1, m2, m3, m4}
  NoMessage = NoMessage
  Faults = {"stats", "publish", "publish_unconfirmed", "ack", "ack_unconfirmed", "ack_lost", "redeliver", "crash", "deadline"}
  Queued <- TwinEntries
  MaxCommands = 2
  MaxRejects = 2
  Big = {m2, m4}
  Hashed = {m2}
  Unrouted = {m3}
CHECK_DEADLOCK FALSE
INVARIANTS
  TypeOK
  NoLoss
  DuplicatesAccounted
  NothingIntoTheVoid
  EffectsAudited
  TrailIsTrue
PROPERTIES
  CommandEnds
  RefinesAtLeastOnce
