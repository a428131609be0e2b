SPECIFICATION Spec
CONSTANTS
  m1 = m1
  m2 = m2
  m3 = m3
  m4 = m4
  Messages = {m1}
  NoMessage = NoMessage
  Faults = {}
  Queued <- OneEntry
  MaxCommands = 1
  MaxRejects = 0
  Big = {m1}
  Hashed = {}
  Unrouted = {}
CHECK_DEADLOCK FALSE
INVARIANTS
  DeliversWhatItRemoves
