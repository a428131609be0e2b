SPECIFICATION FairSpec
CONSTANTS
  a = a
  b = b
  c1 = c1
  c2 = c2
  N = 4
  Depth = 2
  Ids = {a, b}
  IdOf <- TwoIds
  Callers = {c1, c2}
  MaxCalls = 4
  MaxBreaks = 2
  PageSize = 3
  ScanCap = 6
CHECK_DEADLOCK FALSE
INVARIANTS
  TypeOK
  EachInOnePlace
  OrderRestored
PROPERTIES
  FindsTheOldest
  CallsReturn
