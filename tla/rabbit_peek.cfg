SPECIFICATION Spec
CONSTANTS
  a = a
  b = b
  c1 = c1
  c2 = c2
  N = 4
  Depth = 3
  Ids = {a, b}
  IdOf <- TwoIds
  Callers = {c1}
  MaxCalls = 1
  MaxBreaks = 0
  PageSize = 2
  ScanCap = 4
CHECK_DEADLOCK FALSE
INVARIANTS
  PeekSeesEachOnce
