SPECIFICATION Spec
CONSTANTS
  Procs = {p1, p2}
  None = None
  n1 = n1
  n2 = n2
  u1 = u1
  pol1 = pol1
  Names = {n1, n2}
  Urls = {u1}
  Policies = {pol1}
  Commands <- MCCmds
  ConfigFaults = {"write", "crash"}
  Dev = Dev
  Releases <- MCReleases
  Installed <- MCInstalled
  Platforms = {"posix", "windows"}
  MaxAttempts = 2
  UpdateFaults = {"network", "damage", "extract", "disk", "launch", "crash", "shutdown"}
SYMMETRY MCSymmetry
CHECK_DEADLOCK FALSE
INVARIANTS
  TypeOK
  ChangesSurvive
  FieldsStayMasked
  OnlyVerified
  InstallsFollow
  TargetRuns
