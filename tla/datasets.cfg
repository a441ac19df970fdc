SPECIFICATION Spec
CONSTANTS
  Clients = {c1}
  Names = {a, b}
  Dirs = {d, e}
  NoName = NoName
  NoDir = NoDir
  MaxLogs = 3
  MaxVersions = 3
  MaxOps = 4
  MaxFaults = 2
SYMMETRY Alike
INVARIANTS
  RecordsAgree
  HistoryReachable
  InitAllOrNothing
PROPERTIES
  CleanUpSparesHistory
CHECK_DEADLOCK FALSE
