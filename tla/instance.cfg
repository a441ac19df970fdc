SPECIFICATION MCSpec
CONSTANTS
  Peers = {p1, p2}
  Qri = {p1, p2}
  Holders = {p1}
  MaxDials = 2
  MaxCalls = 3
  MaxOnline = 2
  MaxClients = 3
INVARIANTS NotFoundMeansAll WaitsAreServed
PROPERTIES ShutdownIsReported
CHECK_DEADLOCK FALSE
