SPECIFICATION MCSpec
CONSTANTS
  R1 = r1
  R2 = r2
  Q = q
  U = u
  D = dflt
  Retired0 <- MCRetired0
  Retired2 <- MCRetired2
  DefaultAddrs <- MCDefaults
  None = None
  Torn = Torn
  MaxFails = 2
  Names = {a, b}
  Key = k1
  First = a
  Keys = {k1, k2}
  Others = {o}
  Account = acc
  Datasets = {d}
  Threads = {t1, t2}
  MaxCalls = 3
INVARIANTS NothingMislaid
PROPERTIES MigrationCompletes SignupRepairs
CHECK_DEADLOCK FALSE
