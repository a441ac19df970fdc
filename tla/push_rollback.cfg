SPECIFICATION Spec
CONSTANTS
  Clients = {c1, c2}
  Names = {"a"}
  MaxDatasets = 1
  MaxVersions = 2
  MaxRuns = 0
  MaxOps = 5
  MaxRenames = 0
  FsFaults = FALSE
INVARIANTS
  CommitsKept
