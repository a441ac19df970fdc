SPECIFICATION Spec
CONSTANTS
  c1 = c1
  c2 = c2
  Clients = {c1, c2}
  Names = {"a", "b"}
  MaxDatasets = 1
  MaxVersions = 2
  MaxRuns = 1
  MaxOps = 4
  MaxRenames = 1
  FsFaults = TRUE
SYMMETRY ClientSymmetry
VIEW WithoutBus
INVARIANTS
  InitKept
