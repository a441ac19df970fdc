SPECIFICATION Spec
CONSTANTS
  Clients = {c1}
  Names = {"a"}
  MaxDatasets = 2
  MaxVersions = 2
  MaxRuns = 1
  MaxOps = 5
  MaxRenames = 0
  FsFaults = FALSE
INVARIANTS
  TypeOK
  QuiescentDurable
  ReadersAgree
PROPERTIES
  ImplementsVersionStack
