CONSTANTS
  Clients = {c1, c2}
  Values = {1, 2, 3, 4}
  FieldsOf <- MCFieldsOf
  Switches <- MCSwitches
  DatasetFiles <- MCDatasetFiles
  ReadOnly = FALSE
  MaxVersions = 4
  MaxCalls = 2
  MaxEdits = 2
  MaxFaults = 1
  MaxTrouble = 3
SPECIFICATION Spec
INVARIANTS CleanMeansHead
PROPERTIES SettledIsClean 
CHECK_DEADLOCK FALSE
SYMMETRY AnyClient
