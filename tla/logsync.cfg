SPECIFICATION Spec
CONSTANTS
  Clients = {c1}
  MaxVersions = 2
  MaxOps = 5
  MaxNames = 2
  MaxLate = 1
PROPERTIES
  ImplementsReplicas
  PushPlacesLog
