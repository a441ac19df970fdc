SPECIFICATION Spec
CONSTANTS
  Jobs <- MCJobs
  BatchSize = 2
  MaxRows = 4
  FsFaults = TRUE
INVARIANTS
   
  StructureCountsBody
  PackageComplete
  OutcomeReported
PROPERTIES
  SaveReturns
