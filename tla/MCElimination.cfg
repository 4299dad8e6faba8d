SPECIFICATION Spec
CONSTANTS
  NVars = 5
  Scripts <- MCScripts
INVARIANTS
  TypeOK
  OccurrencesRight
  Equivalent
  SubsumptionDone
PROPERTIES
  ModelsRight
  KeepsPromise
CHECK_DEADLOCK FALSE
