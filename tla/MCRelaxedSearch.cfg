SPECIFICATION Spec
CONSTANTS
  NVars = 4
  MaxMems = 60
  MaxSteps = 12
  Threshold = 1
  Scripts <- MCScripts
  StateChange = 1
  RestartsGap = 2
  MaxStarts = 4
  MaxLearnts = 1
  MaxLits = 3
INVARIANTS
  TypeOK
  CountsRight
  ScoresRight
  AverageExact
  SolutionsRight
PROPERTIES
  KeepsPromise
CHECK_DEADLOCK FALSE
