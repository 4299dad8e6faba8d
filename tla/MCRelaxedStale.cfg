SPECIFICATION Spec
CONSTANTS
  NVars = 2
  MaxMems = 60
  MaxSteps = 9
  Threshold = 1
  Scripts <- TwoQuestions
  StateChange = 0
  RestartsGap = 1
  MaxStarts = 3
  MaxLearnts = 1
  MaxLits = 2
INVARIANT ValuesRight
CHECK_DEADLOCK FALSE
