SPECIFICATION Spec
CONSTANTS
  Files <- BrokenFile
  FileFaults = TRUE
  Kmax = 2
  Solve <- Oracle
INVARIANT NoAnswerAfterError
CHECK_DEADLOCK FALSE
