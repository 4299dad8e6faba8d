SPECIFICATION Spec
CONSTANTS
  Files <- NegatedBad
  FileFaults = FALSE
  Kmax = 2
  Solve <- Oracle
INVARIANT NotFoundIsUnreachable
CHECK_DEADLOCK FALSE
