SPECIFICATION Spec
CONSTANTS
  Files <- UndefinedReset
  FileFaults = FALSE
  Kmax = 2
  Solve <- Oracle
INVARIANT NotFoundIsUnreachable
CHECK_DEADLOCK FALSE
