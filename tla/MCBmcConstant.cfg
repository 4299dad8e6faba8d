SPECIFICATION Spec
CONSTANTS
  Files <- ConstantFile
  FileFaults = FALSE
  Kmax = 2
  Solve <- Oracle
INVARIANT FoundIsReachable
CHECK_DEADLOCK FALSE
