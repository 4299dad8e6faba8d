SPECIFICATION Spec
CONSTANTS
  Files <- AllFiles
  FileFaults = TRUE
  Kmax = 3
  Solve <- Oracle
INVARIANTS
  TypeOK ClausesLaidOut OnlyThisStepAssumed VarsAllocated InputHistory
  AnswerExact
PROPERTIES FreshNumbering ImplementsPromise Terminates
CHECK_DEADLOCK FALSE
