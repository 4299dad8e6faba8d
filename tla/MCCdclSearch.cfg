SPECIFICATION Spec
CONSTANTS
  NVars = 5
  Scripts <- SolverScripts
INVARIANTS
  TypeOK
  TrailOrdered
  ReasonsLive
  WatchersFound
  WatchesHold
  NothingImplied
  Entailed
  SeenClean
PROPERTIES
  AnswersJustified
  KeepsPromise
CHECK_DEADLOCK FALSE
