SPECIFICATION Spec
CONSTANTS
  NVars = 3
  Scripts <- ReleaseScripts
PROPERTIES
  TrimsOpenClauses
CHECK_DEADLOCK FALSE
