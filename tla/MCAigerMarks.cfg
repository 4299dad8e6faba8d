SPECIFICATION Spec
CONSTANTS
  NoName = ""
  Texts <- MCTexts
  Jobs <- MarkJobs
PROPERTIES
  CheckExact
CHECK_DEADLOCK FALSE
