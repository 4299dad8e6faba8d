SPECIFICATION Spec
CONSTANTS
  NoName = ""
  Texts <- MCTexts
  Jobs <- LibraryJobs
INVARIANTS
  TypeOK LookupsRight OnStackIsPath ChildrenFirst RoundTrip HandsOverGraph
PROPERTIES
  CheckExact ReencodePreserves CallsReturn
CHECK_DEADLOCK FALSE
