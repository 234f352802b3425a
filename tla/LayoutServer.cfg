SPECIFICATION Spec
CONSTANTS
  FileSize = 3
  AnswerSize = 2
  Uris <- MCUris
  Ranges <- MCRanges
  MaxLines = 4
INVARIANTS
  TypeOK
  LayoutOnRequest
  RangeHonoured
PROPERTIES
  CompleteRequestEnds
CHECK_DEADLOCK FALSE
