SPECIFICATION FairSpec
CONSTANTS
  FileSize = 1
  AnswerSize = 1
  Uris <- MCTwoUris
  Ranges <- MCNoRanges
  MaxLines = 3
PROPERTIES
  QuitsAfterOneCycle
CHECK_DEADLOCK FALSE
