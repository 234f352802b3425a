SPECIFICATION Spec
CONSTANTS
  x = x
  y = y
  Newline = Newline
  Byte <- MCByte
  MAXLINE = 4
  RIO_BUFSIZE = 2
  MaxBytes = 5
INVARIANTS
  TypeOK
PROPERTIES
  ReadsLines
CHECK_DEADLOCK FALSE
