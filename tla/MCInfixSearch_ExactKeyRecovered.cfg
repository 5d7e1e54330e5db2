SPECIFICATION SearchSpec
CONSTANTS
  a = a
  b = b
  STAR = STAR
  NUL = NUL
  MaxWordLen = 3
  MaxKeyLen = 3
  MaxLines = 3
  Char <- MCChar
  Words <- MCWords
  Keys <- MCKeys
INVARIANTS
  ExactKeyRecovered
CHECK_DEADLOCK FALSE
