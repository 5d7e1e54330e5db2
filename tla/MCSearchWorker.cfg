SPECIFICATION WorkerSpec
CONSTANTS
  a = a
  b = b
  z = z
  STAR = STAR
  NUL = NUL
  TAB = TAB
  NL = NL
  ZERO = ZERO
  JUNK = JUNK
  MaxLines = 3
  MaxRows = 3
  BufferLen = 6
  Char <- MCChar
  Words <- MCWords
  Keys <- MCKeys
  Byte <- MCByte
  Rows <- MCRows
INVARIANTS
  RowsInPlace
  RowsAreMatches
  AnswerIsComplete
CHECK_DEADLOCK FALSE
