SPECIFICATION NodeSpec
CONSTANTS
  a = a
  b = b
  d = d
  STAR = STAR
  NUL = NUL
  MaxWordLen = 3
  MaxLines = 4
  CharMax = 4
  Char <- MCChar
  Words <- MCWords
INVARIANTS
  NodesSound
  ExitsWhenFull
PROPERTIES
  ImplementsTrie
CHECK_DEADLOCK FALSE
