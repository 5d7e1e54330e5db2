SPECIFICATION TrieSpec
CONSTANTS
  a = a
  b = b
  STAR = STAR
  NUL = NUL
  None = None
  MaxWordLen = 3
  MaxLines = 4
  Char <- MCChar
  Words <- MCWords
INVARIANTS
  TypeOK
  TrieShape
  StoredAreLines
PROPERTIES
  TurnKeepsWords
  AddReturns
  AddRefinesDictionary
CHECK_DEADLOCK FALSE
