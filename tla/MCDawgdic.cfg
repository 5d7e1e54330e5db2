SPECIFICATION ToolSpec
CONSTANTS
  Inputs <- MCInputs
  Hash <- MCHash
  InitialSize = 2
  MaxCalls = 20
  Block = 4
  OffsetMax = 4
  BitXor <- MCXor
  Unfixed = 2
  Lexicons <- MCLexicons
  Queries <- MCQueries
  Tools = {"find"}
  MaxValue = 3
  MaxQueries = 1
INVARIANTS
  DictionaryIsLexicon
  FreeListSound
PROPERTIES
  ToolSettles
CHECK_DEADLOCK FALSE
