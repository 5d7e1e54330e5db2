SPECIFICATION ToolSpec
CONSTANTS
  Inputs <- MCInputs
  Hash <- MCHash
  InitialSize = 2
  MaxCalls = 20
  Block = 4
  OffsetMax = 8
  BitXor <- MCXor
  Unfixed = 1
  Lexicons <- ValuedLexicons
  Queries <- MCQueries
  Tools = {"complete", "ranked", "gary"}
  MaxValue = 3
  MaxQueries = 2
INVARIANTS
  GuideListsChildren
PROPERTIES
  ImplementsLookup
CHECK_DEADLOCK FALSE
