SPECIFICATION Spec
CONSTANTS
  Inputs <- MCInputs
  Hash <- MCHash
  InitialSize = 2
  MaxCalls = 5
INVARIANTS
  HoldsTheKeys
  RefusedOutOfOrder
  Minimal
  TableHasRoom
  StackIsLastKey
  SharedStatesFlagged
PROPERTIES
  CallsReturn
CHECK_DEADLOCK FALSE
