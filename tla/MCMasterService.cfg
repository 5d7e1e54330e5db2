SPECIFICATION ServiceSpec
CONSTANTS
  t1 = t1
  t2 = t2
  w1 = w1
  w2 = w2
  k1 = k1
  k2 = k2
  Thread = {t1}
  Worker = {w1, w2}
  Key = {k1, k2}
  MaxCalls = 5
  MaxCrashes = 1
INVARIANTS
  ListIsRegistry
  RowsAnswerTheKey
  NobodyMissing
  
PROPERTIES
  FindMatchesReturns
CHECK_DEADLOCK FALSE
