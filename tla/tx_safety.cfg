SPECIFICATION LiveSpec
CHECK_DEADLOCK FALSE
CONSTANTS
  t1 = t1
  p1 = p1
  Shared = Shared
  Txs <- MCOneTx
  Pipes <- MCOnePipe
  Size = 3
INVARIANTS
  TypeOK
  Isolated
  FailedEarlyNeverRuns
  EntriesMatch
PROPERTIES
  Atomic
  TransactionsFinish
  EveryRequestAnswered
