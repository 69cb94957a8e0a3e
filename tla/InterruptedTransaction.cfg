CONSTANTS
  t1 = t1
  t2 = t2
  w1 = w1
  Operation <- MCOperation
  Transactional <- MCTransactional
  Steps = 2
  Providers <- OnlySqlite
  NoOperation = NoOperation
SPECIFICATION StorageSpec
CHECK_DEADLOCK FALSE
INVARIANT RollsBack
