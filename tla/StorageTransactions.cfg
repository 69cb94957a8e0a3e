CONSTANTS
  t1 = t1
  t2 = t2
  w1 = w1
  Operation <- MCOperation
  Transactional <- MCTransactional
  Steps = 2
  Providers <- BothProviders
  NoOperation = NoOperation
SPECIFICATION StorageFairSpec
CHECK_DEADLOCK FALSE
INVARIANTS
  AllOrNothing
  AcknowledgedStays
  FailedLeavesNothing
PROPERTY ConnectionReleased
