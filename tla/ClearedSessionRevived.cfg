CONSTANTS
  owner = owner
  other = other
  r1 = r1
  r2 = r2
  r3 = r3
  Account = {owner, other}
  Owner = owner
  NoAccount = NoAccount
  Request = {r1, r2, r3}
  Timeout = 2
  Heartbeat = 1
  MaxEvictions = 1
SPECIFICATION Spec
CHECK_DEADLOCK FALSE
INVARIANTS
  ClearedForGood
