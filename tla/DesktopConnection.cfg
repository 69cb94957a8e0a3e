CONSTANTS
  User = {u1, u2}
  Socket = {s1, s2, s3}
  NoUser = NoUser
  NoSocket = NoSocket
  Unasked = Unasked
SPECIFICATION FairConnectionSpec
CHECK_DEADLOCK FALSE
INVARIANTS
  OneConnection
PROPERTY KeepsTrying
