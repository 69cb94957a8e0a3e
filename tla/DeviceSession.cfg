CONSTANTS
  d1 = d1
  d2 = d2
  s1 = s1
  s2 = s2
  s3 = s3
  u1 = u1
  u2 = u2
  r1 = r1
  Device = {d1, d2}
  User = {u1, u2}
  Socket = {s1, s2, s3}
  DeviceOf <- MCDeviceOf
  Request = {r1}
  Author <- MCAuthor
  Fallbacks = {TRUE, FALSE}
  NoUser = NoUser
  NoDevice = NoDevice
  NoSocket = NoSocket
SPECIFICATION FairSpec
CHECK_DEADLOCK FALSE
INVARIANTS
  SentToItsAuthor
  ConnectedIsOnline
  AwaitedIsOnline
PROPERTIES
  ConnectedIsFound
  EverySentIsAnswered
