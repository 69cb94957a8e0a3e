SPECIFICATION Spec
CONSTANTS
  User = {alice}
  Org = org
  Writer = {w1, w2}
  Caller = {c}
  Tool = {t}
  First = first
  None = none
CHECK_DEADLOCK FALSE
PROPERTY RefreshKeepsCredentials
