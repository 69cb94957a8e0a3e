CONSTANTS
  i1 = i1
  i2 = i2
  s1 = s1
  d1 = d1
  x1 = x1
  x2 = x2
  Invoke = {i1, i2}
  Reauth = {}
  Remove = {}
  Executor = {x1, x2}
  RunsOn <- Apart
  Databases <- OnlyPostgres
  MaxTokens = 3
  NoOp = NoOp
SPECIFICATION FairSpec
CHECK_DEADLOCK FALSE
PROPERTY TerminalReauth
