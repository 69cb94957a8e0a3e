CONSTANTS
  i1 = i1
  i2 = i2
  s1 = s1
  d1 = d1
  x1 = x1
  x2 = x2
  Invoke = {i1}
  Reauth = {s1}
  Remove = {}
  Executor = {x1}
  RunsOn <- Together
  Databases <- Both
  MaxTokens = 3
  NoOp = NoOp
SPECIFICATION FairSpec
CHECK_DEADLOCK FALSE
INVARIANT ReauthReplaces
