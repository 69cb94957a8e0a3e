CONSTANTS
  e1 = e1
  e2 = e2
  c1 = c1
  c2 = c2
  c3 = c3
  Execution = {e1, e2}
  Call = {c1, c2, c3}
  ExecOf <- MCExecOf
  Gated = {c1, c3}
  Request = {r1, r2, r3}
  CodeExecutors <- OnlyQuickJs
  MaxPause = 3
  NoCall = NoCall
  NoExecution = NoExecution
  NoRequest = NoRequest
SPECIFICATION FairSpec
CHECK_DEADLOCK FALSE
INVARIANT EveryPauseSurfaces
