CONSTANTS
  e1 = e1
  e2 = e2
  c1 = c1
  c2 = c2
  c3 = c3
  Execution = {e1, e2}
  Call = {c1, c2, c3}
  ExecOf <- MCExecOf
  Gated = {c1, c3}
  Request = {1, 2, 3}
  CodeExecutors <- OneAtATimeOrAtOnce
  MaxPause = 3
  NoCall = NoCall
  NoExecution = NoExecution
  NoRequest = NoRequest
SPECIFICATION FairSpec
CONSTRAINT Sorted
CHECK_DEADLOCK FALSE
INVARIANTS
  ResumeDrivesOnce
  RunsOnlyApproved
  SerialPausesSurface
PROPERTIES
  NoEffectAfterEnd
  ImplementsProtocol
  RequestsReturn
