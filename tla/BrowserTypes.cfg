SPECIFICATION Spec
CONSTANTS
  Names = {a, b}
  Sessions = {s1, s2, s3}
  Calls = {c1, c2}
  MaxSessions = 1
  MaxClosed = 1
  None = None
SYMMETRY Interchangeable
INVARIANT TypeOK
CHECK_DEADLOCK FALSE
