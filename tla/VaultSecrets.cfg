SPECIFICATION Spec
CONSTANTS
  Users = {u1}
  Org = org
  Values = {v1, v2}
  Calls = {c1, c2}
  MaxAttempts = 3
  None = None
SYMMETRY Interchangeable
INVARIANT PromisesKept
INVARIANT ListedHasValue
PROPERTY RefusedAfterConflicts
