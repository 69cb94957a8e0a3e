SPECIFICATION DaemonSpec
CONSTANTS
  Pids = {p1, p2, p3}
  Scopes = {s1}
  Ports = {d, e, f}
  Preferred = d
  Other = Other
  MaxCommands = 3
  Absent = Absent
SYMMETRY Interchangeable
INVARIANT StartsAlone
INVARIANT OneDaemon
CHECK_DEADLOCK FALSE
