SPECIFICATION Spec
CONSTANTS
  Pid = {p1, p2}
  Shell = {s1, s2}
INVARIANT OneDaemon
