SPECIFICATION RequestsSpec
CONSTANTS
  None = None
  Roots = {r1}
  Workers = {w1}
  Tasks = {t1, t2}
  Panes = {p1}
  ExitCodeWorkers = {}
  MaxWorkersPerRoot = 1
  MaxWorkersPerInstance = 1
  MaxQueued = 1
  TotalStarts = 1
  Messages = {m1, m2}
  Commands = {c1, c2}
  MaxAttempts = 2
  MaxPosts = 3
  MaxUnread = 2
SYMMETRY RequestSymmetry
INVARIANTS
  RequestAppliedOnce
  NoLostWakeup
PROPERTIES
  RetryReplays
