SPECIFICATION LaunchSpec
CONSTANTS
  None = None
  Roots = {r1}
  Workers = {w1}
  Tasks = {t1, t2}
  Panes = {p1}
  ExitCodeWorkers = {}
  MaxWorkersPerRoot = 2
  MaxWorkersPerInstance = 2
  MaxQueued = 2
  TotalStarts = 2
  StoreMayFail = FALSE
INVARIANT OneRunningAssignment
