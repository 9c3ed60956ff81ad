SPECIFICATION LaunchSpec
CONSTANTS
  None = None
  Roots = {r1, r2}
  Workers = {w1}
  Tasks = {t1}
  Panes = {p1}
  ExitCodeWorkers = {}
  MaxWorkersPerRoot = 2
  MaxWorkersPerInstance = 2
  MaxQueued = 2
  TotalStarts = 2
  StoreMayFail = FALSE
INVARIANT RootExitInterruptsGroup
