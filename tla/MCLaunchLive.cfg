SPECIFICATION FairLaunchSpec
CONSTANTS
  None = None
  Roots = {r1}
  Workers = {w1}
  Tasks = {t1}
  Panes = {}
  ExitCodeWorkers = {}
  MaxWorkersPerRoot = 2
  MaxWorkersPerInstance = 2
  MaxQueued = 2
  TotalStarts = 2
  StoreMayFail = FALSE
INVARIANT LaunchAccounted
PROPERTIES
  StoppedProcessEnds
  LaunchDecided
  EndSettlesWorker
