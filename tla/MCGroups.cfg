\* Two roots of one worker each, both decided by their exit code or a report; an
\* assignment per worker or both for one.  A third worker asks past the limit of
\* its root or its budget, and, for the spare root, past the limit of all roots.
SPECIFICATION Spec
CONSTANTS
  None = None
  Roots = {r1, r2, r3}
  Workers = {w1, w2, w3}
  Tasks = {t1, t2, t3}
  SpareRoot = r3
  SpareWorker = w3
  SpareTask = t3
  Panes = {p1}
  ExitCodeWorkers = {w1, w2}
  MaxWorkersPerRoot = 1
  MaxWorkersPerInstance = 2
  MaxQueued = 2
  TotalStarts = 2
CONSTRAINT SparesAtTheLimits
SYMMETRY GroupSymmetry
INVARIANTS
  OpenTaskHasLiveWorker
  CurrentAndOneBeside
  StartedInOrder
  EndAnnouncedOnce
  ClosedGroupStopped
  CapacityHeld
  OneActiveRootPerTerminal
PROPERTIES
  EndsAreFinal
  KeepsContract
