SPECIFICATION Spec
CONSTANTS
  MaxSessions = 2
  MaxPanes = 1
INVARIANTS
  ExitReportedOnce
  ProcessHasOwner
  CloseWaitsForHook
PROPERTIES
  ExitHandled
  CloseDecided
CHECK_DEADLOCK FALSE
