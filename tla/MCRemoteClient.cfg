SPECIFICATION Spec
CONSTANTS
  Terms = {t1, t2}
  BusSize = 2
  DownSize = 3
  QueueSize = 2
  UpSize = 2
  MaxAttempts = 1
  Budgets <- Scenarios
INVARIANTS
  TypeOK
  InputToItsTerminal
  OutputToItsTerminal
  OutputContinues
  ClientFollows
PROPERTY ClosedTerminalLeaves
CHECK_DEADLOCK FALSE
