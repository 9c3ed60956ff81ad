SPECIFICATION Spec
CONSTANTS
  None = None
  Names = {s1}
  AutoStart = {s1}
  RestartOnCrash = {s1}
  MaxRestarts = 1
  MaxTerminals = 3
  MaxTasks = 2
INVARIANTS
  TypeOK
  StatusIsBacked
  NoStrayProcess
PROPERTIES
  StopWinsOverRestart
  RestartEnds
