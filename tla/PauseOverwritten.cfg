SPECIFICATION Spec
CONSTANTS
  MaxAsks = 1
  MaxWorkers = 1
  MaxCommands = 1
  MaxCrashes = 0
PROPERTY PauseHolds
CHECK_DEADLOCK FALSE
