SPECIFICATION Spec
CONSTANTS
  MAX_TASKS = 5
  LOGGER_TICKS = 1
  TICK_CAP = 2
PROPERTY KillTerminates
