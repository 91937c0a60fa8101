SPECIFICATION SpecWaited
CONSTANTS
  MAX_TASKS = 6
  LOGGER_TICKS = 2
  TICK_CAP = 3
INVARIANTS
  TypeOK
  RunningIsInFlight
  InFlightSlotKept
  ShellNeverLost
  BoundedBypass
PROPERTIES
  OnlyDeadSlotsReused
  DeadStayDead
  ImplementsPool
  ReadyTasksRun
  LoggerRetires
