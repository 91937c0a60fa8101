SPECIFICATION Spec
CONSTANTS
  MAX_TASKS = 4
  LOGGER_TICKS = 0
  TICK_CAP = 1
  MAX_LINE_LEN = 1
  MAX_QUEUE_DEPTH = 1
  MAX_HISTORY = 1
  TYPED_MAX = 2
PROPERTIES
  StrokesHandled
  LinesRun
  PromptReturns
