SPECIFICATION Spec
CONSTANTS
  MAX_LINE_LEN = 2
  MAX_QUEUE_DEPTH = 2
  MAX_HISTORY = 2
  TYPED_MAX = 2
INVARIANT TerminalInOrder
