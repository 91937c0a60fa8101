SPECIFICATION Spec
CONSTANTS
  MAX_LINE_LEN = 1
  MAX_QUEUE_DEPTH = 1
  MAX_HISTORY = 1
  TYPED_MAX = 3
INVARIANTS
  TypeOK
  SerialExactlyOnce
  KeysNotLost
  BufferIsReplay
  ConsolesComplete
