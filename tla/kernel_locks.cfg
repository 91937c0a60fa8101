CONSTANT ROUNDS = 1
SPECIFICATION FairSpec
\* The kernel really stops: hlt_loop after a panic in a handler, or one of the known deadlocks.
CHECK_DEADLOCK FALSE
INVARIANTS
  TypeOK
  HandlerLocksFree
  OnlyKnownDeadlocks
  PanicNeverBlocked
PROPERTY InterruptsComeBack
