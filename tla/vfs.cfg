SPECIFICATION Spec
CONSTANTS
  Names = {"bin", "init"}
  Contents = {"empty", "sh"}
  MAX_NODES = 4
  MAX_DEPTH = 3
  MAX_SEGS = 2
INVARIANTS
  TypeOK
  ResolveIsWalk
  ReadersAgree
PROPERTIES
  CwdLostByRemove
  ImplementsFileTree
VIEW KernelState
