SPECIFICATION Spec
CONSTANTS
  FRAMES = 8
  MAX_REGIONS = 3
  HEAP_PAGES = 3
  TABLES = 2
  PAGE = 2
  Elfs <- Kernels
INVARIANTS
  TypeOK
  NoFrameTwice
  NothingOverwritten
  SegmentsLoaded
  NoTableAtNull
  PanicOnlyWhenShort
