SPECIFICATION Spec
CONSTANTS
  GLYPH_HEIGHT = 2
  COLUMNS = 3
  HEIGHT = 5
  LINES = 7
  Printable = {"a", "b"}
  MAX_LINE_LEN = 4
  Outputs <- ShellOutputs
INVARIANTS
  TypeOK
  NothingBelowCursor
  LineOnScreen
PROPERTY ImplementsText
