SPECIFICATION SpecShell
CONSTANTS
  Starts <- StartTimes
  LEAD = 7
  UPDATES = 2
  WIDTH = 4
INVARIANTS
  UndisturbedReadIsExact
  CalcExact
