CONSTANTS
  Procs = {1, 2, 3}
  Listed = {1, 2}
  Modes = {"watch", "top", "stream"}
  TopN = 2
  MaxWatch = 3
  Failures = {"list"}
SPECIFICATION Spec
INVARIANT RowsKeepTheirProcess
PROPERTY OnlyExitedDropped
CHECK_DEADLOCK FALSE
