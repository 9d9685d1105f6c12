CONSTANTS
  Procs = {1, 2}
  Listed = {1, 2}
  Modes = {"top", "stream"}
  TopN = 2
  MaxWatch = 2
  Failures = {}
SPECIFICATION Spec
INVARIANT CpuFromSameProcess
