CONSTANTS
  MaxCount = 3
  Modes = {"watch", "top"}
  TopN = 2
  Interval = 2
  MaxInterval = 3
SPECIFICATION Spec
INVARIANT OverlayRowsFresh
PROPERTIES StopRestores AiServed ViewGoesOn
CHECK_DEADLOCK FALSE
