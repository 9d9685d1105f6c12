CONSTANTS
  Messages = {m1, m2}
  Size = 3
  Symbols = {a, b, l}
  Long = {l}
  Values = {v1, v2}
  Capacity = 3
  Workers = {1, 2}
  MaxWorkers = 3
  Limit = 1
  MaxActive = 3
  Masters = {k1, k2}
  Attachers = {w}
SPECIFICATION Spec
INVARIANTS WholeMessages LookupExact ActiveExact InitUndisturbed 
PROPERTIES ImplementsFifo OthersSurvive DeadAreQuiet
CHECK_DEADLOCK FALSE
