CONSTANTS
  p1 = p1
  p2 = p2
  p3 = p3
  Readers = {p1, p2, p3}
  Writers = {p1, p2, p3}
  MaxAdj = 2
SPECIFICATION Spec
PROPERTY LockProgressInRange
CHECK_DEADLOCK FALSE
