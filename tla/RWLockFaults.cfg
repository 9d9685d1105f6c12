CONSTANTS
  Readers = {p1}
  Writers = {p1, p2, p3, p4}
  MaxAdj = 2
SPECIFICATION SpecFaults
INVARIANTS Exclusion AllReleased
PROPERTY LockProgress
