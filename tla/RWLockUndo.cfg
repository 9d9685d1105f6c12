CONSTANTS
  Readers = {p1, p2}
  Writers = {p1, p2, p3}
  MaxAdj = 2
SPECIFICATION SpecFaults
INVARIANT Exclusion
