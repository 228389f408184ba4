CONSTANTS
  Users = {u1, u2}
  Processes = {p1, p2, p3}
  Nothing = Nothing
  MaxSums = 1
  MaxFaults = 1
SPECIFICATION Spec
SYMMETRY Symmetry
INVARIANTS
  CountRight
PROPERTIES
  ColumnsKept
  MsgsKept
CHECK_DEADLOCK FALSE
