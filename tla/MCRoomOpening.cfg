CONSTANTS
  l1 = l1  l2 = l2  r1 = r1  r2 = r2  u1 = u1  c1 = c1  c2 = c2
  m1 = m1  m2 = m2  s1 = s1  p1 = p1  p2 = p2  p3 = p3
  Rooms = {r1, r2}
  Logs = {l1, l2}
  Room <- MCRoom
  User <- MCUser
  Owner <- MCOwner
  Users = {u1}
  Codes = {c1, c2}
  CodeOwner <- MCCodeOwner
  NoCode = NoCode
  NoLog = NoLog
  Nobody = Nobody
  NoShop = NoShop
  Limit = 1
  Processes = {p1, p2, p3}
  MaxFaults = 1
SPECIFICATION Spec
SYMMETRY ProcessSymmetry
INVARIANTS
  LinkOnce
PROPERTIES
  OpenedOwned
  OwnerKept
  DecidedOnce
CHECK_DEADLOCK FALSE
