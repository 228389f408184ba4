CONSTANTS
  t1 = t1  t2 = t2  t3 = t3
  shop = shop  welcome = welcome  keyword = keyword
  q1 = q1  q2 = q2  q3 = q3
  Templates = {t1, t2, t3}
  Sub <- MCSub
  Type <- MCType
  Multi = {keyword}
  Rooms = {r1, r2}
  r1 = r1  r2 = r2  l1 = l1  l2 = l2  l3 = l3
  Links = {l1, l2, l3}
  Room <- MCRoom
  Lists <- MCLists
  Shop <- MCShop
  NoShop = NoShop
  NewStatus = {0}
  Blank = Blank
  Unbound = Unbound
  Requests = {q1, q2, q3}
  MaxFaults = 1
SPECIFICATION Spec
SYMMETRY RequestSymmetry
INVARIANTS
  OneDefault
  DeletedNotDefault
  BoundAlike
  BoundTwiceRaced
  
PROPERTY OnlyStaleUndeletes
CHECK_DEADLOCK FALSE
