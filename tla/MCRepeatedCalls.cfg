CONSTANTS
  talk = talk
  bots = bots
  s1 = s1
  s2 = s2
  none = none
  k1 = k1
  k2 = k2
  c1 = c1
  d2 = d2
  Batches = {talk, bots}
  Kind <- MCKind
  Content <- MCContent
  Links = {1, 2}
  Shops = {s1, s2}
  NoShop = none
  Templates = {k1, k2, c1, d2}
  Type <- MCType
  MyOf <- MCMyOf
  Defaults = {d2}
  InitLinks <- MCInitLinks
  MaxChanges = 1
  MaxFaults = 1
SPECIFICATION Spec
PROPERTY RepeatedCalls
CHECK_DEADLOCK FALSE
