CONSTANTS
  m1 = m1
  m2 = m2
  Messages = {m1, m2}
  Replies <- MCReplies
  Prefetch = 2
  Cap = 1
  MaxFaults = 1
SPECIFICATION FairSpec
INVARIANTS
  AckedAnswered
  NoOrphan
  OnlyWedgeStops
PROPERTIES
  StalledForGood
  EndToEnd
CHECK_DEADLOCK FALSE
