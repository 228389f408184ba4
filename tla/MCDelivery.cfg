CONSTANTS
  Messages = {m1, m2, m3}
  Prefetch = 2
  MaxFaults = 1
SPECIFICATION FairSpec
PROPERTY AtLeastOnceDelivery
CHECK_DEADLOCK FALSE
