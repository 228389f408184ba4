CONSTANTS
  h1 = h1
  h2 = h2
  Handlers = {h1, h2}
  Work <- MCWork
  Cap = 2
  MaxFaults = 2
  MaxSerial = 8
SPECIFICATION FairSpec
INVARIANTS
  Conserved
  OvertakenWereRequeued
PROPERTIES
  Delivered
  LossyDelivery
CHECK_DEADLOCK FALSE
