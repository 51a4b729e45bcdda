SPECIFICATION FairSpec
CONSTANTS
  NoDelivery = NoDelivery
  Deliveries = {d1}
  MaxRecent = 2
  MaxFailures = 2
  MaxPumps = 1
PROPERTY StopEnds
CHECK_DEADLOCK FALSE
