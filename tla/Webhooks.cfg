SPECIFICATION FairSpec
CONSTANTS
  d1 = d1
  c1 = c1
  c2 = c2
  Deliveries <- MCDeliveries
  Copies <- MCCopies
  MaxTriggers = 1
  MaxChanges = 2
  MaxFaults = 2
INVARIANT DeliveryCountsOnce
PROPERTY PushIsBuilt
CHECK_DEADLOCK FALSE
