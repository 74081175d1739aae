\* One commit fails.
SPECIFICATION Spec
CONSTANTS
  d1 = d1
  p1 = p1
  NoDelivery = NoDelivery
  Poison <- MCPoison
  Delivery <- MCDeliveries
  MaxCrashes = 0
  MaxOutages = 0
  MaxFaults = 1
INVARIANT PublishedHasRow
CHECK_DEADLOCK FALSE
