\* Nothing fails.
SPECIFICATION FairSpec
CONSTANTS
  d1 = d1
  p1 = p1
  NoDelivery = NoDelivery
  Poison <- MCPoison
  Delivery <- MCOnePoison
  MaxCrashes = 0
  MaxOutages = 0
  MaxFaults = 0
PROPERTY QueuedIsTaken
CHECK_DEADLOCK FALSE
