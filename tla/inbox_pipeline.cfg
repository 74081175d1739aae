\* Crashes, one Redis outage and two failing commits; deadlock is the idle system.
SPECIFICATION FairSpec
CONSTANTS
  d1 = d1
  p1 = p1
  NoDelivery = NoDelivery
  Poison <- MCPoison
  Delivery <- MCDeliveries
  MaxCrashes = 2
  MaxOutages = 1
  MaxFaults = 2
INVARIANTS
  TypeOK
  PublishedHasRowUnlessLocked
  AtMostTwice
  StrandedBounded
  CompletedInlineIsDecided
PROPERTIES
  SettledIsFinal
  StoredIsSettled
CHECK_DEADLOCK FALSE
