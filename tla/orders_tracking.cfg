\* One order, with the retries of the code.
SPECIFICATION Spec
CONSTANTS
  Request = {r1}
  MaxRetries = 2
  MaxCrashes = 1
  MaxFaults = 2
INVARIANTS
  TypeOK
  OrdersBounded
  PaidIsCaptured
  ShowsLastDelivery
  HandledHasRow
CHECK_DEADLOCK FALSE
