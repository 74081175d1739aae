\* A dispatch beside two reloads and edits of the file, with restarts.
SPECIFICATION Spec
CONSTANTS
  Retry = Retry
  Dunning = Dunning
  Growth = Growth
  Agent = {Retry, Dunning, Growth}
  Dispatch = {d1}
  Reload = {r1, r2}
  Config <- Edits
  Defaults <- First
  Customer <- Customers
  Amount <- Amounts
  Discount <- Discounts
  Confidence <- Confidences
INVARIANTS
  TypeOK
  TableIsOneConfiguration
  ConsistentUnlessReloaded
  ChannelWasListed
  WinnerEarnsItsDiscount
CHECK_DEADLOCK FALSE
