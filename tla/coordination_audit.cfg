\* One session at a time; a request may die between two commits.
SPECIFICATION Spec
CONSTANTS
  Request = {r1, r2, r3}
  Customer = {c1}
  Proposals <- MCProposals
  Origins = {"fallback"}
  Rules <- MCDefaultRules
  Risk <- MCRisk
  Start = 750
  Step = 60
  Horizon = 930
  ClientDates <- NoDates
  Slots = 1
  Visit = {}
  VisitTo <- MCVisitTo
  Simulated <- MCSimulated
  SimulatedRisk = {10}
  SimulationEnd = 0
  CooldownHours = 1
  MaxContacts = 2
  WindowHours = 2
  MaxDiscount = 150
INVARIANT EveryDecisionAudited
CHECK_DEADLOCK FALSE
