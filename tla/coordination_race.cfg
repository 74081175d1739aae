\* Two sessions at a time, client-dated proposals, and a visit of a simulation.
SPECIFICATION RaceSpec
CONSTANTS
  Request = {r1, r2, r3}
  Customer = {c1}
  Proposals <- MCRaceProposals
  Origins = {"live", "hitl"}
  Rules <- MCCapRules
  Risk <- MCRisk
  Start = 600
  Step = 60
  Horizon = 660
  ClientDates <- MCClientDates
  Slots = 2
  Visit = {v1}
  VisitTo <- MCVisitTo
  Simulated <- MCSimulated
  SimulatedRisk = {10}
  SimulationEnd = 0
  CooldownHours = 0
  MaxContacts = 1
  WindowHours = 2
  MaxDiscount = 150
SYMMETRY Symmetry
INVARIANTS
  TypeOK
  NoDuplicateContact
  RecordedWithinBudget
  LastContactWasMade
  AnsweredIsAudited
  FrequencyOvershootBounded
  RowNeverOvercounts
CHECK_DEADLOCK FALSE
