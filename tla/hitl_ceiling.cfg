\* Two reviewers, no crash and no failing commit.
SPECIFICATION Spec
CONSTANTS
  Ticket = {t1, t2}
  Session = {s1, s2}
  NoTicket = NoTicket
  TTL = 120
  Step = 60
  Horizon = 180
  MaxFaults = 0
SYMMETRY Symmetry
INVARIANT ApprovedCeilingExecuted
CHECK_DEADLOCK FALSE
