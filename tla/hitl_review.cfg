\* Two reviewers, the sweep, and one crash or failing commit.
SPECIFICATION Spec
CONSTANTS
  Ticket = {t1, t2}
  Session = {s1, s2}
  NoTicket = NoTicket
  TTL = 120
  Step = 60
  Horizon = 240
  MaxFaults = 1
CONSTRAINT OpenedEarly
SYMMETRY Symmetry
INVARIANTS
  TypeOK
  PendingTogether
  ExecutedOnce
  ExecutionRecorded
  HumanSettlementAudited
PROPERTY NoLateExecution
CHECK_DEADLOCK FALSE
