\* Two runs of any kind beside live decisions, an edit, an error and a crash.
SPECIFICATION FairSpec
CONSTANTS
  Run = {r1, r2}
  NoRun = NoRun
  Live = {l1}
  MaxEdits = 1
  MaxFaults = 1
  MaxCrashes = 1
INVARIANTS
  TypeOK
  SlotConserved
  SimulatedRowsInvisible
  StartsClean
  OneRuleSet
PROPERTIES
  LiveRowsSurvive
  JobsSettle
CHECK_DEADLOCK FALSE
