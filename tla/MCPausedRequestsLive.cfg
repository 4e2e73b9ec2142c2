SPECIFICATION PausedSpec
CONSTANTS
  r1 = r1
  r2 = r2
  Reqs <- MCReqs
  MaxDoc = 2
  MaxInFlight = 1
  BusCap = 1
  MaxErrors = 0
INVARIANTS
  NoOrphan
PROPERTIES
  Unstuck
  StaysOn
CHECK_DEADLOCK FALSE
