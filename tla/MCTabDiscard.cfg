SPECIFICATION Spec
CONSTANTS
  s1 = s1
  s2 = s2
  t1 = t1
  Sweepers <- MCSweepers
  Tools <- MCTools
  MaxViews = 2
  Unanswered = 2
  MaxQueue = 1
INVARIANTS
  ViewIsLive
PROPERTIES
  GentleClose
  HungSleeps
CHECK_DEADLOCK FALSE
