SPECIFICATION Spec
CONSTANTS
  t1 = t1
  Tabs <- MCTabs
  MaxLooks = 1
  MaxStarts = 2
  MaxPosted = 1
PROPERTIES
  OnlyFailedLost
CHECK_DEADLOCK FALSE
