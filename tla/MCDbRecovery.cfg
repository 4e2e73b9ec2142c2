SPECIFICATION DbSpec
CONSTANTS
  Newest = 2
  DeepDamage = FALSE
PROPERTIES
  CopyKept
CHECK_DEADLOCK FALSE
