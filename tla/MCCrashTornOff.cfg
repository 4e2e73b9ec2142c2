SPECIFICATION CrashSafety
CONSTANTS
  MaxAttempts = 1
  MaxViews = 2
  MaxCrashes = 3
INVARIANT
  ShownIsReloaded
CHECK_DEADLOCK FALSE
