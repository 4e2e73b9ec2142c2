INIT MCInit
NEXT MCNext
CONSTANTS
  Profiles = {1, 2}
  Addresses = {"a"}
  Titles = {"x", "y"}
  MaxMinutes = 3
  MaxVisits = 3
  MaxStreak = 4
  Newest = 2
  DeepDamage = TRUE
  Frames <- MCFrames
  Kinds <- MCKinds
  Groups <- MCGroups
  Scopes = {1, 2}
  MaxAsks = 2
  MaxLabels = 2
  MaxSets = 1
  Urls = {"a", "b"}
  MaxLoads = 3
  MaxCommits = 1
  Buffer = 2
  Pages = {"a", "b"}
  MaxDownloads = 2
  Modes <- MCModes
  Stoppers = {"chrome", "tab"}
  MaxSessions = 3
  Actors = {"agent", "client"}
  Agent = "agent"
  MaxActs = 4
  MaxAttempts = 1
  MaxViews = 2
  MaxCrashes = 3
INVARIANTS
  HistoryExact
  CountsCrashes
  DataKept
  ErrorHonest
  OwnOutcome
  FramesKept
  TapAccounted
  LitWhileDriven
  Budget
  Answered
PROPERTIES
  GrantJustified
CHECK_DEADLOCK FALSE
