INIT MCInit
NEXT MCNext
CONSTANTS
  t1 = t1
  a = a
  b = b
  p1 = p1
  r1 = r1
  r2 = r2
  Dive = Dive
  Nobody = Nobody
  Active = Active
  NoTab = NoTab
  DefaultTtl = 2
  MaxTtl = 3
  Horizon = 4
  Ttls <- MCTtls
  Tabs <- MCTabs
  Clients <- MCClients
  Runs <- MCRuns
  Reqs <- MCReqs
  MaxDoc = 2
  MaxInFlight = 2
  BusCap = 1
  MaxErrors = 2
SYMMETRY Symmetric
INVARIANTS
  NeverShutOut
  AbandonedLapses
  Protected
PROPERTIES
  OneDriver
  NamedRefused
  HolderKeeps
CHECK_DEADLOCK FALSE
