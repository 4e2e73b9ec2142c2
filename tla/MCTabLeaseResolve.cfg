SPECIFICATION Spec
CONSTANTS
  t1 = t1
  t2 = t2
  a = a
  b = b
  Dive = Dive
  Nobody = Nobody
  Active = Active
  NoTab = NoTab
  DefaultTtl = 2
  MaxTtl = 3
  Horizon = 2
  Ttls <- MCTtls
  Tabs <- MCTabs
  Clients <- MCClients
  Runs <- MCNoRuns
PROPERTIES
  ClientRefused
CHECK_DEADLOCK FALSE
