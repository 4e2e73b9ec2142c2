SPECIFICATION MCSpec
CONSTANTS
  c1 = c1
  c2 = c2
  k1 = k1
  p1 = p1
  j1 = j1
  j2 = j2
  Calls <- MCCalls
  Closers <- MCClosers
  Pauses <- MCPauses
  RuntimeIds <- MCRuntimeIds
  Slots = 2
  Bytes = 3
  MaxSent = 5
  Sizes <- MCSizes
  Jobs <- MCJobs
  MaxFailures = 1
  Attempts = 2
  MaxSteps = 3
  MaxRows = 4
INVARIANTS
  OwnAnswer
  TableExact
  NoStrandedWaiter
  BudgetKept
  InOrder
  ExitClean
  CancelHonest
  ToolsAllowed
  RowsAnswered
PROPERTIES
  ImplementsPromise
  OverloadReported
  ImplementsGate
  JobSettles
  StopEnds
CHECK_DEADLOCK FALSE
